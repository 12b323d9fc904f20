------------------------ MODULE KeypadBindingProofs ------------------------
(* The safety of KeypadBinding for any number of starts and registrations. *)
EXTENDS KeypadBinding, TLAPS

(* ----------------------------------------------------------------------- *)
(* Where each operation stands in the three lists.                         *)

Last(f) == IF f = "ErrorExit" THEN 8 ELSE 9

(* Each function ends with its last operation.                             *)
LEMMA LastOp == ASSUME NEW f \in Functions PROVE Len(Ops[f]) = Last(f)
<1>1. CASE f = "Start"
  BY <1>1 DEF Functions, Ops, StartOps, Last
<1>2. CASE f = "ErrorExit"
  BY <1>2 DEF Functions, Ops, ErrorExitOps, Last
<1>3. CASE f = "Stop"
  BY <1>3 DEF Functions, Ops, StopOps, Last
<1>4. QED BY <1>1, <1>2, <1>3 DEF Functions

(* Where the operations of Start are.                                      *)
LEMMA StartPlaces ==
  ASSUME NEW i \in 1 .. 9
  PROVE  /\ Ops["Start"][i] = "pool" <=> i = 1
         /\ Ops["Start"][i] = "WaitForKey" <=> i = 2
         /\ Ops["Start"][i] = "WaitForKeyEx" <=> i = 3
         /\ Ops["Start"][i] = "TimerEvent" <=> i = 4
         /\ Ops["Start"][i] = "SetTimer" <=> i = 5
         /\ Ops["Start"][i] = "KeyNotifyProcessEvent" <=> i = 6
         /\ Ops["Start"][i] = "Reset" <=> i = 7
         /\ Ops["Start"][i] = "names" <=> i = 8
         /\ Ops["Start"][i] = "Install" <=> i = 9
<1>1. Ops["Start"] = StartOps
  BY DEF Ops, Functions
<1>2. i = 1 \/ i = 2 \/ i = 3 \/ i = 4 \/ i = 5 \/ i = 6 \/ i = 7 \/ i = 8 \/ i = 9
  OBVIOUS
<1>3. QED BY <1>1, <1>2 DEF StartOps

(* Where the operations of ErrorExit are.                                  *)
LEMMA ErrorExitPlaces ==
  ASSUME NEW i \in 1 .. 8
  PROVE  /\ Ops["ErrorExit"][i] = "WaitForKey" <=> i = 1
         /\ Ops["ErrorExit"][i] = "TimerEvent" <=> i = 2
         /\ Ops["ErrorExit"][i] = "WaitForKeyEx" <=> i = 3
         /\ Ops["ErrorExit"][i] = "KeyNotifyProcessEvent" <=> i = 4
         /\ Ops["ErrorExit"][i] = "NotifyList" <=> i = 5
         /\ Ops["ErrorExit"][i] = "names" <=> i = 6
         /\ Ops["ErrorExit"][i] = "pool" <=> i = 7
         /\ Ops["ErrorExit"][i] = "device" <=> i = 8
<1>1. Ops["ErrorExit"] = ErrorExitOps
  BY DEF Ops, Functions
<1>2. i = 1 \/ i = 2 \/ i = 3 \/ i = 4 \/ i = 5 \/ i = 6 \/ i = 7 \/ i = 8
  OBVIOUS
<1>3. QED BY <1>1, <1>2 DEF ErrorExitOps

(* Where the operations of Stop are.                                       *)
LEMMA StopPlaces ==
  ASSUME NEW i \in 1 .. 9
  PROVE  /\ Ops["Stop"][i] = "TimerEvent" <=> i = 1
         /\ Ops["Stop"][i] = "Uninstall" <=> i = 2
         /\ Ops["Stop"][i] = "device" <=> i = 3
         /\ Ops["Stop"][i] = "WaitForKey" <=> i = 4
         /\ Ops["Stop"][i] = "WaitForKeyEx" <=> i = 5
         /\ Ops["Stop"][i] = "KeyNotifyProcessEvent" <=> i = 6
         /\ Ops["Stop"][i] = "NotifyList" <=> i = 7
         /\ Ops["Stop"][i] = "names" <=> i = 8
         /\ Ops["Stop"][i] = "pool" <=> i = 9
<1>1. Ops["Stop"] = StopOps
  BY DEF Ops, Functions
<1>2. i = 1 \/ i = 2 \/ i = 3 \/ i = 4 \/ i = 5 \/ i = 6 \/ i = 7 \/ i = 8 \/ i = 9
  OBVIOUS
<1>3. QED BY <1>1, <1>2 DEF StopOps

(* ----------------------------------------------------------------------- *)
(* The inductive invariant: what the driver holds is a function of where   *)
(* the running call is.                                                    *)

Open(kind) == [kind |-> kind, context |-> ConsoleIn] \in events

Places ==
  /\ running \in {"Start", "Stop"} => at \in 1 .. 9
  /\ running = "ErrorExit" => at \in 1 .. 8

\* The protocols are not installed yet, or not any more.
Outside == device = "this" /\ ~installed /\ notify = 0 /\ ~pending

StartHolds ==
  running = "Start" =>
    /\ Outside
    /\ at = 1 => starts < MaxStarts
    /\ ConsoleIn # 0 <=> at > 1
    /\ "WaitForKey" \in fields <=> at > 2
    /\ "WaitForKeyEx" \in fields <=> at > 3
    /\ "TimerEvent" \in fields <=> at > 4
    /\ "KeyNotifyProcessEvent" \in fields <=> at > 6
    /\ \A kind \in EventKinds : Open(kind) <=> kind \in fields
    /\ armed => at > 5
    /\ names => at > 8

ErrorExitHolds ==
  running = "ErrorExit" =>
    /\ Outside
    /\ \A e \in events : e.kind \in fields
    /\ Open("WaitForKey") => at <= 1
    /\ Open("TimerEvent") => at <= 2
    /\ Open("WaitForKeyEx") => at <= 3
    /\ Open("KeyNotifyProcessEvent") => at <= 4
    /\ armed => at <= 2
    /\ names => at <= 6
    /\ IF ConsoleIn = 0 THEN fields = {} ELSE at <= 7

StopHolds ==
  running = "Stop" =>
    /\ ConsoleIn # 0
    /\ installed <=> at <= 2
    /\ device = IF at <= 3 THEN "this" ELSE "free"
    /\ "TimerEvent" \in fields => at <= 1
    /\ "WaitForKey" \in fields <=> at <= 4
    /\ "WaitForKeyEx" \in fields <=> at <= 5
    /\ "KeyNotifyProcessEvent" \in fields <=> at <= 6
    /\ \A kind \in EventKinds : Open(kind) <=> kind \in fields
    /\ armed => at <= 1
    /\ pending => at <= 6
    /\ notify > 0 => at <= 7
    /\ names => at <= 8

IdleHolds ==
  running = "none" =>
    IF installed THEN /\ Bound
                      /\ \A e \in events : e.kind \in fields
                      /\ armed => "TimerEvent" \in fields
                 ELSE HoldsNothing /\ fields = {}

FaultHolds ==
  running = "fault" => Outside /\ ~armed /\ events = {}

Inv ==
  /\ TypeOK /\ Places /\ ContextsAreLive /\ (agent => installed)
  /\ StartHolds /\ ErrorExitHolds /\ StopHolds /\ IdleHolds /\ FaultHolds
USE DEF Functions, EventKinds, Outside, Open

(* A call that goes on is at its next operation or has returned.           *)
LEMMA AdvanceGoesOn ==
  ASSUME Inv, running \in Functions, Advance
  PROVE  /\ at < Last(running) => running' = running /\ at' = at + 1
                                  /\ status' = status
         /\ at = Last(running) => running' = "none" /\ at' = 0
         /\ at' \in 0 .. 9
         /\ status' \in {status, "EFI_SUCCESS"}
         /\ level' = level
<1>1. Len(Ops[running]) = Last(running) /\ at \in 1 .. Last(running)
  BY LastOp DEF Inv, Places, Last
<1>2. Last(running) \in {8, 9}
  BY DEF Last
<1>3. QED BY <1>1, <1>2 DEF Advance, Inv, TypeOK

(* Nothing is held at first.                                               *)
LEMMA InitInv == ASSUME Init PROVE Inv
<1>1. TypeOK
  <2>1. events \in SUBSET [kind : EventKinds, context : 1 .. MaxStarts]
    BY DEF Init
  <2>2. /\ starts \in 0 .. MaxStarts
        /\ ConsoleIn \in {0, starts}
        /\ notify \in 0 .. MaxNotify
        /\ at \in 0 .. 9
    BY BoundsAssumption DEF Init
  <2>3. /\ names \in BOOLEAN
        /\ armed \in BOOLEAN
        /\ installed \in BOOLEAN
        /\ agent \in BOOLEAN
        /\ pending \in BOOLEAN
    BY DEF Init
  <2>4. QED BY <2>1, <2>2, <2>3 DEF Init, TypeOK
<1>2. Places /\ ContextsAreLive /\ (agent => installed)
  BY DEF Init, Places, ContextsAreLive
<1>3. StartHolds /\ ErrorExitHolds /\ StopHolds /\ FaultHolds
  BY DEF Init, StartHolds, ErrorExitHolds, StopHolds, FaultHolds
<1>4. IdleHolds
  BY DEF Init, IdleHolds, HoldsNothing
<1>5. QED BY <1>1, <1>2, <1>3, <1>4 DEF Inv

Booleans ==
  /\ names \in BOOLEAN
  /\ armed \in BOOLEAN
  /\ installed \in BOOLEAN
  /\ agent \in BOOLEAN
  /\ pending \in BOOLEAN

(* Start allocates the context, or fails with nothing but the device.      *)
LEMMA AllocatePoolInv == ASSUME Inv, AllocatePool PROVE Inv'
<1>1. running = "Start" /\ at = 1
  BY StartPlaces DEF AllocatePool, Does, Inv, Places
<1>2. /\ Outside /\ starts < MaxStarts /\ starts \in 0 .. MaxStarts
      /\ events = {} /\ fields = {} /\ ConsoleIn = 0 /\ ~armed /\ ~names /\ ~agent
  BY <1>1 DEF Inv, TypeOK, StartHolds, ContextsAreLive
<1>3. CASE Advance
  <2>1. running' = running /\ at' = 2 /\ status' = status /\ level' = level
    BY <1>1, <1>3, AdvanceGoesOn DEF Last
  <2>2. ConsoleIn' = starts' /\ starts' \in 1 .. MaxStarts /\ events' = {}
        /\ fields' = {}
    BY <1>1, <1>2, <2>1, BoundsAssumption DEF AllocatePool, GotoErrorExit
  <2>3. Booleans'
    BY DEF AllocatePool, Inv, TypeOK, Booleans
  <2>4. TypeOK'
    BY <1>1, <2>1, <2>2, <2>3 DEF AllocatePool, Inv, TypeOK, Booleans
  <2>5. StartHolds'
    BY <1>1, <1>2, <2>1, <2>2 DEF AllocatePool, StartHolds
  <2>6. QED
    BY <1>1, <1>2, <2>1, <2>2, <2>4, <2>5
    DEF AllocatePool, Inv, Places, ContextsAreLive,
        ErrorExitHolds, StopHolds, IdleHolds, FaultHolds
<1>4. CASE GotoErrorExit("EFI_OUT_OF_RESOURCES")
  <2>1. Booleans'
    BY DEF AllocatePool, Inv, TypeOK, Booleans
  <2>2. TypeOK'
    BY <1>1, <1>2, <1>4, <2>1 DEF AllocatePool, GotoErrorExit, Advance, Inv, TypeOK, Booleans
  <2>3. QED
  BY <1>1, <1>2, <1>4, <2>2
  DEF AllocatePool, GotoErrorExit, Inv, Places, ContextsAreLive,
      StartHolds, ErrorExitHolds, StopHolds, IdleHolds, FaultHolds
<1>5. QED BY <1>3, <1>4 DEF AllocatePool
(* Every open event is one of the live private data.                       *)
LEMMA OpenEvent ==
  ASSUME Inv, NEW e \in events
  PROVE  e.kind \in EventKinds /\ e.context = ConsoleIn /\ ConsoleIn # 0
         /\ e = [kind |-> e.kind, context |-> ConsoleIn] /\ Open(e.kind)
<1>1. e \in [kind : EventKinds, context : 1 .. MaxStarts]
  BY DEF Inv, TypeOK
<1>2. e.context = ConsoleIn /\ ConsoleIn # 0
  BY DEF Inv, ContextsAreLive
<1>3. QED BY <1>1, <1>2

(* What a failing operation of Start leaves to ErrorExit.                  *)
LEMMA StartFails ==
  ASSUME Inv, running = "Start", GotoErrorExit("EFI_OUT_OF_RESOURCES"),
         UNCHANGED <<device, dataVars, fields, events, armed, installed, agent,
                     pending>>
  PROVE  Inv'
<1>1. Booleans'
  BY DEF Inv, TypeOK, Booleans, dataVars
<1>2. TypeOK'
  BY <1>1 DEF GotoErrorExit, Inv, TypeOK, Booleans, dataVars
<1>3. \A e \in events : e.kind \in fields
  BY OpenEvent DEF Inv, StartHolds
<1>4. ErrorExitHolds'
  <2>1. running' = "ErrorExit" /\ at' = 1
    BY DEF GotoErrorExit
  <2>2. Outside'
    BY DEF Inv, StartHolds, dataVars
  <2>3. ConsoleIn = 0 => fields = {}
    BY DEF Inv, TypeOK, Places, StartHolds
  <2>4. QED BY <1>3, <2>1, <2>2, <2>3 DEF ErrorExitHolds, dataVars
<1>5. ContextsAreLive'
  BY DEF Inv, ContextsAreLive, dataVars
<1>6. QED
  BY <1>2, <1>4, <1>5
  DEF GotoErrorExit, Inv, Places, StartHolds, StopHolds, IdleHolds, FaultHolds

(* Start creates an event of its context, or goes to ErrorExit with those  *)
(* it has.                                                                 *)
LEMMA CreateEventInv ==
  ASSUME Inv, NEW kind \in EventKinds, CreateEvent(kind)
  PROVE  Inv'
<1>1. /\ running = "Start" /\ at \in 1 .. 9 /\ Ops["Start"][at] = kind
  BY DEF CreateEvent, Does, Inv, Places
<1>2. /\ kind = "WaitForKey" => at = 2
      /\ kind = "WaitForKeyEx" => at = 3
      /\ kind = "TimerEvent" => at = 4
      /\ kind = "KeyNotifyProcessEvent" => at = 6
  BY <1>1, StartPlaces
<1>3. CASE Advance /\ events' = events \union {[kind |-> kind, context |-> ConsoleIn]}
                   /\ fields' = fields \union {kind}
  <2>1. running' = running /\ at' = at + 1 /\ status' = status /\ level' = level
    BY <1>1, <1>2, <1>3, AdvanceGoesOn DEF Last
  <2>2. Booleans'
    BY DEF CreateEvent, Inv, TypeOK, Booleans, dataVars
  <2>3. ConsoleIn # 0 /\ ConsoleIn \in 1 .. MaxStarts /\ at \in 2 .. 6
    BY <1>1, <1>2, BoundsAssumption DEF Inv, TypeOK, StartHolds
  <2>4. events' \in SUBSET [kind : EventKinds, context : 1 .. MaxStarts]
    BY <1>3, <2>3 DEF Inv, TypeOK
  <2>5. TypeOK'
    BY <1>1, <1>3, <2>1, <2>2, <2>3, <2>4
    DEF CreateEvent, Inv, TypeOK, Booleans, dataVars
  <2>6. ContextsAreLive'
    BY <1>3, <2>3 DEF CreateEvent, Inv, ContextsAreLive, dataVars
  <2>7. StartHolds'
    <3>1. /\ Outside' /\ ConsoleIn' = ConsoleIn /\ at' > 1
          /\ armed' => at' > 5
          /\ names' => at' > 8
      BY <1>1, <2>1, <2>3 DEF CreateEvent, Inv, StartHolds, dataVars
    <3>2. /\ "WaitForKey" \in fields' <=> at' > 2
          /\ "WaitForKeyEx" \in fields' <=> at' > 3
          /\ "TimerEvent" \in fields' <=> at' > 4
          /\ "KeyNotifyProcessEvent" \in fields' <=> at' > 6
      BY <1>1, <1>2, <1>3, <2>1, <2>3 DEF Inv, StartHolds
    <3>3. \A k \in EventKinds : Open(k)' <=> k \in fields'
      <4> TAKE k \in EventKinds
      <4>1. Open(k) <=> k \in fields
        BY <1>1 DEF Inv, StartHolds
      <4>2. QED BY <1>3, <3>1, <4>1
    <3>4. QED BY <2>3, <3>1, <3>2, <3>3 DEF StartHolds
  <2>8. QED
    BY <1>1, <2>1, <2>3, <2>5, <2>6, <2>7
    DEF CreateEvent, Inv, Places, ErrorExitHolds, StopHolds, IdleHolds, FaultHolds
<1>4. CASE GotoErrorExit("EFI_OUT_OF_RESOURCES") /\ UNCHANGED <<events, fields>>
  BY <1>1, <1>4, StartFails DEF CreateEvent
<1>5. QED BY <1>3, <1>4 DEF CreateEvent
(* The other operations of Start.                                          *)
LEMMA StartGoesOn ==
  ASSUME Inv, running = "Start", at \in {5, 7, 8}, Advance,
         UNCHANGED <<device, starts, ConsoleIn, notify, fields, events,
                     installed, agent, pending>>,
         armed' \in BOOLEAN, armed' => armed \/ at = 5,
         names' \in BOOLEAN, names' => names \/ at = 8
  PROVE  Inv'
<1>1. running' = running /\ at' = at + 1 /\ status' = status /\ level' = level
  BY AdvanceGoesOn DEF Last
<1>2. Booleans'
  BY DEF Inv, TypeOK, Booleans
<1>3. TypeOK'
  BY <1>1, <1>2 DEF Inv, TypeOK, Booleans
<1>4. StartHolds'
  BY <1>1 DEF Inv, StartHolds
<1>5. ContextsAreLive'
  BY DEF Inv, ContextsAreLive
<1>6. QED
  BY <1>1, <1>3, <1>4, <1>5
  DEF Inv, Places, ErrorExitHolds, StopHolds, IdleHolds, FaultHolds

(* Start arms the timer of an open event.                                  *)
LEMMA SetTimerInv == ASSUME Inv, SetTimer PROVE Inv'
<1>1. running = "Start" /\ at = 5
  BY StartPlaces DEF SetTimer, Does, Inv, Places
<1>2. CASE armed' = TRUE /\ Advance
  BY <1>1, <1>2, StartGoesOn DEF SetTimer, dataVars, Inv, TypeOK
<1>3. CASE GotoErrorExit("EFI_OUT_OF_RESOURCES") /\ UNCHANGED armed
  BY <1>1, <1>3, StartFails DEF SetTimer
<1>4. QED BY <1>2, <1>3 DEF SetTimer

(* The reset of the device changes nothing that is held.                   *)
LEMMA ResetInv == ASSUME Inv, Reset PROVE Inv'
<1>1. running = "Start" /\ at = 7
  BY StartPlaces DEF Reset, Does, Inv, Places
<1>2. QED BY <1>1, StartGoesOn DEF Reset, dataVars, Inv, TypeOK

(* The names are added before the protocols are there.                     *)
LEMMA AddNamesInv == ASSUME Inv, AddNames PROVE Inv'
<1>1. running = "Start" /\ at = 8
  BY StartPlaces DEF AddNames, Does, Inv, Places
<1>2. QED BY <1>1, StartGoesOn DEF AddNames, Inv, TypeOK

(* Installing the protocols ends a Start that holds everything.            *)
LEMMA InstallInv == ASSUME Inv, Install PROVE Inv'
<1>1. running = "Start" /\ at = 9
  BY StartPlaces DEF Install, Does, Inv, Places
<1>2. CASE installed' = TRUE /\ Advance
  <2>1. running' = "none" /\ at' = 0 /\ level' = level
        /\ status' \in {status, "EFI_SUCCESS"}
    BY <1>1, <1>2, AdvanceGoesOn DEF Last
  <2>2. Booleans'
    BY <1>2 DEF Install, Inv, TypeOK, Booleans, dataVars
  <2>3. TypeOK'
    BY <2>1, <2>2 DEF Install, Inv, TypeOK, Booleans, dataVars
  <2>4. IdleHolds'
    <3>1. /\ installed' /\ device' = "this" /\ ConsoleIn' # 0
          /\ EventKinds \subseteq fields'
      BY <1>1, <1>2 DEF Install, Inv, StartHolds, dataVars
    <3>2. \A kind \in fields' : Open(kind)'
      BY <1>1 DEF Install, Inv, TypeOK, StartHolds, dataVars
    <3>3. \A e \in events' : e.kind \in fields'
      BY <1>1, OpenEvent DEF Install, Inv, StartHolds
    <3>4. QED BY <3>1, <3>2, <3>3 DEF IdleHolds, Bound
  <2>5. ContextsAreLive'
    BY DEF Install, Inv, ContextsAreLive, dataVars
  <2>6. QED
    BY <1>2, <2>1, <2>3, <2>4, <2>5
    DEF Inv, Places, StartHolds, ErrorExitHolds, StopHolds, FaultHolds
<1>3. CASE GotoErrorExit("EFI_OUT_OF_RESOURCES") /\ UNCHANGED installed
  BY <1>1, <1>3, StartFails DEF Install
<1>4. QED BY <1>2, <1>3 DEF Install

(* ----------------------------------------------------------------------- *)
(* What stays true of a call that is not running.                          *)
LEMMA OthersHold ==
  ASSUME running' \in Functions \union {"none", "fault"}
  PROVE  /\ running' # "Start" => StartHolds'
         /\ running' # "ErrorExit" => ErrorExitHolds'
         /\ running' # "Stop" => StopHolds'
         /\ running' # "none" => IdleHolds'
         /\ running' # "fault" => FaultHolds'
BY DEF StartHolds, ErrorExitHolds, StopHolds, IdleHolds, FaultHolds

(* ErrorExit and Stop close the events in their order.                     *)
LEMMA CloseEventInv ==
  ASSUME Inv, NEW kind \in EventKinds, CloseEvent(kind)
  PROVE  Inv'
<1>1. \/ running = "ErrorExit" /\ at \in 1 .. 8 /\ Ops["ErrorExit"][at] = kind
      \/ running = "Stop" /\ at \in 1 .. 9 /\ Ops["Stop"][at] = kind
  BY DEF CloseEvent, Releases, Does, Inv, Places
<1>2. running = "ErrorExit" =>
        /\ at \in 1 .. 4
        /\ at = 1 => kind = "WaitForKey"
        /\ at = 2 => kind = "TimerEvent"
        /\ at = 3 => kind = "WaitForKeyEx"
        /\ at = 4 => kind = "KeyNotifyProcessEvent"
  BY <1>1, ErrorExitPlaces
<1>3. running = "Stop" =>
        /\ at \in {1, 4, 5, 6}
        /\ at = 1 => kind = "TimerEvent"
        /\ at = 4 => kind = "WaitForKey"
        /\ at = 5 => kind = "WaitForKeyEx"
        /\ at = 6 => kind = "KeyNotifyProcessEvent"
  BY <1>1, StopPlaces
<1>4. /\ running' = running /\ at' = at + 1 /\ status' = status /\ level' = level
      /\ running \in {"ErrorExit", "Stop"} /\ at \in 1 .. 6
  BY <1>1, <1>2, <1>3, AdvanceGoesOn DEF Last, CloseEvent
<1>5. \A e \in events : e.kind \in fields
  BY <1>1, OpenEvent DEF Inv, ErrorExitHolds, StopHolds
<1>6. /\ events' \subseteq events
      /\ ~Open(kind)'
      /\ \A k \in EventKinds \ {kind} : Open(k)' <=> Open(k)
  <2>1. ConsoleIn' = ConsoleIn
    BY DEF CloseEvent, dataVars
  <2>2. Open(kind) => kind \in fields
    BY <1>5
  <2>3. QED BY <2>1, <2>2 DEF CloseEvent
<1>60. /\ armed' => armed /\ kind # "TimerEvent"
       /\ pending' => pending /\ kind # "KeyNotifyProcessEvent"
  BY DEF CloseEvent
<1>7. Booleans'
  BY DEF CloseEvent, Inv, TypeOK, Booleans, dataVars
<1>8. TypeOK'
  BY <1>4, <1>6, <1>7 DEF CloseEvent, Inv, TypeOK, Booleans, dataVars
<1>9. ContextsAreLive'
  BY <1>6 DEF CloseEvent, Inv, ContextsAreLive, dataVars
<1>10. ErrorExitHolds'
  <2> SUFFICES ASSUME running = "ErrorExit"
               PROVE  ErrorExitHolds'
    BY <1>4 DEF ErrorExitHolds
  <2>1. Outside' /\ fields' = fields /\ ConsoleIn' = ConsoleIn /\ names' = names
    BY DEF CloseEvent, Inv, ErrorExitHolds, dataVars
  <2>2. /\ Open("WaitForKey")' => at' <= 1
        /\ Open("TimerEvent")' => at' <= 2
        /\ Open("WaitForKeyEx")' => at' <= 3
        /\ Open("KeyNotifyProcessEvent")' => at' <= 4
    BY <1>2, <1>4, <1>6 DEF Inv, ErrorExitHolds
  <2>3. armed' => at' <= 2
    <3>1. armed => at <= 2
      BY DEF Inv, ErrorExitHolds
    <3>2. QED BY <1>2, <1>4, <1>60, <3>1
  <2>4. /\ names' => at' <= 6
        /\ IF ConsoleIn' = 0 THEN fields' = {} ELSE at' <= 7
    BY <1>2, <1>4, <2>1 DEF Inv, ErrorExitHolds
  <2>5. \A e \in events' : e.kind \in fields'
    BY <1>5, <1>6, <2>1
  <2>6. QED BY <2>1, <2>2, <2>3, <2>4, <2>5 DEF ErrorExitHolds
<1>11. StopHolds'
  <2> SUFFICES ASSUME running = "Stop"
               PROVE  StopHolds'
    BY <1>4 DEF StopHolds
  <2>1. /\ ConsoleIn' = ConsoleIn /\ ConsoleIn' # 0
        /\ installed' <=> at' <= 2
        /\ device' = IF at' <= 3 THEN "this" ELSE "free"
        /\ notify' > 0 => at' <= 7
        /\ names' => at' <= 8
    BY <1>3, <1>4 DEF CloseEvent, Inv, StopHolds, dataVars
  <2>2. fields' = fields \ {kind}
    BY DEF CloseEvent
  <2>3. /\ "TimerEvent" \in fields' => at' <= 1
        /\ "WaitForKey" \in fields' <=> at' <= 4
        /\ "WaitForKeyEx" \in fields' <=> at' <= 5
        /\ "KeyNotifyProcessEvent" \in fields' <=> at' <= 6
    BY <1>3, <1>4, <2>2 DEF Inv, StopHolds
  <2>4. \A k \in EventKinds : Open(k)' <=> k \in fields'
    BY <1>6, <2>2 DEF Inv, StopHolds
  <2>5. armed' => at' <= 1
    <3>1. armed => at <= 1
      BY DEF Inv, StopHolds
    <3>2. QED BY <1>3, <1>4, <1>60, <3>1
  <2>6. pending' => at' <= 6
    <3>1. pending => at <= 6
      BY DEF Inv, StopHolds
    <3>2. QED BY <1>3, <1>4, <1>60, <3>1
  <2>7. QED BY <2>1, <2>3, <2>4, <2>5, <2>6 DEF StopHolds
<1>12. QED
  BY <1>4, <1>8, <1>9, <1>10, <1>11, OthersHold
  DEF CloseEvent, Inv, Places

(* A refused Stop still has its context, an accepted one no protocols.     *)
LEMMA UninstallInv == ASSUME Inv, Uninstall PROVE Inv'
<1>1. running = "Stop" /\ at = 2
  BY StopPlaces DEF Uninstall, Does, Inv, Places
<1>2. Booleans'
  BY DEF Uninstall, Inv, TypeOK, Booleans, dataVars
<1>3. ContextsAreLive'
  BY DEF Uninstall, Inv, ContextsAreLive, dataVars
<1>4. CASE installed' = FALSE /\ agent' = FALSE /\ Advance
  <2>1. running' = running /\ at' = 3 /\ status' = status /\ level' = level
    BY <1>1, <1>4, AdvanceGoesOn DEF Last
  <2>2. TypeOK'
    BY <1>1, <1>2, <2>1 DEF Uninstall, Inv, TypeOK, Booleans, dataVars
  <2>3. StopHolds'
    BY <1>1, <1>4, <2>1 DEF Uninstall, Inv, StopHolds, dataVars
  <2>4. QED
    BY <1>1, <1>3, <1>4, <2>1, <2>2, <2>3, OthersHold DEF Inv, Places
<1>5. CASE /\ agent /\ running' = "none" /\ at' = 0
           /\ status' = "EFI_ACCESS_DENIED" /\ UNCHANGED <<installed, agent, level>>
  <2>1. TypeOK'
    BY <1>2, <1>5 DEF Uninstall, Inv, TypeOK, Booleans, dataVars
  <2>2. IdleHolds'
    <3>1. installed' /\ Bound'
      BY <1>1, <1>5 DEF Uninstall, Inv, TypeOK, StopHolds, Bound, dataVars
    <3>2. \A e \in events' : e.kind \in fields'
      BY <1>1, OpenEvent DEF Uninstall, Inv, StopHolds
    <3>3. ~armed'
      BY <1>1 DEF Uninstall, Inv, StopHolds
    <3>4. QED BY <3>1, <3>2, <3>3 DEF IdleHolds
  <2>3. QED
    BY <1>3, <1>5, <2>1, <2>2, OthersHold DEF Inv, Places
<1>6. QED BY <1>4, <1>5 DEF Uninstall

(* The device is closed once, by whom it is open for.                      *)
LEMMA CloseDeviceInv == ASSUME Inv, CloseDevice PROVE Inv'
<1>1. \/ running = "ErrorExit" /\ at = 8
      \/ running = "Stop" /\ at = 3
  BY ErrorExitPlaces, StopPlaces
  DEF CloseDevice, Releases, Does, Inv, Places
<1>2. Booleans'
  BY DEF CloseDevice, Inv, TypeOK, Booleans, dataVars
<1>3. ContextsAreLive'
  BY DEF CloseDevice, Inv, ContextsAreLive, dataVars
<1>4. CASE running = "ErrorExit" /\ at = 8
  <2>1. /\ running' = "none" /\ at' = 0 /\ level' = level
        /\ status' \in {status, "EFI_SUCCESS"}
    BY <1>4, AdvanceGoesOn DEF Last, CloseDevice
  <2>2. TypeOK'
    BY <1>2, <2>1 DEF CloseDevice, Inv, TypeOK, Booleans, dataVars
  <2>3. events = {}
    <3>1. \A kind \in EventKinds : ~Open(kind)
      BY <1>4 DEF Inv, ErrorExitHolds
    <3>2. QED BY <3>1, OpenEvent
  <2>4. IdleHolds'
    BY <1>4, <2>3
    DEF CloseDevice, Inv, ErrorExitHolds, IdleHolds, HoldsNothing, dataVars
  <2>5. QED
    BY <1>3, <1>4, <2>1, <2>2, <2>4, OthersHold
    DEF CloseDevice, Inv, Places
<1>5. CASE running = "Stop" /\ at = 3
  <2>1. running' = running /\ at' = 4 /\ status' = status /\ level' = level
    BY <1>5, AdvanceGoesOn DEF Last, CloseDevice
  <2>2. TypeOK'
    BY <1>2, <1>5, <2>1 DEF CloseDevice, Inv, TypeOK, Booleans, dataVars
  <2>3. StopHolds'
    BY <1>5, <2>1 DEF CloseDevice, Inv, StopHolds, dataVars
  <2>4. QED
    BY <1>3, <1>5, <2>1, <2>2, <2>3, OthersHold
    DEF CloseDevice, Inv, Places
<1>6. QED BY <1>1, <1>4, <1>5

(* Registrations are freed while their context lives; without a context    *)
(* the machine faults.                                                     *)
LEMMA KbdFreeNotifyListInv == ASSUME Inv, KbdFreeNotifyList PROVE Inv'
<1>1. \/ running = "ErrorExit" /\ at = 5
      \/ running = "Stop" /\ at = 7
  BY ErrorExitPlaces, StopPlaces
  DEF KbdFreeNotifyList, Releases, Does, Inv, Places
<1>2. Booleans'
  BY DEF KbdFreeNotifyList, Inv, TypeOK, Booleans
<1>3. ContextsAreLive'
  BY DEF KbdFreeNotifyList, Inv, ContextsAreLive
<1>4. 0 \in 0 .. MaxNotify
  BY BoundsAssumption
<1>5. CASE ConsoleIn = 0
  <2>1. /\ running = "ErrorExit" /\ running' = "fault"
        /\ UNCHANGED <<notify, at, level, status>>
    BY <1>1, <1>5 DEF KbdFreeNotifyList, Inv, StopHolds
  <2>2. TypeOK'
    BY <1>2, <2>1 DEF KbdFreeNotifyList, Inv, TypeOK, Booleans
  <2>3. Outside' /\ ~armed' /\ events' = {}
    <3>1. events = {}
      BY <1>5, OpenEvent
    <3>2. Outside'
      BY <2>1 DEF KbdFreeNotifyList, Inv, ErrorExitHolds
    <3>3. ~armed'
      BY <1>1, <2>1 DEF KbdFreeNotifyList, Inv, ErrorExitHolds
    <3>4. QED BY <3>1, <3>2, <3>3 DEF KbdFreeNotifyList
  <2>4. QED
    BY <1>3, <2>1, <2>2, <2>3, OthersHold
    DEF KbdFreeNotifyList, Inv, Places, FaultHolds
<1>6. CASE ConsoleIn # 0
  <2>1. /\ running' = running /\ at' = at + 1 /\ status' = status
        /\ level' = level /\ notify' = 0
    BY <1>1, <1>6, AdvanceGoesOn DEF Last, KbdFreeNotifyList
  <2>2. TypeOK'
    BY <1>1, <1>2, <1>4, <2>1 DEF KbdFreeNotifyList, Inv, TypeOK, Booleans
  <2>3. ErrorExitHolds'
    BY <1>1, <2>1 DEF KbdFreeNotifyList, Inv, ErrorExitHolds
  <2>4. StopHolds'
    BY <1>1, <2>1 DEF KbdFreeNotifyList, Inv, StopHolds
  <2>5. QED
    BY <1>1, <1>3, <2>1, <2>2, <2>3, <2>4, OthersHold
    DEF KbdFreeNotifyList, Inv, Places
<1>7. QED BY <1>5, <1>6

(* The names are freed while their context lives.                          *)
LEMMA FreeNamesInv == ASSUME Inv, FreeNames PROVE Inv'
<1>1. \/ running = "ErrorExit" /\ at = 6
      \/ running = "Stop" /\ at = 8
  BY ErrorExitPlaces, StopPlaces DEF FreeNames, Releases, Does, Inv, Places
<1>2. /\ running' = running /\ at' = at + 1 /\ status' = status
      /\ level' = level
  BY <1>1, AdvanceGoesOn DEF Last, FreeNames
<1>3. Booleans'
  BY DEF FreeNames, Inv, TypeOK, Booleans
<1>4. TypeOK'
  BY <1>1, <1>2, <1>3 DEF FreeNames, Inv, TypeOK, Booleans
<1>5. ContextsAreLive'
  BY DEF FreeNames, Inv, ContextsAreLive
<1>6. ErrorExitHolds'
  BY <1>1, <1>2 DEF FreeNames, Inv, ErrorExitHolds
<1>7. StopHolds'
  BY <1>1, <1>2 DEF FreeNames, Inv, StopHolds
<1>8. QED
  BY <1>1, <1>2, <1>4, <1>5, <1>6, <1>7, OthersHold
  DEF FreeNames, Inv, Places

(* The context is freed after everything that has it.                      *)
LEMMA FreePoolInv == ASSUME Inv, FreePool PROVE Inv'
<1>1. \/ running = "ErrorExit" /\ at = 7
      \/ running = "Stop" /\ at = 9
  BY ErrorExitPlaces, StopPlaces DEF FreePool, Releases, Does, Inv, Places
<1>2. Booleans'
  BY DEF FreePool, Inv, TypeOK, Booleans
<1>3. events = {} /\ events' = {}
  <2>1. \A kind \in EventKinds : ~Open(kind)
    BY <1>1 DEF Inv, ErrorExitHolds, StopHolds
  <2>2. QED BY <2>1, OpenEvent DEF FreePool
<1>4. ContextsAreLive'
  BY <1>3 DEF ContextsAreLive
<1>5. CASE running = "ErrorExit" /\ at = 7
  <2>1. running' = running /\ at' = 8 /\ status' = status /\ level' = level
    BY <1>5, AdvanceGoesOn DEF Last, FreePool
  <2>2. TypeOK'
    BY <1>2, <1>5, <2>1 DEF FreePool, Inv, TypeOK, Booleans
  <2>3. ErrorExitHolds'
    BY <1>3, <1>5, <2>1 DEF FreePool, Inv, ErrorExitHolds
  <2>4. QED
    BY <1>4, <1>5, <2>1, <2>2, <2>3, OthersHold DEF FreePool, Inv, Places
<1>6. CASE running = "Stop" /\ at = 9
  <2>1. /\ running' = "none" /\ at' = 0 /\ level' = level
        /\ status' \in {status, "EFI_SUCCESS"}
    BY <1>6, AdvanceGoesOn DEF Last, FreePool
  <2>2. TypeOK'
    BY <1>2, <2>1 DEF FreePool, Inv, TypeOK, Booleans
  <2>3. notify = 0
    BY <1>6 DEF Inv, TypeOK, StopHolds
  <2>4. IdleHolds'
    BY <1>3, <1>6, <2>3 DEF FreePool, Inv, StopHolds, IdleHolds, HoldsNothing
  <2>5. QED
    BY <1>4, <1>6, <2>1, <2>2, <2>4, OthersHold DEF FreePool, Inv, Places
<1>7. QED BY <1>1, <1>5, <1>6
(* ----------------------------------------------------------------------- *)
(* Calls, and what runs between their operations.                          *)
LEMMA SupportedInv == ASSUME Inv, KeypadControllerDriverSupported PROVE Inv'
<1>1. /\ UNCHANGED <<running, at, level>> /\ running = "none"
      /\ status' \in {"EFI_SUCCESS", "EFI_ACCESS_DENIED"}
  BY DEF KeypadControllerDriverSupported, Refuse
<1>2. Booleans'
  BY DEF KeypadControllerDriverSupported, Inv, TypeOK, Booleans, dataVars
<1>3. TypeOK'
  BY <1>1, <1>2
  DEF KeypadControllerDriverSupported, Inv, TypeOK, Booleans, dataVars
<1>4. IdleHolds' /\ ContextsAreLive'
  BY <1>1
  DEF KeypadControllerDriverSupported, Inv, IdleHolds, Bound, HoldsNothing,
      ContextsAreLive, dataVars
<1>5. QED
  BY <1>1, <1>3, <1>4, OthersHold
  DEF KeypadControllerDriverSupported, Inv, Places

(* A Start begins with nothing held.                                       *)
LEMMA StartInv ==
  ASSUME Inv, NEW tpl \in {"TPL_APPLICATION", "TPL_CALLBACK"},
         KeypadControllerDriverStart(tpl)
  PROVE  Inv'
<1>1. running = "none" /\ starts < MaxStarts
  BY DEF KeypadControllerDriverStart
<1>2. Booleans' /\ ContextsAreLive'
  BY DEF KeypadControllerDriverStart, Inv, TypeOK, Booleans, ContextsAreLive,
         dataVars
<1>3. CASE device = "free"
  <2>1. /\ running' = "Start" /\ at' = 1 /\ level' = tpl /\ status' = status
        /\ device' = "this"
    BY <1>3 DEF KeypadControllerDriverStart
  <2>2. TypeOK'
    BY <1>2, <2>1
    DEF KeypadControllerDriverStart, Inv, TypeOK, Booleans, dataVars
  <2>3. HoldsNothing /\ ~installed
    BY <1>1, <1>3 DEF Inv, IdleHolds, Bound
  <2>4. fields = {} /\ ConsoleIn = 0
    BY <1>1, <2>3 DEF HoldsNothing, Inv, IdleHolds
  <2>5. StartHolds'
    BY <1>1, <2>1, <2>3, <2>4
    DEF KeypadControllerDriverStart, StartHolds, HoldsNothing, dataVars
  <2>6. QED
    BY <1>2, <2>1, <2>2, <2>5, OthersHold
    DEF KeypadControllerDriverStart, Inv, Places
<1>4. CASE device # "free"
  <2>1. /\ UNCHANGED <<running, at, level, device>>
        /\ status' = "EFI_ACCESS_DENIED"
    BY <1>4 DEF KeypadControllerDriverStart, Refuse
  <2>2. TypeOK'
    BY <1>2, <2>1
    DEF KeypadControllerDriverStart, Inv, TypeOK, Booleans, dataVars
  <2>3. IdleHolds'
    BY <1>1, <2>1
    DEF KeypadControllerDriverStart, Inv, IdleHolds, Bound, HoldsNothing,
        dataVars
  <2>4. QED
    BY <1>1, <1>2, <2>1, <2>2, <2>3, OthersHold
    DEF KeypadControllerDriverStart, Inv, Places
<1>5. QED BY <1>3, <1>4

(* A Stop begins with everything held.                                     *)
LEMMA StopInv ==
  ASSUME Inv, NEW tpl \in {"TPL_APPLICATION", "TPL_CALLBACK"},
         KeypadControllerDriverStop(tpl)
  PROVE  Inv'
<1>1. running = "none"
  BY DEF KeypadControllerDriverStop
<1>2. Booleans' /\ ContextsAreLive'
  BY DEF KeypadControllerDriverStop, Inv, TypeOK, Booleans, ContextsAreLive,
         dataVars
<1>3. CASE installed
  <2>1. /\ running' = "Stop" /\ at' = 1 /\ level' = tpl /\ status' = status
    BY <1>3 DEF KeypadControllerDriverStop
  <2>2. TypeOK'
    BY <1>2, <2>1
    DEF KeypadControllerDriverStop, Inv, TypeOK, Booleans, dataVars
  <2>3. Bound /\ \A e \in events : e.kind \in fields
    BY <1>1, <1>3 DEF Inv, IdleHolds
  <2>4. \A kind \in EventKinds : Open(kind) <=> kind \in fields
    BY <2>3 DEF Bound
  <2>5. StopHolds'
    BY <1>3, <2>1, <2>3, <2>4
    DEF KeypadControllerDriverStop, StopHolds, Bound, dataVars
  <2>6. QED
    BY <1>2, <2>1, <2>2, <2>5, OthersHold
    DEF KeypadControllerDriverStop, Inv, Places
<1>4. CASE ~installed
  <2>1. UNCHANGED <<running, at, level>> /\ status' = "EFI_UNSUPPORTED"
    BY <1>4 DEF KeypadControllerDriverStop, Refuse
  <2>2. TypeOK'
    BY <1>2, <2>1
    DEF KeypadControllerDriverStop, Inv, TypeOK, Booleans, dataVars
  <2>3. IdleHolds'
    BY <1>1, <1>4, <2>1
    DEF KeypadControllerDriverStop, Inv, IdleHolds, HoldsNothing, dataVars
  <2>4. QED
    BY <1>1, <1>2, <2>1, <2>2, <2>3, OthersHold
    DEF KeypadControllerDriverStop, Inv, Places
<1>5. QED BY <1>3, <1>4

(* A registration can be there only while the event it needs is.           *)
LEMMA Registered ==
  ASSUME Inv, notify > 0, armed \/ installed
  PROVE  /\ running \in {"none", "Stop"}
         /\ running = "Stop" => at <= 2
         /\ running = "none" => installed
         /\ "KeyNotifyProcessEvent" \in fields
         /\ Open("KeyNotifyProcessEvent")
<1>1. running \in {"none", "Stop"}
  BY DEF Inv, TypeOK, StartHolds, ErrorExitHolds, FaultHolds
<1>2. CASE running = "none"
  BY <1>2 DEF Inv, IdleHolds, Bound, HoldsNothing
<1>3. CASE running = "Stop"
  <2>1. at <= 2
    BY <1>3 DEF Inv, TypeOK, StopHolds
  <2>2. QED BY <1>3, <2>1 DEF Inv, TypeOK, StopHolds
<1>4. QED BY <1>1, <1>2, <1>3

(* A signalled notification has an open event.                             *)
LEMMA PendingOpen ==
  ASSUME Inv, pending
  PROVE  Open("KeyNotifyProcessEvent")
<1>1. running \in {"none", "Stop"}
  BY DEF Inv, TypeOK, StartHolds, ErrorExitHolds, FaultHolds
<1>2. CASE running = "none"
  BY <1>2 DEF Inv, IdleHolds, Bound, HoldsNothing
<1>3. CASE running = "Stop"
  <2>1. at <= 6
    BY <1>3 DEF Inv, TypeOK, StopHolds
  <2>2. QED BY <1>3, <2>1 DEF Inv, TypeOK, StopHolds
<1>4. QED BY <1>1, <1>2, <1>3

(* The invariant gives the property of signals.                            *)
LEMMA SignalsAnEventInv == ASSUME Inv PROVE SignalsAnEvent
BY Registered, PendingOpen DEF SignalsAnEvent

(* A key that matches a registration finds the event open.                 *)
LEMMA KeyMatchesInv == ASSUME Inv, KeyMatches PROVE Inv'
<1>1. /\ UNCHANGED <<running, at, level, status>> /\ pending' = TRUE
      /\ notify > 0 /\ (armed \/ installed)
  BY DEF KeyMatches, callVars
<1>2. running \in {"none", "Stop"} /\ (running = "Stop" => at <= 2)
      /\ (running = "none" => installed)
  BY <1>1, Registered
<1>3. Booleans' /\ ContextsAreLive'
  BY <1>1
  DEF KeyMatches, Inv, TypeOK, Booleans, ContextsAreLive, dataVars
<1>4. TypeOK'
  BY <1>1, <1>3 DEF KeyMatches, Inv, TypeOK, Booleans, dataVars
<1>5. StopHolds'
  BY <1>1, <1>2 DEF KeyMatches, Inv, TypeOK, StopHolds, dataVars
<1>6. IdleHolds'
  BY <1>1, <1>2 DEF KeyMatches, Inv, IdleHolds, Bound, dataVars
<1>7. QED
  BY <1>1, <1>2, <1>3, <1>4, <1>5, <1>6, OthersHold
  DEF KeyMatches, Inv, Places

(* The handler changes nothing that is held.                               *)
LEMMA KeyNotifyProcessHandlerInv ==
  ASSUME Inv, KeyNotifyProcessHandler
  PROVE  Inv'
<1>1. UNCHANGED <<running, at, level, status>> /\ pending' = FALSE /\ pending
  BY DEF KeyNotifyProcessHandler, callVars
<1>2. running \in {"none", "Stop"}
  BY <1>1 DEF Inv, TypeOK, StartHolds, ErrorExitHolds, FaultHolds
<1>3. Booleans' /\ ContextsAreLive'
  BY <1>1
  DEF KeyNotifyProcessHandler, Inv, TypeOK, Booleans, ContextsAreLive, dataVars
<1>4. TypeOK'
  BY <1>1, <1>3 DEF KeyNotifyProcessHandler, Inv, TypeOK, Booleans, dataVars
<1>5. StopHolds'
  BY <1>1 DEF KeyNotifyProcessHandler, Inv, StopHolds, dataVars
<1>6. IdleHolds'
  BY <1>1
  DEF KeyNotifyProcessHandler, Inv, IdleHolds, Bound, HoldsNothing, dataVars
<1>7. QED
  BY <1>1, <1>2, <1>3, <1>4, <1>5, <1>6, OthersHold
  DEF KeyNotifyProcessHandler, Inv, Places

(* Applications register only while the protocols are installed.           *)
LEMMA RegisterOrUnregisterInv ==
  ASSUME Inv, RegisterOrUnregister
  PROVE  Inv'
<1>1. /\ UNCHANGED <<running, at, level, status>> /\ installed
      /\ notify' \in 0 .. MaxNotify
  BY DEF RegisterOrUnregister, callVars
<1>2. running \in {"none", "Stop"} /\ (running = "Stop" => at <= 2)
  BY <1>1
  DEF Inv, TypeOK, StartHolds, ErrorExitHolds, StopHolds, FaultHolds
<1>3. Booleans' /\ ContextsAreLive'
  BY DEF RegisterOrUnregister, Inv, TypeOK, Booleans, ContextsAreLive
<1>4. TypeOK'
  BY <1>1, <1>3 DEF RegisterOrUnregister, Inv, TypeOK, Booleans
<1>5. StopHolds'
  BY <1>1, <1>2 DEF RegisterOrUnregister, Inv, TypeOK, StopHolds
<1>6. IdleHolds'
  BY <1>1 DEF RegisterOrUnregister, Inv, IdleHolds, Bound
<1>7. QED
  BY <1>1, <1>2, <1>3, <1>4, <1>5, <1>6, OthersHold
  DEF RegisterOrUnregister, Inv, Places

(* An agent opens a protocol only while it is installed.                   *)
LEMMA AgentInv == ASSUME Inv, AgentOpensOrCloses PROVE Inv'
<1>1. /\ UNCHANGED <<running, at, level, status>> /\ installed
      /\ running = "none" /\ agent' \in BOOLEAN
  BY DEF AgentOpensOrCloses, callVars
<1>2. Booleans' /\ ContextsAreLive'
  BY <1>1
  DEF AgentOpensOrCloses, Inv, TypeOK, Booleans, ContextsAreLive, dataVars
<1>3. TypeOK'
  BY <1>1, <1>2 DEF AgentOpensOrCloses, Inv, TypeOK, Booleans, dataVars
<1>4. IdleHolds'
  BY <1>1 DEF AgentOpensOrCloses, Inv, IdleHolds, Bound, dataVars
<1>5. QED
  BY <1>1, <1>2, <1>3, <1>4, OthersHold
  DEF AgentOpensOrCloses, Inv, Places

(* Another driver opens the device only while this one has not.            *)
LEMMA OtherInv == ASSUME Inv, OtherOpensOrCloses PROVE Inv'
<1>1. /\ UNCHANGED <<running, at, level, status>> /\ running = "none"
      /\ device \in {"free", "other"} /\ device' \in {"free", "other"}
  BY DEF OtherOpensOrCloses, callVars
<1>2. Booleans' /\ ContextsAreLive'
  BY DEF OtherOpensOrCloses, Inv, TypeOK, Booleans, ContextsAreLive, dataVars
<1>3. TypeOK'
  BY <1>1, <1>2 DEF OtherOpensOrCloses, Inv, TypeOK, Booleans, dataVars
<1>4. IdleHolds'
  BY <1>1
  DEF OtherOpensOrCloses, Inv, IdleHolds, Bound, HoldsNothing, dataVars
<1>5. QED
  BY <1>1, <1>2, <1>3, <1>4, OthersHold
  DEF OtherOpensOrCloses, Inv, Places

(* Stuttering keeps the invariant.                                         *)
LEMMA StutterInv == ASSUME Inv, UNCHANGED vars PROVE Inv'
BY DEF vars, dataVars, callVars, Inv, TypeOK, Places, ContextsAreLive,
       StartHolds, ErrorExitHolds, StopHolds, IdleHolds, FaultHolds, Bound,
       HoldsNothing

(* Every step keeps the invariant.                                         *)
LEMMA NextInv == ASSUME Inv, [Next]_vars PROVE Inv'
<1>1. CASE KeypadControllerDriverSupported
  BY <1>1, SupportedInv
<1>2. CASE Call
  BY <1>2, StartInv, StopInv DEF Call
<1>3. CASE Acquire
  BY <1>3, AllocatePoolInv, CreateEventInv, SetTimerInv, ResetInv,
     AddNamesInv, InstallInv DEF Acquire
<1>4. CASE Release
  BY <1>4, CloseEventInv, UninstallInv, CloseDeviceInv, KbdFreeNotifyListInv,
     FreeNamesInv, FreePoolInv DEF Release
<1>5. CASE Environment
  BY <1>5, KeyMatchesInv, KeyNotifyProcessHandlerInv, RegisterOrUnregisterInv,
     AgentInv, OtherInv DEF Environment
<1>6. CASE UNCHANGED vars
  BY <1>6, StutterInv
<1>7. QED BY <1>1, <1>2, <1>3, <1>4, <1>5, <1>6 DEF Next

(* What is held before each operation of Start, ErrorExit and Stop is held *)
(* in every behaviour, whatever comes in between.                          *)
THEOREM SpecInv == Spec => []Inv
<1>1. Init => Inv
  BY InitInv
<1>2. Inv /\ [Next]_vars => Inv'
  BY NextInv
<1>3. QED BY <1>1, <1>2, PTL DEF Spec

(* Every variable keeps its type, for any number of starts.                *)
THEOREM TypeCorrect == Spec => []TypeOK
<1>1. Inv => TypeOK
  BY DEF Inv
<1>2. QED BY <1>1, SpecInv, PTL

(* No event of the driver outlives the private data its notification       *)
(* function uses, whatever the timer interrupts.                           *)
THEOREM NoDanglingContext == Spec => []ContextsAreLive
<1>1. Inv => ContextsAreLive
  BY DEF Inv
<1>2. QED BY <1>1, SpecInv, PTL

(* The keypad's keys never signal a NULL or closed event.                  *)
THEOREM SignalsAreSafe == Spec => []SignalsAnEvent
<1>1. Inv => SignalsAnEvent
  BY SignalsAnEventInv
<1>2. QED BY <1>1, SpecInv, PTL

(* A Start or a Stop that has returned left the driver bound or holding    *)
(* nothing, whichever of its operations failed.                            *)
THEOREM BindingIsAllOrNothing == Spec => []AllOrNothing
<1>1. Inv => AllOrNothing
  BY DEF Inv, IdleHolds, AllOrNothing
<1>2. QED BY <1>1, SpecInv, PTL
=============================================================================
