------------------------- MODULE SynapticsTouchProofs -----------------------
(* The touch driver keeps its bus open while it polls and gives it back,   *)
(* and never reports old news, for any number of touches.                  *)
EXTENDS SynapticsTouch, TLAPS

StartCalls == {"PowerUp", "probe", "poll"}
StopCalls  == {"StopPolling", "StopWait", "StopBus"}
NotPolled  == ~polling /\ waitEvent = "none"

\* The invariant behind type correctness and the lifetime of the bus.
BusInv ==
  /\ (device = "free" =>
        NotPolled /\ ~installed /\ call = "none" /\ bus = "closed")
  /\ (call \in StartCalls \union {"I2cOpen"} => NotPolled)
  /\ (call \in StartCalls \union {"Install"} \union StopCalls => bus = "open")
  /\ (call # "none" => ~installed /\ ~exited)
  /\ (call = "StopWait" => ~polling)
  /\ (call = "StopBus" => NotPolled)
  /\ (call = "Install" \/ installed => polling /\ waitEvent # "none")
  /\ (bus = "open" => gI2CInstance # "NULL")
  /\ (pc # "idle" => call = "none" /\ installed /\ ~exited)

\* The invariant behind ReportsAdvance.
NewsInv ==
  /\ LastX <= touches /\ LastY <= touches
  /\ State.x <= touches /\ State.y <= touches
  /\ report.x <= touches /\ report.y <= touches
  /\ (StateChanged /\ pc \notin {"resetY", "resetFlag"} =>
        LastX > report.x /\ LastY > report.y)
  /\ (pc \in {"readX", "readY"} => StateChanged)
  /\ (pc \in {"readY", "clear"} => State.x > report.x)
  /\ (pc = "clear" => State.y > report.y)

\* The invariant behind WokenReaderFindsReport: the flag the signal stands
\* for stays set until the reader itself has looked at it.
WakeInv ==
  /\ (waitEvent = "signalled" => pc = "recheck" /\ StateChanged)
  /\ (woken => pc \in {"idle", "check", "recheck", "flag"} /\ StateChanged)

\* The invariant behind the ranges of the probe's variables: a page is left
\* for the next one after one function of it at least.
ProbeInv ==
  /\ (call = "probe" => Function < TOUCH_RMI_MAX_FUNCTIONS)
  /\ Page <= Function
  /\ (Address # TOUCH_RMI_PAGE_INFO_ADDRESS => Page < Function)
  /\ Address >= TOUCH_RMI_PAGE_INFO_ADDRESS - TOUCH_RMI_PAGE_INFO_BYTES * Function

SafetyInv == BusIsOpenWhilePolled /\ BusIsClosedWhenTheOsStarts

IInv == TypeOK /\ ProbeInv /\ BusInv /\ SafetyInv /\ NewsInv /\ WakeInv

(* The driver starts in the invariant.                                     *)
LEMMA InitEstablishes == Init => IInv
<1> SUFFICES ASSUME Init
             PROVE  IInv
  OBVIOUS
<1>1. TypeOK
  <2>1. MaxTouches \in Nat /\ 0 \in 0 .. MaxTouches
    BY ConstantsAssumption
  <2>2. /\ polling \in BOOLEAN /\ installed \in BOOLEAN /\ exited \in BOOLEAN
        /\ StateChanged \in BOOLEAN /\ woken \in BOOLEAN
    BY Zenon DEF Init
  <2>3. State \in [x : 0 .. MaxTouches, y : 0 .. MaxTouches]
    BY <2>1 DEF Init
  <2>4. report \in [x : 0 .. MaxTouches, y : 0 .. MaxTouches]
    BY <2>1 DEF Init
  <2>5. /\ Page \in 0 .. TOUCH_RMI_MAX_FUNCTIONS
        /\ Function \in 0 .. TOUCH_RMI_MAX_FUNCTIONS
        /\ Address \in 0 .. TOUCH_RMI_PAGE_INFO_ADDRESS
        /\ LastX \in 0 .. MaxTouches /\ LastY \in 0 .. MaxTouches
        /\ touches \in 0 .. MaxTouches
    BY <2>1 DEF Init, TOUCH_RMI_PAGE_INFO_ADDRESS, TOUCH_RMI_MAX_FUNCTIONS
  <2>6. /\ device \in {"free", "this"} /\ bus \in {"closed", "open"}
        /\ gI2CInstance \in {"NULL", "Instance"}
        /\ waitEvent \in {"none", "open", "signalled"} /\ call \in Calls
        /\ pc \in {"idle", "check", "recheck", "flag", "readX", "readY", "clear",
                   "resetY", "resetFlag"}
    BY DEF Init, Calls
  <2>7. QED BY <2>2, <2>3, <2>4, <2>5, <2>6, Zenon DEF TypeOK
<1>2. ProbeInv
  BY DEF Init, ProbeInv, TOUCH_RMI_PAGE_INFO_ADDRESS, TOUCH_RMI_PAGE_INFO_BYTES,
         TOUCH_RMI_MAX_FUNCTIONS
<1>3. BusInv /\ SafetyInv
  BY DEF Init, BusInv, SafetyInv, BusIsOpenWhilePolled, NotPolled, StartCalls,
         StopCalls, BusIsClosedWhenTheOsStarts
<1>4. NewsInv
  BY DEF Init, NewsInv
<1>5. WakeInv
  BY DEF Init, WakeInv
<1>6. QED BY <1>1, <1>2, <1>3, <1>4, <1>5 DEF IInv

(* The order of Stop's operations.                                         *)
LEMMA AfterStopOrder ==
  /\ AfterStop("StopPolling") = "StopWait"
  /\ AfterStop("StopWait") = "StopBus"
  /\ AfterStop("StopBus") = "none"
<1> DEFINE index(op) == CHOOSE i \in 1 .. 3 : StopOrder[i] = op
<1>1. index("StopPolling") = 1 /\ index("StopWait") = 2 /\ index("StopBus") = 3
  BY DEF StopOrder
<1>2. QED BY <1>1 DEF AfterStop, StopOrder

(* The bus is open while it may be polled.                                 *)
LEMMA BusStep ==
  ASSUME IInv, [Next]_vars
  PROVE  BusInv' /\ SafetyInv'
<1> USE DEF IInv, TypeOK, Calls, BusInv, SafetyInv, BusIsOpenWhilePolled,
            BusIsClosedWhenTheOsStarts, NotPolled, StartCalls, StopCalls,
            busVars, eventVars, probeVars, dataVars, readerVars
<1>1. CASE Start
  BY <1>1 DEF Start, Idle
<1>2. CASE I2cOpen
  BY <1>2 DEF I2cOpen, RememberInstance
<1>3. ASSUME NEW pin \in ResetPins, SynaPowerUpController(pin)
      PROVE  BusInv' /\ SafetyInv'
  BY <1>3 DEF SynaPowerUpController, StartFails
<1>4. CASE ProbeFails
  BY <1>4 DEF ProbeFails, StartFails
<1>5. CASE ProbeFinds
  BY <1>5 DEF ProbeFinds
<1>6. CASE ProbeSwitchesPage
  BY <1>6 DEF ProbeSwitchesPage, CountOnNewPage
<1>7. CASE ProbePassesFunction
  BY <1>7 DEF ProbePassesFunction, StartFails, ProbeGoesOn
<1>8. CASE AbsStartPolling
  BY <1>8 DEF AbsStartPolling
<1>9. CASE Install
  BY <1>9 DEF Install
<1>10. CASE Stop
  BY <1>10 DEF Stop, Idle, StopOrder
<1>11. ASSUME NEW op \in StopCalls, StopStep(op)
      PROVE  BusInv' /\ SafetyInv'
  BY <1>11, AfterStopOrder DEF StopStep
<1>12. CASE SynapticsTouchDxeExitBootService
  BY <1>12 DEF SynapticsTouchDxeExitBootService, Idle
<1>13. CASE SyncPollCallback
  BY <1>13 DEF SyncPollCallback, SyncGetTouchData
<1>14. CASE CheckEvent
  BY <1>14 DEF CheckEvent, Idle
<1>15. CASE WaitForInput
  BY <1>15 DEF WaitForInput, AbsPWaitForInput, SyncGetTouchData, IsReady
<1>16. CASE Recheck
  BY <1>16 DEF Recheck
<1>17. CASE CallbackConsumes
  BY <1>17 DEF CallbackConsumes
<1>18. CASE AbsPGetState
  BY <1>18 DEF AbsPGetState, ReaderGoesOn, Idle
<1>19. CASE GetStateFlag
  BY <1>19 DEF GetStateFlag, ReaderGoesOn
<1>20. CASE GetStateX
  BY <1>20 DEF GetStateX, ReaderGoesOn
<1>21. CASE GetStateY
  BY <1>21 DEF GetStateY, ReaderGoesOn
<1>22. CASE GetStateClear
  BY <1>22 DEF GetStateClear, ReaderGoesOn, Cleared
<1>23. CASE AbsPReset
  BY <1>23 DEF AbsPReset, ReaderGoesOn, Idle
<1>24. CASE ResetY
  BY <1>24 DEF ResetY, ReaderGoesOn
<1>25. CASE ResetFlag
  BY <1>25 DEF ResetFlag, ReaderGoesOn
<1>26. CASE UNCHANGED vars
  BY <1>26 DEF vars
<1>27. QED
  BY <1>1, <1>2, <1>3, <1>4, <1>5, <1>6, <1>7, <1>8, <1>9,
     <1>10, <1>11, <1>12, <1>13, <1>14, <1>15, <1>16, <1>17, <1>18,
     <1>19, <1>20, <1>21, <1>22, <1>23, <1>24, <1>25, <1>26
  DEF Next, ProbeSteps, StopCalls

(* Old news is not reported again.                                         *)
LEMMA NewsStep ==
  ASSUME IInv, [Next]_vars
  PROVE  NewsInv'
<1> USE DEF IInv, TypeOK, NewsInv, busVars, eventVars, probeVars, dataVars,
            readerVars
<1>1. CASE Start
  BY <1>1 DEF Start, Idle
<1>2. CASE I2cOpen
  BY <1>2 DEF I2cOpen, RememberInstance
<1>3. ASSUME NEW pin \in ResetPins, SynaPowerUpController(pin)
      PROVE  NewsInv'
  BY <1>3 DEF SynaPowerUpController, StartFails
<1>4. CASE ProbeFails
  BY <1>4 DEF ProbeFails, StartFails
<1>5. CASE ProbeFinds
  BY <1>5 DEF ProbeFinds
<1>6. CASE ProbeSwitchesPage
  BY <1>6 DEF ProbeSwitchesPage, CountOnNewPage
<1>7. CASE ProbePassesFunction
  BY <1>7 DEF ProbePassesFunction, StartFails, ProbeGoesOn
<1>8. CASE AbsStartPolling
  BY <1>8 DEF AbsStartPolling
<1>9. CASE Install
  BY <1>9 DEF Install
<1>10. CASE Stop
  BY <1>10 DEF Stop, Idle, StopOrder
<1>11. ASSUME NEW op \in StopCalls, StopStep(op)
      PROVE  NewsInv'
  BY <1>11, AfterStopOrder DEF StopStep
<1>12. CASE SynapticsTouchDxeExitBootService
  BY <1>12 DEF SynapticsTouchDxeExitBootService, Idle
<1>13. CASE SyncPollCallback
  BY <1>13 DEF SyncPollCallback, SyncGetTouchData
<1>14. CASE CheckEvent
  BY <1>14 DEF CheckEvent, Idle
<1>15. CASE WaitForInput
  BY <1>15 DEF WaitForInput, AbsPWaitForInput, SyncGetTouchData, IsReady
<1>16. CASE Recheck
  BY <1>16 DEF Recheck
<1>17. CASE CallbackConsumes
  BY <1>17 DEF CallbackConsumes
<1>18. CASE AbsPGetState
  BY <1>18 DEF AbsPGetState, ReaderGoesOn, Idle
<1>19. CASE GetStateFlag
  BY <1>19 DEF GetStateFlag, ReaderGoesOn
<1>20. CASE GetStateX
  BY <1>20 DEF GetStateX, ReaderGoesOn
<1>21. CASE GetStateY
  BY <1>21 DEF GetStateY, ReaderGoesOn
<1>22. CASE GetStateClear
  BY <1>22 DEF GetStateClear, ReaderGoesOn, Cleared
<1>23. CASE AbsPReset
  BY <1>23 DEF AbsPReset, ReaderGoesOn, Idle
<1>24. CASE ResetY
  BY <1>24 DEF ResetY, ReaderGoesOn
<1>25. CASE ResetFlag
  BY <1>25 DEF ResetFlag, ReaderGoesOn
<1>26. CASE UNCHANGED vars
  BY <1>26 DEF vars
<1>27. QED
  BY <1>1, <1>2, <1>3, <1>4, <1>5, <1>6, <1>7, <1>8, <1>9,
     <1>10, <1>11, <1>12, <1>13, <1>14, <1>15, <1>16, <1>17, <1>18,
     <1>19, <1>20, <1>21, <1>22, <1>23, <1>24, <1>25, <1>26
  DEF Next, ProbeSteps, StopCalls

(* A report is there until the reader that was woken looks at it.          *)
LEMMA WakeStep ==
  ASSUME IInv, [Next]_vars
  PROVE  WakeInv'
<1> USE DEF IInv, TypeOK, WakeInv, BusInv, busVars, eventVars, probeVars, dataVars,
            readerVars
<1>1. CASE Start
  BY <1>1 DEF Start, Idle
<1>2. CASE I2cOpen
  BY <1>2 DEF I2cOpen, RememberInstance
<1>3. ASSUME NEW pin \in ResetPins, SynaPowerUpController(pin)
      PROVE  WakeInv'
  BY <1>3 DEF SynaPowerUpController, StartFails
<1>4. CASE ProbeFails
  BY <1>4 DEF ProbeFails, StartFails
<1>5. CASE ProbeFinds
  BY <1>5 DEF ProbeFinds
<1>6. CASE ProbeSwitchesPage
  BY <1>6 DEF ProbeSwitchesPage, CountOnNewPage
<1>7. CASE ProbePassesFunction
  BY <1>7 DEF ProbePassesFunction, StartFails, ProbeGoesOn
<1>8. CASE AbsStartPolling
  BY <1>8 DEF AbsStartPolling
<1>9. CASE Install
  BY <1>9 DEF Install
<1>10. CASE Stop
  BY <1>10 DEF Stop, Idle, StopOrder
<1>11. ASSUME NEW op \in StopCalls, StopStep(op)
      PROVE  WakeInv'
  BY <1>11, AfterStopOrder DEF StopStep
<1>12. CASE SynapticsTouchDxeExitBootService
  BY <1>12 DEF SynapticsTouchDxeExitBootService, Idle
<1>13. CASE SyncPollCallback
  BY <1>13 DEF SyncPollCallback, SyncGetTouchData
<1>14. CASE CheckEvent
  BY <1>14 DEF CheckEvent, Idle
<1>15. CASE WaitForInput
  BY <1>15 DEF WaitForInput, AbsPWaitForInput, SyncGetTouchData, IsReady
<1>16. CASE Recheck
  BY <1>16 DEF Recheck
<1>17. CASE CallbackConsumes
  BY <1>17 DEF CallbackConsumes
<1>18. CASE AbsPGetState
  BY <1>18 DEF AbsPGetState, ReaderGoesOn, Idle
<1>19. CASE GetStateFlag
  BY <1>19 DEF GetStateFlag, ReaderGoesOn
<1>20. CASE GetStateX
  BY <1>20 DEF GetStateX, ReaderGoesOn
<1>21. CASE GetStateY
  BY <1>21 DEF GetStateY, ReaderGoesOn
<1>22. CASE GetStateClear
  BY <1>22 DEF GetStateClear, ReaderGoesOn, Cleared
<1>23. CASE AbsPReset
  BY <1>23 DEF AbsPReset, ReaderGoesOn, Idle
<1>24. CASE ResetY
  BY <1>24 DEF ResetY, ReaderGoesOn
<1>25. CASE ResetFlag
  BY <1>25 DEF ResetFlag, ReaderGoesOn
<1>26. CASE UNCHANGED vars
  BY <1>26 DEF vars
<1>27. QED
  BY <1>1, <1>2, <1>3, <1>4, <1>5, <1>6, <1>7, <1>8, <1>9,
     <1>10, <1>11, <1>12, <1>13, <1>14, <1>15, <1>16, <1>17, <1>18,
     <1>19, <1>20, <1>21, <1>22, <1>23, <1>24, <1>25, <1>26
  DEF Next, ProbeSteps, StopCalls

(* The probe's variables stay in their ranges.                             *)
LEMMA ProbeStep ==
  ASSUME IInv, [Next]_vars
  PROVE  ProbeInv'
<1> USE DEF IInv, TypeOK, ProbeInv, TOUCH_RMI_PAGE_INFO_ADDRESS,
            TOUCH_RMI_PAGE_INFO_BYTES, TOUCH_RMI_MAX_FUNCTIONS,
            busVars, eventVars, probeVars, dataVars, readerVars
<1>1. CASE Start
  BY <1>1 DEF Start, Idle
<1>2. CASE I2cOpen
  BY <1>2 DEF I2cOpen, RememberInstance
<1>3. ASSUME NEW pin \in ResetPins, SynaPowerUpController(pin)
      PROVE  ProbeInv'
  BY <1>3 DEF SynaPowerUpController, StartFails
<1>4. CASE ProbeFails
  BY <1>4 DEF ProbeFails, StartFails
<1>5. CASE ProbeFinds
  BY <1>5 DEF ProbeFinds
<1>6. CASE ProbeSwitchesPage
  BY <1>6 DEF ProbeSwitchesPage, CountOnNewPage
<1>7. CASE ProbePassesFunction
  BY <1>7 DEF ProbePassesFunction, StartFails, ProbeGoesOn
<1>8. CASE AbsStartPolling
  BY <1>8 DEF AbsStartPolling
<1>9. CASE Install
  BY <1>9 DEF Install
<1>10. CASE Stop
  BY <1>10 DEF Stop, Idle, StopOrder
<1>11. ASSUME NEW op \in StopCalls, StopStep(op)
      PROVE  ProbeInv'
  <2>1. call' # "probe" /\ UNCHANGED probeVars
    BY <1>11, AfterStopOrder DEF StopStep, StopCalls
  <2>2. QED BY <2>1
<1>12. CASE SynapticsTouchDxeExitBootService
  BY <1>12 DEF SynapticsTouchDxeExitBootService, Idle
<1>13. CASE SyncPollCallback
  BY <1>13 DEF SyncPollCallback, SyncGetTouchData
<1>14. CASE CheckEvent
  BY <1>14 DEF CheckEvent, Idle
<1>15. CASE WaitForInput
  BY <1>15 DEF WaitForInput, AbsPWaitForInput, SyncGetTouchData, IsReady
<1>16. CASE Recheck
  BY <1>16 DEF Recheck
<1>17. CASE CallbackConsumes
  BY <1>17 DEF CallbackConsumes
<1>18. CASE AbsPGetState
  BY <1>18 DEF AbsPGetState, ReaderGoesOn, Idle
<1>19. CASE GetStateFlag
  BY <1>19 DEF GetStateFlag, ReaderGoesOn
<1>20. CASE GetStateX
  BY <1>20 DEF GetStateX, ReaderGoesOn
<1>21. CASE GetStateY
  BY <1>21 DEF GetStateY, ReaderGoesOn
<1>22. CASE GetStateClear
  BY <1>22 DEF GetStateClear, ReaderGoesOn, Cleared
<1>23. CASE AbsPReset
  BY <1>23 DEF AbsPReset, ReaderGoesOn, Idle
<1>24. CASE ResetY
  BY <1>24 DEF ResetY, ReaderGoesOn
<1>25. CASE ResetFlag
  BY <1>25 DEF ResetFlag, ReaderGoesOn
<1>26. CASE UNCHANGED vars
  BY <1>26 DEF vars
<1>27. QED
  BY <1>1, <1>2, <1>3, <1>4, <1>5, <1>6, <1>7, <1>8, <1>9,
     <1>10, <1>11, <1>12, <1>13, <1>14, <1>15, <1>16, <1>17, <1>18,
     <1>19, <1>20, <1>21, <1>22, <1>23, <1>24, <1>25, <1>26
  DEF Next, ProbeSteps, StopCalls

(* A poll keeps the types of what it stores.                               *)
LEMMA PollType ==
  ASSUME TypeOK, SyncGetTouchData
  PROVE  /\ LastX' \in 0 .. MaxTouches
         /\ LastY' \in 0 .. MaxTouches
         /\ touches' \in 0 .. MaxTouches
         /\ StateChanged' \in BOOLEAN
<1>1. CASE UNCHANGED dataVars
  BY <1>1 DEF TypeOK, dataVars
<1>2. CASE /\ touches < MaxTouches /\ touches' = touches + 1
           /\ LastX' = touches + 1 /\ LastY' = touches + 1
           /\ StateChanged' = TRUE
  <2>1. StateChanged' \in BOOLEAN
    BY <1>2, Zenon
  <2>2. touches + 1 \in 0 .. MaxTouches
    BY <1>2, ConstantsAssumption DEF TypeOK
  <2>3. QED BY <1>2, <2>1, <2>2, Zenon
<1>3. QED BY <1>1, <1>2 DEF SyncGetTouchData

(* Every variable keeps its type.                                          *)
LEMMA TypeStep ==
  ASSUME IInv, [Next]_vars
  PROVE  TypeOK'
<1> USE DEF IInv, TypeOK, Calls, StopCalls, busVars, eventVars, probeVars,
            dataVars, readerVars
<1>1. CASE Start
  BY <1>1 DEF Start, Idle
<1>2. CASE I2cOpen
  BY <1>2 DEF I2cOpen, RememberInstance
<1>3. ASSUME NEW pin \in ResetPins, SynaPowerUpController(pin)
      PROVE  TypeOK'
  <2>1. /\ call' \in Calls /\ bus' \in {"closed", "open"}
        /\ \/ UNCHANGED probeVars
           \/ Page' = 0 /\ Function' = 0 /\ Address' = TOUCH_RMI_PAGE_INFO_ADDRESS
    BY <1>3 DEF SynaPowerUpController, StartFails
  <2>2. /\ Page' \in 0 .. TOUCH_RMI_MAX_FUNCTIONS
        /\ Function' \in 0 .. TOUCH_RMI_MAX_FUNCTIONS
        /\ Address' \in 0 .. TOUCH_RMI_PAGE_INFO_ADDRESS
    BY <2>1 DEF TOUCH_RMI_PAGE_INFO_ADDRESS, TOUCH_RMI_MAX_FUNCTIONS
  <2>3. QED BY <1>3, <2>1, <2>2 DEF SynaPowerUpController
<1>4. CASE ProbeFails
  BY <1>4 DEF ProbeFails, StartFails
<1>5. CASE ProbeFinds
  BY <1>5 DEF ProbeFinds
<1>6. CASE ProbeSwitchesPage
  <2>1. /\ Page' \in 0 .. TOUCH_RMI_MAX_FUNCTIONS
        /\ Function' \in 0 .. TOUCH_RMI_MAX_FUNCTIONS
        /\ Address' \in 0 .. TOUCH_RMI_PAGE_INFO_ADDRESS
    BY <1>6 DEF ProbeSwitchesPage, CountOnNewPage, ProbeInv,
                TOUCH_RMI_PAGE_INFO_ADDRESS, TOUCH_RMI_MAX_FUNCTIONS
  <2>2. QED BY <1>6, <2>1 DEF ProbeSwitchesPage
<1>7. CASE ProbePassesFunction
  <2>1. Function < TOUCH_RMI_MAX_FUNCTIONS
    BY <1>7 DEF ProbePassesFunction, ProbeInv
  <2>2. /\ Function' \in 0 .. TOUCH_RMI_MAX_FUNCTIONS
        /\ Address' \in 0 .. TOUCH_RMI_PAGE_INFO_ADDRESS
    BY <1>7, <2>1 DEF ProbePassesFunction, ProbeInv,
                      TOUCH_RMI_PAGE_INFO_ADDRESS,
                      TOUCH_RMI_PAGE_INFO_BYTES, TOUCH_RMI_MAX_FUNCTIONS
  <2>3. call' \in Calls /\ bus' \in {"closed", "open"}
    BY <1>7 DEF ProbePassesFunction, StartFails
  <2>4. QED BY <1>7, <2>2, <2>3 DEF ProbePassesFunction
<1>8. CASE AbsStartPolling
  BY <1>8 DEF AbsStartPolling
<1>9. CASE Install
  BY <1>9 DEF Install
<1>10. CASE Stop
  BY <1>10 DEF Stop, Idle, StopOrder
<1>11. ASSUME NEW op \in StopCalls, StopStep(op)
      PROVE  TypeOK'
  BY <1>11, AfterStopOrder DEF StopStep
<1>12. CASE SynapticsTouchDxeExitBootService
  BY <1>12 DEF SynapticsTouchDxeExitBootService, Idle
<1>13. CASE SyncPollCallback
  BY <1>13, PollType DEF SyncPollCallback
<1>14. CASE CheckEvent
  BY <1>14 DEF CheckEvent, Idle
<1>15. CASE WaitForInput
  BY <1>15, PollType DEF WaitForInput, AbsPWaitForInput
<1>16. CASE Recheck
  BY <1>16 DEF Recheck
<1>17. CASE CallbackConsumes
  BY <1>17 DEF CallbackConsumes
<1>18. CASE AbsPGetState
  BY <1>18 DEF AbsPGetState, ReaderGoesOn, Idle
<1>19. CASE GetStateFlag
  <2>1. woken' \in BOOLEAN
    BY <1>19, Zenon DEF GetStateFlag
  <2>2. pc' \in {"readX", "idle"}
    BY <1>19 DEF GetStateFlag, ReaderGoesOn
  <2>3. QED BY <1>19, <2>1, <2>2 DEF GetStateFlag, ReaderGoesOn
<1>20. CASE GetStateX
  BY <1>20 DEF GetStateX, ReaderGoesOn
<1>21. CASE GetStateY
  BY <1>21 DEF GetStateY, ReaderGoesOn
<1>22. CASE GetStateClear
  <2>1. StateChanged' \in BOOLEAN
    BY <1>22, Zenon DEF GetStateClear, Cleared
  <2>2. QED BY <1>22, <2>1 DEF GetStateClear, ReaderGoesOn
<1>23. CASE AbsPReset
  <2>1. woken' \in BOOLEAN
    BY <1>23, Zenon DEF AbsPReset
  <2>2. LastX' \in 0 .. MaxTouches
    BY <1>23, ConstantsAssumption DEF AbsPReset
  <2>3. QED BY <1>23, <2>1, <2>2 DEF AbsPReset, ReaderGoesOn
<1>24. CASE ResetY
  <2>1. LastY' \in 0 .. MaxTouches
    BY <1>24, ConstantsAssumption DEF ResetY
  <2>2. QED BY <1>24, <2>1 DEF ResetY, ReaderGoesOn
<1>25. CASE ResetFlag
  <2>1. StateChanged' \in BOOLEAN
    BY <1>25, Zenon DEF ResetFlag
  <2>2. QED BY <1>25, <2>1 DEF ResetFlag, ReaderGoesOn
<1>26. CASE UNCHANGED vars
  BY <1>26 DEF vars
<1>27. QED
  BY <1>1, <1>2, <1>3, <1>4, <1>5, <1>6, <1>7, <1>8, <1>9,
     <1>10, <1>11, <1>12, <1>13, <1>14, <1>15, <1>16, <1>17, <1>18,
     <1>19, <1>20, <1>21, <1>22, <1>23, <1>24, <1>25, <1>26
  DEF Next, ProbeSteps, StopCalls

(* The inductive invariant: types, the probe's progress, the bus and news. *)
THEOREM SpecInv == Spec => []IInv
<1>1. IInv /\ [Next]_vars => IInv'
  BY BusStep, NewsStep, WakeStep, ProbeStep, TypeStep DEF IInv
<1>2. QED BY <1>1, InitEstablishes, PTL DEF Spec

(* Every variable keeps its type: the probe's function count and its       *)
(* address stay in the range of a byte, whatever the device answers.       *)
THEOREM TypeCorrect == Spec => []TypeOK
<1>1. IInv => TypeOK
  BY DEF IInv
<1>2. QED BY <1>1, SpecInv, PTL

(* No poll of the timer, and none of the wait event's, uses a closed bus.  *)
THEOREM PollsFindTheBusOpen == Spec => []BusIsOpenWhilePolled
<1>1. IInv => BusIsOpenWhilePolled
  BY DEF IInv, SafetyInv
<1>2. QED BY <1>1, SpecInv, PTL

(* The operating system finds the I2C bus closed.                          *)
THEOREM TheOsFindsTheBusClosed == Spec => []BusIsClosedWhenTheOsStarts
<1>1. IInv => BusIsClosedWhenTheOsStarts
  BY DEF IInv, SafetyInv
<1>2. QED BY <1>1, SpecInv, PTL

(* For any number of touches and any interleaving of polls with            *)
(* AbsPGetState, each report is newer than the one before in both          *)
(* coordinates.                                                            *)
THEOREM EachReportIsNews == Spec => ReportsAdvance
<1>1. IInv => [pc = "clear" /\ pc' # pc =>
                 State.x > report.x /\ State.y > report.y]_vars
  BY DEF IInv, NewsInv
<1>2. QED BY <1>1, SpecInv, PTL DEF ReportsAdvance
(* A reader that a wait on the event woke up finds a report.               *)
THEOREM WokenReadersFindReports == Spec => []WokenReaderFindsReport
<1>1. IInv => WokenReaderFindsReport
  BY DEF IInv, WakeInv, WokenReaderFindsReport
<1>2. QED BY <1>1, SpecInv, PTL
=============================================================================
