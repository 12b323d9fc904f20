---------------------------- MODULE KeypadProofs ----------------------------
(* The safety of Keypad for every queue size, key set, set of              *)
(* registrations and number of keystrokes.                                 *)
EXTENDS Keypad, SequenceTheorems, FiniteSetTheorems, TLAPS

(* ----------------------------------------------------------------------- *)
(* The sequence operators the model is built from.                         *)

(* Repeated pushes keep a queue within its capacity.                       *)
LEMMA PushTimesType ==
  ASSUME NEW S, NEW q \in Seq(S), Len(q) <= Capacity, NEW m \in Nat, NEW v \in S
  PROVE  /\ Fifo!PushTimes(q, m, v) \in Seq(S)
         /\ Len(Fifo!PushTimes(q, m, v)) <= Capacity
<1> DEFINE vs   == [i \in 1 .. m |-> v]
           all  == q \o vs
           over == Len(all) - Capacity
<1>1. vs \in Seq(S) /\ Len(vs) = m
  OBVIOUS
<1>2. all \in Seq(S) /\ Len(all) = Len(q) + m /\ Len(all) \in Nat
  BY <1>1, ConcatProperties, LenProperties
<1>3. Capacity \in Nat \ {0}
  BY CountAssumption DEF Capacity
<1>4. \A i \in 1 .. Len(all) : all[i] \in S
  BY <1>2, ElementOfSeq
<1> HIDE DEF vs, all
<1>5. CASE over > 0
  <2>1. Fifo!PushTimes(q, m, v) = SubSeq(all, over + 1, Len(all))
    BY <1>5 DEF Fifo!PushTimes, all, vs
  <2>2. \A i \in over + 1 .. Len(all) : all[i] \in S
    BY <1>2, <1>3, <1>4, <1>5
  <2>3. over + 1 \in Int /\ Len(all) \in Int /\ over + 1 <= Len(all)
    BY <1>2, <1>3, <1>5
  <2>4. /\ SubSeq(all, over + 1, Len(all)) \in Seq(S)
        /\ Len(SubSeq(all, over + 1, Len(all))) = Len(all) - (over + 1) + 1
    BY <2>2, <2>3, SubSeqProperties
  <2>5. Len(all) - (over + 1) + 1 = Capacity
    BY <1>2, <1>3
  <2>6. QED BY <1>3, <2>1, <2>4, <2>5
<1>6. CASE ~(over > 0)
  <2>1. Fifo!PushTimes(q, m, v) = all
    BY <1>6 DEF Fifo!PushTimes, all, vs
  <2>2. QED BY <1>2, <1>3, <1>6, <2>1
<1>7. QED BY <1>5, <1>6

(* Pushing no times changes nothing.                                       *)
LEMMA PushTimesZero ==
  ASSUME NEW S, NEW q \in Seq(S), Len(q) <= Capacity, NEW v
  PROVE  Fifo!PushTimes(q, 0, v) = q
<1>1. [i \in 1 .. 0 |-> v] = <<>>
  OBVIOUS
<1>2. q \o [i \in 1 .. 0 |-> v] = q
  BY <1>1, ConcatEmptySeq
<1>3. QED
  BY <1>2, LenProperties, CountAssumption DEF Fifo!PushTimes, Capacity

(* One push keeps a queue within its capacity.                             *)
LEMMA PushTailType ==
  ASSUME NEW S, NEW q \in Seq(S), Len(q) <= Capacity, NEW v \in S
  PROVE  /\ Fifo!PushTail(q, v) \in Seq(S)
         /\ Len(Fifo!PushTail(q, v)) <= Capacity
<1>1. Capacity \in Nat \ {0}
  BY CountAssumption DEF Capacity
<1>2. CASE Len(q) = Capacity
  <2>1. q # <<>>
    BY <1>1, <1>2, EmptySeq
  <2>2. Tail(q) \in Seq(S) /\ Len(Tail(q)) = Len(q) - 1
    BY <2>1, HeadTailProperties
  <2>3. QED
    BY <1>1, <1>2, <2>2, AppendProperties DEF Fifo!PushTail, Fifo!Room
<1>3. CASE Len(q) # Capacity
  BY <1>1, <1>3, AppendProperties, LenProperties DEF Fifo!PushTail, Fifo!Room
<1>4. QED BY <1>2, <1>3

(* Removing the i-th element of a sequence.                                *)
LEMMA RemoveAtProperties ==
  ASSUME NEW S, NEW s \in Seq(S), NEW i \in 1 .. Len(s)
  PROVE  /\ RemoveAt(s, i) \in Seq(S)
         /\ Len(RemoveAt(s, i)) = Len(s) - 1
         /\ \A k \in 1 .. Len(s) - 1 :
              RemoveAt(s, i)[k] = IF k < i THEN s[k] ELSE s[k + 1]
<1> DEFINE a == SubSeq(s, 1, i - 1)
           b == SubSeq(s, i + 1, Len(s))
<1>1. Len(s) \in Nat /\ \A k \in 1 .. Len(s) : s[k] \in S
  BY LenProperties, ElementOfSeq
<1>2. /\ a \in Seq(S) /\ Len(a) = i - 1
      /\ \A k \in 1 .. i - 1 : a[k] = s[k]
  <2>1. \A k \in 1 .. i - 1 : s[k] \in S
    BY <1>1
  <2>2. /\ a \in Seq(S)
        /\ Len(a) = IF 1 <= i - 1 THEN (i - 1) - 1 + 1 ELSE 0
        /\ \A k \in 1 .. (i - 1) - 1 + 1 : a[k] = s[1 + k - 1]
    BY <2>1, SubSeqProperties
  <2>3. QED BY <2>2
<1>3. /\ b \in Seq(S) /\ Len(b) = Len(s) - i
      /\ \A k \in 1 .. Len(s) - i : b[k] = s[i + k]
  <2>1. \A k \in i + 1 .. Len(s) : s[k] \in S
    BY <1>1
  <2>2. i + 1 \in Int /\ Len(s) \in Int
    BY <1>1
  <2>3. /\ b \in Seq(S)
        /\ Len(b) = IF i + 1 <= Len(s) THEN Len(s) - (i + 1) + 1 ELSE 0
        /\ \A k \in 1 .. Len(s) - (i + 1) + 1 : b[k] = s[(i + 1) + k - 1]
    BY <2>1, <2>2, SubSeqProperties
  <2>4. QED BY <1>1, <2>3
<1> HIDE DEF a, b
<1>4. /\ a \o b \in Seq(S)
      /\ Len(a \o b) = Len(a) + Len(b)
      /\ \A k \in 1 .. Len(a) + Len(b) :
           (a \o b)[k] = IF k <= Len(a) THEN a[k] ELSE b[k - Len(a)]
  BY <1>2, <1>3, ConcatProperties
<1>5. RemoveAt(s, i) = a \o b
  BY DEF RemoveAt, a, b
<1>6. \A k \in 1 .. Len(s) - 1 :
        RemoveAt(s, i)[k] = IF k < i THEN s[k] ELSE s[k + 1]
  <2>1. TAKE k \in 1 .. Len(s) - 1
  <2>2. CASE k < i
    BY <1>1, <1>2, <1>3, <1>4, <1>5, <2>2
  <2>3. CASE ~(k < i)
    <3>1. RemoveAt(s, i)[k] = b[k - (i - 1)]
      BY <1>1, <1>2, <1>3, <1>4, <1>5, <2>3
    <3>2. k - (i - 1) \in 1 .. Len(s) - i /\ i + (k - (i - 1)) = k + 1
      BY <1>1, <2>3
    <3>3. QED BY <1>3, <2>3, <3>1, <3>2
  <2>4. QED BY <2>2, <2>3
<1>7. QED BY <1>1, <1>2, <1>3, <1>4, <1>5, <1>6

(* ----------------------------------------------------------------------- *)
(* Type correctness.                                                       *)

Node == [handle : Handles, data : KeyData, fn : Fns]

(* How many registrations match a keystroke is a number.                   *)
LEMMA MatchingCount ==
  ASSUME NEW list \in Seq(Node), NEW k
  PROVE  /\ Cardinality(Matching(list, k)) \in Nat
         /\ Matching(list, k) = {} => Cardinality(Matching(list, k)) = 0
<1>1. Matching(list, k) \subseteq 1 .. Len(list)
  BY DEF Matching
<1>2. IsFiniteSet(1 .. Len(list))
  BY FS_Interval, LenProperties
<1>3. QED
  BY <1>1, <1>2, FS_Subset, FS_CardinalityType, FS_EmptySet

(* A registration on the list has an index there, and its successor is     *)
(* another registration or the end of the list.                            *)
LEMMA WalkProperties ==
  ASSUME NotifyList \in Seq(Node)
  PROVE  /\ FirstNode \in Handles \union {EndOfList}
         /\ FirstNode # EndOfList => InList(FirstNode)
         /\ \A h : InList(h) => /\ IndexOf(h) \in 1 .. Len(NotifyList)
                                /\ NotifyList[IndexOf(h)].handle = h
                                /\ NextNode(h) \in Handles \union {EndOfList}
                                /\ NextNode(h) # EndOfList => InList(NextNode(h))
<1>1. /\ Len(NotifyList) \in Nat
      /\ DOMAIN NotifyList = 1 .. Len(NotifyList)
      /\ \A i \in 1 .. Len(NotifyList) : NotifyList[i].handle \in Handles
  <2>1. /\ Len(NotifyList) \in Nat
        /\ DOMAIN NotifyList = 1 .. Len(NotifyList)
        /\ \A i \in 1 .. Len(NotifyList) : NotifyList[i] \in Node
    BY LenProperties, ElementOfSeq
  <2>2. QED BY <2>1 DEF Node
<1>2. NotifyList # <<>> => 1 \in 1 .. Len(NotifyList)
  BY EmptySeq, <1>1
<1>3. /\ FirstNode \in Handles \union {EndOfList}
      /\ FirstNode # EndOfList => InList(FirstNode)
  BY <1>1, <1>2 DEF FirstNode, InList
<1>4. ASSUME NEW h, InList(h)
      PROVE  /\ IndexOf(h) \in 1 .. Len(NotifyList)
             /\ NotifyList[IndexOf(h)].handle = h
             /\ NextNode(h) \in Handles \union {EndOfList}
             /\ NextNode(h) # EndOfList => InList(NextNode(h))
  <2>1. /\ IndexOf(h) \in 1 .. Len(NotifyList)
        /\ NotifyList[IndexOf(h)].handle = h
    BY <1>1, <1>4 DEF InList, IndexOf
  <2>2. CASE IndexOf(h) = Len(NotifyList)
    BY <2>1, <2>2 DEF NextNode
  <2>3. CASE IndexOf(h) # Len(NotifyList)
    <3>1. IndexOf(h) + 1 \in 1 .. Len(NotifyList)
      BY <1>1, <2>1, <2>3
    <3>2. QED BY <1>1, <2>1, <2>3, <3>1 DEF NextNode, InList
  <2>4. QED BY <2>1, <2>2, <2>3
<1>5. QED BY <1>3, <1>4

(* What each action leaves alone, for the conjuncts it cannot disturb.     *)
Inv == TypeOK /\ NoLostNotify /\ WalkStaysOnList

(* The queues, the list and the handler are right at first.                *)
LEMMA InitInv == Init => Inv
<1> SUFFICES ASSUME Init PROVE Inv
  OBVIOUS
<1>1. TypeOK
  <2>1. Len(typed) = 0 /\ Capacity \in Nat
    BY EmptySeq, CountAssumption DEF Init, Capacity
  <2>2. /\ typed \in Seq(KeyData)
        /\ EfiKeyQueue \in Seq(1 .. Len(typed))
        /\ Len(EfiKeyQueue) <= Capacity
        /\ EfiKeyQueueForNotify \in Seq(1 .. Len(typed))
        /\ Len(EfiKeyQueueForNotify) <= Capacity
        /\ NotifyList \in Seq(Node)
    BY <2>1, EmptySeq DEF Init
  <2>3. heard \in [Handles -> 0 .. Len(typed)]
    BY <2>1 DEF Init
  <2>4. cur \in 0 .. Len(typed) /\ lastRead \in 0 .. Len(typed)
    BY <2>1 DEF Init
  <2>5. /\ IsSupportPartialKey \in BOOLEAN
        /\ locks \in SUBSET {"scroll", "num", "caps"}
        /\ poll \in Polls
        /\ pending \in BOOLEAN
        /\ handler \in {"idle", "pop", "walk", "called", "fault"}
        /\ link \in Handles \union {EndOfList}
        /\ forward \in Handles \union {EndOfList, NotFreed}
        /\ reading \in BOOLEAN
        /\ status \in Statuses
        /\ ready \in BOOLEAN
    BY DEF Init, Polls, Statuses
  <2>6. QED
    BY <2>2, <2>3, <2>4, <2>5 DEF TypeOK, Node
<1>2. NoLostNotify /\ WalkStaysOnList
  BY DEF Init, NoLostNotify, WalkStaysOnList
<1>3. QED BY <1>1, <1>2 DEF Inv

(* A step that leaves the notification queue and the handler alone loses   *)
(* no wake-up.                                                             *)
LEMMA NoLostNotifyKept ==
  ASSUME NoLostNotify, UNCHANGED <<EfiKeyQueueForNotify, pending, handler>>
  PROVE  NoLostNotify'
BY DEF NoLostNotify

(* A step that leaves the list and the handler alone leaves the walk on    *)
(* the list.                                                               *)
LEMMA WalkStaysOnListKept ==
  ASSUME WalkStaysOnList, UNCHANGED <<NotifyList, handler, link, forward>>
  PROVE  WalkStaysOnList'
BY DEF WalkStaysOnList, InList

(* A keystroke from the device.                                            *)
LEMMA ReturnKeyInv ==
  ASSUME Inv, NEW k \in KeyData, ReturnKey(k)
  PROVE  Inv'
<1> DEFINE id == Len(typed) + 1
           m  == Cardinality(Matching(NotifyList, k))
<1>1. /\ typed \in Seq(KeyData) /\ Len(typed) \in Nat
      /\ typed' = Append(typed, k)
      /\ typed' \in Seq(KeyData) /\ Len(typed') = id
  BY AppendProperties, LenProperties DEF Inv, TypeOK, ReturnKey
<1>2. id \in 1 .. id /\ 1 .. Len(typed) \subseteq 1 .. id
  BY <1>1
<1>3. /\ EfiKeyQueue \in Seq(1 .. id) /\ Len(EfiKeyQueue) <= Capacity
      /\ EfiKeyQueueForNotify \in Seq(1 .. id)
      /\ Len(EfiKeyQueueForNotify) <= Capacity
  BY <1>2, SeqMonotonic DEF Inv, TypeOK
<1>4. m \in Nat /\ (Matching(NotifyList, k) = {} => m = 0)
  BY MatchingCount DEF Inv, TypeOK, Node
<1>5. /\ EfiKeyQueue' = Fifo!PushTail(EfiKeyQueue, id)
      /\ EfiKeyQueueForNotify' = Fifo!PushTimes(EfiKeyQueueForNotify, m, id)
      /\ pending' = (pending \/ Matching(NotifyList, k) # {})
      /\ ready' = (ready /\ Len(EfiKeyQueue) < Capacity)
      /\ UNCHANGED <<settingVars, NotifyList, poll, handlerVars, reading,
                     status, lastRead>>
  BY DEF ReturnKey, PushEfikeyBufTail
<1> HIDE DEF id, m
<1>6. EfiKeyQueue' \in Seq(1 .. id) /\ Len(EfiKeyQueue') <= Capacity
  BY <1>2, <1>3, <1>5, PushTailType
<1>7. /\ EfiKeyQueueForNotify' \in Seq(1 .. id)
      /\ Len(EfiKeyQueueForNotify') <= Capacity
  BY <1>2, <1>3, <1>4, <1>5, PushTimesType
<1>8. TypeOK'
  <2>1. /\ cur' \in 0 .. id /\ lastRead' \in 0 .. id
        /\ heard' \in [Handles -> 0 .. id]
    <3>1. 0 .. Len(typed) \subseteq 0 .. id
      BY <1>1 DEF id
    <3>2. QED BY <1>5, <3>1 DEF Inv, TypeOK, handlerVars
  <2>2. /\ pending' \in BOOLEAN /\ ready' \in BOOLEAN
    BY <1>5 DEF Inv, TypeOK
  <2>3. QED
    BY <1>1, <1>5, <1>6, <1>7, <2>1, <2>2
    DEF Inv, TypeOK, settingVars, handlerVars
<1>9. NoLostNotify'
  <2>1. CASE Matching(NotifyList, k) = {}
    <3>1. EfiKeyQueueForNotify' = EfiKeyQueueForNotify
      BY <1>3, <1>4, <1>5, <2>1, PushTimesZero
    <3>2. QED BY <1>5, <3>1 DEF Inv, NoLostNotify, handlerVars
  <2>2. CASE Matching(NotifyList, k) # {}
    BY <1>5, <2>2 DEF NoLostNotify
  <2>3. QED BY <2>1, <2>2
<1>10. WalkStaysOnList'
  BY <1>5, WalkStaysOnListKept DEF Inv, handlerVars
<1>11. QED BY <1>8, <1>9, <1>10 DEF Inv

(* The steps of a reader.                                                  *)
LEMMA ReaderInv ==
  ASSUME Inv, Reader
  PROVE  Inv'
<1>1. /\ UNCHANGED <<typed, EfiKeyQueueForNotify, settingVars, NotifyList,
                     pending, handlerVars>>
      /\ poll' \in Polls
  BY DEF Reader, BeginRead, BeginWait, ReadPops, KeypadWaitForKey, queueVars,
         Polls
<1>2. NoLostNotify' /\ WalkStaysOnList'
  BY <1>1, NoLostNotifyKept, WalkStaysOnListKept DEF Inv, handlerVars
\* What is left to show of TypeOK'.
<1> DEFINE ReaderTypeOK ==
             /\ EfiKeyQueue' \in Seq(1 .. Len(typed))
             /\ Len(EfiKeyQueue') <= Capacity
             /\ reading' \in BOOLEAN
             /\ status' \in Statuses
             /\ lastRead' \in 0 .. Len(typed)
             /\ ready' \in BOOLEAN
<1>3. ReaderTypeOK => TypeOK'
  BY <1>1 DEF Inv, TypeOK, settingVars, handlerVars
<1>4. Len(EfiKeyQueue) \in Nat /\ Capacity \in Nat /\ Len(typed) \in Nat
  BY LenProperties, CountAssumption DEF Inv, TypeOK, Capacity
<1>5. ASSUME \/ \E op \in {"ReadKeyStroke", "ReadKeyStrokeEx"} : BeginRead(op)
             \/ \E event \in {"WaitForKey", "WaitForKeyEx"} : BeginWait(event)
      PROVE  ReaderTypeOK
  BY <1>5 DEF BeginRead, BeginWait, queueVars, readerVars, Inv, TypeOK
<1>6. ASSUME ReadPops PROVE ReaderTypeOK
  <2>1. CASE EfiKeyQueue = <<>>
    BY <1>6, <2>1 DEF ReadPops, Inv, TypeOK, Statuses
  <2>2. CASE EfiKeyQueue # <<>>
    <3>1. /\ Head(EfiKeyQueue) \in 1 .. Len(typed)
          /\ Tail(EfiKeyQueue) \in Seq(1 .. Len(typed))
          /\ Len(Tail(EfiKeyQueue)) = Len(EfiKeyQueue) - 1
      BY <2>2, HeadTailProperties DEF Inv, TypeOK
    <3>2. /\ EfiKeyQueue' = Tail(EfiKeyQueue)
          /\ reading' \in BOOLEAN /\ ready' \in BOOLEAN
          /\ lastRead' \in {lastRead, Head(EfiKeyQueue)}
          /\ status' \in {status, "EFI_SUCCESS"}
      BY <1>6, <2>2 DEF ReadPops, Inv, TypeOK, IsPartial
    <3>3. Len(EfiKeyQueue') <= Capacity
      BY <1>4, <3>1, <3>2 DEF Inv, TypeOK
    <3>4. lastRead' \in 0 .. Len(typed)
      BY <1>4, <3>1, <3>2 DEF Inv, TypeOK
    <3>5. status' \in Statuses
      BY <3>2 DEF Inv, TypeOK, Statuses
    <3>6. QED BY <3>1, <3>2, <3>3, <3>4, <3>5
  <2>3. QED BY <2>1, <2>2
<1>7. ASSUME KeypadWaitForKey PROVE ReaderTypeOK
  <2>1. PICK n \in 0 .. Len(EfiKeyQueue) :
          /\ EfiKeyQueue' = SubSeq(EfiKeyQueue, n + 1, Len(EfiKeyQueue))
          /\ ready' = (n < Len(EfiKeyQueue))
    BY <1>7 DEF KeypadWaitForKey, SkipAndSignal, Leading
  <2>2. \A i \in 1 .. Len(EfiKeyQueue) : EfiKeyQueue[i] \in 1 .. Len(typed)
    BY ElementOfSeq DEF Inv, TypeOK
  <2>3. n + 1 \in Int /\ Len(EfiKeyQueue) \in Int
        /\ \A i \in n + 1 .. Len(EfiKeyQueue) : EfiKeyQueue[i] \in 1 .. Len(typed)
    BY <1>4, <2>2
  <2>4. /\ EfiKeyQueue' \in Seq(1 .. Len(typed))
        /\ Len(EfiKeyQueue') = IF n + 1 <= Len(EfiKeyQueue)
                                 THEN Len(EfiKeyQueue) - (n + 1) + 1 ELSE 0
    BY <2>1, <2>3, SubSeqProperties
  <2>5. Len(EfiKeyQueue') <= Capacity
    BY <1>4, <2>4 DEF Inv, TypeOK
  <2>6. /\ status' \in {"signalled", "not signalled"}
        /\ UNCHANGED <<reading, lastRead>>
    BY <1>7 DEF KeypadWaitForKey
  <2>7. reading' \in BOOLEAN /\ lastRead' \in 0 .. Len(typed)
    BY <2>6 DEF Inv, TypeOK
  <2>8. status' \in Statuses
    BY <2>6 DEF Statuses
  <2>9. ready' \in BOOLEAN
    BY <2>1
  <2>10. QED BY <2>4, <2>5, <2>7, <2>8, <2>9
<1>8. QED BY <1>2, <1>3, <1>5, <1>6, <1>7 DEF Reader, Inv

(* The calls that reset, set the state, register and unregister.           *)
LEMMA CallInv ==
  ASSUME Inv, Call
  PROVE  Inv'
<1> USE DEF CanCall, AppRuns
<1>1. CASE KeypadEfiReset
  <2>1. /\ EfiKeyQueue' \in Seq(1 .. Len(typed)) /\ Len(EfiKeyQueue') <= Capacity
        /\ EfiKeyQueueForNotify' \in Seq(1 .. Len(typed))
        /\ Len(EfiKeyQueueForNotify') <= Capacity
    BY <1>1, EmptySeq, CountAssumption DEF KeypadEfiReset, Capacity
  <2>2. TypeOK'
    BY <1>1, <2>1 DEF KeypadEfiReset, Inv, TypeOK, Statuses, handlerVars
  <2>3. NoLostNotify'
    BY <1>1 DEF KeypadEfiReset, NoLostNotify
  <2>4. WalkStaysOnList'
    BY <1>1, WalkStaysOnListKept DEF KeypadEfiReset, Inv, handlerVars
  <2>5. QED BY <2>2, <2>3, <2>4 DEF Inv
<1>2. ASSUME NEW t \in Toggles, KeypadSetState(t) PROVE Inv'
  <2>1. /\ IsSupportPartialKey' \in BOOLEAN
        /\ locks' \in SUBSET {"scroll", "num", "caps"}
        /\ status' \in Statuses
    BY <1>2, TogglesAssumption
    DEF KeypadSetState, Inv, TypeOK, Statuses, settingVars
  <2>2. UNCHANGED <<queueVars, NotifyList, poll, pending, handlerVars, reading,
                    lastRead, ready>>
    BY <1>2 DEF KeypadSetState
  <2>3. TypeOK'
    BY <2>1, <2>2 DEF Inv, TypeOK, queueVars, handlerVars
  <2>4. QED
    BY <2>2, <2>3, NoLostNotifyKept, WalkStaysOnListKept
    DEF Inv, queueVars, handlerVars
<1>3. ASSUME NEW data \in KeyData, NEW fn \in Fns,
             KeypadRegisterKeyNotify(data, fn)
      PROVE  Inv'
  <2>1. UNCHANGED <<queueVars, settingVars, poll, pending, handlerVars, reading,
                    lastRead, ready>>
    BY <1>3 DEF KeypadRegisterKeyNotify
  <2>2. \/ UNCHANGED NotifyList
        \/ \E h \in Handles :
             NotifyList' =
               Append(NotifyList, [handle |-> h, data |-> data, fn |-> fn])
    BY <1>3 DEF KeypadRegisterKeyNotify, InsertTail
  <2>3. status' \in Statuses
    BY <1>3 DEF KeypadRegisterKeyNotify, Statuses
  <2>4. CASE UNCHANGED NotifyList
    <3>1. TypeOK'
      BY <2>1, <2>3, <2>4
      DEF Inv, TypeOK, queueVars, settingVars, handlerVars
    <3>2. QED
      BY <2>1, <2>4, <3>1, NoLostNotifyKept, WalkStaysOnListKept
      DEF Inv, queueVars, handlerVars
  <2>5. ASSUME NEW h \in Handles,
               NotifyList' =
                 Append(NotifyList, [handle |-> h, data |-> data, fn |-> fn])
        PROVE  Inv'
    <3>1. [handle |-> h, data |-> data, fn |-> fn] \in Node
      BY DEF Node
    <3>2. /\ NotifyList \in Seq(Node) /\ NotifyList' \in Seq(Node)
          /\ Len(NotifyList) \in Nat /\ Len(NotifyList') = Len(NotifyList) + 1
          /\ \A i \in 1 .. Len(NotifyList) : NotifyList'[i] = NotifyList[i]
      BY <2>5, <3>1, AppendProperties, LenProperties DEF Inv, TypeOK, Node
    <3>3. TypeOK'
      BY <2>1, <2>3, <3>2
      DEF Inv, TypeOK, Node, queueVars, settingVars, handlerVars
    <3>4. NoLostNotify'
      BY <2>1, NoLostNotifyKept DEF Inv, queueVars, handlerVars
    <3>5. \A g : InList(g) => InList(g)'
      BY <3>2, LenProperties DEF InList
    <3>6. WalkStaysOnList'
      BY <2>1, <3>5 DEF Inv, WalkStaysOnList, handlerVars
    <3>7. QED BY <3>3, <3>4, <3>6 DEF Inv
  <2>6. QED BY <2>2, <2>4, <2>5
<1>4. ASSUME NEW h \in Handles, KeypadUnregisterKeyNotify(h) PROVE Inv'
  <2>1. UNCHANGED <<queueVars, settingVars, poll, pending, handler, cur, link,
                    reading, lastRead, ready>>
    BY <1>4 DEF KeypadUnregisterKeyNotify
  <2>2. status' \in Statuses
    BY <1>4 DEF KeypadUnregisterKeyNotify, Statuses
  <2>3. CASE ~InList(h)
    <3>1. UNCHANGED <<NotifyList, forward, heard>>
      BY <1>4, <2>3 DEF KeypadUnregisterKeyNotify
    <3>2. TypeOK'
      BY <2>1, <2>2, <3>1 DEF Inv, TypeOK, queueVars, settingVars
    <3>3. QED
      BY <2>1, <3>1, <3>2, NoLostNotifyKept, WalkStaysOnListKept
      DEF Inv, queueVars
  <2>4. CASE InList(h)
    <3> DEFINE i == IndexOf(h)
    <3>1. i \in 1 .. Len(NotifyList) /\ NotifyList[i].handle = h
      BY <2>4, WalkProperties DEF Inv, TypeOK, Node
    <3>2. /\ NotifyList' = RemoveAt(NotifyList, i)
          /\ heard' = [heard EXCEPT ![h] = 0]
          /\ forward' = IF handler = "called" /\ h = link THEN NextNode(h)
                        ELSE forward
          /\ handler \in {"idle", "called"}
      BY <1>4, <2>4 DEF KeypadUnregisterKeyNotify
    <3> HIDE DEF i
    <3>3. /\ NotifyList \in Seq(Node) /\ NotifyList' \in Seq(Node)
          /\ Len(NotifyList) \in Nat /\ Len(NotifyList') = Len(NotifyList) - 1
          /\ \A k \in 1 .. Len(NotifyList) - 1 :
               NotifyList'[k] = IF k < i THEN NotifyList[k] ELSE NotifyList[k + 1]
      BY <3>1, <3>2, RemoveAtProperties, LenProperties DEF Inv, TypeOK, Node
    <3>4. /\ NextNode(h) \in Handles \union {EndOfList}
          /\ NextNode(h) # NotFreed
      <4>1. NextNode(h) \in Handles \union {EndOfList}
        BY <2>4, WalkProperties DEF Inv, TypeOK, Node
      <4>2. QED BY <4>1, HandlesAssumption DEF EndOfList, NotFreed
    <3>5. /\ forward' \in Handles \union {EndOfList, NotFreed}
          /\ heard' \in [Handles -> 0 .. Len(typed)]
      BY <3>2, <3>4, LenProperties DEF Inv, TypeOK
    <3>6. TypeOK'
      BY <2>1, <2>2, <3>3, <3>5
      DEF Inv, TypeOK, Node, queueVars, settingVars
    <3>7. NoLostNotify'
      BY <2>1, NoLostNotifyKept DEF Inv, queueVars
    <3>8. ASSUME NEW g, g # h, InList(g) PROVE InList(g)'
      <4>1. PICK j \in 1 .. Len(NotifyList) : NotifyList[j].handle = g
        BY <3>3, <3>8, LenProperties DEF InList
      <4>2. j # i
        BY <3>1, <3>8, <4>1
      <4>3. DOMAIN NotifyList' = 1 .. Len(NotifyList) - 1
        BY <3>3, LenProperties
      <4>4. CASE j < i
        <5>1. j \in 1 .. Len(NotifyList) - 1 /\ NotifyList'[j] = NotifyList[j]
          BY <3>1, <3>3, <4>1, <4>4
        <5>2. QED BY <4>1, <4>3, <5>1 DEF InList
      <4>5. CASE j > i
        <5>1. /\ j - 1 \in 1 .. Len(NotifyList) - 1
              /\ NotifyList'[j - 1] = NotifyList[j]
          BY <3>1, <3>3, <4>1, <4>5
        <5>2. QED BY <4>1, <4>3, <5>1 DEF InList
      <4>6. QED BY <3>1, <3>3, <4>1, <4>2, <4>4, <4>5
    <3>9. WalkStaysOnList'
      BY <2>1, <3>2, <3>4, <3>8 DEF Inv, WalkStaysOnList
    <3>10. QED BY <3>6, <3>7, <3>9 DEF Inv
  <2>5. QED BY <2>3, <2>4
<1>5. QED BY <1>1, <1>2, <1>3, <1>4 DEF Call

(* The steps of KeyNotifyProcessHandler.                                   *)
LEMMA HandlerInv ==
  ASSUME Inv, Handler
  PROVE  Inv'
<1>1. CASE DispatchNotify
  BY <1>1
  DEF DispatchNotify, Inv, TypeOK, NoLostNotify, WalkStaysOnList, InList,
      queueVars, settingVars, readerVars
<1>2. CASE NotifyPops
  <2>1. CASE EfiKeyQueueForNotify = <<>>
    <3>1. TypeOK'
      BY <1>2, <2>1, LenProperties
      DEF NotifyPops, Inv, TypeOK, settingVars, readerVars
    <3>2. QED
      BY <1>2, <2>1, <3>1
      DEF NotifyPops, Inv, NoLostNotify, WalkStaysOnList
  <2>2. CASE EfiKeyQueueForNotify # <<>>
    <3>1. /\ Head(EfiKeyQueueForNotify) \in 1 .. Len(typed)
          /\ Tail(EfiKeyQueueForNotify) \in Seq(1 .. Len(typed))
          /\ Len(Tail(EfiKeyQueueForNotify)) = Len(EfiKeyQueueForNotify) - 1
          /\ Len(EfiKeyQueueForNotify) \in Nat /\ Capacity \in Nat
      BY <2>2, HeadTailProperties, LenProperties, CountAssumption
      DEF Inv, TypeOK, Capacity
    <3>2. /\ EfiKeyQueueForNotify' = Tail(EfiKeyQueueForNotify)
          /\ cur' = Head(EfiKeyQueueForNotify)
          /\ link' = FirstNode
          /\ handler' = "walk"
          /\ forward' = NotFreed
          /\ UNCHANGED <<typed, EfiKeyQueue, settingVars, NotifyList, poll,
                         pending, heard, readerVars>>
      BY <1>2, <2>2 DEF NotifyPops
    <3>3. /\ FirstNode \in Handles \union {EndOfList}
          /\ FirstNode # EndOfList => InList(FirstNode)
      BY WalkProperties DEF Inv, TypeOK, Node
    <3>4. Len(EfiKeyQueueForNotify') <= Capacity
      BY <3>1, <3>2 DEF Inv, TypeOK
    <3>5. TypeOK'
      BY <3>1, <3>2, <3>3, <3>4 DEF Inv, TypeOK, settingVars, readerVars
    <3>6. QED
      BY <3>2, <3>3, <3>5 DEF Inv, NoLostNotify, WalkStaysOnList, InList
  <2>3. QED BY <2>1, <2>2
<1>3. CASE WalkVisits
  <2>1. InList(link)
    BY <1>3 DEF WalkVisits, Inv, WalkStaysOnList
  <2>2. /\ NextNode(link) \in Handles \union {EndOfList}
        /\ NextNode(link) # EndOfList => InList(NextNode(link))
    BY <2>1, WalkProperties DEF Inv, TypeOK, Node
  <2>3. /\ UNCHANGED <<queueVars, settingVars, NotifyList, poll, pending, cur,
                       forward, readerVars>>
        /\ \/ /\ handler' = "called"
              /\ heard' = [heard EXCEPT ![link] = cur]
              /\ link' = link
           \/ /\ link' = NextNode(link)
              /\ handler' = handler /\ heard' = heard
        /\ link # EndOfList /\ handler = "walk"
    BY <1>3 DEF WalkVisits
  <2>4. heard' \in [Handles -> 0 .. Len(typed)]
    BY <2>3 DEF Inv, TypeOK
  <2>5. TypeOK'
    BY <2>2, <2>3, <2>4 DEF Inv, TypeOK, queueVars, settingVars, readerVars
  <2>6. NoLostNotify'
    BY <2>3 DEF Inv, NoLostNotify, queueVars
  <2>7. WalkStaysOnList'
    BY <2>1, <2>2, <2>3 DEF Inv, WalkStaysOnList, InList
  <2>8. QED BY <2>5, <2>6, <2>7 DEF Inv
<1>4. CASE FunctionReturns
  <2>1. /\ UNCHANGED <<queueVars, settingVars, NotifyList, poll, pending, cur,
                       forward, heard, readerVars>>
        /\ handler = "called"
        /\ \/ handler' = "walk" /\ InList(link) /\ link' = NextNode(link)
           \/ /\ handler' = "walk" /\ link' = forward
              /\ forward = EndOfList \/ InList(forward)
           \/ handler' = "fault" /\ ~InList(link) /\ link' = link
    BY <1>4 DEF FunctionReturns
  <2>2. CASE handler' = "walk"
    <3>1. InList(link) => /\ NextNode(link) \in Handles \union {EndOfList}
                          /\ NextNode(link) # EndOfList => InList(NextNode(link))
      BY WalkProperties DEF Inv, TypeOK, Node
    <3>2. InList(forward) => forward \in Handles
      <4>1. InList(forward) => \E i \in 1 .. Len(NotifyList) :
                                 /\ NotifyList[i] \in Node
                                 /\ NotifyList[i].handle = forward
        BY LenProperties, ElementOfSeq DEF InList, Inv, TypeOK, Node
      <4>2. QED BY <4>1 DEF Node
    <3>3. /\ link' \in Handles \union {EndOfList}
          /\ link' # EndOfList => InList(link')
      BY <2>1, <2>2, <3>1, <3>2
    <3>4. TypeOK'
      BY <2>1, <2>2, <3>3 DEF Inv, TypeOK, queueVars, settingVars, readerVars
    <3>5. QED
      BY <2>1, <2>2, <3>3, <3>4
      DEF Inv, NoLostNotify, WalkStaysOnList, InList, queueVars
  <2>3. CASE handler' = "fault"
    <3>1. forward' # NotFreed
      BY <2>1, <2>3 DEF Inv, WalkStaysOnList
    <3>2. TypeOK'
      BY <2>1, <2>3 DEF Inv, TypeOK, queueVars, settingVars, readerVars
    <3>3. QED
      BY <2>1, <2>3, <3>1, <3>2 DEF Inv, NoLostNotify, WalkStaysOnList, queueVars
  <2>4. QED BY <2>1, <2>2, <2>3
<1>5. CASE WalkEnds
  BY <1>5
  DEF WalkEnds, Inv, TypeOK, NoLostNotify, WalkStaysOnList, InList, queueVars,
      settingVars, readerVars
<1>6. QED BY <1>1, <1>2, <1>3, <1>4, <1>5 DEF Handler

(* The timer and the keys of a poll keep the invariant.                    *)
LEMMA DeviceInv ==
  ASSUME Inv, Device
  PROVE  Inv'
<1>1. CASE TimerTick \/ TimerReturns
  <2>1. /\ UNCHANGED <<queueVars, settingVars, NotifyList, pending, handlerVars,
                       readerVars>>
        /\ poll' \in Polls
    BY <1>1 DEF TimerTick, TimerReturns, Polls
  <2>2. TypeOK'
    BY <2>1 DEF Inv, TypeOK, queueVars, settingVars, handlerVars, readerVars
  <2>3. QED
    BY <2>1, <2>2, NoLostNotifyKept, WalkStaysOnListKept
    DEF Inv, queueVars, handlerVars
<1>2. ASSUME NEW k \in KeyData, ReturnKey(k) PROVE Inv'
  BY <1>2, ReturnKeyInv
<1>3. QED BY <1>1, <1>2 DEF Device

(* Every step keeps the invariant.                                         *)
LEMMA InvInductive == Inv /\ [Next]_vars => Inv'
<1> SUFFICES ASSUME Inv, [Next]_vars PROVE Inv'
  OBVIOUS
<1>1. CASE UNCHANGED vars
  <2>1. TypeOK'
    BY <1>1
    DEF Inv, TypeOK, vars, queueVars, settingVars, handlerVars, readerVars
  <2>2. QED
    BY <1>1, <2>1, NoLostNotifyKept, WalkStaysOnListKept
    DEF Inv, vars, queueVars, handlerVars
<1>2. QED
  BY <1>1, DeviceInv, ReaderInv, CallInv, HandlerInv DEF Next

(* The types, the wake-ups and the place of the walk are right in every    *)
(* behaviour of the driver.                                                *)
THEOREM SpecInv == Spec => []Inv
BY InitInv, InvInductive, PTL DEF Spec

(* The variables keep their types; both queues stay within the ring.       *)
THEOREM TypeCorrect == Spec => []TypeOK
<1>1. Inv => TypeOK
  BY DEF Inv
<1>2. QED BY <1>1, SpecInv, PTL

(* No keystroke waits for a handler that will not run.                     *)
THEOREM NoNotifyIsLost == Spec => []NoLostNotify
<1>1. Inv => NoLostNotify
  BY DEF Inv
<1>2. QED BY <1>1, SpecInv, PTL

(* The handler stands on a registration of the list unless the function it *)
(* called unregistered its own, and goes astray after nothing else.        *)
THEOREM WalkIsSafe == Spec => []WalkStaysOnList
<1>1. Inv => WalkStaysOnList
  BY DEF Inv
<1>2. QED BY <1>1, SpecInv, PTL

(* ----------------------------------------------------------------------- *)
(* The walk misses no registration.                                        *)

WalkInv == Inv /\ HandlesDiffer /\ WalkServed

(* Without duplicates IndexOf is the inverse of the list.                  *)
IndexInverse ==
  /\ Len(NotifyList) \in Nat
  /\ DOMAIN NotifyList = 1 .. Len(NotifyList)
  /\ \A i \in 1 .. Len(NotifyList) : IndexOf(NotifyList[i].handle) = i

(* The place of a handle in the list leads back to the handle.             *)
LEMMA IndexOfHandle == Inv /\ HandlesDiffer => IndexInverse
<1> SUFFICES ASSUME Inv, HandlesDiffer PROVE IndexInverse
  OBVIOUS
<1>1. Len(NotifyList) \in Nat /\ DOMAIN NotifyList = 1 .. Len(NotifyList)
  BY LenProperties DEF Inv, TypeOK
<1>2. ASSUME NEW i \in 1 .. Len(NotifyList)
      PROVE  IndexOf(NotifyList[i].handle) = i
  <2> DEFINE j == IndexOf(NotifyList[i].handle)
  <2>1. j \in DOMAIN NotifyList /\ NotifyList[j].handle = NotifyList[i].handle
    BY <1>1, <1>2 DEF IndexOf
  <2>2. QED BY <1>1, <1>2, <2>1 DEF HandlesDiffer
<1>3. QED BY <1>1, <1>2 DEF IndexInverse

(* The same of the next state.                                             *)
LEMMA IndexOfHandleNext == Inv' /\ HandlesDiffer' => IndexInverse'
  BY IndexOfHandle, PTL

(* A step that leaves the list and the handler alone, and only adds to     *)
(* typed, keeps what the walk has served.                                  *)
LEMMA WalkServedKept ==
  ASSUME WalkServed, cur \in 0 .. Len(typed), Len(typed) \in Nat,
         \A i \in 1 .. Len(typed) : typed'[i] = typed[i],
         UNCHANGED <<NotifyList, handlerVars>>
  PROVE  WalkServed'
<1>1. handler' \in {"walk", "called"} => typed'[cur'] = typed[cur]
  BY DEF WalkServed, handlerVars
<1>2. /\ NotifyList' = NotifyList /\ handler' = handler /\ cur' = cur
      /\ link' = link /\ heard' = heard /\ forward' = forward
  BY DEF handlerVars
<1>3. QED BY <1>1, <1>2 DEF WalkServed, Matching, IndexOf

(* A step that leaves the list alone leaves its handles different.         *)
LEMMA HandlesDifferKept ==
  ASSUME HandlesDiffer, UNCHANGED NotifyList
  PROVE  HandlesDiffer'
BY DEF HandlesDiffer

(* A registration goes to the end of the list, in front of no walk.        *)
LEMMA RegisterWalk ==
  ASSUME WalkInv, Inv', NEW data \in KeyData, NEW fn \in Fns,
         KeypadRegisterKeyNotify(data, fn)
  PROVE  WalkInv'
<1>1. /\ handler' = handler /\ cur' = cur /\ link' = link /\ typed' = typed
      /\ forward' = forward /\ heard' = heard
      /\ handler \in {"idle", "called"}
  BY DEF KeypadRegisterKeyNotify, CanCall, AppRuns, queueVars, handlerVars
<1>2. \/ UNCHANGED NotifyList
      \/ \E h \in Handles :
           /\ ~InList(h)
           /\ NotifyList' =
                Append(NotifyList, [handle |-> h, data |-> data, fn |-> fn])
  BY DEF KeypadRegisterKeyNotify, InsertTail
<1>3. CASE UNCHANGED NotifyList
  BY <1>1, <1>3, HandlesDifferKept
  DEF WalkInv, WalkServed, Matching, IndexOf
<1>4. ASSUME NEW h \in Handles, ~InList(h),
             NotifyList' =
               Append(NotifyList, [handle |-> h, data |-> data, fn |-> fn])
      PROVE  HandlesDiffer' /\ WalkServed'
  <2>1. [handle |-> h, data |-> data, fn |-> fn] \in Node
    BY DEF Node
  <2>2. /\ NotifyList \in Seq(Node) /\ NotifyList' \in Seq(Node)
        /\ Len(NotifyList) \in Nat /\ Len(NotifyList') = Len(NotifyList) + 1
        /\ \A i \in 1 .. Len(NotifyList) : NotifyList'[i] = NotifyList[i]
        /\ NotifyList'[Len(NotifyList) + 1] =
             [handle |-> h, data |-> data, fn |-> fn]
    BY <1>4, <2>1, AppendProperties, LenProperties
    DEF WalkInv, Inv, TypeOK, Node
  <2>3. /\ DOMAIN NotifyList = 1 .. Len(NotifyList)
        /\ DOMAIN NotifyList' = 1 .. Len(NotifyList) + 1
    BY <2>2, LenProperties
  <2>4. \A i \in 1 .. Len(NotifyList) : NotifyList[i].handle # h
    BY <1>4, <2>3 DEF InList
  <2>5. HandlesDiffer'
    <3> SUFFICES ASSUME NEW i \in 1 .. Len(NotifyList) + 1,
                        NEW j \in 1 .. Len(NotifyList) + 1,
                        NotifyList'[i].handle = NotifyList'[j].handle
                 PROVE  i = j
      BY <2>3 DEF HandlesDiffer
    <3>1. CASE i \in 1 .. Len(NotifyList) /\ j \in 1 .. Len(NotifyList)
      BY <2>2, <2>3, <3>1 DEF WalkInv, HandlesDiffer
    <3>2. CASE i = Len(NotifyList) + 1 \/ j = Len(NotifyList) + 1
      <4>1. NotifyList'[Len(NotifyList) + 1].handle = h
        BY <2>2
      <4>2. \A k \in 1 .. Len(NotifyList) : NotifyList'[k].handle # h
        BY <2>2, <2>4
      <4>3. QED BY <2>2, <3>2, <4>1, <4>2
    <3>3. QED BY <2>2, <3>1, <3>2
  <2>6. CASE handler = "called" /\ forward = NotFreed
    <3>1. InList(link) /\ link # EndOfList
      BY <1>4, <2>6 DEF WalkInv, Inv, WalkStaysOnList
    <3>2. PICK l \in 1 .. Len(NotifyList) : NotifyList[l].handle = link
      BY <2>3, <3>1 DEF InList
    <3>3. IndexOf(link) = l
      BY <3>2, IndexOfHandle DEF WalkInv, IndexInverse
    <3>4. IndexOf(link)' = l
      <4>1. l \in 1 .. Len(NotifyList') /\ NotifyList'[l].handle = link'
        BY <1>1, <2>2, <3>2
      <4>2. IndexInverse'
        BY <2>5, IndexOfHandleNext
      <4>3. QED BY <4>1, <4>2 DEF IndexInverse
    <3>5. ASSUME NEW i \in Matching(NotifyList', typed'[cur']), i < l
          PROVE  heard'[NotifyList'[i].handle] = cur'
      <4>1. i \in 1 .. Len(NotifyList)
        BY <2>2, <2>3, <3>2, <3>5 DEF Matching
      <4>2. i \in Matching(NotifyList, typed[cur]) /\ i < IndexOf(link)
        BY <1>1, <2>2, <2>3, <3>3, <3>5, <4>1 DEF Matching
      <4>3. heard[NotifyList[i].handle] = cur
        BY <2>6, <4>2 DEF WalkInv, WalkServed
      <4>4. QED BY <1>1, <2>2, <4>1, <4>3
    <3>6. heard'[link'] = cur' /\ cur' > 0
      BY <1>1, <2>6 DEF WalkInv, WalkServed
    <3>7. link' # EndOfList
      BY <1>1, <3>1
    <3>8. QED BY <3>4, <3>5, <3>6, <3>7, <2>5 DEF WalkServed
  <2>7. CASE handler = "idle" \/ forward # NotFreed
    BY <1>1, <2>5, <2>7 DEF WalkInv, WalkServed
  <2>8. QED BY <1>1, <2>6, <2>7
<1>5. QED BY <1>2, <1>3, <1>4 DEF WalkInv

(* Removing a registration that the walk does not stand on shifts the      *)
(* places behind it only; of the one it stands on, `forward` takes note.   *)
LEMMA UnregisterWalk ==
  ASSUME WalkInv, Inv', NEW h \in Handles, KeypadUnregisterKeyNotify(h)
  PROVE  WalkInv'
<1>1. /\ handler' = handler /\ cur' = cur /\ link' = link /\ typed' = typed
      /\ handler \in {"idle", "called"}
  BY DEF KeypadUnregisterKeyNotify, CanCall, AppRuns, queueVars
<1>2. CASE ~InList(h)
  <2>1. UNCHANGED <<NotifyList, forward, heard>>
    BY <1>2 DEF KeypadUnregisterKeyNotify
  <2>2. QED
    BY <1>1, <2>1, HandlesDifferKept
    DEF WalkInv, WalkServed, Matching, IndexOf
<1>3. CASE InList(h)
  <2> DEFINE r == IndexOf(h)
             n == Len(NotifyList)
  <2>1. r \in 1 .. n /\ NotifyList[r].handle = h
    BY <1>3, WalkProperties DEF WalkInv, Inv, TypeOK, Node
  <2>2. NotifyList' = RemoveAt(NotifyList, r)
    BY <1>3 DEF KeypadUnregisterKeyNotify
  <2>gone. /\ heard' = [heard EXCEPT ![h] = 0]
           /\ forward' = IF handler = "called" /\ h = link THEN NextNode(h)
                         ELSE forward
    BY <1>3 DEF KeypadUnregisterKeyNotify
  <2> HIDE DEF r
  <2>3. /\ NotifyList \in Seq(Node) /\ NotifyList' \in Seq(Node)
        /\ n \in Nat /\ Len(NotifyList') = n - 1
        /\ \A k \in 1 .. n - 1 :
             NotifyList'[k] = IF k < r THEN NotifyList[k] ELSE NotifyList[k + 1]
    BY <2>1, <2>2, RemoveAtProperties, LenProperties
    DEF WalkInv, Inv, TypeOK, Node
  <2>4. /\ DOMAIN NotifyList = 1 .. n
        /\ DOMAIN NotifyList' = 1 .. n - 1
    BY <2>3, LenProperties
  \* The place in the old list of the k-th registration of the new one.
  <2> DEFINE old(k) == IF k < r THEN k ELSE k + 1
  <2>5. \A k \in 1 .. n - 1 : old(k) \in 1 .. n /\ NotifyList'[k] = NotifyList[old(k)]
    BY <2>1, <2>3
  <2>6. HandlesDiffer'
    <3> SUFFICES ASSUME NEW i \in 1 .. n - 1, NEW j \in 1 .. n - 1,
                        NotifyList'[i].handle = NotifyList'[j].handle
                 PROVE  i = j
      BY <2>4 DEF HandlesDiffer
    <3>1. old(i) = old(j)
      BY <2>4, <2>5 DEF WalkInv, HandlesDiffer
    <3>2. QED BY <2>1, <2>3, <3>1
  <2>7. CASE handler = "called" /\ forward' = NotFreed
    <3> DEFINE next == NextNode(h)
    <3>next. next # NotFreed
      <4>1. next \in Handles \union {EndOfList}
        BY <1>3, WalkProperties DEF WalkInv, Inv, TypeOK, Node
      <4>2. QED BY <4>1, HandlesAssumption DEF EndOfList, NotFreed
    <3> HIDE DEF next
    <3>other. forward = NotFreed /\ h # link
      BY <2>gone, <2>7, <3>next DEF next
    <3>1. InList(link) /\ InList(link)' /\ link # EndOfList /\ link # h
      BY <1>1, <2>7, <3>other DEF WalkInv, Inv, WalkStaysOnList
    <3>heard. \A g \in Handles : g # h => heard'[g] = heard[g]
      BY <2>gone DEF WalkInv, Inv, TypeOK
    <3>2. PICK l \in 1 .. n - 1 : NotifyList'[l].handle = link
      BY <1>1, <2>4, <3>1 DEF InList
    <3>3. IndexOf(link)' = l
      <4>1. IndexInverse' /\ Len(NotifyList') = n - 1
        BY <2>3, <2>6, IndexOfHandleNext
      <4>2. QED BY <1>1, <3>2, <4>1 DEF IndexInverse
    <3>4. IndexOf(link) = old(l)
      <4>1. IndexInverse
        BY IndexOfHandle DEF WalkInv
      <4>2. old(l) \in 1 .. n /\ NotifyList[old(l)].handle = link
        BY <2>5, <3>2
      <4>3. QED BY <4>1, <4>2 DEF IndexInverse
    <3>5. ASSUME NEW i \in Matching(NotifyList', typed'[cur']), i < l
          PROVE  heard'[NotifyList'[i].handle] = cur'
      <4>1. i \in 1 .. n - 1
        BY <2>4, <3>5 DEF Matching
      <4>2. old(i) \in 1 .. n /\ NotifyList'[i] = NotifyList[old(i)]
        BY <2>5, <4>1
      <4>3. old(i) < old(l)
        BY <2>1, <2>3, <3>5, <4>1
      <4> HIDE DEF old
      <4>4. old(i) \in Matching(NotifyList, typed[cur])
        BY <1>1, <2>4, <3>5, <4>1, <4>2 DEF Matching
      <4>5. heard[NotifyList[old(i)].handle] = cur
        BY <2>7, <3>other, <3>4, <4>3, <4>4 DEF WalkInv, WalkServed
      <4>6. old(i) # r
        BY <2>1, <4>1 DEF old
      <4>7. NotifyList[old(i)].handle \in Handles /\ NotifyList[old(i)].handle # h
        <5>1. NotifyList[old(i)] \in Node
          BY <2>3, <4>2, ElementOfSeq
        <5>2. NotifyList[old(i)].handle \in Handles
          BY <5>1 DEF Node
        <5>3. NotifyList[old(i)].handle # h
          BY <2>1, <2>4, <4>2, <4>6 DEF WalkInv, HandlesDiffer
        <5>4. QED BY <5>2, <5>3
      <4>8. QED BY <1>1, <3>heard, <4>2, <4>5, <4>7
    <3>6. heard'[link'] = cur' /\ cur' > 0
      <4>1. link \in Handles
        BY <3>1 DEF WalkInv, Inv, TypeOK
      <4>2. QED BY <1>1, <2>7, <3>other, <3>heard, <4>1 DEF WalkInv, WalkServed
    <3>7. link' # EndOfList
      BY <1>1, <3>1
    <3>8. QED BY <3>3, <3>5, <3>6, <3>7, <2>6 DEF WalkServed, WalkInv
  <2>8. CASE handler = "idle" \/ forward' # NotFreed
    BY <1>1, <2>6, <2>8 DEF WalkServed, WalkInv
  <2>9. QED BY <1>1, <2>7, <2>8
<1>4. QED BY <1>2, <1>3

(* A walk begins with nobody before it.                                    *)
LEMMA NotifyPopsWalk ==
  ASSUME WalkInv, Inv', NotifyPops
  PROVE  WalkInv'
<1>1. CASE EfiKeyQueueForNotify = <<>>
  BY <1>1, HandlesDifferKept DEF NotifyPops, WalkInv, WalkServed
<1>2. CASE EfiKeyQueueForNotify # <<>>
  <2>1. /\ cur' = Head(EfiKeyQueueForNotify)
        /\ link' = FirstNode
        /\ handler' = "walk"
        /\ typed' = typed /\ NotifyList' = NotifyList /\ heard' = heard
    BY <1>2 DEF NotifyPops
  <2>2. cur' > 0
    <3>1. Head(EfiKeyQueueForNotify) \in 1 .. Len(typed) /\ Len(typed) \in Nat
      BY <1>2, HeadTailProperties, LenProperties DEF WalkInv, Inv, TypeOK
    <3>2. QED BY <2>1, <3>1
  <2>3. IndexInverse
    BY IndexOfHandle DEF WalkInv
  <2>4. CASE NotifyList = <<>>
    <3>1. DOMAIN NotifyList' = {}
      BY <2>1, <2>4
    <3>2. QED
      BY <2>1, <2>2, <3>1, HandlesDifferKept DEF WalkInv, WalkServed, Matching
  <2>5. CASE NotifyList # <<>>
    <3>1. link' = NotifyList[1].handle /\ 1 \in 1 .. Len(NotifyList)
      BY <2>1, <2>3, <2>5, EmptySeq DEF FirstNode, IndexInverse, WalkInv, Inv, TypeOK
    <3>2. IndexOf(link') = 1
      BY <2>3, <3>1 DEF IndexInverse
    <3>3. IndexOf(link)' = 1
      BY <2>1, <3>2 DEF IndexOf
    <3>4. link' # EndOfList
      <4>1. NotifyList[1] \in Node
        BY <3>1, ElementOfSeq DEF WalkInv, Inv, TypeOK, Node
      <4>2. QED BY <3>1, <4>1, HandlesAssumption DEF Node, EndOfList
    <3>5. \A i \in Matching(NotifyList', typed'[cur']) : i \in Nat /\ ~(i < 1)
      BY <2>1, <2>3 DEF Matching, IndexInverse
    <3>6. QED
      BY <2>1, <2>2, <3>3, <3>4, <3>5, HandlesDifferKept DEF WalkInv, WalkServed
  <2>6. QED BY <2>4, <2>5
<1>3. QED BY <1>1, <1>2

(* The walk goes on from a registration that is served to the next one.    *)
LEMMA WalkGoesOn ==
  ASSUME WalkInv, Inv',
         handler \in {"walk", "called"}, link # EndOfList, forward = NotFreed,
         IndexOf(link) \in Matching(NotifyList, typed[cur]) => heard[link] = cur,
         handler' = "walk", link' = NextNode(link),
         UNCHANGED <<NotifyList, typed, cur, forward, heard>>
  PROVE  WalkInv'
<1>1. IndexInverse
  BY IndexOfHandle DEF WalkInv
<1>2. InList(link)
  BY DEF WalkInv, Inv, WalkStaysOnList
<1>3. /\ IndexOf(link) \in 1 .. Len(NotifyList)
      /\ NotifyList[IndexOf(link)].handle = link
  BY <1>2, WalkProperties DEF WalkInv, Inv, TypeOK, Node
<1>4. \A i \in Matching(NotifyList, typed[cur]) :
        i \in 1 .. Len(NotifyList) /\ (i <= IndexOf(link) => heard[NotifyList[i].handle] = cur)
  BY <1>1, <1>3 DEF Matching, IndexInverse, WalkInv, WalkServed
<1>5. CASE IndexOf(link) = Len(NotifyList)
  <2>1. link' = EndOfList
    BY <1>5 DEF NextNode
  <2>2. \A i \in Matching(NotifyList, typed[cur]) : heard[NotifyList[i].handle] = cur
    BY <1>1, <1>4, <1>5 DEF IndexInverse
  <2>3. QED
    BY <2>1, <2>2, HandlesDifferKept DEF WalkInv, WalkServed
<1>6. CASE IndexOf(link) # Len(NotifyList)
  <2>1. /\ IndexOf(link) + 1 \in 1 .. Len(NotifyList)
        /\ link' = NotifyList[IndexOf(link) + 1].handle
    BY <1>1, <1>3, <1>6 DEF NextNode, IndexInverse
  <2>2. IndexOf(link') = IndexOf(link) + 1
    BY <1>1, <2>1 DEF IndexInverse
  <2>3. IndexOf(link)' = IndexOf(link) + 1
    BY <2>2 DEF IndexOf
  <2>4. link' # EndOfList
    <3>1. NotifyList[IndexOf(link) + 1] \in Node
      BY <2>1, ElementOfSeq DEF WalkInv, Inv, TypeOK, Node
    <3>2. QED BY <2>1, <3>1, HandlesAssumption DEF Node, EndOfList
  <2>5. \A i \in Matching(NotifyList, typed[cur]) :
          i < IndexOf(link) + 1 => heard[NotifyList[i].handle] = cur
    BY <1>1, <1>3, <1>4 DEF IndexInverse
  <2>6. QED
    BY <2>3, <2>4, <2>5, HandlesDifferKept DEF WalkInv, WalkServed
<1>7. QED BY <1>5, <1>6

(* A node the walk visits is served before the walk passes it.             *)
LEMMA WalkVisitsWalk ==
  ASSUME WalkInv, Inv', WalkVisits
  PROVE  WalkInv'
<1>1. InList(link) /\ link \in Handles
  BY DEF WalkVisits, WalkInv, Inv, WalkStaysOnList, TypeOK, EndOfList
<1>2. /\ IndexOf(link) \in 1 .. Len(NotifyList)
      /\ NotifyList[IndexOf(link)].handle = link
      /\ IndexInverse
  BY <1>1, WalkProperties, IndexOfHandle DEF WalkInv, Inv, TypeOK, Node
<1>freed. CASE forward # NotFreed
  BY <1>freed, HandlesDifferKept DEF WalkVisits, WalkInv, WalkServed
<1>3. CASE /\ forward = NotFreed
           /\ IsKeyRegistered(NotifyList[IndexOf(link)].data, typed[cur])
  <2>1. /\ handler' = "called" /\ heard' = [heard EXCEPT ![link] = cur]
        /\ link' = link /\ cur' = cur /\ typed' = typed
        /\ NotifyList' = NotifyList /\ link # EndOfList /\ handler = "walk"
        /\ forward' = forward
    BY <1>3 DEF WalkVisits, queueVars
  <2>2. heard'[link] = cur /\ \A g \in Handles : heard[g] = cur => heard'[g] = cur
    BY <1>1, <2>1 DEF WalkInv, Inv, TypeOK
  <2>3. \A i \in Matching(NotifyList, typed[cur]) : NotifyList[i].handle \in Handles
    <3>1. \A i \in 1 .. Len(NotifyList) : NotifyList[i] \in Node
      BY ElementOfSeq DEF WalkInv, Inv, TypeOK, Node
    <3>2. QED BY <1>2, <3>1 DEF Matching, IndexInverse, Node
  <2>4. IndexOf(link)' = IndexOf(link)
    BY <2>1 DEF IndexOf
  <2>5. QED
    BY <1>3, <2>1, <2>2, <2>3, <2>4, HandlesDifferKept DEF WalkInv, WalkServed
<1>4. CASE /\ forward = NotFreed
           /\ ~IsKeyRegistered(NotifyList[IndexOf(link)].data, typed[cur])
  <2>1. /\ handler = "walk" /\ handler' = "walk" /\ link # EndOfList
        /\ link' = NextNode(link)
        /\ UNCHANGED <<NotifyList, typed, cur, forward, heard>>
    BY <1>4 DEF WalkVisits, queueVars
  <2>2. IndexOf(link) \notin Matching(NotifyList, typed[cur])
    BY <1>4 DEF Matching
  <2>3. QED BY <1>4, <2>1, <2>2, WalkGoesOn
<1>5. QED BY <1>freed, <1>3, <1>4

(* The walk goes on behind the node whose function has returned.           *)
LEMMA FunctionReturnsWalk ==
  ASSUME WalkInv, Inv', FunctionReturns
  PROVE  WalkInv'
<1>1. /\ handler = "called"
      /\ InList(link) => handler' = "walk" /\ link' = NextNode(link)
      /\ UNCHANGED <<NotifyList, typed, cur, forward, heard>>
  BY DEF FunctionReturns, queueVars
<1>2. CASE forward = NotFreed
  <2>1. heard[link] = cur /\ link # EndOfList /\ InList(link)
    BY <1>1, <1>2 DEF WalkInv, WalkServed, Inv, WalkStaysOnList
  <2>2. QED BY <1>1, <1>2, <2>1, WalkGoesOn
<1>3. CASE forward # NotFreed
  BY <1>1, <1>3, HandlesDifferKept DEF WalkInv, WalkServed
<1>4. QED BY <1>2, <1>3

(* Every step keeps what the walk has served.                              *)
LEMMA WalkInvInductive == WalkInv /\ [Next]_vars => WalkInv'
<1> SUFFICES ASSUME WalkInv, [Next]_vars PROVE WalkInv'
  OBVIOUS
<1>1. Inv'
  BY InvInductive DEF WalkInv
<1>2. /\ cur \in 0 .. Len(typed) /\ Len(typed) \in Nat
      /\ typed \in Seq(KeyData)
  BY LenProperties DEF WalkInv, Inv, TypeOK
<1>3. ASSUME UNCHANGED <<typed, NotifyList, handlerVars>> PROVE WalkInv'
  BY <1>1, <1>2, <1>3, WalkServedKept, HandlesDifferKept DEF WalkInv
<1>4. CASE Reader
  BY <1>3, <1>4
  DEF Reader, BeginRead, BeginWait, ReadPops, KeypadWaitForKey, queueVars
<1>5. CASE TimerTick \/ TimerReturns \/ KeypadEfiReset
  BY <1>3, <1>5 DEF TimerTick, TimerReturns, KeypadEfiReset, queueVars
<1>6. ASSUME NEW k \in KeyData, ReturnKey(k) PROVE WalkInv'
  <2>1. /\ typed' = Append(typed, k)
        /\ UNCHANGED <<NotifyList, handlerVars>>
    BY <1>6 DEF ReturnKey
  <2>2. \A i \in 1 .. Len(typed) : typed'[i] = typed[i]
    BY <1>2, <2>1, AppendProperties
  <2>3. QED
    BY <1>1, <1>2, <2>1, <2>2, WalkServedKept, HandlesDifferKept DEF WalkInv
<1>7. ASSUME NEW t \in Toggles, KeypadSetState(t) PROVE WalkInv'
  BY <1>3, <1>7 DEF KeypadSetState, queueVars
<1>8. ASSUME NEW data \in KeyData, NEW fn \in Fns,
             KeypadRegisterKeyNotify(data, fn)
      PROVE  WalkInv'
  BY <1>1, <1>8, RegisterWalk
<1>9. ASSUME NEW h \in Handles, KeypadUnregisterKeyNotify(h) PROVE WalkInv'
  BY <1>1, <1>9, UnregisterWalk
<1>10. CASE DispatchNotify \/ WalkEnds
  BY <1>1, <1>10, HandlesDifferKept
  DEF DispatchNotify, WalkEnds, WalkInv, WalkServed
<1>11. CASE NotifyPops \/ WalkVisits \/ FunctionReturns
  BY <1>1, <1>11, NotifyPopsWalk, WalkVisitsWalk, FunctionReturnsWalk
<1>12. CASE UNCHANGED vars
  BY <1>3, <1>12 DEF vars, queueVars
<1>13. QED
  BY <1>4, <1>5, <1>6, <1>7, <1>8, <1>9, <1>10, <1>11, <1>12
  DEF Next, Device, Call, Handler

(* Every matching registration is called before the walk ends.             *)
THEOREM WalkIsComplete == Spec => []WalkMissesNobody
<1>1. Init => WalkInv
  <2> SUFFICES ASSUME Init PROVE WalkInv
    OBVIOUS
  <2>1. Inv
    BY InitInv
  <2>2. HandlesDiffer /\ WalkServed
    BY DEF Init, HandlesDiffer, WalkServed
  <2>3. QED BY <2>1, <2>2 DEF WalkInv
<1>2. WalkInv => WalkMissesNobody
  BY DEF WalkInv, WalkServed, WalkMissesNobody
<1>3. QED BY <1>1, <1>2, WalkInvInductive, PTL DEF Spec

(* ----------------------------------------------------------------------- *)
(* The readers' queue.                                                     *)

(* What the queue holds, as numbered keystrokes.                           *)
LEMMA QueueFacts ==
  ASSUME TypeOK
  PROVE  /\ Len(typed) \in Nat
         /\ Len(EfiKeyQueue) \in Nat
         /\ Capacity \in Nat \ {0}
         /\ DOMAIN EfiKeyQueue = 1 .. Len(EfiKeyQueue)
         /\ \A i \in 1 .. Len(EfiKeyQueue) : EfiKeyQueue[i] \in 1 .. Len(typed)
<1>1. /\ typed \in Seq(KeyData)
      /\ EfiKeyQueue \in Seq(1 .. Len(typed))
  BY DEF TypeOK
<1>2. /\ Len(typed) \in Nat /\ Len(EfiKeyQueue) \in Nat
      /\ DOMAIN EfiKeyQueue = 1 .. Len(EfiKeyQueue)
  BY <1>1, LenProperties
<1>3. \A i \in 1 .. Len(EfiKeyQueue) : EfiKeyQueue[i] \in 1 .. Len(typed)
  BY <1>1, ElementOfSeq
<1>4. QED
  BY <1>2, <1>3, CountAssumption DEF Capacity

(* A keystroke goes to the tail; of the queued ones only the oldest can    *)
(* have to make room, and only in a full queue.                            *)
LEMMA ReturnKeyQueue ==
  ASSUME TypeOK, NEW k \in KeyData, ReturnKey(k)
  PROVE  /\ Len(typed') = Len(typed) + 1
         /\ \A i \in 1 .. Len(typed) : typed'[i] = typed[i]
         /\ Len(EfiKeyQueue) < Capacity =>
              /\ 1 .. Len(EfiKeyQueue) \subseteq DOMAIN EfiKeyQueue'
              /\ \A i \in 1 .. Len(EfiKeyQueue) : EfiKeyQueue'[i] = EfiKeyQueue[i]
         /\ \A i \in 2 .. Len(EfiKeyQueue) : EfiKeyQueue[i] \in ToSet(EfiKeyQueue')
<1> DEFINE id == Len(typed) + 1
<1>1. /\ Len(typed) \in Nat /\ Len(EfiKeyQueue) \in Nat /\ Capacity \in Nat \ {0}
      /\ Len(EfiKeyQueue) <= Capacity
  BY QueueFacts DEF TypeOK
<1>2. /\ typed' = Append(typed, k)
      /\ EfiKeyQueue' = Fifo!PushTail(EfiKeyQueue, id)
  BY DEF ReturnKey, PushEfikeyBufTail
<1>3. /\ Len(typed') = Len(typed) + 1
      /\ \A i \in 1 .. Len(typed) : typed'[i] = typed[i]
  BY <1>2, AppendProperties DEF TypeOK
<1>4. 1 .. Len(typed) \subseteq 1 .. id /\ id \in 1 .. id
  BY <1>1
<1> HIDE DEF id
<1>5. EfiKeyQueue \in Seq(1 .. id)
  BY <1>4, SeqMonotonic DEF TypeOK
<1>6. CASE Len(EfiKeyQueue) = Capacity
  <2>1. EfiKeyQueue # <<>>
    BY <1>1, <1>6, EmptySeq
  <2>2. EfiKeyQueue' = Append(Tail(EfiKeyQueue), id)
    BY <1>2, <1>6 DEF Fifo!PushTail, Fifo!Room
  <2>3. /\ Tail(EfiKeyQueue) \in Seq(1 .. id)
        /\ Len(Tail(EfiKeyQueue)) = Len(EfiKeyQueue) - 1
        /\ \A i \in 1 .. Len(Tail(EfiKeyQueue)) :
             Tail(EfiKeyQueue)[i] = EfiKeyQueue[i + 1]
    BY <1>5, <2>1, HeadTailProperties
  <2>4. /\ EfiKeyQueue' \in Seq(1 .. id)
        /\ Len(EfiKeyQueue') = Len(EfiKeyQueue)
        /\ \A i \in 1 .. Len(EfiKeyQueue) - 1 : EfiKeyQueue'[i] = EfiKeyQueue[i + 1]
    BY <1>1, <1>4, <2>2, <2>3, AppendProperties
  <2>5. DOMAIN EfiKeyQueue' = 1 .. Len(EfiKeyQueue)
    BY <2>4, LenProperties
  <2>6. ASSUME NEW i \in 2 .. Len(EfiKeyQueue)
        PROVE  EfiKeyQueue[i] \in ToSet(EfiKeyQueue')
    <3>1. /\ i - 1 \in 1 .. Len(EfiKeyQueue) - 1
          /\ i - 1 \in 1 .. Len(EfiKeyQueue)
          /\ (i - 1) + 1 = i
      BY <1>1
    <3>2. EfiKeyQueue'[i - 1] = EfiKeyQueue[i]
      BY <2>4, <3>1
    <3>3. QED BY <2>5, <3>1, <3>2 DEF ToSet
  <2>7. QED BY <1>1, <1>3, <1>6, <2>6
<1>7. CASE Len(EfiKeyQueue) < Capacity
  <2>1. EfiKeyQueue' = Append(EfiKeyQueue, id)
    BY <1>1, <1>2, <1>7 DEF Fifo!PushTail, Fifo!Room
  <2>2. /\ EfiKeyQueue' \in Seq(1 .. id)
        /\ Len(EfiKeyQueue') = Len(EfiKeyQueue) + 1
        /\ \A i \in 1 .. Len(EfiKeyQueue) : EfiKeyQueue'[i] = EfiKeyQueue[i]
    BY <1>4, <1>5, <2>1, AppendProperties
  <2>3. 1 .. Len(EfiKeyQueue) \subseteq DOMAIN EfiKeyQueue'
    BY <1>1, <2>2, LenProperties
  <2>4. \A i \in 2 .. Len(EfiKeyQueue) : EfiKeyQueue[i] \in ToSet(EfiKeyQueue')
    BY <1>1, <2>2, <2>3 DEF ToSet
  <2>5. QED BY <1>3, <2>2, <2>3, <2>4
<1>8. QED BY <1>1, <1>6, <1>7

(* A read takes the oldest keystroke and gives it to the caller, unless it *)
(* is a partial one that KeypadReadKeyStroke skips.                        *)
LEMMA ReadQueue ==
  ASSUME TypeOK, ReadPops, EfiKeyQueue # <<>>
  PROVE  /\ 1 \in 1 .. Len(EfiKeyQueue) /\ Head(EfiKeyQueue) = EfiKeyQueue[1]
         /\ typed' = typed
         /\ ready' => ready /\ IsPartial(typed[EfiKeyQueue[1]])
         /\ \/ IsPartial(typed[EfiKeyQueue[1]])
            \/ lastRead' = EfiKeyQueue[1] /\ status' = "EFI_SUCCESS"
         /\ \A i \in 2 .. Len(EfiKeyQueue) :
              /\ i - 1 \in DOMAIN EfiKeyQueue'
              /\ EfiKeyQueue'[i - 1] = EfiKeyQueue[i]
<1>1. Len(EfiKeyQueue) \in Nat
  BY QueueFacts
<1>2. 1 \in 1 .. Len(EfiKeyQueue)
  BY EmptySeq DEF TypeOK
<1>3. Head(EfiKeyQueue) = EfiKeyQueue[1]
  BY DEF TypeOK
<1>4. /\ EfiKeyQueue' = Tail(EfiKeyQueue)
      /\ typed' = typed
      /\ ready' => ready /\ IsPartial(typed[EfiKeyQueue[1]])
      /\ \/ IsPartial(typed[EfiKeyQueue[1]])
         \/ lastRead' = EfiKeyQueue[1] /\ status' = "EFI_SUCCESS"
  BY <1>3 DEF ReadPops
<1>5. /\ EfiKeyQueue' \in Seq(1 .. Len(typed))
      /\ Len(EfiKeyQueue') = Len(EfiKeyQueue) - 1
      /\ \A i \in 1 .. Len(EfiKeyQueue') : EfiKeyQueue'[i] = EfiKeyQueue[i + 1]
  BY <1>4, HeadTailProperties DEF TypeOK
<1>6. DOMAIN EfiKeyQueue' = 1 .. Len(EfiKeyQueue) - 1
  BY <1>5, LenProperties
<1>7. ASSUME NEW i \in 2 .. Len(EfiKeyQueue)
      PROVE  /\ i - 1 \in DOMAIN EfiKeyQueue'
             /\ EfiKeyQueue'[i - 1] = EfiKeyQueue[i]
  <2>1. i - 1 \in 1 .. Len(EfiKeyQueue) - 1 /\ (i - 1) + 1 = i
    BY <1>1
  <2>2. QED BY <1>5, <1>6, <2>1
<1>8. QED BY <1>2, <1>3, <1>4, <1>7

(* The loop of KeypadWaitForKey throws leading partial keystrokes away and *)
(* stops in front of the first full one.                                   *)
LEMMA WaitQueue ==
  ASSUME TypeOK, KeypadWaitForKey
  PROVE  \E n \in 0 .. Len(EfiKeyQueue) :
           /\ typed' = typed
           /\ \A i \in 1 .. n : IsPartial(typed[EfiKeyQueue[i]])
           /\ \A i \in n + 1 .. Len(EfiKeyQueue) :
                i - n \in DOMAIN EfiKeyQueue' /\ EfiKeyQueue'[i - n] = EfiKeyQueue[i]
           /\ ready' => /\ n + 1 \in n + 1 .. Len(EfiKeyQueue)
                        /\ ~IsPartial(typed[EfiKeyQueue[n + 1]])
<1>1. /\ Len(EfiKeyQueue) \in Nat
      /\ \A i \in 1 .. Len(EfiKeyQueue) : EfiKeyQueue[i] \in 1 .. Len(typed)
  BY QueueFacts
<1>2. PICK n \in Leading :
        /\ ready' = (n < Len(EfiKeyQueue))
        /\ EfiKeyQueue' = SubSeq(EfiKeyQueue, n + 1, Len(EfiKeyQueue))
  BY DEF KeypadWaitForKey, SkipAndSignal
<1>3. /\ n \in 0 .. Len(EfiKeyQueue)
      /\ \A i \in 1 .. n : IsPartial(typed[EfiKeyQueue[i]])
      /\ n < Len(EfiKeyQueue) => ~IsPartial(typed[EfiKeyQueue[n + 1]])
  BY DEF Leading
<1>4. typed' = typed
  BY DEF KeypadWaitForKey
<1>5. /\ n + 1 \in Int /\ Len(EfiKeyQueue) \in Int
      /\ \A i \in n + 1 .. Len(EfiKeyQueue) : EfiKeyQueue[i] \in 1 .. Len(typed)
  BY <1>1, <1>3
<1>6. /\ EfiKeyQueue' \in Seq(1 .. Len(typed))
      /\ Len(EfiKeyQueue') = IF n + 1 <= Len(EfiKeyQueue)
                               THEN Len(EfiKeyQueue) - (n + 1) + 1 ELSE 0
      /\ \A i \in 1 .. Len(EfiKeyQueue) - (n + 1) + 1 :
           EfiKeyQueue'[i] = EfiKeyQueue[(n + 1) + i - 1]
  BY <1>2, <1>5, SubSeqProperties
<1>7. Len(EfiKeyQueue') = Len(EfiKeyQueue) - n
  BY <1>1, <1>3, <1>6
<1>8. DOMAIN EfiKeyQueue' = 1 .. Len(EfiKeyQueue) - n
  BY <1>6, <1>7, LenProperties
<1>9. ASSUME NEW i \in n + 1 .. Len(EfiKeyQueue)
      PROVE  i - n \in DOMAIN EfiKeyQueue' /\ EfiKeyQueue'[i - n] = EfiKeyQueue[i]
  <2>1. /\ i - n \in 1 .. Len(EfiKeyQueue) - n
        /\ i - n \in 1 .. Len(EfiKeyQueue) - (n + 1) + 1
        /\ (n + 1) + (i - n) - 1 = i
    BY <1>1, <1>3
  <2>2. QED BY <1>6, <1>8, <2>1
<1>10. n < Len(EfiKeyQueue) => n + 1 \in n + 1 .. Len(EfiKeyQueue)
  BY <1>1, <1>3
<1>11. QED BY <1>2, <1>3, <1>4, <1>9, <1>10

(* Every other step leaves the queue alone, or is a reset.                 *)
LEMMA OtherQueue ==
  ASSUME [Next]_vars
  PROVE  \/ \E k \in KeyData : ReturnKey(k)
         \/ ReadPops
         \/ KeypadWaitForKey
         \/ KeypadEfiReset
         \/ UNCHANGED <<typed, EfiKeyQueue, ready>>
<1>1. CASE Device
  BY <1>1 DEF Device, TimerTick, TimerReturns, queueVars, readerVars
<1>2. CASE Reader
  BY <1>2 DEF Reader, BeginRead, BeginWait, queueVars, readerVars
<1>3. CASE Call
  BY <1>3
  DEF Call, KeypadSetState, KeypadRegisterKeyNotify, KeypadUnregisterKeyNotify,
      queueVars, readerVars
<1>4. CASE Handler
  BY <1>4
  DEF Handler, DispatchNotify, NotifyPops, WalkVisits, FunctionReturns, WalkEnds,
      queueVars, readerVars
<1>5. CASE UNCHANGED vars
  BY <1>5 DEF vars, queueVars, readerVars
<1>6. QED BY <1>1, <1>2, <1>3, <1>4, <1>5 DEF Next

(* Every step leaves a full key for a reader that was told of one.         *)
LEMMA ReadyInductive ==
  ASSUME TypeOK, ReadyMeansKey, [Next]_vars
  PROVE  ReadyMeansKey'
<1> SUFFICES ASSUME ready' PROVE FullKeyIn(EfiKeyQueue)'
  BY DEF ReadyMeansKey
<1> DEFINE q == EfiKeyQueue
           full(i) == ~IsPartial(typed[EfiKeyQueue[i]])
\* The full keystroke at place i of the queue is at place j of the new one.
<1>1. ASSUME NEW i \in 1 .. Len(EfiKeyQueue), full(i),
             NEW j, j \in DOMAIN EfiKeyQueue', EfiKeyQueue'[j] = EfiKeyQueue[i],
             \A n \in 1 .. Len(typed) : typed'[n] = typed[n]
      PROVE  FullKeyIn(EfiKeyQueue)'
  <2>1. typed'[EfiKeyQueue'[j]] = typed[EfiKeyQueue[i]]
    BY <1>1, QueueFacts
  <2>2. QED BY <1>1, <2>1 DEF FullKeyIn, IsPartial
<1>2. ready => \E i \in 1 .. Len(EfiKeyQueue) : full(i)
  BY QueueFacts DEF ReadyMeansKey, FullKeyIn
<1>3. ASSUME NEW k \in KeyData, ReturnKey(k) PROVE FullKeyIn(EfiKeyQueue)'
  <2>1. ready /\ Len(EfiKeyQueue) < Capacity
    BY <1>3 DEF ReturnKey
  <2>2. PICK i \in 1 .. Len(EfiKeyQueue) : full(i)
    BY <1>2, <2>1
  <2>3. /\ i \in DOMAIN EfiKeyQueue' /\ EfiKeyQueue'[i] = EfiKeyQueue[i]
        /\ \A n \in 1 .. Len(typed) : typed'[n] = typed[n]
    BY <1>3, <2>1, ReturnKeyQueue
  <2>4. QED BY <1>1, <2>2, <2>3
<1>4. CASE ReadPops
  <2>1. EfiKeyQueue # <<>>
    BY <1>4 DEF ReadPops
  <2>2. ready /\ ~full(1) /\ typed' = typed
    BY <1>4, <2>1, ReadQueue
  <2>3. PICK i \in 1 .. Len(EfiKeyQueue) : full(i)
    BY <1>2, <2>2
  <2>4. i \in 2 .. Len(EfiKeyQueue)
    BY <2>2, <2>3, QueueFacts
  <2>5. i - 1 \in DOMAIN EfiKeyQueue' /\ EfiKeyQueue'[i - 1] = EfiKeyQueue[i]
    BY <1>4, <2>1, <2>4, ReadQueue
  <2>6. QED BY <1>1, <2>2, <2>3, <2>5
<1>5. CASE KeypadWaitForKey
  <2>1. PICK n \in 0 .. Len(EfiKeyQueue) :
          /\ typed' = typed
          /\ \A i \in n + 1 .. Len(EfiKeyQueue) :
               i - n \in DOMAIN EfiKeyQueue' /\ EfiKeyQueue'[i - n] = EfiKeyQueue[i]
          /\ n + 1 \in n + 1 .. Len(EfiKeyQueue)
          /\ full(n + 1)
    BY <1>5, WaitQueue
  <2>2. n + 1 \in 1 .. Len(EfiKeyQueue)
    BY <2>1, QueueFacts
  <2>3. QED BY <1>1, <2>1, <2>2
<1>6. CASE KeypadEfiReset
  BY <1>6 DEF KeypadEfiReset
<1>7. CASE UNCHANGED <<typed, EfiKeyQueue, ready>>
  BY <1>7 DEF ReadyMeansKey, FullKeyIn, IsPartial
<1>8. QED BY <1>3, <1>4, <1>5, <1>6, <1>7, OtherQueue

(* A positive WaitForKey is not taken back: while the caller may count on  *)
(* a key (KeypadWaitForKey signalled, and no read, reset or overrun since) *)
(* the queue holds a keystroke that KeypadReadKeyStroke returns.           *)
THEOREM ReadyIsKept == Spec => []ReadyMeansKey
<1>1. Init => ReadyMeansKey
  BY DEF Init, ReadyMeansKey
<1>2. TypeOK /\ ReadyMeansKey /\ [Next]_vars => ReadyMeansKey'
  BY ReadyInductive
<1>3. QED BY <1>1, <1>2, TypeCorrect, PTL DEF Spec

(* No step loses a full keystroke of the readers' queue: it leaves by a    *)
(* read that returns it, a reset, or as the oldest of a full queue.        *)
THEOREM NoFullKeyIsLost == Spec => FullKeysAreKept
<1>1. ASSUME TypeOK, [Next]_vars,
             NEW id \in ToSet(EfiKeyQueue) \ ToSet(EfiKeyQueue'),
             ~IsPartial(typed[id])
      PROVE  FullKeyLeaves(id)
  <2>1. PICK i \in 1 .. Len(EfiKeyQueue) : EfiKeyQueue[i] = id
    BY <1>1, QueueFacts DEF ToSet
  <2>2. ~\E j \in DOMAIN EfiKeyQueue' : EfiKeyQueue'[j] = id
    BY <1>1 DEF ToSet
  <2>3. ASSUME NEW k \in KeyData, ReturnKey(k) PROVE FullKeyLeaves(id)
    <3>1. ~(Len(EfiKeyQueue) < Capacity)
      BY <1>1, <2>1, <2>2, <2>3, ReturnKeyQueue
    <3>2. i \notin 2 .. Len(EfiKeyQueue)
      BY <1>1, <2>1, <2>3, ReturnKeyQueue
    <3>3. i = 1 /\ Len(EfiKeyQueue) = Capacity
      BY <1>1, <3>1, <3>2, QueueFacts DEF TypeOK
    <3>4. id = Head(EfiKeyQueue)
      BY <1>1, <2>1, <3>3 DEF TypeOK
    <3>5. Len(typed') > Len(typed)
      BY <1>1, <2>3, ReturnKeyQueue, QueueFacts
    <3>6. QED BY <3>3, <3>4, <3>5 DEF FullKeyLeaves
  <2>4. CASE ReadPops
    <3>1. EfiKeyQueue # <<>>
      BY <1>1, <2>1, EmptySeq DEF TypeOK
    <3>2. i \notin 2 .. Len(EfiKeyQueue)
      BY <1>1, <2>1, <2>2, <2>4, <3>1, ReadQueue
    <3>3. i = 1
      BY <1>1, <3>2, QueueFacts
    <3>4. QED
      BY <1>1, <2>1, <2>4, <3>1, <3>3, ReadQueue DEF FullKeyLeaves
  <2>5. CASE KeypadWaitForKey
    <3>1. PICK n \in 0 .. Len(EfiKeyQueue) :
            /\ \A j \in 1 .. n : IsPartial(typed[EfiKeyQueue[j]])
            /\ \A j \in n + 1 .. Len(EfiKeyQueue) :
                 j - n \in DOMAIN EfiKeyQueue' /\ EfiKeyQueue'[j - n] = EfiKeyQueue[j]
      BY <1>1, <2>5, WaitQueue
    <3>2. i \in 1 .. n \/ i \in n + 1 .. Len(EfiKeyQueue)
      BY <1>1, QueueFacts
    <3>3. QED BY <1>1, <2>1, <2>2, <3>1, <3>2
  <2>6. CASE KeypadEfiReset
    BY <2>6 DEF FullKeyLeaves
  <2>7. CASE UNCHANGED <<typed, EfiKeyQueue, ready>>
    BY <1>1, <2>7
  <2>8. QED BY <1>1, <2>3, <2>4, <2>5, <2>6, <2>7, OtherQueue
<1>2. TypeOK /\ [Next]_vars =>
        [\A id \in ToSet(EfiKeyQueue) \ ToSet(EfiKeyQueue') :
           ~IsPartial(typed[id]) => FullKeyLeaves(id)]_vars
  BY <1>1
<1>3. QED BY <1>2, TypeCorrect, PTL DEF Spec, FullKeysAreKept
=============================================================================
