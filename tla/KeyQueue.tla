------------------------------ MODULE KeyQueue ------------------------------
(***************************************************************************)
(* EFI_KEY_QUEUE of the keypad driver: a ring of KEYPAD_EFI_KEY_MAX_COUNT  *)
(* slots with a Head and a Tail index, equal when the queue is empty, so   *)
(* that one slot is never used.  Every call runs inside the driver's       *)
(* TPL_NOTIFY critical sections and is one step here.                      *)
(***************************************************************************)
EXTENDS Integers, Sequences

CONSTANTS
  KEYPAD_EFI_KEY_MAX_COUNT,
  KeyData,                    \* values of type EFI_KEY_DATA
  ZeroKey                     \* the all-zero one AllocateZeroPool leaves

ASSUME CountAssumption == KEYPAD_EFI_KEY_MAX_COUNT \in Nat \ {0, 1}
ASSUME ZeroKeyAssumption == ZeroKey \in KeyData

VARIABLES
  head, tail,   \* Queue->Head and Queue->Tail
  Buffer,       \* Queue->Buffer
  result        \* which call was the last, and what it gave its caller

vars == <<head, tail, Buffer, result>>

Slot == 0 .. KEYPAD_EFI_KEY_MAX_COUNT - 1

\* Faulty: the index runs off the end of the array.
AdvanceNoWrap(i) == i + 1

Advance(i) == (i + 1) % KEYPAD_EFI_KEY_MAX_COUNT

IsEfikeyBufEmpty == head = tail
IsFull           == Advance(tail) = head

Length == IF tail >= head THEN tail - head
          ELSE tail - head + KEYPAD_EFI_KEY_MAX_COUNT

\* The slot that holds the k-th oldest key, k = 1 .. Length.
SlotOf(k) == IF head + k - 1 < KEYPAD_EFI_KEY_MAX_COUNT THEN head + k - 1
             ELSE head + k - 1 - KEYPAD_EFI_KEY_MAX_COUNT

Contents == [k \in 1 .. Length |-> Buffer[SlotOf(k)]]

Fifo == INSTANCE BoundedFifo WITH
          Value <- KeyData,
          Capacity <- KEYPAD_EFI_KEY_MAX_COUNT - 1,
          fifo <- Contents

-----------------------------------------------------------------------------
Init ==
  /\ head = 0
  /\ tail = 0
  /\ Buffer = [s \in Slot |-> ZeroKey]
  /\ result = Fifo!Cleared

PopEfikeyBufHead ==
  /\ IF IsEfikeyBufEmpty
       THEN /\ result' = Fifo!NotReady
            /\ UNCHANGED head
       ELSE /\ result' = Fifo!Success(Buffer[head])
            /\ head' = Advance(head)
  /\ UNCHANGED <<tail, Buffer>>

\* Faulty: a full ring is not told from one with room, so that the push makes
\* head = tail and every queued key disappears.
PushWithoutFullCheck(k) ==
  /\ Buffer' = [Buffer EXCEPT ![tail] = k]
  /\ tail' = Advance(tail)
  /\ result' = Fifo!Pushed
  /\ UNCHANGED head

PushEfikeyBufTail(k) ==
  /\ head' = IF IsFull THEN Advance(head) ELSE head
  /\ Buffer' = [Buffer EXCEPT ![tail] = k]
  /\ tail' = Advance(tail)
  /\ result' = Fifo!Pushed

\* The queue's share of InitKeypad: the keys stay in Buffer, out of reach.
InitKeypad ==
  /\ head' = 0
  /\ tail' = 0
  /\ result' = Fifo!Cleared
  /\ UNCHANGED Buffer

Next ==
  \/ PopEfikeyBufHead
  \/ \E k \in KeyData : PushEfikeyBufTail(k)
  \/ InitKeypad

Spec == Init /\ [][Next]_vars

-----------------------------------------------------------------------------
(* Both indexes stay inside the array, whatever the order of the calls:    *)
(* Queue->Buffer is never indexed out of bounds.                           *)
TypeOK ==
  /\ head \in Slot
  /\ tail \in Slot
  /\ Buffer \in [Slot -> KeyData]
  /\ result \in Fifo!Outcome

(* The ring is a bounded FIFO: keys come out in the order they went in,    *)
(* each one once, and a push into a full ring loses the oldest key and no  *)
(* other, across every wrap-around of Head and Tail.                       *)
ImplementsFifo == Fifo!Spec
=============================================================================
