--------------------------- MODULE KeyQueueProofs ---------------------------
(* The ring of KeyQueue implements BoundedFifo for every size of the array *)
(* and every set of keys.                                                  *)
EXTENDS KeyQueue, SequenceTheorems, TLAPS

N == KEYPAD_EFI_KEY_MAX_COUNT

(* The successor of a slot without the modulus.                            *)
LEMMA AdvanceSlot ==
  \A i \in Slot : Advance(i) = IF i = N - 1 THEN 0 ELSE i + 1
<1>1. TAKE i \in Slot
<1>2. CASE i = N - 1
  <2>1. (i + 1) % N = 0
    BY <1>2, CountAssumption, SMT DEF Slot, N
  <2>2. QED BY <2>1, <1>2 DEF Advance, N
<1>3. CASE i # N - 1
  <2>1. (i + 1) % N = i + 1
    BY <1>3, CountAssumption, SMT DEF Slot, N
  <2>2. QED BY <2>1, <1>3 DEF Advance, N
<1>4. QED BY <1>2, <1>3

(* The indexes stay inside the array.                                      *)
THEOREM TypeCorrect == Spec => []TypeOK
<1>1. Init => TypeOK
  BY CountAssumption, ZeroKeyAssumption
  DEF Init, TypeOK, Slot, Fifo!Outcome
<1>2. TypeOK /\ [Next]_vars => TypeOK'
  <2> SUFFICES ASSUME TypeOK, [Next]_vars PROVE TypeOK'
    OBVIOUS
  <2>0. \A i \in Slot : Advance(i) \in Slot
    BY AdvanceSlot, CountAssumption DEF Slot, N
  <2>1. CASE PopEfikeyBufHead
    BY <2>0, <2>1 DEF PopEfikeyBufHead, TypeOK, Fifo!Outcome
  <2>2. ASSUME NEW k \in KeyData, PushEfikeyBufTail(k) PROVE TypeOK'
    BY <2>0, <2>2 DEF PushEfikeyBufTail, TypeOK, Fifo!Outcome
  <2>3. CASE InitKeypad
    BY <2>3, CountAssumption DEF InitKeypad, TypeOK, Slot, Fifo!Outcome
  <2>4. CASE UNCHANGED vars
    BY <2>4 DEF vars, TypeOK
  <2>5. QED BY <2>1, <2>2, <2>3, <2>4 DEF Next
<1>3. QED BY <1>1, <1>2, PTL DEF Spec
-----------------------------------------------------------------------------
(* Contents is a queue of Length keys, fewer than there are slots, and its *)
(* entries are those of the slots from head on.                            *)
ContentsOK ==
  /\ Length \in 0 .. N - 1
  /\ \A k \in 1 .. Length : SlotOf(k) \in Slot
  /\ Contents \in Seq(KeyData)
  /\ Len(Contents) = Length
  /\ \A k \in 1 .. Length : Contents[k] = Buffer[SlotOf(k)]

(* The contents of the ring are as many keys as lie between head and tail. *)
LEMMA ContentsProperties == TypeOK => ContentsOK
<1> SUFFICES ASSUME TypeOK PROVE ContentsOK
  OBVIOUS
<1>1. Length \in 0 .. N - 1
  BY CountAssumption DEF TypeOK, Length, Slot, N
<1>2. \A k \in 1 .. Length : SlotOf(k) \in Slot
  BY <1>1, CountAssumption DEF TypeOK, Length, SlotOf, Slot, N
<1>3. \A k \in 1 .. Length : Buffer[SlotOf(k)] \in KeyData
  BY <1>2 DEF TypeOK
<1>4. Contents \in [1 .. Length -> KeyData]
  BY <1>3 DEF Contents
<1>5. Contents \in Seq(KeyData) /\ Len(Contents) = Length
  BY <1>1, <1>4, CountAssumption DEF N
<1>6. QED BY <1>1, <1>2, <1>5 DEF Contents, ContentsOK

(* The same of the next state.                                             *)
LEMMA ContentsPropertiesNext == TypeOK' => ContentsOK'
  BY ContentsProperties, PTL

(* Popping takes the oldest key, and only it, out of the contents.         *)
LEMMA PopStep ==
  ASSUME TypeOK, TypeOK', PopEfikeyBufHead
  PROVE  Fifo!Pop \/ Fifo!PopEmpty
<1> USE CountAssumption
<1>1. CASE IsEfikeyBufEmpty
  <2>1. Length = 0 /\ Contents = <<>>
    BY <1>1, ContentsProperties, EmptySeq
    DEF ContentsOK, Length, IsEfikeyBufEmpty, TypeOK, Slot
  <2>2. UNCHANGED Contents
    BY <1>1 DEF PopEfikeyBufHead, Contents, Length, SlotOf
  <2>3. QED BY <1>1, <2>1, <2>2 DEF PopEfikeyBufHead, Fifo!PopEmpty
<1>2. CASE ~IsEfikeyBufEmpty
  <2>1. /\ head' = Advance(head)
        /\ tail' = tail /\ Buffer' = Buffer
        /\ result' = Fifo!Success(Buffer[head])
    BY <1>2 DEF PopEfikeyBufHead
  <2>2. head' = IF head = N - 1 THEN 0 ELSE head + 1
    BY <2>1, AdvanceSlot DEF TypeOK
  <2>3. Length > 0 /\ Length' = Length - 1
    BY <1>2, <2>1, <2>2 DEF IsEfikeyBufEmpty, Length, TypeOK, Slot, N
  <2>4. SlotOf(1) = head
    BY DEF SlotOf, TypeOK, Slot
  <2>5. \A k \in 1 .. Length' : SlotOf(k)' = SlotOf(k + 1)
    BY <2>1, <2>2, <2>3, ContentsProperties DEF ContentsOK, SlotOf, Length, TypeOK, Slot, N
  <2>6. /\ Contents \in Seq(KeyData) /\ Contents' \in Seq(KeyData)
        /\ Len(Contents) = Length /\ Len(Contents') = Length'
        /\ \A k \in 1 .. Length : Contents[k] = Buffer[SlotOf(k)]
        /\ \A k \in 1 .. Length' : Contents'[k] = Buffer'[SlotOf(k)']
        /\ Length \in Nat
    BY ContentsProperties, ContentsPropertiesNext DEF ContentsOK
  <2>7. Contents # <<>>
    BY <2>3, <2>6, EmptySeq
  <2>8. Contents' = Tail(Contents)
    <3>1. /\ Tail(Contents) \in Seq(KeyData)
          /\ Len(Tail(Contents)) = Length'
          /\ \A k \in 1 .. Length' : Tail(Contents)[k] = Contents[k + 1]
      BY <2>3, <2>6, <2>7, HeadTailProperties
    <3>2. \A k \in 1 .. Length' : Contents'[k] = Contents[k + 1]
      BY <2>1, <2>3, <2>5, <2>6
    <3>3. QED BY <2>6, <3>1, <3>2, SeqEqual
  <2>9. Head(Contents) = Buffer[head]
    BY <2>3, <2>4, <2>6, <2>7
  <2>10. QED BY <2>1, <2>7, <2>8, <2>9 DEF Fifo!Pop
<1>3. QED BY <1>1, <1>2

(* A push adds the key behind the others, at the price of the oldest one   *)
(* when the ring is full.                                                  *)
LEMMA PushStep ==
  ASSUME TypeOK, TypeOK', NEW key \in KeyData, PushEfikeyBufTail(key)
  PROVE  Fifo!Push(key)
<1> USE CountAssumption
<1> DEFINE room == Fifo!Room(Contents)
<1>1. /\ head' = IF IsFull THEN Advance(head) ELSE head
      /\ Buffer' = [Buffer EXCEPT ![tail] = key]
      /\ tail' = Advance(tail)
      /\ result' = Fifo!Pushed
  BY DEF PushEfikeyBufTail
<1>2. /\ Advance(head) = IF head = N - 1 THEN 0 ELSE head + 1
      /\ Advance(tail) = IF tail = N - 1 THEN 0 ELSE tail + 1
  BY AdvanceSlot DEF TypeOK
<1>3. /\ Contents \in Seq(KeyData) /\ Contents' \in Seq(KeyData)
      /\ Len(Contents) = Length /\ Len(Contents') = Length'
      /\ \A k \in 1 .. Length : SlotOf(k) \in Slot
      /\ \A k \in 1 .. Length : Contents[k] = Buffer[SlotOf(k)]
      /\ \A k \in 1 .. Length' : Contents'[k] = Buffer'[SlotOf(k)']
      /\ Length \in 0 .. N - 1
  BY ContentsProperties, ContentsPropertiesNext DEF ContentsOK
<1>4. IsFull <=> Length = N - 1
  BY <1>2 DEF IsFull, Length, TypeOK, Slot, N
<1>5. \A k \in 1 .. Length : SlotOf(k) # tail
  BY <1>3 DEF SlotOf, Length, TypeOK, Slot, N
<1>6. \A k \in 1 .. Length : Buffer'[SlotOf(k)] = Contents[k]
  BY <1>1, <1>3, <1>5 DEF TypeOK
<1>7. Buffer'[tail] = key
  BY <1>1 DEF TypeOK
\* What is left of the contents before the key is added.
<1>8. /\ room \in Seq(KeyData)
      /\ Length' = Len(room) + 1
      /\ Len(room) \in Nat
      /\ \A k \in 1 .. Len(room) : Contents'[k] = room[k]
      /\ Contents'[Len(room) + 1] = key
  <2>1. CASE IsFull
    <3>1. Contents # <<>> /\ Length > 0
      BY <1>3, <1>4, <2>1, EmptySeq DEF N
    <3>2. /\ room = Tail(Contents)
          /\ room \in Seq(KeyData)
          /\ Len(room) = Length - 1
          /\ \A k \in 1 .. Length - 1 : room[k] = Contents[k + 1]
      BY <1>3, <1>4, <2>1, <3>1, HeadTailProperties DEF Fifo!Room, N
    <3>3. Length' = Length
      BY <1>1, <1>2, <2>1 DEF IsFull, Length, TypeOK, Slot, N
    <3>4. \A k \in 1 .. Length - 1 : SlotOf(k)' = SlotOf(k + 1)
      BY <1>1, <1>2, <1>3, <2>1, <3>3 DEF SlotOf, Length, TypeOK, Slot, N
    <3>5. SlotOf(Length)' = tail
      BY <1>1, <1>2, <1>3, <1>4, <2>1, <3>3 DEF IsFull, SlotOf, Length, TypeOK, Slot, N
    <3>6. \A k \in 1 .. Length - 1 : Contents'[k] = room[k]
      BY <1>3, <1>6, <3>2, <3>3, <3>4
    <3>7. Contents'[Length] = key
      BY <1>3, <1>7, <3>1, <3>3, <3>5
    <3>8. QED BY <1>3, <3>1, <3>2, <3>3, <3>6, <3>7
  <2>2. CASE ~IsFull
    <3>1. room = Contents
      BY <1>3, <1>4, <2>2 DEF Fifo!Room, N
    <3>2. Length' = Length + 1
      BY <1>1, <1>2, <2>2 DEF IsFull, Length, TypeOK, Slot, N
    <3>3. \A k \in 1 .. Length + 1 : SlotOf(k)' = SlotOf(k)
      BY <1>1, <2>2 DEF SlotOf
    <3>4. SlotOf(Length + 1) = tail
      BY <1>3 DEF SlotOf, Length, TypeOK, Slot, N
    <3>5. \A k \in 1 .. Length : Contents'[k] = Contents[k]
      BY <1>3, <1>6, <3>2, <3>3
    <3>6. Contents'[Length + 1] = key
      BY <1>3, <1>7, <3>2, <3>3, <3>4
    <3>7. QED BY <1>3, <3>1, <3>2, <3>5, <3>6
  <2>3. QED BY <2>1, <2>2
<1>9. Contents' = Append(room, key)
  <2> HIDE DEF room
  <2>1. /\ Append(room, key) \in Seq(KeyData)
        /\ Len(Append(room, key)) = Len(room) + 1
        /\ \A k \in 1 .. Len(room) : Append(room, key)[k] = room[k]
        /\ Append(room, key)[Len(room) + 1] = key
    BY <1>8, AppendProperties
  <2>2. \A k \in 1 .. Len(room) + 1 : Contents'[k] = Append(room, key)[k]
    BY <1>8, <2>1
  <2>3. QED BY <1>3, <1>8, <2>1, <2>2, SeqEqual
<1>10. QED BY <1>1, <1>9 DEF Fifo!Push, Fifo!PushTail

(* The whole ring implements the queue.                                    *)
THEOREM KeyQueueImplementsFifo == Spec => ImplementsFifo
<1>1. Init => Fifo!Init
  <2> SUFFICES ASSUME Init PROVE Fifo!Init
    OBVIOUS
  <2>1. Contents = <<>>
    BY DEF Init, Contents, Length
  <2>2. QED BY <2>1 DEF Init, Fifo!Init
<1>2. TypeOK /\ TypeOK' /\ [Next]_vars => [Fifo!Next]_(Fifo!fifoVars)
  <2> SUFFICES ASSUME TypeOK, TypeOK', [Next]_vars
               PROVE  [Fifo!Next]_(Fifo!fifoVars)
    OBVIOUS
  <2>1. CASE PopEfikeyBufHead
    BY <2>1, PopStep DEF Fifo!Next
  <2>2. ASSUME NEW key \in KeyData, PushEfikeyBufTail(key)
        PROVE  Fifo!Next
    BY <2>2, PushStep DEF Fifo!Next
  <2>3. CASE InitKeypad
    <3>1. Contents' = <<>>
      BY <2>3 DEF InitKeypad, Contents, Length
    <3>2. QED BY <2>3, <3>1 DEF InitKeypad, Fifo!Clear, Fifo!Next
  <2>4. CASE UNCHANGED vars
    BY <2>4 DEF vars, Fifo!fifoVars, Contents, Length, SlotOf
  <2>5. QED BY <2>1, <2>2, <2>3, <2>4 DEF Next
<1>3. QED
  BY <1>1, <1>2, TypeCorrect, PTL DEF Spec, ImplementsFifo, Fifo!Spec
=============================================================================
