---------------------------- MODULE BoundedFifo ----------------------------
(***************************************************************************)
(* What the keypad driver expects of an EFI_KEY_QUEUE: a first-in          *)
(* first-out buffer of at most Capacity keys which makes room for a new    *)
(* key by forgetting its oldest one.  KeyQueue implements it with a ring;  *)
(* Keypad uses its operators for the driver's two queues.                  *)
(***************************************************************************)
EXTENDS Integers, Sequences

CONSTANTS
  Value,     \* what a queue holds: EFI_KEY_DATA
  Capacity   \* how many of them it can hold

VARIABLES
  fifo,      \* the queued values, oldest first
  result     \* which call was the last, and what it gave its caller

fifoVars == <<fifo, result>>

\* What a call ends with; a push and a clear return nothing.
Pushed     == [status |-> "pushed"]
Cleared    == [status |-> "cleared"]
NotReady   == [status |-> "EFI_NOT_READY"]
Success(v) == [status |-> "EFI_SUCCESS", key |-> v]

Outcome == {Pushed, Cleared, NotReady} \union {Success(v) : v \in Value}

Room(q)        == IF Len(q) = Capacity THEN Tail(q) ELSE q
PushTail(q, v) == Append(Room(q), v)

\* PushTail(q, v) m times over.
PushTimes(q, m, v) ==
  LET all  == q \o [i \in 1 .. m |-> v]
      over == Len(all) - Capacity
  IN  IF over > 0 THEN SubSeq(all, over + 1, Len(all)) ELSE all

Push(v) ==
  /\ fifo' = PushTail(fifo, v)
  /\ result' = Pushed

Pop ==
  /\ fifo # <<>>
  /\ fifo' = Tail(fifo)
  /\ result' = Success(Head(fifo))

PopEmpty ==
  /\ fifo = <<>>
  /\ result' = NotReady
  /\ UNCHANGED fifo

Clear ==
  /\ fifo' = <<>>
  /\ result' = Cleared

Init == fifo = <<>> /\ result = Cleared

Next ==
  \/ \E v \in Value : Push(v)
  \/ Pop
  \/ PopEmpty
  \/ Clear

Spec == Init /\ [][Next]_fifoVars
=============================================================================
