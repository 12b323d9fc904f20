------------------------------ MODULE MCKeypad ------------------------------
(* Keystrokes of one key with and without shift, and partial ones; a       *)
(* registration without shift matches both of the former.                  *)
EXTENDS Keypad

CONSTANTS h1, h2

MCHandles == {h1, h2}

Plain   == [code |-> "a", shift |-> 0, toggle |-> 0]
Shifted == [code |-> "a", shift |-> 1, toggle |-> 0]
Partial == [code |-> "null", shift |-> 0, toggle |-> 0]

MCKeyData == {Plain, Shifted, Partial}
LiveKeyData == {Plain, Partial}

\* The pool's addresses are interchangeable.
Symmetry == Permutations(Handles)

MCToggles == {[valid |-> TRUE,  exposed |-> TRUE,  locks |-> {}],
              [valid |-> FALSE, exposed |-> TRUE,  locks |-> {}]}

LiveToggles == {[valid |-> TRUE, exposed |-> TRUE, locks |-> {}]}

\* No step of Keypad reads what the last call returned; what a step returns is
\* compared with the state before it on every step, also to a state seen before.
WithoutReturns == <<queueVars, settingVars, NotifyList, poll, pending,
                    handlerVars, reading, ready>>

\* PushTimes against its definition by repeated pushes.
RECURSIVE PushRepeatedly(_, _, _)
PushRepeatedly(q, m, v) ==
  IF m = 0 THEN q ELSE PushRepeatedly(Fifo!PushTail(q, v), m - 1, v)

ASSUME PushTimesIsRepeatedPush ==
  \A q \in UNION {[1 .. n -> 1 .. 2] : n \in 0 .. Capacity} : \A m \in 0 .. 4 :
    Fifo!PushTimes(q, m, 3) = PushRepeatedly(q, m, 3)
=============================================================================
