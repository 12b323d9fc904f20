----------------------- MODULE FrameBufferConsoleProofs ----------------------
(* What FrameBufferConsole guarantees for screens of any size, writes of any *)
(* length and interrupts on top of each other to any depth.                 *)
EXTENDS FrameBufferConsole, SequenceTheorems, TLAPS

-----------------------------------------------------------------------------
(* The stack.                                                              *)
LEMMA TopIsWrite ==
  ASSUME stack \in Seq(Write), stack # <<>>
  PROVE  /\ Depth \in Nat \ {0}
         /\ Top \in Write
  BY DEF Depth, Top

\* A step of the innermost write changes that write alone.
LEMMA TopChanges ==
  ASSUME stack \in Seq(Write), stack # <<>>, NEW w \in Write, Becomes(w)
  PROVE  /\ stack' \in Seq(Write)
         /\ stack' # <<>>
         /\ Len(stack') = Len(stack)
         /\ Depth' = Depth
         /\ Top' = w
         /\ stack'[Depth] = w
         /\ \A i \in 1..Depth - 1 : stack'[i] = stack[i]
  BY DEF Becomes, Depth, Top

(* A write that moves on is a write still.                                 *)
LEMMA GotoIsWrite ==
  ASSUME stack \in Seq(Write), stack # <<>>,
         NEW pc \in {"enter", "disable", "loop", "paint", "glyph", "newline",
                     "x", "check", "clear", "rewind"}
  PROVE  [Top EXCEPT !.pc = pc] \in Write
  BY TopIsWrite DEF Write

(* A write that begins is put on top of the others.                        *)
LEMMA Pushed ==
  ASSUME stack \in Seq(Write), NEW w \in Write, stack' = Append(stack, w)
  PROVE  /\ stack' \in Seq(Write)
         /\ stack' # <<>>
         /\ Len(stack') = Len(stack) + 1
         /\ Depth' = Depth + 1
         /\ Top' = w
         /\ stack'[Depth + 1] = w
         /\ \A i \in 1..Depth : stack'[i] = stack[i]
  BY DEF Depth, Top

(* A write that ends leaves those below it as they were.                   *)
LEMMA Popped ==
  ASSUME stack \in Seq(Write), stack # <<>>,
         stack' = SubSeq(stack, 1, Depth - 1)
  PROVE  /\ stack' \in Seq(Write)
         /\ Len(stack') = Depth - 1
         /\ Depth' = Depth - 1
         /\ \A i \in 1..Depth - 1 : stack'[i] = stack[i]
         /\ stack' # <<>> => Depth - 1 \in 1..Depth - 1 /\ Top' = stack[Depth - 1]
<1>0. \A i \in 1..Depth - 1 : stack[i] \in Write
  BY DEF Depth
<1>1. /\ stack' \in Seq(Write)
      /\ Len(stack') = Depth - 1
      /\ \A i \in 1..Depth - 1 : stack'[i] = stack[i]
  BY <1>0, TopIsWrite, SubSeqProperties
<1>2. Depth' = Depth - 1
  BY <1>1 DEF Depth
<1>3. stack' # <<>> => Depth - 1 \in 1..Depth - 1
  BY <1>1, <1>2, TopIsWrite DEF Depth
<1>. QED
  BY <1>1, <1>2, <1>3 DEF Depth, Top

-----------------------------------------------------------------------------
(* Types, nesting and the cursor.                                          *)

\* A write knows how many writes below it are in a line break.
Nested ==
  /\ Depth <= MaxDepth
  /\ \A i \in 1..Depth :
       /\ stack[i].breaks < i
       /\ i > 1 => stack[i].breaks = stack[i - 1].breaks
                                       + IF InLineBreak(stack[i - 1]) THEN 1 ELSE 0

\* The types, without the rows.
Typed ==
  /\ gWidth \in Widths
  /\ gHeight \in Heights
  /\ initialized \in BOOLEAN
  /\ x \in 0..Columns
  /\ y \in Nat
  /\ foreground \in Colors
  /\ interrupts \in BOOLEAN
  /\ stack \in Seq(Write)
  /\ shown \in BOOLEAN
  /\ x = Columns => ~interrupts /\ (At("newline") \/ At("x"))

\* Only a line break that is not complete leaves the rows of the screen.
RowInv == y < LastLine + SCALE_FACTOR * Breaks

Inv == Typed /\ Nested /\ RowInv

\* A screen has two columns and three lines at least.
LEMMA Grid ==
  ASSUME Typed
  PROVE  /\ gWidth \in Nat /\ gHeight \in Nat
         /\ Columns \in Nat \ {0}
         /\ MaxPositionY \in Nat
         /\ LastLine \in Nat /\ LastLine > 2
         /\ MaxPositionY = LastLine + 2
  BY ConstantsAssumption
  DEF Typed, Columns, MaxPositionY, LastLine, FONT_WIDTH, FONT_HEIGHT, SCALE_FACTOR

\* The fields of the innermost write.
LEMMA TopFields ==
  ASSUME Inv, stack # <<>>
  PROVE  /\ Top \in Write
         /\ Top.breaks \in 0..MaxDepth
         /\ Depth \in Nat \ {0}
         /\ Breaks \in Nat
         /\ Breaks = Top.breaks + IF InLineBreak(Top) THEN 1 ELSE 0
  BY TopIsWrite, ConstantsAssumption DEF Inv, Typed, Write, Breaks

(* Each write on the stack knows a number of half-done line breaks.        *)
LEMMA BreaksAreNumbers ==
  ASSUME Inv
  PROVE  \A i \in 1..Depth : stack[i] \in Write /\ stack[i].breaks \in Nat
<1>1. \A i \in 1..Depth : stack[i] \in Write
  BY DEF Inv, Typed, Depth
<1>2. \A w \in Write : w.breaks \in Nat
  BY ConstantsAssumption DEF Write
<1>. QED
  BY <1>1, <1>2

(* A step of the innermost write keeps what writes know of line breaks     *)
(* below them.                                                             *)
LEMMA NestedKept ==
  ASSUME Inv, stack # <<>>, NEW w \in Write, Becomes(w), w.breaks = Top.breaks
  PROVE  /\ Nested'
         /\ Breaks' = w.breaks + IF InLineBreak(w) THEN 1 ELSE 0
<1>. USE DEF Inv, Typed
<1>1. /\ Depth' = Depth
      /\ Top' = w
      /\ stack' # <<>>
      /\ stack'[Depth] = w
      /\ \A i \in 1..Depth - 1 : stack'[i] = stack[i]
  BY TopChanges
<1>2. Depth \in Nat \ {0} /\ stack[Depth] = Top
  BY TopIsWrite DEF Top
<1>3. ASSUME NEW i \in 1..Depth
      PROVE  stack'[i].breaks = stack[i].breaks
  BY <1>1, <1>2, <1>3
<1>4. ASSUME NEW i \in 1..Depth, i > 1
      PROVE  stack'[i - 1] = stack[i - 1]
  BY <1>1, <1>2, <1>4
<1>5. Nested'
  BY <1>1, <1>3, <1>4 DEF Nested, InLineBreak
<1>. QED
  BY <1>1, <1>5 DEF Breaks, InLineBreak

(* A write that begins counts the line breaks below it.                    *)
LEMMA NestedPushed ==
  ASSUME Inv, NEW w \in Write, w.breaks = Breaks, w.pc = "enter",
         Depth < MaxDepth, Depth' = Depth + 1, Top' = w, stack' # <<>>,
         stack'[Depth + 1] = w, \A i \in 1..Depth : stack'[i] = stack[i]
  PROVE  Nested' /\ Breaks' = Breaks
<1>. USE DEF Inv
<1>1. /\ Depth' = Depth + 1
      /\ Top' = w
      /\ stack' # <<>>
      /\ stack'[Depth + 1] = w
      /\ \A i \in 1..Depth : stack'[i] = stack[i]
  OBVIOUS
<1>2. Depth \in Nat
  BY DEF Depth
<1>3. ASSUME NEW i \in 1..Depth + 1
      PROVE  /\ stack'[i].breaks < i
             /\ i > 1 => stack'[i].breaks = stack'[i - 1].breaks
                           + IF InLineBreak(stack'[i - 1]) THEN 1 ELSE 0
  <2>1. CASE i <= Depth
    <3>1. i \in 1..Depth /\ stack'[i] = stack[i]
      BY <1>1, <1>2, <1>3, <2>1
    <3>2. i > 1 => stack'[i - 1] = stack[i - 1]
      BY <1>1, <1>2, <1>3, <3>1
    <3>. QED
      BY <3>1, <3>2 DEF Nested
  <2>2. CASE i = Depth + 1 /\ Depth = 0
    BY <1>1, <2>2 DEF Breaks, Depth
  <2>3. CASE i = Depth + 1 /\ Depth > 0
    <3>1. stack # <<>> /\ Depth \in 1..Depth /\ stack[Depth] = Top
      BY <1>2, <2>3 DEF Depth, Top
    <3>2. stack'[i] = w /\ stack'[i - 1] = Top
      <4>1. i - 1 = Depth
        BY <1>2, <2>3
      <4>. QED
        BY <1>1, <2>3, <3>1, <4>1
    <3>3. Top.breaks < Depth
      BY <3>1 DEF Nested
    <3>. QED
      BY <1>2, <2>3, <3>1, <3>2, <3>3, TopFields DEF Breaks
  <2>. QED
    BY <1>2, <1>3, <2>1, <2>2, <2>3
<1>4. Nested'
  <2>1. Depth' <= MaxDepth
    BY <1>1, <1>2, ConstantsAssumption
  <2>. QED
    BY <1>1, <1>3, <2>1 DEF Nested, InLineBreak
<1>5. Breaks' = Breaks
  <2>1. Breaks \in Nat
    BY TopFields DEF Breaks
  <2>2. ~InLineBreak(w)
    BY DEF InLineBreak
  <2>. QED
    BY <1>1, <2>1, <2>2 DEF Breaks, InLineBreak
<1>. QED
  BY <1>4, <1>5

(* A write that ends outside of a line break leaves the count of the one   *)
(* below right.                                                            *)
LEMMA NestedPopped ==
  ASSUME Inv, stack # <<>>, stack' = SubSeq(stack, 1, Depth - 1),
         ~InLineBreak(Top)
  PROVE  Nested' /\ Breaks' = Breaks
<1>. USE DEF Inv, Typed
<1>1. /\ Depth' = Depth - 1
      /\ \A i \in 1..Depth - 1 : stack'[i] = stack[i]
      /\ stack' # <<>> => Depth - 1 \in 1..Depth - 1 /\ Top' = stack[Depth - 1]
      /\ Len(stack') = Depth - 1
  BY Popped
<1>2. Depth \in Nat \ {0} /\ stack[Depth] = Top /\ Depth \in 1..Depth
  BY TopIsWrite DEF Top
<1>3. ASSUME NEW i \in 1..Depth - 1
      PROVE  /\ i \in 1..Depth
             /\ stack'[i] = stack[i]
             /\ i > 1 => stack'[i - 1] = stack[i - 1]
  BY <1>1, <1>2
<1>4. Nested'
  <2>1. Depth' <= MaxDepth
    BY <1>1, <1>2, ConstantsAssumption DEF Nested
  <2>. QED
    BY <1>1, <1>3, <2>1 DEF Nested, InLineBreak
<1>5. Breaks = Top.breaks
  BY TopFields
<1>6. CASE stack' = <<>>
  <2>1. Depth = 1
    BY <1>1, <1>2, <1>6
  <2>2. Top.breaks < 1 /\ Top.breaks \in Nat
    BY <1>2, <2>1, TopFields DEF Nested
  <2>. QED
    BY <1>4, <1>5, <1>6, <2>2 DEF Breaks
<1>7. CASE stack' # <<>>
  <2>1. Top.breaks = stack[Depth - 1].breaks
                       + IF InLineBreak(stack[Depth - 1]) THEN 1 ELSE 0
    BY <1>1, <1>2, <1>7 DEF Nested
  <2>. QED
    BY <1>1, <1>4, <1>5, <1>7, <2>1 DEF Breaks, InLineBreak
<1>. QED
  BY <1>6, <1>7

\* The parts of Typed that most steps leave alone.
Screen == /\ gWidth \in Widths
          /\ gHeight \in Heights
          /\ initialized \in BOOLEAN
          /\ foreground \in Colors
          /\ interrupts \in BOOLEAN
          /\ shown \in BOOLEAN

Cursor == /\ x \in 0..Columns
          /\ y \in Nat
          /\ x = Columns => ~interrupts /\ (At("newline") \/ At("x"))

\* A step of the innermost write that moves nothing keeps the invariant if it
\* neither enters nor leaves a line break.
LEMMA QuietStep ==
  ASSUME Inv, stack # <<>>, NEW w \in Write, Becomes(w),
         w.breaks = Top.breaks, InLineBreak(w) <=> InLineBreak(Top),
         Screen', x' \in 0..Columns, UNCHANGED <<gWidth, gHeight, y>>,
         x' = Columns => ~interrupts' /\ w.pc \in {"newline", "x"}
  PROVE  Inv'
<1>1. stack' \in Seq(Write) /\ stack' # <<>> /\ Top' = w
  BY TopChanges DEF Inv, Typed
<1>2. Nested' /\ Breaks' = Breaks
  BY NestedKept, TopFields
<1>3. RowInv'
  BY <1>2 DEF Inv, RowInv, LastLine, MaxPositionY
<1>4. Columns' = Columns
  BY DEF Columns
<1>5. Cursor'
  BY <1>1, <1>4 DEF Inv, Typed, Cursor, At
<1>. QED
  BY <1>1, <1>2, <1>3, <1>5 DEF Inv, Typed, Screen, Cursor

(* No more line breaks are half done than writes are running.              *)
LEMMA BreaksInRange ==
  ASSUME Inv, Depth < MaxDepth
  PROVE  Breaks \in 0..MaxDepth
<1>1. CASE stack = <<>>
  BY <1>1, ConstantsAssumption DEF Breaks
<1>2. CASE stack # <<>>
  <2>1. Depth \in 1..Depth /\ stack[Depth] = Top
    BY <1>2, TopFields DEF Top
  <2>2. Top.breaks < Depth
    BY <2>1 DEF Inv, Nested
  <2>. QED
    BY <1>2, <2>2, TopFields, ConstantsAssumption
<1>. QED
  BY <1>1, <1>2

\* What a call or an interrupt adds to the stack.
LEMMA BegunWrite ==
  ASSUME Inv, NEW critical \in BOOLEAN, NEW handler \in BOOLEAN,
         NEW length \in 0..MaxText, Begin(critical, handler, length),
         Depth < MaxDepth
  PROVE  \E w \in Write : /\ stack' = Append(stack, w)
                          /\ w.pc = "enter"
                          /\ w.breaks = Breaks
                          /\ w.char = "other"
<1> DEFINE w == [pc |-> "enter", critical |-> critical, handler |-> handler,
     left |-> length, char |-> "other", InterruptState |-> FALSE,
     intstate |-> FALSE, CurrentForeground |-> "none", breaks |-> Breaks,
     exposed |-> FALSE]
<1>1. Breaks \in 0..MaxDepth
  BY BreaksInRange
<1>2. "other" \in Characters /\ "none" \in Colors /\ FALSE \in BOOLEAN
  BY DEF Characters, Colors
<1>3. w \in Write
  BY <1>1, <1>2 DEF Write
<1>4. stack' = Append(stack, w)
  BY DEF Begin
<1>5. w.breaks = Breaks /\ w.pc = "enter" /\ w.char = "other"
  OBVIOUS
<1>. HIDE DEF w
<1>. QED
  BY <1>3, <1>4, <1>5

\* So does a call or an interrupt.
LEMMA BeginStep ==
  ASSUME Inv, NEW critical \in BOOLEAN, NEW handler \in BOOLEAN,
         NEW length \in 0..MaxText, Begin(critical, handler, length),
         Depth < MaxDepth, x # Columns, Screen',
         UNCHANGED <<gWidth, gHeight, x, y>>
  PROVE  Inv'
<1>1. PICK w \in Write : /\ stack' = Append(stack, w)
                        /\ w.pc = "enter"
                        /\ w.breaks = Breaks
  BY BegunWrite
<1>4. /\ stack' \in Seq(Write)
      /\ stack' # <<>>
      /\ Depth' = Depth + 1
      /\ Top' = w
      /\ stack'[Depth + 1] = w
      /\ \A i \in 1..Depth : stack'[i] = stack[i]
  BY <1>1, Pushed DEF Inv, Typed
<1>6. Nested' /\ Breaks' = Breaks
  BY <1>1, <1>4, NestedPushed
<1>7. RowInv'
  BY <1>6 DEF Inv, RowInv, LastLine, MaxPositionY
<1>8. Columns' = Columns
  BY DEF Columns
<1>9. Cursor'
  <2>1. x \in 0..Columns /\ y \in Nat
    BY DEF Inv, Typed
  <2>2. x' = x /\ y' = y
    OBVIOUS
  <2>. QED
    BY <1>8, <2>1, <2>2 DEF Cursor
<1>. QED
  BY <1>4, <1>6, <1>7, <1>9 DEF Inv, Typed, Screen, Cursor

\* The innermost write after a step that changes some of its fields.
LEMMA TopWith ==
  ASSUME Inv, stack # <<>>,
         NEW pc \in {"enter", "disable", "loop", "paint", "glyph", "newline",
                     "x", "check", "clear", "rewind"},
         NEW i \in BOOLEAN, NEW j \in BOOLEAN, NEW c \in Characters,
         NEW l \in 0..MaxText, NEW color \in Colors, NEW n \in BOOLEAN
  PROVE  [Top EXCEPT !.pc = pc, !.InterruptState = i, !.intstate = j,
            !.char = c, !.left = l, !.CurrentForeground = color,
            !.exposed = n] \in Write
  BY TopFields DEF Write

(* Every step keeps the types, what writes know of line breaks, and the    *)
(* rows.                                                                   *)
THEOREM InvInductive == Inv /\ [Next]_vars => Inv'
<1> SUFFICES ASSUME Inv, [Next]_vars PROVE Inv'
  OBVIOUS
<1>. USE DEF Inv
<1>0. /\ stack \in Seq(Write)
      /\ Screen /\ Cursor
  BY DEF Typed, Screen, Cursor
<1>1. CASE SerialPortInitialize
  <2>1. Columns' = Columns /\ LastLine' = LastLine
    BY <1>1 DEF SerialPortInitialize, Columns, LastLine, MaxPositionY
  <2>2. Breaks' = 0 /\ Nested'
    BY <1>1, ConstantsAssumption DEF SerialPortInitialize, Breaks, Nested, Depth
  <2>3. RowInv'
    BY <1>1, <2>1, <2>2, Grid DEF SerialPortInitialize, RowInv, SCALE_FACTOR
  <2>. QED
    BY <1>0, <1>1, <2>1, <2>2, <2>3, Grid
    DEF SerialPortInitialize, Typed, Screen, Cursor, Colors
<1>2. CASE \E critical \in BOOLEAN, length \in 0..MaxText : Call(critical, length)
  <2>1. PICK critical \in BOOLEAN, length \in 0..MaxText : Call(critical, length)
    BY <1>2
  <2>2. Depth < MaxDepth /\ x # Columns
    BY <2>1, ConstantsAssumption, <1>0 DEF Call, Depth, Cursor, At
  <2>3. Screen'
    BY <1>0, <2>1 DEF Call, Screen
  <2>. QED
    BY <2>1, <2>2, <2>3, BeginStep DEF Call
<1>3. CASE AnyInterrupt
  <2>1. PICK critical \in BOOLEAN, length \in 0..MaxText : Interrupt(critical, length)
    BY <1>3 DEF AnyInterrupt
  <2>2. Depth < MaxDepth /\ x # Columns
    BY <2>1, <1>0 DEF Interrupt, Cursor
  <2>3. Screen'
    BY <1>0, <2>1 DEF Interrupt, Screen
  <2>. QED
    BY <2>1, <2>2, <2>3, BeginStep DEF Interrupt
<1>4. CASE Return
  <2>1. stack # <<>> /\ ~InLineBreak(Top) /\ x # Columns
    BY <1>0, <1>4 DEF Return, At, InLineBreak, Cursor
  <2>2. stack' \in Seq(Write)
    BY <1>0, <1>4, <2>1, Popped DEF Return
  <2>3. Nested' /\ Breaks' = Breaks
    BY <1>4, <2>1, NestedPopped DEF Return
  <2>4. Screen'
    BY <1>0, <1>4, <2>1, TopIsWrite DEF Return, Screen, Restore, Write
  <2>5. Columns' = Columns /\ LastLine' = LastLine
    BY <1>4 DEF Return, Columns, LastLine, MaxPositionY
  <2>6. Cursor' /\ RowInv'
    BY <1>0, <1>4, <2>1, <2>3, <2>5 DEF Return, Cursor, RowInv
  <2>. QED
    BY <2>2, <2>3, <2>4, <2>6 DEF Typed, Screen, Cursor
<1>5. CASE Enter
  <2> DEFINE w == [Top EXCEPT !.pc = "disable", !.InterruptState = interrupts,
                         !.CurrentForeground = ReadForeground(foreground)]
  <2>1. stack # <<>> /\ Becomes(w) /\ ~InLineBreak(Top) /\ x # Columns
    BY <1>0, <1>5 DEF Enter, At, InLineBreak, Cursor
  <2>2. w \in Write /\ w.breaks = Top.breaks /\ w.pc = "disable"
    BY <1>0, <2>1, TopFields DEF Write, ReadForeground, Screen
  <2>3. Screen' /\ UNCHANGED <<gWidth, gHeight, x, y>> /\ x \in 0..Columns
    BY <1>0, <1>5 DEF Enter, Screen, Cursor
  <2>. HIDE DEF w
  <2>. QED
    BY <2>1, <2>2, <2>3, QuietStep DEF InLineBreak
<1>6. CASE Disable
  <2> DEFINE w == [Top EXCEPT !.pc = "loop"]
  <2>1. stack # <<>> /\ Becomes(w) /\ ~InLineBreak(Top) /\ x # Columns
    BY <1>0, <1>6 DEF Disable, Goto, At, InLineBreak, Cursor
  <2>2. w \in Write /\ w.breaks = Top.breaks /\ w.pc = "loop"
    BY <1>0, <2>1, TopFields, GotoIsWrite DEF Write
  <2>3. Screen' /\ UNCHANGED <<gWidth, gHeight, x, y>> /\ x \in 0..Columns
    BY <1>0, <1>6 DEF Disable, Screen, Cursor, Colors
  <2>. HIDE DEF w
  <2>. QED
    BY <2>1, <2>2, <2>3, QuietStep DEF InLineBreak
<1>7. CASE NextCharacter
  <2>1. PICK c \in Characters :
          Becomes([Top EXCEPT !.pc = "paint", !.char = c, !.left = Top.left - 1])
    BY <1>7 DEF NextCharacter
  <2> DEFINE w == [Top EXCEPT !.pc = "paint", !.char = c, !.left = Top.left - 1]
  <2>2. stack # <<>> /\ ~InLineBreak(Top) /\ x # Columns /\ Top.left > 0
    BY <1>0, <1>7 DEF NextCharacter, At, InLineBreak, Cursor
  <2>3. Top.left - 1 \in 0..MaxText
    BY <2>2, TopFields, ConstantsAssumption DEF Write
  <2>4. w \in Write /\ w.breaks = Top.breaks /\ w.pc = "paint"
    BY <2>2, <2>3, TopFields DEF Write
  <2>5. Screen' /\ UNCHANGED <<gWidth, gHeight, x, y>> /\ x \in 0..Columns
    BY <1>0, <1>7 DEF NextCharacter, Screen, Cursor
  <2>6. Becomes(w)
    BY <2>1
  <2>. HIDE DEF w
  <2>. QED
    BY <2>2, <2>4, <2>5, <2>6, QuietStep DEF InLineBreak
<1>8. CASE Paint
  <2>1. PICK pc \in {"loop", "newline", "glyph"}, any \in BOOLEAN, n \in BOOLEAN :
          Becomes([Top EXCEPT !.pc = pc, !.intstate = any, !.exposed = n])
    <3>1. Top = [Top EXCEPT !.intstate = Top.intstate, !.exposed = Top.exposed]
          /\ Top.intstate \in BOOLEAN /\ Top.exposed \in BOOLEAN
      BY <1>8, TopFields DEF Paint, At, Write
    <3>2. CASE \E pc \in {"loop", "glyph"} : Goto(pc)
      <4>1. PICK pc \in {"loop", "glyph"} : Goto(pc)
        BY <3>2
      <4>2. [Top EXCEPT !.pc = pc] = [Top EXCEPT !.pc = pc, !.intstate = Top.intstate,
                                                !.exposed = Top.exposed]
        BY <1>8, TopFields DEF Paint, At, Write
      <4>. QED
        BY <3>1, <4>1, <4>2 DEF Goto
    <3>3. CASE \E any \in BOOLEAN :
                 Becomes([Top EXCEPT !.pc = "newline", !.intstate = any,
                                     !.exposed = Top.exposed \/ any])
      BY <3>3
    <3>. QED
      BY <1>8, <3>2, <3>3 DEF Paint
  <2> DEFINE w == [Top EXCEPT !.pc = pc, !.intstate = any, !.exposed = n]
  <2>2. stack # <<>> /\ ~InLineBreak(Top) /\ x # Columns
    BY <1>0, <1>8 DEF Paint, At, InLineBreak, Cursor
  <2>3. w \in Write /\ w.breaks = Top.breaks /\ w.pc = pc
    BY <2>2, TopFields DEF Write
  <2>4. x' \in 0..Columns /\ x' # Columns
    <3>1. x' = x \/ x' = 0
      BY <1>8 DEF Paint
    <3>. QED
      BY <1>0, <2>2, <3>1, Grid DEF Cursor
  <2>5. Screen' /\ UNCHANGED <<gWidth, gHeight, y>>
    BY <1>0, <1>8 DEF Paint, Screen
  <2>6. Becomes(w)
    BY <2>1
  <2>. HIDE DEF w
  <2>. QED
    BY <2>2, <2>3, <2>4, <2>5, <2>6, QuietStep DEF InLineBreak
<1>9. CASE PaintGlyph
  <2> DEFINE pc == IF RowIsFull(x + 1) THEN "newline" ELSE "loop"
             w == [Top EXCEPT !.pc = pc, !.intstate = interrupts]
  <2>1. stack # <<>> /\ ~InLineBreak(Top) /\ x \in 0..Columns /\ x # Columns
    BY <1>0, <1>9 DEF PaintGlyph, At, InLineBreak, Cursor
  <2>2. Becomes(w)
    BY <1>9 DEF PaintGlyph
  <2>3. w \in Write /\ w.breaks = Top.breaks /\ w.pc = pc
    BY <1>0, <2>1, TopFields DEF Write, Screen
  <2>4. x' \in 0..Columns /\ (x' = Columns => ~interrupts' /\ pc = "newline")
    BY <1>9, <2>1, Grid DEF PaintGlyph, RowIsFull
  <2>5. Screen' /\ UNCHANGED <<gWidth, gHeight, y>>
    BY <1>0, <1>9 DEF PaintGlyph, Screen
  <2>6. pc \in {"newline", "loop"}
    OBVIOUS
  <2>. HIDE DEF w, pc
  <2>. QED
    BY <2>1, <2>2, <2>3, <2>4, <2>5, <2>6, QuietStep DEF InLineBreak
<1>10. CASE NewLine
  <2> DEFINE w == [Top EXCEPT !.pc = "x"]
  <2>1. stack # <<>> /\ Becomes(w) /\ ~InLineBreak(Top) /\ Top.pc = "newline"
    BY <1>10 DEF NewLine, Goto, At, InLineBreak
  <2>2. w \in Write /\ w.breaks = Top.breaks /\ w.pc = "x"
    BY <2>1, TopFields, GotoIsWrite DEF Write
  <2>. HIDE DEF w
  <2>3. Nested' /\ Breaks' = w.breaks + IF InLineBreak(w) THEN 1 ELSE 0
    BY <2>1, <2>2, NestedKept
  <2>4. Breaks' = Breaks + 1 /\ Breaks \in Nat
    BY <2>1, <2>2, <2>3, TopFields DEF InLineBreak
  <2>5. Columns' = Columns /\ LastLine' = LastLine
    BY <1>10 DEF NewLine, Columns, LastLine, MaxPositionY
  <2>6. RowInv' /\ y' \in Nat
    BY <1>0, <1>10, <2>4, <2>5, Grid DEF NewLine, RowInv, SCALE_FACTOR, Cursor
  <2>7. stack' \in Seq(Write) /\ stack' # <<>> /\ Top' = w
    BY <1>0, <2>1, <2>2, TopChanges
  <2>8. Screen' /\ Cursor'
    BY <1>0, <1>10, <2>2, <2>5, <2>6, <2>7 DEF NewLine, Screen, Cursor, At
  <2>. QED
    BY <2>3, <2>6, <2>7, <2>8 DEF Typed, Screen, Cursor
<1>11. CASE NewLineX
  <2> DEFINE w == [Top EXCEPT !.pc = "check"]
  <2>1. stack # <<>> /\ Becomes(w) /\ InLineBreak(Top)
    BY <1>11 DEF NewLineX, Goto, At, InLineBreak
  <2>2. w \in Write /\ w.breaks = Top.breaks /\ w.pc = "check"
    BY <2>1, TopFields, GotoIsWrite DEF Write
  <2>3. x' \in 0..Columns /\ x' # Columns
    BY <1>11, Grid DEF NewLineX
  <2>4. Screen' /\ UNCHANGED <<gWidth, gHeight, y>>
    BY <1>0, <1>11 DEF NewLineX, Screen
  <2>. HIDE DEF w
  <2>. QED
    BY <2>1, <2>2, <2>3, <2>4, QuietStep DEF InLineBreak
<1>12. CASE CheckLastLine
  <2>1. stack # <<>> /\ InLineBreak(Top) /\ x # Columns /\ x \in 0..Columns
        /\ Top \in Write
    BY <1>0, <1>12, TopIsWrite DEF CheckLastLine, At, InLineBreak, Cursor
  <2>2. Screen'
    BY <1>0, <1>12, <2>1 DEF CheckLastLine, Screen, Restore, Write
  <2>3. CASE y >= LastLine
    <3> DEFINE w == [Top EXCEPT !.pc = "clear"]
    <3>1. Becomes(w)
      BY <1>12, <2>3 DEF CheckLastLine, Goto
    <3>2. w \in Write /\ w.breaks = Top.breaks /\ w.pc = "clear"
      BY <2>1, TopFields, GotoIsWrite DEF Write
    <3>3. UNCHANGED <<gWidth, gHeight, x, y>>
      BY <1>12 DEF CheckLastLine
    <3>. HIDE DEF w
    <3>. QED
      BY <2>1, <2>2, <3>1, <3>2, <3>3, QuietStep DEF InLineBreak
  <2>4. CASE ~(y >= LastLine)
    <3> DEFINE w == [Top EXCEPT !.pc = "loop"]
    <3>1. Becomes(w)
      BY <1>12, <2>4 DEF CheckLastLine, Goto
    <3>2. w \in Write /\ w.breaks = Top.breaks /\ w.pc = "loop"
      BY <2>1, TopFields, GotoIsWrite DEF Write
    <3>. HIDE DEF w
    <3>3. Nested' /\ Breaks' = w.breaks + IF InLineBreak(w) THEN 1 ELSE 0
      BY <2>1, <3>1, <3>2, NestedKept
    <3>4. Breaks' = Top.breaks /\ Top.breaks \in Nat
      BY <2>1, <3>2, <3>3, TopFields, ConstantsAssumption DEF InLineBreak
    <3>5. Columns' = Columns /\ LastLine' = LastLine /\ UNCHANGED <<x, y>>
      BY <1>12 DEF CheckLastLine, Columns, LastLine, MaxPositionY
    <3>6. RowInv'
      BY <1>0, <2>4, <3>4, <3>5, Grid DEF RowInv, SCALE_FACTOR, Cursor
    <3>7. stack' \in Seq(Write) /\ Cursor'
      BY <1>0, <2>1, <3>1, <3>2, <3>5, TopChanges DEF Cursor
    <3>. QED
      BY <2>2, <3>3, <3>6, <3>7 DEF Typed, Screen, Cursor
  <2>. QED
    BY <2>3, <2>4
<1>13. CASE ResetFb
  <2> DEFINE w == [Top EXCEPT !.pc = "rewind"]
  <2>1. stack # <<>> /\ Becomes(w) /\ InLineBreak(Top) /\ x # Columns
    BY <1>0, <1>13 DEF ResetFb, Goto, At, InLineBreak, Cursor
  <2>2. w \in Write /\ w.breaks = Top.breaks /\ w.pc = "rewind"
    BY <2>1, TopFields, GotoIsWrite DEF Write
  <2>3. Screen' /\ UNCHANGED <<gWidth, gHeight, x, y>> /\ x \in 0..Columns
    BY <1>0, <1>13 DEF ResetFb, Screen, Cursor
  <2>. HIDE DEF w
  <2>. QED
    BY <2>1, <2>2, <2>3, QuietStep DEF InLineBreak
<1>14. CASE Rewind
  <2> DEFINE w == [Top EXCEPT !.pc = "paint"]
  <2>1. stack # <<>> /\ Becomes(w) /\ x # Columns
    BY <1>0, <1>14 DEF Rewind, Goto, Repaint, At, Cursor
  <2>2. w \in Write /\ w.breaks = Top.breaks /\ w.pc = "paint"
    BY <2>1, TopFields, GotoIsWrite DEF Write
  <2>. HIDE DEF w
  <2>3. Nested' /\ Breaks' = w.breaks + IF InLineBreak(w) THEN 1 ELSE 0
    BY <2>1, <2>2, NestedKept
  <2>4. Breaks' \in Nat
    BY <2>1, <2>2, <2>3, TopFields, ConstantsAssumption DEF InLineBreak
  <2>5. Columns' = Columns /\ LastLine' = LastLine /\ x' = x /\ y' = 0
    BY <1>14 DEF Rewind, Rewound, Columns, LastLine, MaxPositionY
  <2>6. RowInv'
    BY <2>4, <2>5, Grid DEF RowInv, SCALE_FACTOR
  <2>7. stack' \in Seq(Write) /\ Cursor'
    BY <1>0, <2>1, <2>2, <2>5, TopChanges DEF Cursor
  <2>8. Screen'
    BY <1>0, <1>14, <2>1, TopIsWrite DEF Rewind, Screen, Restore, Write
  <2>. QED
    BY <2>3, <2>6, <2>7, <2>8 DEF Typed, Screen, Cursor
<1>15. CASE UNCHANGED vars
  BY <1>15 DEF vars, Typed, Nested, RowInv, At, Depth, Top, Breaks, Columns,
               LastLine, MaxPositionY, InLineBreak
<1>. QED
  BY <1>1, <1>2, <1>3, <1>4, <1>5, <1>6, <1>7, <1>8, <1>9, <1>10, <1>11,
     <1>12, <1>13, <1>14, <1>15 DEF Next, Step

(* The invariant holds at first.                                           *)
LEMMA InitInv == Init => Inv
<1> SUFFICES ASSUME Init PROVE Inv
  OBVIOUS
<1>1. gWidth \in Nat /\ gHeight \in Nat
  BY ConstantsAssumption DEF Init
<1>2. Columns \in Nat \ {0} /\ LastLine \in Nat /\ LastLine > 0
  BY ConstantsAssumption DEF Init, Columns, MaxPositionY, LastLine,
     FONT_WIDTH, FONT_HEIGHT, SCALE_FACTOR
<1>3. /\ stack = <<>> /\ Depth = 0 /\ Breaks = 0
      /\ x = 0 /\ y = 0 /\ 0 \in 0..Columns /\ Columns # 0
  BY <1>2 DEF Init, Depth, Breaks
<1>4. Typed
  <2>1. stack \in Seq(Write) /\ x \in 0..Columns /\ y \in Nat /\ x # Columns
    BY <1>3
  <2>2. /\ gWidth \in Widths /\ gHeight \in Heights
        /\ initialized \in BOOLEAN /\ foreground \in Colors
        /\ interrupts \in BOOLEAN /\ shown \in BOOLEAN
    BY DEF Init, Colors
  <2>. QED
    BY <2>1, <2>2 DEF Typed
<1>5. Nested /\ RowInv
  BY <1>2, <1>3, ConstantsAssumption DEF Nested, RowInv, SCALE_FACTOR
<1>. QED
  BY <1>4, <1>5 DEF Inv

\* The invariant holds on every screen, at every depth of interruption.
THEOREM InvHolds == Spec => []Inv
  BY InitInv, InvInductive, PTL DEF Spec

\* The cursor, the colours and the stack of writes keep their types: the column
\* is inside the grid, a row is full only while interrupts are disabled, and
\* only line breaks that are not complete take the cursor out of the rows of
\* text, each by its one step.
THEOREM TypeCorrect == Spec => []TypeOK
<1>1. Inv => TypeOK
  BY DEF Inv, TypeOK, Typed, RowInv
<1>. QED
  BY <1>1, InvHolds, PTL

\* No glyph leaves the screen but for the line that each line break in progress
\* below the write allows it.
THEOREM GlyphsStay == Spec => []GlyphsStayOnScreen
<1>1. Inv => GlyphsStayOnScreen
  <2> SUFFICES ASSUME Inv, At("glyph")
               PROVE  /\ Right(x) <= gWidth
                      /\ Lower(y) <= Upper(MaxPositionY - 1 + Top.breaks * SCALE_FACTOR)
    BY DEF GlyphsStayOnScreen
  <2>1. stack # <<>> /\ x \in 0..Columns /\ x # Columns /\ y \in Nat
    BY DEF Inv, Typed, At
  <2>2. Breaks = Top.breaks /\ Breaks \in Nat
    BY <2>1, TopFields DEF At, InLineBreak
  <2>3. Right(x) <= gWidth
    <3>1. x + 1 <= (gWidth \div 6) \div 2 /\ gWidth \in Nat
      <4>1. Columns = (gWidth \div 6) \div 2
        BY DEF Columns, FONT_WIDTH, SCALE_FACTOR
      <4>2. x + 1 <= Columns /\ gWidth \in Nat
        BY <2>1, Grid DEF Inv
      <4>. QED
        BY <4>1, <4>2
    <3>2. x \in Nat /\ x * 12 + 10 <= gWidth
      <4>1. \A w \in Nat : (w \div 6) \in Nat /\ (w \div 6) * 6 <= w
        OBVIOUS
      <4>2. \A w \in Nat : (w \div 2) \in Nat /\ (w \div 2) * 2 <= w
        OBVIOUS
      <4> DEFINE p == gWidth \div 6
                 q == p \div 2
      <4>3. p \in Nat /\ p * 6 <= gWidth /\ q \in Nat /\ q * 2 <= p
        BY <3>1, <4>1, <4>2
      <4>4. x \in Nat /\ x + 1 <= q
        BY <2>1, <3>1
      <4>. HIDE DEF p, q
      <4>. QED
        BY <3>1, <4>3, <4>4
    <3>3. Right(x) = x * 12 + 10
      BY <3>2 DEF Right, Left, FONT_WIDTH, SCALE_FACTOR
    <3>. QED
      BY <3>2, <3>3
  <2>4. y + 1 <= LastLine + 2 * Top.breaks
    BY <2>1, <2>2, Grid DEF Inv, RowInv, SCALE_FACTOR
  <2>5. Lower(y) <= Upper(MaxPositionY - 1 + Top.breaks * SCALE_FACTOR)
    <3> DEFINE b == Top.breaks
    <3>1. b \in Nat /\ LastLine \in Nat /\ MaxPositionY = LastLine + 2
          /\ y \in Nat /\ y + 1 <= LastLine + 2 * b
      BY <2>1, <2>2, <2>4, Grid DEF Inv
    <3>. HIDE DEF b
    <3>2. y * 12 + 24 <= (LastLine + 2 - 1 + b * 2) * 12
      BY <3>1
    <3>. QED
      BY <3>1, <3>2 DEF Lower, Upper, FONT_HEIGHT, SCALE_FACTOR, b
  <2>. QED
    BY <2>3, <2>5
<1>. QED
  BY <1>1, InvHolds, PTL

-----------------------------------------------------------------------------
(* The colour.                                                             *)

\* A critical write prints in its colour once it has disabled interrupts.
Prints(i) == stack[i].critical /\ stack[i].pc \notin {"enter", "disable"}

\* The colour that the first n writes alone would have left.
ColorOf(n) ==
  IF \E j \in 1..n : Prints(j) THEN "yellow"
  ELSE IF initialized THEN "white" ELSE "none"

\* Each critical write has saved the colour of the writes below it.
ColorInv ==
  /\ foreground = ColorOf(Depth)
  /\ \A i \in 1..Depth :
       stack[i].critical /\ stack[i].pc # "enter"
         => stack[i].CurrentForeground = ColorOf(i - 1)

(* A step of the innermost write that handles the colour as its kind of    *)
(* write does keeps the colours saved below it.                            *)
LEMMA ColorKept ==
  ASSUME Inv, ColorInv, stack # <<>>, NEW w \in Write, Becomes(w),
         w.critical = Top.critical, w.pc = "enter" <=> Top.pc = "enter",
         w.pc = "disable" <=> Top.pc = "disable",
         w.CurrentForeground = Top.CurrentForeground,
         initialized' = initialized, foreground' = foreground
  PROVE  ColorInv'
<1>1. /\ Depth' = Depth
      /\ stack'[Depth] = w
      /\ \A i \in 1..Depth - 1 : stack'[i] = stack[i]
      /\ Depth \in Nat \ {0}
      /\ stack[Depth] = Top
  BY TopChanges, TopIsWrite DEF Inv, Typed, Top
<1>2. ASSUME NEW i \in 1..Depth
      PROVE  /\ stack'[i].critical = stack[i].critical
             /\ stack'[i].pc = "enter" <=> stack[i].pc = "enter"
             /\ stack'[i].pc = "disable" <=> stack[i].pc = "disable"
             /\ stack'[i].CurrentForeground = stack[i].CurrentForeground
  BY <1>1, <1>2
<1>3. ASSUME NEW n \in 0..Depth
      PROVE  (\E j \in 1..n : Prints(j)') <=> (\E j \in 1..n : Prints(j))
  BY <1>1, <1>2, <1>3 DEF Prints
<1>4. ASSUME NEW n \in 0..Depth
      PROVE  ColorOf(n)' = ColorOf(n)
  BY <1>3 DEF ColorOf
<1>5. foreground' = ColorOf(Depth)'
  BY <1>1, <1>4 DEF ColorInv, ColorOf, Prints
<1>6. ASSUME NEW i \in 1..Depth, stack'[i].critical, stack'[i].pc # "enter"
      PROVE  stack'[i].CurrentForeground = ColorOf(i - 1)'
  <2>1. i - 1 \in 0..Depth
    BY <1>1, <1>6
  <2>. QED
    BY <1>2, <1>4, <1>6, <2>1 DEF ColorInv
<1>. QED
  BY <1>1, <1>5, <1>6 DEF ColorInv

\* A write saves the colour while no colour of its own is set.
LEMMA ColorSaved ==
  ASSUME Inv, ColorInv, stack # <<>>, Top.pc = "enter", NEW w \in Write,
         Becomes(w), w.pc = "disable", w.critical = Top.critical,
         w.CurrentForeground = foreground,
         initialized' = initialized, foreground' = foreground
  PROVE  ColorInv'
<1>1. /\ Depth' = Depth
      /\ stack'[Depth] = w
      /\ \A i \in 1..Depth - 1 : stack'[i] = stack[i]
      /\ Depth \in Nat \ {0}
      /\ stack[Depth] = Top
  BY TopChanges, TopIsWrite DEF Inv, Typed, Top
<1>2. ASSUME NEW i \in 1..Depth
      PROVE  Prints(i)' <=> Prints(i)
  BY <1>1, <1>2 DEF Prints
<1>3. ASSUME NEW n \in 0..Depth
      PROVE  ColorOf(n)' = ColorOf(n)
  BY <1>1, <1>2, <1>3 DEF ColorOf
<1>4. foreground' = ColorOf(Depth)'
  BY <1>1, <1>3 DEF ColorInv, ColorOf, Prints
<1>5. foreground = ColorOf(Depth - 1)
  <2>1. (\E j \in 1..Depth : Prints(j)) <=> (\E j \in 1..Depth - 1 : Prints(j))
    BY <1>1 DEF Prints
  <2>. QED
    BY <2>1 DEF ColorInv, ColorOf
<1>6. ASSUME NEW i \in 1..Depth, stack'[i].critical, stack'[i].pc # "enter"
      PROVE  stack'[i].CurrentForeground = ColorOf(i - 1)'
  <2>1. i - 1 \in 0..Depth
    BY <1>1, <1>6
  <2>2. stack'[i].CurrentForeground = ColorOf(i - 1)
    BY <1>1, <1>5, <1>6 DEF ColorInv
  <2>. QED
    BY <1>3, <2>1, <2>2
<1>. QED
  BY <1>1, <1>4, <1>6 DEF ColorInv

\* It sets the colour with the interrupts disabled.
LEMMA ColorSet ==
  ASSUME Inv, ColorInv, stack # <<>>, Top.pc = "disable", NEW w \in Write,
         Becomes(w), w.pc = "loop", w.critical = Top.critical,
         w.CurrentForeground = Top.CurrentForeground,
         initialized' = initialized,
         foreground' = IF Top.critical THEN "yellow" ELSE foreground
  PROVE  ColorInv'
<1>1. /\ Depth' = Depth
      /\ stack'[Depth] = w
      /\ \A i \in 1..Depth - 1 : stack'[i] = stack[i]
      /\ Depth \in Nat \ {0}
      /\ stack[Depth] = Top
  BY TopChanges, TopIsWrite DEF Inv, Typed, Top
<1>2. ASSUME NEW n \in 0..Depth - 1
      PROVE  ColorOf(n)' = ColorOf(n)
  <2>1. \A j \in 1..n : Prints(j)' <=> Prints(j)
    BY <1>1, <1>2 DEF Prints
  <2>. QED
    BY <2>1 DEF ColorOf
<1>3. foreground' = ColorOf(Depth)'
  <2>1. CASE Top.critical
    <3>1. Prints(Depth)'
      BY <1>1, <2>1 DEF Prints
    <3>. QED
      BY <1>1, <2>1, <3>1 DEF ColorOf, Prints
  <2>2. CASE ~Top.critical
    <3>1. \A j \in 1..Depth : Prints(j)' <=> Prints(j)
      BY <1>1, <2>2 DEF Prints
    <3>. QED
      BY <1>1, <2>2, <3>1 DEF ColorInv, ColorOf, Prints
  <2>. QED
    BY <2>1, <2>2
<1>4. ASSUME NEW i \in 1..Depth, stack'[i].critical, stack'[i].pc # "enter"
      PROVE  stack'[i].CurrentForeground = ColorOf(i - 1)'
  <2>1. i - 1 \in 0..Depth - 1
    BY <1>1, <1>4
  <2>2. stack'[i].CurrentForeground = ColorOf(i - 1)
    BY <1>1, <1>4 DEF ColorInv
  <2>. QED
    BY <1>2, <2>1, <2>2
<1>. QED
  BY <1>1, <1>3, <1>4 DEF ColorInv

(* A write that begins has not saved or changed the colour.                *)
LEMMA ColorPushed ==
  ASSUME Inv, ColorInv, NEW w \in Write, w.pc = "enter", Depth' = Depth + 1,
         stack'[Depth + 1] = w, \A i \in 1..Depth : stack'[i] = stack[i],
         initialized' = initialized, foreground' = foreground
  PROVE  ColorInv'
<1>1. /\ Depth' = Depth + 1
      /\ stack'[Depth + 1].pc = "enter"
      /\ \A i \in 1..Depth : stack'[i] = stack[i]
      /\ Depth \in Nat
  BY DEF Inv, Typed, Depth
<1>2. ASSUME NEW n \in 0..Depth
      PROVE  ColorOf(n)' = ColorOf(n)
  <2>1. \A j \in 1..n : Prints(j)' <=> Prints(j)
    BY <1>1, <1>2 DEF Prints
  <2>. QED
    BY <2>1 DEF ColorOf
<1>3. \A j \in {Depth + 1} : ~Prints(j)'
  BY <1>1 DEF Prints
<1>4. foreground' = ColorOf(Depth)'
  <2>1. (\E j \in 1..Depth + 1 : Prints(j)') <=> (\E j \in 1..Depth : Prints(j)')
    <3>1. 1..Depth + 1 = (1..Depth) \cup {Depth + 1}
      BY <1>1
    <3>. QED
      BY <1>3, <3>1
  <2>2. ColorOf(Depth)' = IF \E j \in 1..Depth + 1 : Prints(j)' THEN "yellow"
                          ELSE IF initialized THEN "white" ELSE "none"
    BY <1>1 DEF ColorOf
  <2>3. ColorOf(Depth) = IF \E j \in 1..Depth : Prints(j)' THEN "yellow"
                         ELSE IF initialized THEN "white" ELSE "none"
    BY <1>1 DEF ColorOf, Prints
  <2>. QED
    BY <2>1, <2>2, <2>3 DEF ColorInv
<1>5. ASSUME NEW i \in 1..Depth + 1, stack'[i].critical, stack'[i].pc # "enter"
      PROVE  stack'[i].CurrentForeground = ColorOf(i - 1)'
  <2>1. i \in 1..Depth /\ i - 1 \in 0..Depth
    BY <1>1, <1>5
  <2>. QED
    BY <1>1, <1>2, <1>5, <2>1 DEF ColorInv
<1>. QED
  BY <1>1, <1>4, <1>5 DEF ColorInv

(* A write that ends has given back the colour the one below it left.      *)
LEMMA ColorPopped ==
  ASSUME Inv, ColorInv, Return
  PROVE  ColorInv'
<1>1. /\ Depth' = Depth - 1
      /\ \A i \in 1..Depth - 1 : stack'[i] = stack[i]
      /\ Depth \in Nat \ {0}
      /\ stack[Depth] = Top /\ Top.pc = "loop" /\ Top.critical \in BOOLEAN
  BY Popped, TopIsWrite DEF Inv, Typed, Return, At, Top, Write
<1>2. ASSUME NEW n \in 0..Depth - 1
      PROVE  ColorOf(n)' = ColorOf(n)
  <2>1. \A j \in 1..n : Prints(j)' <=> Prints(j)
    BY <1>1, <1>2 DEF Prints
  <2>. QED
    BY <2>1 DEF ColorOf, Return
<1>3. foreground' = ColorOf(Depth - 1)
  <2>1. CASE Top.critical
    BY <1>1, <2>1 DEF ColorInv, Return
  <2>2. CASE ~Top.critical
    <3>1. (\E j \in 1..Depth : Prints(j)) <=> (\E j \in 1..Depth - 1 : Prints(j))
      BY <1>1, <2>2 DEF Prints
    <3>. QED
      BY <2>2, <3>1 DEF ColorInv, ColorOf, Return
  <2>. QED
    BY <2>1, <2>2
<1>4. foreground' = ColorOf(Depth)'
  BY <1>1, <1>2, <1>3 DEF ColorOf, Prints
<1>5. ASSUME NEW i \in 1..Depth - 1, stack'[i].critical, stack'[i].pc # "enter"
      PROVE  stack'[i].CurrentForeground = ColorOf(i - 1)'
  <2>1. i \in 1..Depth /\ i - 1 \in 0..Depth - 1
    BY <1>1, <1>5
  <2>. QED
    BY <1>1, <1>2, <1>5, <2>1 DEF ColorInv
<1>. QED
  BY <1>1, <1>4, <1>5 DEF ColorInv

\* The steps that print a character change neither the colour nor what a
\* write has saved.
LEMMA PlainStep ==
  ASSUME stack \in Seq(Write), interrupts \in BOOLEAN,
         \/ NextCharacter \/ Paint \/ PaintGlyph \/ NewLine \/ NewLineX
         \/ CheckLastLine \/ ResetFb \/ Rewind
  PROVE  \E w \in Write :
           /\ Becomes(w)
           /\ w.pc \notin {"enter", "disable"}
           /\ w.critical = Top.critical
           /\ w.CurrentForeground = Top.CurrentForeground
<1>1. stack # <<>> /\ Top \in Write
  BY TopIsWrite DEF NextCharacter, Paint, PaintGlyph, NewLine, NewLineX,
     CheckLastLine, ResetFb, Rewind, At
<1>2. ASSUME NEW pc \in {"loop", "paint", "glyph", "newline", "x", "check",
                        "clear", "rewind"}, Goto(pc)
      PROVE  \E w \in Write :
               /\ Becomes(w)
               /\ w.pc \notin {"enter", "disable"}
               /\ w.critical = Top.critical
               /\ w.CurrentForeground = Top.CurrentForeground
  <2> DEFINE w == [Top EXCEPT !.pc = pc]
  <2>1. w \in Write
    BY <1>1, GotoIsWrite
  <2>3. /\ w.pc = pc
        /\ w.critical = Top.critical
        /\ w.CurrentForeground = Top.CurrentForeground
    BY <1>1 DEF Write
  <2>2. Becomes(w)
    BY <1>2 DEF Goto
  <2>. HIDE DEF w
  <2>. QED
    BY <2>1, <2>2, <2>3
<1>3. CASE NextCharacter
  <2>1. PICK c \in Characters :
          Becomes([Top EXCEPT !.pc = "paint", !.char = c, !.left = Top.left - 1])
    BY <1>3 DEF NextCharacter
  <2> DEFINE w == [Top EXCEPT !.pc = "paint", !.char = c, !.left = Top.left - 1]
  <2>2. Top.left - 1 \in 0..MaxText
    <3>1. Top.left > 0 /\ Top.left \in 0..MaxText
      BY <1>1, <1>3 DEF NextCharacter, Write
    <3>. QED
      BY <3>1, ConstantsAssumption
  <2>3. /\ w \in Write /\ w.pc = "paint"
        /\ w.critical = Top.critical
        /\ w.CurrentForeground = Top.CurrentForeground
    BY <1>1, <2>2 DEF Write
  <2>4. Becomes(w)
    BY <2>1
  <2>. HIDE DEF w
  <2>. QED
    BY <2>3, <2>4
<1>4. CASE \E any \in BOOLEAN :
             Becomes([Top EXCEPT !.pc = "newline", !.intstate = any,
                                 !.exposed = Top.exposed \/ any])
  <2>1. PICK any \in BOOLEAN :
          Becomes([Top EXCEPT !.pc = "newline", !.intstate = any, !.exposed = Top.exposed \/ any])
    BY <1>4
  <2> DEFINE w == [Top EXCEPT !.pc = "newline", !.intstate = any, !.exposed = Top.exposed \/ any]
  <2>2. /\ w \in Write /\ w.pc = "newline"
        /\ w.critical = Top.critical
        /\ w.CurrentForeground = Top.CurrentForeground
    BY <1>1 DEF Write
  <2>3. Becomes(w)
    BY <2>1
  <2>. HIDE DEF w
  <2>. QED
    BY <2>2, <2>3
<1>5. CASE Paint
  BY <1>2, <1>4, <1>5 DEF Paint
<1>6. CASE PaintGlyph
  <2>1. PICK pc \in {"newline", "loop"} :
          Becomes([Top EXCEPT !.pc = pc, !.intstate = interrupts])
    BY <1>6 DEF PaintGlyph
  <2> DEFINE w == [Top EXCEPT !.pc = pc, !.intstate = interrupts]
  <2>2. /\ w \in Write /\ w.pc = pc
        /\ w.critical = Top.critical
        /\ w.CurrentForeground = Top.CurrentForeground
    BY <1>1 DEF Write
  <2>3. Becomes(w)
    BY <2>1
  <2>. HIDE DEF w
  <2>. QED
    BY <2>2, <2>3
<1>7. CASE NewLine \/ NewLineX \/ CheckLastLine \/ ResetFb \/ Rewind
  BY <1>2, <1>7 DEF NewLine, NewLineX, CheckLastLine, ResetFb, Rewind, Repaint
<1>. QED
  BY <1>3, <1>5, <1>6, <1>7

(* Every step keeps the invariant of colours.                              *)
LEMMA ColorInductive == Inv /\ ColorInv /\ [Next]_vars => ColorInv'
<1> SUFFICES ASSUME Inv, ColorInv, [Next]_vars PROVE ColorInv'
  OBVIOUS
<1>0. stack \in Seq(Write)
  BY DEF Inv, Typed
<1>1. CASE SerialPortInitialize
  BY <1>1 DEF SerialPortInitialize, ColorInv, ColorOf, Depth
<1>2. ASSUME NEW critical \in BOOLEAN, NEW handler \in BOOLEAN,
             NEW length \in 0..MaxText, Begin(critical, handler, length),
             UNCHANGED <<initialized, foreground>>, Depth < MaxDepth
      PROVE  ColorInv'
  <2>1. PICK w \in Write : stack' = Append(stack, w) /\ w.pc = "enter"
    BY <1>2, BegunWrite
  <2>2. /\ Depth' = Depth + 1
        /\ stack'[Depth + 1] = w
        /\ \A i \in 1..Depth : stack'[i] = stack[i]
    BY <1>0, <2>1, Pushed
  <2>. QED
    BY <1>2, <2>1, <2>2, ColorPushed
<1>3. CASE \E critical \in BOOLEAN, length \in 0..MaxText : Call(critical, length)
  <2>1. PICK critical \in BOOLEAN, length \in 0..MaxText : Call(critical, length)
    BY <1>3
  <2>2. Depth < MaxDepth
    BY <2>1, ConstantsAssumption DEF Call, Depth
  <2>. QED
    BY <1>2, <2>1, <2>2 DEF Call
<1>4. CASE AnyInterrupt
  BY <1>2, <1>4 DEF AnyInterrupt, Interrupt
<1>5. CASE Enter
  <2>1. PICK w \in Write : /\ Becomes(w)
                          /\ w = [Top EXCEPT !.pc = "disable",
                                    !.InterruptState = interrupts,
                                    !.CurrentForeground = foreground]
    BY <1>0, <1>5, TopIsWrite DEF Enter, At, ReadForeground, Write, Inv, Typed
  <2>2. stack # <<>> /\ Top \in Write /\ Top.pc = "enter"
    BY <1>0, <1>5, TopIsWrite DEF Enter, At
  <2>3. /\ w.pc = "disable" /\ w.critical = Top.critical
        /\ w.CurrentForeground = foreground
    BY <2>1, <2>2 DEF Write
  <2>. QED
    BY <1>5, <2>1, <2>2, <2>3, ColorSaved DEF Enter
<1>6. CASE Disable
  <2>1. stack # <<>> /\ Top \in Write /\ Top.pc = "disable"
    BY <1>0, <1>6, TopIsWrite DEF Disable, At
  <2>2. PICK w \in Write : Becomes(w) /\ w = [Top EXCEPT !.pc = "loop"]
    BY <1>0, <1>6, <2>1, GotoIsWrite DEF Disable, Goto
  <2>3. /\ w.pc = "loop" /\ w.critical = Top.critical
        /\ w.CurrentForeground = Top.CurrentForeground
    BY <2>1, <2>2 DEF Write
  <2>. QED
    BY <1>6, <2>1, <2>2, <2>3, ColorSet DEF Disable
<1>7. CASE Return
  BY <1>7, ColorPopped
<1>8. CASE \/ NextCharacter \/ Paint \/ PaintGlyph \/ NewLine \/ NewLineX
           \/ CheckLastLine \/ ResetFb \/ Rewind
  <2>1. /\ stack # <<>>
        /\ Top.pc \notin {"enter", "disable"}
        /\ UNCHANGED <<initialized, foreground>>
    BY <1>8 DEF NextCharacter, Paint, PaintGlyph, NewLine, NewLineX,
       CheckLastLine, ResetFb, Rewind, At
  <2>2. PICK w \in Write :
          /\ Becomes(w)
          /\ w.pc \notin {"enter", "disable"}
          /\ w.critical = Top.critical
          /\ w.CurrentForeground = Top.CurrentForeground
    BY <1>0, <1>8, PlainStep DEF Inv, Typed
  <2>. QED
    BY <2>1, <2>2, ColorKept
<1>9. CASE UNCHANGED vars
  BY <1>9 DEF vars, ColorInv, ColorOf, Prints, Depth
<1>. QED
  BY <1>1, <1>3, <1>4, <1>5, <1>6, <1>7, <1>8, <1>9 DEF Next, Step

\* Each critical write takes its colour back, whatever interrupted it.
THEOREM ColourComesBack == Spec => []ForegroundComesBack
<1>1. Init => ColorInv
  BY DEF Init, ColorInv, ColorOf, Depth
<1>2. ColorInv => ForegroundComesBack
  BY DEF ColorInv, ColorOf, ForegroundComesBack, Depth
<1>. QED
  BY <1>1, <1>2, InvHolds, ColorInductive, PTL DEF Spec

-----------------------------------------------------------------------------
(* Interrupts.                                                             *)
Breaking(write) == write.pc = "newline" \/ InLineBreak(write)

\* What an interrupt can find on top: a write that has not disabled interrupts
\* yet or one that a '\n' may have enabled them for, and not the line break
\* behind a glyph.
Interruptible(write) ==
  /\ write.pc \in {"enter", "disable"} \/ write.exposed
  /\ Breaking(write) => write.char # "printable"

MaskInv ==
  /\ \A i \in 1..Depth :
       stack[i].pc \in {"enter", "disable"} => stack[i].char = "other"
  /\ \A i \in 1..Depth - 1 : Interruptible(stack[i])
  /\ stack # <<>> =>
       /\ ~Interruptible(Top) => ~interrupts
       /\ Breaking(Top) /\ ~Top.exposed => ~Top.intstate
       /\ Top.char = "printable" /\ Top.pc \in {"newline", "x", "check"} => shown

(* A step of the innermost write keeps the writes below it at places where *)
(* they can be interrupted.                                                *)
LEMMA MaskKept ==
  ASSUME Inv, MaskInv, stack # <<>>, NEW w \in Write, Becomes(w),
         w.pc \in {"enter", "disable"} => w.char = "other",
         ~Interruptible(w) => ~interrupts',
         Breaking(w) /\ ~w.exposed => ~w.intstate,
         w.char = "printable" /\ w.pc \in {"newline", "x", "check"} => shown'
  PROVE  MaskInv'
<1>1. /\ Depth' = Depth
      /\ Top' = w
      /\ stack'[Depth] = w
      /\ \A i \in 1..Depth - 1 : stack'[i] = stack[i]
      /\ Depth \in Nat \ {0}
  BY TopChanges, TopIsWrite DEF Inv, Typed
<1>2. ASSUME NEW i \in 1..Depth, stack'[i].pc \in {"enter", "disable"}
      PROVE  stack'[i].char = "other"
  BY <1>1, <1>2 DEF MaskInv
<1>3. ASSUME NEW i \in 1..Depth - 1
      PROVE  Interruptible(stack'[i])
  BY <1>1, <1>3 DEF MaskInv
<1>. QED
  BY <1>1, <1>2, <1>3 DEF MaskInv, Interruptible, Breaking, InLineBreak

(* A write that begins found the one below it interruptible.               *)
LEMMA MaskPushed ==
  ASSUME Inv, MaskInv, NEW w \in Write, w.pc = "enter", w.char = "other",
         Depth' = Depth + 1, Top' = w, stack'[Depth + 1] = w,
         \A i \in 1..Depth : stack'[i] = stack[i], stack # <<>> => interrupts
  PROVE  MaskInv'
<1>1. /\ Depth' = Depth + 1
      /\ Top' = w
      /\ stack'[Depth + 1] = w
      /\ \A i \in 1..Depth : stack'[i] = stack[i]
      /\ Depth \in Nat
  BY DEF Inv, Typed, Depth
<1>2. ASSUME NEW i \in 1..Depth + 1, stack'[i].pc \in {"enter", "disable"}
      PROVE  stack'[i].char = "other"
  BY <1>1, <1>2 DEF MaskInv
<1>3. ASSUME NEW i \in 1..Depth
      PROVE  Interruptible(stack'[i])
  <2>1. CASE i = Depth
    <3>1. stack # <<>> /\ stack[i] = Top
      BY <1>1, <1>3, <2>1 DEF Depth, Top
    <3>. QED
      BY <1>1, <3>1 DEF MaskInv
  <2>2. CASE i # Depth
    <3>1. i \in 1..Depth - 1
      BY <1>1, <2>2
    <3>. QED
      BY <1>1, <3>1 DEF MaskInv
  <2>. QED
    BY <2>1, <2>2
<1>4. Interruptible(w) /\ ~Breaking(w) /\ w.char = "other"
  BY DEF Interruptible, Breaking, InLineBreak
<1>. QED
  BY <1>1, <1>2, <1>3, <1>4 DEF MaskInv, Interruptible, Breaking, InLineBreak

(* A write that ends finds the one below it where it was interrupted.      *)
LEMMA MaskPopped ==
  ASSUME Inv, MaskInv, stack # <<>>, stack' = SubSeq(stack, 1, Depth - 1)
  PROVE  MaskInv'
<1>1. /\ Depth' = Depth - 1
      /\ \A i \in 1..Depth - 1 : stack'[i] = stack[i]
      /\ stack' # <<>> => Depth - 1 \in 1..Depth - 1 /\ Top' = stack[Depth - 1]
      /\ Depth \in Nat \ {0}
  BY Popped, TopIsWrite DEF Inv, Typed
<1>2. ASSUME NEW i \in 1..Depth - 1
      PROVE  /\ Interruptible(stack'[i])
             /\ stack'[i].pc \in {"enter", "disable"} => stack'[i].char = "other"
  BY <1>1, <1>2 DEF MaskInv
<1>3. stack' # <<>> => Interruptible(stack[Depth - 1])
  BY <1>1 DEF MaskInv
<1>4. \A i \in 1..Depth - 2 : i \in 1..Depth - 1
  BY <1>1
<1>. QED
  BY <1>1, <1>2, <1>3, <1>4 DEF MaskInv, Interruptible, Breaking, InLineBreak

\* What a step that goes on to pc, and does no more to the write, leaves.
LEMMA GotoFields ==
  ASSUME stack \in Seq(Write), stack # <<>>,
         NEW pc \in {"enter", "disable", "loop", "paint", "glyph", "newline",
                     "x", "check", "clear", "rewind"},
         Goto(pc)
  PROVE  \E w \in Write : /\ Becomes(w)
                          /\ w.pc = pc
                          /\ w.char = Top.char
                          /\ w.exposed = Top.exposed
                          /\ w.intstate = Top.intstate
<1> DEFINE w == [Top EXCEPT !.pc = pc]
<1>1. w \in Write /\ Becomes(w)
  BY GotoIsWrite DEF Goto
<1>2. w.pc = pc /\ w.char = Top.char /\ w.exposed = Top.exposed
      /\ w.intstate = Top.intstate
  BY TopIsWrite DEF Write
<1>. HIDE DEF w
<1>. QED
  BY <1>1, <1>2

(* Every step keeps the invariant of the interrupt mask.                   *)
LEMMA MaskInductive == Inv /\ MaskInv /\ [Next]_vars => MaskInv'
<1> SUFFICES ASSUME Inv, MaskInv, [Next]_vars PROVE MaskInv'
  OBVIOUS
<1>. USE DEF Interruptible, Breaking, InLineBreak
<1>0. /\ stack \in Seq(Write)
      /\ stack # <<>> =>
           /\ Top \in Write
           /\ Top.exposed \in BOOLEAN /\ Top.intstate \in BOOLEAN
           /\ Top.pc \in {"enter", "disable"} => Top.char = "other"
           /\ ~Interruptible(Top) => ~interrupts
           /\ Breaking(Top) /\ ~Top.exposed => ~Top.intstate
           /\ Top.char = "printable" /\ Top.pc \in {"newline", "x", "check"} => shown
  <2>1. stack \in Seq(Write)
    BY DEF Inv, Typed
  <2>2. ASSUME stack # <<>>
        PROVE  /\ Top \in Write
               /\ Top.exposed \in BOOLEAN /\ Top.intstate \in BOOLEAN
               /\ Depth \in 1..Depth /\ stack[Depth] = Top
    BY <2>1, <2>2, TopIsWrite DEF Write, Top
  <2>. QED
    BY <2>1, <2>2 DEF MaskInv
<1>1. CASE SerialPortInitialize
  BY <1>1 DEF SerialPortInitialize, MaskInv, Depth
<1>14. ASSUME NEW critical \in BOOLEAN, NEW handler \in BOOLEAN,
              NEW length \in 0..MaxText, Begin(critical, handler, length),
              Depth < MaxDepth, stack # <<>> => interrupts
       PROVE  MaskInv'
  <2>1. PICK w \in Write : stack' = Append(stack, w) /\ w.pc = "enter" /\ w.char = "other"
    BY <1>14, BegunWrite
  <2>2. /\ Depth' = Depth + 1
        /\ Top' = w
        /\ stack'[Depth + 1] = w
        /\ \A i \in 1..Depth : stack'[i] = stack[i]
    BY <1>0, <2>1, Pushed
  <2>. QED
    BY <1>14, <2>1, <2>2, MaskPushed
<1>2. CASE \E critical \in BOOLEAN, length \in 0..MaxText : Call(critical, length)
  <2>1. PICK critical \in BOOLEAN, length \in 0..MaxText : Call(critical, length)
    BY <1>2
  <2>2. Depth < MaxDepth /\ stack = <<>>
    BY <2>1, ConstantsAssumption DEF Call, Depth
  <2>. QED
    BY <1>14, <2>1, <2>2 DEF Call
<1>3. CASE AnyInterrupt
  BY <1>3, <1>14 DEF AnyInterrupt, Interrupt
<1>4. CASE Return
  BY <1>4, MaskPopped DEF Return, At
<1>5. CASE Enter
  <2> DEFINE w == [Top EXCEPT !.pc = "disable", !.InterruptState = interrupts,
                         !.CurrentForeground = ReadForeground(foreground)]
  <2>1. stack # <<>> /\ Becomes(w) /\ Top.pc = "enter" /\ Top \in Write
    BY <1>0, <1>5 DEF Enter, At
  <2>2. w \in Write /\ w.char = "other" /\ w.pc = "disable"
    BY <1>0, <2>1 DEF Write, ReadForeground, Inv, Typed
  <2>. HIDE DEF w
  <2>. QED
    BY <2>1, <2>2, MaskKept
<1>6. CASE Disable
  <2>1. stack # <<>> /\ Goto("loop") /\ ~interrupts'
    BY <1>6 DEF Disable, At
  <2>. QED
    BY <1>0, <2>1, GotoFields, MaskKept
<1>7. CASE NextCharacter
  <2>1. PICK c \in Characters :
          Becomes([Top EXCEPT !.pc = "paint", !.char = c, !.left = Top.left - 1])
    BY <1>7 DEF NextCharacter
  <2> DEFINE w == [Top EXCEPT !.pc = "paint", !.char = c, !.left = Top.left - 1]
  <2>2. stack # <<>> /\ Top.pc = "loop" /\ interrupts' = interrupts /\ Top \in Write
    BY <1>0, <1>7 DEF NextCharacter, At
  <2>3. Top.left - 1 \in 0..MaxText
    <3>1. Top.left > 0 /\ Top.left \in 0..MaxText
      BY <1>7, <2>2 DEF NextCharacter, Write
    <3>. QED
      BY <3>1, ConstantsAssumption
  <2>4. w \in Write /\ w.pc = "paint" /\ w.exposed = Top.exposed
    BY <2>2, <2>3 DEF Write
  <2>5. Becomes(w)
    BY <2>1
  <2>. HIDE DEF w
  <2>. QED
    BY <1>0, <2>2, <2>4, <2>5, MaskKept
<1>8. CASE Paint
  <2>1. /\ stack # <<>> /\ Top.pc = "paint" /\ Top \in Write
        /\ interrupts' = interrupts
    BY <1>0, <1>8 DEF Paint, At
  <2>2. CASE Goto("loop") \/ Goto("glyph")
    <3>1. PICK pc \in {"loop", "glyph"} : Goto(pc)
      BY <2>2
    <3>2. PICK w \in Write : /\ Becomes(w)
                            /\ w.pc = pc
                            /\ w.exposed = Top.exposed
      BY <1>0, <2>1, <3>1, GotoFields
    <3>. QED
      BY <1>0, <2>1, <3>2, MaskKept
  <2>3. CASE Top.char = "LF" /\ \E any \in BOOLEAN :
               Becomes([Top EXCEPT !.pc = "newline", !.intstate = any,
                                   !.exposed = Top.exposed \/ any])
    <3>1. PICK any \in BOOLEAN :
            Becomes([Top EXCEPT !.pc = "newline", !.intstate = any,
                                !.exposed = Top.exposed \/ any])
      BY <2>3
    <3> DEFINE w == [Top EXCEPT !.pc = "newline", !.intstate = any,
                                !.exposed = Top.exposed \/ any]
    <3>2. /\ w \in Write /\ w.pc = "newline" /\ w.char = "LF"
          /\ w.intstate = any /\ w.exposed = (Top.exposed \/ any)
      BY <2>1, <2>3 DEF Write
    <3>3. Becomes(w)
      BY <3>1
    <3>. HIDE DEF w
    <3>. QED
      <4>1. ~Interruptible(w) => ~interrupts'
        BY <1>0, <2>1, <3>2
      <4>2. Breaking(w) /\ ~w.exposed => ~w.intstate
        BY <3>2
      <4>. QED
        BY <2>1, <3>2, <3>3, <4>1, <4>2, MaskKept
  <2>. QED
    BY <1>8, <2>2, <2>3 DEF Paint
<1>9. CASE PaintGlyph
  <2> DEFINE pc == IF RowIsFull(x + 1) THEN "newline" ELSE "loop"
             w == [Top EXCEPT !.pc = pc, !.intstate = interrupts]
  <2>1. stack # <<>> /\ Top.pc = "glyph" /\ Top \in Write /\ Becomes(w) /\ shown'
        /\ interrupts' = IF pc = "newline" THEN FALSE ELSE interrupts
    BY <1>0, <1>9 DEF PaintGlyph, At
  <2>2. w \in Write /\ w.pc = pc /\ w.exposed = Top.exposed
        /\ w.intstate = interrupts
    BY <2>1 DEF Write, Inv, Typed
  <2>3. pc \in {"newline", "loop"}
    OBVIOUS
  <2>. HIDE DEF w, pc
  <2>4. ~Interruptible(w) => ~interrupts'
    BY <1>0, <2>1, <2>2, <2>3
  <2>5. Breaking(w) /\ ~w.exposed => ~w.intstate
    BY <1>0, <2>1, <2>2
  <2>. QED
    BY <2>1, <2>2, <2>3, <2>4, <2>5, MaskKept
<1>10. CASE NewLine \/ NewLineX \/ ResetFb
  <2>1. stack # <<>> /\ Breaking(Top) /\ interrupts' = interrupts
    BY <1>10 DEF NewLine, NewLineX, ResetFb, At
  <2>2. PICK pc \in {"x", "check", "rewind"} :
          Goto(pc) /\ (pc \in {"x", "check"}
                         => Top.pc \in {"newline", "x"} /\ shown' = shown)
    BY <1>10 DEF NewLine, NewLineX, ResetFb, At
  <2>3. PICK w \in Write : /\ Becomes(w)
                          /\ w.pc = pc
                          /\ w.char = Top.char
                          /\ w.exposed = Top.exposed
                          /\ w.intstate = Top.intstate
    BY <1>0, <2>1, <2>2, GotoFields
  <2>4. ~Interruptible(w) => ~interrupts'
    BY <1>0, <2>1, <2>3
  <2>. QED
    BY <1>0, <2>1, <2>2, <2>3, <2>4, MaskKept
<1>11. CASE CheckLastLine
  <2>1. stack # <<>> /\ Top.pc = "check" /\ shown' = shown
    BY <1>11 DEF CheckLastLine, At
  <2>2. PICK pc \in {"clear", "loop"} :
          Goto(pc) /\ interrupts' = IF pc = "clear" THEN interrupts
                                    ELSE Restore(Top.intstate)
    BY <1>11 DEF CheckLastLine
  <2>3. PICK w \in Write : /\ Becomes(w)
                          /\ w.pc = pc
                          /\ w.char = Top.char
                          /\ w.exposed = Top.exposed
                          /\ w.intstate = Top.intstate
    BY <1>0, <2>1, <2>2, GotoFields
  <2>4. ~Interruptible(w) => ~interrupts'
    BY <1>0, <2>1, <2>2, <2>3 DEF Restore
  <2>. QED
    BY <1>0, <2>1, <2>2, <2>3, <2>4, MaskKept
<1>12. CASE Rewind
  <2>1. /\ stack # <<>> /\ Top.pc = "rewind" /\ Goto("paint")
        /\ interrupts' = Restore(Top.intstate)
    BY <1>12 DEF Rewind, Repaint, At
  <2>2. PICK w \in Write : /\ Becomes(w)
                          /\ w.pc = "paint"
                          /\ w.exposed = Top.exposed
    BY <1>0, <2>1, GotoFields
  <2>3. ~Interruptible(w) => ~interrupts'
    BY <1>0, <2>1, <2>2 DEF Restore
  <2>. QED
    BY <2>1, <2>2, <2>3, MaskKept
<1>13. CASE UNCHANGED vars
  BY <1>13 DEF vars, MaskInv, Depth, Top
<1>. QED
  BY <1>1, <1>2, <1>3, <1>4, <1>5, <1>6, <1>7, <1>8, <1>9, <1>10, <1>11,
     <1>12, <1>13 DEF Next, Step

(* The invariant of the interrupt mask holds of every behaviour.           *)
LEMMA MaskHolds == Spec => []MaskInv
<1>1. Init => MaskInv
  BY DEF Init, MaskInv, Depth
<1>. QED
  BY <1>1, InvHolds, MaskInductive, PTL DEF Spec

(* The stack gets shorter only where a write returns.                      *)
LEMMA OnlyReturnPops ==
  ASSUME Inv, Next, Len(stack') < Depth
  PROVE  Return
<1>0. stack \in Seq(Write) /\ interrupts \in BOOLEAN /\ Depth = Len(stack)
  BY DEF Inv, Typed, Depth
<1>1. ASSUME NEW w, Becomes(w)
      PROVE  Len(stack') = Depth
  BY <1>0, <1>1 DEF Becomes
<1>2. ASSUME NEW critical \in BOOLEAN, NEW handler \in BOOLEAN,
             NEW length \in 0..MaxText, Begin(critical, handler, length)
      PROVE  Len(stack') = Depth + 1
  BY <1>0, <1>2 DEF Begin
<1>3. Depth \in Nat
  BY <1>0
<1>4. ASSUME stack' = stack
      PROVE  FALSE
  BY <1>0, <1>4
<1>5. ASSUME NEW critical \in BOOLEAN, NEW handler \in BOOLEAN,
             NEW length \in 0..MaxText, Begin(critical, handler, length)
      PROVE  FALSE
  <2>1. Len(stack') = Depth + 1
    BY <1>2, <1>5
  <2>. QED
    BY <1>3, <2>1
<1>6. /\ ~SerialPortInitialize
      /\ ~\E critical \in BOOLEAN, length \in 0..MaxText : Call(critical, length)
      /\ ~AnyInterrupt
  BY <1>4, <1>5 DEF SerialPortInitialize, Call, AnyInterrupt, Interrupt
<1>7. ~Enter /\ ~Disable /\ ~NextCharacter
  <2>1. ASSUME NEW w, Becomes(w)
        PROVE  FALSE
    <3>1. Len(stack') = Depth
      BY <1>1, <2>1
    <3>. QED
      BY <1>3, <3>1
  <2>. QED
    BY <2>1 DEF Enter, Disable, NextCharacter, Goto
<1>8. ~(\/ Paint \/ PaintGlyph \/ NewLine \/ NewLineX
        \/ CheckLastLine \/ ResetFb \/ Rewind)
  BY <1>0, <1>1, <1>3, PlainStep
<1>. QED
  BY <1>6, <1>7, <1>8 DEF Next, Step

\* A step of a write that ends in the loop.
LEMMA OnlyTheseReachTheLoop ==
  ASSUME Inv, Next, At("loop")', ~At("loop"), Len(stack') = Depth
  PROVE  Disable \/ Paint \/ PaintGlyph \/ CheckLastLine
<1>0. stack \in Seq(Write) /\ Depth = Len(stack) /\ Depth \in Nat
  BY DEF Inv, Typed, Depth
<1>1. ASSUME NEW critical \in BOOLEAN, NEW handler \in BOOLEAN,
             NEW length \in 0..MaxText, Begin(critical, handler, length)
      PROVE  FALSE
  BY <1>0, <1>1 DEF Begin
<1>2. ASSUME NEW pc \in {"x", "check", "rewind", "paint"}, stack # <<>>, Goto(pc)
      PROVE  FALSE
  BY <1>0, <1>2, GotoFields, TopChanges DEF At
<1>3. ~SerialPortInitialize
  BY DEF SerialPortInitialize, At
<1>4. /\ ~\E critical \in BOOLEAN, length \in 0..MaxText : Call(critical, length)
      /\ ~AnyInterrupt
  BY <1>1 DEF Call, AnyInterrupt, Interrupt
<1>5. ~Enter
  <2> SUFFICES ASSUME Enter PROVE FALSE
    OBVIOUS
  <2> DEFINE w == [Top EXCEPT !.pc = "disable", !.InterruptState = interrupts,
                         !.CurrentForeground = ReadForeground(foreground)]
  <2>1. stack # <<>> /\ Becomes(w) /\ Top \in Write
    BY <1>0, TopIsWrite DEF Enter, At
  <2>2. w \in Write /\ w.pc = "disable"
    BY <2>1 DEF Write, ReadForeground, Inv, Typed
  <2>. HIDE DEF w
  <2>. QED
    BY <1>0, <2>1, <2>2, TopChanges DEF At
<1>6. ~NextCharacter /\ ~Return
  BY DEF NextCharacter, Return, At
<1>7. ~NewLine /\ ~NewLineX /\ ~ResetFb /\ ~Rewind
  BY <1>2 DEF NewLine, NewLineX, ResetFb, Rewind, Repaint, At
<1>. QED
  BY <1>3, <1>4, <1>5, <1>6, <1>7 DEF Next, Step

\* A write that found no TRUE in an intstate that nothing initialised runs with
\* interrupts disabled from where it disables them to its end, and nothing but
\* the state that it saved enables them again.
THEOREM InterruptsKept == Spec => InterruptsAreKept
<1>1. Inv /\ MaskInv /\ [Next]_vars
        => [Len(stack') < Depth /\ ~Top.handler =>
              /\ Top.InterruptState => interrupts'
              /\ ~Top.InterruptState /\ ~Top.exposed => ~interrupts']_vars
  <2> SUFFICES ASSUME Inv, MaskInv, Next, Len(stack') < Depth, ~Top.handler
               PROVE  /\ Top.InterruptState => interrupts'
                      /\ ~Top.InterruptState /\ ~Top.exposed => ~interrupts'
    OBVIOUS
  <2>1. Return
    BY OnlyReturnPops
  <2>2. /\ stack # <<>> /\ Top.pc = "loop"
        /\ interrupts' = (Top.handler \/ Restore(Top.InterruptState))
    BY <2>1 DEF Return, At
  <2>3. ~Top.exposed => ~interrupts
    BY <2>2 DEF MaskInv, Interruptible
  <2>. QED
    BY <2>2, <2>3 DEF Restore
<1>2. MaskInv => (stack # <<>> /\ interrupts
                    => Top.pc \in {"enter", "disable"} \/ Top.exposed)
  BY DEF MaskInv, Interruptible
<1>. QED
  BY <1>1, <1>2, InvHolds, MaskHolds, PTL DEF Spec, InterruptsAreKept

\* The glyph that fills a row is followed by a line break that no interrupt gets
\* into, and by the same glyph if the line break clears the screen.
THEOREM PrintedStays == Spec => PrintedIsOnScreen
<1>1. Inv /\ MaskInv /\ [Next]_vars
        => [At("loop")' /\ ~At("loop") /\ Len(stack') = Depth /\ initialized
            /\ Top.char = "printable" => shown']_vars
  <2> SUFFICES ASSUME Inv, MaskInv, Next, At("loop")', ~At("loop"),
                      Len(stack') = Depth, initialized, Top.char = "printable"
               PROVE  shown'
    OBVIOUS
  <2>1. Disable \/ Paint \/ PaintGlyph \/ CheckLastLine
    BY OnlyTheseReachTheLoop
  <2>2. CASE Disable
    <3>1. Depth \in 1..Depth /\ stack[Depth] = Top /\ Top.pc = "disable"
      BY <2>2, TopIsWrite DEF Disable, At, Inv, Typed, Top
    <3>. QED
      BY <3>1 DEF MaskInv
  <2>3. CASE Paint
    <3>1. ~Ignored /\ Goto("glyph")
      BY <2>3 DEF Paint, Ignored
    <3>. QED
      BY <2>3, <3>1, GotoFields, TopChanges DEF Paint, At, Inv, Typed
  <2>4. CASE PaintGlyph
    BY <2>4 DEF PaintGlyph
  <2>5. CASE CheckLastLine
    BY <2>5 DEF CheckLastLine, MaskInv, At
  <2>. QED
    BY <2>1, <2>2, <2>3, <2>4, <2>5
<1>. QED
  BY <1>1, InvHolds, MaskHolds, PTL DEF Spec, PrintedIsOnScreen
=============================================================================
