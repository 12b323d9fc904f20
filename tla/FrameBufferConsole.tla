------------------------- MODULE FrameBufferConsole -------------------------
(***************************************************************************)
(* The debug console on the frame buffer: SerialPortInitialize,            *)
(* SerialPortWrite and SerialPortWriteCritical, down to the glyphs they    *)
(* paint.  Writes nest: one that an interrupt's handler makes runs on top  *)
(* of the write it interrupted, and ends before that one goes on.          *)
(*                                                                         *)
(* A line break that a '\n' asks for jumps over the initialisation of      *)
(* intstate and then reads it: its value is any.  The number of characters *)
(* of a write is known from the start, the characters are not.             *)
(***************************************************************************)
EXTENDS Integers, Sequences

CONSTANTS
  Widths, Heights,  \* PcdMipiFrameBufferWidth and -Height, one of each
  MaxText,          \* bound: characters of a write
  MaxDepth          \* bound: writes on top of each other

FONT_WIDTH   == 5
FONT_HEIGHT  == 12
SCALE_FACTOR == 2

\* A screen holds three lines at least: two, and '\n' resets it for ever.
ASSUME ConstantsAssumption ==
  /\ Widths \subseteq {w \in Nat : w \div (FONT_WIDTH + 1) >= SCALE_FACTOR}
  /\ Heights \subseteq {h \in Nat : (h - 1) \div FONT_HEIGHT > 2 * SCALE_FACTOR}
  /\ MaxText \in Nat
  /\ MaxDepth \in Nat \ {0}

VARIABLES
  gWidth, gHeight,
  initialized,   \* m_Initialized
  x, y,          \* m_Position
  foreground,    \* m_Color.Foreground
  interrupts,    \* interrupts are enabled
  stack,         \* the writes in progress, the innermost last
  shown          \* history: the last glyph painted was not cleared

vars == <<gWidth, gHeight, initialized, x, y, foreground, interrupts, stack,
          shown>>

Characters == {"LF", "CR", "space", "printable", "other"}
Colors == {"none", "white", "yellow"}

\* breaks counts the writes below this one that are in a line break (history),
\* exposed that this write has found TRUE in an intstate that nothing
\* initialised (history).
Write == [pc : {"enter", "disable", "loop", "paint", "glyph", "newline",
                "x", "check", "clear", "rewind"},
          critical : BOOLEAN, handler : BOOLEAN, left : 0..MaxText,
          char : Characters, InterruptState : BOOLEAN, intstate : BOOLEAN,
          CurrentForeground : Colors, breaks : 0..MaxDepth, exposed : BOOLEAN]

Depth == Len(stack)
Top == stack[Depth]
At(pc) == stack # <<>> /\ Top.pc = pc
Becomes(write) == stack' = [stack EXCEPT ![Depth] = write]
Goto(pc) == Becomes([Top EXCEPT !.pc = pc])

InLineBreak(write) == write.pc \in {"x", "check", "clear", "rewind"}
Breaks == IF stack = <<>> THEN 0
          ELSE Top.breaks + IF InLineBreak(Top) THEN 1 ELSE 0

-----------------------------------------------------------------------------
(* The grid of characters.                                                 *)
Columns == (gWidth \div (FONT_WIDTH + 1)) \div SCALE_FACTOR
MaxPositionY == (gHeight - 1) \div FONT_HEIGHT

\* Faulty: the height of the glyphs on the line is forgotten.
LastLineForgetsScale == MaxPositionY

LastLine == MaxPositionY - SCALE_FACTOR

\* Faulty: one column too many.
RowIsFullLate(column) == column > Columns

RowIsFull(column) == column >= Columns

\* The pixels of a glyph at a position: FbConDrawglyph paints all of them.
Left(column) == column * SCALE_FACTOR * (FONT_WIDTH + 1)
Right(column) == Left(column) + FONT_WIDTH * SCALE_FACTOR
Upper(row) == row * FONT_HEIGHT
Lower(row) == Upper(row) + FONT_HEIGHT * SCALE_FACTOR

-----------------------------------------------------------------------------
SerialPortInitialize ==
  /\ stack = <<>>
  /\ ~initialized
  /\ initialized' = TRUE
  /\ x' = 0
  /\ y' = 0
  /\ foreground' = "white"
  /\ UNCHANGED <<gWidth, gHeight, interrupts, stack, shown>>

Begin(critical, handler, length) ==
  stack' = Append(stack,
    [pc |-> "enter", critical |-> critical, handler |-> handler,
     left |-> length, char |-> "other", InterruptState |-> FALSE,
     intstate |-> FALSE, CurrentForeground |-> "none", breaks |-> Breaks,
     exposed |-> FALSE])

\* The caller runs with interrupts enabled or not.
Call(critical, length) ==
  /\ stack = <<>>
  /\ \E enabled \in BOOLEAN : interrupts' = enabled
  /\ Begin(critical, FALSE, length)
  /\ UNCHANGED <<gWidth, gHeight, initialized, x, y, foreground, shown>>

\* The handler, or an event it dispatches with interrupts enabled, prints.
Interrupt(critical, length) ==
  /\ stack # <<>>
  /\ Depth < MaxDepth
  /\ interrupts
  /\ \E enabled \in BOOLEAN : interrupts' = enabled
  /\ Begin(critical, TRUE, length)
  /\ UNCHANGED <<gWidth, gHeight, initialized, x, y, foreground, shown>>

\* Faulty: the colour is read after it was set.
ReadForegroundLate(color) == "yellow"

ReadForeground(color) == color

Enter ==
  /\ At("enter")
  /\ Becomes([Top EXCEPT !.pc = "disable", !.InterruptState = interrupts,
                         !.CurrentForeground = ReadForeground(foreground)])
  /\ UNCHANGED <<gWidth, gHeight, initialized, x, y, foreground, interrupts,
                 shown>>

Disable ==
  /\ At("disable")
  /\ interrupts' = FALSE
  /\ foreground' = IF Top.critical THEN "yellow" ELSE foreground
  /\ Goto("loop")
  /\ UNCHANGED <<gWidth, gHeight, initialized, x, y, shown>>

NextCharacter ==
  /\ At("loop")
  /\ Top.left > 0
  /\ \E c \in Characters :
       Becomes([Top EXCEPT !.pc = "paint", !.char = c, !.left = Top.left - 1])
  /\ UNCHANGED <<gWidth, gHeight, initialized, x, y, foreground, interrupts,
                 shown>>

\* Faulty: interrupts are enabled whatever they were.
EnableAlways(saved) == TRUE

\* if (InterruptState) ArmEnableInterrupts ();
Restore(saved) == saved \/ interrupts

\* The last character: interrupted code gets its interrupts back in any case.
Return ==
  /\ At("loop")
  /\ Top.left = 0
  /\ foreground' = IF Top.critical THEN Top.CurrentForeground ELSE foreground
  /\ interrupts' = (Top.handler \/ Restore(Top.InterruptState))
  /\ stack' = SubSeq(stack, 1, Depth - 1)
  /\ UNCHANGED <<gWidth, gHeight, initialized, x, y, shown>>

-----------------------------------------------------------------------------
(* FbConPutCharWithFactor.                                                 *)
Ignored == \/ ~initialized
           \/ Top.char = "other"
           \/ Top.char = "space" /\ x = 0

Paint ==
  /\ At("paint")
  /\ IF Ignored THEN Goto("loop") /\ UNCHANGED x
     ELSE CASE Top.char = "LF" ->
                 /\ \E any \in BOOLEAN :
                      Becomes([Top EXCEPT !.pc = "newline", !.intstate = any,
                                          !.exposed = Top.exposed \/ any])
                 /\ UNCHANGED x
            [] Top.char = "CR" -> Goto("loop") /\ x' = 0
            [] OTHER -> Goto("glyph") /\ UNCHANGED x
  /\ UNCHANGED <<gWidth, gHeight, initialized, y, foreground, interrupts, shown>>

\* Interrupts are disabled while the glyph is painted and the position moves.
PaintGlyph ==
  /\ At("glyph")
  /\ shown' = TRUE
  /\ x' = x + 1
  /\ IF RowIsFull(x + 1)
       THEN /\ interrupts' = FALSE
            /\ Becomes([Top EXCEPT !.pc = "newline", !.intstate = interrupts])
       ELSE /\ interrupts' = interrupts
            /\ Becomes([Top EXCEPT !.pc = "loop", !.intstate = interrupts])
  /\ UNCHANGED <<gWidth, gHeight, initialized, y, foreground>>

NewLine ==
  /\ At("newline")
  /\ y' = y + SCALE_FACTOR
  /\ Goto("x")
  /\ UNCHANGED <<gWidth, gHeight, initialized, x, foreground, interrupts, shown>>

NewLineX ==
  /\ At("x")
  /\ x' = 0
  /\ Goto("check")
  /\ UNCHANGED <<gWidth, gHeight, initialized, y, foreground, interrupts, shown>>

CheckLastLine ==
  /\ At("check")
  /\ IF y >= LastLine
       THEN Goto("clear") /\ UNCHANGED interrupts
       ELSE Goto("loop") /\ interrupts' = Restore(Top.intstate)
  /\ UNCHANGED <<gWidth, gHeight, initialized, x, y, foreground, shown>>

ResetFb ==
  /\ At("clear")
  /\ shown' = FALSE
  /\ Goto("rewind")
  /\ UNCHANGED <<gWidth, gHeight, initialized, x, y, foreground, interrupts>>

\* Faulty: back to the last line instead of the first.
NoRewind(row) == row - SCALE_FACTOR

Rewound(row) == 0

\* Faulty: the character that did not fit is done with.
NoRepaint == "loop"

Repaint == "paint"

Rewind ==
  /\ At("rewind")
  /\ y' = Rewound(y)
  /\ interrupts' = Restore(Top.intstate)
  /\ Goto(Repaint)
  /\ UNCHANGED <<gWidth, gHeight, initialized, x, foreground, shown>>

-----------------------------------------------------------------------------
Init ==
  /\ gWidth \in Widths
  /\ gHeight \in Heights
  /\ initialized = FALSE
  /\ x = 0
  /\ y = 0
  /\ foreground = "none"
  /\ interrupts = TRUE
  /\ stack = <<>>
  /\ shown = TRUE

AnyInterrupt ==
  \E critical \in BOOLEAN, length \in 0..MaxText : Interrupt(critical, length)

Step == \/ Enter \/ Disable \/ NextCharacter \/ Return
        \/ Paint \/ PaintGlyph \/ NewLine \/ NewLineX \/ CheckLastLine
        \/ ResetFb \/ Rewind

Next ==
  \/ SerialPortInitialize
  \/ \E critical \in BOOLEAN, length \in 0..MaxText : Call(critical, length)
  \/ AnyInterrupt
  \/ Step

Spec == Init /\ [][Next]_vars

\* The processor goes on with the innermost write.
FairSpec == Spec /\ WF_vars(Step)

-----------------------------------------------------------------------------
\* A row is full only between the glyph that filled it and the reset of x,
\* which no interrupt gets between.  The cursor leaves the rows of text only
\* inside a line break, by its one step, and by one more for each line break
\* below that an interrupt has cut in two.
TypeOK ==
  /\ gWidth \in Widths
  /\ gHeight \in Heights
  /\ initialized \in BOOLEAN
  /\ x \in 0..Columns
  /\ y \in Nat
  /\ y < LastLine + SCALE_FACTOR * Breaks
  /\ foreground \in Colors
  /\ interrupts \in BOOLEAN
  /\ stack \in Seq(Write)
  /\ shown \in BOOLEAN
  /\ x = Columns => ~interrupts /\ (At("newline") \/ At("x"))

\* No glyph that is about to be painted leaves the screen.  Each line break
\* that an interrupt has cut in two may put the glyphs of its handler one line
\* lower, and no more: below one such break the last row of text may be one
\* that the screen has only a part of (on screens of 2560 rows it is, the
\* others are a whole number of rows of text high).
GlyphsStayOnScreen ==
  At("glyph") => /\ Right(x) <= gWidth
                 /\ Lower(y) <= Upper(MaxPositionY - 1 + Top.breaks * SCALE_FACTOR)

\* Once the last write has returned the console prints in white again, in
\* whatever order critical and common writes have interrupted one another.
ForegroundComesBack ==
  stack = <<>> /\ initialized => foreground = "white"

\* A printable character is on the screen when its write goes on to the next:
\* a screen that its last column filled is cleared before it is painted.
PrintedIsOnScreen ==
  [][At("loop")' /\ ~At("loop") /\ Len(stack') = Depth /\ initialized
     /\ Top.char = "printable" => shown']_vars

\* From where a write disables interrupts to its end none comes, and it returns
\* with interrupts as it found them, whatever it prints and whatever writes
\* have interrupted it before.  Excepted is a write that printed a '\n' and
\* found TRUE in the intstate that the jump left uninitialised: the code
\* enables interrupts in the middle of it, and never does so otherwise.
InterruptsAreKept ==
  /\ [](stack # <<>> /\ interrupts
          => Top.pc \in {"enter", "disable"} \/ Top.exposed)
  /\ [][Len(stack') < Depth /\ ~Top.handler =>
         /\ Top.InterruptState => interrupts'
         /\ ~Top.InterruptState /\ ~Top.exposed => ~interrupts']_vars

\* Unless interrupts keep coming, every write returns.
WritesReturn == []<>(stack = <<>>) \/ []<><<AnyInterrupt>>_vars
=============================================================================
