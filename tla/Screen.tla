-------------------------------- MODULE Screen --------------------------------
(***************************************************************************)
(* A terminal's buffer in use (terminal/buffer).  What a program prints    *)
(* comes in calls of Write, each of which goes through its bytes with the  *)
(* buffer locked; between two of them the buffer is resized or cleared, or *)
(* its cursor is set.                                                      *)
(***************************************************************************)
EXTENDS TerminalBuffer

CONSTANTS Printed,          \* what one Write may be given: sequences of bytes
          Extent,           \* numbers of rows or columns that are asked for
          MaxOps            \* bound: calls

VARIABLES buffer,
          output,           \* what is left of the Write that holds the lock
          gentle,           \* history: nothing has strained the buffer yet
          ops

screenVars == <<buffer, output, gentle, ops>>

TypeOK ==
  /\ output \in Seq(UNION {ToSet(text) : text \in Printed})
  /\ gentle \in BOOLEAN /\ ops \in 0..MaxOps
  /\ buffer.mode \in {"normal", "escape", "csi", "osc"}

Init ==
  /\ \E rows, cols \in Extent : buffer = NewBuffer(rows, cols)
  /\ output = <<>> /\ gentle = TRUE /\ ops = 0

-----------------------------------------------------------------------------
\* Two things strain it: a resize that cuts off the place that is kept or the top
\* of the region, and a movement of the cursor beyond the integers.
CutsOff(b, rows, cols) ==
  rows > 0 /\ cols > 0 /\ (b.saved.x >= cols \/ b.saved.y >= rows \/ b.top >= rows)
Overruns(b, c) ==
  b.mode = "csi" /\ \/ c = "B" /\ b.y + Param(b, 1, 1) > MaxInt
                    \/ c = "C" /\ b.x + Param(b, 1, 1) > MaxInt

\* The lock is free: no Write is in progress, and none has panicked.
Unlocked == output = <<>> /\ ~buffer.panic

Taken == Unlocked /\ ops < MaxOps /\ ops' = ops + 1

BeginWrite(bytes) ==
  /\ Taken
  /\ output' = bytes
  /\ UNCHANGED <<buffer, gentle>>

Byte ==
  /\ output # <<>> /\ ~buffer.panic
  /\ buffer' = ProcessByte(buffer, Head(output))
  /\ output' = Tail(output)
  /\ gentle' = (gentle /\ ~Overruns(buffer, Head(output)))
  /\ UNCHANGED ops

ResizeTo(rows, cols) ==
  /\ Taken
  /\ buffer' = Resize(buffer, rows, cols)
  /\ gentle' = (gentle /\ ~CutsOff(buffer, rows, cols))
  /\ UNCHANGED output

ClearAll ==
  /\ Taken
  /\ buffer' = Clear(buffer)
  /\ UNCHANGED <<output, gentle>>

MoveCursor(x, y) ==
  /\ Taken
  /\ buffer' = SetCursor(buffer, x, y)
  /\ UNCHANGED <<output, gentle>>

Next ==
  \/ \E bytes \in Printed : BeginWrite(bytes)
  \/ Byte
  \/ \E rows, cols \in Extent : ResizeTo(rows, cols)
  \/ ClearAll
  \/ \E x, y \in Extent : MoveCursor(x, y)

Spec == Init /\ [][Next]_screenVars

-----------------------------------------------------------------------------
\* Whatever a program prints, and whenever its screen is resized, cleared or its
\* cursor set, the cursor, the one that is kept and the region stay on the screen,
\* and no byte stops the reader: as long as nothing has strained the buffer.
ScreenSound ==
  gentle =>
    /\ ~buffer.panic
    /\ OnScreen(buffer)
    /\ buffer.saved.x \in 0..buffer.cols - 1 /\ buffer.saved.y \in 0..buffer.rows - 1
    /\ 0 <= buffer.top /\ buffer.top <= buffer.bottom /\ buffer.bottom < buffer.rows

\* The same without that condition: movements go "not beyond the edge"
\* (parser.go:181, 187), a resize "adjusts the place of the cursor"
\* (buffer.go:263).  The code does not keep it.
StaysInside == ~buffer.panic /\ OnScreen(buffer)
=============================================================================
