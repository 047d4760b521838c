----------------------------- MODULE TerminalBuffer -----------------------------
(***************************************************************************)
(* The screen of a terminal (terminal/buffer): bytes of a program's output *)
(* go through a parser of escape sequences, which moves the cursor,        *)
(* scrolls, erases and sets the look of what is written.  Rows and columns *)
(* are numbered from 0 as in the code.  A byte is the name of its          *)
(* character; "lead" and "cont" are the two of a longer one.               *)
(***************************************************************************)
EXTENDS Integers, Sequences, SequencesExt

CONSTANT MaxInt     \* the greatest of the machine's integers

\* A sum or product of integers as the machine keeps it.
Wrapped(n) ==
  IF n \in -MaxInt - 1..MaxInt THEN n ELSE ((n + MaxInt + 1) % (2 * (MaxInt + 1))) - (MaxInt + 1)

Digits   == <<"0", "1", "2", "3", "4", "5", "6", "7", "8", "9">>
Digit(c) == CHOOSE d \in 0..9 : Digits[d + 1] = c
Intermediate == {" ", "?", ":"}
High == {"lead", "cont", "ST"}

Least(m, n) == IF m < n THEN m ELSE n
Most(m, n)  == IF m > n THEN m ELSE n

-----------------------------------------------------------------------------
(* Buffer                                                                   *)

Plain   == [fg |-> "default", bg |-> "default", attrs |-> {}]
Blank   == [char |-> " ", look |-> Plain]
BlankRow(cols) == [x \in 0..cols - 1 |-> Blank]

Sized(rows, cols) ==
  [rows |-> rows, cols |-> cols, cells |-> [y \in 0..rows - 1 |-> BlankRow(cols)],
   x |-> 0, y |-> 0, look |-> Plain, top |-> 0, bottom |-> rows - 1, saved |-> [x |-> 0, y |-> 0],
   mode |-> "normal", params |-> <<>>, pending |-> <<>>, panic |-> FALSE]
NewBuffer(rows, cols) == Sized(IF rows > 0 THEN rows ELSE 24, IF cols > 0 THEN cols ELSE 80)

\* The rows of the region move up or down by one; the last or first is blank.
ScrollUp(b) ==
  IF b.bottom \notin DOMAIN b.cells THEN [b EXCEPT !.panic = TRUE]
  ELSE [b EXCEPT !.cells = [y \in DOMAIN @ |-> CASE y \in b.top..b.bottom - 1 -> @[y + 1]
                                                [] y = b.bottom -> BlankRow(b.cols)
                                                [] OTHER -> @[y]]]
ScrollDown(b) ==
  IF b.top \notin DOMAIN b.cells THEN [b EXCEPT !.panic = TRUE]
  ELSE [b EXCEPT !.cells = [y \in DOMAIN @ |-> CASE y = b.top -> BlankRow(b.cols)
                                                [] y \in b.top + 1..b.bottom -> @[y - 1]
                                                [] OTHER -> @[y]]]

\* A cursor that has left the region below it makes it scroll.
Below(b) == IF b.y > b.bottom THEN [ScrollUp(b) EXCEPT !.y = b.bottom] ELSE b

LineFeed(b)       == Below([b EXCEPT !.y = @ + 1])
CarriageReturn(b) == [b EXCEPT !.x = 0]
Backspace(b)      == [b EXCEPT !.x = Most(@ - 1, 0)]
Tab(b)            == [b EXCEPT !.x = Least((@ \div 8 + 1) * 8, b.cols - 1)]
ReverseFeed(b) ==
  IF b.y - 1 < b.top THEN [ScrollDown(b) EXCEPT !.y = b.top] ELSE [b EXCEPT !.y = @ - 1]

OnScreen(b) == b.x \in 0..b.cols - 1 /\ b.y \in 0..b.rows - 1

\* Mutant of WriteRune: the line is one column too long.
WriteRuneLate(b, c) ==
  IF ~OnScreen(b) THEN b
  ELSE LET put == [b EXCEPT !.cells[b.y][b.x] = [char |-> c, look |-> b.look], !.x = @ + 1]
       IN IF put.x > b.cols THEN Below([put EXCEPT !.x = 0, !.y = @ + 1]) ELSE put

WriteRune(b, c) ==
  IF ~OnScreen(b) THEN b
  ELSE LET put == [b EXCEPT !.cells[b.y][b.x] = [char |-> c, look |-> b.look], !.x = @ + 1]
       IN IF put.x >= b.cols THEN Below([put EXCEPT !.x = 0, !.y = @ + 1]) ELSE put

Clear(b) == [b EXCEPT !.cells = [y \in DOMAIN @ |-> BlankRow(b.cols)], !.x = 0, !.y = 0]

SetCursor(b, x, y) == [b EXCEPT !.x = IF x \in 0..b.cols - 1 THEN x ELSE @,
                                !.y = IF y \in 0..b.rows - 1 THEN y ELSE @]
SaveCursor(b)    == [b EXCEPT !.saved = [x |-> b.x, y |-> b.y]]
RestoreCursor(b) == [b EXCEPT !.x = b.saved.x, !.y = b.saved.y]

SetScrollRegion(b, top, bottom) ==
  IF 0 <= top /\ top < b.rows /\ top <= bottom /\ bottom < b.rows
  THEN [b EXCEPT !.top = top, !.bottom = bottom] ELSE b

\* The region keeps its top, the saved cursor its place.
Resize(b, rows, cols) ==
  IF rows <= 0 \/ cols <= 0 THEN b
  ELSE [b EXCEPT !.cells = [y \in 0..rows - 1 |-> [x \in 0..cols - 1 |->
                              IF y < b.rows /\ x < b.cols THEN @[y][x] ELSE Blank]],
                 !.rows = rows, !.cols = cols, !.bottom = rows - 1,
                 !.x = Least(@, cols - 1), !.y = Least(@, rows - 1)]

-----------------------------------------------------------------------------
(* Parser: CSI                                                              *)

\* A parameter that is missing or 0 has its default.
Param(b, i, default) == IF i <= Len(b.params) /\ b.params[i] > 0 THEN b.params[i] ELSE default

Erase(b, places) ==
  IF ~(places \subseteq (0..b.cols - 1) \X (0..b.rows - 1)) THEN [b EXCEPT !.panic = TRUE]
  ELSE [b EXCEPT !.cells = [y \in DOMAIN @ |-> [x \in DOMAIN @[y] |->
                              IF <<x, y>> \in places THEN Blank ELSE @[y][x]]]]

LineFrom(b) == (b.x..b.cols - 1) \X {b.y}
LineTo(b)   == (0..b.x) \X {b.y}
EraseLine(b, mode) ==
  CASE mode = 0 -> Erase(b, LineFrom(b))
    [] mode = 1 -> Erase(b, LineTo(b))
    [] mode = 2 -> Erase(b, (0..b.cols - 1) \X {b.y})
    [] OTHER -> b
EraseDisplay(b, mode) ==
  CASE mode = 0 -> Erase(b, LineFrom(b) \cup ((0..b.cols - 1) \X (b.y + 1..b.rows - 1)))
    [] mode = 1 -> Erase(b, LineTo(b) \cup ((0..b.cols - 1) \X (0..b.y - 1)))
    [] mode \in {2, 3} -> Clear(b)
    [] OTHER -> b

\* Colours of the table of 256: sixteen named ones, a cube, and greys.
IndexColor(i) ==
  LET level(v) == IF v = 0 THEN 0 ELSE 55 + v * 40 IN
  CASE i < 16 -> <<i>>
    [] i \in 16..231 -> <<level((i - 16) \div 36), level(((i - 16) \div 6) % 6), level((i - 16) % 6)>>
    [] OTHER -> <<8 + (i - 232) * 10, 8 + (i - 232) * 10, 8 + (i - 232) * 10>>

Attribute == [n \in {1, 2, 3, 4, 5, 7, 8, 9} |-> {n}]
Removed   == [n \in {22, 23, 24, 25, 27, 28, 29} |-> IF n = 22 THEN {1, 2} ELSE {n - 20}]

\* 38 and 48 take the parameters that follow them: how many, and what they say.
Extended(params, i) ==
  LET type == params[i + 1] IN
  CASE i + 1 > Len(params) -> [skip |-> 0, color |-> "same"]
    [] i + 2 <= Len(params) /\ type = 5 -> [skip |-> 2, color |-> IndexColor(params[i + 2] % 256)]
    [] i + 4 <= Len(params) /\ type = 2 ->
         [skip |-> 4, color |-> <<params[i + 2] % 256, params[i + 3] % 256, params[i + 4] % 256>>]
    [] OTHER -> [skip |-> 1, color |-> "same"]

Colored(look, side, color) == IF color = "same" THEN look ELSE [look EXCEPT ![side] = color]

SetGraphics(look, params, i) ==
  LET n == params[i] IN
  CASE n = 0 -> Plain
    [] n \in DOMAIN Attribute -> [look EXCEPT !.attrs = @ \cup Attribute[n]]
    [] n \in DOMAIN Removed -> [look EXCEPT !.attrs = @ \ Removed[n]]
    [] n \in 30..37 -> [look EXCEPT !.fg = IndexColor(n - 30)]
    [] n \in 40..47 -> [look EXCEPT !.bg = IndexColor(n - 40)]
    [] n \in 90..97 -> [look EXCEPT !.fg = IndexColor(n - 82)]
    [] n \in 100..107 -> [look EXCEPT !.bg = IndexColor(n - 92)]
    [] n = 39 -> [look EXCEPT !.fg = "default"]
    [] n = 49 -> [look EXCEPT !.bg = "default"]
    [] n \in {38, 48} -> Colored(look, IF n = 38 THEN "fg" ELSE "bg", Extended(params, i).color)
    [] OTHER -> look

SetGraphicsMode(look, params) ==
  LET step(a, i) ==
        IF i < a.at THEN a
        ELSE [look |-> SetGraphics(a.look, params, i),
              at |-> i + 1 + (IF params[i] \in {38, 48} THEN Extended(params, i).skip ELSE 0)]
  IN FoldLeft(step, [look |-> look, at |-> 1], [i \in DOMAIN params |-> i]).look

ExecuteCSI(b0, cmd) ==
  LET b == [b0 EXCEPT !.params = IF @ = <<>> THEN <<0>> ELSE @, !.mode = "normal"]
      n == Param(b, 1, 1)
  IN CASE cmd = "A" -> [b EXCEPT !.y = Most(@ - n, 0)]
       [] cmd = "B" -> [b EXCEPT !.y = Least(Wrapped(@ + n), b.rows - 1)]
       [] cmd = "C" -> [b EXCEPT !.x = Least(Wrapped(@ + n), b.cols - 1)]
       [] cmd = "D" -> [b EXCEPT !.x = Most(@ - n, 0)]
       [] cmd \in {"H", "f"} -> [b EXCEPT !.y = Least(n - 1, b.rows - 1),
                                         !.x = Least(Param(b, 2, 1) - 1, b.cols - 1)]
       [] cmd = "J" -> EraseDisplay(b, Param(b, 1, 0))
       [] cmd = "K" -> EraseLine(b, Param(b, 1, 0))
       [] cmd = "m" -> [b EXCEPT !.look = SetGraphicsMode(@, b.params)]
       [] cmd = "r" -> SetScrollRegion(b, n - 1, Param(b, 2, b.rows) - 1)
       [] cmd = "s" -> SaveCursor(b)
       [] cmd = "u" -> RestoreCursor(b)
       [] OTHER -> b

InCSI(b, c) ==
  CASE c \in ToSet(Digits) ->
         LET open == IF b.params = <<>> THEN <<0>> ELSE b.params
         IN [b EXCEPT !.params = [open EXCEPT ![Len(open)] = Wrapped(@ * 10 + Digit(c))]]
    [] c = ";" -> [b EXCEPT !.params = Append(@, 0)]
    [] c \in Intermediate -> b
    [] OTHER -> ExecuteCSI(b, c)

-----------------------------------------------------------------------------
(* Parser: the rest                                                         *)

InEscape(b, c) ==
  LET n == [b EXCEPT !.mode = "normal"] IN
  CASE c = "[" -> [b EXCEPT !.mode = "csi"]
    [] c = "]" -> [b EXCEPT !.mode = "osc"]
    [] c = "M" -> ReverseFeed(n)
    [] c = "7" -> SaveCursor(n)
    [] c = "8" -> RestoreCursor(n)
    [] c = "c" -> [Clear(n) EXCEPT !.look = Plain]
    [] OTHER -> n

\* utf8.FullRune: a lead byte alone waits; what cannot become a character is one
\* replacement character.
InText(b, c) ==
  CASE c = "ESC" -> [b EXCEPT !.pending = <<>>, !.mode = "escape", !.params = <<>>]
    [] c = "LF"  -> LineFeed(b)
    [] c = "CR"  -> CarriageReturn(b)
    [] c = "BS"  -> Backspace(b)
    [] c = "TAB" -> Tab(b)
    [] c = "BEL" -> b
    [] c \in High /\ Append(b.pending, c) = <<"lead">> -> [b EXCEPT !.pending = <<c>>]
    [] c \in High /\ Append(b.pending, c) # <<"lead">> ->
         WriteRune([b EXCEPT !.pending = <<>>],
                   IF b.pending = <<"lead">> /\ c # "lead" THEN "wide" ELSE "replacement")
    [] OTHER -> WriteRune(b, c)

ProcessByte(b, c) ==
  CASE b.mode = "normal" -> InText(b, c)
    [] b.mode = "escape" -> InEscape(b, c)
    [] b.mode = "csi" -> InCSI(b, c)
    [] b.mode = "osc" -> IF c \in {"BEL", "ST"} THEN [b EXCEPT !.mode = "normal"] ELSE b

\* Nothing happens after a panic.
Write(b, bytes) == FoldLeft(LAMBDA a, c : IF a.panic THEN a ELSE ProcessByte(a, c), b, bytes)

Content(b) == [y \in 1..b.rows |-> [x \in 1..b.cols |-> b.cells[y - 1][x - 1].char]]

-----------------------------------------------------------------------------
(* ParseANSI: the text without its sequences, which end with a letter.      *)

Letters == {"A", "B", "C", "D", "H", "J", "K", "M", "c", "f", "m", "r", "s", "u", "x"}

ParseANSI(text) ==
  FoldLeft(LAMBDA a, c :
             CASE c = "ESC" -> [a EXCEPT !.escape = TRUE]
               [] c # "ESC" /\ a.escape -> [a EXCEPT !.escape = FALSE, !.csi = @ \/ c = "["]
               [] c # "ESC" /\ ~a.escape /\ a.csi -> [a EXCEPT !.csi = c \notin Letters]
               [] OTHER -> [a EXCEPT !.out = Append(@, c)],
           [escape |-> FALSE, csi |-> FALSE, out |-> <<>>], text).out
=============================================================================
