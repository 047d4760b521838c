------------------------------ MODULE TextEdits ------------------------------
(***************************************************************************)
(* What is done to the text of a file: the formatter's edits               *)
(* (context/lsp/format.go), the edit tool's targets and the patch it       *)
(* shows (tools/tools/edit/edit.go), and the diff given to the model       *)
(* (utils/diff.go).                                                        *)
(*                                                                         *)
(* A text is the sequence of its lines, a line the sequence of its         *)
(* characters.                                                             *)
(***************************************************************************)
EXTENDS Integers, Sequences, FiniteSets, FiniteSetsExt, SequencesExt

CONSTANT Context  \* ctx: lines of context around a change (3 in the code)

-----------------------------------------------------------------------------
(* applyTextEdits.  An edit is [start, end, new]; a position [line, char]   *)
(* counts from 0, new is the lines of its text.                             *)

Later(p, q) == p.line > q.line \/ (p.line = q.line /\ p.char > q.char)

\* The edits from the last start to the first.
SortEdits(edits) == SortSeq(edits, LAMBDA e, f : Later(e.start, f.start))

Prefix(lines, e) ==
  LET l == lines[e.start.line + 1] IN
  IF e.start.char > 0 /\ e.start.char <= Len(l) THEN SubSeq(l, 1, e.start.char) ELSE <<>>

\* Mutant of Suffix: the character before the end is kept too.
SuffixEarly(lines, e) ==
  LET l == lines[Min({e.end.line, Len(lines) - 1}) + 1] IN
  IF e.end.char > 0 /\ e.end.char <= Len(l) THEN SubSeq(l, e.end.char, Len(l)) ELSE <<>>

Suffix(lines, e) ==
  LET l == lines[Min({e.end.line, Len(lines) - 1}) + 1] IN
  IF e.end.char > 0 /\ e.end.char <= Len(l) THEN SubSeq(l, e.end.char + 1, Len(l)) ELSE <<>>

\* A start that is no line is skipped, an end that is none is the last line.
ApplyEdit(lines, e) ==
  LET n      == Len(e.new)
      middle == IF n = 1 THEN <<Prefix(lines, e) \o e.new[1] \o Suffix(lines, e)>>
                ELSE <<Prefix(lines, e) \o e.new[1]>> \o SubSeq(e.new, 2, n - 1)
                     \o <<e.new[n] \o Suffix(lines, e)>>
  IN IF e.start.line >= Len(lines) THEN lines
     ELSE SubSeq(lines, 1, e.start.line) \o middle
          \o SubSeq(lines, Min({e.end.line, Len(lines) - 1}) + 2, Len(lines))

ApplyTextEdits(lines, edits) == FoldLeft(ApplyEdit, lines, SortEdits(edits))

-----------------------------------------------------------------------------
(* ProcessString of the edit tool on an existing file: the new lines, or    *)
(* Failed.  lines are those the scanner reads; text is the lines of the     *)
(* parameter.                                                               *)

Failed == <<"error">>

Empty(text) == text = <<<<>>>>

\* A file of no lines splits into one empty line.
Split(lines) == IF lines = <<>> THEN <<<<>>>> ELSE lines

\* A last line that is blank has the content end with a line break, and the text
\* takes its place.
AppendText(lines, text) ==
  IF Empty(text) THEN lines
  ELSE IF lines # <<>> /\ Last(lines) = <<>> THEN Front(lines) \o text ELSE lines \o text

\* Mutant of LineReplace: the line after the range goes as well.
LineReplaceLong(lines, from, to, text) ==
  IF from > Len(lines) \/ to > Len(lines) \/ from > to THEN Failed
  ELSE SubSeq(lines, 1, from - 1) \o text \o SubSeq(lines, to + 2, Len(lines))

\* handleLineReplace; a first line of 0 is let through.
LineReplace(lines, from, to, text) ==
  IF from > Len(lines) \/ to > Len(lines) \/ from > to THEN Failed
  ELSE SubSeq(lines, 1, from - 1) \o text \o SubSeq(lines, to + 1, Len(lines))

LineInsert(lines, at, text) ==
  IF at < 1 \/ at > Len(lines) + 1 THEN Failed
  ELSE SubSeq(lines, 1, at - 1) \o text \o SubSeq(lines, at, Len(lines))

NormalizeTrailingNewline(lines) ==
  LET kept == {i \in DOMAIN lines : lines[i] # <<>>} IN
  IF kept = {} THEN <<<<>>>> ELSE SubSeq(lines, 1, Max(kept))

ProcessString(lines, target, text) ==
  LET new == CASE target.kind = "append" -> AppendText(lines, text)
               [] target.kind = "all"    -> text
               [] target.kind = "ln"     -> LineReplace(Split(lines), target.from, target.to, text)
               [] target.kind = "insert" -> LineInsert(Split(lines), target.from, text)
  IN IF new = Failed THEN Failed ELSE NormalizeTrailingNewline(new)

-----------------------------------------------------------------------------
(* lineDiff and buildGitPatch                                               *)

Op(kind, line) == [kind |-> kind, line |-> line]

\* dp[i, j]: the length of the longest common subsequence from lines i and j on.
CommonAfter(old, new) ==
  LET dp[i \in 1..Len(old) + 1, j \in 1..Len(new) + 1] ==
        IF i > Len(old) \/ j > Len(new) THEN 0
        ELSE IF old[i] = new[j] THEN dp[i + 1, j + 1] + 1
        ELSE Max({dp[i + 1, j], dp[i, j + 1]})
  IN dp

LineDiff(old, new) ==
  LET dp == CommonAfter(old, new)
      walk[i \in 1..Len(old) + 1, j \in 1..Len(new) + 1] ==
        IF i > Len(old) THEN [k \in 1..Len(new) - j + 1 |-> Op("+", new[j + k - 1])]
        ELSE IF j > Len(new) THEN [k \in 1..Len(old) - i + 1 |-> Op("-", old[i + k - 1])]
        ELSE IF old[i] = new[j] THEN <<Op(" ", old[i])>> \o walk[i + 1, j + 1]
        ELSE IF dp[i + 1, j] >= dp[i, j + 1] THEN <<Op("-", old[i])>> \o walk[i + 1, j]
        ELSE <<Op("+", new[j])>> \o walk[i, j + 1]
  IN walk[1, 1]

OldSide(ops) == SelectSeq(ops, LAMBDA o : o.kind # "+")
NewSide(ops) == SelectSeq(ops, LAMBDA o : o.kind # "-")
LinesOf(ops) == [i \in DOMAIN ops |-> ops[i].line]

\* Mutant of StartLine: a side without lines starts at the line after it.
StartLineAfter(before, side) == Len(before) + 1

\* A side without lines starts at the line before it.
StartLine(before, side) == IF side = <<>> THEN Len(before) ELSE Len(before) + 1

Hunk(ops, first, last) ==
  LET before == SubSeq(ops, 1, first - 1)
      body   == SubSeq(ops, first, last)
  IN [oldStart |-> StartLine(OldSide(before), OldSide(body)),
      newStart |-> StartLine(NewSide(before), NewSide(body)), ops |-> body]

\* Changes with at most 2 * Context lines between them share a hunk.
Hunks(ops) ==
  LET changed  == {i \in DOMAIN ops : ops[i].kind # " "}
      near(i, k) == k > i /\ k - i - 1 <= 2 * Context
      firsts   == {i \in changed : ~\E k \in changed : near(k, i)}
      lasts    == {i \in changed : ~\E k \in changed : near(i, k)}
      hunk(f)  == Hunk(ops, Max({f - Context, 1}),
                       Min({Min({l \in lasts : l >= f}) + Context, Len(ops)}))
      order    == SetToSortSeq(firsts, <)
  IN [h \in DOMAIN order |-> hunk(order[h])]

BuildGitPatch(old, new) == Hunks(LineDiff(old, new))

-----------------------------------------------------------------------------
(* UnifiedDiff: one hunk around everything that differs                     *)

CommonPrefix(old, new) ==
  Max({k \in 0..Min({Len(old), Len(new)}) : SubSeq(old, 1, k) = SubSeq(new, 1, k)})

\* The lines the prefix has taken are not taken again.
CommonSuffix(old, new, prefix) ==
  Max({k \in 0..Min({Len(old), Len(new)}) - prefix :
         SubSeq(old, Len(old) - k + 1, Len(old)) = SubSeq(new, Len(new) - k + 1, Len(new))})

\* l[i, j]: the longest common subsequence of the first i and j lines.
LcsDiffOps(a, b) ==
  LET l[i \in 0..Len(a), j \in 0..Len(b)] ==
        IF i = 0 \/ j = 0 THEN 0
        ELSE IF a[i] = b[j] THEN l[i - 1, j - 1] + 1
        ELSE Max({l[i - 1, j], l[i, j - 1]})
      back[i \in 0..Len(a), j \in 0..Len(b)] ==
        IF i = 0 THEN [k \in 1..j |-> Op("+", b[k])]
        ELSE IF j = 0 THEN [k \in 1..i |-> Op("-", a[k])]
        ELSE IF a[i] = b[j] THEN Append(back[i - 1, j - 1], Op(" ", a[i]))
        ELSE IF l[i - 1, j] >= l[i, j - 1] THEN Append(back[i - 1, j], Op("-", a[i]))
        ELSE Append(back[i, j - 1], Op("+", b[j]))
  IN back[Len(a), Len(b)]

Kept(lines) == [i \in DOMAIN lines |-> Op(" ", lines[i])]

UnifiedDiff(old, new) ==
  LET prefix == CommonPrefix(old, new)
      suffix == CommonSuffix(old, new, prefix)
      start  == Max({prefix - Context, 0})
      end    == Min({Len(old) - suffix + Context, Len(old)})
      ops    == LcsDiffOps(SubSeq(old, prefix + 1, Len(old) - suffix),
                           SubSeq(new, prefix + 1, Len(new) - suffix))
  IN [oldStart |-> start + 1, newStart |-> start + 1,
      ops |-> Kept(SubSeq(old, start + 1, prefix)) \o ops
              \o Kept(SubSeq(old, Len(old) - suffix + 1, end))]

-----------------------------------------------------------------------------
(* What they mean                                                           *)

\* The characters of a text, line breaks as the character Break.
Break == "nl"
Chars(lines) == FoldLeft(LAMBDA s, l : s \o <<Break>> \o l, Head(lines), Tail(lines))
Offset(lines, p) == Len(Chars(SubSeq(lines, 1, p.line + 1))) - Len(lines[p.line + 1]) + p.char

\* One edit done to the characters of the text.
Edited(lines, e) ==
  LET s == Chars(lines) IN
  SubSeq(s, 1, Offset(lines, e.start)) \o Chars(e.new)
    \o SubSeq(s, Offset(lines, e.end) + 1, Len(s))

\* Edits given from the first to the last, none touching another.
EditedAll(lines, edits) ==
  LET s  == Chars(lines)
      e  == edits[1]
      f  == Last(edits)
  IN IF Len(edits) = 1 THEN Edited(lines, e)
     ELSE SubSeq(s, 1, Offset(lines, e.start)) \o Chars(e.new)
          \o SubSeq(s, Offset(lines, e.end) + 1, Offset(lines, f.start)) \o Chars(f.new)
          \o SubSeq(s, Offset(lines, f.end) + 1, Len(s))

\* A hunk put in place of the old lines it names.
Patched(lines, h) ==
  LET old == LinesOf(OldSide(h.ops))
      at  == IF old = <<>> THEN h.oldStart ELSE h.oldStart - 1
  IN SubSeq(lines, 1, at) \o LinesOf(NewSide(h.ops)) \o SubSeq(lines, at + Len(old) + 1, Len(lines))

\* The hunk's lines stand where its header says, in the old text and in the new;
\* a side without lines names the line it follows.
InPlace(lines, start, side) ==
  IF side = <<>> THEN start \in 0..Len(lines)
  ELSE /\ start >= 1 /\ start + Len(side) - 1 <= Len(lines)
       /\ SubSeq(lines, start, start + Len(side) - 1) = LinesOf(side)

Rebuilds(old, new, hunks) ==
  /\ \A i \in DOMAIN hunks :
       /\ InPlace(old, hunks[i].oldStart, OldSide(hunks[i].ops))
       /\ InPlace(new, hunks[i].newStart, NewSide(hunks[i].ops))
  /\ FoldRight(LAMBDA h, lines : Patched(lines, h), hunks, old) = new
=============================================================================
