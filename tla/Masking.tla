-------------------------------- MODULE Masking --------------------------------
(***************************************************************************)
(* Secrets of a request and their fakes (provider/mask, library/           *)
(* ahocorasick): a text is masked before it is sent, and what the model    *)
(* answers is put back while it streams in.                                *)
(*                                                                         *)
(* Characters are numbers: Symbol is one that a fake keeps (a separator, a *)
(* known prefix of a key), 1..ClassSize are one class of the others, in    *)
(* the texts and fakes alike.  A fake is drawn at random: the engine's     *)
(* draw, an input, says what comes.  Two originals of the same length get  *)
(* the same draws, and a fake may be a text's own words or part of another.*)
(* Which stretches of a text look like secrets is an input: it is what the *)
(* regular expressions say.                                                *)
(***************************************************************************)
EXTENDS Naturals, FiniteSets, Sequences, SequencesExt, FiniteSetsExt, Functions

Symbol    == 0
ClassSize == 4
Tries     == 8

-----------------------------------------------------------------------------
(* The replacer: keys is a function from keywords to what replaces them.    *)

Nodes(keys)  == UNION {Prefixes(k) : k \in DOMAIN keys}
MaxLen(keys) == Max({0} \cup {Len(k) : k \in DOMAIN keys})

\* The longest end of s that is in the set.
LongestEnd(s, set) ==
  LET ends == {i \in 1..Len(s) + 1 : SubSeq(s, i, Len(s)) \in set}
  IN SubSeq(s, Min(ends), Len(s))

NewReplacer == [state |-> <<>>, buf |-> <<>>]

\* The trie with its fail links: from state by c to the longest end of both
\* that begins a keyword.
Delta(keys, state, c) == LongestEnd(Append(state, c), Nodes(keys) \cup {<<>>})

\* The longest keyword that ends here, or <<>>: the node itself, or its output.
Match(keys, state) == LongestEnd(state, DOMAIN keys \cup {<<>>})

\* What stands before a keyword, and what replaces it.
Flushed(keys, buf, match) == SubSeq(buf, 1, Len(buf) - Len(match)) \o keys[match]

\* One character: the replacer, and what it gives out.
Feed(keys, r, c) ==
  LET state == Delta(keys, r.state, c)
      buf   == Append(r.buf, c)
      match == Match(keys, state)
      kept  == Min({Len(buf), MaxLen(keys)})
  IN CASE match # <<>> -> [next |-> NewReplacer, out |-> Flushed(keys, buf, match)]
       [] match = <<>> /\ state = <<>> -> [next |-> NewReplacer, out |-> buf]
       [] OTHER -> [next |-> [state |-> state, buf |-> SubSeq(buf, Len(buf) - kept + 1, Len(buf))],
                    out  |-> SubSeq(buf, 1, Len(buf) - kept)]

StreamText(keys, r, text) ==
  FoldLeft(LAMBDA a, c : LET fed == Feed(keys, a.next, c)
                         IN [next |-> fed.next, out |-> a.out \o fed.out],
           [next |-> r, out |-> <<>>], text)

FinishText(r) == r.buf

-----------------------------------------------------------------------------
(* Masking.  A span has a start, an end (the first character after it), a   *)
(* type and the text it covers; rows are those of the table key_mappings,   *)
(* fakes what this engine knows of them.                                    *)

SpanOf(text, start, end, type) ==
  [start |-> start, end |-> end, type |-> type, original |-> SubSeq(text, start, end - 1)]

DetectCustom(text, customs) ==
  {SpanOf(text, i, i + Len(v), "custom") :
     <<i, v>> \in {p \in (DOMAIN text) \X customs :
                     p[1] + Len(p[2]) <= Len(text) + 1 /\ SubSeq(text, p[1], p[1] + Len(p[2]) - 1) = p[2]}}

IsFake(fakes, text) == \E row \in fakes : row.masked = text

\* Spans in order of their starts, the longer first; one that begins in the one
\* before it is dropped.  (sort.Slice leaves the order of equals open; those
\* differ in their types alone, and the least one is taken.)
ResolveSpans(spans, fakes) ==
  LET real == {s \in spans : ~IsFake(fakes, s.original)}
      types == <<"apikey", "custom", "ip">>
      rank(s) == CHOOSE i \in DOMAIN types : types[i] = s.type
      before(s, t) == \/ s.start < t.start
                      \/ s.start = t.start /\ s.end > t.end
                      \/ s.start = t.start /\ s.end = t.end /\ rank(s) < rank(t)
  IN FoldLeft(LAMBDA kept, s : IF kept = <<>> \/ s.start >= Last(kept).end THEN Append(kept, s) ELSE kept,
              <<>>, SetToSortSeq(real, before))

\* The n-th fake drawn: as long as the original, with its symbols, the rest of the same class.
Fake(draw, original, n) ==
  [i \in DOMAIN original |-> IF original[i] = Symbol THEN Symbol ELSE ((draw[i] + n) % ClassSize) + 1]

\* Mutant of Adopt: the mapping is used, but not known when the answer comes.
AdoptBlind(engine, row) == engine
Adopt(engine, row) == [engine EXCEPT !.fakes = @ \cup {row}]

\* A row is created unless one of the two unique indexes of the table refuses;
\* then the row another request made for the original is taken, or another fake
\* is drawn.
LookupOrCreate(engine, type, original) ==
  LET known(set) == {row \in set : row.type = type /\ row.original = original}
      try(e, n) ==
        LET fake == Fake(e.draw, original, n)
            row  == [type |-> type, original |-> original, masked |-> fake]
        IN IF e.found # <<>> \/ fake = original THEN e
           ELSE IF known(e.rows) # {}
                THEN LET old == CHOOSE r \in known(e.rows) : TRUE
                     IN [Adopt(e, old) EXCEPT !.found = old.masked]
                ELSE IF \E r \in e.rows : r.masked = fake THEN e
                     ELSE [Adopt(e, row) EXCEPT !.rows = @ \cup {row}, !.found = fake]
      tried == FoldLeft(try, [engine EXCEPT !.found = <<>>], [n \in 1..Tries |-> n])
  IN IF known(engine.fakes) # {}
     THEN [engine EXCEPT !.found = (CHOOSE r \in known(engine.fakes) : TRUE).masked]
     ELSE IF tried.found = <<>> THEN [tried EXCEPT !.found = original] ELSE tried

\* NewEngine: a request knows the rows and custom values it found at its start.
NewEngine(rows, customs, draw) ==
  [fakes |-> rows, rows |-> rows, customs |-> customs, draw |-> draw, found |-> <<>>]

\* What of a text is masked: the detected stretches, then those and the customs.
Masked(engine, text, detected) ==
  LET first == ResolveSpans(detected, engine.fakes)
  IN  IF engine.customs = {} THEN first
      ELSE ResolveSpans(Range(first) \cup DetectCustom(text, engine.customs), engine.fakes)

\* From right to left, so that the positions to the left stay what they were.
MaskText(engine, text, detected) ==
  LET put(a, s) ==
        LET e == LookupOrCreate(a.engine, s.type, s.original)
        IN [engine |-> e,
            text |-> SubSeq(a.text, 1, s.start - 1) \o e.found \o SubSeq(a.text, s.end, Len(a.text))]
  IN FoldLeft(put, [engine |-> engine, text |-> text], Reverse(Masked(engine, text, detected)))

\* The keywords of the replacers, once the messages of a request are masked.
Replacements(engine) ==
  [masked \in {row.masked : row \in engine.fakes} |->
     (CHOOSE row \in engine.fakes : row.masked = masked).original]
=============================================================================
