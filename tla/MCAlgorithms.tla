----------------------------- MODULE MCAlgorithms -----------------------------
(***************************************************************************)
(* The pure algorithms against what they mean, on every input of small     *)
(* sets: a step picks the input of one of them.                            *)
(***************************************************************************)
EXTENDS TextEdits, StreamParse, ModelStream

Term == INSTANCE TerminalBuffer WITH MaxInt <- 1023
Tree == INSTANCE FileTree WITH MaxDepth <- 2, MaxChildrenNum <- 2, MaxNodeCount <- 6,
                             Hidden <- {8}, Sensitive <- {7}
Search == INSTANCE CodeSearch WITH StopWords <- {"the"}, NoVector <- 0
Ignore == INSTANCE IgnoreRules WITH SkipDirs <- {".git"}, Private <- {".env"}

Grep == INSTANCE SearchTool WITH DirBlacklists <- {".git", ".env"}, BinaryExts <- {"png"}

VARIABLE input

-----------------------------------------------------------------------------
(* Texts and edits                                                          *)

Lines == {<<>>, <<"a">>, <<"a", "b">>}
Texts == BoundedSeq(Lines, 2) \ {<<>>}
News  == {<<<<>>>>, <<<<"c">>>>, <<<<"c">>, <<>>>>, <<<<>>, <<"c">>>>, <<<<"c">>, <<"c">>, <<"c">>>>}

Positions(text) ==
  UNION {{[line |-> l, char |-> c] : c \in 0..Len(text[l + 1])} : l \in 0..Len(text) - 1}

\* applyTextEdits keeps what follows an edit only if its end is not the first
\* character of a line.
Edits(text) ==
  {e \in [start : Positions(text), end : Positions(text), new : News] :
     ~Later(e.start, e.end) /\ e.end.char > 0}

OneEdit  == UNION {[kind : {"edit"}, text : {t}, edits : {<<e>> : e \in Edits(t)}] : t \in Texts}
TwoEdits ==
  UNION {[kind : {"edit"}, text : {t},
          edits : {s \in {<<e, f>> : e, f \in Edits(t)} : Later(s[2].start, s[1].end)}]
           : t \in {<<<<"a", "b">>>>, <<<<"a">>, <<"a">>>>}}

Files == BoundedSeq({"a", "b"}, 6)
Diff  == [kind : {"diff"}, old : Files, new : Files]

File4   == BoundedSeq({<<>>, <<"a">>, <<"b">>}, 4) \ {<<>>}
Replace == [kind : {"replace"}, lines : File4, from : 1..4, to : 1..4,
            text : BoundedSeq({<<>>, <<"c">>}, 2) \ {<<>>}]

-----------------------------------------------------------------------------
(* The code base: searches, and what is read                                *)

Contents == {[words |-> w, bm25 |-> b, dist |-> d] : w \in {{"read"}}, b \in {-2, -1}, d \in 0..2}
            \cup {[words |-> {}, bm25 |-> -1, dist |-> d] : d \in 1..2}
Searches ==
  [kind : {"search"}, bodies : [1..3 -> Contents], query : {<<"the", "read", "read">>, <<"the">>},
   limit : 1..2, threshold : 0..1, failed : {{}, {"words"}, {"vector"}}]

\* Rules of the root that take nothing back, and bare ones of a folder in it.
RootRule ==
  {Ignore!Rule(n, FALSE, d, r) :
     n \in {<<"a">>, <<"f">>, <<"*">>, <<"a", "f">>, <<"a", "*">>, <<"**", "f">>, <<"a", "**">>,
            <<"a", "**", "f">>, <<"b", "f">>},
     d \in BOOLEAN, r \in BOOLEAN}
FolderRule == {Ignore!Rule(<<n>>, FALSE, d, FALSE) : n \in {"b", "f"}, d \in BOOLEAN}
Ignores ==
  [kind : {"ignore"}, root : BoundedSeq(RootRule, 1) \cup {<<r, s>> : r, s \in {q \in RootRule : ~q.rooted}},
   folder : BoundedSeq(FolderRule, 1)]
Tree3 == {<<"f">>, <<"g">>, <<"a", "f">>, <<"a", "g">>, <<"a", "b", "f">>, <<"a", "b", "g">>, <<"b", "f">>,
          <<".git", "g">>, <<"a", ".env">>}

\* The search tool: two files beside one that git ignores, every short query.
GrepLines   == {<<"a">>, <<"a", "b">>, <<"b", "a">>, <<".">>, <<"a", ".", "b">>, <<"/", "a", "/">>}
GrepQueries == (BoundedSeq({"a", "b", ".", "*", "?"}, 2) \ {<<>>})
                 \cup {<<"a", "*", "b">>, <<"*", ".", "?">>, <<"/", "a", "/">>, <<"/", "a", "/", "i">>, <<"/", "/">>}
GrepFiles(one, two) ==
  <<[path |-> <<"f">>, lines |-> one], [path |-> <<"g", "f">>, lines |-> <<<<"a">>>>],
    [path |-> <<"h">>, lines |-> two]>>
Greps ==
  [kind : {"grep"}, one : BoundedSeq(GrepLines, 2), two : {<<<<"a", ".", "b">>>>, <<<<"b", "a">>>>},
   query : GrepQueries, compiles : {TRUE}, share : {1, 2, 4},
   index : {<<FALSE, TRUE, FALSE>>, <<TRUE, TRUE, TRUE, TRUE>>}]
  \cup [kind : {"grep"}, one : {<<l>> : l \in GrepLines}, two : {<<<<"a">>>>}, query : {<<"/", "a", "/">>},
        compiles : {FALSE}, share : {1, 4}, index : {<<>>}]

-----------------------------------------------------------------------------
(* Streams                                                                  *)

\* Values and their texts: a string is written with escapes, the items of a
\* container follow each other.  All have the same fields, so that TLC can
\* compare them.
Doc(kind, text, of, source) == [kind |-> kind, text |-> text, of |-> of, source |-> source]
Scalars ==
  {Doc("string", <<>>, <<>>, <<"\"", "\"">>),
   Doc("string", <<"{", "a">>, <<>>, <<"\"", "{", "a", "\"">>),
   Doc("string", <<"\"", "newline">>, <<>>, <<"\"", "\\", "\"", "\\", "n", "\"">>),
   Doc("string", <<"pair", "hex">>, <<>>,
       <<"\"", "\\", "u", "high", "\\", "u", "low", "\\", "u", "hex", "\"">>),
   Doc("number", <<"-", "1">>, <<>>, <<"-", "1">>),
   Doc("keyword", <<"t", "r", "u", "e">>, <<>>, <<"t", "r", "u", "e">>)}

Comma(parts) == FoldLeft(LAMBDA t, part : t \o (IF t = <<>> THEN <<>> ELSE <<",", " ">>) \o part, <<>>, parts)
Names == <<<<"a">>, <<"b">>>>
Named(items) == [i \in DOMAIN items |-> <<"\"">> \o Names[i] \o <<"\"", ":">> \o items[i].source]
Item(key, doc) == [key |-> key, doc |-> [doc EXCEPT !.source = <<>>]]

Arrays(docs) ==
  {Doc("array", <<>>, [i \in DOMAIN items |-> Item(<<>>, items[i])],
       <<"[">> \o Comma([i \in DOMAIN items |-> items[i].source]) \o <<"]">>) : items \in BoundedSeq(docs, 2)}
Objects(docs) ==
  {Doc("object", <<>>, [i \in DOMAIN items |-> Item(<<Names[i]>>, items[i])],
       <<"{">> \o Comma(Named(items)) \o <<" ", "}">>) : items \in BoundedSeq(docs, 2)}

Flat == Arrays(Scalars) \cup Objects(Scalars)
Deep == {d \in Arrays({x \in Flat : Len(x.of) < 2} \cup Scalars) \cup Objects({x \in Flat : Len(x.of) < 2})  : d.of # <<>>}
Json == [kind : {"json"}, doc : Scalars \cup Flat \cup Deep]

RECURSIVE Value(_, _)
Value(p, id) ==
  LET node == p.nodes[id]
  IN Doc(node.kind, node.text,
         [i \in DOMAIN node.items |-> Item(node.items[i].key, Value(p, node.items[i].id))], <<>>)

\* part is what has come of whole.
RECURSIVE Preliminary(_, _)
Preliminary(part, whole) ==
  \/ part = whole
  \/ part.kind = "stringSlot" /\ whole.kind = "string" /\ IsPrefix(part.text, whole.text)
  \/ /\ <<part.kind, whole.kind>> \in {<<"objectSlot", "object">>, <<"arraySlot", "array">>}
     /\ Len(part.of) <= Len(whole.of)
     /\ \A i \in DOMAIN part.of :
          /\ part.of[i].key = whole.of[i].key
          /\ IF i < Len(part.of) THEN part.of[i].doc = whole.of[i].doc
             ELSE Preliminary(part.of[i].doc, whole.of[i].doc)

\* The deltas of two calls: the id, the name and each of the two characters of
\* the arguments in one of at most three deltas, or not at all.
Whole == 2
Tools == {"edit", "run"}
Carry == [id : 1..4, name : 1..4, first : 1..4, second : 1..4]
Sent(call, id, name, at) ==
  [n \in 1..3 |-> [index |-> call, id |-> IF at.id = n THEN id ELSE "",
                   name |-> IF at.name = n THEN name ELSE "",
                   piece |-> (IF at.first = n THEN 1 ELSE 0) + (IF at.second = n THEN 1 ELSE 0)]]
Streams ==
  [kind : {"calls"}, one : {a \in Carry : a.first <= a.second}, two : {[id |-> 1, name |-> 2, first |-> 2, second |-> 3],
                                           [id |-> 3, name |-> 1, first |-> 1, second |-> 2],
                                           [id |-> 1, name |-> 1, first |-> 1, second |-> 4]},
   name : {"edit", "unknown"}, oneAt : {s \in SUBSET (1..6) : Cardinality(s) = 3}]

Text == [kind : {"think"}, text : BoundedSeq({"<", "/", "think", ">", "newline", "a"}, 5)
                                   \cup {<<"<", "think", ">">> \o t : t \in BoundedSeq({"<", "/", "think", ">", "a"}, 5)}]

-----------------------------------------------------------------------------
(* Secrets                                                                  *)

\* The first match that ends is replaced, the longest of those that end there;
\* the rest of the text follows.
RECURSIVE Replaced(_, _)
Replaced(keys, text) ==
  LET at(k, e) == Len(k) <= e /\ SubSeq(text, e - Len(k) + 1, e) = k
      ends == {e \in DOMAIN text : \E k \in DOMAIN keys : at(k, e)}
  IN IF ends = {} THEN text
     ELSE LET e == Min(ends)
              k == CHOOSE x \in DOMAIN keys : at(x, e) /\ \A y \in DOMAIN keys : at(y, e) => Len(y) <= Len(x)
          IN SubSeq(text, 1, e - Len(k)) \o keys[k] \o Replaced(keys, SubSeq(text, e + 1, Len(text)))

Keywords3 == BoundedSeq({1, 2}, 3) \ {<<>>}
Restores == [kind : {"restore"}, keys : {[k \in {a, b} |-> <<7, Len(k)>>] : a, b \in Keywords3},
             text : BoundedSeq({1, 2}, 5)]

Plain == [content |-> <<>>, reasoning |-> <<>>, arguments |-> <<>>]
Deltas == {[Plain EXCEPT !.content = <<1>>, !.reasoning = <<1>>],
           [Plain EXCEPT !.content = <<2>>], [Plain EXCEPT !.reasoning = <<2, 1>>]}
EventLines == [kind : {"chunk"}, delta : Deltas]
                \cup [kind : {"half", "rest", "done", "error", "blank", "other"},
                      delta : {[Plain EXCEPT !.content = <<1>>]}]
Events == [kind : {"events"}, lines : BoundedSeq(EventLines, 4)]
TwoKeys == [k \in {<<1, 2>>, <<1, 1>>} |-> <<7, k[2]>>]

Body == [kind : {"body"}, delta : Deltas,
         start : {<<"{", "quote">>, <<"{", " ", "quote">>, <<" ", "{", "quote">>, <<"mark", " ", "{">>}]

\* Rows that another request has made; stretches that detectors find; what is drawn.
Row(type, text, fake) == [type |-> type, original |-> text, masked |-> fake]
Draws == {<<0, 0, 0, 0>>, <<1, 3, 2, 0>>, <<2, 0, 3, 1>>}
Found(text, types) == UNION {{SpanOf(text, i, j, type) : j \in i + 1..Len(text) + 1} : i \in DOMAIN text, type \in types}
Masks ==
  UNION {[kind : {"mask"}, text : {t}, draw : Draws,
          found : {{s, r} : s \in Found(t, {"apikey"}), r \in Found(t, {"apikey", "ip"})} \cup {{}},
          customs : {{}, {<<1>>, <<1, 2>>}, {<<2, 1>>, <<1, Symbol>>}},
          before : BOOLEAN,
          rows : {{}, {Row("apikey", <<1, 2>>, <<4, 1>>), Row("ip", <<2>>, <<3>>), Row("custom", <<1>>, <<4>>)}}]
           : t \in BoundedSeq({Symbol, 1, 2}, 3) \cup {<<1, 2, 1, 2>>, <<2, Symbol, 1, 2>>}}

-----------------------------------------------------------------------------
(* Texts with escape sequences                                              *)

Csi(parameters, cmd) == <<"ESC", "[">> \o parameters \o <<cmd>>
Shown == [kind : {"shown"},
          parts : BoundedSeq({<<"a">>, <<"[">>, <<"1">>, <<"ESC", "x">>, Csi(<<>>, "m"), Csi(<<"3", "8", ";", "5">>, "m"),
                              Csi(<<"?", "2">>, "m"), Csi(<<";">>, "m")}, 4)]

-----------------------------------------------------------------------------
(* Trees                                                                    *)

\* The folder and file names 1 and 2; files hold 11 and 12, those another
\* program puts there 13.
OnDisk(pairs) == [p \in {pair[1] : pair \in pairs} |-> (CHOOSE pair \in pairs : pair[1] = p)[2]]
Two    == {<<<<1>>, 11>>, <<<<2>>, 12>>}
Nested == {<<<<1>>, 0>>, <<<<1, 1>>, 11>>, <<<<2>>, 12>>}
Hides  == {<<<<1>>, 0>>, <<<<1, 1>>, 11>>, <<<<1, 8>>, 13>>, <<<<2>>, 0>>, <<<<2, 7>>, 12>>}
Change == {<<Two, Two>>, <<Nested, Nested>>, <<Hides, Hides>>,
           <<Nested, {<<<<1>>, 13>>, <<<<2>>, 12>>}>>,
           <<Nested, Nested \cup {<<<<1, 2>>, 13>>}>>,
           <<Nested, {<<<<1>>, 0>>, <<<<2>>, 12>>}>>,
           <<Nested, Nested \cup {<<<<1, 2>>, 0>>, <<<<1, 2, 1>>, 13>>}>>,
           <<Nested, Nested \cup {<<<<1, 2>>, 13>>, <<<<1, 7>>, 14>>}>>,
           <<Two, {<<<<1>>, 0>>, <<<<2>>, 12>>}>>,
           <<Two, {<<<<1>>, 0>>, <<<<1, 1>>, 13>>, <<<<2>>, 12>>}>>}

Written == [indent : 1..2, name : 1..2, id : {0, 1, 2, 99}]
Trees == UNION {[kind : {"tree"}, before : {OnDisk(c[1])}, now : {OnDisk(c[2])},
                 lines : {t \in BoundedSeq(Written, 3) : Len(t) = 3 => t[1].indent = 1 /\ \A i \in 1..3 : t[i].id # 99}] : c \in Change}

-----------------------------------------------------------------------------
NoInput == [kind |-> "none"]

\* First which algorithm, then its input: so the work is shared out.
Init == input = NoInput

Next ==
  \/ input = NoInput /\ input' \in [kind : {"turn"}, of : 1..15]
  \/ /\ input.kind = "turn"
     /\ \/ input.of = 1  /\ input' \in OneEdit \cup TwoEdits
        \/ input.of = 2  /\ input' \in Diff
        \/ input.of = 3  /\ input' \in Replace
        \/ input.of = 4  /\ input' \in Json
        \/ input.of = 5  /\ input' \in Streams
        \/ input.of = 6  /\ input' \in Text
        \/ input.of = 7  /\ input' \in Restores
        \/ input.of = 8  /\ input' \in Events
        \/ input.of = 9  /\ input' \in Body
        \/ input.of = 10 /\ input' \in Masks
        \/ input.of = 11 /\ input' \in Shown
        \/ input.of = 12 /\ input' \in Trees
        \/ input.of = 13 /\ input' \in Searches
        \/ input.of = 14 /\ input' \in Ignores
        \/ input.of = 15 /\ input' \in Greps

Spec == Init /\ [][Next]_input

-----------------------------------------------------------------------------
(* applyTextEdits does to the lines what the edits do to the characters.    *)
EditsExact ==
  input.kind = "edit" =>
    Chars(ApplyTextEdits(input.text, input.edits)) = EditedAll(input.text, input.edits)

\* The patch of the edit tool and the diff given to the model rebuild the new
\* text from the old one, and stand at the lines their headers name (UnifiedDiff
\* numbers an empty text from 1, which is left aside).
PatchRebuilds ==
  input.kind = "diff" =>
    /\ Rebuilds(input.old, input.new, BuildGitPatch(input.old, input.new))
    /\ input.old # <<>> /\ input.new # <<>> =>
         Rebuilds(input.old, input.new, <<UnifiedDiff(input.old, input.new)>>)

\* Lines replaced by @ln can be put back by @ln over the lines put in their
\* place; trailing blank lines are not kept by the tool.
ReplaceUndone ==
  LET put(lines, from, to, text) ==
        ProcessString(lines, [kind |-> "ln", from |-> from, to |-> to], text)
      done == put(input.lines, input.from, input.to, input.text)
  IN input.kind = "replace" =>
       /\ done = Failed <=> ~(input.from <= input.to /\ input.to <= Len(input.lines))
       /\ done # Failed /\ Last(input.lines) # <<>> /\ Last(input.text) # <<>> =>
            put(done, input.from, input.from + Len(input.text) - 1,
                SubSeq(input.lines, input.from, input.to)) = input.lines

\* What the edit tool did can be read from its report and taken back.
EditReported == PatchRebuilds /\ ReplaceUndone

\* A JSON text parsed character by character gives its value, and what is shown
\* of it on the way is always a beginning of that value, never complete before
\* the text is.
JsonExact ==
  input.kind = "json" =>
    LET text  == input.doc.source
        value == [input.doc EXCEPT !.source = <<>>]
        after(n) == ParseJson(SubSeq(text, 1, n))
        whole == DoneJson(after(Len(text)))
    IN /\ ~whole.stop /\ Value(whole, whole.root) = value
       /\ \A n \in 1..Len(text) - 1 :
            LET p == after(n) IN p.root # 0 => /\ Preliminary(Value(p, p.root), value)
                                              /\ Value(p, p.root) # value

\* Of the calls of a batch, whose pieces may come in any order and mixed with
\* each other's, each that has an id, a tool and whole arguments is completed
\* once, after its previews, and stored in the order of the first pieces; the
\* others are not, and arguments that stay open end the turn with an error.
CallsComplete ==
  input.kind = "calls" =>
    LET first  == Sent(1, "one", input.name, input.one)
        second == Sent(2, "two", "run", input.two)
        nth(n) == IF n \in input.oneAt THEN first[Cardinality(input.oneAt \cap 1..n)]
                  ELSE second[n - Cardinality(input.oneAt \cap 1..n)]
        fed    == FoldLeft(LAMBDA b, d : AddDelta(b, d, Tools, Whole), NewBatch, [n \in 1..6 |-> nth(n)])
        done   == DoneBatch(fed, Whole)
        open(at, name)  == /\ (name \in Tools \/ at.name = 4) /\ at.second = 4 /\ at.first < 4
        ready(at, name) == at.id < 4 /\ at.name < 4 /\ name \in Tools /\ at.second < 4
        order  == IF 1 \in input.oneAt THEN <<1, 2>> ELSE <<2, 1>>
        calls  == SelectSeq(order, LAMBDA i : IF i = 1 THEN ready(input.one, input.name)
                                             ELSE ready(input.two, "run"))
    IN /\ done.error = (open(input.one, input.name) \/ open(input.two, "run"))
       /\ ~done.error =>
            Origin(done) = [i \in DOMAIN calls |->
                              IF calls[i] = 1 THEN [id |-> "one", name |-> input.name]
                              ELSE [id |-> "two", name |-> "run"]]
       /\ \A i, j \in DOMAIN done.told :
            i < j /\ done.told[i].id = done.told[j].id => ~done.told[i].final

\* No character of an answer is lost or moved: each is shown as text or as
\* thinking, or belongs to a tag.
ThinkLossless ==
  input.kind = "think" =>
    LET out == Thinking(input.text).out
    IN /\ [i \in DOMAIN out |-> out[i].char] = input.text
       /\ \A i \in DOMAIN out : out[i].to = "thinking" => \E j \in 1..i : out[j].to = "tag"

\* The text of one line is shown on a screen as it is without its sequences.
LineShown ==
  input.kind = "shown" =>
    LET text == FlattenSeq(input.parts)
        b    == Term!Write(Term!NewBuffer(1, 5), text)
    IN SubSeq(Term!Content(b)[1], 1, b.x) = Term!ParseANSI(text)

\* The three parsers of a streamed answer understand what came, however it was cut,
\* and so does the parser of escape sequences.
ParsesWhatCame == JsonExact /\ CallsComplete /\ ThinkLossless /\ LineShown

\* A request that begins knows the rows of before, or is overtaken by the one that makes them.
Sending(i) ==
  [NewEngine(IF i.before THEN i.rows ELSE {}, i.customs, i.draw) EXCEPT !.rows = i.rows]

\* The answer that repeats what was sent, as it is shown.
SentBack(masked) ==
  LET back == StreamText(Replacements(masked.engine), NewReplacer, masked.text)
  IN  back.out \o FinishText(back.next)

\* What a request sends has a fake of the table's for every detected stretch and every custom
\* value that no earlier or longer one runs into, whichever request made it, unless each fake drawn was
\* refused; and the answer that repeats what was sent gives the original text, if the fakes
\* stand in it only where they were put (see MaskAlwaysRestored).
MaskRoundTrip ==
  input.kind = "mask" =>
    LET start  == Sending(input)
        masked == MaskText(start, input.text, input.found)
        places == Range(Masked(start, input.text, input.found))
        spans  == {s \in input.found \cup DetectCustom(input.text, input.customs) : ~IsFake(start.fakes, s.original)}
        first(s) == \A r \in spans : /\ r.start < s.start => r.end <= s.start
                                     /\ r.start = s.start => r.end <= s.end
        at(i, k) == i + Len(k) - 1 <= Len(masked.text) /\ SubSeq(masked.text, i, i + Len(k) - 1) = k
        apart == \A r \in masked.engine.fakes, i \in DOMAIN masked.text :
                   at(i, r.masked) => \E s \in places : s.start = i /\ s.original = r.original
        refused(s) == \A n \in 1..Tries :
                        LET fake == Fake(input.draw, s.original, n)
                        IN  fake = s.original \/ \E r \in masked.engine.rows : r.masked = fake
    IN /\ apart => SentBack(masked) = input.text
       /\ \A s \in spans : first(s) =>
            \/ refused(s)
            \/ \E r \in masked.engine.rows :
                 /\ r.original = s.original /\ r.masked # r.original
                 /\ at(s.start, r.masked)

\* The secrets in an answer are put back as if it had come in one piece, and
\* nothing shown early has to be taken back; a stream is a whole answer only if
\* it says so and every event before is good.
AnswerRestored ==
  /\ input.kind = "restore" =>
       LET whole == Replaced(input.keys, input.text)
           after(n) == StreamText(input.keys, NewReplacer, SubSeq(input.text, 1, n))
       IN /\ after(Len(input.text)).out \o FinishText(after(Len(input.text)).next) = whole
          /\ \A n \in DOMAIN input.text : /\ IsPrefix(after(n).out, whole)
                                          /\ Len(after(n).next.buf) <= MaxLen(input.keys)
  /\ input.kind = "events" =>
       LET lines  == SelectSeq(input.lines, LAMBDA l : l.kind # "other")
           ends   == {i \in DOMAIN lines : lines[i].kind = "done"}
           stop   == Min(ends)
           before == SubSeq(lines, 1, stop - 1)
           good(i) == CASE before[i].kind = "half" -> i < Len(before) /\ before[i + 1].kind = "rest"
                        [] before[i].kind = "rest" -> i > 1 /\ before[i - 1].kind = "half"
                        [] OTHER -> before[i].kind \in {"chunk", "blank"}
           apart(i) == before[i].kind \in {"chunk", "rest"} => i < Len(before) /\ before[i + 1].kind = "blank"
           whole  == /\ ends # {} /\ \A i \in DOMAIN before : good(i) /\ apart(i)
                     /\ stop = Len(lines) \/ lines[stop + 1].kind = "blank"
           text(field) == FoldLeft(LAMBDA t, l : t \o (IF l.kind \in {"chunk", "half"} THEN l.delta[field] ELSE <<>>),
                                   <<>>, before)
           answer == ReadEvents(TwoKeys, input.lines)
       IN /\ answer.error = "none" <=> whole
          /\ whole => \A field \in {"content", "reasoning"} :
                        answer.told[field] = Replaced(TwoKeys, text(field))

\* An edit of the tree that is reported done has made the disk what the lines
\* say, each file with what the file of its number held when the lines were
\* shown; one that is not done has lost nothing; and lines that are left as they
\* are change nothing.  (Of lines that no file hangs below and that invent no
\* number for a file that is there.)
TreeEditDone ==
  input.kind = "tree" =>
    LET kept    == Tree!BuildTree(input.before)
        now     == input.now
        done    == Tree!WriteTree(kept, input.before, now, <<Tree!RootLine>> \o input.lines)
        same    == Tree!WriteTree(kept, input.before, now, Tree!ShownText(kept, input.before, now))
        nodes   == Tree!BuildNodeFromString(<<Tree!RootLine>> \o input.lines).nodes
        meant(id) == {n.path : n \in {m \in Tree!Files(kept) : m.id = id /\ m.path \in DOMAIN now /\ now[m.path] # 0}}
        held(id)  == CASE id = 0 -> 0
                       [] meant(id) # {} -> now[CHOOSE p \in meant(id) : TRUE]
                       [] OTHER -> Tree!Empty
        careful == /\ Tree!Seen(nodes) = nodes
                   /\ \A n \in Range(nodes) : n.id # 0 /\ meant(n.id) = {} => n.path \notin DOMAIN now
    IN /\ same.disk = now
       /\ careful /\ done.ok =>
            /\ Tree!Visible(done.disk) = Tree!Paths(Range(nodes))
            /\ \A n \in Range(nodes) : done.disk[n.path] = held(n.id)
       /\ careful /\ ~done.ok =>
            \A p \in DOMAIN now : now[p] # 0 => p \in DOMAIN done.disk /\ done.disk[p] = now[p]

\* A search's answer has each row that passed once, as many as there are up to the limit, or up
\* to twice the limit when one side failed and the other answers alone (search.go:335-354; the
\* "limit is the most that is returned" of search.go:200 does not hold there); what words found
\* stands before what only a vector found; and in either part nothing nearer stands behind
\* something farther or without a vector (search.go:278-284).
HybridMerges ==
  input.kind = "search" =>
    LET rows == {("id" :> i) @@ input.bodies[i] : i \in 1..3}
        hit(r)  == "read" \in r.words /\ input.query # <<"the">> /\ "words" \notin input.failed
        near(r) == r.dist # 0 /\ (input.threshold > 0 => r.dist <= input.threshold)
                     /\ "vector" \notin input.failed
        far(r)  == IF near(r) THEN r.dist ELSE Max({1} \cup {q.dist : q \in {t \in rows : near(t)}})
        answers == Search!SearchHybrid(rows, input.query,
                     [weight |-> 7, limit |-> input.limit, threshold |-> input.threshold, retention |-> 0],
                     input.failed)
    IN /\ answers # {}
       /\ \A s \in answers :
            /\ \A i, k \in DOMAIN s : i < k =>
                 /\ s[i] # s[k]
                 /\ hit(s[k]) => hit(s[i])
                 /\ hit(s[i]) = hit(s[k]) => far(s[i]) <= far(s[k])
            /\ Range(s) \subseteq {r \in rows : hit(r) \/ near(r)}
            /\ Len(s) = Min({IF input.failed = {} THEN input.limit ELSE 2 * input.limit,
                              Cardinality({r \in rows : hit(r) \/ near(r)})})

RECURSIVE Fits(_, _)
Fits(query, text) ==
  CASE query = <<>>      -> text = <<>>
    [] Head(query) = "*" -> \E n \in 0..Len(text) : Fits(Tail(query), SubSeq(text, n + 1, Len(text)))
    [] OTHER -> /\ text # <<>> /\ Head(query) \in {"?", Head(text)}
                /\ Fits(Tail(query), Tail(text))

\* The search tool shows the first lines that hold the query, * and ? standing for other text,
\* and none besides; what the index adds ends with three rows of chats or temporary files at
\* most, and an expression's answer is no longer than asked for (if two or more are).
GrepFindsFirst ==
  input.kind = "grep" =>
    LET files == GrepFiles(input.one, input.two)
        raw   == [compiles |-> input.compiles, finds |-> {l \in GrepLines : "a" \in ToSet(l)}]
        named == [i \in DOMAIN input.index |-> [id |-> i, tagged |-> input.index[i]]]
        answer == Grep!RunSearch(files, <<Ignore!Rule(<<"g">>, FALSE, TRUE, FALSE)>>, TRUE,
                                 input.query, raw, input.share, named)
        slashed == input.query[1] = "/" /\ Len(input.query) > 2
        expr == (slashed /\ input.compiles) \/ (~slashed /\ {"*", "?"} \cap ToSet(input.query) # {})
        holds(line) == IF slashed /\ input.compiles THEN "a" \in ToSet(line)
                       ELSE \E i \in 1..Len(line) + 1, j \in 0..Len(line) : Fits(input.query, SubSeq(line, i, j))
        places(f) == SelectSeq([n \in DOMAIN files[f].lines |-> [path |-> files[f].path, line |-> n]],
                               LAMBDA h : holds(files[f].lines[h.line]))
    IN /\ IsPrefix(answer.grep, places(1) \o places(3))
       /\ Len(answer.grep) < Len(places(1) \o places(3)) => Len(answer.grep) >= (input.share * 4) \div 5
       /\ Len(answer.grep) <= input.share
       /\ \A i, k \in DOMAIN answer.context : i < k /\ answer.context[i].tagged => answer.context[k].tagged
       /\ Cardinality({i \in DOMAIN answer.context : answer.context[i].tagged}) <= 3
       /\ expr /\ input.share > 1 => Len(answer.grep) + Len(answer.context) <= input.share

\* Both searches, of the index and of the lines, answer with what they found in its order and
\* of the length they promise: the limit, or twice the limit of an index search on one side.
SearchMerges == HybridMerges /\ GrepFindsFirst

\* A file that git ignores, by the rules of the root or of its folder, is not
\* read into the index, and neither is one on the program's own lists
\* (index.go:658-659); nor does the search tool read one that the root's rules ignore.
IgnoredStaysOut ==
  input.kind = "ignore" =>
    LET ignore == (<<>> :> input.root) @@ (<<"a">> :> input.folder)
        listed(f) == f[1] = ".git" \/ f[Len(f)] = ".env"
    IN \A f \in Tree3 :
         /\ Ignore!Scanned(ignore, f) => ~Ignore!Ignored(ignore, f) /\ ~listed(f)
         /\ Grep!Searched(input.root, TRUE, f) => ~Ignore!Ignored(<<>> :> input.root, f) /\ ~listed(f)

\* "some gateways ignore stream=true and return ordinary JSON, which has to be
\* understood too" (openai.go:106).
PlainJsonUnderstood ==
  input.kind = "body" => ReadJsonBody(TwoKeys, input.start, input.delta).error = "none"

\* "a later request's value is replaced by a fake of the same format, and restored in the
\* answer" (custom.go:12): without the premise of MaskRoundTrip the code does not keep this.
\* With 80 masked as 37, "80 37" comes back as "80 80".
MaskAlwaysRestored ==
  input.kind = "mask" =>
    SentBack(MaskText(Sending(input), input.text, input.found)) = input.text

\* "independent states, so that streams are not put together wrongly"
\* (engine.go:32): the arguments of a call are what came as arguments.
ArgumentsApart ==
  input.kind = "restore" =>
    \A cut \in 0..Len(input.text) :
      LET first  == Restore(NewAnswer(input.keys), [Plain EXCEPT !.content = SubSeq(input.text, 1, cut)])
          second == Restore(first, [Plain EXCEPT !.arguments = SubSeq(input.text, cut + 1, Len(input.text))])
      IN second.told.arguments = Replaced(input.keys, SubSeq(input.text, cut + 1, Len(input.text)))
=============================================================================
