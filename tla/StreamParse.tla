------------------------------ MODULE StreamParse ------------------------------
(***************************************************************************)
(* What is made of an answer while it streams in: the JSON of a call's     *)
(* arguments (library/json), the calls of a batch put together from their  *)
(* pieces (provider/parser/native.go), and the thinking taken out of the   *)
(* text (provider/parser/parser.go).  Each is a fold over what arrives, so *)
(* where the stream is cut into tokens makes no difference.                *)
(***************************************************************************)
EXTENDS Naturals, Sequences, SequencesExt

-----------------------------------------------------------------------------
(* library/json.  A character is a string of one letter, except that the     *)
(* four digits of \u are one element: "high" and "low" surrogates, or "hex". *)
(* The values are nodes, named by their numbers; a kind that ends in "Slot"  *)
(* is one that is not complete.                                              *)

Digits   == {"1", "-"}
Blank    == {" "}
Keywords == {<<"t", "r", "u", "e">>, <<"n", "u", "l", "l">>, <<"f", "a", "l", "s", "e">>}
Letters  == {"t", "r", "u", "e", "n", "l", "f", "a", "s"}
Control  == [n |-> "newline", r |-> "return", t |-> "tab", b |-> "back", f |-> "feed"]

NewJson ==
  [mode |-> "default", text |-> <<>>, high |-> FALSE, isKey |-> FALSE, key |-> <<>>,
   types |-> <<>>, structs |-> <<>>, nodes |-> <<>>, current |-> 0, root |-> 0, stop |-> FALSE]

Fail(p) == [p EXCEPT !.stop = TRUE]
Node(kind, text) == [kind |-> kind, text |-> text, items |-> <<>>]

\* The types of the containers that are open; "key" and "value" are objects
\* that wait for one.
TopType(p) == IF p.types = <<>> THEN "none" ELSE Last(p.types)
SetTop(p, type) == [p EXCEPT !.types = Append(Front(p.types), type)]

PutItem(items, key, id) ==
  IF key = <<>> \/ \A i \in DOMAIN items : items[i].key # key
  THEN Append(items, [key |-> key, id |-> id])
  ELSE [i \in DOMAIN items |-> IF items[i].key = key THEN [key |-> key, id |-> id] ELSE items[i]]

\* A new node in the container that is open, or as the root.  (A key is held as
\* <<text>>, none as <<>>.)
Attach(p, node, as) ==
  LET id   == Len(p.nodes) + 1
      made == [p EXCEPT !.nodes = Append(@, node),
                        !.current = IF as = "slot" THEN id ELSE IF as = "value" THEN 0 ELSE @]
      open(q) == IF as # "container" THEN q
                 ELSE [q EXCEPT !.structs = Append(@, id),
                                !.types = Append(@, IF node.kind = "arraySlot" THEN "array" ELSE "key")]
      inside(key) == [made EXCEPT !.nodes[Last(p.structs)].items = PutItem(@, key, id)]
  IN IF p.structs = <<>>
     THEN LET rooted == [made EXCEPT !.root = IF @ = 0 \/ as = "value" THEN id ELSE @]
          IN IF as = "container" THEN open(rooted) ELSE [rooted EXCEPT !.structs = <<id>>]
     ELSE CASE TopType(p) = "array" -> open(inside(<<>>))
            [] TopType(p) = "value" /\ p.key # <<>> ->
                 LET placed == [inside(p.key) EXCEPT !.key = <<>>]
                 IN IF as = "container" THEN open(placed) ELSE SetTop(placed, "key")
            [] OTHER -> Fail(p)

PushContainer(p, kind) == Attach(p, Node(kind, <<>>), "container")
PushValue(p, node)     == Attach(p, node, "value")
BeginValueSlot(p)      == Attach(p, Node("stringSlot", <<>>), "slot")

\* A value is complete: it fills the slot it has, or becomes a node.
Finish(p, node) ==
  IF p.current # 0 THEN [p EXCEPT !.nodes[p.current] = node, !.current = 0]
  ELSE PushValue(p, node)

Preview(p) ==
  IF p.current = 0 THEN p ELSE [p EXCEPT !.nodes[p.current] = Node("stringSlot", p.text)]

EndString(p) ==
  LET q == [p EXCEPT !.mode = "default", !.text = <<>>]
  IN IF p.structs # <<>> /\ p.isKey THEN [q EXCEPT !.key = <<p.text>>, !.isKey = FALSE]
     ELSE Finish(q, Node("string", p.text))

InString(p, c) ==
  CASE p.high /\ c # "\\" -> Fail(p)
    [] c = "\\" -> [p EXCEPT !.mode = "escape"]
    [] c = "\"" /\ ~p.high -> EndString(p)
    [] OTHER -> Preview([p EXCEPT !.text = Append(@, c)])

InEscape(p, c) ==
  IF c = "u" THEN [p EXCEPT !.mode = "hex"]
  ELSE Preview([p EXCEPT !.mode = "string",
                         !.text = Append(@, IF c \in DOMAIN Control THEN Control[c] ELSE c)])

InHex(p, c) ==
  LET q == [p EXCEPT !.mode = "string"] IN
  CASE c \notin {"high", "low", "hex"} \/ (p.high /\ c # "low") -> Fail(p)
    [] p.high /\ c = "low" -> Preview([q EXCEPT !.high = FALSE, !.text = Append(@, "pair")])
    [] ~p.high /\ c = "high" -> Preview([q EXCEPT !.high = TRUE])
    [] ~p.high /\ c # "high" ->
         Preview([q EXCEPT !.text = Append(@, IF c = "low" THEN "replacement" ELSE c)])

\* ParseFloat; a number it refuses is kept as a string.
IsNumber(text) == Last(text) # "-" /\ \A i \in 2..Len(text) : text[i] # "-"
EndNumber(p) ==
  Finish([p EXCEPT !.mode = "default", !.text = <<>>],
         Node(IF IsNumber(p.text) THEN "number" ELSE "string", p.text))
EndKeyword(p) ==
  Finish([p EXCEPT !.mode = "default", !.text = <<>>], Node("keyword", p.text))

\* Mutant of Close: the object around goes on waiting for a value.
CloseWaits(p, type) ==
  IF TopType(p) # type THEN Fail(p)
  ELSE LET id == Last(p.structs)
       IN [p EXCEPT !.types = Front(@), !.structs = Front(@),
                    !.nodes[id].kind = IF type = "array" THEN "array" ELSE "object"]

Close(p, type) ==
  IF TopType(p) # type THEN Fail(p)
  ELSE LET id     == Last(p.structs)
           closed == [p EXCEPT !.types = Front(@), !.structs = Front(@),
                               !.nodes[id].kind = IF type = "array" THEN "array" ELSE "object"]
       IN IF TopType(closed) = "value" THEN SetTop(closed, "key") ELSE closed

InDefault(p, c) ==
  CASE c \in Blank -> p
    [] c = "{" -> PushContainer(p, "objectSlot")
    [] c = "[" -> PushContainer(p, "arraySlot")
    [] c = "}" -> Close(p, "key")
    [] c = "]" -> Close(p, "array")
    [] c = "\"" ->
         LET q == [p EXCEPT !.mode = "string", !.text = <<>>, !.isKey = TopType(p) = "key"]
         IN IF q.isKey THEN q ELSE BeginValueSlot(q)
    [] c \in {"n", "t", "f"} -> [p EXCEPT !.mode = "keyword", !.text = <<c>>]
    [] c = ":" -> IF TopType(p) = "key" THEN SetTop(p, "value") ELSE Fail(p)
    [] c = "," -> IF p.types = <<>> THEN Fail(p)
                  ELSE IF TopType(p) = "value" THEN SetTop(p, "key") ELSE p
    [] c \in Digits -> [p EXCEPT !.mode = "number", !.text = <<c>>]
    [] OTHER -> Fail(p)

\* AddToken, one character: a number ends with the character after it, which
\* is then looked at again.
AddChar(p, c) ==
  CASE p.stop -> p
    [] ~p.stop /\ p.mode = "string" -> InString(p, c)
    [] ~p.stop /\ p.mode = "escape" -> InEscape(p, c)
    [] ~p.stop /\ p.mode = "hex"    -> InHex(p, c)
    [] ~p.stop /\ p.mode = "number" ->
         IF c \in Digits THEN [p EXCEPT !.text = Append(@, c)]
         ELSE LET q == EndNumber(p) IN IF q.stop THEN q ELSE InDefault(q, c)
    [] ~p.stop /\ p.mode = "keyword" ->
         LET word == Append(p.text, c)
         IN IF c \notin Letters THEN Fail(p)
            ELSE IF word \in Keywords THEN EndKeyword([p EXCEPT !.text = word])
            ELSE [p EXCEPT !.text = word]
    [] ~p.stop /\ p.mode = "default" -> InDefault(p, c)

ParseJson(text) == FoldLeft(AddChar, NewJson, text)

\* DoneToken
DoneJson(p) ==
  LET q == IF p.mode = "number" THEN EndNumber(p) ELSE p
  IN IF \/ p.stop \/ p.mode \in {"string", "escape", "hex", "keyword"}
        \/ p.mode = "number" /\ ~IsNumber(p.text)
        \/ q.stop \/ q.types # <<>> \/ q.high
     THEN Fail(q) ELSE q

-----------------------------------------------------------------------------
(* NativeToolCallAccumulator.  A delta is [index, id, name, piece]: id and   *)
(* name are "" when it does not carry them, and piece is the number of       *)
(* characters of the arguments it brings; arguments are an object and        *)
(* complete when Whole characters have come.                                 *)

NewCall == [id |-> "", name |-> "", tool |-> FALSE, invalid |-> FALSE, got |-> 0, final |-> FALSE]
NewBatch == [calls |-> <<>>, order |-> <<>>, told |-> <<>>, error |-> FALSE]

\* What a tool is told of: [id, name, final]; the previews and the whole call.
Tell(b, index, final) ==
  [b EXCEPT !.told = Append(@, [id |-> b.calls[index].id, name |-> b.calls[index].name, final |-> final]),
            !.calls[index].final = final]

\* Mutant of Dispatch: it does not wait for the id.
DispatchUnnamed(b, index, whole) ==
  LET call == b.calls[index]
  IN IF call.got = 0 \/ ~call.tool \/ call.final THEN b ELSE Tell(b, index, call.got >= whole)

Dispatch(b, index, whole) ==
  LET call == b.calls[index]
  IN IF call.got = 0 \/ call.id = "" \/ ~call.tool \/ call.final THEN b
     ELSE Tell(b, index, call.got >= whole)

AddDelta(b, d, tools, whole) ==
  LET known == IF d.index \in DOMAIN b.calls THEN b
               ELSE [b EXCEPT !.calls = @ @@ d.index :> NewCall, !.order = Append(@, d.index)]
      old   == known.calls[d.index]
      call  == [old EXCEPT !.id = IF d.id = "" THEN @ ELSE d.id,
                           !.name = IF d.name = "" THEN @ ELSE d.name,
                           !.tool = @ \/ d.name \in tools,
                           !.invalid = @ \/ (d.name # "" /\ ~old.tool /\ d.name \notin tools)]
      named == [known EXCEPT !.calls[d.index] = call]
      fed   == [named EXCEPT !.calls[d.index].got = @ + d.piece]
  IN IF call.invalid \/ call.final THEN named
     ELSE Dispatch(fed, d.index, whole)

\* DoneToken: arguments that are not whole are an error.
DoneBatch(b, whole) ==
  LET left == SelectSeq(b.order, LAMBDA i : LET c == b.calls[i]
                                            IN ~c.invalid /\ ~c.final /\ c.got > 0)
  IN IF \E i \in DOMAIN left : b.calls[left[i]].got < whole THEN [b EXCEPT !.error = TRUE]
     ELSE FoldLeft(LAMBDA x, i : Dispatch(x, i, whole), b, left)

\* Origin: the calls as they are stored and executed.
Origin(b) ==
  LET final == SelectSeq(b.order, LAMBDA i : b.calls[i].final)
  IN [i \in DOMAIN final |-> [id |-> b.calls[final[i]].id, name |-> b.calls[final[i]].name]]

-----------------------------------------------------------------------------
(* The parser of <think>; "think" is one element, of length five.            *)

Size(cache) == FoldLeft(LAMBDA n, c : n + (IF c = "think" THEN 5 ELSE 1), 0, cache)
MaxTagLen == 6

\* out is what became of each character: "answer", "thinking" or "tag".
NewThink == [mode |-> "outside", cache |-> <<>>, think |-> FALSE, lineStart |-> TRUE, out |-> <<>>]

Emit(p, to, chars) == [p EXCEPT !.out = @ \o [i \in DOMAIN chars |-> [to |-> to, char |-> chars[i]]]]
Answer(p, chars)   == [Emit(p, "answer", chars) EXCEPT !.lineStart = Last(chars) = "newline"]
InTag(p, chars)    == Emit([p EXCEPT !.mode = "inTag", !.cache = <<>>], "thinking", chars)
Outside(p, chars)  ==
  [Emit([p EXCEPT !.mode = "outside", !.cache = <<>>], "answer", chars) EXCEPT !.lineStart = FALSE]

\* Mutant of PossibleEnd: a < that begins no tag is lost.
PossibleEndDrops(p, c) ==
  IF c = "/" THEN [p EXCEPT !.mode = "endTag", !.cache = <<>>] ELSE InTag(p, <<c>>)

PossibleEnd(p, c) ==
  IF c = "/" THEN [p EXCEPT !.mode = "endTag", !.cache = <<>>] ELSE InTag(p, <<"<", c>>)

EnterTag(p, c) ==
  LET cache == Append(p.cache, c) IN
  CASE c = ">" /\ p.cache = <<"think">> ->
         Emit([p EXCEPT !.mode = "inTag", !.think = TRUE, !.cache = <<>>], "tag", <<"<", "think", ">">>)
    [] c = ">" /\ p.cache # <<"think">> -> Outside(p, <<"<">> \o cache)
    [] c # ">" -> IF Size(cache) >= MaxTagLen THEN Outside(p, <<"<">> \o cache)
                  ELSE [p EXCEPT !.cache = cache]

EndTag(p, c) ==
  LET cache == Append(p.cache, c) IN
  CASE c = ">" /\ p.cache = <<"think">> ->
         [Emit([p EXCEPT !.mode = "outside", !.think = FALSE, !.cache = <<>>], "tag",
               <<"<", "/", "think", ">">>) EXCEPT !.lineStart = FALSE]
    [] c = ">" /\ p.cache # <<"think">> -> InTag(p, <<"<", "/">> \o cache)
    [] c # ">" -> IF Size(cache) >= MaxTagLen THEN InTag(p, <<"<", "/">> \o cache)
                  ELSE [p EXCEPT !.cache = cache]

AddText(p, c) ==
  CASE p.mode = "outside" ->
         IF p.lineStart /\ c = "<"
         THEN [p EXCEPT !.mode = "enterTag", !.cache = <<>>, !.lineStart = FALSE]
         ELSE Answer(p, <<c>>)
    [] p.mode = "enterTag" -> EnterTag(p, c)
    [] p.mode = "inTag" -> IF c = "<" THEN [p EXCEPT !.mode = "possibleEnd"] ELSE InTag(p, <<c>>)
    [] p.mode = "possibleEnd" -> PossibleEnd(p, c)
    [] p.mode = "endTag" -> EndTag(p, c)

DoneThink(p) ==
  CASE p.mode = "enterTag" -> Emit(p, "answer", <<"<">> \o p.cache)
    [] p.mode = "possibleEnd" -> Emit(p, "thinking", <<"<">>)
    [] p.mode = "endTag" -> Emit(p, "thinking", <<"<", "/">> \o p.cache)
    [] OTHER -> p

Thinking(text) == DoneThink(FoldLeft(AddText, NewThink, text))
=============================================================================
