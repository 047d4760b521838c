------------------------------ MODULE ModelStream ------------------------------
(***************************************************************************)
(* What SimpleOpenAIRequest (provider/request/openai.go) makes of the      *)
(* body of an answer: lines of a stream of events, or one JSON text, with  *)
(* the secrets put back in the texts of its deltas.  A line is [kind,      *)
(* deltas]; a delta has the texts for the answer, the thinking and the     *)
(* arguments of a call.                                                    *)
(***************************************************************************)
EXTENDS Masking

NewAnswer(keys) ==
  [keys |-> keys, content |-> NewReplacer, reasoning |-> NewReplacer,
   told |-> [content |-> <<>>, reasoning |-> <<>>, arguments |-> <<>>],
   data |-> <<>>, done |-> FALSE, seenSSE |-> FALSE, error |-> "none"]

\* Which of the two replacers restores a text.
ReplacerOf(field) == IF field = "reasoning" THEN "reasoning" ELSE "content"

\* restoreChatResponse: a text goes through its replacer, in the order of the
\* fields, and the callback is told what comes out.
Restore(a, delta) ==
  FoldLeft(LAMBDA b, field :
             LET fed == StreamText(b.keys, b[ReplacerOf(field)], delta[field])
             IN [b EXCEPT ![ReplacerOf(field)] = fed.next, !.told[field] = @ \o fed.out],
           a, <<"content", "reasoning", "arguments">>)

\* What is left in the two replacers is told as answer and as thinking.
FinishRestore(a) ==
  [a EXCEPT !.told.content = @ \o FinishText(a.content),
            !.told.reasoning = @ \o FinishText(a.reasoning),
            !.content = NewReplacer, !.reasoning = NewReplacer]

StreamError(a, error) == [a EXCEPT !.error = error]

\* The lines of data of one event, joined: halves of a JSON text make one.
DispatchEvent(a) ==
  LET kinds == [i \in DOMAIN a.data |-> a.data[i].kind]
      b == [a EXCEPT !.data = <<>>]
  IN CASE kinds = <<>> -> a
       [] kinds = <<"done">> -> [b EXCEPT !.done = TRUE]
       [] kinds = <<"error">> -> StreamError(b, "api")
       [] kinds = <<"chunk">> -> Restore(b, a.data[1].delta)
       [] kinds = <<"half", "rest">> -> Restore(b, a.data[1].delta)
       [] OTHER -> StreamError(b, "unmarshal")

\* A line of the stream; other lines (comments, names of events) are ignored.
ReadLine(a, line) ==
  CASE a.done \/ a.error # "none" -> a
    [] line.kind = "blank" -> DispatchEvent(a)
    [] line.kind = "other" -> a
    [] OTHER -> [a EXCEPT !.seenSSE = TRUE, !.data = Append(@, line)]

\* Mutant of EndOfStream: a stream that just stops is taken for a whole one.
EndOfStreamTrusts(a) ==
  LET b == IF a.done \/ a.error # "none" THEN a ELSE DispatchEvent(a)
  IN IF b.error # "none" THEN b ELSE FinishRestore(b)

EndOfStream(a) ==
  LET b == IF a.done \/ a.error # "none" THEN a ELSE DispatchEvent(a)
  IN CASE b.error # "none" -> b
       [] b.error = "none" /\ ~b.done -> StreamError(b, IF b.seenSSE THEN "unexpected EOF" ELSE "empty")
       [] OTHER -> FinishRestore(b)

ReadEvents(keys, lines) == EndOfStream(FoldLeft(ReadLine, NewAnswer(keys), lines))

\* readResponsePrefix: the character it goes by.  The very first one is only
\* kept, or looked at for a byte order mark; the next one that is not blank is
\* taken.
FirstOf(start) ==
  LET rest == SelectSeq(Tail(start), LAMBDA c : c # " ")
  IN IF rest = <<>> THEN "none" ELSE Head(rest)

\* start is how the body begins: the first characters, of which the first may be
\* the "mark"; deltas is what it says as one JSON text.
ReadJsonBody(keys, start, delta) ==
  CASE FirstOf(start) = "none" -> StreamError(NewAnswer(keys), "read")
    [] FirstOf(start) = "{" -> FinishRestore(Restore(NewAnswer(keys), delta))
    [] OTHER -> ReadEvents(keys, <<[kind |-> "other"]>>)
=============================================================================
