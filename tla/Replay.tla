------------------------------- MODULE Replay -------------------------------
(***************************************************************************)
(* How the stored history of a session becomes the messages of a request   *)
(* (provider/request/build/request.go and summary.go), and how they are    *)
(* rearranged for proxies that convert tool results one by one             *)
(* (splitMultiToolCalls, provider/request/request.go).                     *)
(*                                                                         *)
(* A row of the history is                                                 *)
(*   [agent, kind, text, calls, results, summary]                          *)
(* where calls and results are sequences of call ids, text says that the   *)
(* row has content and summary that it carries a summary.                  *)
(*                                                                         *)
(* A request is a set of messages, each of which knows its place in it:    *)
(*   [role, row, place, part, calls, answers, real]                        *)
(* row is the row it stands for, place tells apart what comes of one row,  *)
(* part what splitting makes of one message.  answers is the call a tool   *)
(* message answers, real is FALSE for the placeholder of a call without    *)
(* result.                                                                 *)
(***************************************************************************)
EXTENDS Integers, Sequences, FiniteSets, FiniteSetsExt, SequencesExt

CONSTANTS Window,  \* maxPage * readPageSize: rows read from the database
          Keep,    \* summaryKeepNumber: the newest rows a summary spares
          Main     \* the agent code "" of the main conversation

-----------------------------------------------------------------------------
(* RequestBody                                                              *)

\* The rows of the agent that are read: the newest Window of them.
Rows(history, agent) ==
  LET own == {i \in DOMAIN history : history[i].agent = agent}
  IN [i \in {k \in own : Cardinality({j \in own : j > k}) < Window} |-> history[i]]

\* The row the scan for ids stops at: the newest with a summary, or 0.
Boundary(rows) ==
  LET summed == {i \in DOMAIN rows : rows[i].summary}
  IN IF summed = {} THEN 0 ELSE Max(summed)

Scanned(rows) == {i \in DOMAIN rows : i > Boundary(rows)}

CallIds(rows)   == UNION {ToSet(rows[i].calls) : i \in Scanned(rows)}
ResultIds(rows) == UNION {ToSet(rows[i].results) : i \in Scanned(rows)}

ToMessage(role, row, place, calls, answers, real) ==
  [role |-> role, row |-> row, place |-> place, part |-> 0, calls |-> calls,
   answers |-> answers, real |-> real]

\* An assistant without text or calls is skipped; a call without a result
\* is answered by a placeholder right after it.
RenderAgent(rows, i) ==
  LET calls   == rows[i].calls
      missing == {k \in DOMAIN calls : calls[k] \notin ResultIds(rows)}
  IN IF ~rows[i].text /\ calls = <<>> THEN {}
     ELSE {ToMessage("assistant", i, 0, calls, 0, TRUE)}
            \cup {ToMessage("tool", i, k, <<>>, calls[k], FALSE) : k \in missing}

\* Mutant of RenderResults: results are not checked against the replayed calls.
RenderOrphans(rows, i) ==
  {ToMessage("tool", i, k, <<>>, rows[i].results[k], TRUE) : k \in DOMAIN rows[i].results}

\* One tool message per result whose call is replayed.
RenderResults(rows, i) ==
  LET results == rows[i].results
      kept    == {k \in DOMAIN results : results[k] \in CallIds(rows)}
  IN {ToMessage("tool", i, k, <<>>, results[k], TRUE) : k \in kept}

Render(rows, i) ==
  CASE rows[i].kind = "tool" -> RenderResults(rows, i)
    [] rows[i].kind # "tool" /\ rows[i].summary -> {ToMessage("summary", i, 0, <<>>, 0, TRUE)}
    [] rows[i].kind = "agent" /\ ~rows[i].summary -> RenderAgent(rows, i)
    [] OTHER -> {ToMessage("user", i, 0, <<>>, 0, TRUE)}

\* The main loop, newest first, stops after the first message it pushes at
\* or behind a summary.  A tool row is never pushed as such, so a summary on
\* one moves the end to the next older row that is.
Oldest(rows) ==
  LET pushed == {i \in DOMAIN rows : /\ i <= Boundary(rows)
                                     /\ rows[i].kind # "tool" /\ Render(rows, i) # {}}
  IN IF pushed = {} THEN 0 ELSE Max(pushed)

Replay(history, agent) ==
  LET rows == Rows(history, agent)
  IN UNION {Render(rows, i) : i \in {k \in DOMAIN rows : k >= Oldest(rows)}}

-----------------------------------------------------------------------------
(* The order of the messages                                                *)

Before(m, n) ==
  \/ m.row < n.row
  \/ m.row = n.row /\ m.place < n.place
  \/ m.row = n.row /\ m.place = n.place /\ m.part < n.part

\* Message n comes right after m.
Adjoins(messages, m, n) ==
  /\ Before(m, n)
  /\ \A k \in messages : ~(Before(m, k) /\ Before(k, n))

\* The tool messages that follow m without another message between them.
ToolRun(messages, m) ==
  {n \in messages :
     /\ n.role = "tool" /\ Before(m, n)
     /\ \A k \in messages : Before(m, k) /\ Before(k, n) => k.role = "tool"}

-----------------------------------------------------------------------------
(* findEventAnchor: the message behind which the content of a file read or  *)
(* edited by row i is put, if there is one.                                 *)

Assistant(messages, i) == {m \in messages : m.row = i /\ m.role = "assistant"}

\* Mutant of EventAnchor: behind the first result instead of the last.
AnchorAtFirst(messages, i) ==
  {x \in messages : \E m \in Assistant(messages, i) :
     IF ToolRun(messages, m) = {} THEN x = m
     ELSE x \in ToolRun(messages, m) /\ \A y \in ToolRun(messages, m) : ~Before(y, x)}

EventAnchor(messages, i) ==
  {x \in messages : \E m \in Assistant(messages, i) :
     /\ x \in {m} \cup ToolRun(messages, m)
     /\ \A y \in ToolRun(messages, m) : ~Before(x, y)}

-----------------------------------------------------------------------------
(* splitMultiToolCalls                                                      *)

\* Mutant of AnswerIn: answers are taken in the order they follow.
AnswerInOrder(messages, m, k) ==
  LET run == ToolRun(messages, m)
      at  == {n \in run : Cardinality({x \in run : Before(x, n)}) = k - 1}
  IN IF at = {} THEN ToMessage("tool", m.row, m.place, <<>>, m.calls[k], FALSE)
     ELSE CHOOSE n \in at : TRUE

\* The answer to the k-th call of m among the tool messages that follow it.
AnswerIn(messages, m, k) ==
  LET found == {n \in ToolRun(messages, m) : n.answers = m.calls[k]}
  IN IF found = {} THEN ToMessage("tool", m.row, m.place, <<>>, m.calls[k], FALSE)
     ELSE CHOOSE n \in found : \A x \in found : ~Before(x, n)

Multi(m) == m.role = "assistant" /\ Len(m.calls) > 1

\* The k-th call of m and its answer stand where m stood.
Pair(messages, m, k) ==
  {[m EXCEPT !.calls = <<m.calls[k]>>, !.part = 2 * k - 1],
   [AnswerIn(messages, m, k) EXCEPT !.row = m.row, !.place = m.place, !.part = 2 * k]}

\* The tool messages behind an assistant with several calls are consumed.
Consumed(messages) == UNION {ToolRun(messages, m) : m \in {x \in messages : Multi(x)}}

SplitMultiToolCalls(messages) ==
  {m \in messages : ~Multi(m) /\ m \notin Consumed(messages)}
    \cup UNION {UNION {Pair(messages, m, k) : k \in DOMAIN m.calls}
                  : m \in {x \in messages : Multi(x)}}

-----------------------------------------------------------------------------
(* SummaryWithKeepNumber: the row the summary will be written to, or 0 if   *)
(* no row is shown to the model that writes it (tool calls never are).      *)

\* The main conversation spares its newest rows, unless it has no others.
KeepNumber(agent) == IF agent = Main THEN Keep ELSE 0

LastMsg(history, agent) ==
  LET own    == {i \in 1..Len(history) : history[i].agent = agent}
      recent == IF Cardinality(own) > KeepNumber(agent) THEN KeepNumber(agent) ELSE 0
      old    == {i \in own : Cardinality({j \in own : j > i}) >= recent}
      shown  == {i \in own : \/ history[i].summary
                             \/ history[i].kind # "tool" /\ history[i].calls = <<>>}
  IN IF shown = {} THEN 0 ELSE Max(old)

-----------------------------------------------------------------------------
(* What a request must satisfy                                              *)

Answers(messages, call) == {n \in messages : n.role = "tool" /\ n.answers = call}

AnsweredOnce(messages) ==
  /\ \A m \in messages : \A c \in ToSet(m.calls) :
       \E n \in messages : Answers(messages, c) = {n} /\ Before(m, n)
  /\ \A n \in messages : n.role = "tool" =>
       \E m \in messages : n.answers \in ToSet(m.calls) /\ Before(m, n)

Adjacent(messages) ==
  \A m \in messages : \A c \in ToSet(m.calls) :
    Answers(messages, c) \subseteq ToolRun(messages, m)

\* Content put behind message x does not part a call from its result.
Parts(messages, x) == \E n \in messages : Adjoins(messages, x, n) /\ n.role = "tool"

Paired(messages) ==
  \A m \in messages : m.role = "assistant" =>
    /\ Len(m.calls) <= 1
    /\ m.calls # <<>> =>
         \E n \in messages : /\ Adjoins(messages, m, n)
                             /\ n.role = "tool" /\ n.answers = m.calls[1]

RealAnswers(messages) == {n.answers : n \in {k \in messages : k.role = "tool" /\ k.real}}
=============================================================================
