------------------------------ MODULE Dialogue ------------------------------
(***************************************************************************)
(* The stored conversation of one session and its sub-agents: the loop's   *)
(* goroutine sends requests and executes tool calls                        *)
(* (provider/request/request.go, provider/response/response.go), a server  *)
(* goroutine stores prompts at any time (UserAddMsgWithID), and both may   *)
(* activate or leave a sub-agent (provider/request/agents/activate.go).    *)
(* What a request sends is Replay's translation of the history.            *)
(***************************************************************************)
EXTENDS Replay

CONSTANTS Agent,       \* agent codes, Main among them
          Call,        \* tool call ids, numbers, in the order they are made
          MaxRows,     \* bound on the rows of the history
          MaxPrompts,  \* bound on the prompts
          MaxSummaries, \* bound on the summaries of the main conversation
          None

VARIABLES history,   \* table Messages
          state,     \* session.State: "idle", "waiting", "approve", "calling"
          current,   \* session.CurrentAgentID and NowAgent
          nowAgent,  \* Chats.now_agent, in the database
          lifecycle, \* holder of AgentLifecycleLock
          loop,      \* the loop's goroutine
          server,    \* the goroutine of the prompt
          prompts, summaries, \* counters
          made       \* calls made so far

dialogueVars == <<history, state, current, nowAgent, lifecycle, loop, server,
                  prompts, summaries, made>>

Actor == {"loop", "server"}
Sub   == Agent \ {Main}

Row(agent, kind, text, calls, results) ==
  [agent |-> agent, kind |-> kind, text |-> text, calls |-> calls,
   results |-> results, summary |-> FALSE]

\* at: where the goroutine is; row: the message of its request; owner: the
\* agent the message belongs to; plan: the calls with their tools, left to
\* execute; results: those executed; sent: what the request sent; target: the
\* row its summary goes to; leaving: the agent it deactivates.
Resting == [at |-> "idle", row |-> 0, owner |-> Main, plan |-> <<>>,
            results |-> <<>>, sentFor |-> None, target |-> 0, leaving |-> None]

\* A new session with its first prompt, or one that is reopened (LoadAgent)
\* after a sub-agent was given its prompt.
Init ==
  /\ \/ history = <<Row(Main, "user", TRUE, <<>>, <<>>)>> /\ nowAgent = Main
     \/ \E a \in Sub : /\ history = <<Row(a, "communicate", TRUE, <<>>, <<>>)>>
                       /\ nowAgent = a
  /\ state = "idle"
  /\ current = nowAgent
  /\ lifecycle = None
  /\ loop = Resting
  /\ server = Resting
  /\ prompts = 0
  /\ summaries = 0
  /\ made = 0

Append1(row) == history' = Append(history, row)
Room(n)      == Len(history) + n <= MaxRows

\* The other rows keep their ids: the place of a deleted row is kept by one
\* that belongs to no agent.
Deleted(h, i) == [h EXCEPT ![i] = [@ EXCEPT !.agent = None]]

-----------------------------------------------------------------------------
(* SendRequest                                                              *)

\* The placeholder of the answer is created for the agent in memory.
SendRequest ==
  /\ loop.at = "idle" /\ state = "idle" /\ Room(1)
  /\ state' = "waiting"
  /\ Append1(Row(current, "agent", FALSE, <<>>, <<>>))
  /\ loop' = [Resting EXCEPT !.at = "build", !.row = Len(history) + 1,
                             !.owner = current]
  /\ UNCHANGED <<current, nowAgent, lifecycle, server, prompts, summaries, made>>

\* The history is the one of the agent in the database.
Build ==
  /\ loop.at = "build"
  /\ \/ loop' = [loop EXCEPT !.at = "stream", !.sentFor = nowAgent]
        /\ UNCHANGED <<history, state>>
     \/ history' = Deleted(history, loop.row)
        /\ loop' = Resting /\ state' = "idle"
  /\ UNCHANGED <<current, nowAgent, lifecycle, server, prompts, summaries, made>>

\* Tools offered: the solver is made with those enabled for the agent.
Tools(agent) == {"plain"} \cup (IF agent = Main THEN {"activate"} ELSE {"deactivate"})

\* A batch of calls with new ids; validateAgentLifecycleCalls refuses one
\* that switches the agent twice.
Batches(agent) ==
  {b \in UNION {[1..n -> Tools(agent)] : n \in 1..2} :
     Cardinality({i \in DOMAIN b : b[i] # "plain"}) <= 1}

AnswerText ==
  /\ loop.at = "stream"
  /\ history' = [history EXCEPT ![loop.row].text = TRUE]
  /\ state' = "idle"
  /\ loop' = Resting
  /\ UNCHANGED <<current, nowAgent, lifecycle, server, prompts, summaries, made>>

AnswerNothing ==
  /\ loop.at = "stream"
  /\ history' = Deleted(history, loop.row)
  /\ state' = "idle"
  /\ loop' = Resting
  /\ UNCHANGED <<current, nowAgent, lifecycle, server, prompts, summaries, made>>

\* The calls are stored; a cancelled or failed request leaves them stored and
\* never executes them.
AnswerCalls ==
  /\ loop.at = "stream"
  /\ \E batch \in Batches(loop.owner) :
       /\ made + Len(batch) \in Call
       /\ made' = made + Len(batch)
       /\ history' = [history EXCEPT ![loop.row].calls =
                                            [i \in 1..Len(batch) |-> made + i]]
       /\ \/ /\ state' = "approve"
             /\ loop' = [loop EXCEPT !.at = "approve",
                           !.plan = [i \in 1..Len(batch) |->
                                       [id |-> made + i, tool |-> batch[i]]]]
          \/ /\ state' = "idle"
             /\ loop' = Resting
  /\ UNCHANGED <<current, nowAgent, lifecycle, server, prompts, summaries>>

-----------------------------------------------------------------------------
(* Approval                                                                 *)

\* A prompt may have rejected the calls meanwhile.
Overtaken ==
  /\ loop.at = "approve" /\ state # "approve"
  /\ loop' = Resting
  /\ UNCHANGED <<history, state, current, nowAgent, lifecycle, server, prompts,
                 summaries, made>>

\* RejectToolCallsNoDeactivate: the reason is stored without an agent.
Reject ==
  /\ loop.at = "approve" /\ state = "approve" /\ Room(1)
  /\ Append1(Row(Main, "communicate", TRUE, <<>>, <<>>))
  /\ state' = "idle"
  /\ loop' = Resting
  /\ nowAgent' = current
  /\ UNCHANGED <<current, lifecycle, server, prompts, summaries, made>>

Approve ==
  /\ loop.at = "approve" /\ state = "approve"
  /\ state' = "calling"
  /\ loop' = [loop EXCEPT !.at = "exec"]
  /\ nowAgent' = current
  /\ UNCHANGED <<history, current, lifecycle, server, prompts, summaries, made>>

\* detectToolCallLoop: every call is answered by a warning, none is executed.
WarnLoop ==
  /\ loop.at = "approve" /\ state = "approve" /\ Room(1)
  /\ Append1(Row(current, "tool", TRUE, <<>>,
                 [i \in 1..Len(loop.plan) |-> loop.plan[i].id]))
  /\ state' = "idle"
  /\ loop' = Resting
  /\ nowAgent' = current
  /\ UNCHANGED <<current, lifecycle, server, prompts, summaries, made>>

-----------------------------------------------------------------------------
(* ExecuteToolCalls                                                         *)

NextIs(tool) == loop.at = "exec" /\ loop.plan # <<>> /\ Head(loop.plan).tool = tool

\* Every call of the batch reaches the accumulator (AddDelta) with index 0:
\* the first one is dispatched and finalized, the others only rename it.
Executed(l) == [l EXCEPT !.plan = <<>>, !.results = <<Head(l.plan).id>>]

\* A tool the solver does not have spoils the whole batch.
ExecUnknown ==
  /\ loop.at = "exec" /\ loop.plan # <<>>
  /\ loop' = [loop EXCEPT !.plan = <<>>]
  /\ UNCHANGED <<history, state, current, nowAgent, lifecycle, server, prompts,
                 summaries, made>>

ExecPlain ==
  /\ NextIs("plain")
  /\ loop' = Executed(loop)
  /\ UNCHANGED <<history, state, current, nowAgent, lifecycle, server, prompts,
                 summaries, made>>

\* Mutant of Activate: the session is not saved.
ActivateUnsaved ==
  /\ NextIs("activate") /\ lifecycle = None /\ Room(1)
  /\ \E a \in Sub :
       /\ Append1(Row(a, "communicate", TRUE, <<>>, <<>>))
       /\ current' = a
  /\ loop' = Executed(loop)
  /\ UNCHANGED <<state, nowAgent, lifecycle, server, prompts, summaries, made>>

\* ActivateAgent: the prompt goes to the sub-agent's history.
Activate ==
  /\ NextIs("activate") /\ lifecycle = None /\ Room(1)
  /\ \E a \in Sub :
       /\ Append1(Row(a, "communicate", TRUE, <<>>, <<>>))
       /\ current' = a
       /\ nowAgent' = a
  /\ loop' = Executed(loop)
  /\ UNCHANGED <<state, lifecycle, server, prompts, summaries, made>>

\* A repeated call is a success that changes nothing.
DeactivateAgain ==
  /\ NextIs("deactivate") /\ current = Main
  /\ loop' = Executed(loop)
  /\ UNCHANGED <<history, state, current, nowAgent, lifecycle, server, prompts,
                 summaries, made>>

\* DoneToken: results, if any, are stored for the agent that is current now.
SaveResults ==
  /\ loop.at = "exec" /\ loop.plan = <<>> /\ Room(1)
  /\ IF loop.results = <<>> THEN UNCHANGED history
     ELSE Append1(Row(current, "tool", TRUE, <<>>, loop.results))
  /\ state' = "idle"
  /\ nowAgent' = current
  /\ loop' = Resting
  /\ UNCHANGED <<current, lifecycle, server, prompts, summaries, made>>

-----------------------------------------------------------------------------
(* DeactivateAgent, by either goroutine                                     *)

Set(actor, value) ==
  IF actor = "loop" THEN loop' = value /\ UNCHANGED server
  ELSE server' = value /\ UNCHANGED loop

Of(actor) == IF actor = "loop" THEN loop ELSE server

Leaves(actor) ==
  CASE actor = "loop"   -> NextIs("deactivate") /\ current # Main
    [] actor = "server" -> server.at = "leave" /\ current # Main

ClearAgent(actor) ==
  /\ Leaves(actor) /\ lifecycle = None
  /\ lifecycle' = actor
  /\ current' = Main
  /\ Set(actor, [Of(actor) EXCEPT !.at = "cleared", !.leaving = current])
  /\ UNCHANGED <<history, state, nowAgent, prompts, summaries, made>>

\* The row is updated, the hand-back prompt is stored and the summary is
\* requested for what the sub-agent's history holds then.
HandBack(actor) ==
  /\ Of(actor).at = "cleared" /\ Room(1)
  /\ nowAgent' = Main
  /\ Append1(Row(Main, "communicate", TRUE, <<>>, <<>>))
  /\ Set(actor, [Of(actor) EXCEPT !.at = "summing",
                   !.target = LastMsg(history, Of(actor).leaving)])
  /\ UNCHANGED <<state, current, lifecycle, prompts, summaries, made>>

Summarised(h, i) == IF i = 0 THEN h ELSE [h EXCEPT ![i].summary = TRUE]

Left(actor) ==
  IF actor = "loop" THEN [Executed(loop) EXCEPT !.at = "exec", !.leaving = None,
                                                !.target = 0]
  ELSE [server EXCEPT !.at = "store", !.leaving = None, !.target = 0]

\* The summary is written to its row and to the main conversation; without
\* one (none to make, or the request failed) neither happens.
SummariseAgent(actor) ==
  /\ Of(actor).at = "summing" /\ Of(actor).leaving # None
  /\ \/ /\ Of(actor).target # 0 /\ Room(1)
        /\ history' = Append(Summarised(history, Of(actor).target),
                             Row(Main, "communicate", TRUE, <<>>, <<>>))
     \/ UNCHANGED history
  /\ current' = Main
  /\ lifecycle' = None
  /\ Set(actor, Left(actor))
  /\ UNCHANGED <<state, nowAgent, prompts, summaries, made>>

-----------------------------------------------------------------------------
(* SummarySession, by the loop between turns                                *)

RequestSummary ==
  /\ loop.at = "idle" /\ state = "idle" /\ summaries < MaxSummaries
  /\ LastMsg(history, current) # 0
  /\ summaries' = summaries + 1
  /\ loop' = [Resting EXCEPT !.at = "summing", !.target = LastMsg(history, current)]
  /\ UNCHANGED <<history, state, current, nowAgent, lifecycle, server, prompts, made>>

WriteSummary ==
  /\ loop.at = "summing" /\ loop.leaving = None
  /\ \/ history' = Summarised(history, loop.target)
     \/ UNCHANGED history
  /\ loop' = Resting
  /\ UNCHANGED <<state, current, nowAgent, lifecycle, server, prompts, summaries, made>>

-----------------------------------------------------------------------------
(* UserAddMsgWithID                                                         *)

\* Calls that wait for approval are rejected first.
Prompt ==
  /\ server.at = "idle" /\ prompts < MaxPrompts
  /\ prompts' = prompts + 1
  /\ server' = [Resting EXCEPT !.at = "leave"]
  /\ IF state = "approve"
     THEN /\ Room(1)
          /\ Append1(Row(Main, "communicate", TRUE, <<>>, <<>>))
          /\ state' = "idle"
          /\ nowAgent' = current
     ELSE UNCHANGED <<history, state, nowAgent>>
  /\ UNCHANGED <<current, lifecycle, loop, summaries, made>>

NoAgentToLeave ==
  /\ server.at = "leave" /\ current = Main
  /\ server' = [server EXCEPT !.at = "store"]
  /\ UNCHANGED <<history, state, current, nowAgent, lifecycle, loop, prompts,
                 summaries, made>>

StorePrompt ==
  /\ server.at = "store" /\ Room(1)
  /\ Append1(Row(Main, "user", TRUE, <<>>, <<>>))
  /\ server' = Resting
  /\ UNCHANGED <<state, current, nowAgent, lifecycle, loop, prompts, summaries, made>>

\* The process dies; LoadAgent takes the agent from the database.
Crash ==
  /\ loop.at # "idle" \/ server.at # "idle"
  /\ current' = nowAgent
  /\ state' = "idle"
  /\ lifecycle' = None
  /\ loop' = Resting
  /\ server' = Resting
  /\ UNCHANGED <<history, nowAgent, prompts, summaries, made>>

Next ==
  \/ SendRequest \/ Build \/ AnswerText \/ AnswerNothing \/ AnswerCalls
  \/ Overtaken \/ Reject \/ Approve \/ WarnLoop
  \/ ExecUnknown \/ ExecPlain \/ Activate \/ DeactivateAgain \/ SaveResults
  \/ \E actor \in Actor : ClearAgent(actor) \/ HandBack(actor) \/ SummariseAgent(actor)
  \/ RequestSummary \/ WriteSummary
  \/ Prompt \/ NoAgentToLeave \/ StorePrompt \/ Crash

Spec == Init /\ [][Next]_dialogueVars

-----------------------------------------------------------------------------
(* Properties                                                               *)

AllCalls == UNION {ToSet(history[i].calls) : i \in 1..Len(history)}

\* Split for proxies, every call is followed at once by its own answer and
\* no result is lost, as long as the history keeps them together.
SplitPairs(messages) ==
  Adjacent(messages) =>
    LET split == SplitMultiToolCalls(messages)
    IN Paired(split) /\ RealAnswers(split) = RealAnswers(messages)

\* The content of a file put behind the event that read it never stands
\* between calls and their results (findEventAnchor).
BlocksOutsideResults(rows, messages) ==
  \A i \in DOMAIN rows : rows[i].calls # <<>> =>
    \A x \in EventAnchor(messages, i) : ~Parts(messages, x)

\* Whatever was summed up, cut off, handed over or lost in a crash: in the request as it is
\* built every call has one answer behind it and every answer its call before it, contents
\* of files do not part them; and split for proxies, if it keeps results behind their calls
\* (Adjacent), each pair stands alone.  Calls are numbered here: no two have the same id.
CallsPaired ==
  \A a \in Agent :
    LET messages == Replay(history, a)
    IN /\ AnsweredOnce(messages)
       /\ SplitPairs(messages)
       /\ BlocksOutsideResults(Rows(history, a), messages)

\* The agent in memory is the one in the database whenever nobody is
\* switching: a crash or a reopened session goes on with the same agent.
AgentSurvives == lifecycle = None => current = nowAgent

TypeOK ==
  /\ Len(history) <= MaxRows
  /\ state \in {"idle", "waiting", "approve", "calling"}
  /\ {current, nowAgent} \subseteq Agent
  /\ lifecycle \in Actor \cup {None}
  /\ loop.at \in {"idle", "build", "stream", "approve", "exec", "cleared", "summing"}
  /\ server.at \in {"idle", "leave", "cleared", "summing", "store"}
  /\ made \in Call \cup {0}

-----------------------------------------------------------------------------
(* What the comments say and the code does not do                           *)

\* RequestBody: the replay begins with the summary ("history cut-off point").
SummaryReplayed ==
  \A a \in Agent : LET rows == Rows(history, a) IN
    Boundary(rows) # 0 =>
      \E m \in Replay(history, a) : m.role = "summary"

\* "assistant with tool_calls must be followed by tool messages".
ToolsAdjacent == \A a \in Agent : Adjacent(Replay(history, a))

\* toolCallTerminatedMsg tells the model that the call did not run.
RanIsNotDisowned ==
  \A a \in Agent : \A m \in Replay(history, a) :
    m.role = "tool" /\ ~m.real =>
      \A i \in 1..Len(history) : m.answers \notin ToSet(history[i].results)

\* ExecuteToolCalls: "tool by tool": what was approved has run when its
\* results are stored, except for tools there are not.
ApprovedBatchRuns ==
  \A i \in 1..Len(history) : history[i].kind = "tool" =>
    \A j \in 1..i : ToSet(history[j].calls) \cap ToSet(history[i].results) # {} =>
      ToSet(history[j].calls) \subseteq ToSet(history[i].results)

\* A request is answered by the agent whose history it sent.
OwnHistorySent == loop.at = "stream" => loop.sentFor = loop.owner
=============================================================================
