--------------------------- MODULE Dialogue_proofs ---------------------------
(***************************************************************************)
(* What is stored of a conversation, proved for any number of agents, rows *)
(* and calls, any window and any summary: the agent in memory is the one   *)
(* in the database, and every request pairs its calls with their results.  *)
(* The second rests on two things: what the history and the loop's plan    *)
(* hold of calls and results (TalkInv), and what the translation of any    *)
(* such history into messages makes of it (Replay).                        *)
(***************************************************************************)
EXTENDS Dialogue, SequenceTheorems, WellFoundedInduction, TLAPS

(* The agent of a session. *)

\* None stands for no goroutine.
TalkAssumed == None \notin {"loop", "server"}

\* The record of a goroutine has these fields, whatever is in them.
Fields    == {"at", "row", "owner", "plan", "results", "sentFor", "target", "leaving"}
Shaped(x) == DOMAIN x = Fields

\* Where a goroutine x is that switches the agent: between the row in memory and the row in
\* the database it holds the lock, and after it until its summary is written.
Switching(actor, x) ==
  /\ x.at = "cleared" => lifecycle = actor
  /\ x.at = "summing" /\ x.leaving # None => lifecycle = actor /\ nowAgent = Main

AgentInv ==
  /\ lifecycle \in {"loop", "server", None}
  /\ lifecycle = None => current = nowAgent
  /\ lifecycle # None => current = Main
  /\ Shaped(loop) /\ Switching("loop", loop)
  /\ Shaped(server) /\ Switching("server", server)

\* A goroutine that rests is nowhere in a switch.
LEMMA RestingShape ==
  /\ Shaped(Resting) /\ Resting.at = "idle" /\ Resting.leaving = None
  BY DEF Shaped, Fields, Resting

\* A session begins, or is reopened, with the agent of its row.
LEMMA InitAgent == Init => AgentInv
  BY RestingShape DEF Init, AgentInv, Switching

\* Executing a call keeps the place of the loop.
LEMMA ExecutedShape ==
  Shaped(loop) => Shaped(Executed(loop)) /\ Executed(loop).at = loop.at
  <1> SUFFICES ASSUME Shaped(loop)
               PROVE  Shaped(Executed(loop)) /\ Executed(loop).at = loop.at
    OBVIOUS
  <1>1. ASSUME NEW v, NEW w, NEW x, x = [loop EXCEPT !.plan = v, !.results = w]
        PROVE  Shaped(x) /\ x.at = loop.at
    BY <1>1 DEF Shaped, Fields
  <1> QED BY <1>1 DEF Executed

\* The loop goes on, and switches nothing.
LEMMA LoopGoesOn ==
  ASSUME TalkAssumed, AgentInv, Shaped(loop)', loop'.at \notin {"cleared", "summing"},
         nowAgent' \in {nowAgent, current}, UNCHANGED <<current, lifecycle, server>>
  PROVE  AgentInv'
  BY DEF AgentInv, Switching, TalkAssumed

\* The turn of the loop.
LEMMA TurnKeeps ==
  ASSUME TalkAssumed, AgentInv,
         \/ SendRequest \/ Build \/ AnswerText \/ AnswerNothing
         \/ AnswerCalls \/ Overtaken \/ Reject \/ Approve \/ WarnLoop
         \/ ExecUnknown \/ ExecPlain \/ DeactivateAgain \/ SaveResults
  PROVE  AgentInv'
  <1>0. Shaped(loop)
    BY DEF AgentInv
  <1>1. nowAgent' \in {nowAgent, current} /\ UNCHANGED <<current, lifecycle, server>>
    BY Zenon DEF SendRequest, Build, AnswerText, AnswerNothing, AnswerCalls,
           Overtaken, Reject, Approve, WarnLoop, ExecUnknown,
           ExecPlain, DeactivateAgain, SaveResults
  <1>2. Shaped(loop') /\ loop'.at \notin {"cleared", "summing"}
    <2>1. CASE SendRequest
      <3>1. loop' = [Resting EXCEPT !.at = "build", !.row = Len(history) + 1, !.owner = current]
        BY <2>1 DEF SendRequest
      <3> QED BY <3>1, RestingShape DEF Shaped, Fields
    <2>2. CASE loop' = Resting
      BY <2>2, RestingShape
    <2>3. CASE Build
      <3>1. CASE loop' = [loop EXCEPT !.at = "stream", !.sentFor = nowAgent]
        BY <1>0, <3>1 DEF Shaped, Fields
      <3> QED BY <2>2, <2>3, <3>1 DEF Build
    <2>4. CASE AnswerCalls
      <3>1. ASSUME NEW plan, loop' = [loop EXCEPT !.at = "approve", !.plan = plan]
            PROVE  Shaped(loop') /\ loop'.at \notin {"cleared", "summing"}
        BY <1>0, <3>1 DEF Shaped, Fields
      <3> QED BY <2>2, <2>4, <3>1, Zenon DEF AnswerCalls
    <2>5. CASE Approve
      BY <1>0, <2>5 DEF Approve, Shaped, Fields
    <2>6. CASE ExecUnknown
      <3>1. loop' = [loop EXCEPT !.plan = <<>>] /\ loop.at = "exec"
        BY <2>6 DEF ExecUnknown
      <3> QED BY <1>0, <3>1 DEF Shaped, Fields
    <2>7. CASE ExecPlain \/ DeactivateAgain
      BY <1>0, <2>7, ExecutedShape DEF ExecPlain, DeactivateAgain, NextIs
    <2> QED BY <2>1, <2>2, <2>3, <2>4, <2>5, <2>6, <2>7
            DEF AnswerText, AnswerNothing, Overtaken, Reject, WarnLoop,
                SaveResults
  <1> QED BY <1>1, <1>2, LoopGoesOn

\* The switches: activation, and the three steps of leaving by either goroutine.
LEMMA SwitchKeeps ==
  ASSUME TalkAssumed, AgentInv,
         \/ Activate
         \/ \E actor \in Actor :
              ClearAgent(actor) \/ HandBack(actor) \/ SummariseAgent(actor)
  PROVE  AgentInv'
  <1>0. Shaped(loop) /\ Shaped(server)
    BY DEF AgentInv
  <1>1. CASE Activate
    <2>1. Shaped(loop') /\ loop'.at = "exec"
      BY <1>0, <1>1, ExecutedShape DEF Activate, NextIs
    <2>2. current' = nowAgent' /\ lifecycle = None /\ UNCHANGED <<lifecycle, server>>
      BY <1>1 DEF Activate
    <2> QED BY <2>1, <2>2 DEF AgentInv, Switching, TalkAssumed
  <1>2. ASSUME NEW actor \in Actor, ClearAgent(actor) PROVE AgentInv'
    <2>1. lifecycle = None /\ lifecycle' = actor /\ current' = Main /\ UNCHANGED nowAgent
      BY <1>2 DEF ClearAgent
    <2>2. CASE actor = "loop"
      <3>1. Shaped(loop') /\ loop'.at = "cleared" /\ UNCHANGED server
        <4>1. loop' = [loop EXCEPT !.at = "cleared", !.leaving = current] /\ UNCHANGED server
          BY <1>2, <2>2 DEF ClearAgent, Set, Of
        <4> QED BY <1>0, <4>1 DEF Shaped, Fields
      <3> QED BY <2>1, <2>2, <3>1 DEF AgentInv, Switching, TalkAssumed
    <2>3. CASE actor = "server"
      <3>1. Shaped(server') /\ server'.at = "cleared" /\ UNCHANGED loop
        <4>1. server' = [server EXCEPT !.at = "cleared", !.leaving = current] /\ UNCHANGED loop
          BY <1>2, <2>3 DEF ClearAgent, Set, Of
        <4> QED BY <1>0, <4>1 DEF Shaped, Fields
      <3> QED BY <2>1, <2>3, <3>1 DEF AgentInv, Switching, TalkAssumed
    <2> QED BY <2>2, <2>3 DEF Actor
  <1>3. ASSUME NEW actor \in Actor, HandBack(actor) PROVE AgentInv'
    <2>1. nowAgent' = Main /\ UNCHANGED <<current, lifecycle>> /\ Of(actor).at = "cleared"
      BY <1>3 DEF HandBack
    <2>2. CASE actor = "loop"
      <3>1. Shaped(loop') /\ loop'.at = "summing" /\ UNCHANGED server
        <4>1. PICK target : loop' = [loop EXCEPT !.at = "summing", !.target = target]
          BY <1>3, <2>2 DEF HandBack, Set, Of
        <4>2. UNCHANGED server
          BY <1>3, <2>2 DEF HandBack, Set
        <4> QED BY <1>0, <4>1, <4>2 DEF Shaped, Fields
      <3> QED BY <2>1, <2>2, <3>1 DEF AgentInv, Switching, TalkAssumed, Of
    <2>3. CASE actor = "server"
      <3>1. Shaped(server') /\ server'.at = "summing" /\ UNCHANGED loop
        <4>1. PICK target : server' = [server EXCEPT !.at = "summing", !.target = target]
          BY <1>3, <2>3 DEF HandBack, Set, Of
        <4>2. UNCHANGED loop
          BY <1>3, <2>3 DEF HandBack, Set
        <4> QED BY <1>0, <4>1, <4>2 DEF Shaped, Fields
      <3> QED BY <2>1, <2>3, <3>1 DEF AgentInv, Switching, TalkAssumed, Of
    <2> QED BY <2>2, <2>3 DEF Actor
  <1>4. ASSUME NEW actor \in Actor, SummariseAgent(actor) PROVE AgentInv'
    <2>1. /\ current' = Main /\ lifecycle' = None /\ UNCHANGED nowAgent
          /\ Of(actor).at = "summing" /\ Of(actor).leaving # None
      BY <1>4 DEF SummariseAgent
    <2>2. CASE actor = "loop"
      <3>1. Shaped(loop') /\ loop'.at = "exec" /\ UNCHANGED server
        <4>1. Shaped(Executed(loop))
          BY <1>0, ExecutedShape
        <4>2. /\ loop' = [Executed(loop) EXCEPT !.at = "exec", !.leaving = None, !.target = 0]
              /\ UNCHANGED server
          BY <1>4, <2>2 DEF SummariseAgent, Set, Left
        <4> QED BY <4>1, <4>2 DEF Shaped, Fields
      <3> QED BY <2>1, <2>2, <3>1 DEF AgentInv, Switching, TalkAssumed, Of
    <2>3. CASE actor = "server"
      <3>1. Shaped(server') /\ server'.at = "store" /\ UNCHANGED loop
        <4>1. /\ server' = [server EXCEPT !.at = "store", !.leaving = None, !.target = 0]
              /\ UNCHANGED loop
          BY <1>4, <2>3 DEF SummariseAgent, Set, Left
        <4> QED BY <1>0, <4>1 DEF Shaped, Fields
      <3> QED BY <2>1, <2>3, <3>1 DEF AgentInv, Switching, TalkAssumed, Of
    <2> QED BY <2>2, <2>3 DEF Actor
  <1> QED BY <1>1, <1>2, <1>3, <1>4

\* Summaries, prompts, and a crash.
LEMMA OthersKeep ==
  ASSUME TalkAssumed, AgentInv,
         \/ RequestSummary \/ WriteSummary \/ Prompt \/ NoAgentToLeave
         \/ StorePrompt \/ Crash
  PROVE  AgentInv'
  <1>0. Shaped(loop) /\ Shaped(server)
    BY DEF AgentInv
  <1>1. CASE RequestSummary
    <2>1. Shaped(loop') /\ loop'.at = "summing" /\ loop'.leaving = None
          /\ UNCHANGED <<current, nowAgent, lifecycle, server>>
      <3>1. PICK target : loop' = [Resting EXCEPT !.at = "summing", !.target = target]
        BY <1>1 DEF RequestSummary
      <3>2. UNCHANGED <<current, nowAgent, lifecycle, server>>
        BY <1>1 DEF RequestSummary
      <3> QED BY <3>1, <3>2, RestingShape DEF Shaped, Fields
    <2> QED BY <2>1 DEF AgentInv, Switching
  <1>2. CASE WriteSummary
    <2>1. loop' = Resting /\ UNCHANGED <<current, nowAgent, lifecycle, server>>
      BY <1>2 DEF WriteSummary
    <2> QED BY <2>1, RestingShape DEF AgentInv, Switching
  <1>3. CASE Prompt
    <2>1. Shaped(server') /\ server'.at = "leave"
      BY <1>3, RestingShape DEF Prompt, Shaped, Fields
    <2>2. nowAgent' \in {nowAgent, current} /\ UNCHANGED <<current, lifecycle, loop>>
      BY <1>3 DEF Prompt
    <2> QED BY <2>1, <2>2 DEF AgentInv, Switching
  <1>4. CASE NoAgentToLeave \/ StorePrompt
    <2>1. Shaped(server') /\ server'.at \in {"store", "idle"}
      <3>1. server' = [server EXCEPT !.at = "store"] \/ server' = Resting
        BY <1>4 DEF NoAgentToLeave, StorePrompt
      <3> QED BY <1>0, <3>1, RestingShape DEF Shaped, Fields
    <2>2. UNCHANGED <<current, nowAgent, lifecycle, loop>>
      BY <1>4 DEF NoAgentToLeave, StorePrompt
    <2> QED BY <2>1, <2>2 DEF AgentInv, Switching
  <1>5. CASE Crash
    BY <1>5, RestingShape DEF Crash, AgentInv, Switching
  <1> QED BY <1>1, <1>2, <1>3, <1>4, <1>5

\* No step parts the agent in memory from its row, unless it holds the lock.
LEMMA StepAgent == ASSUME TalkAssumed PROVE AgentInv /\ [Next]_dialogueVars => AgentInv'
  <1> SUFFICES ASSUME AgentInv, [Next]_dialogueVars PROVE AgentInv'
    OBVIOUS
  <1>1. CASE UNCHANGED dialogueVars
    BY <1>1 DEF dialogueVars, AgentInv, Switching
  <1>2. CASE Next
    BY <1>2, TurnKeeps, SwitchKeeps, OthersKeep DEF Next
  <1> QED BY <1>1, <1>2

-----------------------------------------------------------------------------
(* Calls and their results in a request (Replay), for any set of messages   *)
(* each of which has a place of its own.                                    *)

\* The element a well-founded order provides.
LEMMA MinimalOf ==
  ASSUME NEW R, NEW T, IsWellFoundedOn(R, Nat), T \subseteq Nat, T # {}
  PROVE  \E t \in T : \A y \in T : ~(<<y, t>> \in R)
  BY WFMin, Zenon

\* A set of naturals has a least element.
LEMMA LeastOf ==
  ASSUME NEW T, T \subseteq Nat, T # {}
  PROVE  \E t \in T : \A y \in T : t <= y
  <1> DEFINE R == OpToRel(<, Nat)
  <1>1. IsWellFoundedOn(R, Nat)
    BY NatLessThanWellFounded
  <1>2. \A x, y \in Nat : <<x, y>> \in R <=> x < y
    BY DEF OpToRel
  <1> HIDE DEF R
  <1>3. PICK t \in T : \A y \in T : ~(<<y, t>> \in R)
    BY <1>1, MinimalOf
  <1>4. ASSUME NEW y \in T PROVE t <= y
    <2>1. ~(<<y, t>> \in R) /\ y \in Nat /\ t \in Nat
      BY <1>3
    <2>2. ~(y < t)
      BY <1>2, <2>1
    <2> QED BY <2>1, <2>2
  <1> QED BY <1>4

\* A set of naturals below a bound has a greatest element.
LEMMA Greatest ==
  ASSUME NEW N \in Nat, NEW S \in SUBSET (0..N), S # {}
  PROVE  Max(S) \in S /\ \A y \in S : Max(S) >= y
  <1> DEFINE T == {N - x : x \in S}
  <1>1. T \subseteq Nat /\ T # {}
    <2>1. PICK x \in S : TRUE
      OBVIOUS
    <2>2. N - x \in T
      BY <2>1
    <2>3. ASSUME NEW y \in S PROVE N - y \in Nat
      OBVIOUS
    <2> QED BY <2>2, <2>3, Zenon
  <1>2. PICK t \in T : \A y \in T : t <= y
    <2> HIDE DEF T
    <2> QED BY <1>1, LeastOf
  <1>4. PICK x \in S : t = N - x
    OBVIOUS
  <1>5. \A y \in S : x >= y
    <2> TAKE y \in S
    <2>1. N - y \in T
      OBVIOUS
    <2>2. t <= N - y
      BY <1>2, <2>1
    <2> QED BY <1>4, <2>2
  <1> QED BY <1>5 DEF Max

\* A message has these fields.
MsgFields == {"role", "row", "place", "part", "calls", "answers", "real"}

\* Each message has a place of its own, and only assistants call.
Placed(messages) ==
  /\ \A m \in messages : /\ DOMAIN m = MsgFields /\ m.row \in Nat /\ m.place \in Nat /\ m.part = 0
                         /\ m.calls \in Seq(Nat) /\ (m.calls # <<>> => m.role = "assistant")
  /\ \A m, n \in messages : m.row = n.row /\ m.place = n.place => m = n

\* Two messages are the same or one stands before the other.
LEMMA Ordered ==
  ASSUME NEW messages, Placed(messages), NEW m \in messages, NEW n \in messages
  PROVE  /\ m = n \/ Before(m, n) \/ Before(n, m)
         /\ ~Before(m, m)
         /\ Before(m, n) => ~Before(n, m)
  BY DEF Placed, Before

\* The order is transitive.
LEMMA Transitive ==
  ASSUME NEW messages, Placed(messages),
         NEW m \in messages, NEW n \in messages, NEW x \in messages,
         Before(m, n), Before(n, x)
  PROVE  Before(m, x)
  BY DEF Placed, Before

\* A tool message follows one assistant at most.
LEMMA OneRun ==
  ASSUME NEW messages, Placed(messages), NEW m \in messages, NEW x \in messages,
         m.role = "assistant", x.role = "assistant",
         NEW n, n \in ToolRun(messages, m), n \in ToolRun(messages, x)
  PROVE  m = x
  <1>1. n \in messages /\ Before(m, n) /\ Before(x, n)
    BY DEF ToolRun
  <1>2. ~Before(m, x) /\ ~Before(x, m)
    BY <1>1 DEF ToolRun
  <1> QED BY <1>2, Ordered

\* What stands between an assistant and a tool message of its run is of the run.
LEMMA ShorterRun ==
  ASSUME NEW messages, Placed(messages), NEW m \in messages, NEW n \in ToolRun(messages, m),
         NEW x \in messages, Before(m, x), Before(x, n)
  PROVE  x \in ToolRun(messages, m)
  <1>1. n \in messages /\ x.role = "tool"
    BY DEF ToolRun
  <1>2. ASSUME NEW y \in messages, Before(m, y), Before(y, x) PROVE y.role = "tool"
    BY <1>1, <1>2, Transitive DEF ToolRun
  <1> QED BY <1>1, <1>2 DEF ToolRun

\* The answers are where the requests have them.
Answered(messages) == Placed(messages) /\ AnsweredOnce(messages) /\ Adjacent(messages)

\* A call finds its one answer in the run behind it.
LEMMA AnswerFound ==
  ASSUME NEW messages, Answered(messages), NEW m \in messages, NEW k \in DOMAIN m.calls
  PROVE  /\ m.role = "assistant"
         /\ \E n \in ToolRun(messages, m) :
              /\ n \in messages /\ n.role = "tool" /\ n.answers = m.calls[k]
              /\ AnswerIn(messages, m, k) = n
              /\ \A x \in messages : x.role = "tool" /\ x.answers = m.calls[k] => x = n
  <1>0. Placed(messages)
    BY DEF Answered
  <1>1. m.role = "assistant"
    BY <1>0 DEF Placed
  <1> DEFINE c == m.calls[k]
  <1>2. c \in ToSet(m.calls)
    BY DEF ToSet
  <1>3. PICK n \in messages : Answers(messages, c) = {n}
    BY <1>2 DEF Answered, AnsweredOnce
  <1>4. n \in ToolRun(messages, m)
    BY <1>2, <1>3 DEF Answered, Adjacent
  <1>5. \A x \in messages : x.role = "tool" /\ x.answers = c => x = n
    BY <1>3 DEF Answers
  <1>6. n.role = "tool" /\ n.answers = c
    BY <1>3 DEF Answers
  <1> DEFINE found == {x \in ToolRun(messages, m) : x.answers = m.calls[k]}
  <1>7. found = {n}
    BY <1>4, <1>5, <1>6 DEF ToolRun
  <1>8. ~Before(n, n)
    BY <1>0, Ordered
  <1>9. AnswerIn(messages, m, k) = n
    BY <1>7, <1>8 DEF AnswerIn
  <1> QED BY <1>1, <1>4, <1>5, <1>6, <1>9

\* A tool message is the answer found for some call.
LEMMA CallFound ==
  ASSUME NEW messages, Answered(messages), NEW n \in messages, n.role = "tool"
  PROVE  \E m \in messages : \E k \in DOMAIN m.calls :
           /\ m.role = "assistant" /\ m.calls[k] = n.answers /\ n \in ToolRun(messages, m)
           /\ AnswerIn(messages, m, k) = n
  <1>1. PICK m \in messages : n.answers \in ToSet(m.calls)
    BY DEF Answered, AnsweredOnce
  <1>2. PICK k \in DOMAIN m.calls : m.calls[k] = n.answers
    BY <1>1 DEF ToSet
  <1> QED BY <1>2, AnswerFound

\* The two messages a call becomes.
CallPart(messages, m, k)   == [m EXCEPT !.calls = <<m.calls[k]>>, !.part = 2 * k - 1]
AnswerPart(messages, m, k) ==
  [AnswerIn(messages, m, k) EXCEPT !.row = m.row, !.place = m.place, !.part = 2 * k]

\* The two messages of a call, where they stand.
LEMMA PairParts ==
  ASSUME NEW messages, Answered(messages), NEW m \in messages, NEW k \in DOMAIN m.calls
  PROVE  /\ k \in Nat /\ k >= 1
         /\ Pair(messages, m, k) = {CallPart(messages, m, k), AnswerPart(messages, m, k)}
         /\ LET x == CallPart(messages, m, k) IN
              /\ x.role = "assistant" /\ x.calls = <<m.calls[k]>> /\ x.part = 2 * k - 1
              /\ x.row = m.row /\ x.place = m.place
         /\ LET y == AnswerPart(messages, m, k) IN
              /\ y.role = "tool" /\ y.answers = m.calls[k] /\ y.part = 2 * k
              /\ y.row = m.row /\ y.place = m.place /\ y.real = AnswerIn(messages, m, k).real
  <1>1. /\ DOMAIN m = MsgFields /\ m.calls \in Seq(Nat)
    BY DEF Answered, Placed
  <1>2. k \in Nat /\ k >= 1
    BY <1>1
  <1>3. PICK n \in messages : /\ n.role = "tool" /\ n.answers = m.calls[k]
                              /\ AnswerIn(messages, m, k) = n
    BY AnswerFound DEF ToolRun
  <1>4. DOMAIN n = MsgFields
    BY DEF Answered, Placed
  <1>5. m.role = "assistant"
    BY AnswerFound
  <1>6. ASSUME NEW x, x = [m EXCEPT !.calls = <<m.calls[k]>>, !.part = 2 * k - 1]
        PROVE  /\ x.role = "assistant" /\ x.calls = <<m.calls[k]>> /\ x.part = 2 * k - 1
               /\ x.row = m.row /\ x.place = m.place
    BY <1>1, <1>5, <1>6 DEF MsgFields
  <1>7. ASSUME NEW y, y = [n EXCEPT !.row = m.row, !.place = m.place, !.part = 2 * k]
        PROVE  /\ y.role = "tool" /\ y.answers = m.calls[k] /\ y.part = 2 * k
               /\ y.row = m.row /\ y.place = m.place /\ y.real = n.real
    BY <1>3, <1>4, <1>7 DEF MsgFields
  <1> QED BY <1>2, <1>3, <1>6, <1>7 DEF CallPart, AnswerPart, Pair

\* A message is left as it is, or comes of one that is split.
LEMMA SplitCases ==
  ASSUME NEW messages, NEW y
  PROVE  y \in SplitMultiToolCalls(messages) <=>
           \/ y \in messages /\ ~Multi(y) /\ y \notin Consumed(messages)
           \/ \E m \in messages : Multi(m) /\ \E k \in DOMAIN m.calls : y \in Pair(messages, m, k)
  BY DEF SplitMultiToolCalls

\* A message that is not split is followed by its answer.
LEMMA SinglePaired ==
  ASSUME NEW messages, Answered(messages), NEW x \in messages, ~Multi(x), x.calls # <<>>
  PROVE  \E n \in SplitMultiToolCalls(messages) :
           /\ Adjoins(SplitMultiToolCalls(messages), x, n)
           /\ n.role = "tool" /\ n.answers = x.calls[1]
  <1>0. Placed(messages)
    BY DEF Answered
  <1>1. /\ x.calls \in Seq(Nat) /\ x.role = "assistant"
    BY <1>0 DEF Placed
  <1>2. DOMAIN x.calls = {1}
    BY <1>1 DEF Multi
  <1>3. PICK n \in ToolRun(messages, x) :
           /\ n \in messages /\ n.role = "tool" /\ n.answers = x.calls[1]
           /\ \A y \in messages : y.role = "tool" /\ y.answers = x.calls[1] => y = n
    BY <1>2, AnswerFound
  <1>4. n \notin Consumed(messages)
    <2> SUFFICES ASSUME NEW m \in messages, Multi(m), n \in ToolRun(messages, m) PROVE FALSE
      BY DEF Consumed
    <2> QED BY <1>0, <1>1, OneRun DEF Multi
  <1>5. n \in SplitMultiToolCalls(messages)
    BY <1>3, <1>4, SplitCases DEF Multi
  <1>6. Before(x, n)
    BY DEF ToolRun
  <1>7. ASSUME NEW y \in SplitMultiToolCalls(messages), Before(x, y), Before(y, n)
        PROVE  FALSE
    <2>1. CASE y \in messages
      <3>1. y \in ToolRun(messages, x)
        BY <1>0, <1>7, <2>1, ShorterRun
      <3>2. y.role = "tool"
        BY <3>1 DEF ToolRun
      <3>3. PICK m \in messages : \E k \in DOMAIN m.calls :
               m.role = "assistant" /\ m.calls[k] = y.answers /\ y \in ToolRun(messages, m)
        BY <2>1, <3>2, CallFound
      <3>4. m = x
        BY <1>0, <1>1, <3>1, <3>3, OneRun
      <3>5. y = n
        BY <1>2, <1>3, <2>1, <3>2, <3>3, <3>4
      <3> QED BY <1>0, <1>7, <2>1, <3>5, Ordered
    <2>2. CASE \E m \in messages : Multi(m) /\ \E k \in DOMAIN m.calls : y \in Pair(messages, m, k)
      <3>1. PICK m \in messages : Multi(m) /\ \E k \in DOMAIN m.calls : y \in Pair(messages, m, k)
        BY <2>2
      <3>2. y.row = m.row /\ y.place = m.place /\ y.part \in Nat /\ y.part >= 1
        BY <3>1, PairParts
      <3>3. x.part = 0 /\ n.part = 0 /\ m.part = 0
        BY <1>0, <1>3 DEF Placed
      <3>4. m # x /\ m.role = "assistant"
        BY <3>1 DEF Multi
      <3>5. Before(m, n)
        BY <1>7, <3>2, <3>3 DEF Before
      <3>6. Before(x, m)
        <4>1. ~Before(m, x)
          BY <1>0, <1>1, <1>3, <1>7, <3>2, <3>3 DEF Before, Placed
        <4> QED BY <1>0, <3>4, <4>1, Ordered
      <3> QED BY <1>3, <3>4, <3>5, <3>6 DEF ToolRun
    <2> QED BY <1>7, <2>1, <2>2, SplitCases
  <1> QED BY <1>3, <1>5, <1>6, <1>7 DEF Adjoins

\* A call of a message that is split is followed by its answer.
LEMMA PartPaired ==
  ASSUME NEW messages, Answered(messages), NEW m \in messages, Multi(m), NEW k \in DOMAIN m.calls
  PROVE  LET x == CallPart(messages, m, k)
             n == AnswerPart(messages, m, k)
         IN  n \in SplitMultiToolCalls(messages) /\ Adjoins(SplitMultiToolCalls(messages), x, n)
  <1>0. Placed(messages)
    BY DEF Answered
  <1> DEFINE x == CallPart(messages, m, k)
             n == AnswerPart(messages, m, k)
  <1>1. /\ k \in Nat /\ k >= 1 /\ n \in Pair(messages, m, k)
        /\ x.row = m.row /\ x.place = m.place /\ x.part = 2 * k - 1
        /\ n.row = m.row /\ n.place = m.place /\ n.part = 2 * k
    BY PairParts
  <1>2. n \in SplitMultiToolCalls(messages)
    BY <1>1, SplitCases
  <1> HIDE DEF x, n
  <1>3. m.row \in Nat /\ m.place \in Nat
    BY <1>0 DEF Placed
  <1>4. Before(x, n)
    BY <1>1, <1>3 DEF Before
  <1>5. ASSUME NEW y \in SplitMultiToolCalls(messages), Before(x, y), Before(y, n)
        PROVE  FALSE
    <2>1. CASE y \in messages
      <3>1. y.row \in Nat /\ y.place \in Nat /\ y.part = 0
        BY <1>0, <2>1 DEF Placed
      <3> QED BY <1>1, <1>3, <1>5, <3>1 DEF Before
    <2>2. CASE \E o \in messages : Multi(o) /\ \E l \in DOMAIN o.calls : y \in Pair(messages, o, l)
      <3>1. PICK o \in messages : Multi(o) /\ \E l \in DOMAIN o.calls : y \in Pair(messages, o, l)
        BY <2>2
      <3>5. PICK l \in DOMAIN o.calls : y \in Pair(messages, o, l)
        BY <3>1
      <3>2. /\ y.row = o.row /\ y.place = o.place /\ l \in Nat
            /\ y.part \in {2 * l - 1, 2 * l}
        BY <3>5, PairParts
      <3>3. o.row \in Nat /\ o.place \in Nat
        BY <1>0 DEF Placed
      <3>4. y.part # 2 * k - 1 /\ y.part # 2 * k => ~(2 * k - 1 < y.part /\ y.part < 2 * k)
        BY <1>1, <3>2
      <3> QED BY <1>1, <1>3, <1>5, <3>2, <3>3, <3>4 DEF Before
    <2> QED BY <1>5, <2>1, <2>2, SplitCases
  <1>6. Adjoins(SplitMultiToolCalls(messages), x, n)
    BY <1>4, <1>5 DEF Adjoins
  <1> QED BY <1>2, <1>6 DEF x, n

\* Split for proxies, every call stands alone with its answer behind it.
LEMMA SplitIsPaired ==
  ASSUME NEW messages, Answered(messages)
  PROVE  Paired(SplitMultiToolCalls(messages))
  <1> SUFFICES ASSUME NEW x \in SplitMultiToolCalls(messages), x.role = "assistant"
               PROVE  /\ Len(x.calls) <= 1
                      /\ x.calls # <<>> =>
                           \E n \in SplitMultiToolCalls(messages) :
                              /\ Adjoins(SplitMultiToolCalls(messages), x, n)
                              /\ n.role = "tool" /\ n.answers = x.calls[1]
    BY DEF Paired
  <1>1. CASE x \in messages /\ ~Multi(x)
    <2>1. x.calls \in Seq(Nat)
      BY <1>1 DEF Answered, Placed
    <2>2. Len(x.calls) <= 1
      BY <1>1, <2>1 DEF Multi
    <2> QED BY <1>1, <2>2, SinglePaired
  <1>2. CASE \E m \in messages : Multi(m) /\ \E k \in DOMAIN m.calls : x \in Pair(messages, m, k)
    <2>0. PICK m \in messages : Multi(m) /\ \E k \in DOMAIN m.calls : x \in Pair(messages, m, k)
      BY <1>2
    <2>1. PICK k \in DOMAIN m.calls : x \in Pair(messages, m, k)
      BY <2>0
    <2>2. x = CallPart(messages, m, k) /\ x.calls = <<m.calls[k]>>
      BY <2>1, PairParts
    <2>3. Len(x.calls) = 1 /\ x.calls[1] = m.calls[k]
      BY <2>2
    <2>4. /\ AnswerPart(messages, m, k).role = "tool"
          /\ AnswerPart(messages, m, k).answers = m.calls[k]
      BY PairParts
    <2> QED BY <2>0, <2>2, <2>3, <2>4, PartPaired
  <1> QED BY <1>1, <1>2, SplitCases

\* Splitting loses no result and makes none up.
LEMMA SplitLosesNothing ==
  ASSUME NEW messages, Answered(messages)
  PROVE  RealAnswers(SplitMultiToolCalls(messages)) = RealAnswers(messages)
  <1>1. ASSUME NEW n \in SplitMultiToolCalls(messages), n.role = "tool", n.real
        PROVE  \E x \in messages : x.role = "tool" /\ x.real /\ x.answers = n.answers
    <2>1. CASE \E m \in messages : Multi(m) /\ \E k \in DOMAIN m.calls : n \in Pair(messages, m, k)
      <3>0. PICK m \in messages : \E k \in DOMAIN m.calls : n \in Pair(messages, m, k)
        BY <2>1
      <3>1. PICK k \in DOMAIN m.calls : n \in Pair(messages, m, k)
        BY <3>0
      <3>2. CallPart(messages, m, k).role = "assistant"
        BY PairParts
      <3>3. n = AnswerPart(messages, m, k)
        BY <1>1, <3>1, <3>2, PairParts
      <3>4. n.answers = m.calls[k] /\ n.real = AnswerIn(messages, m, k).real
        BY <3>3, PairParts
      <3>5. PICK x \in messages : /\ x.role = "tool" /\ x.answers = m.calls[k]
                                  /\ AnswerIn(messages, m, k) = x
        BY AnswerFound DEF ToolRun
      <3> QED BY <1>1, <3>4, <3>5
    <2> QED BY <1>1, <2>1, SplitCases
  <1>2. ASSUME NEW n \in messages, n.role = "tool", n.real
        PROVE  \E x \in SplitMultiToolCalls(messages) :
                  x.role = "tool" /\ x.real /\ x.answers = n.answers
    <2>1. CASE n \in Consumed(messages)
      <3>1. PICK m \in messages : Multi(m) /\ n \in ToolRun(messages, m)
        BY <2>1 DEF Consumed
      <3>5. PICK o \in messages : \E k \in DOMAIN o.calls :
               /\ o.role = "assistant" /\ o.calls[k] = n.answers /\ n \in ToolRun(messages, o)
               /\ AnswerIn(messages, o, k) = n
        BY <1>2, CallFound
      <3>2. PICK k \in DOMAIN o.calls :
               /\ o.role = "assistant" /\ o.calls[k] = n.answers /\ n \in ToolRun(messages, o)
               /\ AnswerIn(messages, o, k) = n
        BY <3>5
      <3>3. o = m
        BY <3>1, <3>2, OneRun DEF Multi, Answered
      <3>4. /\ AnswerPart(messages, m, k) \in SplitMultiToolCalls(messages)
        BY <3>1, <3>3, PartPaired
      <3> QED BY <1>2, <3>2, <3>3, <3>4, PairParts
    <2>2. CASE n \notin Consumed(messages)
      BY <1>2, <2>2, SplitCases DEF Multi
    <2> QED BY <2>1, <2>2
  <1> QED BY <1>1, <1>2 DEF RealAnswers

\* Content put behind an event stays outside the tool messages.
LEMMA BlocksOutside ==
  ASSUME NEW messages, Placed(messages), NEW i, NEW x \in EventAnchor(messages, i)
  PROVE  ~Parts(messages, x)
  <1> SUFFICES ASSUME NEW n \in messages, Adjoins(messages, x, n), n.role = "tool" PROVE FALSE
    BY DEF Parts
  <1>1. PICK m \in messages : /\ x \in messages /\ x \in {m} \cup ToolRun(messages, m)
                              /\ \A y \in ToolRun(messages, m) : ~Before(x, y)
    BY DEF EventAnchor, Assistant
  <1>2. Before(x, n)
    BY DEF Adjoins
  <1>3. Before(m, n)
    BY <1>1, <1>2, Transitive DEF ToolRun
  <1>4. ASSUME NEW k \in messages, Before(m, k), Before(k, n) PROVE k.role = "tool"
    <2>1. k = x \/ Before(k, x)
      BY <1>1, <1>4, Ordered DEF Adjoins
    <2>2. x # m
      BY <1>1, <1>4, <2>1, Ordered
    <2> QED BY <1>1, <1>4, <2>1, <2>2 DEF ToolRun
  <1>5. n \in ToolRun(messages, m)
    BY <1>3, <1>4 DEF ToolRun
  <1> QED BY <1>1, <1>2, <1>5

\* A row with calls is an agent's, a row with results a tool's.
RowSound(row) ==
  /\ row.calls \in Seq(Nat) /\ row.results \in Seq(Nat) /\ row.summary \in BOOLEAN
  /\ row.calls # <<>> => row.kind = "agent"
  /\ row.results # <<>> => row.kind = "tool"

\* Every call is made once, and answered at most once, by the next tool row behind it.
OnceCalled(rows) ==
  \A i, j \in DOMAIN rows : \A k \in DOMAIN rows[i].calls, l \in DOMAIN rows[j].calls :
    rows[i].calls[k] = rows[j].calls[l] => i = j /\ k = l
OnceAnswered(rows) ==
  \A i, j \in DOMAIN rows : \A k \in DOMAIN rows[i].results, l \in DOMAIN rows[j].results :
    rows[i].results[k] = rows[j].results[l] => i = j /\ k = l
NextTool(rows, i, j) ==
  i < j /\ \A t \in DOMAIN rows : i < t /\ t < j => rows[t].kind # "tool"
AnsweredNext(rows) ==
  \A i, j \in DOMAIN rows : \A k \in DOMAIN rows[i].calls, l \in DOMAIN rows[j].results :
    rows[i].calls[k] = rows[j].results[l] => NextTool(rows, i, j)

RowsSound(rows, N) ==
  /\ N \in Nat /\ DOMAIN rows \subseteq 1..N
  /\ \A i \in DOMAIN rows : RowSound(rows[i])
  /\ OnceCalled(rows) /\ OnceAnswered(rows) /\ AnsweredNext(rows)

\* What Boundary and Oldest are for.
LEMMA BoundaryOf ==
  ASSUME NEW N, NEW rows, RowsSound(rows, N)
  PROVE  /\ Boundary(rows) \in Nat
         /\ \A i \in DOMAIN rows : rows[i].summary => i <= Boundary(rows)
         /\ Boundary(rows) # 0 => Boundary(rows) \in DOMAIN rows /\ rows[Boundary(rows)].summary
  <1> DEFINE summed == {i \in DOMAIN rows : rows[i].summary}
  <1>1. summed \in SUBSET (0..N) /\ N \in Nat
    BY DEF RowsSound
  <1>2. CASE summed = {}
    BY <1>2 DEF Boundary
  <1>3. CASE summed # {}
    <2>1. Max(summed) \in summed /\ \A y \in summed : Max(summed) >= y
      BY <1>1, <1>3, Greatest
    <2>2. Boundary(rows) = Max(summed)
      BY <1>3 DEF Boundary
    <2>3. \A i \in DOMAIN rows : i \in Nat
      BY DEF RowsSound
    <2> QED BY <2>1, <2>2, <2>3
  <1> QED BY <1>2, <1>3

\* The oldest row that is sent is not behind the boundary, and not before any message pushed there.
LEMMA OldestOf ==
  ASSUME NEW N, NEW rows, RowsSound(rows, N)
  PROVE  /\ Oldest(rows) \in Nat /\ Oldest(rows) <= Boundary(rows)
         /\ \A i \in DOMAIN rows : /\ i <= Boundary(rows) /\ rows[i].kind # "tool"
                                   /\ Render(rows, i) # {}
                                   => i <= Oldest(rows)
  <1> DEFINE pushed == {i \in DOMAIN rows : /\ i <= Boundary(rows)
                                            /\ rows[i].kind # "tool" /\ Render(rows, i) # {}}
  <1>1. pushed \in SUBSET (0..N) /\ N \in Nat
    BY DEF RowsSound
  <1>2. CASE pushed = {}
    BY <1>2, BoundaryOf DEF Oldest
  <1>3. CASE pushed # {}
    <2>1. Max(pushed) \in pushed /\ \A y \in pushed : Max(pushed) >= y
      BY <1>1, <1>3, Greatest
    <2>2. Oldest(rows) = Max(pushed)
      BY <1>3 DEF Oldest
    <2>3. \A i \in DOMAIN rows : i \in Nat
      BY DEF RowsSound
    <2> HIDE DEF pushed
    <2>4. Oldest(rows) \in pushed /\ \A y \in pushed : Oldest(rows) >= y
      BY <2>1, <2>2
    <2> USE DEF pushed
    <2>5. Oldest(rows) \in DOMAIN rows /\ Oldest(rows) <= Boundary(rows)
      BY <2>4
    <2>6. \A y \in pushed : y \in Nat /\ y <= Oldest(rows)
      BY <2>3, <2>4, <2>5
    <2> QED BY <2>3, <2>5, <2>6
  <1> QED BY <1>2, <1>3

-----------------------------------------------------------------------------
(* The messages of a request.                                               *)

\* The messages of row i with its calls, if it is shown as an assistant.
Shows(rows, i) ==
  i \in DOMAIN rows /\ rows[i].kind = "agent" /\ ~rows[i].summary /\ rows[i].calls # <<>>

Caller(rows, i)         == ToMessage("assistant", i, 0, rows[i].calls, 0, TRUE)
Placeholder(rows, i, k) == ToMessage("tool", i, k, <<>>, rows[i].calls[k], FALSE)
Result(rows, i, k)      == ToMessage("tool", i, k, <<>>, rows[i].results[k], TRUE)

\* What a row is rendered to.
LEMMA RenderShape ==
  ASSUME NEW rows, NEW i, NEW m \in Render(rows, i)
  PROVE  \/ /\ m.role # "tool" /\ m.calls = <<>> /\ m.place = 0
            /\ m = ToMessage(m.role, i, 0, <<>>, 0, TRUE)
         \/ rows[i].kind = "agent" /\ ~rows[i].summary /\ m = Caller(rows, i)
         \/ /\ rows[i].kind = "agent" /\ ~rows[i].summary
            /\ \E k \in DOMAIN rows[i].calls :
                 rows[i].calls[k] \notin ResultIds(rows) /\ m = Placeholder(rows, i, k)
         \/ /\ rows[i].kind = "tool"
            /\ \E k \in DOMAIN rows[i].results :
                 rows[i].results[k] \in CallIds(rows) /\ m = Result(rows, i, k)
  <1>1. CASE rows[i].kind = "tool"
    <2>1. Render(rows, i) = RenderResults(rows, i)
      BY <1>1 DEF Render
    <2> QED BY <1>1, <2>1 DEF RenderResults, Result
  <1>2. CASE rows[i].kind # "tool" /\ rows[i].summary
    <2>1. Render(rows, i) = {ToMessage("summary", i, 0, <<>>, 0, TRUE)}
      BY <1>2 DEF Render
    <2> QED BY <1>2, <2>1 DEF ToMessage
  <1>3. CASE rows[i].kind = "agent" /\ ~rows[i].summary
    <2>1. Render(rows, i) = RenderAgent(rows, i)
      BY <1>3 DEF Render
    <2>2. \/ m = Caller(rows, i)
          \/ \E k \in DOMAIN rows[i].calls :
                 rows[i].calls[k] \notin ResultIds(rows) /\ m = Placeholder(rows, i, k)
      BY <2>1 DEF RenderAgent, Caller, Placeholder
    <2> QED BY <1>3, <2>2
  <1>4. CASE rows[i].kind # "tool" /\ ~rows[i].summary /\ rows[i].kind # "agent"
    <2>1. Render(rows, i) = {ToMessage("user", i, 0, <<>>, 0, TRUE)}
      BY <1>4, Zenon DEF Render
    <2> QED BY <1>4, <2>1 DEF ToMessage
  <1> QED BY <1>1, <1>2, <1>3, <1>4

\* A row with calls yields them, and a placeholder for each without a result.
LEMMA RenderedCalls ==
  ASSUME NEW rows, NEW i, rows[i].kind = "agent", ~rows[i].summary, rows[i].calls # <<>>
  PROVE  /\ Caller(rows, i) \in Render(rows, i)
         /\ \A k \in DOMAIN rows[i].calls :
              rows[i].calls[k] \notin ResultIds(rows) => Placeholder(rows, i, k) \in Render(rows, i)
  <1>1. Render(rows, i) = RenderAgent(rows, i)
    BY DEF Render
  <1> QED BY <1>1 DEF RenderAgent, Caller, Placeholder

\* A tool row yields the results whose calls are replayed.
LEMMA RenderedResults ==
  ASSUME NEW rows, NEW i, rows[i].kind = "tool", NEW k \in DOMAIN rows[i].results,
         rows[i].results[k] \in CallIds(rows)
  PROVE  Result(rows, i, k) \in Render(rows, i)
  <1>1. Render(rows, i) = RenderResults(rows, i)
    BY DEF Render
  <1> QED BY <1>1 DEF RenderResults, Result

\* The ids the scan collects.
LEMMA IdsOf ==
  ASSUME NEW rows, NEW c
  PROVE  /\ c \in CallIds(rows) <=>
              \E i \in DOMAIN rows :
                i > Boundary(rows) /\ \E k \in DOMAIN rows[i].calls : rows[i].calls[k] = c
         /\ c \in ResultIds(rows) <=>
              \E i \in DOMAIN rows :
                i > Boundary(rows) /\ \E k \in DOMAIN rows[i].results : rows[i].results[k] = c
  BY DEF CallIds, ResultIds, Scanned, ToSet

\* The rows of a request, and the messages it sends.
Sent(rows) == {i \in DOMAIN rows : i >= Oldest(rows)}
Request(rows) == UNION {Render(rows, i) : i \in Sent(rows)}

\* What a row is rendered to stands at the place of the row.
LEMMA RenderPlaced ==
  ASSUME NEW N, NEW rows, RowsSound(rows, N), NEW i \in DOMAIN rows, NEW m \in Render(rows, i)
  PROVE  /\ DOMAIN m = MsgFields /\ m.row = i /\ m.place \in Nat /\ m.part = 0
         /\ m.calls \in Seq(Nat) /\ (m.calls # <<>> => m.role = "assistant")
  <1>1. RowSound(rows[i])
    BY DEF RowsSound
  <1>2. CASE m = ToMessage(m.role, i, 0, <<>>, 0, TRUE)
    <2>1. m.row = i /\ m.place = 0 /\ m.part = 0 /\ m.calls = <<>> /\ DOMAIN m = MsgFields
      BY <1>2 DEF ToMessage, MsgFields
    <2> QED BY <2>1
  <1>3. CASE m = Caller(rows, i)
    BY <1>1, <1>3 DEF Caller, ToMessage, MsgFields, RowSound
  <1>4. ASSUME NEW k \in DOMAIN rows[i].calls, m = Placeholder(rows, i, k)
        PROVE  /\ m.row = i /\ m.place = k /\ m.part = 0 /\ m.calls = <<>>
               /\ DOMAIN m = MsgFields /\ k \in Nat
    BY <1>1, <1>4 DEF Placeholder, ToMessage, MsgFields, RowSound
  <1>5. ASSUME NEW k \in DOMAIN rows[i].results, m = Result(rows, i, k)
        PROVE  /\ m.row = i /\ m.place = k /\ m.part = 0 /\ m.calls = <<>>
               /\ DOMAIN m = MsgFields /\ k \in Nat
    BY <1>1, <1>5 DEF Result, ToMessage, MsgFields, RowSound
  <1>6. CASE \E k \in DOMAIN rows[i].calls : m = Placeholder(rows, i, k)
    <2>1. PICK k \in DOMAIN rows[i].calls : m = Placeholder(rows, i, k)
      BY <1>6
    <2>2. /\ m.row = i /\ m.place = k /\ m.part = 0 /\ m.calls = <<>>
          /\ DOMAIN m = MsgFields /\ k \in Nat
      BY <1>4, <2>1
    <2> QED BY <2>2
  <1>7. CASE \E k \in DOMAIN rows[i].results : m = Result(rows, i, k)
    <2>1. PICK k \in DOMAIN rows[i].results : m = Result(rows, i, k)
      BY <1>7
    <2>2. /\ m.row = i /\ m.place = k /\ m.part = 0 /\ m.calls = <<>>
          /\ DOMAIN m = MsgFields /\ k \in Nat
      BY <1>5, <2>1
    <2> QED BY <2>2
  <1>8. \/ m = ToMessage(m.role, i, 0, <<>>, 0, TRUE) \/ m = Caller(rows, i)
        \/ \E k \in DOMAIN rows[i].calls : m = Placeholder(rows, i, k)
        \/ \E k \in DOMAIN rows[i].results : m = Result(rows, i, k)
    BY RenderShape
  <1> QED BY <1>2, <1>3, <1>6, <1>7, <1>8

\* Nothing a row is rendered to shares a place.
LEMMA RenderSamePlace ==
  ASSUME NEW N, NEW rows, RowsSound(rows, N), NEW i \in DOMAIN rows,
         NEW m \in Render(rows, i), NEW n \in Render(rows, i), m.place = n.place
  PROVE  m = n
  <1>1. RowSound(rows[i])
    BY DEF RowsSound
  <1>2. CASE rows[i].kind = "tool"
    <2>1. Render(rows, i) = RenderResults(rows, i)
      BY <1>2 DEF Render
    <2>2. PICK k \in DOMAIN rows[i].results : m = Result(rows, i, k)
      BY <2>1 DEF RenderResults, Result
    <2>3. PICK l \in DOMAIN rows[i].results : n = Result(rows, i, l)
      BY <2>1 DEF RenderResults, Result
    <2>4. k = l
      BY <2>2, <2>3 DEF Result, ToMessage
    <2> QED BY <2>2, <2>3, <2>4
  <1>3. CASE rows[i].kind # "tool" /\ rows[i].summary
    BY <1>3 DEF Render
  <1>4. CASE rows[i].kind = "agent" /\ ~rows[i].summary
    <2>1. Render(rows, i) = RenderAgent(rows, i)
      BY <1>4 DEF Render
    <2>2. ASSUME NEW x \in Render(rows, i)
          PROVE  \/ x = Caller(rows, i) /\ x.place = 0
                 \/ \E k \in DOMAIN rows[i].calls :
                      x = Placeholder(rows, i, k) /\ x.place = k /\ k > 0
      <3>1. CASE x = Caller(rows, i)
        BY <3>1 DEF Caller, ToMessage
      <3>2. CASE \E k \in DOMAIN rows[i].calls : x = Placeholder(rows, i, k)
        <4>1. PICK k \in DOMAIN rows[i].calls : x = Placeholder(rows, i, k)
          BY <3>2
        <4>2. x.place = k
          BY <4>1 DEF Placeholder, ToMessage
        <4>3. k > 0
          BY <1>1 DEF RowSound
        <4> QED BY <4>1, <4>2, <4>3
      <3> QED BY <2>1, <3>1, <3>2 DEF RenderAgent, Caller, Placeholder
    <2> QED BY <2>2
  <1>5. CASE rows[i].kind # "tool" /\ ~rows[i].summary /\ rows[i].kind # "agent"
    <2>1. Render(rows, i) = {ToMessage("user", i, 0, <<>>, 0, TRUE)}
      BY <1>5, Zenon DEF Render
    <2> QED BY <2>1
  <1> QED BY <1>2, <1>3, <1>4, <1>5

\* The messages of a request have places of their own.
LEMMA RequestPlaced ==
  ASSUME NEW N, NEW rows, RowsSound(rows, N)
  PROVE  Placed(Request(rows))
  <1>1. \A m \in Request(rows) : \E i \in DOMAIN rows : m \in Render(rows, i)
    BY DEF Request, Sent
  <1>2. ASSUME NEW m \in Request(rows)
        PROVE  /\ DOMAIN m = MsgFields /\ m.row \in Nat /\ m.place \in Nat /\ m.part = 0
               /\ m.calls \in Seq(Nat) /\ (m.calls # <<>> => m.role = "assistant")
    <2>1. PICK i \in DOMAIN rows : m \in Render(rows, i)
      BY <1>1
    <2>2. i \in Nat
      BY DEF RowsSound
    <2> QED BY <2>1, <2>2, RenderPlaced
  <1>3. ASSUME NEW m \in Request(rows), NEW n \in Request(rows), m.row = n.row, m.place = n.place
        PROVE  m = n
    <2>1. PICK i \in DOMAIN rows : m \in Render(rows, i)
      BY <1>1
    <2>2. PICK j \in DOMAIN rows : n \in Render(rows, j)
      BY <1>1
    <2>3. i = j
      BY <1>3, <2>1, <2>2, RenderPlaced
    <2> QED BY <1>3, <2>1, <2>2, <2>3, RenderSamePlace
  <1> QED BY <1>2, <1>3 DEF Placed

-----------------------------------------------------------------------------
(* Every call of a request is answered once, behind it.                     *)

\* A row whose calls are sent has been scanned, or there is nothing behind it that
\* answers them.
LEMMA CallsScanned ==
  ASSUME NEW N, NEW rows, RowsSound(rows, N), NEW i \in Sent(rows), Shows(rows, i),
         NEW k \in DOMAIN rows[i].calls, rows[i].calls[k] \in ResultIds(rows)
  PROVE  i > Boundary(rows)
  <1> SUFFICES ASSUME i <= Boundary(rows) PROVE FALSE
    BY BoundaryOf DEF Sent, RowsSound
  <1> DEFINE b == Boundary(rows)
  <1>1. i \in DOMAIN rows /\ i >= Oldest(rows) /\ i \in Nat /\ i > 0
    BY DEF Sent, RowsSound
  <1>2. b \in DOMAIN rows /\ rows[b].summary /\ b \in Nat
    BY <1>1, BoundaryOf
  <1>3. i < b
    BY <1>1, <1>2 DEF Shows
  <1>4. CASE rows[b].kind # "tool"
    <2>1. Render(rows, b) = {ToMessage("summary", b, 0, <<>>, 0, TRUE)}
      BY <1>2, <1>4 DEF Render
    <2>2. b <= Oldest(rows)
      <3>1. b <= b /\ Render(rows, b) # {}
        BY <1>2, <2>1
      <3> QED BY <1>2, <1>4, <3>1, OldestOf
    <2> QED BY <1>1, <1>2, <1>3, <2>2, OldestOf
  <1>5. CASE rows[b].kind = "tool"
    <2>1. PICK j \in DOMAIN rows : j > b /\ \E l \in DOMAIN rows[j].results :
                                               rows[j].results[l] = rows[i].calls[k]
      BY IdsOf
    <2>2. NextTool(rows, i, j)
      BY <1>1, <2>1 DEF RowsSound, AnsweredNext
    <2>3. j \in Nat
      BY DEF RowsSound
    <2> QED BY <1>2, <1>3, <1>5, <2>1, <2>2, <2>3 DEF NextTool
  <1> QED BY <1>4, <1>5

\* The tool messages of a request.
LEMMA ToolMessage ==
  ASSUME NEW N, NEW rows, RowsSound(rows, N), NEW n \in Request(rows), n.role = "tool"
  PROVE  \/ \E i \in Sent(rows) : Shows(rows, i) /\ \E k \in DOMAIN rows[i].calls :
               rows[i].calls[k] \notin ResultIds(rows) /\ n = Placeholder(rows, i, k)
         \/ \E j \in Sent(rows) : rows[j].kind = "tool" /\ \E l \in DOMAIN rows[j].results :
               rows[j].results[l] \in CallIds(rows) /\ n = Result(rows, j, l)
  <1>1. PICK i \in Sent(rows) : n \in Render(rows, i)
    BY DEF Request
  <1>2. RowSound(rows[i]) /\ i \in DOMAIN rows
    BY DEF RowsSound, Sent
  <1>3. Caller(rows, i).role # "tool"
    BY DEF Caller, ToMessage
  <1>4. ASSUME NEW k \in DOMAIN rows[i].calls PROVE rows[i].calls # <<>>
    BY <1>2 DEF RowSound
  <1> QED BY <1>1, <1>2, <1>3, <1>4, RenderShape DEF Shows

\* The answers to the k-th call of row i.
LEMMA AnswersToCall ==
  ASSUME NEW N, NEW rows, RowsSound(rows, N), NEW i \in Sent(rows), Shows(rows, i),
         NEW k \in DOMAIN rows[i].calls
  PROVE  \E n \in Request(rows) : /\ n.role = "tool" /\ n.answers = rows[i].calls[k]
                                  /\ Before(Caller(rows, i), n)
                                  /\ \A x \in Request(rows) :
                                       x.role = "tool" /\ x.answers = rows[i].calls[k] => x = n
  <1> DEFINE c == rows[i].calls[k]
  <1>1. /\ i \in DOMAIN rows /\ i \in Nat /\ RowSound(rows[i])
    BY DEF Sent, RowsSound
  <1>2. k \in Nat /\ k > 0
    BY <1>1 DEF RowSound
  <1>3. Caller(rows, i).row = i /\ Caller(rows, i).place = 0 /\ Caller(rows, i).part = 0
    BY DEF Caller, ToMessage
  <1>4. ASSUME NEW x \in Request(rows), x.role = "tool", x.answers = c
        PROVE  \/ x = Placeholder(rows, i, k) /\ c \notin ResultIds(rows)
               \/ \E j \in Sent(rows) : \E l \in DOMAIN rows[j].results :
                    rows[j].results[l] = c /\ c \in CallIds(rows) /\ x = Result(rows, j, l)
    <2>1. CASE \E o \in Sent(rows) : Shows(rows, o) /\ \E l \in DOMAIN rows[o].calls :
               rows[o].calls[l] \notin ResultIds(rows) /\ x = Placeholder(rows, o, l)
      <3>1. PICK o \in Sent(rows) : \E l \in DOMAIN rows[o].calls :
               rows[o].calls[l] \notin ResultIds(rows) /\ x = Placeholder(rows, o, l)
        BY <2>1
      <3>2. PICK l \in DOMAIN rows[o].calls :
               rows[o].calls[l] \notin ResultIds(rows) /\ x = Placeholder(rows, o, l)
        BY <3>1
      <3>3. rows[o].calls[l] = c
        BY <1>4, <3>2 DEF Placeholder, ToMessage
      <3>4. o = i /\ l = k
        BY <1>1, <3>3 DEF Sent, RowsSound, OnceCalled
      <3> QED BY <3>2, <3>3, <3>4
    <2>2. CASE \E j \in Sent(rows) : rows[j].kind = "tool" /\ \E l \in DOMAIN rows[j].results :
               rows[j].results[l] \in CallIds(rows) /\ x = Result(rows, j, l)
      <3>1. PICK j \in Sent(rows) : \E l \in DOMAIN rows[j].results :
               rows[j].results[l] \in CallIds(rows) /\ x = Result(rows, j, l)
        BY <2>2
      <3>2. PICK l \in DOMAIN rows[j].results :
               rows[j].results[l] \in CallIds(rows) /\ x = Result(rows, j, l)
        BY <3>1
      <3>3. rows[j].results[l] = c
        BY <1>4, <3>2 DEF Result, ToMessage
      <3> QED BY <3>2, <3>3
    <2> QED BY <1>4, <2>1, <2>2, ToolMessage
  <1>5. CASE c \notin ResultIds(rows)
    <2>1. Placeholder(rows, i, k) \in Request(rows)
      BY <1>5, RenderedCalls DEF Request, Shows
    <2>2. /\ Placeholder(rows, i, k).role = "tool" /\ Placeholder(rows, i, k).answers = c
          /\ Placeholder(rows, i, k).row = i /\ Placeholder(rows, i, k).place = k
      BY DEF Placeholder, ToMessage
    <2>3. Before(Caller(rows, i), Placeholder(rows, i, k))
      BY <1>1, <1>2, <1>3, <2>2 DEF Before
    <2>4. ASSUME NEW x \in Request(rows), x.role = "tool", x.answers = c
          PROVE  x = Placeholder(rows, i, k)
      <3> SUFFICES ASSUME NEW j \in Sent(rows), NEW l \in DOMAIN rows[j].results,
                          rows[j].results[l] = c, c \in CallIds(rows)
                   PROVE  FALSE
        BY <1>4, <2>4
      <3>1. j \in DOMAIN rows /\ j \in Nat
        BY DEF Sent, RowsSound
      <3>2. j <= Boundary(rows)
        BY <1>5, <3>1, IdsOf, BoundaryOf
      <3>3. PICK o \in DOMAIN rows :
              o > Boundary(rows) /\ \E m \in DOMAIN rows[o].calls : rows[o].calls[m] = c
        BY IdsOf
      <3>4. NextTool(rows, o, j)
        BY <3>1, <3>3 DEF RowsSound, AnsweredNext
      <3>5. o < j /\ o \in Nat
        BY <3>4 DEF NextTool, RowsSound
      <3> QED BY <3>1, <3>2, <3>3, <3>5, BoundaryOf
    <2> QED BY <2>1, <2>2, <2>3, <2>4
  <1>6. CASE c \in ResultIds(rows)
    <2>1. i > Boundary(rows)
      BY <1>6, CallsScanned
    <2>2. c \in CallIds(rows)
      BY <1>1, <2>1, IdsOf
    <2>3. PICK j \in DOMAIN rows : j > Boundary(rows) /\ \E l \in DOMAIN rows[j].results :
                                                           rows[j].results[l] = c
      BY <1>6, IdsOf
    <2>4. PICK l \in DOMAIN rows[j].results : rows[j].results[l] = c
      BY <2>3
    <2>5. j \in Nat /\ i < j
      BY <1>1, <2>4 DEF RowsSound, AnsweredNext, NextTool
    <2>6. j \in Sent(rows)
      BY <2>3, <2>5, BoundaryOf, OldestOf DEF Sent
    <2>7. rows[j].kind = "tool"
      BY <2>4 DEF RowsSound, RowSound
    <2>8. Result(rows, j, l) \in Request(rows)
      BY <2>2, <2>4, <2>6, <2>7, RenderedResults DEF Request
    <2>9. /\ Result(rows, j, l).role = "tool" /\ Result(rows, j, l).answers = c
          /\ Result(rows, j, l).row = j
      BY <2>4 DEF Result, ToMessage
    <2>10. Before(Caller(rows, i), Result(rows, j, l))
      BY <1>3, <2>5, <2>9 DEF Before
    <2>11. ASSUME NEW x \in Request(rows), x.role = "tool", x.answers = c
           PROVE  x = Result(rows, j, l)
      <3>1. PICK o \in Sent(rows) : \E m \in DOMAIN rows[o].results :
                 rows[o].results[m] = c /\ x = Result(rows, o, m)
        BY <1>4, <1>6, <2>11
      <3>2. PICK m \in DOMAIN rows[o].results : rows[o].results[m] = c /\ x = Result(rows, o, m)
        BY <3>1
      <3>3. o = j /\ m = l
        BY <2>4, <3>2 DEF Sent, RowsSound, OnceAnswered
      <3> QED BY <3>2, <3>3
    <2> QED BY <2>8, <2>9, <2>10, <2>11
  <1> QED BY <1>5, <1>6

\* A message with calls is the assistant of a row that shows them.
LEMMA CallMessage ==
  ASSUME NEW N, NEW rows, RowsSound(rows, N), NEW m \in Request(rows), m.calls # <<>>
  PROVE  \E i \in Sent(rows) : Shows(rows, i) /\ m = Caller(rows, i) /\ m.calls = rows[i].calls
  <1>1. PICK i \in Sent(rows) : m \in Render(rows, i)
    BY DEF Request
  <1>2. i \in DOMAIN rows
    BY DEF Sent
  <1>3. \A k : Placeholder(rows, i, k).calls = <<>> /\ Result(rows, i, k).calls = <<>>
    BY DEF Placeholder, Result, ToMessage
  <1>4. rows[i].kind = "agent" /\ ~rows[i].summary /\ m = Caller(rows, i)
    <2>1. (\E k : m = Placeholder(rows, i, k) \/ m = Result(rows, i, k)) => m.calls = <<>>
      BY <1>3
    <2>2. \/ m.calls = <<>>
          \/ rows[i].kind = "agent" /\ ~rows[i].summary /\ m = Caller(rows, i)
          \/ \E k : m = Placeholder(rows, i, k) \/ m = Result(rows, i, k)
      BY <1>1, RenderShape, Zenon
    <2> QED BY <2>1, <2>2
  <1>5. m.calls = rows[i].calls
    BY <1>4 DEF Caller, ToMessage
  <1> QED BY <1>2, <1>4, <1>5 DEF Shows

\* Every call of a request has one answer behind it, every answer its call before it.
LEMMA RequestAnswered ==
  ASSUME NEW N, NEW rows, RowsSound(rows, N)
  PROVE  AnsweredOnce(Request(rows))
  <1>1. ASSUME NEW m \in Request(rows), NEW c \in ToSet(m.calls)
        PROVE  \E n \in Request(rows) : Answers(Request(rows), c) = {n} /\ Before(m, n)
    <2>1. PICK k \in DOMAIN m.calls : c = m.calls[k]
      BY <1>1 DEF ToSet
    <2>2. m.calls # <<>>
      <3>1. Placed(Request(rows))
        BY RequestPlaced
      <3> QED BY <2>1, <3>1 DEF Placed
    <2>3. PICK i \in Sent(rows) : Shows(rows, i) /\ m = Caller(rows, i) /\ m.calls = rows[i].calls
      BY <2>2, CallMessage
    <2>4. PICK n \in Request(rows) : /\ n.role = "tool" /\ n.answers = rows[i].calls[k]
                                    /\ Before(Caller(rows, i), n)
                                    /\ \A x \in Request(rows) :
                                         x.role = "tool" /\ x.answers = rows[i].calls[k] => x = n
      BY <2>1, <2>3, AnswersToCall
    <2>5. Answers(Request(rows), c) = {n}
      BY <2>1, <2>3, <2>4 DEF Answers
    <2> QED BY <2>3, <2>4, <2>5
  <1>2. ASSUME NEW n \in Request(rows), n.role = "tool"
        PROVE  \E m \in Request(rows) : n.answers \in ToSet(m.calls) /\ Before(m, n)
    <2>1. ASSUME NEW i \in Sent(rows), Shows(rows, i), NEW k \in DOMAIN rows[i].calls,
                 n.answers = rows[i].calls[k], Before(Caller(rows, i), n)
          PROVE  \E m \in Request(rows) : n.answers \in ToSet(m.calls) /\ Before(m, n)
      <3>1. Caller(rows, i) \in Request(rows)
        BY <2>1, RenderedCalls DEF Request, Shows
      <3>2. Caller(rows, i).calls = rows[i].calls
        BY DEF Caller, ToMessage
      <3> QED BY <2>1, <3>1, <3>2 DEF ToSet
    <2>2. CASE \E i \in Sent(rows) : Shows(rows, i) /\ \E k \in DOMAIN rows[i].calls :
               rows[i].calls[k] \notin ResultIds(rows) /\ n = Placeholder(rows, i, k)
      <3>1. PICK i \in Sent(rows) : Shows(rows, i) /\ \E k \in DOMAIN rows[i].calls :
                 n = Placeholder(rows, i, k)
        BY <2>2
      <3>2. PICK k \in DOMAIN rows[i].calls : n = Placeholder(rows, i, k)
        BY <3>1
      <3>3. k > 0
        BY DEF Sent, RowsSound, RowSound
      <3>4. n.answers = rows[i].calls[k] /\ Before(Caller(rows, i), n)
        BY <3>2, <3>3 DEF Caller, Placeholder, ToMessage, Before
      <3> QED BY <2>1, <3>1, <3>4
    <2>3. CASE \E j \in Sent(rows) : rows[j].kind = "tool" /\ \E l \in DOMAIN rows[j].results :
               rows[j].results[l] \in CallIds(rows) /\ n = Result(rows, j, l)
      <3>1. PICK j \in Sent(rows) : \E l \in DOMAIN rows[j].results :
               rows[j].results[l] \in CallIds(rows) /\ n = Result(rows, j, l)
        BY <2>3
      <3>2. PICK l \in DOMAIN rows[j].results :
               rows[j].results[l] \in CallIds(rows) /\ n = Result(rows, j, l)
        BY <3>1
      <3>3. PICK i \in DOMAIN rows : i > Boundary(rows) /\ \E k \in DOMAIN rows[i].calls :
                 rows[i].calls[k] = rows[j].results[l]
        BY <3>2, IdsOf
      <3>4. PICK k \in DOMAIN rows[i].calls : rows[i].calls[k] = rows[j].results[l]
        BY <3>3
      <3>5. i < j
        BY <3>2, <3>4 DEF Sent, RowsSound, AnsweredNext, NextTool
      <3>6. RowSound(rows[i]) /\ i \in Nat
        BY DEF RowsSound
      <3>7. Shows(rows, i)
        BY <3>3, <3>4, <3>6, BoundaryOf DEF Shows, RowSound
      <3>8. i \in Sent(rows)
        BY <3>3, <3>6, BoundaryOf, OldestOf DEF Sent
      <3>9. n.answers = rows[i].calls[k] /\ Before(Caller(rows, i), n)
        BY <3>2, <3>4, <3>5 DEF Caller, Result, ToMessage, Before
      <3> QED BY <2>1, <3>7, <3>8, <3>9
    <2> QED BY <1>2, <2>2, <2>3, ToolMessage
  <1> QED BY <1>1, <1>2 DEF AnsweredOnce

\* What the history must satisfy for the requests of every agent.
LEMMA RequestsSound ==
  ASSUME NEW h, NEW N, RowsSound(h, N), NEW agent
  PROVE  LET messages == Replay(h, agent) IN
           /\ AnsweredOnce(messages) /\ SplitPairs(messages)
           /\ BlocksOutsideResults(Rows(h, agent), messages)
  <1> DEFINE rows == Rows(h, agent)
  <1>1. RowsSound(rows, N)
    <2>1. DOMAIN rows \subseteq DOMAIN h /\ \A i \in DOMAIN rows : rows[i] = h[i]
      BY DEF Rows
    <2> HIDE DEF rows
    <2>2. DOMAIN rows \subseteq 1..N /\ N \in Nat
      BY <2>1 DEF RowsSound
    <2>3. \A i \in DOMAIN rows : RowSound(rows[i])
      BY <2>1 DEF RowsSound
    <2>4. OnceCalled(rows) /\ OnceAnswered(rows)
      BY <2>1 DEF RowsSound, OnceCalled, OnceAnswered
    <2>5. AnsweredNext(rows)
      BY <2>1 DEF RowsSound, AnsweredNext, NextTool
    <2> QED BY <2>2, <2>3, <2>4, <2>5 DEF RowsSound
  <1>2. Replay(h, agent) = Request(rows)
    BY DEF Replay, Request, Sent
  <1> HIDE DEF rows
  <1>3. AnsweredOnce(Request(rows)) /\ Placed(Request(rows))
    BY <1>1, RequestAnswered, RequestPlaced
  <1>4. ASSUME Adjacent(Request(rows))
        PROVE  /\ Paired(SplitMultiToolCalls(Request(rows)))
               /\ RealAnswers(SplitMultiToolCalls(Request(rows))) = RealAnswers(Request(rows))
    BY <1>3, <1>4, SplitIsPaired, SplitLosesNothing DEF Answered
  <1>5. BlocksOutsideResults(rows, Request(rows))
    BY <1>3, BlocksOutside DEF BlocksOutsideResults
  <1> QED BY <1>2, <1>3, <1>4, <1>5 DEF SplitPairs, rows

-----------------------------------------------------------------------------
(* The history and the plan of the loop, along every step.                  *)

\* A row has these fields.
RowFields == {"agent", "kind", "text", "calls", "results", "summary"}

\* The history h, when n calls were made.
HistSound(h, n) ==
  /\ n \in Nat
  /\ \E S : h \in Seq(S)
  /\ \A i \in DOMAIN h : DOMAIN h[i] = RowFields
  /\ RowsSound(h, Len(h))
  /\ \A i \in DOMAIN h : /\ \A k \in DOMAIN h[i].calls : h[i].calls[k] <= n
                         /\ \A k \in DOMAIN h[i].results : h[i].results[k] <= n

\* No tool row is behind the row of a request that is on its way.
Flying(h, l) ==
  /\ l.row \in DOMAIN h /\ h[l.row].kind = "agent"
  /\ \A j \in DOMAIN h : j > l.row => h[j].kind # "tool"

\* The plan is what is left of the calls of the row, and its results belong to them.
PlannedCall == [id : Nat, tool : {"plain", "activate", "deactivate"}]
PlanSound(calls, l) ==
  /\ l.plan \in Seq(PlannedCall) /\ l.results \in Seq(Nat)
  /\ l.plan # <<>> => /\ Len(l.plan) = Len(calls)
                      /\ \A i \in DOMAIN calls : l.plan[i].id = calls[i]
  /\ l.results # <<>> => Len(l.results) = 1 /\ \E k \in DOMAIN calls : calls[k] = l.results[1]
  /\ l.at \in {"cleared", "summing"} => l.plan # <<>>

Executing(l) == l.at \in {"approve", "exec", "cleared"} \/ (l.at = "summing" /\ l.leaving # None)

LoopSound(h, l) ==
  /\ l.at \in {"build", "stream"} => Flying(h, l) /\ h[l.row].calls = <<>> /\ l.results = <<>>
  /\ Executing(l) => Flying(h, l) /\ PlanSound(h[l.row].calls, l)

TalkInv == HistSound(history, made) /\ LoopSound(history, loop)

\* g says of kinds, calls and results what h says, and behind it nothing of tools.
Follows(h, g) ==
  /\ DOMAIN h \subseteq DOMAIN g
  /\ \A i \in DOMAIN h : /\ g[i].kind = h[i].kind /\ g[i].calls = h[i].calls
                         /\ g[i].results = h[i].results
  /\ \A j \in DOMAIN g \ DOMAIN h : g[j].kind # "tool"

\* The loop is sound for a history that follows.
LEMMA LoopFollows ==
  ASSUME NEW h, NEW g, NEW l, LoopSound(h, l), Follows(h, g)
  PROVE  LoopSound(g, l)
  <1>1. Flying(h, l) => Flying(g, l) /\ g[l.row].calls = h[l.row].calls
    BY DEF Flying, Follows
  <1> QED BY <1>1 DEF LoopSound

\* At rest the loop claims nothing.
LEMMA LoopRests ==
  ASSUME NEW h, NEW l, l.at = "idle"
  PROVE  LoopSound(h, l)
  BY DEF LoopSound, Executing

\* A row behind a history.
LEMMA RowBehind ==
  ASSUME NEW h, NEW n, HistSound(h, n), NEW row
  PROVE  LET g == Append(h, row) IN
           /\ \E S : g \in Seq(S)
           /\ Len(h) \in Nat /\ Len(g) = Len(h) + 1
           /\ DOMAIN h = 1..Len(h) /\ DOMAIN g = 1..Len(h) + 1
           /\ \A i \in DOMAIN h : g[i] = h[i]
           /\ g[Len(h) + 1] = row
  <1>1. PICK S : h \in Seq(S)
    BY DEF HistSound
  <1>2. h \in Seq(S \cup {row}) /\ row \in S \cup {row}
    BY <1>1
  <1> QED BY <1>2

\* A row rewritten.
LEMMA RowChanged ==
  ASSUME NEW h, NEW n, HistSound(h, n), NEW i, NEW row
  PROVE  LET g == [h EXCEPT ![i] = row] IN
           /\ \E S : g \in Seq(S)
           /\ DOMAIN g = DOMAIN h /\ Len(g) = Len(h)
           /\ \A j \in DOMAIN h : g[j] = IF j = i THEN row ELSE h[j]
  <1>1. PICK S : h \in Seq(S)
    BY DEF HistSound
  <1>2. h \in Seq(S \cup {row}) /\ row \in S \cup {row}
    BY <1>1
  <1> DEFINE g == [h EXCEPT ![i] = row]
  <1>3. g \in Seq(S \cup {row}) /\ DOMAIN g = DOMAIN h /\ Len(g) = Len(h)
    <2>1. CASE i \in 1..Len(h)
      BY <1>2, <2>1, ExceptSeq
    <2>2. CASE i \notin 1..Len(h)
      <3>1. g = h
        BY <1>2, <2>2
      <3> QED BY <1>2, <3>1
    <2> QED BY <2>1, <2>2
  <1>4. \A j \in DOMAIN h : g[j] = IF j = i THEN row ELSE h[j]
    OBVIOUS
  <1> QED BY <1>3, <1>4

\* A row without calls and results may come behind, and what is not a call or result may change.
LEMMA PlainRow ==
  ASSUME NEW h, NEW n, HistSound(h, n),
         NEW row, DOMAIN row = RowFields, row.calls = <<>>, row.results = <<>>, row.kind # "tool",
         row.summary \in BOOLEAN
  PROVE  HistSound(Append(h, row), n) /\ Follows(h, Append(h, row))
  <1> DEFINE g == Append(h, row)
  <1>1. /\ \E S : g \in Seq(S)
        /\ Len(h) \in Nat /\ Len(g) = Len(h) + 1
        /\ DOMAIN h = 1..Len(h) /\ DOMAIN g = 1..Len(h) + 1
        /\ \A i \in DOMAIN h : g[i] = h[i]
        /\ g[Len(h) + 1] = row
    BY RowBehind
  <1> HIDE DEF g
  <1>2. \A i \in DOMAIN g : \/ i \in DOMAIN h /\ g[i] = h[i]
                            \/ i = Len(h) + 1 /\ g[i] = row
    BY <1>1
  <1>3. \A i \in DOMAIN g : DOMAIN g[i] = RowFields /\ RowSound(g[i])
    <2>1. RowSound(row)
      BY DEF RowSound
    <2> QED BY <1>2, <2>1 DEF HistSound, RowsSound
  <1>4. \A i \in DOMAIN g : /\ \A k \in DOMAIN g[i].calls : i \in DOMAIN h /\ g[i] = h[i]
                            /\ \A k \in DOMAIN g[i].results : i \in DOMAIN h /\ g[i] = h[i]
    BY <1>2
  <1>5. OnceCalled(g)
    BY <1>4 DEF HistSound, RowsSound, OnceCalled
  <1>6. OnceAnswered(g)
    BY <1>4 DEF HistSound, RowsSound, OnceAnswered
  <1>7. AnsweredNext(g)
    <2> SUFFICES ASSUME NEW i \in DOMAIN g, NEW j \in DOMAIN g, NEW k \in DOMAIN g[i].calls,
                        NEW l \in DOMAIN g[j].results, g[i].calls[k] = g[j].results[l]
                 PROVE  NextTool(g, i, j)
      BY DEF AnsweredNext
    <2>1. i \in DOMAIN h /\ j \in DOMAIN h /\ g[i] = h[i] /\ g[j] = h[j]
      BY <1>4
    <2>2. NextTool(h, i, j)
      BY <2>1 DEF HistSound, RowsSound, AnsweredNext
    <2> QED BY <1>1, <1>2, <2>1, <2>2 DEF NextTool
  <1>8. \A i \in DOMAIN g : /\ \A k \in DOMAIN g[i].calls : g[i].calls[k] <= n
                            /\ \A k \in DOMAIN g[i].results : g[i].results[k] <= n
    BY <1>4 DEF HistSound
  <1>9. RowsSound(g, Len(g))
    BY <1>1, <1>3, <1>5, <1>6, <1>7 DEF RowsSound
  <1>10. Follows(h, g)
    BY <1>1, <1>2 DEF Follows
  <1> QED BY <1>1, <1>3, <1>8, <1>9, <1>10 DEF HistSound, g

\* A row may change in all but its kind, its calls and its results.
LEMMA OtherColumns ==
  ASSUME NEW h, NEW n, HistSound(h, n), NEW i, NEW row,
         i \in DOMAIN h => /\ DOMAIN row = RowFields /\ row.kind = h[i].kind
                           /\ row.calls = h[i].calls /\ row.results = h[i].results
                           /\ row.summary \in BOOLEAN,
         NEW g, g = [h EXCEPT ![i] = row]
  PROVE  HistSound(g, n) /\ Follows(h, g)
  <1>1. /\ \E S : g \in Seq(S)
        /\ DOMAIN g = DOMAIN h /\ Len(g) = Len(h)
        /\ \A j \in DOMAIN h : g[j] = IF j = i THEN row ELSE h[j]
    BY RowChanged
  <1>2. \A j \in DOMAIN h : /\ DOMAIN g[j] = RowFields /\ g[j].kind = h[j].kind
                            /\ g[j].calls = h[j].calls /\ g[j].results = h[j].results
                            /\ g[j].summary \in BOOLEAN
    BY <1>1 DEF HistSound, RowsSound, RowSound
  <1>3. \A j \in DOMAIN g : RowSound(g[j])
    BY <1>1, <1>2 DEF HistSound, RowsSound, RowSound
  <1>4. OnceCalled(g) /\ OnceAnswered(g)
    BY <1>1, <1>2 DEF HistSound, RowsSound, OnceCalled, OnceAnswered
  <1>5. AnsweredNext(g)
    BY <1>1, <1>2 DEF HistSound, RowsSound, AnsweredNext, NextTool
  <1>6. RowsSound(g, Len(g))
    BY <1>1, <1>3, <1>4, <1>5 DEF HistSound, RowsSound
  <1>7. \A j \in DOMAIN g : /\ \A k \in DOMAIN g[j].calls : g[j].calls[k] <= n
                            /\ \A k \in DOMAIN g[j].results : g[j].results[k] <= n
    BY <1>1, <1>2 DEF HistSound
  <1>8. Follows(h, g)
    BY <1>1, <1>2 DEF Follows
  <1> QED BY <1>1, <1>2, <1>6, <1>7, <1>8 DEF HistSound

\* The results of calls of row i are stored in a tool row, the first behind it.
LEMMA ToolRow ==
  ASSUME NEW h, NEW n, HistSound(h, n), NEW i \in DOMAIN h,
         \A j \in DOMAIN h : j > i => h[j].kind # "tool",
         NEW row, DOMAIN row = RowFields, row.kind = "tool", row.calls = <<>>,
         row.summary \in BOOLEAN,
         row.results \in Seq(Nat),
         \A l \in DOMAIN row.results : \E k \in DOMAIN h[i].calls : row.results[l] = h[i].calls[k],
         \A l, o \in DOMAIN row.results : row.results[l] = row.results[o] => l = o
  PROVE  HistSound(Append(h, row), n)
  <1> DEFINE g == Append(h, row)
             t == Len(h) + 1
  <1>1. /\ \E S : g \in Seq(S)
        /\ Len(h) \in Nat /\ Len(g) = Len(h) + 1
        /\ DOMAIN h = 1..Len(h) /\ DOMAIN g = 1..t
        /\ \A j \in DOMAIN h : g[j] = h[j]
        /\ g[t] = row
    BY RowBehind
  <1> HIDE DEF g
  <1>2. \A j \in DOMAIN g : \/ j \in DOMAIN h /\ g[j] = h[j]
                            \/ j = t /\ g[j] = row
    BY <1>1
  <1>3. \A j \in DOMAIN g : DOMAIN g[j] = RowFields /\ RowSound(g[j])
    <2>1. RowSound(row)
      BY DEF RowSound
    <2> QED BY <1>2, <2>1 DEF HistSound, RowsSound
  <1>4. \A j \in DOMAIN g : \A k \in DOMAIN g[j].calls : j \in DOMAIN h /\ g[j] = h[j]
    BY <1>2
  <1>5. OnceCalled(g)
    BY <1>4 DEF HistSound, RowsSound, OnceCalled
  \* Whatever answers a call of row i is behind it, and in a tool row.
  <1>6. ASSUME NEW j \in DOMAIN h, NEW l \in DOMAIN h[j].results, NEW o \in DOMAIN row.results
        PROVE  h[j].results[l] # row.results[o]
    <2> SUFFICES ASSUME h[j].results[l] = row.results[o] PROVE FALSE
      OBVIOUS
    <2>1. PICK k \in DOMAIN h[i].calls : row.results[o] = h[i].calls[k]
      OBVIOUS
    <2>2. NextTool(h, i, j)
      BY <2>1 DEF HistSound, RowsSound, AnsweredNext
    <2>3. i < j
      BY <2>2 DEF NextTool
    <2>4. h[j].kind = "tool"
      BY DEF HistSound, RowsSound, RowSound
    <2> QED BY <2>3, <2>4
  <1>7. OnceAnswered(g)
    <2> SUFFICES ASSUME NEW j \in DOMAIN g, NEW q \in DOMAIN g, NEW k \in DOMAIN g[j].results,
                        NEW l \in DOMAIN g[q].results, g[j].results[k] = g[q].results[l]
                 PROVE  j = q /\ k = l
      BY DEF OnceAnswered
    <2>1. CASE j \in DOMAIN h /\ g[j] = h[j] /\ q \in DOMAIN h /\ g[q] = h[q]
      BY <2>1 DEF HistSound, RowsSound, OnceAnswered
    <2>2. CASE j = t /\ g[j] = row /\ q = t /\ g[q] = row
      BY <2>2
    <2>3. CASE j \in DOMAIN h /\ g[j] = h[j] /\ q = t /\ g[q] = row
      BY <1>6, <2>3
    <2>4. CASE j = t /\ g[j] = row /\ q \in DOMAIN h /\ g[q] = h[q]
      BY <1>6, <2>4
    <2> QED BY <1>2, <2>1, <2>2, <2>3, <2>4
  <1>8. AnsweredNext(g)
    <2> SUFFICES ASSUME NEW j \in DOMAIN g, NEW q \in DOMAIN g, NEW k \in DOMAIN g[j].calls,
                        NEW l \in DOMAIN g[q].results, g[j].calls[k] = g[q].results[l]
                 PROVE  NextTool(g, j, q)
      BY DEF AnsweredNext
    <2>1. j \in DOMAIN h /\ g[j] = h[j]
      BY <1>4
    <2>2. CASE q \in DOMAIN h /\ g[q] = h[q]
      <3>1. NextTool(h, j, q)
        BY <2>1, <2>2 DEF HistSound, RowsSound, AnsweredNext
      <3> QED BY <1>1, <1>2, <2>1, <2>2, <3>1 DEF NextTool
    <2>3. CASE q = t /\ g[q] = row
      <3>1. PICK o \in DOMAIN h[i].calls : row.results[l] = h[i].calls[o]
        BY <2>3
      <3>2. j = i
        BY <2>1, <2>3, <3>1 DEF HistSound, RowsSound, OnceCalled
      <3> QED BY <1>1, <1>2, <2>3, <3>2 DEF NextTool
    <2> QED BY <1>2, <2>2, <2>3
  <1>9. \A j \in DOMAIN g : /\ \A k \in DOMAIN g[j].calls : g[j].calls[k] <= n
                            /\ \A k \in DOMAIN g[j].results : g[j].results[k] <= n
    <2>1. \A o \in DOMAIN row.results : row.results[o] <= n
      BY DEF HistSound
    <2>2. \A k \in DOMAIN row.calls : FALSE
      OBVIOUS
    <2> QED BY <1>2, <2>1, <2>2 DEF HistSound
  <1>10. RowsSound(g, Len(g))
    BY <1>1, <1>3, <1>5, <1>7, <1>8 DEF RowsSound
  <1> QED BY <1>1, <1>3, <1>9, <1>10 DEF HistSound, g

\* New calls are stored in a row that had none.
LEMMA CallRow ==
  ASSUME NEW h, NEW n, HistSound(h, n), NEW i \in DOMAIN h, h[i].kind = "agent", h[i].calls = <<>>,
         NEW c \in Nat, NEW row, DOMAIN row = RowFields, row.kind = h[i].kind,
         row.results = h[i].results, row.summary = h[i].summary,
         row.calls = [k \in 1..c |-> n + k]
  PROVE  HistSound([h EXCEPT ![i] = row], n + c)
  <1> DEFINE g == [h EXCEPT ![i] = row]
  <1>1. /\ \E S : g \in Seq(S)
        /\ DOMAIN g = DOMAIN h /\ Len(g) = Len(h)
        /\ \A j \in DOMAIN h : g[j] = IF j = i THEN row ELSE h[j]
    BY RowChanged
  <1> HIDE DEF g
  <1>0. n \in Nat /\ \A j \in DOMAIN h : RowSound(h[j])
    BY DEF HistSound, RowsSound
  <1>2. row.calls \in Seq(Nat) /\ DOMAIN row.calls = 1..c /\ \A k \in 1..c : row.calls[k] = n + k
    BY <1>0
  <1>3. \A j \in DOMAIN g : DOMAIN g[j] = RowFields /\ RowSound(g[j])
    <2>1. RowSound(row)
      BY <1>0, <1>2 DEF RowSound
    <2> QED BY <1>0, <1>1, <2>1 DEF HistSound
  <1>4. \A j \in DOMAIN h : /\ g[j].kind = h[j].kind /\ g[j].results = h[j].results
                            /\ j # i => g[j].calls = h[j].calls
                            /\ j = i => g[j].calls = row.calls
    BY <1>1
  <1>5. ASSUME NEW j \in DOMAIN h, NEW k \in DOMAIN h[j].calls
        PROVE  h[j].calls[k] <= n /\ h[j].calls[k] \in Nat
    <2>1. h[j].calls \in Seq(Nat)
      BY <1>0 DEF RowSound
    <2> QED BY <2>1 DEF HistSound
  <1>6. ASSUME NEW j \in DOMAIN h, NEW k \in DOMAIN h[j].results
        PROVE  h[j].results[k] <= n /\ h[j].results[k] \in Nat
    <2>1. h[j].results \in Seq(Nat)
      BY <1>0 DEF RowSound
    <2> QED BY <2>1 DEF HistSound
  <1>7. OnceCalled(g)
    <2> SUFFICES ASSUME NEW j \in DOMAIN g, NEW q \in DOMAIN g, NEW k \in DOMAIN g[j].calls,
                        NEW l \in DOMAIN g[q].calls, g[j].calls[k] = g[q].calls[l]
                 PROVE  j = q /\ k = l
      BY DEF OnceCalled
    <2>1. CASE j # i /\ q # i
      BY <1>1, <1>4, <2>1 DEF HistSound, RowsSound, OnceCalled
    <2>2. CASE j = i /\ q = i
      <3>1. g[j].calls[k] = n + k /\ g[q].calls[l] = n + l /\ k \in Nat /\ l \in Nat
        BY <1>1, <1>2, <1>4, <2>2
      <3> QED BY <1>0, <2>2, <3>1
    <2>3. CASE j = i /\ q # i
      <3>1. g[j].calls[k] = n + k /\ k \in Nat /\ k > 0
        BY <1>1, <1>2, <1>4, <2>3
      <3>2. g[q].calls[l] <= n /\ g[q].calls[l] \in Nat
        BY <1>1, <1>4, <1>5, <2>3
      <3> QED BY <1>0, <3>1, <3>2
    <2>4. CASE j # i /\ q = i
      <3>1. g[q].calls[l] = n + l /\ l \in Nat /\ l > 0
        BY <1>1, <1>2, <1>4, <2>4
      <3>2. g[j].calls[k] <= n /\ g[j].calls[k] \in Nat
        BY <1>1, <1>4, <1>5, <2>4
      <3> QED BY <1>0, <3>1, <3>2
    <2> QED BY <2>1, <2>2, <2>3, <2>4
  <1>8. OnceAnswered(g)
    BY <1>1, <1>4 DEF HistSound, RowsSound, OnceAnswered
  <1>9. AnsweredNext(g)
    <2> SUFFICES ASSUME NEW j \in DOMAIN g, NEW q \in DOMAIN g, NEW k \in DOMAIN g[j].calls,
                        NEW l \in DOMAIN g[q].results, g[j].calls[k] = g[q].results[l]
                 PROVE  NextTool(g, j, q)
      BY DEF AnsweredNext
    <2>1. g[q].results[l] <= n /\ g[q].results[l] \in Nat
      BY <1>1, <1>4, <1>6
    <2>2. CASE j = i
      <3>1. g[j].calls[k] = n + k /\ k \in Nat /\ k > 0
        BY <1>1, <1>2, <1>4, <2>2
      <3> QED BY <1>0, <2>1, <3>1
    <2>3. CASE j # i
      <3>1. NextTool(h, j, q)
        BY <1>1, <1>4, <2>3 DEF HistSound, RowsSound, AnsweredNext
      <3> QED BY <1>1, <1>4, <3>1 DEF NextTool
    <2> QED BY <2>2, <2>3
  <1>10. RowsSound(g, Len(g))
    BY <1>1, <1>3, <1>7, <1>8, <1>9 DEF HistSound, RowsSound
  <1>11. ASSUME NEW j \in DOMAIN g
         PROVE  /\ \A k \in DOMAIN g[j].calls : g[j].calls[k] <= n + c
                /\ \A k \in DOMAIN g[j].results : g[j].results[k] <= n + c
    <2>1. CASE j = i
      BY <1>0, <1>1, <1>2, <1>4, <1>6, <2>1
    <2>2. CASE j # i
      BY <1>0, <1>1, <1>4, <1>5, <1>6, <2>2
    <2> QED BY <2>1, <2>2
  <1> QED BY <1>0, <1>1, <1>3, <1>10, <1>11 DEF HistSound, g

\* A prompt is stored behind the history.
LEMMA PlainPrompt ==
  ASSUME NEW h, NEW n, HistSound(h, n), NEW agent, NEW kind, kind # "tool", NEW text
  PROVE  LET g == Append(h, Row(agent, kind, text, <<>>, <<>>)) IN
           /\ HistSound(g, n) /\ Follows(h, g)
           /\ Len(h) + 1 \in DOMAIN g /\ g[Len(h) + 1] = Row(agent, kind, text, <<>>, <<>>)
           /\ \A j \in DOMAIN g : j <= Len(h) + 1
  <1> DEFINE row == Row(agent, kind, text, <<>>, <<>>)
  <1>1. /\ DOMAIN row = RowFields /\ row.calls = <<>> /\ row.results = <<>> /\ row.kind # "tool"
        /\ row.summary \in BOOLEAN
    BY DEF Row, RowFields
  <1> HIDE DEF row
  <1>2. HistSound(Append(h, row), n) /\ Follows(h, Append(h, row))
    BY <1>1, PlainRow
  <1>3. /\ Len(h) \in Nat /\ DOMAIN Append(h, row) = 1..Len(h) + 1
        /\ Append(h, row)[Len(h) + 1] = row
    BY RowBehind
  <1>4. Len(h) + 1 \in DOMAIN Append(h, row) /\ \A j \in DOMAIN Append(h, row) : j <= Len(h) + 1
    BY <1>3
  <1> QED BY <1>2, <1>3, <1>4 DEF row

\* A row is deleted.
LEMMA DeletedRow ==
  ASSUME NEW h, NEW n, HistSound(h, n), NEW i
  PROVE  HistSound(Deleted(h, i), n) /\ Follows(h, Deleted(h, i))
  <1> DEFINE row == [h[i] EXCEPT !.agent = None]
  <1>1. i \in DOMAIN h => DOMAIN h[i] = RowFields /\ RowSound(h[i])
    BY DEF HistSound, RowsSound
  <1>2. i \in DOMAIN h => /\ DOMAIN row = RowFields /\ row.kind = h[i].kind
                          /\ row.calls = h[i].calls /\ row.results = h[i].results
                          /\ row.summary \in BOOLEAN
    BY <1>1 DEF RowFields, RowSound
  <1> HIDE DEF row
  <1>3. Deleted(h, i) = [h EXCEPT ![i] = row]
    BY DEF Deleted, row
  <1> QED BY <1>2, <1>3, OtherColumns

\* A summary is written to a row.
LEMMA SummarisedRow ==
  ASSUME NEW h, NEW n, HistSound(h, n), NEW i
  PROVE  HistSound(Summarised(h, i), n) /\ Follows(h, Summarised(h, i))
  <1>0. CASE i = 0
    BY <1>0 DEF Summarised, Follows
  <1> DEFINE row == [h[i] EXCEPT !.summary = TRUE]
  <1>1. i \in DOMAIN h => DOMAIN h[i] = RowFields
    BY DEF HistSound
  <1>2. i \in DOMAIN h => /\ DOMAIN row = RowFields /\ row.kind = h[i].kind
                          /\ row.calls = h[i].calls /\ row.results = h[i].results
                          /\ row.summary \in BOOLEAN
    BY <1>1 DEF RowFields
  <1> HIDE DEF row
  <1>3. CASE i # 0
    <2>1. Summarised(h, i) = [h EXCEPT ![i] = row]
      BY <1>3 DEF Summarised, row
    <2> QED BY <1>2, <2>1, OtherColumns
  <1> QED BY <1>0, <1>3

\* Following is transitive.
LEMMA FollowsOn ==
  ASSUME NEW h, NEW g, NEW f, Follows(h, g), Follows(g, f)
  PROVE  Follows(h, f)
  BY DEF Follows

\* A goroutine that rests is idle.
LEMMA RestingIsIdle ==
  Resting.at = "idle" /\ Shaped(Resting)
  BY DEF Resting, Shaped, Fields

\* A new session has a prompt and no calls.
LEMMA InitTalk == Init => TalkInv
  <1> SUFFICES ASSUME Init PROVE TalkInv
    OBVIOUS
  <1>1. LoopSound(history, loop)
    BY RestingIsIdle, LoopRests DEF Init
  <1>2. made = 0
    BY DEF Init
  <1>3. PICK a, k : history = <<Row(a, k, TRUE, <<>>, <<>>)>>
    BY DEF Init
  <1>4. Len(history) = 1 /\ DOMAIN history = {1} /\ history \in Seq({Row(a, k, TRUE, <<>>, <<>>)})
        /\ history[1] = Row(a, k, TRUE, <<>>, <<>>)
    BY <1>3
  <1>5. /\ DOMAIN history[1] = RowFields /\ history[1].calls = <<>> /\ history[1].results = <<>>
        /\ history[1].summary \in BOOLEAN
    BY <1>4 DEF Row, RowFields
  <1>6. RowSound(history[1])
    BY <1>5 DEF RowSound
  <1>7. \A i \in DOMAIN history : history[i].calls = <<>> /\ history[i].results = <<>>
    BY <1>4, <1>5
  <1>8. OnceCalled(history) /\ OnceAnswered(history) /\ AnsweredNext(history)
    BY <1>7 DEF OnceCalled, OnceAnswered, AnsweredNext
  <1>9. RowsSound(history, Len(history))
    <2>1. \A i \in DOMAIN history : RowSound(history[i])
      BY <1>4, <1>6
    <2>2. Len(history) \in Nat /\ DOMAIN history \subseteq 1..Len(history)
      BY <1>4
    <2> QED BY <1>8, <2>1, <2>2 DEF RowsSound
  <1>10. \A i \in DOMAIN history : DOMAIN history[i] = RowFields
    BY <1>4, <1>5
  <1>11. \E S : history \in Seq(S)
    BY <1>4
  <1>12. HistSound(history, made)
    BY <1>2, <1>7, <1>9, <1>10, <1>11 DEF HistSound
  <1> QED BY <1>1, <1>12 DEF TalkInv

\* The loop keeps its request while others write.
LEMMA LoopWaits ==
  ASSUME TalkInv, HistSound(history', made), Follows(history, history'), UNCHANGED <<loop, made>>
  PROVE  TalkInv'
  BY LoopFollows DEF TalkInv

\* The request of the loop ends.
LEMMA LoopEnds ==
  ASSUME HistSound(history', made), loop' = Resting, UNCHANGED made
  PROVE  TalkInv'
  BY LoopRests, RestingIsIdle DEF TalkInv

\* A history follows itself.
LEMMA FollowsSame == ASSUME NEW h PROVE Follows(h, h)
  BY DEF Follows

\* A request begins with an empty answer, behind everything else.
LEMMA SendKeeps ==
  ASSUME TalkInv, SendRequest
  PROVE  TalkInv'
  <1> DEFINE g == Append(history, Row(current, "agent", FALSE, <<>>, <<>>))
  <1>1. history' = g /\ made' = made
    BY DEF SendRequest, Append1
  <1>2. /\ HistSound(g, made)
        /\ Len(history) + 1 \in DOMAIN g
        /\ g[Len(history) + 1] = Row(current, "agent", FALSE, <<>>, <<>>)
        /\ \A j \in DOMAIN g : j <= Len(history) + 1
    BY PlainPrompt DEF TalkInv
  <1>3. loop'.at = "build" /\ loop'.row = Len(history) + 1 /\ loop'.results = <<>>
    <2>1. loop' = [Resting EXCEPT !.at = "build", !.row = Len(history) + 1, !.owner = current]
      BY DEF SendRequest
    <2> QED BY <2>1 DEF Resting
  <1> HIDE DEF g
  <1>4. g[loop'.row].kind = "agent" /\ g[loop'.row].calls = <<>>
    BY <1>2, <1>3 DEF Row
  <1>5. Len(history) \in Nat /\ DOMAIN g \subseteq Nat
    BY <1>2 DEF HistSound, RowsSound, TalkInv
  <1>6. Flying(g, loop')
    BY <1>2, <1>3, <1>4, <1>5 DEF Flying
  <1> QED BY <1>1, <1>2, <1>3, <1>4, <1>6 DEF TalkInv, LoopSound, Executing

\* The history is read, or cannot be.
LEMMA BuildKeeps ==
  ASSUME TalkInv, Shaped(loop), Build
  PROVE  TalkInv'
  <1>1. made' = made
    BY DEF Build
  <1>2. CASE loop' = [loop EXCEPT !.at = "stream", !.sentFor = nowAgent] /\ UNCHANGED history
    <2>1. /\ loop.at = "build" /\ loop'.at = "stream" /\ loop'.row = loop.row
          /\ loop'.results = loop.results
      BY <1>2 DEF Build, Shaped, Fields
    <2>2. Flying(history, loop') /\ history[loop'.row].calls = <<>> /\ loop'.results = <<>>
      BY <2>1 DEF TalkInv, LoopSound, Flying
    <2> QED BY <1>1, <1>2, <2>1, <2>2 DEF TalkInv, LoopSound, Executing
  <1>3. CASE history' = Deleted(history, loop.row) /\ loop' = Resting
    BY <1>1, <1>3, DeletedRow, LoopEnds DEF TalkInv
  <1> QED BY <1>2, <1>3 DEF Build

\* An answer without calls.
LEMMA AnswerKeeps ==
  ASSUME TalkInv, AnswerText \/ AnswerNothing
  PROVE  TalkInv'
  <1>1. loop' = Resting /\ made' = made
    BY DEF AnswerText, AnswerNothing
  <1>2. CASE AnswerText
    <2> DEFINE row == [history[loop.row] EXCEPT !.text = TRUE]
    <2>1. loop.row \in DOMAIN history =>
            DOMAIN history[loop.row] = RowFields /\ RowSound(history[loop.row])
      BY DEF TalkInv, HistSound, RowsSound
    <2>2. loop.row \in DOMAIN history =>
            /\ DOMAIN row = RowFields /\ row.kind = history[loop.row].kind
            /\ row.calls = history[loop.row].calls
            /\ row.results = history[loop.row].results /\ row.summary \in BOOLEAN
      BY <2>1 DEF RowFields, RowSound
    <2> HIDE DEF row
    <2>3. history' = [history EXCEPT ![loop.row] = row]
      BY <1>2 DEF AnswerText, row
    <2> QED BY <1>1, <2>2, <2>3, OtherColumns, LoopEnds DEF TalkInv
  <1>3. CASE AnswerNothing
    BY <1>1, <1>3, DeletedRow, LoopEnds DEF AnswerNothing, TalkInv
  <1> QED BY <1>2, <1>3

\* A batch is a sequence of tools.
LEMMA BatchShape ==
  ASSUME NEW agent, NEW b \in Batches(agent)
  PROVE  /\ Len(b) \in Nat /\ DOMAIN b = 1..Len(b)
         /\ \A i \in 1..Len(b) : b[i] \in {"plain", "activate", "deactivate"}
  <1>1. PICK n \in 1..2 : b \in [1..n -> Tools(agent)]
    BY DEF Batches
  <1>2. b \in Seq(Tools(agent)) /\ Len(b) = n
    BY <1>1
  <1> QED BY <1>1, <1>2 DEF Tools

\* An answer with calls: their ids are new and their row had none.
LEMMA CallsStored ==
  ASSUME TalkInv, Shaped(loop), AnswerCalls
  PROVE  TalkInv'
  <1>1. PICK batch \in Batches(loop.owner) :
          /\ made' = made + Len(batch)
          /\ history' = [history EXCEPT ![loop.row].calls = [i \in 1..Len(batch) |-> made + i]]
          /\ \/ loop' = [loop EXCEPT !.at = "approve",
                           !.plan = [i \in 1..Len(batch) |-> [id |-> made + i, tool |-> batch[i]]]]
             \/ loop' = Resting
    BY DEF AnswerCalls
  <1> DEFINE c    == Len(batch)
             ids  == [i \in 1..c |-> made + i]
             plan == [i \in 1..c |-> [id |-> made + i, tool |-> batch[i]]]
             row  == [history[loop.row] EXCEPT !.calls = ids]
             g    == [history EXCEPT ![loop.row] = row]
  <1>2. c \in Nat /\ \A i \in 1..c : batch[i] \in {"plain", "activate", "deactivate"}
    BY BatchShape
  <1>3. Flying(history, loop) /\ history[loop.row].calls = <<>>
    BY DEF AnswerCalls, TalkInv, LoopSound
  <1>4. loop.row \in DOMAIN history /\ history[loop.row].kind = "agent"
    BY <1>3 DEF Flying
  <1>5. DOMAIN history[loop.row] = RowFields
    BY <1>4 DEF TalkInv, HistSound
  <1>6. /\ DOMAIN row = RowFields /\ row.kind = history[loop.row].kind
        /\ row.results = history[loop.row].results /\ row.summary = history[loop.row].summary
        /\ row.calls = ids
    BY <1>5 DEF RowFields
  <1>7. history' = g /\ made' = made + c
    BY <1>1
  <1> HIDE DEF row, c
  <1>8. HistSound(g, made + c)
    BY <1>2, <1>3, <1>4, <1>6, CallRow DEF TalkInv
  <1>9. CASE loop' = Resting
    BY <1>7, <1>8, <1>9, LoopRests, RestingIsIdle DEF TalkInv
  <1>10. CASE loop' = [loop EXCEPT !.at = "approve", !.plan = plan]
    <2>1. /\ loop'.at = "approve" /\ loop'.plan = plan
          /\ loop'.row = loop.row /\ loop'.results = loop.results
      BY <1>10 DEF Shaped, Fields
    <2>2. /\ DOMAIN g = DOMAIN history
          /\ \A j \in DOMAIN history : g[j] = IF j = loop.row THEN row ELSE history[j]
      BY RowChanged DEF TalkInv
    <2>3. Flying(g, loop')
      BY <1>3, <1>6, <2>1, <2>2 DEF Flying
    <2>4. g[loop'.row].calls = ids
      BY <1>4, <1>6, <2>1, <2>2
    <2>5. plan \in Seq(PlannedCall) /\ Len(plan) = c /\ \A i \in 1..c : plan[i].id = made + i
      <3>1. \A i \in 1..c : [id |-> made + i, tool |-> batch[i]] \in PlannedCall
        BY <1>2 DEF PlannedCall, TalkInv, HistSound
      <3>2. plan \in Seq(PlannedCall) /\ Len(plan) = c
        BY <1>2, <3>1
      <3> QED BY <1>2, <3>2
    <2>6. Len(ids) = c /\ DOMAIN ids = 1..c /\ \A i \in 1..c : ids[i] = made + i
      BY <1>2
    <2>7. loop.results = <<>>
      BY DEF AnswerCalls, TalkInv, LoopSound
    <2> HIDE DEF ids, plan, g
    <2>8. PlanSound(ids, loop')
      BY <2>1, <2>5, <2>6, <2>7 DEF PlanSound
    <2> QED BY <1>7, <1>8, <2>1, <2>3, <2>4, <2>8 DEF TalkInv, LoopSound, Executing
  <1> QED BY <1>1, <1>9, <1>10 DEF c

\* The batch is approved, overtaken by a prompt, or rejected.
LEMMA ApproveKeeps ==
  ASSUME TalkInv, Shaped(loop), Approve \/ Overtaken \/ Reject
  PROVE  TalkInv'
  <1>1. made' = made
    BY DEF Approve, Overtaken, Reject
  <1>2. CASE Approve
    <2>1. loop' = [loop EXCEPT !.at = "exec"] /\ loop.at = "approve" /\ history' = history
      BY <1>2 DEF Approve
    <2>2. /\ loop'.at = "exec" /\ loop'.row = loop.row /\ loop'.plan = loop.plan
          /\ loop'.results = loop.results
      BY <2>1 DEF Shaped, Fields
    <2>3. Flying(history, loop) /\ PlanSound(history[loop.row].calls, loop)
      BY <2>1 DEF TalkInv, LoopSound, Executing
    <2>4. Flying(history, loop') /\ PlanSound(history[loop'.row].calls, loop')
      BY <2>2, <2>3 DEF Flying, PlanSound
    <2> QED BY <1>1, <2>1, <2>2, <2>4 DEF TalkInv, LoopSound
  <1>3. CASE Overtaken
    BY <1>1, <1>3, LoopEnds DEF Overtaken, TalkInv
  <1>4. CASE Reject
    <2>1. history' = Append(history, Row(Main, "communicate", TRUE, <<>>, <<>>)) /\ loop' = Resting
      BY <1>4 DEF Reject, Append1
    <2> QED BY <1>1, <2>1, PlainPrompt, LoopEnds DEF TalkInv
  <1> QED BY <1>2, <1>3, <1>4

\* Results of the loop's row are stored.
LEMMA ResultsStored ==
  ASSUME TalkInv, Executing(loop), NEW agent, NEW results, results \in Seq(Nat),
         \A l \in DOMAIN results : \E k \in DOMAIN history[loop.row].calls :
            results[l] = history[loop.row].calls[k],
         \A l, o \in DOMAIN results : results[l] = results[o] => l = o
  PROVE  HistSound(Append(history, Row(agent, "tool", TRUE, <<>>, results)), made)
  <1> DEFINE row == Row(agent, "tool", TRUE, <<>>, results)
  <1>1. /\ DOMAIN row = RowFields /\ row.calls = <<>> /\ row.results = results /\ row.kind = "tool"
        /\ row.summary \in BOOLEAN
    BY DEF Row, RowFields
  <1> HIDE DEF row
  <1>2. Flying(history, loop)
    BY DEF TalkInv, LoopSound
  <1>3. /\ loop.row \in DOMAIN history
        /\ \A j \in DOMAIN history : j > loop.row => history[j].kind # "tool"
    BY <1>2 DEF Flying
  <1>4. /\ row.results \in Seq(Nat)
        /\ \A l \in DOMAIN row.results : \E k \in DOMAIN history[loop.row].calls :
              row.results[l] = history[loop.row].calls[k]
        /\ \A l, o \in DOMAIN row.results : row.results[l] = row.results[o] => l = o
    BY <1>1
  <1>5. HistSound(history, made)
    BY DEF TalkInv
  <1>6. HistSound(Append(history, row), made)
    BY <1>1, <1>3, <1>4, <1>5, ToolRow
  <1> QED BY <1>6 DEF row

\* A batch that repeats itself is answered by warnings, in a tool row of its own.
LEMMA WarnKeeps ==
  ASSUME TalkInv, WarnLoop
  PROVE  TalkInv'
  <1> DEFINE ids   == [i \in 1..Len(loop.plan) |-> loop.plan[i].id]
             calls == history[loop.row].calls
  <1>1. /\ loop.at = "approve" /\ loop' = Resting /\ made' = made
        /\ history' = Append(history, Row(current, "tool", TRUE, <<>>, ids))
    BY DEF WarnLoop, Append1
  <1>2. Executing(loop)
    BY <1>1 DEF Executing
  <1>3. Flying(history, loop) /\ PlanSound(calls, loop)
    BY <1>2 DEF TalkInv, LoopSound
  <1>4. loop.plan \in Seq(PlannedCall)
    BY <1>3 DEF PlanSound
  <1>5. ids \in Seq(Nat) /\ DOMAIN ids = 1..Len(loop.plan)
    <2>1. \A i \in 1..Len(loop.plan) : loop.plan[i] \in PlannedCall
      BY <1>4
    <2>2. \A i \in 1..Len(loop.plan) : loop.plan[i].id \in Nat
      BY <2>1 DEF PlannedCall
    <2> QED BY <1>4, <2>2
  <1>6. \A l \in DOMAIN ids : l \in DOMAIN calls /\ ids[l] = calls[l]
    <2>1. calls \in Seq(Nat)
      BY <1>3 DEF Flying, TalkInv, HistSound, RowsSound, RowSound
    <2>2. ASSUME NEW l \in DOMAIN ids PROVE l \in DOMAIN calls /\ ids[l] = calls[l]
      <3>1. loop.plan # <<>>
        BY <1>4, <1>5, <2>2
      <3>2. Len(loop.plan) = Len(calls) /\ \A i \in DOMAIN calls : loop.plan[i].id = calls[i]
        BY <1>3, <3>1 DEF PlanSound
      <3>3. l \in DOMAIN calls
        BY <1>5, <2>1, <2>2, <3>2
      <3> QED BY <1>5, <2>2, <3>2, <3>3
    <2> QED BY <2>2
  <1>7. \A l, o \in DOMAIN ids : ids[l] = ids[o] => l = o
    <2>1. OnceCalled(history) /\ loop.row \in DOMAIN history
      BY <1>3 DEF Flying, TalkInv, HistSound, RowsSound
    <2>2. \A k, l \in DOMAIN calls : calls[k] = calls[l] => k = l
      BY <2>1 DEF OnceCalled
    <2> HIDE DEF ids, calls
    <2> QED BY <1>6, <2>2
  <1> HIDE DEF ids
  <1>8. HistSound(history', made)
    BY <1>1, <1>2, <1>5, <1>6, <1>7, ResultsStored
  <1> QED BY <1>1, <1>8, LoopEnds

\* The results are stored, for whichever agent is current.
LEMMA SaveKeeps ==
  ASSUME TalkInv, SaveResults
  PROVE  TalkInv'
  <1> DEFINE calls == history[loop.row].calls
  <1>1. /\ loop.at = "exec" /\ loop' = Resting /\ made' = made
        /\ IF loop.results = <<>> THEN UNCHANGED history
           ELSE history' = Append(history, Row(current, "tool", TRUE, <<>>, loop.results))
    BY DEF SaveResults, Append1
  <1>2. Executing(loop)
    BY <1>1 DEF Executing
  <1>3. PlanSound(calls, loop)
    BY <1>2 DEF TalkInv, LoopSound
  <1>4. CASE loop.results = <<>>
    BY <1>1, <1>4, LoopEnds DEF TalkInv
  <1>5. CASE loop.results # <<>>
    <2>1. /\ loop.results \in Seq(Nat) /\ Len(loop.results) = 1
          /\ \E k \in DOMAIN calls : calls[k] = loop.results[1]
      BY <1>3, <1>5 DEF PlanSound
    <2>2. DOMAIN loop.results = {1}
      BY <2>1
    <2>3. HistSound(Append(history, Row(current, "tool", TRUE, <<>>, loop.results)), made)
      BY <1>2, <2>1, <2>2, ResultsStored
    <2> QED BY <1>1, <1>5, <2>3, LoopEnds
  <1> QED BY <1>4, <1>5

\* A call has run: nothing is left of the plan, and its id is the only result.
LEMMA ExecutedSound ==
  ASSUME TalkInv, Shaped(loop), Executing(loop), loop.plan # <<>>,
         NEW l, DOMAIN l = Fields, l.at = "exec", l.row = loop.row, l.plan = <<>>,
         l.results = <<Head(loop.plan).id>>
  PROVE  LoopSound(history, l)
  <1> DEFINE calls == history[loop.row].calls
  <1>1. Flying(history, loop) /\ PlanSound(calls, loop)
    BY DEF TalkInv, LoopSound
  <1>2. calls \in Seq(Nat)
    BY <1>1 DEF Flying, TalkInv, HistSound, RowsSound, RowSound
  <1>3. /\ loop.plan \in Seq(PlannedCall) /\ Len(loop.plan) = Len(calls)
        /\ \A i \in DOMAIN calls : loop.plan[i].id = calls[i]
    BY <1>1 DEF PlanSound
  <1>4. Len(calls) >= 1 /\ Head(loop.plan) = loop.plan[1]
    BY <1>2, <1>3
  <1>5. 1 \in DOMAIN calls /\ Head(loop.plan).id = calls[1] /\ calls[1] \in Nat
    BY <1>2, <1>3, <1>4
  <1>6. l.results \in Seq(Nat) /\ Len(l.results) = 1 /\ l.results[1] = calls[1]
    BY <1>5
  <1>7. l.plan \in Seq(PlannedCall)
    OBVIOUS
  <1>8. PlanSound(calls, l)
    BY <1>5, <1>6, <1>7 DEF PlanSound
  <1>9. Flying(history, l)
    BY <1>1 DEF Flying
  <1> QED BY <1>8, <1>9 DEF LoopSound

\* What Executed leaves of the loop.
LEMMA ExecutedFields ==
  ASSUME Shaped(loop)
  PROVE  LET l == Executed(loop) IN
           /\ DOMAIN l = Fields /\ l.at = loop.at /\ l.row = loop.row /\ l.plan = <<>>
           /\ l.results = <<Head(loop.plan).id>>
  <1> DEFINE l == Executed(loop)
             w == <<Head(loop.plan).id>>
  <1>2. l = [loop EXCEPT !.plan = <<>>, !.results = w]
    BY DEF Executed
  <1> HIDE DEF l, w
  <1>3. DOMAIN l = Fields /\ l.at = loop.at /\ l.row = loop.row /\ l.plan = <<>> /\ l.results = w
    BY <1>2 DEF Shaped, Fields
  <1> QED BY <1>3 DEF l, w

\* A call is executed.
LEMMA ExecKeeps ==
  ASSUME TalkInv, Shaped(loop), ExecUnknown \/ ExecPlain \/ DeactivateAgain
  PROVE  TalkInv'
  <1>1. made' = made /\ history' = history /\ loop.at = "exec" /\ loop.plan # <<>>
    BY DEF ExecUnknown, ExecPlain, DeactivateAgain, NextIs
  <1>2. Executing(loop)
    BY <1>1 DEF Executing
  <1>3. CASE ExecUnknown
    <2>1. loop' = [loop EXCEPT !.plan = <<>>]
      BY <1>3 DEF ExecUnknown
    <2>2. /\ loop'.at = "exec" /\ loop'.row = loop.row /\ loop'.plan = <<>>
          /\ loop'.results = loop.results
      BY <1>1, <2>1 DEF Shaped, Fields
    <2>3. Flying(history, loop) /\ PlanSound(history[loop.row].calls, loop)
      BY <1>2 DEF TalkInv, LoopSound
    <2>4. Flying(history, loop') /\ PlanSound(history[loop'.row].calls, loop')
      BY <2>2, <2>3 DEF Flying, PlanSound
    <2> QED BY <1>1, <2>2, <2>4 DEF TalkInv, LoopSound
  <1>4. CASE loop' = Executed(loop)
    <2>1. LoopSound(history, loop')
      BY <1>1, <1>2, <1>4, ExecutedFields, ExecutedSound
    <2> QED BY <1>1, <2>1 DEF TalkInv
  <1> QED BY <1>3, <1>4 DEF ExecPlain, DeactivateAgain

\* A sub-agent is given its prompt.
LEMMA ActivateKeeps ==
  ASSUME TalkInv, Shaped(loop), Activate
  PROVE  TalkInv'
  <1>1. /\ made' = made /\ loop.at = "exec" /\ loop.plan # <<>> /\ loop' = Executed(loop)
        /\ \E a \in Sub : history' = Append(history, Row(a, "communicate", TRUE, <<>>, <<>>))
    BY DEF Activate, NextIs, Append1
  <1>2. Executing(loop)
    BY <1>1 DEF Executing
  <1>3. HistSound(history', made) /\ Follows(history, history')
    BY <1>1, PlainPrompt DEF TalkInv
  <1>4. LoopSound(history, loop')
    BY <1>1, <1>2, ExecutedFields, ExecutedSound
  <1> QED BY <1>1, <1>3, <1>4, LoopFollows DEF TalkInv

\* Leaving a sub-agent, by either goroutine.
LEMMA ClearKeeps ==
  ASSUME TalkInv, Shaped(loop), NEW actor \in Actor, ClearAgent(actor)
  PROVE  TalkInv'
  <1>1. history' = history /\ made' = made
    BY DEF ClearAgent
  <1>2. CASE actor = "server"
    <2>1. loop' = loop
      BY <1>2 DEF ClearAgent, Set
    <2> QED BY <1>1, <2>1 DEF TalkInv
  <1>3. CASE actor = "loop"
    <2>1. /\ loop.at = "exec" /\ loop.plan # <<>>
          /\ loop' = [loop EXCEPT !.at = "cleared", !.leaving = current]
      BY <1>3 DEF ClearAgent, Leaves, NextIs, Set, Of
    <2>2. /\ loop'.at = "cleared" /\ loop'.row = loop.row /\ loop'.plan = loop.plan
          /\ loop'.results = loop.results
      BY <2>1 DEF Shaped, Fields
    <2>3. Flying(history, loop) /\ PlanSound(history[loop.row].calls, loop)
      BY <2>1 DEF TalkInv, LoopSound, Executing
    <2>4. Flying(history, loop') /\ PlanSound(history[loop'.row].calls, loop')
      BY <2>1, <2>2, <2>3 DEF Flying, PlanSound
    <2> QED BY <1>1, <2>2, <2>4 DEF TalkInv, LoopSound
  <1> QED BY <1>2, <1>3 DEF Actor

\* The main conversation is told that the sub-agent is gone.
LEMMA HandBackKeeps ==
  ASSUME TalkInv, Shaped(loop), NEW actor \in Actor, HandBack(actor)
  PROVE  TalkInv'
  <1>1. made' = made /\ history' = Append(history, Row(Main, "communicate", TRUE, <<>>, <<>>))
    BY DEF HandBack, Append1
  <1>2. HistSound(history', made) /\ Follows(history, history')
    BY <1>1, PlainPrompt DEF TalkInv
  <1>3. CASE actor = "server"
    <2>1. loop' = loop
      BY <1>3 DEF HandBack, Set
    <2> QED BY <1>1, <1>2, <2>1, LoopWaits
  <1>4. CASE actor = "loop"
    <2>1. /\ loop.at = "cleared"
          /\ loop' = [loop EXCEPT !.at = "summing", !.target = LastMsg(history, loop.leaving)]
      BY <1>4 DEF HandBack, Set, Of
    <2>2. /\ loop'.at = "summing" /\ loop'.row = loop.row /\ loop'.plan = loop.plan
          /\ loop'.results = loop.results
      BY <2>1 DEF Shaped, Fields
    <2>3. Flying(history, loop) /\ PlanSound(history[loop.row].calls, loop)
      BY <2>1 DEF TalkInv, LoopSound, Executing
    <2>4. Flying(history, loop') /\ PlanSound(history[loop'.row].calls, loop')
      BY <2>1, <2>2, <2>3 DEF Flying, PlanSound
    <2>5. LoopSound(history, loop')
      BY <2>2, <2>4 DEF LoopSound
    <2> QED BY <1>1, <1>2, <2>5, LoopFollows DEF TalkInv
  <1> QED BY <1>3, <1>4 DEF Actor

\* The summary of the sub-agent is written, or there is none.
LEMMA SummariseKeeps ==
  ASSUME TalkInv, Shaped(loop), NEW actor \in Actor, SummariseAgent(actor)
  PROVE  TalkInv'
  <1>1. made' = made
    BY DEF SummariseAgent
  <1>2. HistSound(history', made) /\ Follows(history, history')
    <2>1. CASE history' = history
      BY <2>1, FollowsSame DEF TalkInv
    <2>2. ASSUME NEW i,
                 history' = Append(Summarised(history, i), Row(Main, "communicate", TRUE, <<>>, <<>>))
          PROVE  HistSound(history', made) /\ Follows(history, history')
      <3>1. HistSound(Summarised(history, i), made) /\ Follows(history, Summarised(history, i))
        BY SummarisedRow DEF TalkInv
      <3>2. HistSound(history', made) /\ Follows(Summarised(history, i), history')
        BY <2>2, <3>1, PlainPrompt
      <3> QED BY <3>1, <3>2, FollowsOn
    <2> QED BY <2>1, <2>2 DEF SummariseAgent
  <1>3. CASE actor = "server"
    <2>1. loop' = loop
      BY <1>3 DEF SummariseAgent, Set
    <2> QED BY <1>1, <1>2, <2>1, LoopWaits
  <1>4. CASE actor = "loop"
    <2>1. /\ loop.at = "summing" /\ loop.leaving # None
          /\ loop' = [Executed(loop) EXCEPT !.at = "exec", !.leaving = None, !.target = 0]
      BY <1>4 DEF SummariseAgent, Set, Of, Left
    <2>2. Executing(loop)
      BY <2>1 DEF Executing
    <2>3. loop.plan # <<>>
      BY <2>1, <2>2 DEF TalkInv, LoopSound, PlanSound
    <2>4. /\ DOMAIN loop' = Fields /\ loop'.at = "exec" /\ loop'.row = loop.row /\ loop'.plan = <<>>
          /\ loop'.results = <<Head(loop.plan).id>>
      <3>1. ASSUME NEW l, DOMAIN l = Fields, NEW m,
                   m = [l EXCEPT !.at = "exec", !.leaving = None, !.target = 0]
            PROVE  /\ DOMAIN m = Fields /\ m.at = "exec" /\ m.row = l.row /\ m.plan = l.plan
                   /\ m.results = l.results
        BY <3>1 DEF Fields
      <3> DEFINE l == Executed(loop)
      <3>2. /\ DOMAIN l = Fields /\ l.row = loop.row
            /\ l.plan = <<>> /\ l.results = <<Head(loop.plan).id>>
        BY ExecutedFields
      <3>3. loop' = [l EXCEPT !.at = "exec", !.leaving = None, !.target = 0]
        BY <2>1
      <3> HIDE DEF l
      <3> QED BY <3>1, <3>2, <3>3
    <2>5. LoopSound(history, loop')
      BY <2>2, <2>3, <2>4, ExecutedSound
    <2> QED BY <1>1, <1>2, <2>5, LoopFollows DEF TalkInv
  <1> QED BY <1>3, <1>4 DEF Actor

\* The summary of a conversation is requested and written.
LEMMA SummaryKeeps ==
  ASSUME TalkInv, RequestSummary \/ WriteSummary
  PROVE  TalkInv'
  <1>1. made' = made
    BY DEF RequestSummary, WriteSummary
  <1>2. CASE RequestSummary
    <2>1. /\ history' = history
          /\ loop' = [Resting EXCEPT !.at = "summing", !.target = LastMsg(history, current)]
      BY <1>2 DEF RequestSummary
    <2>2. loop'.at = "summing" /\ loop'.leaving = None
      BY <2>1 DEF Resting
    <2>3. LoopSound(history, loop')
      BY <2>2 DEF LoopSound, Executing
    <2> QED BY <1>1, <2>1, <2>3 DEF TalkInv
  <1>3. CASE WriteSummary
    <2>1. loop' = Resting /\ (history' = Summarised(history, loop.target) \/ history' = history)
      BY <1>3 DEF WriteSummary
    <2>2. HistSound(history', made)
      BY <2>1, SummarisedRow DEF TalkInv
    <2> QED BY <1>1, <2>1, <2>2, LoopEnds
  <1> QED BY <1>2, <1>3

\* A prompt comes and is stored, or the process dies.
LEMMA PromptKeeps ==
  ASSUME TalkInv, Prompt \/ NoAgentToLeave \/ StorePrompt \/ Crash
  PROVE  TalkInv'
  <1>1. made' = made
    BY DEF Prompt, NoAgentToLeave, StorePrompt, Crash
  <1>2. CASE Crash
    BY <1>1, <1>2, LoopEnds DEF Crash, TalkInv
  <1>3. CASE Prompt \/ NoAgentToLeave \/ StorePrompt
    <2>1. loop' = loop
      BY <1>3 DEF Prompt, NoAgentToLeave, StorePrompt
    <2>2. \/ history' = history
          \/ \E kind \in {"communicate", "user"} :
               history' = Append(history, Row(Main, kind, TRUE, <<>>, <<>>))
      BY <1>3 DEF Prompt, NoAgentToLeave, StorePrompt, Append1
    <2>3. HistSound(history', made) /\ Follows(history, history')
      BY <2>2, PlainPrompt, FollowsSame DEF TalkInv
    <2> QED BY <1>1, <2>1, <2>3, LoopWaits
  <1> QED BY <1>2, <1>3

\* No step makes a history or a plan unsound.
LEMMA StepTalk ==
  ASSUME TalkInv, Shaped(loop), [Next]_dialogueVars
  PROVE  TalkInv'
  <1>1. CASE UNCHANGED dialogueVars
    BY <1>1 DEF dialogueVars, TalkInv
  <1>2. CASE Next
    BY <1>2, SendKeeps, BuildKeeps, AnswerKeeps, CallsStored, ApproveKeeps, WarnKeeps, ExecKeeps,
       ActivateKeeps, SaveKeeps, ClearKeeps, HandBackKeeps, SummariseKeeps, SummaryKeeps,
       PromptKeeps
       DEF Next
  <1> QED BY <1>1, <1>2

\* Of such a history every request is paired.
LEMMA TalkPaired == TalkInv => CallsPaired
  BY RequestsSound DEF TalkInv, HistSound, CallsPaired

-----------------------------------------------------------------------------
DialogueInv == AgentInv /\ TalkInv

\* The two invariants together, at the start.
LEMMA InitDialogue == Init => DialogueInv
  BY InitAgent, InitTalk DEF DialogueInv

\* The two invariants together, along every step.
LEMMA StepDialogue == ASSUME TalkAssumed PROVE DialogueInv /\ [Next]_dialogueVars => DialogueInv'
  <1> SUFFICES ASSUME DialogueInv, [Next]_dialogueVars PROVE DialogueInv'
    OBVIOUS
  <1>1. AgentInv'
    BY StepAgent DEF DialogueInv
  <1>2. TalkInv'
    BY StepTalk DEF DialogueInv, AgentInv
  <1> QED BY <1>1, <1>2 DEF DialogueInv
=============================================================================
