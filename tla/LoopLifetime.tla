------------------------------ MODULE LoopLifetime ------------------------------
(***************************************************************************)
(* The loop goroutine of a session from Start to its end, the hand-over of *)
(* its responses to the goroutine of the callback, its retries, and the    *)
(* calls of other goroutines that feed, stop and cancel it                 *)
(* (ui/loop/loop.go).  What a turn does to the session's state is          *)
(* AgentLoop; here it is where the loop waits, and for whom.               *)
(*                                                                         *)
(* A context is "none", "live" or "cancelled"; those of a response and of  *)
(* tools are derived from the loop's.  Stop reads the two cancel functions *)
(* under the lock and calls them behind it: called late, they cancel what  *)
(* is over, as if there had been nothing to stop, so it is one step.       *)
(***************************************************************************)
EXTENDS Naturals, Sequences

CONSTANTS
  QueueSize,     \* capacity of sendQueue and recvQueue
  MaxRetries,    \* maxRetries
  MaxCallCount,  \* Agent.MaxCallCount
  MaxInputs,     \* bound on what clients send
  MaxRounds,     \* bound on how often tools let a turn go on
  MaxStops       \* bound on calls of Stop

VARIABLES
  ctx, done, stopped,
  response,      \* cancelFunc: the context of the request in hand
  tool,          \* toolCancelFunc: the context of the tools that run
  loop,          \* where the loop is: pc; responses it has to hand over, then "then";
                 \* retries, loopCount, responseStarted; after: where a summary returns to
  needCompress,
  sendQueue,
  recvQueue,     \* how many responses are in it
  sync,          \* recvSyncQueue is full
  callback,      \* SetCallback's goroutine
  stopper, canceller,
  inputs, rounds, stops

signals == <<ctx, done, stopped, response, tool>>
queues  == <<sendQueue, recvQueue, sync>>
bounds  == <<inputs, rounds, stops>>
vars == <<signals, loop, needCompress, queues, callback, stopper, canceller, bounds>>

Over(context) == context = "cancelled" \/ ctx = "cancelled"

Init ==
  /\ ctx = "none" /\ done = FALSE /\ stopped = FALSE /\ response = "none" /\ tool = "none"
  /\ loop = [pc |-> "new", calls |-> <<>>, then |-> "top", after |-> "top",
             tries |-> 0, loops |-> 0, started |-> FALSE]
  /\ needCompress = FALSE
  /\ sendQueue = <<>> /\ recvQueue = 0 /\ sync = FALSE
  /\ callback = "wait" /\ stopper = "idle" /\ canceller = "idle"
  /\ inputs = 0 /\ rounds = 0 /\ stops = 0

----------------------------------------------------------------------------
(* call: a response is handed over when its callback has returned, or when *)
(* the loop has been told to end.                                          *)

Goto(pc) == [loop EXCEPT !.pc = pc]
Say(calls, then) ==
  IF calls = <<>> THEN [loop EXCEPT !.pc = then, !.calls = <<>>, !.then = "top"]
  ELSE [loop EXCEPT !.pc = "call", !.calls = calls, !.then = then]

\* The response loop returns; its variables are gone.
Settle(calls) == [Say(calls, "top") EXCEPT !.tries = 0, !.loops = 0, !.started = FALSE]

Handed == Say(Tail(loop.calls), loop.then)

Call ==
  /\ loop.pc = "call"
  /\ \/ /\ recvQueue < QueueSize
        /\ recvQueue' = recvQueue + 1
        /\ loop' = Goto("sync")
     \/ /\ done
        /\ loop' = Handed
        /\ UNCHANGED recvQueue
  /\ UNCHANGED <<signals, needCompress, sendQueue, sync, callback, stopper, canceller, bounds>>

\* Mutant of Sync: only the callback can end the wait.
SyncBlind ==
  /\ loop.pc = "sync" /\ sync
  /\ sync' = FALSE
  /\ loop' = Handed
  /\ UNCHANGED <<signals, needCompress, sendQueue, recvQueue, callback, stopper, canceller, bounds>>

Sync ==
  /\ loop.pc = "sync"
  /\ \/ sync /\ sync' = FALSE
     \/ done /\ UNCHANGED sync
  /\ loop' = Handed
  /\ UNCHANGED <<signals, needCompress, sendQueue, recvQueue, callback, stopper, canceller, bounds>>

CallbackTake ==
  /\ callback = "wait" /\ recvQueue > 0
  /\ recvQueue' = recvQueue - 1
  /\ callback' = "handle"
  /\ UNCHANGED <<signals, loop, needCompress, sendQueue, sync, stopper, canceller, bounds>>

\* Mutant of CallbackReturn: the queue is free again before the callback has returned.
CallbackReturnLate ==
  /\ \/ callback = "handle" /\ ~sync /\ sync' = TRUE /\ callback' = "sync"
     \/ callback = "sync" /\ callback' = "wait" /\ UNCHANGED sync
  /\ UNCHANGED <<signals, loop, needCompress, sendQueue, recvQueue, stopper, canceller, bounds>>

\* callFunc returns; then the loop is told, for which there has to be room.
CallbackReturn ==
  /\ \/ callback = "handle" /\ callback' = "sync" /\ UNCHANGED sync
     \/ callback = "sync" /\ ~sync /\ sync' = TRUE /\ callback' = "wait"
  /\ UNCHANGED <<signals, loop, needCompress, sendQueue, recvQueue, stopper, canceller, bounds>>

CallbackEnd ==
  /\ callback = "wait" /\ done
  /\ callback' = "over"
  /\ UNCHANGED <<signals, loop, needCompress, queues, stopper, canceller, bounds>>

----------------------------------------------------------------------------
(* The loop. *)

\* A chat that was left in WaitApprove goes on with its tools.
Start ==
  /\ loop.pc = "new"
  /\ ctx' = "live"
  /\ \E pc \in {"wait", "top"} : loop' = Goto(pc)
  /\ UNCHANGED <<done, stopped, response, tool, needCompress, queues, callback, stopper, canceller, bounds>>

\* doAutoSummary, and the summary a client asks for.
Summarise(after) == [Say(<<"flag">>, "summing") EXCEPT !.after = after]

Top ==
  /\ loop.pc = "top"
  /\ loop' = IF needCompress THEN Summarise("top")
             ELSE IF ctx = "cancelled" THEN Say(<<"stop">>, "exit")
             ELSE Goto("select")
  /\ UNCHANGED <<signals, needCompress, queues, callback, stopper, canceller, bounds>>

Leave ==
  /\ loop.pc = "select" /\ ctx = "cancelled"
  /\ loop' = Say(<<"stop">>, "exit")
  /\ UNCHANGED <<signals, needCompress, queues, callback, stopper, canceller, bounds>>

\* A prompt takes back an earlier Stop; one that cannot be stored is reported and answered.
Receive ==
  /\ loop.pc = "select" /\ sendQueue # <<>>
  /\ sendQueue' = Tail(sendQueue)
  /\ stopped' = (stopped /\ Head(sendQueue) \notin {"prompt", "blank"})
  /\ tool' = IF Head(sendQueue) = "approve" THEN "live" ELSE tool
  /\ CASE Head(sendQueue) = "summary" -> loop' = Summarise("stop")
       [] Head(sendQueue) = "approve" -> loop' = Goto("approved")
       [] Head(sendQueue) = "blank"   -> loop' = Goto("top")
       [] Head(sendQueue) = "prompt"  -> \E error \in {<<>>, <<"error">>} : loop' = Say(error, "turn")
  /\ UNCHANGED <<ctx, done, response, needCompress, recvQueue, sync, callback, stopper, canceller, bounds>>

\* One round of runResponseLoop.
Turn ==
  /\ loop.pc = "turn"
  /\ IF stopped
     THEN loop' = Settle(<<"stop">>) /\ UNCHANGED response
     ELSE /\ response' = "live"
          /\ LET fresh == [loop EXCEPT !.tries = 0, !.started = FALSE, !.pc = "request"]
             IN loop' = IF needCompress
                        THEN [fresh EXCEPT !.pc = "call", !.calls = <<"flag">>, !.then = "summing",
                                           !.after = "request"]
                        ELSE fresh
  /\ UNCHANGED <<ctx, done, stopped, tool, needCompress, queues, callback, stopper, canceller, bounds>>

\* A piece of the answer; the tokens used so far may ask for a summary.
Chunk ==
  /\ loop.pc = "request" /\ ~Over(response)
  /\ \E started \in {loop.started, TRUE} :
       loop' = [Say(<<"chunk">>, "request") EXCEPT !.started = started]
  /\ needCompress' \in {needCompress, TRUE}
  /\ UNCHANGED <<signals, queues, callback, stopper, canceller, bounds>>

\* The request ends: the answer is complete, with tools or without; it is to go on; it
\* failed; or it was cancelled.  An answer without text is an error, unless it was thought.
RequestEnds ==
  /\ loop.pc = "request"
  /\ \/ response' = "none" /\ loop' = Goto("wait")
     \/ response' = "none" /\ \E end \in {"stop"} \cup (IF loop.started THEN {} ELSE {"error"}) :
                                loop' = Settle(<<end>>)
     \/ /\ response' = "none"
        /\ loop' = IF loop.loops + 1 >= MaxCallCount THEN Settle(<<"error">>)
                   ELSE [loop EXCEPT !.loops = @ + 1, !.tries = 0, !.started = FALSE, !.pc = "turn"]
     \/ /\ loop.started \/ loop.tries = MaxRetries
        /\ response' = "none" /\ loop' = Settle(<<"error">>)
     \/ /\ ~loop.started /\ loop.tries < MaxRetries
        /\ loop' = [loop EXCEPT !.tries = @ + 1, !.pc = "backoff"]
        /\ UNCHANGED response
     \/ Over(response) /\ response' = "none" /\ loop' = Settle(<<"stop">>)
  /\ UNCHANGED <<ctx, done, stopped, tool, needCompress, queues, callback, stopper, canceller, bounds>>

\* The time before a retry is over, or somebody cancels: then the error is what is reported.
Backoff ==
  /\ loop.pc = "backoff"
  /\ \/ loop' = [loop EXCEPT !.pc = "request", !.started = FALSE] /\ UNCHANGED response
     \/ Over(response) /\ response' = "none" /\ loop' = Settle(<<"error">>)
  /\ UNCHANGED <<ctx, done, stopped, tool, needCompress, queues, callback, stopper, canceller, bounds>>

\* handleWaitApprove: the rules are asked, and what they let through runs.
WaitApprove ==
  /\ loop.pc = "wait"
  /\ tool' = "live"
  /\ loop' = Goto("tools")
  /\ UNCHANGED <<ctx, done, stopped, response, needCompress, queues, callback, stopper, canceller, bounds>>

\* Its ends: an error; approved or turned down, and the turn goes on; pending, for a client
\* to decide or, in a sub-agent, turned down; or nothing was pending.
ToolsEnd ==
  /\ loop.pc = "tools"
  /\ tool' = "none"
  /\ \/ \E end \in {"error", "pending"} : loop' = Settle(<<end>>) /\ UNCHANGED rounds
     \/ /\ rounds < MaxRounds /\ rounds' = rounds + 1
        /\ \E calls \in {<<"blank">>, <<>>} : loop' = Say(calls, "turn")
     \/ /\ loop' = IF needCompress THEN Summarise("stop") ELSE Settle(<<"stop">>)
        /\ UNCHANGED rounds
  /\ UNCHANGED <<ctx, done, stopped, response, needCompress, queues, callback, stopper, canceller, inputs, stops>>

\* What a client approved has run.
ApprovedEnd ==
  /\ loop.pc = "approved"
  /\ tool' = "none"
  /\ \E error \in {<<>>, <<"error">>} : loop' = Say(error \o <<"blank">>, "turn")
  /\ UNCHANGED <<ctx, done, stopped, response, needCompress, queues, callback, stopper, canceller, bounds>>

SummaryEnds ==
  /\ loop.pc = "summing"
  /\ needCompress' = FALSE
  /\ \E error \in {<<>>, <<"error">>} :
       /\ ctx = "cancelled" => error # <<>>
       /\ loop' = IF loop.after = "stop" THEN [Settle(error \o <<"summary", "stop">>) EXCEPT !.after = "top"]
                  ELSE [Say(error \o <<"summary">>, loop.after) EXCEPT !.after = "top"]
  /\ UNCHANGED <<signals, queues, callback, stopper, canceller, bounds>>

\* Start's deferred calls.
Exit ==
  /\ loop.pc = "exit"
  /\ done' = TRUE /\ ctx' = "cancelled"
  /\ loop' = Goto("over")
  /\ UNCHANGED <<stopped, response, tool, needCompress, queues, callback, stopper, canceller, bounds>>

----------------------------------------------------------------------------
(* Other goroutines. *)

\* Chat, ChatWithID, Approve and Summary; on a full queue they fail.
Send ==
  /\ inputs < MaxInputs /\ inputs' = inputs + 1
  /\ Len(sendQueue) < QueueSize
  /\ \E kind \in {"prompt", "blank", "approve", "summary"} : sendQueue' = Append(sendQueue, kind)
  /\ UNCHANGED <<signals, loop, needCompress, recvQueue, sync, callback, stopper, canceller, rounds, stops>>

Cut(context) == IF context = "live" THEN "cancelled" ELSE context

StopFlag ==
  /\ stopper = "idle" /\ stops < MaxStops /\ stops' = stops + 1
  /\ stopped' = TRUE
  /\ stopper' = "cancel"
  /\ UNCHANGED <<ctx, done, response, tool, loop, needCompress, queues, callback, canceller, inputs, rounds>>

StopCancel ==
  /\ stopper = "cancel"
  /\ response' = Cut(response) /\ tool' = Cut(tool)
  /\ stopper' = "idle"
  /\ UNCHANGED <<ctx, done, stopped, loop, needCompress, queues, callback, canceller, bounds>>

\* The end of the session: before Start has run there is no context to cancel.
Cancel ==
  /\ \/ canceller = "idle" /\ done' = TRUE /\ canceller' = "ctx" /\ UNCHANGED ctx
     \/ canceller = "ctx" /\ ctx' = Cut(ctx) /\ canceller' = "done" /\ UNCHANGED done
  /\ UNCHANGED <<stopped, response, tool, loop, needCompress, queues, callback, stopper, bounds>>

----------------------------------------------------------------------------
LoopStep == Call \/ Sync \/ Start \/ Top \/ Leave \/ Receive \/ Turn \/ Backoff \/ WaitApprove \/ Exit
CallbackStep == CallbackTake \/ CallbackReturn \/ CallbackEnd
External == RequestEnds \/ ToolsEnd \/ ApprovedEnd \/ SummaryEnds

\* A model, a tool or a summary may never end, unless its context is cancelled.
ToldToEnd ==
  \/ loop.pc = "request" /\ Over(response)
  \/ loop.pc \in {"tools", "approved"} /\ Over(tool)
  \/ loop.pc = "summing" /\ ctx = "cancelled"

Next ==
  \/ LoopStep \/ CallbackStep \/ External \/ Chunk
  \/ Send \/ StopFlag \/ StopCancel \/ Cancel

\* Goroutines that can go on do, callFunc returns, and a select takes either branch in
\* the end.
Fairness ==
  /\ WF_vars(LoopStep)
  /\ WF_vars(CallbackStep)
  /\ WF_vars(ToldToEnd /\ External)

Spec == Init /\ [][Next]_vars /\ Fairness

----------------------------------------------------------------------------
\* Back pressure (SetCallback): as long as the loop lives it goes on only when nothing it
\* has said is still on its way to the clients.
OneAtATime ==
  (~done /\ loop.pc # "sync") => (recvQueue = 0 /\ callback = "wait" /\ ~sync)

\* Wherever Cancel meets the loop - in a request, in a retry, with tools, waiting for a
\* callback whose goroutine may be gone already - the loop ends; and a request or tools that
\* Stop cancelled end.  (Not a summary before the request: it has the loop's own context.)
EndsWhenTold ==
  /\ (ctx = "cancelled") ~> (loop.pc = "over")
  /\ (tool = "cancelled" \/ (response = "cancelled" /\ loop.pc \in {"request", "backoff"}))
       ~> (tool # "cancelled" /\ response # "cancelled")

\* Start closes done so that SetCallback's goroutine does not leak (loop.go:125-126).
CallbackEnds == done ~> (callback = "over")
=============================================================================
