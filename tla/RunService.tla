----------------------------- MODULE RunService -----------------------------
(***************************************************************************)
(* The run tool (tools/tools/run): a tool call submits a job to the one    *)
(* background service, whose loop serves submissions and kills in turn;    *)
(* every job executes its command in a goroutine of its own, with a ticker *)
(* that refreshes the status of a background job.  Stop() of the session's *)
(* loop interrupts the batch of tools from another goroutine.              *)
(*                                                                         *)
(* A section under killFnMu, cmdMu, resultMu or toolKillMu is one step.    *)
(* What a command prints is left out.                                      *)
(***************************************************************************)
EXTENDS Integers, Sequences, SequencesExt

CONSTANTS
  Job,        \* jobs, numbered in the order of doSubmit: run_1, run_2, ...
  Stopper,    \* goroutines that call Stop()
  MaxBatches, \* bound on the batches of tools
  MaxStops,   \* bound on the calls of Stop()
  None

VARIABLES
  reqChan,    \* Service.reqChan: submissions and kills
  job,        \* the jobs and their execute goroutines
  tool,       \* the loop's goroutine: where it is in a run call, on which job
  toolCtx,    \* the context of the batch: "none", "live", "cancelled"
  toolKillFn, \* session.ToolKillFn: the job it kills
  stopper,    \* the calls of Stop(): where they are, the job they kill
  batches, stops

runVars == <<reqChan, job, tool, toolCtx, toolKillFn, stopper, batches, stops>>

ExecPc == {"none", "begin", "create", "setKill", "check", "start", "running", "ended",
           "final", "save", "clean", "done"}

TypeOK ==
  /\ reqChan \in Seq([kind : {"submit", "kill"}, background : BOOLEAN, id : Job \cup {None}])
  /\ job \in [Job ->
       [pc : ExecPc, background : BOOLEAN, killRequested : BOOLEAN, killFn : BOOLEAN,
        proc : {"none", "running", "dead"}, watcher : BOOLEAN, ticker : BOOLEAN,
        status : {"none", "submitted", "running", "finished"}, apiKey : BOOLEAN,
        retried : BOOLEAN, result : {"none", "killed", "ended"}, state : {"running", "finished", "killed"}]]
  /\ tool \in [pc : {"idle", "batch", "over", "submitted", "hook", "wait", "killed", "waitTask"},
               id : Job \cup {None}]
  /\ toolCtx \in {"none", "live", "cancelled"}
  /\ toolKillFn \in Job \cup {None}
  /\ stopper \in [Stopper -> [pc : {"idle", "killTool", "reply"}, id : Job \cup {None}]]
  /\ batches \in 0..MaxBatches /\ stops \in 0..MaxStops

NewJob == [pc |-> "none", background |-> FALSE, killRequested |-> FALSE, killFn |-> FALSE,
           proc |-> "none", watcher |-> FALSE, ticker |-> FALSE, status |-> "none",
           apiKey |-> FALSE, retried |-> FALSE, result |-> "none", state |-> "running"]

Init ==
  /\ reqChan = <<>>
  /\ job = [j \in Job |-> NewJob]
  /\ tool = [pc |-> "idle", id |-> None]
  /\ toolCtx = "none" /\ toolKillFn = None
  /\ stopper = [s \in Stopper |-> [pc |-> "idle", id |-> None]]
  /\ batches = 0 /\ stops = 0

\* The context a job was submitted with: the batch's, or Background.
Cancelled(j) == ~job[j].background /\ toolCtx = "cancelled"

\* Command.Kill: without a process there is nothing to kill.
Killed(r) == IF r.proc = "running" THEN [r EXCEPT !.proc = "dead"] ELSE r

\* Job.kill: the request is remembered for a command not yet created.
KillJob(r) == LET k == [r EXCEPT !.killRequested = TRUE] IN IF r.killFn THEN Killed(k) ELSE k

Exec(j, pc) == job' = [job EXCEPT ![j].pc = pc]

-----------------------------------------------------------------------------
(* The tool call *)

\* runWithToolCancel.
BeginBatch ==
  /\ tool.pc = "idle" /\ batches < MaxBatches
  /\ batches' = batches + 1
  /\ toolCtx' = "live"
  /\ tool' = [pc |-> "batch", id |-> None]
  /\ UNCHANGED <<reqChan, job, toolKillFn, stopper, stops>>

\* ExecuteToolCalls executes one call of a batch at most.
EndBatch ==
  /\ tool.pc \in {"batch", "over"}
  /\ toolCtx' = "none"
  /\ tool' = [pc |-> "idle", id |-> None]
  /\ UNCHANGED <<reqChan, job, toolKillFn, stopper, batches, stops>>

\* runTask and pythonTask: a shell or python call, in the background or not.
RunTask ==
  /\ tool.pc = "batch"
  /\ \E j \in Job : job[j].pc = "none"
  /\ \E background \in BOOLEAN :
       reqChan' = Append(reqChan, [kind |-> "submit", background |-> background, id |-> None])
  /\ tool' = [pc |-> "submitted", id |-> None]
  /\ UNCHANGED <<job, toolCtx, toolKillFn, stopper, batches, stops>>

\* SetToolKillFn, after the service has answered.
Hook ==
  /\ tool.pc = "hook"
  /\ toolKillFn' = tool.id
  /\ tool' = [tool EXCEPT !.pc = "wait"]
  /\ UNCHANGED <<reqChan, job, toolCtx, stopper, batches, stops>>

\* Job.Wait: the end of the job, or of the context, which kills the job.
Wait ==
  \/ /\ tool.pc \in {"wait", "killed"} /\ job[tool.id].pc = "done"
     /\ toolKillFn' = None
     /\ tool' = [pc |-> "over", id |-> None]
     /\ UNCHANGED job
  \/ /\ tool.pc = "wait" /\ toolCtx = "cancelled"
     /\ job' = [job EXCEPT ![tool.id] = KillJob(@)]
     /\ tool' = [tool EXCEPT !.pc = "killed"]
     /\ UNCHANGED toolKillFn

WaitStep == Wait /\ UNCHANGED <<reqChan, toolCtx, stopper, batches, stops>>

\* waitTask: a background job, by its run id.
WaitTask ==
  \/ /\ tool.pc = "batch"
     /\ \E j \in Job : /\ job[j].background
                       /\ tool' = [pc |-> "waitTask", id |-> j]
  \/ /\ tool.pc = "waitTask"
     /\ job[tool.id].pc = "done" \/ toolCtx = "cancelled"
     /\ tool' = [pc |-> "over", id |-> None]

WaitTaskStep ==
  WaitTask /\ UNCHANGED <<reqChan, job, toolCtx, toolKillFn, stopper, batches, stops>>

-----------------------------------------------------------------------------
(* Service.loop *)

NextJob == CHOOSE j \in Job : job[j].pc = "none" /\ \A k \in Job : job[k].pc = "none" => j <= k

\* doSubmit starts execute with, for a background job, its ticker; the answer
\* lets the tool go on.  Every job has the temporary key of a python job.
DoSubmit ==
  /\ reqChan # <<>> /\ Head(reqChan).kind = "submit"
  /\ LET b == Head(reqChan).background IN
     /\ job' = [job EXCEPT ![NextJob] =
                  [NewJob EXCEPT !.pc = "begin", !.background = b, !.ticker = b, !.apiKey = TRUE,
                                 !.status = IF b THEN "submitted" ELSE "none"]]
     /\ tool' = IF b THEN [pc |-> "over", id |-> None] ELSE [pc |-> "hook", id |-> NextJob]
  /\ reqChan' = Tail(reqChan)
  /\ UNCHANGED <<toolCtx, toolKillFn, stopper, batches, stops>>

\* doKill; Kill returns to the Stop() that asked.
DoKill ==
  /\ reqChan # <<>> /\ Head(reqChan).kind = "kill"
  /\ LET j == Head(reqChan).id IN
     /\ job' = [job EXCEPT ![j] = KillJob(@)]
     /\ \E s \in Stopper : /\ stopper[s] = [pc |-> "reply", id |-> j]
                           /\ stopper' = [stopper EXCEPT ![s] = [pc |-> "idle", id |-> None]]
  /\ reqChan' = Tail(reqChan)
  /\ UNCHANGED <<tool, toolCtx, toolKillFn, batches, stops>>

-----------------------------------------------------------------------------
(* execute and runCommand *)

\* A context that is already cancelled ends the job at once.
BeginJob(j) ==
  /\ job[j].pc = "begin"
  /\ job' = [job EXCEPT ![j].pc = IF Cancelled(j) THEN "final" ELSE "create",
                        ![j].result = IF Cancelled(j) THEN "killed" ELSE @]

\* sandbox.New and Execute succeed or fail.
CreateCommand(j) ==
  /\ job[j].pc = "create"
  /\ \/ Exec(j, "setKill")
     \/ job' = [job EXCEPT ![j].pc = "final", ![j].result = "ended"]

\* setKillFn; a kill that came first is done now, to no effect.
SetKillFn(j) ==
  /\ job[j].pc = "setKill"
  /\ job' = [job EXCEPT ![j].killFn = TRUE, ![j].pc = "check"]

WasKilled(j) ==
  /\ job[j].pc = "check"
  /\ job' = IF job[j].killRequested
            THEN [job EXCEPT ![j].pc = "final", ![j].result = "killed"]
            ELSE [job EXCEPT ![j].pc = "start", ![j].watcher = TRUE]

\* Mutant of StartCommand: the context is not asked again.
StartCommandBlind(j) ==
  /\ job[j].pc = "start"
  /\ job' = [job EXCEPT ![j].pc = "running", ![j].proc = "running"]

\* Command.Start asks the context under the lock that Kill takes.
StartCommand(j) ==
  /\ job[j].pc = "start"
  /\ \/ /\ ~Cancelled(j)
        /\ job' = [job EXCEPT ![j].pc = "running", ![j].proc = "running"]
     \/ Exec(j, "ended")

\* runCmd's goroutine: the context kills the command, once.
Watch(j) ==
  /\ job[j].watcher /\ Cancelled(j)
  /\ job' = [job EXCEPT ![j] = [Killed(@) EXCEPT !.watcher = FALSE]]

\* The process ends by itself (or by its timeout).
ProcessExits(j) ==
  /\ job[j].proc = "running"
  /\ job' = [job EXCEPT ![j].proc = "dead"]

CommandWait(j) ==
  /\ job[j].pc = "running" /\ job[j].proc = "dead"
  /\ Exec(j, "ended")

\* runCmd has returned, its watcher is let go.  A sandbox that is not available is
\* tried once more without.
CommandEnds(j) ==
  /\ job[j].pc = "ended"
  /\ \/ job' = [job EXCEPT ![j].pc = "final", ![j].watcher = FALSE,
                           ![j].result = IF Cancelled(j) THEN "killed" ELSE "ended"]
     \/ /\ ~job[j].retried
        /\ job' = [job EXCEPT ![j].pc = "setKill", ![j].watcher = FALSE, ![j].retried = TRUE,
                              ![j].proc = "none"]

Tick(j) ==
  /\ job[j].ticker
  /\ job' = [job EXCEPT ![j].status = "running"]

\* Mutant of FinalStatus: the ticker runs until the deferred function.
FinalStatusEarly(j) ==
  /\ job[j].pc = "final"
  /\ job' = [job EXCEPT ![j].pc = "save",
                        ![j].status = IF job[j].background THEN "finished" ELSE @]

\* stopTicker waits for the ticker's goroutine; then the last status is written.
FinalStatus(j) ==
  /\ job[j].pc = "final"
  /\ job' = [job EXCEPT ![j].pc = "save", ![j].ticker = FALSE,
                        ![j].status = IF job[j].background THEN "finished" ELSE @]

SaveResult(j) ==
  /\ job[j].pc = "save"
  /\ job' = [job EXCEPT ![j].pc = "clean",
                        ![j].state = IF job[j].result = "killed" \/ job[j].killRequested
                                     THEN "killed" ELSE "finished"]

\* The deferred function: the ticker, the temporary key, then done is closed.
CleanUp(j) ==
  /\ job[j].pc = "clean"
  /\ job' = [job EXCEPT ![j].pc = "done", ![j].ticker = FALSE, ![j].apiKey = FALSE]

Execute(j) ==
  \/ BeginJob(j) \/ CreateCommand(j) \/ SetKillFn(j) \/ WasKilled(j) \/ StartCommand(j)
  \/ CommandWait(j) \/ CommandEnds(j) \/ FinalStatus(j) \/ SaveResult(j) \/ CleanUp(j)

JobStep(A) == A /\ UNCHANGED <<reqChan, tool, toolCtx, toolKillFn, stopper, batches, stops>>

-----------------------------------------------------------------------------
(* Stop() of the loop: the context of the tools, then KillTool *)

Stop(s) ==
  /\ stopper[s].pc = "idle" /\ stops < MaxStops
  /\ stops' = stops + 1
  /\ toolCtx' = IF toolCtx = "live" THEN "cancelled" ELSE toolCtx
  /\ stopper' = [stopper EXCEPT ![s].pc = "killTool"]
  /\ UNCHANGED <<reqChan, job, tool, toolKillFn, batches>>

KillTool(s) ==
  /\ stopper[s].pc = "killTool"
  /\ toolKillFn' = None
  /\ IF toolKillFn = None
     THEN /\ stopper' = [stopper EXCEPT ![s].pc = "idle"]
          /\ UNCHANGED reqChan
     ELSE /\ stopper' = [stopper EXCEPT ![s] = [pc |-> "reply", id |-> toolKillFn]]
          /\ reqChan' = Append(reqChan, [kind |-> "kill", background |-> FALSE, id |-> toolKillFn])
  /\ UNCHANGED <<job, tool, toolCtx, batches, stops>>

Next ==
  \/ BeginBatch \/ EndBatch \/ RunTask \/ Hook \/ WaitStep \/ WaitTaskStep
  \/ DoSubmit \/ DoKill
  \/ \E j \in Job :
       \/ JobStep(BeginJob(j)) \/ JobStep(CreateCommand(j)) \/ JobStep(SetKillFn(j))
       \/ JobStep(WasKilled(j)) \/ JobStep(StartCommand(j)) \/ JobStep(Watch(j))
       \/ JobStep(ProcessExits(j)) \/ JobStep(CommandWait(j)) \/ JobStep(CommandEnds(j))
       \/ JobStep(Tick(j)) \/ JobStep(FinalStatus(j)) \/ JobStep(SaveResult(j))
       \/ JobStep(CleanUp(j))
  \/ \E s \in Stopper : Stop(s) \/ KillTool(s)

\* Every goroutine that can run runs.  A command need not end by itself.
Fairness ==
  /\ WF_runVars(Hook) /\ WF_runVars(WaitStep)
  /\ WF_runVars(DoSubmit) /\ WF_runVars(DoKill)
  /\ \A j \in Job : WF_runVars(JobStep(Execute(j))) /\ WF_runVars(JobStep(Watch(j)))
  /\ \A s \in Stopper : WF_runVars(KillTool(s))

Spec == Init /\ [][Next]_runVars /\ Fairness

-----------------------------------------------------------------------------
\* Nothing outlives a job that is done: whoever waited on it (Job.Wait, waitTask)
\* finds the process gone, the ticker stopped, the temporary API key deleted and,
\* for a background job, "finished" as the last word of its status, whatever
\* kills, refreshes and second attempts came between.
NothingOutlivesJob ==
  \A j \in Job : job[j].pc = "done" =>
    /\ job[j].proc # "running"
    /\ ~job[j].ticker /\ ~job[j].apiKey
    /\ job[j].background => job[j].status = "finished"

\* Stop() reaches the command of a tool call wherever it is: before, while or after
\* it is created, or between the attempt with a sandbox and the one without.  The
\* call returns although the command would never end by itself.
StopEndsTool ==
  (toolCtx = "cancelled" /\ tool.pc \in {"submitted", "hook", "wait", "killed"})
    ~> tool.pc \in {"over", "idle"}
=============================================================================
