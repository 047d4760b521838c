------------------------------ MODULE MCLive_proofs ------------------------------
(***************************************************************************)
(* The safety properties of the run tool and of the loop's life, for the   *)
(* behaviours in which they run side by side: those of the run tool are    *)
(* proved here, for any number of jobs, batches of tools and calls of      *)
(* Stop(), and so are those of the loop.                                   *)
(***************************************************************************)
EXTENDS MCLive, SequenceTheorems, WellFoundedInduction, TLAPS

\* Whatever is active, each of the two takes one of its own steps or rests.
LEMMA StepsApart == [Next]_allVars => [Run!Next]_jobVars /\ [Loop!Next]_loopVars
  BY Zenon DEF Next, allVars

-----------------------------------------------------------------------------
(* The run tool. *)

JobRec ==
  [pc : Run!ExecPc, background : BOOLEAN, killRequested : BOOLEAN, killFn : BOOLEAN,
   proc : {"none", "running", "dead"}, watcher : BOOLEAN, ticker : BOOLEAN,
   status : {"none", "submitted", "running", "finished"}, apiKey : BOOLEAN,
   retried : BOOLEAN, result : {"none", "killed", "ended"}, state : {"running", "finished", "killed"}]
ReqRec == [kind : {"submit", "kill"}, background : BOOLEAN, id : Job \cup {None}]

\* A process runs only while execute waits for it; from the moment the ticker has been
\* waited for, the last status stands.
JobSound(r) ==
  /\ r.proc = "running" => r.pc = "running"
  /\ r.pc \in {"save", "clean", "done"} => ~r.ticker /\ (r.background => r.status = "finished")
  /\ r.pc = "done" => ~r.apiKey

JobsSound == \A j \in Job : JobSound(job[j])

\* The one submission on its way is the one the tool waits for, and there is a number for it.
SubmitInv ==
  /\ \A i \in 1..Len(reqChan) : reqChan[i].kind = "submit" =>
       /\ tool.pc = "submitted"
       /\ \A l \in 1..Len(reqChan) : reqChan[l].kind = "submit" => l = i
  /\ tool.pc = "submitted" => \E j \in Job : job[j].pc = "none"

RunInv == Run!TypeOK /\ JobsSound /\ SubmitInv

\* Jobs are numbered (run_1, run_2, ...).
RunAssumed == /\ Job \subseteq Nat
           /\ MaxBatches \in Nat /\ MaxStops \in Nat

-----------------------------------------------------------------------------
\* A set of numbers that is not empty has a least one.
LEMMA LeastExists ==
  ASSUME NEW S \in SUBSET Nat, S # {}
  PROVE  \E u \in S : \A v \in S : u <= v
  <1> DEFINE R == {ss \in Nat \X Nat : ss[1] < ss[2]}
  <1>1. IsWellFoundedOn(R, Nat)
    BY NatLessThanWellFounded DEF OpToRel
  <1>2. \A u, v \in S : <<v, u>> \in R <=> v < u
    OBVIOUS
  <1> HIDE DEF R
  <1>3. \E u \in S : \A v \in S : ~ (<<v, u>> \in R)
    BY <1>1, WFMin
  <1>4. PICK u \in S : \A v \in S : ~ (<<v, u>> \in R)
    BY <1>3
  <1>5. \A v \in S : u \in Nat /\ v \in Nat /\ ~ (v < u)
    BY <1>2, <1>4
  <1>6. \A v \in S : u <= v
    BY <1>5
  <1> QED
    BY <1>6

LEMMA NextJobIsNew ==
  ASSUME RunAssumed, \E j \in Job : job[j].pc = "none"
  PROVE  Run!NextJob \in Job /\ job[Run!NextJob].pc = "none"
  <1> DEFINE S == {j \in Job : job[j].pc = "none"}
  <1>1. \E u \in S : \A v \in S : u <= v
    BY LeastExists DEF RunAssumed
  <1>2. \E j \in Job : job[j].pc = "none" /\ \A k \in Job : job[k].pc = "none" => j <= k
    BY <1>1
  <1> QED
    BY <1>2 DEF Run!NextJob


-----------------------------------------------------------------------------
LEMMA InitRun == ASSUME RunAssumed PROVE Run!Init => RunInv
  <1> SUFFICES ASSUME Run!Init PROVE RunInv
    OBVIOUS
  <1>1. Run!NewJob \in JobRec /\ JobSound(Run!NewJob)
    BY DEF Run!NewJob, JobRec, JobSound, Run!ExecPc
  <1>2. job \in [Job -> JobRec] /\ JobsSound
    BY <1>1 DEF Run!Init, JobsSound
  <1>3. reqChan \in Seq(ReqRec) /\ SubmitInv
    BY EmptySeq DEF Run!Init, SubmitInv
  <1>4. Run!TypeOK
    BY <1>2, <1>3 DEF Run!Init, Run!TypeOK, JobRec, ReqRec, RunAssumed
  <1> QED
    BY <1>2, <1>3, <1>4 DEF RunInv

\* A step that changes one job, and does not make it a new one.
LEMMA OneJobMoves ==
  ASSUME RunInv, NEW j \in Job, NEW r \in JobRec, JobSound(r),
         job[j].pc = "none" => r.pc = "none",
         job' = [job EXCEPT ![j] = r],
         UNCHANGED <<reqChan, tool, toolCtx, toolKillFn, stopper, batches, stops>>
  PROVE  RunInv'
  <1>1. job' \in [Job -> JobRec]
    BY DEF RunInv, Run!TypeOK, JobRec
  <1>2. Run!TypeOK'
    BY <1>1 DEF RunInv, Run!TypeOK, JobRec
  <1>3. JobsSound'
    BY DEF RunInv, Run!TypeOK, JobsSound
  <1>4. (\E k \in Job : job[k].pc = "none") => \E k \in Job : job'[k].pc = "none"
    BY DEF RunInv, Run!TypeOK
  <1>5. SubmitInv'
    BY <1>4 DEF RunInv, SubmitInv
  <1> QED
    BY <1>2, <1>3, <1>5 DEF RunInv

\* Killing a job leaves it as sound as it was.
LEMMA KilledSound ==
  ASSUME NEW r \in JobRec, JobSound(r)
  PROVE  /\ Run!Killed(r) \in JobRec /\ JobSound(Run!Killed(r)) /\ Run!Killed(r).pc = r.pc
         /\ Run!KillJob(r) \in JobRec /\ JobSound(Run!KillJob(r)) /\ Run!KillJob(r).pc = r.pc
  <1>1. ASSUME NEW u \in JobRec, JobSound(u)
        PROVE  Run!Killed(u) \in JobRec /\ JobSound(Run!Killed(u)) /\ Run!Killed(u).pc = u.pc
    BY <1>1 DEF Run!Killed, JobRec, JobSound
  <1> DEFINE k == [r EXCEPT !.killRequested = TRUE]
  <1>2. k \in JobRec /\ JobSound(k) /\ k.pc = r.pc
    BY DEF JobRec, JobSound
  <1>3. Run!KillJob(r) = IF r.killFn THEN Run!Killed(k) ELSE k
    BY DEF Run!KillJob
  <1> HIDE DEF k
  <1> QED
    BY <1>1, <1>2, <1>3

LEMMA JobSteps ==
  ASSUME RunInv, NEW j \in Job,
         \/ Run!JobStep(Run!BeginJob(j)) \/ Run!JobStep(Run!CreateCommand(j)) \/ Run!JobStep(Run!SetKillFn(j))
         \/ Run!JobStep(Run!WasKilled(j)) \/ Run!JobStep(Run!StartCommand(j)) \/ Run!JobStep(Run!Watch(j))
         \/ Run!JobStep(Run!ProcessExits(j)) \/ Run!JobStep(Run!CommandWait(j)) \/ Run!JobStep(Run!CommandEnds(j))
         \/ Run!JobStep(Run!Tick(j)) \/ Run!JobStep(Run!FinalStatus(j)) \/ Run!JobStep(Run!SaveResult(j))
         \/ Run!JobStep(Run!CleanUp(j))
  PROVE  RunInv'
  <1> DEFINE r == job[j]
             Frame == UNCHANGED <<reqChan, tool, toolCtx, toolKillFn, stopper, batches, stops>>
  <1>1. r \in JobRec /\ JobSound(r) /\ job \in [Job -> JobRec]
    BY DEF RunInv, Run!TypeOK, JobRec, JobsSound
  <1>2. CASE Run!JobStep(Run!BeginJob(j))
    <2> DEFINE n == [r EXCEPT !.pc = IF Run!Cancelled(j) THEN "final" ELSE "create",
                              !.result = IF Run!Cancelled(j) THEN "killed" ELSE @]
    <2>1. n \in JobRec /\ JobSound(n) /\ n.pc # "none"
      BY <1>1, <1>2 DEF Run!JobStep, Run!BeginJob, JobRec, JobSound, Run!ExecPc
    <2>2. job' = [job EXCEPT ![j] = n] /\ Frame
      BY <1>1, <1>2 DEF Run!JobStep, Run!BeginJob
    <2> HIDE DEF n
    <2> QED
      BY <1>2, <2>1, <2>2, OneJobMoves DEF Run!JobStep, Run!BeginJob
  <1>3. CASE Run!JobStep(Run!CreateCommand(j))
    <2>1. CASE Run!Exec(j, "setKill")
      <3> DEFINE n == [r EXCEPT !.pc = "setKill"]
      <3>1. n \in JobRec /\ JobSound(n) /\ n.pc # "none" /\ r.pc = "create"
        BY <1>1, <1>3 DEF Run!JobStep, Run!CreateCommand, JobRec, JobSound, Run!ExecPc
      <3>2. job' = [job EXCEPT ![j] = n] /\ Frame
        BY <1>1, <1>3, <2>1 DEF Run!JobStep, Run!Exec
      <3> HIDE DEF n
      <3> QED
        BY <3>1, <3>2, OneJobMoves
    <2>2. CASE job' = [job EXCEPT ![j].pc = "final", ![j].result = "ended"]
      <3> DEFINE n == [r EXCEPT !.pc = "final", !.result = "ended"]
      <3>1. n \in JobRec /\ JobSound(n) /\ n.pc # "none" /\ r.pc = "create"
        BY <1>1, <1>3 DEF Run!JobStep, Run!CreateCommand, JobRec, JobSound, Run!ExecPc
      <3>2. job' = [job EXCEPT ![j] = n] /\ Frame
        BY <1>1, <1>3, <2>2 DEF Run!JobStep
      <3> HIDE DEF n
      <3> QED
        BY <3>1, <3>2, OneJobMoves
    <2> QED
      BY <1>3, <2>1, <2>2 DEF Run!JobStep, Run!CreateCommand
  <1>4. CASE Run!JobStep(Run!SetKillFn(j))
    <2> DEFINE n == [r EXCEPT !.killFn = TRUE, !.pc = "check"]
    <2>1. n \in JobRec /\ JobSound(n) /\ n.pc # "none"
      BY <1>1, <1>4 DEF Run!JobStep, Run!SetKillFn, JobRec, JobSound, Run!ExecPc
    <2>2. job' = [job EXCEPT ![j] = n] /\ Frame
      BY <1>1, <1>4 DEF Run!JobStep, Run!SetKillFn
    <2> HIDE DEF n
    <2> QED
      BY <1>4, <2>1, <2>2, OneJobMoves DEF Run!JobStep, Run!SetKillFn
  <1>5. CASE Run!JobStep(Run!WasKilled(j))
    <2> DEFINE n == IF r.killRequested THEN [r EXCEPT !.pc = "final", !.result = "killed"]
                    ELSE [r EXCEPT !.pc = "start", !.watcher = TRUE]
    <2>1. n \in JobRec /\ JobSound(n) /\ n.pc # "none"
      BY <1>1, <1>5 DEF Run!JobStep, Run!WasKilled, JobRec, JobSound, Run!ExecPc
    <2>2. job' = [job EXCEPT ![j] = n] /\ Frame
      BY <1>1, <1>5 DEF Run!JobStep, Run!WasKilled
    <2> HIDE DEF n
    <2> QED
      BY <1>5, <2>1, <2>2, OneJobMoves DEF Run!JobStep, Run!WasKilled
  <1>6. CASE Run!JobStep(Run!StartCommand(j))
    <2>1. CASE job' = [job EXCEPT ![j].pc = "running", ![j].proc = "running"]
      <3> DEFINE n == [r EXCEPT !.pc = "running", !.proc = "running"]
      <3>1. n \in JobRec /\ JobSound(n) /\ n.pc # "none" /\ r.pc = "start"
        BY <1>1, <1>6 DEF Run!JobStep, Run!StartCommand, JobRec, JobSound, Run!ExecPc
      <3>2. job' = [job EXCEPT ![j] = n] /\ Frame
        BY <1>1, <1>6, <2>1 DEF Run!JobStep
      <3> HIDE DEF n
      <3> QED
        BY <3>1, <3>2, OneJobMoves
    <2>2. CASE Run!Exec(j, "ended")
      <3> DEFINE n == [r EXCEPT !.pc = "ended"]
      <3>1. n \in JobRec /\ JobSound(n) /\ n.pc # "none" /\ r.pc = "start"
        BY <1>1, <1>6 DEF Run!JobStep, Run!StartCommand, JobRec, JobSound, Run!ExecPc
      <3>2. job' = [job EXCEPT ![j] = n] /\ Frame
        BY <1>1, <1>6, <2>2 DEF Run!JobStep, Run!Exec
      <3> HIDE DEF n
      <3> QED
        BY <3>1, <3>2, OneJobMoves
    <2> QED
      BY <1>6, <2>1, <2>2 DEF Run!JobStep, Run!StartCommand
  <1>7. CASE Run!JobStep(Run!Watch(j))
    <2> DEFINE n == [Run!Killed(r) EXCEPT !.watcher = FALSE]
    <2>1. Run!Killed(r) \in JobRec /\ JobSound(Run!Killed(r)) /\ Run!Killed(r).pc = r.pc
      BY <1>1, KilledSound
    <2>2. n \in JobRec /\ JobSound(n) /\ n.pc = r.pc
      BY <2>1 DEF JobRec, JobSound
    <2>3. job' = [job EXCEPT ![j] = n] /\ Frame
      BY <1>1, <1>7 DEF Run!JobStep, Run!Watch
    <2> HIDE DEF n
    <2> QED
      BY <2>2, <2>3, OneJobMoves
  <1>8. CASE Run!JobStep(Run!ProcessExits(j))
    <2> DEFINE n == [r EXCEPT !.proc = "dead"]
    <2>1. n \in JobRec /\ JobSound(n) /\ n.pc = r.pc
      BY <1>1 DEF JobRec, JobSound
    <2>2. job' = [job EXCEPT ![j] = n] /\ Frame
      BY <1>1, <1>8 DEF Run!JobStep, Run!ProcessExits
    <2> HIDE DEF n
    <2> QED
      BY <2>1, <2>2, OneJobMoves
  <1>9. CASE Run!JobStep(Run!CommandWait(j))
    <2> DEFINE n == [r EXCEPT !.pc = "ended"]
    <2>1. n \in JobRec /\ JobSound(n) /\ n.pc # "none"
      BY <1>1, <1>9 DEF Run!JobStep, Run!CommandWait, JobRec, JobSound, Run!ExecPc
    <2>2. job' = [job EXCEPT ![j] = n] /\ Frame
      BY <1>1, <1>9 DEF Run!JobStep, Run!CommandWait, Run!Exec
    <2> HIDE DEF n
    <2> QED
      BY <1>9, <2>1, <2>2, OneJobMoves DEF Run!JobStep, Run!CommandWait
  <1>10. CASE Run!JobStep(Run!CommandEnds(j))
    <2> DEFINE a == [r EXCEPT !.pc = "final", !.watcher = FALSE,
                              !.result = IF Run!Cancelled(j) THEN "killed" ELSE "ended"]
               b == [r EXCEPT !.pc = "setKill", !.watcher = FALSE, !.retried = TRUE,
                              !.proc = "none"]
    <2>1. r.pc = "ended" /\ Frame
      BY <1>10 DEF Run!JobStep, Run!CommandEnds
    <2>2. a \in JobRec /\ JobSound(a) /\ a.pc # "none"
      BY <1>1, <2>1 DEF JobRec, JobSound, Run!ExecPc
    <2>3. b \in JobRec /\ JobSound(b) /\ b.pc # "none"
      BY <1>1, <2>1 DEF JobRec, JobSound, Run!ExecPc
    <2>4. job' = [job EXCEPT ![j] = a] \/ job' = [job EXCEPT ![j] = b]
      BY <1>1, <1>10 DEF Run!JobStep, Run!CommandEnds
    <2> HIDE DEF a, b
    <2> QED
      BY <2>1, <2>2, <2>3, <2>4, OneJobMoves
  <1>11. CASE Run!JobStep(Run!Tick(j))
    <2> DEFINE n == [r EXCEPT !.status = "running"]
    <2>1. n \in JobRec /\ JobSound(n) /\ n.pc = r.pc
      BY <1>1, <1>11 DEF Run!JobStep, Run!Tick, JobRec, JobSound
    <2>2. job' = [job EXCEPT ![j] = n] /\ Frame
      BY <1>1, <1>11 DEF Run!JobStep, Run!Tick
    <2> HIDE DEF n
    <2> QED
      BY <2>1, <2>2, OneJobMoves
  <1>12. CASE Run!JobStep(Run!FinalStatus(j))
    <2> DEFINE n == [r EXCEPT !.pc = "save", !.ticker = FALSE,
                              !.status = IF r.background THEN "finished" ELSE @]
    <2>1. n \in JobRec /\ JobSound(n) /\ n.pc # "none"
      BY <1>1, <1>12 DEF Run!JobStep, Run!FinalStatus, JobRec, JobSound, Run!ExecPc
    <2>2. job' = [job EXCEPT ![j] = n] /\ Frame
      BY <1>1, <1>12 DEF Run!JobStep, Run!FinalStatus
    <2> HIDE DEF n
    <2> QED
      BY <1>12, <2>1, <2>2, OneJobMoves DEF Run!JobStep, Run!FinalStatus
  <1>13. CASE Run!JobStep(Run!SaveResult(j))
    <2> DEFINE n == [r EXCEPT !.pc = "clean",
                              !.state = IF r.result = "killed" \/ r.killRequested
                                        THEN "killed" ELSE "finished"]
    <2>1. n \in JobRec /\ JobSound(n) /\ n.pc # "none"
      BY <1>1, <1>13 DEF Run!JobStep, Run!SaveResult, JobRec, JobSound, Run!ExecPc
    <2>2. job' = [job EXCEPT ![j] = n] /\ Frame
      BY <1>1, <1>13 DEF Run!JobStep, Run!SaveResult
    <2> HIDE DEF n
    <2> QED
      BY <1>13, <2>1, <2>2, OneJobMoves DEF Run!JobStep, Run!SaveResult
  <1>14. CASE Run!JobStep(Run!CleanUp(j))
    <2> DEFINE n == [r EXCEPT !.pc = "done", !.ticker = FALSE, !.apiKey = FALSE]
    <2>1. n \in JobRec /\ JobSound(n) /\ n.pc # "none"
      BY <1>1, <1>14 DEF Run!JobStep, Run!CleanUp, JobRec, JobSound, Run!ExecPc
    <2>2. job' = [job EXCEPT ![j] = n] /\ Frame
      BY <1>1, <1>14 DEF Run!JobStep, Run!CleanUp
    <2> HIDE DEF n
    <2> QED
      BY <1>14, <2>1, <2>2, OneJobMoves DEF Run!JobStep, Run!CleanUp
  <1> QED
    BY <1>2, <1>3, <1>4, <1>5, <1>6, <1>7, <1>8, <1>9, <1>10, <1>11, <1>12, <1>13, <1>14

-----------------------------------------------------------------------------
(* The tool call, the service's loop and Stop() *)

\* What is read of TypeOK below.
LEMMA RunTypes ==
  ASSUME RunInv
  PROVE  /\ reqChan \in Seq(ReqRec) /\ job \in [Job -> JobRec]
         /\ tool.id \in Job \cup {None} /\ toolKillFn \in Job \cup {None}
         /\ stopper \in [Stopper -> [pc : {"idle", "killTool", "reply"}, id : Job \cup {None}]]
  BY DEF RunInv, Run!TypeOK, ReqRec, JobRec

\* Steps that leave the channel and the jobs alone, and do not touch a submission.
LEMMA NoSubmission ==
  ASSUME RunInv, Run!TypeOK', UNCHANGED <<reqChan, job>>,
         tool' = tool \/ (tool.pc # "submitted" /\ tool'.pc # "submitted")
  PROVE  RunInv'
  <1>1. JobsSound'
    BY DEF RunInv, JobsSound
  <1>2. SubmitInv'
    BY DEF RunInv, SubmitInv
  <1> QED
    BY <1>1, <1>2 DEF RunInv

\* One more request, not a submission unless it is the first.
LEMMA RequestAppended ==
  ASSUME RunInv, NEW q \in ReqRec, reqChan' = Append(reqChan, q)
  PROVE  /\ reqChan' \in Seq(ReqRec)
         /\ Len(reqChan') = Len(reqChan) + 1
         /\ reqChan'[Len(reqChan) + 1] = q
         /\ \A i \in 1..Len(reqChan) : reqChan'[i] = reqChan[i]
         /\ Len(reqChan) \in Nat
  BY RunTypes, AppendProperties, LenProperties

\* One request less: what is left are requests that were there.
LEMMA RequestTaken ==
  ASSUME RunInv, reqChan # <<>>, reqChan' = Tail(reqChan)
  PROVE  /\ reqChan' \in Seq(ReqRec) /\ Head(reqChan) \in ReqRec
         /\ Head(reqChan) = reqChan[1] /\ Len(reqChan) \in Nat \ {0}
         /\ Len(reqChan') = Len(reqChan) - 1
         /\ \A i \in 1..Len(reqChan') : reqChan'[i] = reqChan[i + 1]
  <1>1. reqChan \in Seq(ReqRec)
    BY RunTypes
  <1>2. Len(reqChan) \in Nat \ {0} /\ Head(reqChan) = reqChan[1]
    BY <1>1, EmptySeq, LenProperties
  <1> QED
    BY <1>1, <1>2, HeadTailProperties

LEMMA ToolSteps ==
  ASSUME RunAssumed, RunInv, Run!BeginBatch \/ Run!EndBatch \/ Run!Hook \/ Run!WaitTaskStep
  PROVE  RunInv'
  <1>1. CASE Run!BeginBatch
    BY <1>1, NoSubmission DEF Run!BeginBatch, RunInv, Run!TypeOK, RunAssumed
  <1>2. CASE Run!EndBatch
    BY <1>2, NoSubmission DEF Run!EndBatch, RunInv, Run!TypeOK
  <1>3. CASE Run!Hook
    <2>1. Run!TypeOK'
      BY <1>3 DEF Run!Hook, RunInv, Run!TypeOK
    <2>2. tool.pc # "submitted" /\ tool'.pc # "submitted"
      BY <1>3 DEF Run!Hook, RunInv, Run!TypeOK
    <2> QED
      BY <1>3, <2>1, <2>2, NoSubmission DEF Run!Hook
  <1>4. CASE Run!WaitTaskStep
    BY <1>4, NoSubmission DEF Run!WaitTaskStep, Run!WaitTask, RunInv, Run!TypeOK
  <1> QED
    BY <1>1, <1>2, <1>3, <1>4

LEMMA RunTaskStep ==
  ASSUME RunAssumed, RunInv, Run!RunTask
  PROVE  RunInv'
  <1>1. PICK b \in BOOLEAN :
           reqChan' = Append(reqChan, [kind |-> "submit", background |-> b, id |-> None])
    BY DEF Run!RunTask
  <1> DEFINE q == [kind |-> "submit", background |-> b, id |-> None]
  <1>2. q \in ReqRec /\ q.kind = "submit"
    BY DEF ReqRec
  <1> HIDE DEF q
  <1>3. /\ reqChan' \in Seq(ReqRec)
        /\ Len(reqChan') = Len(reqChan) + 1
        /\ reqChan'[Len(reqChan) + 1] = q
        /\ \A i \in 1..Len(reqChan) : reqChan'[i] = reqChan[i]
        /\ Len(reqChan) \in Nat
    BY <1>1, <1>2, RequestAppended DEF q
  <1>4. Run!TypeOK'
    BY <1>3 DEF Run!RunTask, RunInv, Run!TypeOK, ReqRec
  <1>5. \A i \in 1..Len(reqChan) : reqChan[i].kind # "submit"
    BY DEF Run!RunTask, RunInv, SubmitInv
  <1>6. \A i \in 1..Len(reqChan') : reqChan'[i].kind = "submit" => i = Len(reqChan) + 1
    BY <1>3, <1>5
  <1>7. SubmitInv'
    BY <1>6 DEF Run!RunTask, SubmitInv
  <1>8. JobsSound'
    BY DEF Run!RunTask, RunInv, JobsSound
  <1> QED
    BY <1>4, <1>7, <1>8 DEF RunInv

\* Job.kill on one job, by the tool that waits or by the service.
LEMMA JobKilled ==
  ASSUME RunInv, NEW j \in Job \cup {None}, job' = [job EXCEPT ![j] = Run!KillJob(@)]
  PROVE  /\ job' \in [Job -> JobRec] /\ JobsSound'
         /\ \A k \in Job : job'[k].pc = job[k].pc
  <1>1. job \in [Job -> JobRec] /\ \A k \in Job : JobSound(job[k])
    BY RunTypes DEF RunInv, JobsSound
  <1>2. \A k \in Job : /\ Run!KillJob(job[k]) \in JobRec /\ JobSound(Run!KillJob(job[k]))
                       /\ Run!KillJob(job[k]).pc = job[k].pc
    BY <1>1, KilledSound
  <1>3. \A k \in Job : job'[k] = IF k = j THEN Run!KillJob(job[k]) ELSE job[k]
    BY <1>1
  <1>4. job' \in [Job -> JobRec]
    BY <1>1, <1>2
  <1> QED
    BY <1>1, <1>2, <1>3, <1>4 DEF JobsSound

LEMMA WaitStepStep ==
  ASSUME RunAssumed, RunInv, Run!WaitStep
  PROVE  RunInv'
  <1>1. CASE UNCHANGED job
    BY <1>1, NoSubmission DEF Run!WaitStep, Run!Wait, RunInv, Run!TypeOK
  <1>2. CASE ~UNCHANGED job
    <2>1. /\ job' = [job EXCEPT ![tool.id] = Run!KillJob(@)]
          /\ tool.pc = "wait" /\ tool' = [tool EXCEPT !.pc = "killed"]
          /\ UNCHANGED <<reqChan, toolCtx, toolKillFn, stopper, batches, stops>>
      BY <1>2 DEF Run!WaitStep, Run!Wait
    <2>2. job' \in [Job -> JobRec] /\ JobsSound' /\ \A k \in Job : job'[k].pc = job[k].pc
      BY <2>1, RunTypes, JobKilled
    <2>3. Run!TypeOK'
      BY <2>1, <2>2 DEF RunInv, Run!TypeOK, JobRec
    <2>4. tool'.pc = "killed"
      BY <2>1 DEF RunInv, Run!TypeOK
    <2>5. SubmitInv'
      BY <2>1, <2>4 DEF RunInv, SubmitInv
    <2> QED
      BY <2>2, <2>3, <2>5 DEF RunInv
  <1> QED
    BY <1>1, <1>2

LEMMA DoSubmitStep ==
  ASSUME RunAssumed, RunInv, Run!DoSubmit
  PROVE  RunInv'
  <1> DEFINE b == Head(reqChan).background
             n == [Run!NewJob EXCEPT !.pc = "begin", !.background = b, !.ticker = b, !.apiKey = TRUE,
                                 !.status = IF b THEN "submitted" ELSE "none"]
  <1>1. /\ reqChan' \in Seq(ReqRec) /\ Head(reqChan) \in ReqRec
        /\ Head(reqChan) = reqChan[1] /\ Len(reqChan) \in Nat \ {0}
        /\ Len(reqChan') = Len(reqChan) - 1
        /\ \A i \in 1..Len(reqChan') : reqChan'[i] = reqChan[i + 1]
    BY RequestTaken DEF Run!DoSubmit
  <1>2. b \in BOOLEAN /\ reqChan[1].kind = "submit"
    BY <1>1 DEF Run!DoSubmit, ReqRec
  <1>3. /\ tool.pc = "submitted"
        /\ \A l \in 1..Len(reqChan) : reqChan[l].kind = "submit" => l = 1
    BY <1>1, <1>2 DEF RunInv, SubmitInv
  <1>4. Run!NextJob \in Job
    BY <1>3, NextJobIsNew DEF RunInv, SubmitInv
  <1>5. n \in JobRec /\ JobSound(n)
    BY <1>2 DEF Run!NewJob, JobRec, JobSound, Run!ExecPc
  <1>6. job' = [job EXCEPT ![Run!NextJob] = n]
    BY DEF Run!DoSubmit
  <1>7. tool' = IF b THEN [pc |-> "over", id |-> None] ELSE [pc |-> "hook", id |-> Run!NextJob]
    BY DEF Run!DoSubmit
  <1> HIDE DEF b, n
  <1>8. job' \in [Job -> JobRec]
    BY <1>5, <1>6, RunTypes
  <1>9. tool' \in [pc : {"over", "hook"}, id : Job \cup {None}] /\ tool'.pc # "submitted"
    BY <1>4, <1>7
  <1>10. Run!TypeOK'
    BY <1>1, <1>8, <1>9 DEF Run!DoSubmit, RunInv, Run!TypeOK, JobRec, ReqRec
  <1>11. JobsSound'
    BY <1>4, <1>5, <1>6, RunTypes DEF RunInv, JobsSound
  <1>12. \A i \in 1..Len(reqChan') : reqChan'[i].kind # "submit"
    <2> TAKE i \in 1..Len(reqChan')
    <2>1. i + 1 \in 1..Len(reqChan) /\ i + 1 # 1
      BY <1>1
    <2> QED
      BY <1>1, <1>3, <2>1
  <1>13. SubmitInv'
    BY <1>9, <1>12 DEF SubmitInv
  <1> QED
    BY <1>10, <1>11, <1>13 DEF RunInv

LEMMA DoKillStep ==
  ASSUME RunAssumed, RunInv, Run!DoKill
  PROVE  RunInv'
  <1> DEFINE j == Head(reqChan).id
  <1>1. /\ reqChan' \in Seq(ReqRec) /\ Head(reqChan) \in ReqRec
        /\ Head(reqChan) = reqChan[1] /\ Len(reqChan) \in Nat \ {0}
        /\ Len(reqChan') = Len(reqChan) - 1
        /\ \A i \in 1..Len(reqChan') : reqChan'[i] = reqChan[i + 1]
    BY RequestTaken DEF Run!DoKill
  <1>2. j \in Job \cup {None} /\ job' = [job EXCEPT ![j] = Run!KillJob(@)]
    BY <1>1 DEF Run!DoKill, ReqRec
  <1> HIDE DEF j
  <1>3. job' \in [Job -> JobRec] /\ JobsSound' /\ \A k \in Job : job'[k].pc = job[k].pc
    BY <1>2, JobKilled
  <1>4. PICK s \in Stopper : stopper' = [stopper EXCEPT ![s] = [pc |-> "idle", id |-> None]]
    BY DEF Run!DoKill
  <1>5. stopper' \in [Stopper -> [pc : {"idle", "killTool", "reply"}, id : Job \cup {None}]]
    BY <1>4, RunTypes
  <1>6. Run!TypeOK'
    BY <1>1, <1>3, <1>5 DEF Run!DoKill, RunInv, Run!TypeOK, JobRec, ReqRec
  <1>7. ASSUME NEW i \in 1..Len(reqChan'), reqChan'[i].kind = "submit"
        PROVE  /\ tool'.pc = "submitted"
               /\ \A l \in 1..Len(reqChan') : reqChan'[l].kind = "submit" => l = i
    <2>1. i + 1 \in 1..Len(reqChan) /\ reqChan[i + 1].kind = "submit"
      BY <1>1, <1>7
    <2>2. /\ tool.pc = "submitted"
          /\ \A l \in 1..Len(reqChan) : reqChan[l].kind = "submit" => l = i + 1
      BY <2>1 DEF RunInv, SubmitInv
    <2>3. ASSUME NEW l \in 1..Len(reqChan'), reqChan'[l].kind = "submit" PROVE l = i
      <3>1. l + 1 \in 1..Len(reqChan) /\ reqChan[l + 1].kind = "submit"
        BY <1>1, <2>3
      <3>2. l + 1 = i + 1 /\ l \in Int /\ i \in Int
        BY <2>2, <3>1
      <3> QED
        BY <3>2
    <2> QED
      BY <2>2, <2>3 DEF Run!DoKill
  <1>8. tool'.pc = "submitted" => \E k \in Job : job'[k].pc = "none"
    BY <1>3 DEF Run!DoKill, RunInv, SubmitInv
  <1>9. SubmitInv'
    BY <1>7, <1>8 DEF SubmitInv
  <1> QED
    BY <1>3, <1>6, <1>9 DEF RunInv

LEMMA StopStep ==
  ASSUME RunAssumed, RunInv, NEW s \in Stopper, Run!Stop(s)
  PROVE  RunInv'
  <1>1. stopper' \in [Stopper -> [pc : {"idle", "killTool", "reply"}, id : Job \cup {None}]]
    BY RunTypes DEF Run!Stop
  <1>2. Run!TypeOK'
    BY <1>1 DEF Run!Stop, RunInv, Run!TypeOK, RunAssumed
  <1> QED
    BY <1>2, NoSubmission DEF Run!Stop

LEMMA KillToolStep ==
  ASSUME RunAssumed, RunInv, NEW s \in Stopper, Run!KillTool(s)
  PROVE  RunInv'
  <1>1. CASE toolKillFn = None
    <2>1. stopper' \in [Stopper -> [pc : {"idle", "killTool", "reply"}, id : Job \cup {None}]]
      BY <1>1, RunTypes DEF Run!KillTool
    <2>2. Run!TypeOK'
      BY <1>1, <2>1 DEF Run!KillTool, RunInv, Run!TypeOK
    <2> QED
      BY <1>1, <2>2, NoSubmission DEF Run!KillTool
  <1>2. CASE toolKillFn # None
    <2> DEFINE q == [kind |-> "kill", background |-> FALSE, id |-> toolKillFn]
    <2>1. q \in ReqRec /\ q.kind # "submit"
      BY RunTypes DEF ReqRec
    <2>2. /\ reqChan' = Append(reqChan, q)
          /\ stopper' = [stopper EXCEPT ![s] = [pc |-> "reply", id |-> toolKillFn]]
      BY <1>2 DEF Run!KillTool
    <2> HIDE DEF q
    <2>3. /\ reqChan' \in Seq(ReqRec)
          /\ Len(reqChan') = Len(reqChan) + 1
          /\ reqChan'[Len(reqChan) + 1] = q
          /\ \A i \in 1..Len(reqChan) : reqChan'[i] = reqChan[i]
          /\ Len(reqChan) \in Nat
      BY <2>1, <2>2, RequestAppended
    <2>4. stopper' \in [Stopper -> [pc : {"idle", "killTool", "reply"}, id : Job \cup {None}]]
      BY <2>2, RunTypes
    <2>5. Run!TypeOK'
      BY <2>3, <2>4 DEF Run!KillTool, RunInv, Run!TypeOK, ReqRec
    <2>6. JobsSound'
      BY DEF Run!KillTool, RunInv, JobsSound
    <2>7. \A i \in 1..Len(reqChan') : reqChan'[i].kind = "submit" =>
             i \in 1..Len(reqChan) /\ reqChan[i].kind = "submit"
      BY <2>1, <2>3
    <2>8. SubmitInv'
      BY <2>7 DEF Run!KillTool, RunInv, SubmitInv
    <2> QED
      BY <2>5, <2>6, <2>8 DEF RunInv
  <1> QED
    BY <1>1, <1>2

LEMMA NextRun == ASSUME RunAssumed PROVE RunInv /\ [Run!Next]_jobVars => RunInv'
  <1> SUFFICES ASSUME RunInv, [Run!Next]_jobVars PROVE RunInv'
    OBVIOUS
  <1>1. CASE UNCHANGED jobVars
    <2>1. Run!TypeOK'
      BY <1>1 DEF jobVars, RunInv, Run!TypeOK
    <2> QED
      BY <1>1, <2>1, NoSubmission DEF jobVars
  <1>2. CASE Run!Next
    BY <1>2, ToolSteps, RunTaskStep, WaitStepStep, DoSubmitStep, DoKillStep, JobSteps, StopStep,
       KillToolStep
    DEF Run!Next
  <1> QED
    BY <1>1, <1>2

-----------------------------------------------------------------------------
\* The state of the tool, the service, its jobs and the calls of Stop() is well-typed: every
\* submission finds a number for its job, and every kill a job.
THEOREM RunTypeCorrect == ASSUME RunAssumed PROVE Spec => []Run!TypeOK
  <1>1. RunInv => Run!TypeOK
    BY DEF RunInv
  <1>2. Init => Run!Init
    BY DEF Init
  <1> QED BY <1>1, <1>2, StepsApart, InitRun, NextRun, PTL DEF Spec

\* Whoever has waited for a job finds its process gone, its ticker stopped, its temporary key
\* deleted and its last status written, for any number of jobs, batches and calls of Stop
\* (run.go, execute; Job.Wait).
THEOREM JobsEndClean == ASSUME RunAssumed PROVE Spec => []NothingOutlivesJob
  <1>1. RunInv => NothingOutlivesJob
    BY DEF RunInv, JobsSound, JobSound, NothingOutlivesJob, Run!NothingOutlivesJob
  <1>2. Init => Run!Init
    BY DEF Init
  <1> QED BY <1>1, <1>2, StepsApart, InitRun, NextRun, PTL DEF Spec

-----------------------------------------------------------------------------
(* The loop: its back pressure, for any capacity of the queues, any bound on *)
(* retries and any number of calls from outside.                             *)

Context == {"none", "live", "cancelled"}
Target  == {"top", "exit", "turn", "summing", "request"}
LoopPc      == Target \cup {"new", "wait", "select", "approved", "backoff", "tools", "call", "sync",
                        "over"}
Said    == {"flag", "stop", "error", "chunk", "pending", "blank", "summary"}
LoopInput   == {"prompt", "blank", "approve", "summary"}

LoopRec == [pc : LoopPc, calls : Seq(Said), then : Target, after : {"top", "stop", "request"},
            tries : Nat, loops : Nat, started : BOOLEAN]

LoopTypes ==
  /\ ctx \in Context /\ done \in BOOLEAN /\ stopped \in BOOLEAN
  /\ response \in Context /\ loopTool \in Context
  /\ loop \in LoopRec /\ needCompress \in BOOLEAN
  /\ sendQueue \in Seq(LoopInput) /\ recvQueue \in Nat /\ sync \in BOOLEAN
  /\ callback \in {"wait", "handle", "sync", "over"}
  /\ loopStopper \in {"idle", "cancel"} /\ canceller \in {"idle", "ctx", "done"}
  /\ inputs \in Nat /\ rounds \in Nat /\ loopStops \in Nat

\* A loop that hands over has something to hand over; a request is tried again and a turn
\* gone on with as often as the configuration says and no more.
LoopSound(l) ==
  /\ l.pc \in {"call", "sync"} => l.calls # <<>>
  /\ l.tries <= MaxRetries
  /\ l.loops = 0 \/ l.loops < MaxCallCount

\* The response the loop waits for is in exactly one place: the queue, the hands of the
\* callback, or on its way back as the signal that the callback has returned.
OnItsWay ==
  \/ recvQueue = 1 /\ callback = "wait" /\ ~sync
  \/ recvQueue = 0 /\ callback \in {"handle", "sync"} /\ ~sync
  \/ recvQueue = 0 /\ callback = "wait" /\ sync

Quiet == recvQueue = 0 /\ callback = "wait" /\ ~sync

HandOver == /\ ~done /\ loop.pc = "sync" => OnItsWay
            /\ ~done /\ loop.pc # "sync" => Quiet

LifetimeInv == LoopTypes /\ LoopSound(loop) /\ HandOver

\* Capacities and limits are numbers.
LoopAssumed == QueueSize \in Nat /\ MaxRetries \in Nat /\ MaxCallCount \in Nat

-----------------------------------------------------------------------------
(* The operators that make the loop's next record. *)

\* r is a state the loop may be in when it does not wait for the callback.
Moved(r) == r \in LoopRec /\ LoopSound(r) /\ r.pc # "sync"

LEMMA SayMoves ==
  ASSUME LifetimeInv, NEW calls \in Seq(Said), NEW then \in Target
  PROVE  /\ Moved(Loop!Say(calls, then))
         /\ Loop!Say(calls, then).after = loop.after
         /\ Loop!Say(calls, then).tries = loop.tries /\ Loop!Say(calls, then).loops = loop.loops
  <1>1. loop \in LoopRec /\ LoopSound(loop)
    BY DEF LifetimeInv, LoopTypes
  <1>2. CASE calls = <<>>
    BY <1>1, <1>2 DEF Loop!Say, Moved, LoopRec, LoopSound, Target, LoopPc
  <1>3. CASE calls # <<>>
    BY <1>1, <1>3 DEF Loop!Say, Moved, LoopRec, LoopSound, Target, LoopPc
  <1> QED
    BY <1>2, <1>3

LEMMA SettleMoves ==
  ASSUME LoopAssumed, LifetimeInv, NEW calls \in Seq(Said)
  PROVE  Moved(Loop!Settle(calls))
  <1> DEFINE r == Loop!Say(calls, "top")
  <1>1. Moved(r)
    BY SayMoves DEF Target
  <1>2. Loop!Settle(calls) = [r EXCEPT !.tries = 0, !.loops = 0, !.started = FALSE]
    BY DEF Loop!Settle
  <1> HIDE DEF r
  <1>3. Loop!Settle(calls) \in LoopRec
    <2>1. Loop!Settle(calls) = [pc |-> r.pc, calls |-> r.calls, then |-> r.then, after |-> r.after,
                           tries |-> 0, loops |-> 0, started |-> FALSE]
      BY <1>1, <1>2 DEF Moved, LoopRec
    <2>2. /\ r.pc \in LoopPc /\ r.calls \in Seq(Said) /\ r.then \in Target
          /\ r.after \in {"top", "stop", "request"}
      BY <1>1 DEF Moved, LoopRec
    <2> QED
      BY <2>1, <2>2 DEF LoopRec
  <1>4. /\ Loop!Settle(calls).pc = r.pc /\ Loop!Settle(calls).calls = r.calls
        /\ Loop!Settle(calls).tries = 0 /\ Loop!Settle(calls).loops = 0
    BY <1>1, <1>2 DEF Moved, LoopRec
  <1> QED
    BY <1>1, <1>3, <1>4 DEF Moved, LoopSound, LoopAssumed

LEMMA GotoMoves ==
  ASSUME LifetimeInv, NEW pc \in LoopPc \ {"call", "sync"}
  PROVE  Moved(Loop!Goto(pc))
  BY DEF LifetimeInv, LoopTypes, Loop!Goto, Moved, LoopRec, LoopSound, LoopPc, Target

LEMMA SummariseMoves ==
  ASSUME LifetimeInv, NEW after \in {"top", "stop", "request"}
  PROVE  Moved(Loop!Summarise(after))
  <1> DEFINE r == Loop!Say(<<"flag">>, "summing")
  <1>1. Moved(r)
    <2>1. <<"flag">> \in Seq(Said) /\ "summing" \in Target
      BY DEF Said, Target
    <2> QED
      BY <2>1, SayMoves
  <1>2. Loop!Summarise(after) = [r EXCEPT !.after = after]
    BY DEF Loop!Summarise
  <1> HIDE DEF r
  <1> QED
    BY <1>1, <1>2 DEF Moved, LoopRec, LoopSound

\* A request is begun, or the next round of a turn: what was counted for the last one is gone.
LEMMA FreshMoves ==
  ASSUME LoopAssumed, LifetimeInv, NEW pc \in LoopPc \ {"call", "sync"}
  PROVE  Moved([loop EXCEPT !.tries = 0, !.started = FALSE, !.pc = pc])
  <1> DEFINE q == [loop EXCEPT !.tries = 0, !.started = FALSE]
  <1>1. q \in LoopRec /\ q.tries = 0 /\ q.loops = loop.loops
    BY DEF LifetimeInv, LoopTypes, LoopRec
  <1>2. [loop EXCEPT !.tries = 0, !.started = FALSE, !.pc = pc] = [q EXCEPT !.pc = pc]
    OBVIOUS
  <1> HIDE DEF q
  <1>3. Moved([q EXCEPT !.pc = pc])
    BY <1>1 DEF LifetimeInv, Moved, LoopRec, LoopSound, LoopAssumed
  <1> QED
    BY <1>2, <1>3

LEMMA HandedMoves ==
  ASSUME LifetimeInv, loop.pc \in {"call", "sync"}
  PROVE  Moved(Loop!Handed)
  <1>1. loop.calls \in Seq(Said) /\ loop.calls # <<>> /\ loop.then \in Target
    BY DEF LifetimeInv, LoopTypes, LoopRec, LoopSound
  <1>2. Tail(loop.calls) \in Seq(Said)
    BY <1>1, HeadTailProperties
  <1> QED
    BY <1>1, <1>2, SayMoves DEF Loop!Handed

\* A step of the loop that does not hand over keeps the invariant, whatever it says next.
LEMMA LoopMoves ==
  ASSUME LifetimeInv, Moved(loop'), loop.pc # "sync",
         done' \in {done, TRUE}, UNCHANGED <<recvQueue, sync, callback>>
  PROVE  LoopSound(loop)' /\ HandOver' /\ loop' \in LoopRec
  BY DEF LifetimeInv, LoopTypes, Moved, HandOver, OnItsWay, Quiet, LoopSound

LEMMA InitLifetime == ASSUME LoopAssumed PROVE Loop!Init => LifetimeInv
  <1> SUFFICES ASSUME Loop!Init PROVE LifetimeInv
    OBVIOUS
  <1>1. <<>> \in Seq(Said) /\ <<>> \in Seq(LoopInput)
    BY EmptySeq
  <1>2. loop \in LoopRec /\ LoopSound(loop)
    BY <1>1 DEF Loop!Init, LoopRec, LoopSound, LoopPc, Target, LoopAssumed
  <1>3. LoopTypes
    BY <1>1, <1>2 DEF Loop!Init, LoopTypes, Context
  <1>4. HandOver
    BY DEF Loop!Init, HandOver, Quiet
  <1> QED
    BY <1>2, <1>3, <1>4 DEF LifetimeInv

-----------------------------------------------------------------------------
(* The hand-over. *)

LEMMA CallStep == ASSUME LoopAssumed, LifetimeInv, Loop!Call PROVE LifetimeInv'
  <1>1. CASE recvQueue < QueueSize /\ recvQueue' = recvQueue + 1 /\ loop' = Loop!Goto("sync")
    <2>1. loop' \in LoopRec /\ LoopSound(loop)' /\ loop'.pc = "sync"
      BY <1>1 DEF Loop!Call, LifetimeInv, LoopTypes, Loop!Goto, LoopRec, LoopSound, LoopPc
    <2>2. HandOver'
      BY <1>1, <2>1 DEF Loop!Call, LifetimeInv, HandOver, OnItsWay, Quiet, Loop!signals
    <2>3. LoopTypes'
      BY <1>1, <2>1 DEF Loop!Call, LifetimeInv, LoopTypes, Loop!signals, Loop!bounds
    <2> QED
      BY <2>1, <2>2, <2>3 DEF LifetimeInv
  <1>2. CASE done /\ loop' = Loop!Handed /\ UNCHANGED recvQueue
    <2>1. Moved(loop')
      BY <1>2, HandedMoves DEF Loop!Call
    <2>2. LoopSound(loop)' /\ HandOver' /\ loop' \in LoopRec
      BY <1>2, <2>1, LoopMoves DEF Loop!Call, Loop!signals
    <2>3. LoopTypes'
      BY <1>2, <2>2 DEF Loop!Call, LifetimeInv, LoopTypes, Loop!signals, Loop!bounds
    <2> QED
      BY <2>2, <2>3 DEF LifetimeInv
  <1> QED
    BY <1>1, <1>2 DEF Loop!Call

LEMMA SyncStep == ASSUME LoopAssumed, LifetimeInv, Loop!Sync PROVE LifetimeInv'
  <1>1. Moved(loop')
    BY HandedMoves DEF Loop!Sync
  <1>2. loop' \in LoopRec /\ LoopSound(loop)'
    BY <1>1 DEF Moved, LoopSound
  <1>3. HandOver'
    BY <1>1 DEF Loop!Sync, LifetimeInv, Moved, HandOver, OnItsWay, Quiet, Loop!signals
  <1>4. LoopTypes'
    BY <1>2 DEF Loop!Sync, LifetimeInv, LoopTypes, Loop!signals, Loop!bounds
  <1> QED
    BY <1>2, <1>3, <1>4 DEF LifetimeInv

LEMMA CallbackSteps == ASSUME LoopAssumed, LifetimeInv, Loop!CallbackStep PROVE LifetimeInv'
  <1>1. UNCHANGED <<Loop!signals, loop, needCompress, sendQueue, loopStopper, canceller,
                    Loop!bounds>>
    BY DEF Loop!CallbackStep, Loop!CallbackTake, Loop!CallbackReturn, Loop!CallbackEnd, Loop!queues
  <1>2. LoopTypes'
    <2>1. /\ recvQueue' \in Nat /\ sync' \in BOOLEAN
          /\ callback' \in {"wait", "handle", "sync", "over"}
      <3>1. recvQueue \in Nat /\ sync \in BOOLEAN /\ callback \in {"wait", "handle", "sync", "over"}
        BY DEF LifetimeInv, LoopTypes
      <3>2. CASE Loop!CallbackTake
        BY <3>1, <3>2 DEF Loop!CallbackTake
      <3>3. CASE Loop!CallbackReturn
        BY <3>1, <3>3 DEF Loop!CallbackReturn
      <3>4. CASE Loop!CallbackEnd
        BY <3>1, <3>4 DEF Loop!CallbackEnd, Loop!queues
      <3> QED
        BY <3>2, <3>3, <3>4 DEF Loop!CallbackStep
    <2> QED
      BY <1>1, <2>1 DEF LifetimeInv, LoopTypes, Loop!signals, Loop!bounds
  <1>3. LoopSound(loop)'
    BY <1>1 DEF LifetimeInv, LoopSound
  <1>4. HandOver'
    <2>1. CASE Loop!CallbackTake
      BY <1>1, <2>1 DEF LifetimeInv, LoopTypes, Loop!CallbackTake,
                              HandOver, OnItsWay, Quiet, Loop!signals
    <2>2. CASE Loop!CallbackReturn
      BY <1>1, <2>2 DEF LifetimeInv, LoopTypes, Loop!CallbackReturn,
                              HandOver, OnItsWay, Quiet, Loop!signals
    <2>3. CASE Loop!CallbackEnd
      BY <1>1, <2>3 DEF LifetimeInv, LoopTypes, Loop!CallbackEnd,
                              HandOver, OnItsWay, Quiet, Loop!signals
    <2> QED
      BY <2>1, <2>2, <2>3 DEF Loop!CallbackStep
  <1> QED
    BY <1>2, <1>3, <1>4 DEF LifetimeInv

-----------------------------------------------------------------------------
(* The loop.  A step of it that hands nothing over keeps the invariant when   *)
(* what it says next is well-formed.                                          *)

LEMMA StepKeeps ==
  ASSUME LifetimeInv, Moved(loop'), loop.pc # "sync", done' \in {done, TRUE},
         UNCHANGED <<recvQueue, sync, callback, loopStopper, canceller, inputs, loopStops>>,
         ctx' \in Context, stopped' \in BOOLEAN, response' \in Context, loopTool' \in Context,
         needCompress' \in BOOLEAN, sendQueue' \in Seq(LoopInput), rounds' \in Nat
  PROVE  LifetimeInv'
  <1>1. LoopSound(loop)' /\ HandOver' /\ loop' \in LoopRec
    BY LoopMoves
  <1>2. LoopTypes'
    BY <1>1 DEF LifetimeInv, LoopTypes
  <1> QED
    BY <1>1, <1>2 DEF LifetimeInv

\* What a step that changes only a few of the variables leaves to be shown.
LEMMA TypesStand ==
  ASSUME LifetimeInv
  PROVE  /\ ctx \in Context /\ done \in BOOLEAN /\ stopped \in BOOLEAN
         /\ response \in Context /\ loopTool \in Context /\ needCompress \in BOOLEAN
         /\ sendQueue \in Seq(LoopInput) /\ rounds \in Nat
         /\ loop \in LoopRec /\ LoopSound(loop)
         /\ "none" \in Context /\ "live" \in Context /\ "cancelled" \in Context
  BY DEF LifetimeInv, LoopTypes, Context

LEMMA SaidSeqs ==
  /\ <<>> \in Seq(Said)
  /\ \A a \in Said : <<a>> \in Seq(Said)
  /\ \A a, b \in Said : <<a, b>> \in Seq(Said) /\ <<a>> \o <<b>> \in Seq(Said)
  /\ \A a \in Said : <<>> \o <<a>> \in Seq(Said)
  /\ \A a, b, c \in Said : <<a>> \o <<b, c>> \in Seq(Said)
  /\ \A a, b \in Said : <<>> \o <<a, b>> \in Seq(Said)
  <1>1. <<>> \in Seq(Said)
    BY EmptySeq
  <1>2. \A a \in Said : <<a>> \in Seq(Said)
    OBVIOUS
  <1>3. \A a, b \in Said : <<a, b>> \in Seq(Said)
    OBVIOUS
  <1>4. \A s, t \in Seq(Said) : s \o t \in Seq(Said)
    BY ConcatProperties
  <1> QED
    BY <1>1, <1>2, <1>3, <1>4

LEMMA StartStep == ASSUME LoopAssumed, LifetimeInv, Loop!Start PROVE LifetimeInv'
  <1>1. Moved(loop')
    <2>1. PICK pc \in {"wait", "top"} : loop' = Loop!Goto(pc)
      BY DEF Loop!Start
    <2>2. pc \in LoopPc \ {"call", "sync"}
      BY <2>1 DEF LoopPc, Target
    <2> QED
      BY <2>1, <2>2, GotoMoves
  <1> QED
    BY <1>1, StepKeeps, TypesStand DEF Loop!Start, Loop!queues, Loop!bounds

LEMMA TopStep == ASSUME LoopAssumed, LifetimeInv, Loop!Top PROVE LifetimeInv'
  <1>1. Moved(loop')
    <2>1. Moved(Loop!Summarise("top"))
      BY SummariseMoves
    <2>2. Moved(Loop!Say(<<"stop">>, "exit"))
      BY SayMoves, SaidSeqs DEF Said, Target
    <2>3. Moved(Loop!Goto("select"))
      BY GotoMoves DEF LoopPc
    <2> QED
      BY <2>1, <2>2, <2>3 DEF Loop!Top
  <1> QED
    BY <1>1, StepKeeps, TypesStand DEF Loop!Top, Loop!signals, Loop!queues, Loop!bounds

LEMMA LeaveStep == ASSUME LoopAssumed, LifetimeInv, Loop!Leave PROVE LifetimeInv'
  <1>1. Moved(loop')
    BY SayMoves, SaidSeqs DEF Said, Target, Loop!Leave
  <1> QED
    BY <1>1, StepKeeps, TypesStand DEF Loop!Leave, Loop!signals, Loop!queues, Loop!bounds

LEMMA ReceiveStep == ASSUME LoopAssumed, LifetimeInv, Loop!Receive PROVE LifetimeInv'
  <1>1. /\ Head(sendQueue) \in LoopInput /\ sendQueue' \in Seq(LoopInput)
        /\ stopped' \in BOOLEAN /\ loopTool' \in Context
    BY TypesStand, HeadTailProperties DEF Loop!Receive
  <1>2. Moved(loop')
    <2>1. CASE Head(sendQueue) = "summary"
      BY <2>1, SummariseMoves DEF Loop!Receive
    <2>2. CASE Head(sendQueue) = "approve"
      <3>1. Moved(Loop!Goto("approved"))
        BY GotoMoves DEF LoopPc
      <3> QED
        BY <2>2, <3>1 DEF Loop!Receive
    <2>3. CASE Head(sendQueue) = "blank"
      <3>1. Moved(Loop!Goto("top"))
        BY GotoMoves DEF LoopPc, Target
      <3> QED
        BY <2>3, <3>1 DEF Loop!Receive
    <2>4. CASE Head(sendQueue) = "prompt"
      <3>1. PICK error \in {<<>>, <<"error">>} : loop' = Loop!Say(error, "turn")
        BY <2>4 DEF Loop!Receive
      <3>2. error \in Seq(Said) /\ "turn" \in Target
        BY <3>1, SaidSeqs DEF Said, Target
      <3> QED
        BY <3>1, <3>2, SayMoves
    <2> QED
      BY <1>1, <2>1, <2>2, <2>3, <2>4 DEF LoopInput
  <1> QED
    BY <1>1, <1>2, StepKeeps, TypesStand DEF Loop!Receive, Loop!bounds

LEMMA TurnStep == ASSUME LoopAssumed, LifetimeInv, Loop!Turn PROVE LifetimeInv'
  <1>1. Moved(loop') /\ response' \in Context
    <2>1. CASE stopped
      BY <2>1, SettleMoves, SaidSeqs, TypesStand DEF Loop!Turn, Said
    <2>2. CASE ~stopped
      <3> DEFINE fresh == [loop EXCEPT !.tries = 0, !.started = FALSE, !.pc = "request"]
      <3>1. Moved(fresh)
        BY FreshMoves DEF LoopPc, Target
      <3>2. Moved([fresh EXCEPT !.pc = "call", !.calls = <<"flag">>, !.then = "summing",
                                !.after = "request"])
        <4> HIDE DEF fresh
        <4>1. <<"flag">> \in Seq(Said) /\ <<"flag">> # <<>>
          BY SaidSeqs DEF Said
        <4> QED
          BY <3>1, <4>1 DEF LoopRec, Moved, LoopSound, LoopPc, Target
      <3> QED
        BY <2>2, <3>1, <3>2, TypesStand DEF Loop!Turn
    <2> QED
      BY <2>1, <2>2
  <1> QED
    BY <1>1, StepKeeps, TypesStand DEF Loop!Turn, Loop!queues, Loop!bounds

LEMMA ChunkStep == ASSUME LoopAssumed, LifetimeInv, Loop!Chunk PROVE LifetimeInv'
  <1>1. PICK started \in {loop.started, TRUE} :
          loop' = [Loop!Say(<<"chunk">>, "request") EXCEPT !.started = started]
    BY DEF Loop!Chunk
  <1> DEFINE r == Loop!Say(<<"chunk">>, "request")
  <1>2. Moved(r) /\ started \in BOOLEAN
    BY <1>1, SayMoves, SaidSeqs, TypesStand DEF Said, Target, LoopRec
  <1>3. loop' = [r EXCEPT !.started = started]
    BY <1>1
  <1> HIDE DEF r
  <1>4. Moved(loop')
    BY <1>2, <1>3 DEF Moved, LoopRec, LoopSound
  <1> QED
    BY <1>4, StepKeeps, TypesStand DEF Loop!Chunk, Loop!signals, Loop!queues, Loop!bounds

-----------------------------------------------------------------------------
(* What the model, a tool and a summary make of it. *)

LEMMA RequestEndsStep == ASSUME LoopAssumed, LifetimeInv, Loop!RequestEnds PROVE LifetimeInv'
  <1>1. response' \in Context
    BY TypesStand DEF Loop!RequestEnds
  <1>2. Moved(loop')
    <2>1. CASE loop' = Loop!Goto("wait")
      BY <2>1, GotoMoves DEF LoopPc
    <2>2. CASE \E end \in {"stop", "error"} : loop' = Loop!Settle(<<end>>)
      BY <2>2, SettleMoves, SaidSeqs DEF Said
    <2>3. CASE ~(loop.loops + 1 >= MaxCallCount)
               /\ loop' = [loop EXCEPT !.loops = @ + 1, !.tries = 0, !.started = FALSE, !.pc = "turn"]
      <3>1. loop \in LoopRec /\ LoopSound(loop)
        BY TypesStand
      <3>2. loop' = [pc |-> "turn", calls |-> loop.calls, then |-> loop.then, after |-> loop.after,
                     tries |-> 0, loops |-> loop.loops + 1, started |-> FALSE]
        BY <2>3, <3>1 DEF LoopRec
      <3>3. loop' \in LoopRec
        BY <3>1, <3>2 DEF LoopRec, LoopPc, Target
      <3>4. loop.loops + 1 < MaxCallCount
        BY <2>3, <3>1 DEF LoopRec, LoopAssumed
      <3>5. loop'.pc = "turn" /\ loop'.tries = 0 /\ loop'.loops = loop.loops + 1
        BY <3>2
      <3> QED
        BY <3>3, <3>4, <3>5 DEF Moved, LoopSound, LoopAssumed
    <2>4. CASE loop.tries < MaxRetries /\ loop' = [loop EXCEPT !.tries = @ + 1, !.pc = "backoff"]
      <3>1. loop \in LoopRec /\ LoopSound(loop)
        BY TypesStand
      <3>2. loop' = [pc |-> "backoff", calls |-> loop.calls, then |-> loop.then,
                     after |-> loop.after, tries |-> loop.tries + 1, loops |-> loop.loops,
                     started |-> loop.started]
        BY <2>4, <3>1 DEF LoopRec
      <3>3. loop' \in LoopRec
        BY <3>1, <3>2 DEF LoopRec, LoopPc
      <3>4. loop.tries + 1 <= MaxRetries
        BY <2>4, <3>1 DEF LoopRec, LoopAssumed
      <3>5. loop'.pc = "backoff" /\ loop'.tries = loop.tries + 1 /\ loop'.loops = loop.loops
        BY <3>2
      <3> QED
        BY <3>1, <3>3, <3>4, <3>5 DEF Moved, LoopSound
    <2> QED
      BY <2>1, <2>2, <2>3, <2>4 DEF Loop!RequestEnds
  <1> QED
    BY <1>1, <1>2, StepKeeps, TypesStand DEF Loop!RequestEnds, Loop!queues, Loop!bounds

LEMMA BackoffStep == ASSUME LoopAssumed, LifetimeInv, Loop!Backoff PROVE LifetimeInv'
  <1>1. response' \in Context
    BY TypesStand DEF Loop!Backoff
  <1>2. Moved(loop')
    <2>1. CASE loop' = [loop EXCEPT !.pc = "request", !.started = FALSE]
      BY <2>1, TypesStand DEF Moved, LoopRec, LoopSound, LoopPc, Target
    <2>2. CASE loop' = Loop!Settle(<<"error">>)
      BY <2>2, SettleMoves, SaidSeqs DEF Said
    <2> QED
      BY <2>1, <2>2 DEF Loop!Backoff
  <1> QED
    BY <1>1, <1>2, StepKeeps, TypesStand DEF Loop!Backoff, Loop!queues, Loop!bounds

LEMMA WaitApproveStep == ASSUME LoopAssumed, LifetimeInv, Loop!WaitApprove PROVE LifetimeInv'
  <1>1. Moved(loop')
    BY GotoMoves DEF Loop!WaitApprove, LoopPc
  <1> QED
    BY <1>1, StepKeeps, TypesStand DEF Loop!WaitApprove, Loop!queues, Loop!bounds

LEMMA ToolsEndStep == ASSUME LoopAssumed, LifetimeInv, Loop!ToolsEnd PROVE LifetimeInv'
  <1>1. rounds' \in Nat
    BY TypesStand DEF Loop!ToolsEnd
  <1>2. Moved(loop')
    <2>1. CASE \E end \in {"error", "pending"} : loop' = Loop!Settle(<<end>>)
      BY <2>1, SettleMoves, SaidSeqs DEF Said
    <2>2. CASE \E calls \in {<<"blank">>, <<>>} : loop' = Loop!Say(calls, "turn")
      BY <2>2, SayMoves, SaidSeqs DEF Said, Target
    <2>3. CASE loop' = IF needCompress THEN Loop!Summarise("stop") ELSE Loop!Settle(<<"stop">>)
      BY <2>3, SummariseMoves, SettleMoves, SaidSeqs DEF Said
    <2> QED
      BY <2>1, <2>2, <2>3 DEF Loop!ToolsEnd
  <1> QED
    BY <1>1, <1>2, StepKeeps, TypesStand DEF Loop!ToolsEnd, Loop!queues

LEMMA ApprovedEndStep == ASSUME LoopAssumed, LifetimeInv, Loop!ApprovedEnd PROVE LifetimeInv'
  <1>1. PICK error \in {<<>>, <<"error">>} : loop' = Loop!Say(error \o <<"blank">>, "turn")
    BY DEF Loop!ApprovedEnd
  <1>2. error \o <<"blank">> \in Seq(Said)
    BY <1>1, SaidSeqs DEF Said
  <1>3. Moved(loop')
    BY <1>1, <1>2, SayMoves DEF Target
  <1> QED
    BY <1>3, StepKeeps, TypesStand DEF Loop!ApprovedEnd, Loop!queues, Loop!bounds

LEMMA SummaryEndsStep == ASSUME LoopAssumed, LifetimeInv, Loop!SummaryEnds PROVE LifetimeInv'
  <1>1. PICK error \in {<<>>, <<"error">>} :
          loop' = IF loop.after = "stop"
                  THEN [Loop!Settle(error \o <<"summary", "stop">>) EXCEPT !.after = "top"]
                  ELSE [Loop!Say(error \o <<"summary">>, loop.after) EXCEPT !.after = "top"]
    BY DEF Loop!SummaryEnds
  <1>2. error \o <<"summary", "stop">> \in Seq(Said) /\ error \o <<"summary">> \in Seq(Said)
    BY <1>1, SaidSeqs DEF Said
  <1>3. Moved(loop')
    <2>1. CASE loop.after = "stop"
      <3> DEFINE r == Loop!Settle(error \o <<"summary", "stop">>)
      <3>1. Moved(r) /\ loop' = [r EXCEPT !.after = "top"]
        BY <1>1, <1>2, <2>1, SettleMoves
      <3> HIDE DEF r
      <3> QED
        BY <3>1 DEF Moved, LoopRec, LoopSound
    <2>2. CASE loop.after # "stop"
      <3> DEFINE r == Loop!Say(error \o <<"summary">>, loop.after)
      <3>1. loop.after \in Target
        BY <2>2, TypesStand DEF LoopRec, Target
      <3>2. Moved(r) /\ loop' = [r EXCEPT !.after = "top"]
        BY <1>1, <1>2, <2>2, <3>1, SayMoves
      <3> HIDE DEF r
      <3> QED
        BY <3>2 DEF Moved, LoopRec, LoopSound
    <2> QED
      BY <2>1, <2>2
  <1> QED
    BY <1>3, StepKeeps, TypesStand DEF Loop!SummaryEnds, Loop!signals, Loop!queues, Loop!bounds

LEMMA ExitStep == ASSUME LoopAssumed, LifetimeInv, Loop!Exit PROVE LifetimeInv'
  <1>1. Moved(loop')
    BY GotoMoves DEF Loop!Exit, LoopPc
  <1> QED
    BY <1>1, StepKeeps, TypesStand DEF Loop!Exit, Loop!queues, Loop!bounds

-----------------------------------------------------------------------------
(* The calls from outside: what they change is not the loop's. *)

LEMMA OtherKeeps ==
  ASSUME LifetimeInv, LoopTypes', done' \in {done, TRUE},
         UNCHANGED <<loop, recvQueue, sync, callback>>
  PROVE  LifetimeInv'
  BY DEF LifetimeInv, LoopTypes, LoopSound, HandOver, OnItsWay, Quiet

LEMMA OutsideSteps ==
  ASSUME LoopAssumed, LifetimeInv, Loop!Send \/ Loop!StopFlag \/ Loop!StopCancel \/ Loop!Cancel
  PROVE  LifetimeInv'
  <1>1. CASE Loop!Send
    <2>1. sendQueue' \in Seq(LoopInput)
      <3>1. PICK kind \in LoopInput : sendQueue' = Append(sendQueue, kind)
        BY <1>1 DEF Loop!Send, LoopInput
      <3> QED
        BY <3>1, AppendProperties DEF LifetimeInv, LoopTypes
    <2>2. LoopTypes'
      BY <1>1, <2>1 DEF Loop!Send, LifetimeInv, LoopTypes, Loop!signals
    <2> QED
      BY <1>1, <2>2, OtherKeeps DEF Loop!Send, Loop!signals
  <1>2. CASE Loop!StopFlag
    <2>1. LoopTypes'
      BY <1>2 DEF Loop!StopFlag, LifetimeInv, LoopTypes, Loop!queues
    <2> QED
      BY <1>2, <2>1, OtherKeeps DEF Loop!StopFlag, Loop!queues
  <1>3. CASE Loop!StopCancel
    <2>1. LoopTypes'
      BY <1>3 DEF Loop!StopCancel, Loop!Cut, LifetimeInv, LoopTypes, Loop!queues, Loop!bounds,
                  Context
    <2> QED
      BY <1>3, <2>1, OtherKeeps DEF Loop!StopCancel, Loop!queues
  <1>4. CASE Loop!Cancel
    <2>1. LoopTypes'
      BY <1>4 DEF Loop!Cancel, Loop!Cut, LifetimeInv, LoopTypes, Loop!queues, Loop!bounds, Context
    <2>2. done' \in {done, TRUE}
      BY <1>4 DEF Loop!Cancel
    <2> QED
      BY <1>4, <2>1, <2>2, OtherKeeps DEF Loop!Cancel, Loop!queues
  <1> QED
    BY <1>1, <1>2, <1>3, <1>4

LEMMA NextLifetime == ASSUME LoopAssumed PROVE LifetimeInv /\ [Loop!Next]_loopVars => LifetimeInv'
  <1> SUFFICES ASSUME LifetimeInv, [Loop!Next]_loopVars PROVE LifetimeInv'
    OBVIOUS
  <1>1. CASE Loop!LoopStep
    BY <1>1, CallStep, SyncStep, StartStep, TopStep, LeaveStep, ReceiveStep, TurnStep,
       BackoffStep, WaitApproveStep, ExitStep DEF Loop!LoopStep
  <1>2. CASE Loop!CallbackStep
    BY <1>2, CallbackSteps
  <1>3. CASE Loop!External
    BY <1>3, RequestEndsStep, ToolsEndStep, ApprovedEndStep, SummaryEndsStep DEF Loop!External
  <1>4. CASE Loop!Chunk
    BY <1>4, ChunkStep
  <1>5. CASE Loop!Send \/ Loop!StopFlag \/ Loop!StopCancel \/ Loop!Cancel
    BY <1>5, OutsideSteps
  <1>6. CASE UNCHANGED loopVars
    <2>1. LoopTypes'
      BY <1>6 DEF loopVars, LifetimeInv, LoopTypes
    <2> QED
      BY <1>6, <2>1, OtherKeeps DEF loopVars
  <1> QED
    BY <1>1, <1>2, <1>3, <1>4, <1>5, <1>6 DEF Loop!Next

\* Every variable of the loop, its queues and its callers keeps its type (type LoopManager):
\* a request is never tried more often than maxRetries, nor a turn gone on with more often
\* than Agent.MaxCallCount.
THEOREM LoopTypeCorrect == ASSUME LoopAssumed PROVE Spec => [](LoopTypes /\ LoopSound(loop))
  <1>1. LifetimeInv => LoopTypes /\ LoopSound(loop)
    BY DEF LifetimeInv
  <1>2. Init => LifetimeInv
    BY InitLifetime DEF Init
  <1>3. LifetimeInv /\ [Loop!Next]_loopVars => LifetimeInv'
    BY NextLifetime
  <1> QED BY <1>1, <1>2, <1>3, StepsApart, PTL DEF Spec

\* Back pressure: a living loop goes on only when its last response is neither in the queue
\* nor with the callback nor waiting to be acknowledged, whatever the size of the queue and
\* the numbers of retries and rounds (SetCallback and call, loop.go).
THEOREM ResponsesInTurn == ASSUME LoopAssumed PROVE Spec => []OneAtATime
  <1>1. LifetimeInv => OneAtATime
    BY DEF LifetimeInv, HandOver, Quiet, OneAtATime, Loop!OneAtATime
  <1>2. Init => LifetimeInv
    BY InitLifetime DEF Init
  <1>3. LifetimeInv /\ [Loop!Next]_loopVars => LifetimeInv'
    BY NextLifetime
  <1> QED BY <1>1, <1>2, <1>3, StepsApart, PTL DEF Spec
=============================================================================
