-------------------------------- MODULE MCLive --------------------------------
(***************************************************************************)
(* The liveness runs: components that share nothing, one of them, active,  *)
(* taking the steps of a behaviour while the others rest in their initial  *)
(* states.                                                                 *)
(***************************************************************************)
EXTENDS Naturals

CONSTANTS Conn, Handler, Timer, Dir, Path, Clean, Sid, CwdOf, Handle, MaxRequests,
          Job, Stopper, MaxBatches, MaxStops, None,
          Req, Root, Child, Asked,
          QueueSize, MaxRetries, MaxCallCount, MaxInputs, MaxRounds

CONSTANTS c1, c2, d1, s1, h1, h2, t1, t2, t3, g1, g2, p1, x, y

VARIABLES active,
  sessions, sessDB, releaseTimer, background, chats, created, dbs, referCnt, fileOf,
  misspelt,
  sessionConnMap, connCallMap, bindedSessionOnConn, connLock, closed, timers, th, requests,
  reqChan, job, tool, toolCtx, toolKillFn, stopper, batches, stops,
  tree, req,
  ctx, done, stopped, response, loopTool, loop, needCompress, sendQueue, recvQueue, sync,
  callback, loopStopper, canceller, inputs, rounds, loopStops

Registry == INSTANCE SessionLifecycle
Run      == INSTANCE RunService
Files    == INSTANCE FileService
Loop     == INSTANCE LoopLifetime
              WITH tool <- loopTool, stopper <- loopStopper, stops <- loopStops

sessionVars ==
  <<sessions, sessDB, releaseTimer, background, chats, created, dbs, referCnt, fileOf,
    misspelt,
    sessionConnMap, connCallMap, bindedSessionOnConn, connLock, closed, timers, th, requests>>
jobVars == <<reqChan, job, tool, toolCtx, toolKillFn, stopper, batches, stops>>
fileVars == <<tree, req>>
loopVars == <<ctx, done, stopped, response, loopTool, loop, needCompress, sendQueue, recvQueue,
              sync, callback, loopStopper, canceller, inputs, rounds, loopStops>>
allVars == <<active, sessionVars, jobVars, fileVars, loopVars>>

CleanOnly == [d \in Path |-> d]
CwdOneDir == [s \in Sid |-> CHOOSE d \in Dir : TRUE]
AskedOfOne ==
  {<<"rm", Root>>, <<"rm", y>>, <<"write", x>>, <<"mkdir", x>>, <<"read", Root>>, <<"chmod", x>>,
   <<"write", y>>, <<"mkdir", y>>, <<"read", y>>, <<"stat", y>>, <<"chown", y>>}

Init ==
  /\ active \in {"registry", "run", "files", "loop"}
  /\ Registry!Init /\ Run!Init /\ Files!Init /\ Loop!Init

Next ==
  /\ UNCHANGED active
  /\ \/ active = "registry" /\ Registry!Next /\ UNCHANGED <<jobVars, fileVars, loopVars>>
     \/ active = "run" /\ Run!Next /\ UNCHANGED <<sessionVars, fileVars, loopVars>>
     \/ active = "files" /\ Files!Next /\ UNCHANGED <<sessionVars, jobVars, loopVars>>
     \/ active = "loop" /\ Loop!Next /\ UNCHANGED <<sessionVars, jobVars, fileVars>>

\* The fairness of each component, for the steps it takes when it is active.
Fairness ==
  /\ \A h \in Handler : WF_sessionVars(active = "registry" /\ Registry!Continue(h))
  /\ \A t \in Timer : WF_sessionVars(active = "registry" /\ Registry!Release(t))
  /\ WF_jobVars(active = "run" /\ Run!Hook)
  /\ WF_jobVars(active = "run" /\ Run!WaitStep)
  /\ WF_jobVars(active = "run" /\ Run!DoSubmit)
  /\ WF_jobVars(active = "run" /\ Run!DoKill)
  /\ \A j \in Job : /\ WF_jobVars(active = "run" /\ Run!JobStep(Run!Execute(j)))
                    /\ WF_jobVars(active = "run" /\ Run!JobStep(Run!Watch(j)))
  /\ \A s \in Stopper : WF_jobVars(active = "run" /\ Run!KillTool(s))
  /\ \A r \in Req : /\ WF_fileVars(active = "files" /\ Files!Receive(r))
                    /\ WF_fileVars(active = "files" /\ Files!Expire(r))
                    /\ WF_fileVars(active = "files" /\ Files!GiveUp(r))
  /\ WF_loopVars(active = "loop" /\ Loop!LoopStep)
  /\ WF_loopVars(active = "loop" /\ Loop!CallbackStep)
  /\ WF_loopVars(active = "loop" /\ Loop!ToldToEnd /\ Loop!External)

Spec == Init /\ [][Next]_allVars /\ Fairness

NothingOutlivesJob == Run!NothingOutlivesJob
StopEndsTool       == Run!StopEndsTool
UnboundReleased    == Registry!UnboundReleased
Answered           == Files!Answered
OneAtATime         == Loop!OneAtATime
EndsWhenTold       == Loop!EndsWhenTold
=============================================================================
