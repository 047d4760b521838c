--------------------------- MODULE CodebaseIndex ---------------------------
(***************************************************************************)
(* The background index of one directory (context/codebase): the goroutine *)
(* of RunIndex, which scans the files and queues embedding tasks, its      *)
(* progress poll, the worker that takes the tasks, and the commands        *)
(* /index cancel and /index clean, which stop all of them from request     *)
(* goroutines.                                                             *)
(*                                                                         *)
(* A section under qm.mu, cdb.mu, indexCancelsMu or indexingLocksMu is one *)
(* step.  A task is its file's number; the temp files and histories that   *)
(* are queued after a scan are one more task.  Contents do not change, so  *)
(* a stored task is one whose hash is found unchanged.                     *)
(***************************************************************************)
EXTENDS Integers, Sequences, SequencesExt

CONSTANTS
  Run,          \* calls of RunIndex: on loading a session, or by /index
  Handler,      \* goroutines that run a command
  Worker,       \* worker goroutines, numbered; a dead one's number is reused
  Files,        \* number of files the scan finds
  MaxCalls,     \* bound on the calls of one behaviour, a run counted as two
  MaxPanics,    \* bound on the panics of the worker
  None

ASSUME NumberAssumption ==
  /\ Files \in Nat /\ MaxCalls \in Nat /\ MaxPanics \in Nat
  /\ Worker \subseteq Nat /\ Worker # {}
ASSUME NoneAssumption == None \notin Run \cup Worker \cup Nat

VARIABLES
  queue,         \* qm.queue
  notify,        \* tokens in qm.notify, a channel of capacity 1
  totalPushed,   \* qm.totalPushed
  workerCancel,  \* the worker whose cancel function is stored, None for nil
  workers,       \* the worker goroutines; not dead = counted by workerWG
  stored,        \* tasks that have a row in the directory's database
  indexCancel,   \* the run whose cancel function indexCancels holds
  indexing,      \* indexingLocks has the directory
  index,         \* the goroutines that call RunIndex
  poll,          \* the progress poll each of them may leave behind
  th,            \* the goroutines that run a command
  owed,          \* history: tasks queued and since neither cleared nor failed
  abandoned,     \* history: a worker that was told to stop has panicked
  calls,         \* the calls begun so far, as MaxCalls counts them
  panics         \* panics so far

qmVars     == <<queue, notify, totalPushed>>
workerVars == <<workerCancel, workers, stored>>
lockVars   == <<indexCancel, indexing>>
ledger     == <<owed, abandoned>>
bounds     == <<calls, panics>>
vars == <<qmVars, workerVars, lockVars, index, poll, th, ledger, bounds>>

Extra == Files + 1
Task  == 1..Extra

WorkerPc == {"dead", "pop", "select", "embed", "panic", "clear", "restart"}
IndexPc  == {"off", "lock", "file", "start", "push", "notify", "unregister",
             "unlock", "done"}
PollPc   == {"off", "wait", "total"}
ThreadPc == {"idle", "cancelRun", "stop", "cancelWorker", "wait", "clearCancel",
             "clear", "start"}
Command  == {"cancel", "clean"}
Round    == {"first", "second"}

TypeOK ==
  /\ queue \in Seq(Task) /\ notify \in 0..1 /\ totalPushed \in Nat
  /\ workerCancel \in Worker \cup {None}
  /\ workers \in [Worker -> [pc : WorkerPc, task : Task, cancelled : BOOLEAN]]
  /\ stored \subseteq Task /\ owed \subseteq Task /\ abandoned \in BOOLEAN
  /\ indexCancel \in Run \cup {None} /\ indexing \in BOOLEAN
  /\ index \in [Run -> [pc : IndexPc, task : Task, cancelled : BOOLEAN]]
  /\ poll \in [Run -> [pc : PollPc, len : Nat, init : Nat]]
  /\ th \in [Handler -> [pc : ThreadPc, cmd : Command, round : Round,
                         target : Worker \cup {None}]]
  /\ calls \in 0..MaxCalls /\ panics \in 0..MaxPanics

Free == [pc |-> "idle", cmd |-> "cancel", round |-> "first", target |-> None]

Dead == [pc |-> "dead", task |-> Extra, cancelled |-> FALSE]

FirstWorker == CHOOSE w \in Worker : \A v \in Worker : w <= v

\* getOrCreateDB has made the directory's queue and database and started its
\* worker.
Init ==
  /\ queue = <<>> /\ notify = 0 /\ totalPushed = 0
  /\ workerCancel = FirstWorker
  /\ workers = [w \in Worker |-> IF w = FirstWorker THEN [Dead EXCEPT !.pc = "pop"] ELSE Dead]
  /\ stored = {} /\ owed = {} /\ abandoned = FALSE
  /\ indexCancel = None /\ indexing = FALSE
  /\ index = [r \in Run |-> [pc |-> "off", task |-> 1, cancelled |-> FALSE]]
  /\ poll = [r \in Run |-> [pc |-> "off", len |-> 0, init |-> 0]]
  /\ th = [h \in Handler |-> Free]
  /\ calls = 0 /\ panics = 0

\* DirectoryStatus holds cdb.mu for reading between its two reads of the queue.
Writable == \A r \in Run : poll[r].pc # "total"

-----------------------------------------------------------------------------
(* startWorker, Push, Clear *)

FreeWorkers == {w \in Worker : workers[w].pc = "dead" /\ \A h \in Handler : th[h].target # w}
NextWorker  == CHOOSE w \in FreeWorkers : \A v \in FreeWorkers : w <= v

\* startWorker: nothing while a cancel function is stored.  ws is what workers
\* would be without it.
StartWorker(ws) ==
  /\ Writable
  /\ \/ /\ workerCancel # None
        /\ workers' = ws
        /\ UNCHANGED workerCancel
     \/ /\ workerCancel = None /\ FreeWorkers # {}
        /\ workerCancel' = NextWorker
        /\ workers' = [ws EXCEPT ![NextWorker] = [Dead EXCEPT !.pc = "pop"]]

\* The two steps of Push.
Enqueue(task) ==
  /\ queue' = Append(queue, task)
  /\ totalPushed' = totalPushed + 1
  /\ owed' = owed \cup {task}
  /\ UNCHANGED abandoned

Notify == notify' = 1

Clear ==
  /\ queue' = <<>>
  /\ totalPushed' = 0

-----------------------------------------------------------------------------
(* RunIndex *)

\* The cancel function is registered before the check that may refuse the run.
Register(r) ==
  /\ index[r].pc = "off"
  /\ calls + 2 <= MaxCalls
  /\ calls' = calls + 2
  /\ indexCancel' = r
  /\ index' = [index EXCEPT ![r].pc = "lock"]
  /\ UNCHANGED <<qmVars, workerVars, indexing, poll, th, ledger, panics>>

\* The goroutine ends, or indexTempfsAndChatHistory has something to queue.
After(r) ==
  \/ index' = [index EXCEPT ![r].pc = "done"]
  \/ Extra \notin stored /\ index' = [index EXCEPT ![r].pc = "start", ![r].task = Extra]

\* A run that is refused leaves its cancel function where it is.  The goroutine
\* of /index then ends, that of a loaded session goes on with the extras.
Lock(r) ==
  /\ index[r].pc = "lock"
  /\ \/ indexing /\ After(r) /\ UNCHANGED indexing
     \/ ~indexing /\ indexing' = TRUE /\ index' = [index EXCEPT ![r].pc = "file"]
  /\ UNCHANGED <<qmVars, workerVars, indexCancel, poll, th, ledger, bounds>>

\* The head of the second pass: the context, then the hash of the next file.
\* After the last one, what is still queued is left to a poll; an empty queue is
\* "completed".
File(r) ==
  /\ index[r].pc = "file"
  /\ \/ /\ index[r].task = Extra
        /\ poll' = IF queue = <<>> THEN poll
                   ELSE [poll EXCEPT ![r] = [pc |-> "wait", len |-> 0, init |-> Len(queue)]]
        /\ index' = [index EXCEPT ![r].pc = "unregister"]
     \/ /\ index[r].task < Extra /\ index[r].cancelled
        /\ index' = [index EXCEPT ![r].pc = "unregister"]
        /\ UNCHANGED poll
     \/ /\ index[r].task < Extra /\ ~index[r].cancelled
        /\ index' = IF index[r].task \in stored
                    THEN [index EXCEPT ![r].task = @ + 1]
                    ELSE [index EXCEPT ![r].pc = "start"]
        /\ UNCHANGED poll
  /\ UNCHANGED <<qmVars, workerVars, lockVars, th, ledger, bounds>>

\* Mutant of AddToQueue: the notification comes before the task.
AddToQueueLate(r) ==
  \/ /\ index[r].pc = "start"
     /\ StartWorker(workers)
     /\ index' = [index EXCEPT ![r].pc = "notify"]
     /\ UNCHANGED <<qmVars, stored, lockVars, poll, th, ledger, bounds>>
  \/ /\ index[r].pc = "notify"
     /\ Notify
     /\ index' = [index EXCEPT ![r].pc = "push"]
     /\ UNCHANGED <<queue, totalPushed, workerVars, lockVars, poll, th, ledger, bounds>>
  \/ /\ index[r].pc = "push"
     /\ Enqueue(index[r].task)
     /\ index' = IF index[r].task = Extra
                 THEN [index EXCEPT ![r].pc = "done"]
                 ELSE [index EXCEPT ![r].pc = "file", ![r].task = @ + 1]
     /\ UNCHANGED <<notify, workerVars, lockVars, poll, th, bounds>>

\* AddToQueue: the worker, the queue, the notification.
AddToQueue(r) ==
  \/ /\ index[r].pc = "start"
     /\ StartWorker(workers)
     /\ index' = [index EXCEPT ![r].pc = "push"]
     /\ UNCHANGED <<qmVars, stored, lockVars, poll, th, ledger, bounds>>
  \/ /\ index[r].pc = "push"
     /\ Enqueue(index[r].task)
     /\ index' = [index EXCEPT ![r].pc = "notify"]
     /\ UNCHANGED <<notify, workerVars, lockVars, poll, th, bounds>>
  \/ /\ index[r].pc = "notify"
     /\ Notify
     /\ index' = IF index[r].task = Extra
                 THEN [index EXCEPT ![r].pc = "done"]
                 ELSE [index EXCEPT ![r].pc = "file", ![r].task = @ + 1]
     /\ UNCHANGED <<queue, totalPushed, workerVars, lockVars, poll, th, ledger, bounds>>

\* The deferred function of RunIndex, and what its caller does next.
Unregister(r) ==
  /\ index[r].pc = "unregister"
  /\ indexCancel' = None
  /\ index' = [index EXCEPT ![r].pc = "unlock"]
  /\ UNCHANGED <<qmVars, workerVars, indexing, poll, th, ledger, bounds>>

Unlock(r) ==
  /\ index[r].pc = "unlock"
  /\ indexing' = FALSE
  /\ After(r)
  /\ UNCHANGED <<qmVars, workerVars, indexCancel, poll, th, ledger, bounds>>

(* The progress poll *)

PollLen(r) ==
  /\ poll[r].pc = "wait"
  /\ poll' = IF index[r].cancelled THEN [poll EXCEPT ![r].pc = "off"]
             ELSE [poll EXCEPT ![r].pc = "total", ![r].len = Len(queue)]
  /\ UNCHANGED <<qmVars, workerVars, lockVars, index, th, ledger, bounds>>

\* Mutant of Total: progress is relative to the queue the scan left.
TotalAtScan(r) == poll[r].init

Total(r) == IF totalPushed > 0 THEN totalPushed ELSE poll[r].init

\* Broadcasts Processed(r) of Total(r); an empty queue ends the poll.
Processed(r) == Total(r) - poll[r].len

PollTotal(r) ==
  /\ poll[r].pc = "total"
  /\ poll' = [poll EXCEPT ![r].pc = IF poll[r].len = 0 THEN "off" ELSE "wait", ![r].len = 0]
  /\ UNCHANGED <<qmVars, workerVars, lockVars, index, th, ledger, bounds>>

-----------------------------------------------------------------------------
(* The worker *)

\* A worker returns; the last one to return releases those in workerWG.Wait.
Released(w) ==
  IF \A v \in Worker \ {w} : workers[v].pc = "dead"
  THEN [h \in Handler |-> IF th[h].pc = "wait"
                          THEN [th[h] EXCEPT !.pc = "clearCancel"] ELSE th[h]]
  ELSE th

Exit(w) ==
  /\ workers' = [workers EXCEPT ![w] = Dead]
  /\ th' = Released(w)

\* Mutant of WaitPop: the context is checked after the task is removed.
WaitPopDrops(w) ==
  /\ workers[w].pc = "pop"
  /\ IF queue = <<>>
     THEN workers' = [workers EXCEPT ![w].pc = "select"] /\ UNCHANGED <<queue, th>>
     ELSE /\ queue' = Tail(queue)
          /\ IF workers[w].cancelled THEN Exit(w)
             ELSE /\ workers' = [workers EXCEPT ![w].pc = "embed", ![w].task = Head(queue)]
                  /\ UNCHANGED th
  /\ UNCHANGED <<notify, totalPushed, workerCancel, stored, lockVars, index, poll,
                 ledger, bounds>>

\* The context is looked at only when there is nothing to take.
WaitPop(w) ==
  /\ workers[w].pc = "pop"
  /\ \/ /\ queue # <<>>
        /\ queue' = Tail(queue)
        /\ workers' = [workers EXCEPT ![w].pc = "embed", ![w].task = Head(queue)]
     \/ /\ queue = <<>>
        /\ workers' = [workers EXCEPT ![w].pc = "select"]
        /\ UNCHANGED queue
  /\ UNCHANGED <<notify, totalPushed, workerCancel, stored, lockVars, index, poll, th,
                 ledger, bounds>>

\* select: a notification or the context; both ready is either.
Wake(w) ==
  /\ workers[w].pc = "select"
  /\ \/ /\ notify > 0
        /\ notify' = notify - 1
        /\ workers' = [workers EXCEPT ![w].pc = "pop"]
        /\ UNCHANGED th
     \/ /\ workers[w].cancelled
        /\ Exit(w)
        /\ UNCHANGED notify
  /\ UNCHANGED <<queue, totalPushed, workerCancel, stored, lockVars, index, poll, ledger,
                 bounds>>

\* embedAndStore stores the task, fails, or panics.
EmbedAndStore(w) ==
  /\ workers[w].pc = "embed"
  /\ \/ /\ Writable
        /\ stored' = stored \cup {workers[w].task}
        /\ workers' = [workers EXCEPT ![w].pc = "pop", ![w].task = Extra]
        /\ UNCHANGED <<owed, panics>>
     \/ /\ workers' = [workers EXCEPT ![w].pc = "pop", ![w].task = Extra]
        /\ owed' = owed \ {workers[w].task}
        /\ UNCHANGED <<stored, panics>>
     \/ /\ panics < MaxPanics
        /\ panics' = panics + 1
        /\ workers' = [workers EXCEPT ![w].pc = "panic", ![w].task = Extra]
        /\ owed' = owed \ {workers[w].task}
        /\ UNCHANGED stored
  /\ UNCHANGED <<qmVars, workerCancel, lockVars, index, poll, th, abandoned, calls>>

\* recover: a worker that was not cancelled is replaced by a new one.
Recover(w) ==
  /\ workers[w].pc = "panic"
  /\ IF workers[w].cancelled
     THEN Exit(w) /\ abandoned' = TRUE
     ELSE workers' = [workers EXCEPT ![w].pc = "clear"] /\ UNCHANGED <<th, abandoned>>
  /\ UNCHANGED <<qmVars, workerCancel, stored, lockVars, index, poll, owed, bounds>>

\* Mutant of ClearState: the old cancel function stays.
ClearStateNot(w) ==
  /\ workers[w].pc = "clear" /\ Writable
  /\ workers' = [workers EXCEPT ![w].pc = "restart"]
  /\ UNCHANGED <<qmVars, workerCancel, stored, lockVars, index, poll, th, ledger, bounds>>

ClearState(w) ==
  /\ workers[w].pc = "clear" /\ Writable
  /\ workerCancel' = None
  /\ workers' = [workers EXCEPT ![w].pc = "restart"]
  /\ UNCHANGED <<qmVars, stored, lockVars, index, poll, th, ledger, bounds>>

\* startWorker, then workerWG.Done: a new worker keeps the waiters waiting.
Restart(w) ==
  /\ workers[w].pc = "restart"
  /\ StartWorker([workers EXCEPT ![w] = Dead])
  /\ th' = IF workerCancel = None THEN th ELSE Released(w)
  /\ UNCHANGED <<qmVars, stored, lockVars, index, poll, ledger, bounds>>

-----------------------------------------------------------------------------
(* /index cancel: CancelIndex.  /index clean: CancelIndex, then stopWorker    *)
(* once more, the tables made anew, and startWorker.                          *)

Begin(h) ==
  /\ th[h].pc = "idle"
  /\ calls < MaxCalls
  /\ calls' = calls + 1
  /\ \E cmd \in Command :
       th' = [th EXCEPT ![h] = [Free EXCEPT !.pc = "cancelRun", !.cmd = cmd]]
  /\ UNCHANGED <<qmVars, workerVars, lockVars, index, poll, ledger, panics>>

CancelRun(h) ==
  /\ th[h].pc = "cancelRun"
  /\ index' = IF indexCancel = None THEN index
              ELSE [index EXCEPT ![indexCancel].cancelled = TRUE]
  /\ indexCancel' = None
  /\ th' = [th EXCEPT ![h].pc = "stop"]
  /\ UNCHANGED <<qmVars, workerVars, indexing, poll, ledger, bounds>>

\* stopWorker: the cancel function is read, called, and waited for.
StopRead(h) ==
  /\ th[h].pc = "stop" /\ Writable
  /\ th' = [th EXCEPT ![h].target = workerCancel,
                      ![h].pc = IF workerCancel = None THEN "clear" ELSE "cancelWorker"]
  /\ UNCHANGED <<qmVars, workerVars, lockVars, index, poll, ledger, bounds>>

\* Calling the cancel function of a worker that has returned has no effect.
Cancel(w) ==
  workers' = IF workers[w] = Dead THEN workers ELSE [workers EXCEPT ![w].cancelled = TRUE]

\* Mutant of StopCancel: the worker is not waited for.
StopCancelOnly(h) ==
  /\ th[h].pc = "cancelWorker"
  /\ Cancel(th[h].target)
  /\ th' = [th EXCEPT ![h].pc = "clearCancel"]
  /\ UNCHANGED <<qmVars, workerCancel, stored, lockVars, index, poll, ledger, bounds>>

StopCancel(h) ==
  /\ th[h].pc = "cancelWorker"
  /\ Cancel(th[h].target)
  /\ th' = [th EXCEPT ![h].pc = IF \A w \in Worker : workers[w].pc = "dead"
                                THEN "clearCancel" ELSE "wait"]
  /\ UNCHANGED <<qmVars, workerCancel, stored, lockVars, index, poll, ledger, bounds>>

StopDone(h) ==
  /\ th[h].pc = "clearCancel" /\ Writable
  /\ workerCancel' = None
  /\ th' = [th EXCEPT ![h].pc = "clear"]
  /\ UNCHANGED <<qmVars, workers, stored, lockVars, index, poll, ledger, bounds>>

\* The end of StopDirectory; in the second round of clean, the new tables too.
ClearQueue(h) ==
  /\ th[h].pc = "clear" /\ Writable
  /\ Clear
  /\ \/ /\ th[h].cmd = "cancel"
        /\ th' = [th EXCEPT ![h] = Free]
        /\ owed' = owed \ ToSet(queue)
        /\ UNCHANGED stored
     \/ /\ th[h].cmd = "clean" /\ th[h].round = "first"
        /\ th' = [th EXCEPT ![h].pc = "stop", ![h].round = "second", ![h].target = None]
        /\ owed' = owed \ ToSet(queue)
        /\ UNCHANGED stored
     \/ /\ th[h].cmd = "clean" /\ th[h].round = "second"
        /\ th' = [th EXCEPT ![h].pc = "start", ![h].target = None]
        /\ owed' = {}
        /\ stored' = {}
  /\ UNCHANGED <<notify, workerCancel, workers, lockVars, index, poll, abandoned, bounds>>

CleanDone(h) ==
  /\ th[h].pc = "start"
  /\ StartWorker(workers)
  /\ th' = [th EXCEPT ![h] = Free]
  /\ UNCHANGED <<qmVars, stored, lockVars, index, poll, ledger, bounds>>

-----------------------------------------------------------------------------
RunIndex(r) ==
  \/ Lock(r) \/ File(r) \/ AddToQueue(r) \/ Unregister(r) \/ Unlock(r)

Poll(r) == PollLen(r) \/ PollTotal(r)

Work(w) ==
  \/ WaitPop(w) \/ Wake(w) \/ EmbedAndStore(w) \/ Recover(w) \/ ClearState(w)
  \/ Restart(w)

Continue(h) ==
  \/ CancelRun(h) \/ StopRead(h) \/ StopCancel(h) \/ StopDone(h) \/ ClearQueue(h)
  \/ CleanDone(h)

Next ==
  \/ \E r \in Run : Register(r) \/ RunIndex(r) \/ Poll(r)
  \/ \E w \in Worker : Work(w)
  \/ \E h \in Handler : Begin(h) \/ Continue(h)

\* Goroutines are scheduled and an embedding call returns; nobody has to load a
\* session or give a command.
Fairness ==
  /\ \A r \in Run : WF_vars(RunIndex(r)) /\ WF_vars(Poll(r))
  /\ \A w \in Worker : WF_vars(Work(w))
  /\ \A h \in Handler : WF_vars(Continue(h))

Spec == Init /\ [][Next]_vars /\ Fairness

-----------------------------------------------------------------------------
(* Properties *)

\* The progress clients see stays between 0 and the total, whatever is queued
\* or cleared while it is computed (the poll of RunIndex).
ProgressInRange ==
  \A r \in Run : poll[r].pc = "total" => Processed(r) \in 0..Total(r)

\* What an index has queued and nobody has cleared is stored, still queued or
\* being embedded; only a reported error loses a task (WaitPop, worker).
NothingLost ==
  owed \subseteq stored \cup ToSet(queue)
                 \cup {workers[w].task : w \in {v \in Worker : workers[v].pc = "embed"}}

\* The stored cancel function is that of a worker that lives, or a stopWorker
\* is about to drop it; else startWorker would refuse to start one for ever
\* (worker's recover, startWorker, stopWorker).
ClaimedWorkerLives ==
  workerCancel # None /\ workers[workerCancel] = Dead =>
    \E h \in Handler : th[h].pc \in {"cancelWorker", "wait", "clearCancel"}

\* When stopWorker has waited, the worker it stopped is gone: it stores nothing
\* after the tables are made anew (stopWorker, CleanDirectory).
StoppedWorkerGone ==
  \A h \in Handler :
    th[h].pc \in {"clearCancel", "clear"} /\ th[h].target # None =>
      workers[th[h].target].pc = "dead"

\* What the fields say of a worker and what has become of it agree, whoever starts,
\* stops and restarts it.
WorkerAsClaimed == ClaimedWorkerLives /\ StoppedWorkerGone

\* No wake-up is lost: when a worker sleeps beside a queue that is not empty, a
\* notification is there or on its way, or another worker will look at the queue,
\* unless one that was told to stop took the notification and panicked
\* (Push notifies after it releases qm.mu, WaitPop sleeps after it releases it).
NoLostWakeup ==
  (\E w \in Worker : workers[w].pc = "select" /\ ~workers[w].cancelled) /\ queue # <<>> =>
    \/ abandoned
    \/ notify > 0
    \/ \E r \in Run : index[r].pc = "notify"
    \/ \E w \in Worker : workers[w].pc \notin {"dead", "select"}

\* "CancelIndex cancels the index in progress, the scan and the poll": none it
\* finds in progress keeps its context.
CancelReachesIndex ==
  [][\A h \in Handler :
       th[h].pc = "cancelRun" /\ th'[h].pc # "cancelRun" =>
         \A r \in Run :
           index[r].pc \in {"file", "start", "push", "notify"} \/ poll[r].pc # "off"
             => index'[r].cancelled]_vars
=============================================================================
