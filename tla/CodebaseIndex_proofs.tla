------------------------- MODULE CodebaseIndex_proofs -------------------------
(***************************************************************************)
(* The background index keeps its promises for any number of runs,         *)
(* commands, workers, files and panics: no task is lost, no wake-up is     *)
(* missed, what the fields say of a worker is so, and the progress it      *)
(* reports is in range.                                                    *)
(***************************************************************************)
EXTENDS CodebaseIndex, SequenceTheorems, WellFoundedInduction, TLAPS

WorkerRec == [pc : WorkerPc, task : Task, cancelled : BOOLEAN]
IndexRec  == [pc : IndexPc, task : Task, cancelled : BOOLEAN]
PollRec   == [pc : PollPc, len : Nat, init : Nat]
ThreadRec == [pc : ThreadPc, cmd : Command, round : Round, target : Worker \cup {None}]

Fresh == [Dead EXCEPT !.pc = "pop"]

\* A worker that has returned has left nothing of itself in its record.
DeadIsDead == \A w \in Worker : workers[w].pc = "dead" => workers[w] = Dead

\* Nothing is in the queue that was not counted, and while a poll holds cdb.mu nobody
\* can take back what was counted.
QueueCounted ==
  /\ Len(queue) <= totalPushed
  /\ \A r \in Run : poll[r].pc = "total" => poll[r].len <= totalPushed

\* A stored cancel function of a worker that is gone, or has been told to go, is about to be
\* dropped by the stopWorker that told it; a worker that restarts has dropped its own.
Stopping == \E h \in Handler : th[h].pc \in {"cancelWorker", "wait", "clearCancel"}
Doomed(w) == workers[w].pc = "dead" \/ workers[w].cancelled
ClaimInv ==
  /\ workerCancel # None /\ Doomed(workerCancel) => Stopping
  /\ \A w \in Worker : workers[w].pc = "restart" => workerCancel # w
  /\ \A h \in Handler : th[h].pc = "cancelWorker" => th[h].target # None

\* NoLostWakeup, without counting on a worker that is about to find that startWorker
\* refuses to replace it.
Sleeping == \E w \in Worker : workers[w].pc = "select" /\ ~workers[w].cancelled
Looking ==
  \/ \E w \in Worker : workers[w].pc \in {"pop", "embed", "panic", "clear"}
  \/ workerCancel = None /\ \E w \in Worker : workers[w].pc = "restart"
WakeInv ==
  Sleeping /\ queue # <<>> =>
    abandoned \/ notify > 0 \/ (\E r \in Run : index[r].pc = "notify") \/ Looking

IndexInv ==
  /\ TypeOK /\ DeadIsDead /\ QueueCounted /\ NothingLost
  /\ StoppedWorkerGone /\ ClaimInv /\ WakeInv

-----------------------------------------------------------------------------
(* What the provers need to know of the constants, and of the types. *)

\* A set of numbers that is not empty has a least one.
LEMMA LeastExists ==
  ASSUME NEW S \in SUBSET Nat, S # {}
  PROVE  \E x \in S : \A y \in S : x <= y
  <1> DEFINE R == {ss \in Nat \X Nat : ss[1] < ss[2]}
  <1>1. IsWellFoundedOn(R, Nat)
    BY NatLessThanWellFounded DEF OpToRel
  <1>2. \A x, y \in S : <<y, x>> \in R <=> y < x
    OBVIOUS
  <1> HIDE DEF R
  <1>3. \E x \in S : \A y \in S : ~ (<<y, x>> \in R)
    BY <1>1, WFMin
  <1>4. PICK x \in S : \A y \in S : ~ (<<y, x>> \in R)
    BY <1>3
  <1>5. \A y \in S : x \in Nat /\ y \in Nat /\ ~ (y < x)
    BY <1>2, <1>4
  <1>6. \A y \in S : x <= y
    BY <1>5
  <1> QED
    BY <1>6

LEMMA FirstWorkerIsOne == FirstWorker \in Worker
  <1>1. \E x \in Worker : \A y \in Worker : x <= y
    BY LeastExists, NumberAssumption
  <1> QED
    BY <1>1 DEF FirstWorker

LEMMA NextWorkerIsFree ==
  ASSUME FreeWorkers # {}
  PROVE  /\ NextWorker \in Worker /\ workers[NextWorker].pc = "dead"
         /\ \A h \in Handler : th[h].target # NextWorker
  <1>1. FreeWorkers \in SUBSET Nat
    BY NumberAssumption DEF FreeWorkers
  <1>2. \E x \in FreeWorkers : \A y \in FreeWorkers : x <= y
    BY <1>1, LeastExists
  <1>3. NextWorker \in FreeWorkers
    BY <1>2 DEF NextWorker
  <1> QED
    BY <1>3 DEF FreeWorkers

LEMMA Numbers == /\ Extra \in Nat /\ Extra >= 1 /\ Extra \in Task /\ 1 \in Task
                 /\ Task \subseteq Nat
                 /\ \A t \in Task : t < Extra => t + 1 \in Task
                 /\ \A t \in Task : t # Extra => t + 1 \in Task
                 /\ None \notin Worker /\ None \notin Run
  BY NumberAssumption, NoneAssumption DEF Extra, Task

LEMMA WorkerRecs == Dead \in WorkerRec /\ Fresh \in WorkerRec /\ Dead.pc = "dead" /\ Fresh.pc = "pop"
                    /\ ~Dead.cancelled /\ ~Fresh.cancelled
  <1>1. Extra \in Task
    BY Numbers
  <1> QED
    BY <1>1 DEF Dead, Fresh, WorkerRec, WorkerPc

LEMMA Types ==
  TypeOK =>
    /\ queue \in Seq(Task) /\ notify \in 0..1 /\ totalPushed \in Nat
    /\ workerCancel \in Worker \cup {None}
    /\ workers \in [Worker -> WorkerRec]
    /\ stored \subseteq Task /\ owed \subseteq Task /\ abandoned \in BOOLEAN
    /\ indexCancel \in Run \cup {None} /\ indexing \in BOOLEAN
    /\ index \in [Run -> IndexRec]
    /\ poll \in [Run -> PollRec]
    /\ th \in [Handler -> ThreadRec]
    /\ calls \in 0..MaxCalls /\ panics \in 0..MaxPanics
  BY DEF TypeOK, WorkerRec, IndexRec, PollRec, ThreadRec

\* startWorker does nothing, or makes the claim with a number nobody refers to.
LEMMA StartWorkerDoes ==
  ASSUME TypeOK, NEW ws, StartWorker(ws)
  PROVE  \/ workerCancel # None /\ workers' = ws /\ workerCancel' = workerCancel
         \/ \E v \in Worker : /\ workerCancel = None /\ workerCancel' = v
                              /\ workers[v].pc = "dead" /\ \A h \in Handler : th[h].target # v
                              /\ workers' = [ws EXCEPT ![v] = Fresh]
  BY NextWorkerIsFree DEF StartWorker, Fresh

\* What a worker's return does to those who wait for it.
LEMMA ReleasedDoes ==
  ASSUME TypeOK, NEW w \in Worker
  PROVE  /\ Released(w) \in [Handler -> ThreadRec]
         /\ \A h \in Handler :
              /\ Released(w)[h].target = th[h].target
              /\ \/ Released(w)[h].pc = th[h].pc
                 \/ /\ th[h].pc = "wait" /\ Released(w)[h].pc = "clearCancel"
                    /\ \A v \in Worker \ {w} : workers[v].pc = "dead"
  <1>1. th \in [Handler -> ThreadRec]
    BY Types
  <1>2. \A h \in Handler : /\ [th[h] EXCEPT !.pc = "clearCancel"] \in ThreadRec
                           /\ [th[h] EXCEPT !.pc = "clearCancel"].target = th[h].target
                           /\ [th[h] EXCEPT !.pc = "clearCancel"].pc = "clearCancel"
    BY <1>1 DEF ThreadRec, ThreadPc
  <1> QED
    BY <1>1, <1>2 DEF Released

LEMMA InitIndex == Init => IndexInv
  <1> SUFFICES ASSUME Init PROVE IndexInv
    OBVIOUS
  <1>1. workers \in [Worker -> WorkerRec] /\ workers = [w \in Worker |-> IF w = FirstWorker THEN Fresh ELSE Dead]
    BY WorkerRecs DEF Init, Fresh
  <1>2. TypeOK
    <2>1. th \in [Handler -> ThreadRec] /\ index \in [Run -> IndexRec] /\ poll \in [Run -> PollRec]
      BY Numbers DEF Init, Free, ThreadRec, IndexRec, PollRec, ThreadPc, IndexPc, PollPc, Command, Round
    <2>2. queue \in Seq(Task)
      BY EmptySeq DEF Init
    <2>3. workers \in [Worker -> WorkerRec] /\ workerCancel \in Worker \cup {None}
      BY <1>1, FirstWorkerIsOne DEF Init
    <2>4. /\ notify \in 0..1 /\ totalPushed \in Nat /\ stored \subseteq Task /\ owed \subseteq Task
          /\ abandoned \in BOOLEAN /\ indexCancel \in Run \cup {None} /\ indexing \in BOOLEAN
          /\ calls \in 0..MaxCalls /\ panics \in 0..MaxPanics
      <3>1. /\ notify = 0 /\ totalPushed = 0 /\ stored = {} /\ owed = {} /\ abandoned = FALSE
            /\ indexCancel = None /\ indexing = FALSE /\ calls = 0 /\ panics = 0
        BY DEF Init
      <3>2. 0 \in 0..MaxCalls /\ 0 \in 0..MaxPanics /\ 0 \in 0..1 /\ 0 \in Nat
        BY NumberAssumption
      <3>3. abandoned \in BOOLEAN /\ indexing \in BOOLEAN
        BY <3>1, Zenon
      <3> QED
        BY <3>1, <3>2, <3>3, Zenon
    <2> QED
      BY <2>1, <2>2, <2>3, <2>4 DEF TypeOK, WorkerRec, ThreadRec, IndexRec, PollRec
  <1>3. DeadIsDead
    BY <1>1, WorkerRecs DEF DeadIsDead
  <1>4. QueueCounted
    BY DEF Init, QueueCounted
  <1>5. NothingLost
    BY DEF Init, NothingLost
  <1>6. StoppedWorkerGone
    BY DEF Init, StoppedWorkerGone, Free
  <1>7. ClaimInv
    BY <1>1, WorkerRecs, FirstWorkerIsOne DEF Init, ClaimInv, Doomed, Free
  <1>8. WakeInv
    BY DEF Init, WakeInv
  <1> QED
    BY <1>2, <1>3, <1>4, <1>5, <1>6, <1>7, <1>8 DEF IndexInv

-----------------------------------------------------------------------------
(* The scan and the poll, as long as they queue nothing. *)

LEMMA ScanKeeps ==
  ASSUME IndexInv, TypeOK', UNCHANGED <<qmVars, workerVars, th, ledger>>,
         \A r \in Run : index[r].pc = "notify" => index'[r].pc = "notify",
         \A r \in Run : poll'[r].pc = "total" => poll'[r].len <= totalPushed
  PROVE  IndexInv'
  <1>1. DeadIsDead'
    BY DEF IndexInv, DeadIsDead, workerVars
  <1>2. QueueCounted'
    BY DEF IndexInv, QueueCounted, qmVars
  <1>3. NothingLost'
    BY DEF IndexInv, NothingLost, qmVars, workerVars, ledger
  <1>4. StoppedWorkerGone'
    BY DEF IndexInv, StoppedWorkerGone, workerVars
  <1>5. ClaimInv'
    BY DEF IndexInv, ClaimInv, Doomed, Stopping, workerVars
  <1>6. WakeInv'
    BY DEF IndexInv, WakeInv, Sleeping, Looking, qmVars, workerVars, ledger
  <1> QED
    BY <1>1, <1>2, <1>3, <1>4, <1>5, <1>6 DEF IndexInv

\* A step of one run moves its own record only.
LEMMA IndexMoves ==
  ASSUME IndexInv, NEW r \in Run, NEW x \in IndexRec, index' = [index EXCEPT ![r] = x],
         indexCancel' \in Run \cup {None}, indexing' \in BOOLEAN, calls' \in 0..MaxCalls,
         poll' \in [Run -> PollRec],
         \A q \in Run : poll'[q].pc = "total" => poll'[q].pc = poll[q].pc /\ poll'[q].len = poll[q].len,
         index[r].pc # "notify",
         UNCHANGED <<qmVars, workerVars, th, ledger, panics>>
  PROVE  IndexInv'
  <1>1. index \in [Run -> IndexRec]
    BY Types DEF IndexInv
  <1>2. index' \in [Run -> IndexRec]
    BY <1>1
  <1>3. TypeOK'
    BY <1>2 DEF IndexInv, TypeOK, IndexRec, PollRec, qmVars, workerVars, ledger
  <1>4. \A q \in Run : index[q].pc = "notify" => index'[q].pc = "notify"
    BY <1>1
  <1>5. \A q \in Run : poll'[q].pc = "total" => poll'[q].len <= totalPushed
    BY DEF IndexInv, QueueCounted
  <1> QED
    BY <1>3, <1>4, <1>5, ScanKeeps

LEMMA IndexRecMoves ==
  ASSUME IndexInv, NEW r \in Run
  PROVE  /\ \A pc \in IndexPc : /\ [index[r] EXCEPT !.pc = pc] \in IndexRec
                                /\ [index[r] EXCEPT !.pc = pc, !.task = Extra] \in IndexRec
                                /\ [index EXCEPT ![r].pc = pc] = [index EXCEPT ![r] = [index[r] EXCEPT !.pc = pc]]
         /\ index[r].task # Extra => index[r].task + 1 \in Task
         /\ index[r].task \in Task
  BY Types, Numbers DEF IndexInv, IndexRec

LEMMA AfterMoves ==
  ASSUME IndexInv, NEW r \in Run, After(r)
  PROVE  \E x \in IndexRec : index' = [index EXCEPT ![r] = x]
  <1>1. CASE index' = [index EXCEPT ![r].pc = "done"]
    BY <1>1, IndexRecMoves DEF IndexPc
  <1>2. CASE index' = [index EXCEPT ![r].pc = "start", ![r].task = Extra]
    <2>1. [index[r] EXCEPT !.pc = "start", !.task = Extra] \in IndexRec
      BY IndexRecMoves DEF IndexPc
    <2>2. index' = [index EXCEPT ![r] = [index[r] EXCEPT !.pc = "start", !.task = Extra]]
      BY <1>2, Types DEF IndexInv
    <2> QED
      BY <2>1, <2>2
  <1> QED
    BY <1>1, <1>2 DEF After

LEMMA RegisterStep == ASSUME IndexInv, NEW r \in Run, Register(r) PROVE IndexInv'
  <1>1. PICK x \in IndexRec : index' = [index EXCEPT ![r] = x]
    BY IndexRecMoves DEF Register, IndexPc
  <1>2. calls' \in 0..MaxCalls
    BY NumberAssumption, Types DEF IndexInv, Register
  <1> QED
    BY <1>1, <1>2, IndexMoves, Types DEF IndexInv, Register

LEMMA LockStep == ASSUME IndexInv, NEW r \in Run, Lock(r) PROVE IndexInv'
  <1>1. PICK x \in IndexRec : index' = [index EXCEPT ![r] = x]
    BY IndexRecMoves, AfterMoves DEF Lock, IndexPc
  <1>2. indexing' \in BOOLEAN
    BY Types DEF IndexInv, Lock
  <1> QED
    BY <1>1, <1>2, IndexMoves, Types DEF IndexInv, Lock, bounds

LEMMA UnregisterStep == ASSUME IndexInv, NEW r \in Run, Unregister(r) PROVE IndexInv'
  <1>1. PICK x \in IndexRec : index' = [index EXCEPT ![r] = x]
    BY IndexRecMoves DEF Unregister, IndexPc
  <1> QED
    BY <1>1, IndexMoves, Types DEF IndexInv, Unregister, bounds

LEMMA UnlockStep == ASSUME IndexInv, NEW r \in Run, Unlock(r) PROVE IndexInv'
  <1>1. PICK x \in IndexRec : index' = [index EXCEPT ![r] = x]
    BY AfterMoves DEF Unlock
  <1> QED
    BY <1>1, IndexMoves, Types DEF IndexInv, Unlock, bounds

LEMMA FileStep == ASSUME IndexInv, NEW r \in Run, File(r) PROVE IndexInv'
  <1>1. PICK x \in IndexRec : index' = [index EXCEPT ![r] = x]
    <2>1. CASE index[r].task < Extra /\ index[r].task \in stored
               /\ index' = [index EXCEPT ![r].task = @ + 1]
      <3>1. index[r].task + 1 \in Task
        BY <2>1, Numbers, Types DEF IndexInv, IndexRec
      <3>2. [index[r] EXCEPT !.task = index[r].task + 1] \in IndexRec
        BY <3>1, Types DEF IndexInv, IndexRec
      <3>3. index' = [index EXCEPT ![r] = [index[r] EXCEPT !.task = index[r].task + 1]]
        BY <2>1, Types DEF IndexInv
      <3> QED
        BY <3>2, <3>3
    <2>2. CASE \E pc \in IndexPc : index' = [index EXCEPT ![r].pc = pc]
      BY <2>2, IndexRecMoves
    <2> QED
      BY <2>1, <2>2 DEF File, IndexPc
  <1>2. poll' \in [Run -> PollRec]
    <2>1. [pc |-> "wait", len |-> 0, init |-> Len(queue)] \in PollRec
      BY Types, LenProperties DEF IndexInv, PollRec, PollPc
    <2> QED
      BY <2>1, Types DEF IndexInv, File
  <1>3. \A q \in Run : poll'[q].pc = "total" => poll'[q].pc = poll[q].pc /\ poll'[q].len = poll[q].len
    <2>1. poll \in [Run -> PollRec]
      BY Types DEF IndexInv
    <2> QED
      BY <2>1 DEF File
  <1> QED
    BY <1>1, <1>2, <1>3, IndexMoves, Types DEF IndexInv, File, lockVars, bounds

LEMMA PollSteps == ASSUME IndexInv, NEW r \in Run, Poll(r) PROVE IndexInv'
  <1>1. poll \in [Run -> PollRec] /\ queue \in Seq(Task) /\ Len(queue) \in Nat
    BY Types, LenProperties DEF IndexInv
  <1>2. /\ UNCHANGED <<qmVars, workerVars, lockVars, index, th, ledger, bounds>>
        /\ \A q \in Run \ {r} : poll'[q] = poll[q]
    BY <1>1 DEF Poll, PollLen, PollTotal
  <1>3. poll' \in [Run -> PollRec]
    BY <1>1 DEF Poll, PollLen, PollTotal, PollRec, PollPc
  <1>4. poll'[r].pc = "total" => poll'[r].len = Len(queue)
    BY <1>1 DEF Poll, PollLen, PollTotal, PollRec
  <1>5. \A q \in Run : poll'[q].pc = "total" => poll'[q].len <= totalPushed
    BY <1>2, <1>4 DEF IndexInv, QueueCounted
  <1>6. TypeOK'
    BY <1>2, <1>3 DEF IndexInv, TypeOK, PollRec, qmVars, workerVars, lockVars, ledger, bounds
  <1> QED
    BY <1>2, <1>5, <1>6, ScanKeeps

-----------------------------------------------------------------------------
(* startWorker, then Push: whoever adds a task. *)

\* What startWorker may do to a pool in which nobody was changed.
LEMMA StartKeeps ==
  ASSUME IndexInv, StartWorker(workers),
         UNCHANGED <<queue, totalPushed, notify, stored, ledger>>,
         \A r \in Run : index[r].pc = "notify" => index'[r].pc = "notify",
         UNCHANGED poll, th' \in [Handler -> ThreadRec],
         \A h \in Handler : \/ th'[h] = th[h]
                            \/ /\ th[h].pc \notin {"cancelWorker", "wait", "clearCancel"}
                               /\ th'[h].pc \notin {"cancelWorker", "clearCancel", "clear"},
         TypeOK'
  PROVE  IndexInv'
  <1>1. workers \in [Worker -> WorkerRec] /\ th \in [Handler -> ThreadRec] /\ None \notin Worker
        /\ workerCancel \in Worker \cup {None}
    BY Types, Numbers DEF IndexInv
  <1>2. QueueCounted'
    BY DEF IndexInv, QueueCounted
  <1>3. Stopping => Stopping'
    BY DEF Stopping
  <1>4. CASE workerCancel # None /\ workers' = workers /\ workerCancel' = workerCancel
    <2>1. DeadIsDead'
      BY <1>4 DEF IndexInv, DeadIsDead
    <2>2. NothingLost'
      BY <1>4 DEF IndexInv, NothingLost, ledger
    <2>3. StoppedWorkerGone'
      BY <1>4 DEF IndexInv, StoppedWorkerGone
    <2>4. ClaimInv'
      BY <1>3, <1>4 DEF IndexInv, ClaimInv, Doomed
    <2>5. WakeInv'
      BY <1>4 DEF IndexInv, WakeInv, Sleeping, Looking, ledger
    <2> QED
      BY <1>2, <2>1, <2>2, <2>3, <2>4, <2>5 DEF IndexInv
  <1>5. ASSUME NEW v \in Worker, workerCancel = None, workerCancel' = v,
               workers[v].pc = "dead", \A h \in Handler : th[h].target # v,
               workers' = [workers EXCEPT ![v] = Fresh]
        PROVE  IndexInv'
    <2>0. /\ workers'[v] = Fresh /\ Fresh.pc = "pop" /\ ~Fresh.cancelled
          /\ \A w \in Worker \ {v} : workers'[w] = workers[w]
      BY <1>1, <1>5, WorkerRecs
    <2>1. DeadIsDead'
      BY <2>0 DEF IndexInv, DeadIsDead
    <2>2. NothingLost'
      <3>1. \A w \in Worker : workers[w].pc = "embed" =>
              workers'[w].pc = "embed" /\ workers'[w].task = workers[w].task
        BY <1>5, <2>0
      <3> QED
        BY <3>1 DEF IndexInv, NothingLost, ledger
    <2>3. StoppedWorkerGone'
      <3>1. \A h \in Handler : th'[h].pc \in {"clearCancel", "clear"} => th'[h] = th[h]
        OBVIOUS
      <3>2. \A h \in Handler : th[h].target # None => th[h].target \in Worker \ {v}
        BY <1>1, <1>5 DEF ThreadRec
      <3> QED
        BY <2>0, <3>1, <3>2 DEF IndexInv, StoppedWorkerGone
    <2>4. ClaimInv'
      <3>1. ~Doomed(workerCancel)'
        BY <1>5, <2>0 DEF Doomed
      <3>2. \A w \in Worker : workers'[w].pc = "restart" => workerCancel' # w
        BY <1>5, <2>0
      <3> QED
        BY <3>1, <3>2 DEF IndexInv, ClaimInv
    <2>5. WakeInv'
      BY <2>0 DEF WakeInv, Looking
    <2> QED
      BY <1>2, <2>1, <2>2, <2>3, <2>4, <2>5 DEF IndexInv
  <1>6. TypeOK
    BY DEF IndexInv
  <1> QED
    BY <1>4, <1>5, <1>6, StartWorkerDoes

\* startWorker keeps the types of what it changes.
LEMMA StartTypes ==
  ASSUME TypeOK, NEW ws \in [Worker -> WorkerRec], StartWorker(ws)
  PROVE  workers' \in [Worker -> WorkerRec] /\ workerCancel' \in Worker \cup {None}
  <1>1. CASE workerCancel # None /\ workers' = ws /\ workerCancel' = workerCancel
    BY <1>1, Types
  <1>2. ASSUME NEW v \in Worker, workerCancel' = v, workers' = [ws EXCEPT ![v] = Fresh]
        PROVE  workers' \in [Worker -> WorkerRec] /\ workerCancel' \in Worker \cup {None}
    BY <1>2, WorkerRecs
  <1> QED
    BY <1>1, <1>2, StartWorkerDoes

LEMMA AddStart ==
  ASSUME IndexInv, NEW r \in Run, index[r].pc = "start", StartWorker(workers),
         index' = [index EXCEPT ![r].pc = "push"],
         UNCHANGED <<qmVars, stored, lockVars, poll, th, ledger, bounds>>
  PROVE  IndexInv'
  <1>1. index \in [Run -> IndexRec] /\ workers \in [Worker -> WorkerRec] /\ th \in [Handler -> ThreadRec]
    BY Types DEF IndexInv
  <1>2. PICK x \in IndexRec : index' = [index EXCEPT ![r] = x]
    BY IndexRecMoves DEF IndexPc
  <1>3. index' \in [Run -> IndexRec] /\ \A q \in Run : index[q].pc = "notify" => index'[q].pc = "notify"
    BY <1>1, <1>2
  <1>4. workers' \in [Worker -> WorkerRec] /\ workerCancel' \in Worker \cup {None}
    BY <1>1, StartTypes DEF IndexInv
  <1>5. TypeOK'
    BY <1>3, <1>4 DEF IndexInv, TypeOK, IndexRec, WorkerRec, qmVars, lockVars, ledger, bounds
  <1> QED
    BY <1>1, <1>3, <1>5, StartKeeps DEF qmVars

LEMMA AddPush ==
  ASSUME IndexInv, NEW r \in Run, index[r].pc = "push", Enqueue(index[r].task),
         index' = [index EXCEPT ![r].pc = "notify"],
         UNCHANGED <<notify, workerVars, lockVars, poll, th, bounds>>
  PROVE  IndexInv'
  <1> DEFINE task == index[r].task
  <1>1. /\ index \in [Run -> IndexRec] /\ queue \in Seq(Task) /\ task \in Task
        /\ totalPushed \in Nat /\ owed \subseteq Task
    BY Types, IndexRecMoves DEF IndexInv
  <1>2. PICK x \in IndexRec : index' = [index EXCEPT ![r] = x]
    BY IndexRecMoves DEF IndexPc
  <1>3. index' \in [Run -> IndexRec] /\ index'[r].pc = "notify"
    BY <1>1, <1>2 DEF IndexRec
  <1>4. /\ queue' = Append(queue, task) /\ totalPushed' = totalPushed + 1
        /\ owed' = owed \cup {task} /\ abandoned' = abandoned
    BY DEF Enqueue
  <1> HIDE DEF task
  <1>5. /\ queue' \in Seq(Task) /\ Len(queue') = Len(queue) + 1 /\ Len(queue) \in Nat
        /\ queue'[Len(queue) + 1] = task
        /\ \A i \in 1..Len(queue) : queue'[i] = queue[i]
    BY <1>1, <1>4, AppendProperties, LenProperties
  <1>6. ToSet(queue') = ToSet(queue) \cup {task}
    BY <1>5 DEF ToSet
  <1>7. TypeOK'
    BY <1>1, <1>3, <1>4, <1>5 DEF IndexInv, TypeOK, IndexRec, workerVars, lockVars, bounds
  <1>8. DeadIsDead'
    BY DEF IndexInv, DeadIsDead, workerVars
  <1>9. QueueCounted'
    <2>1. \A q \in Run : poll[q].pc = "total" => poll[q].len <= totalPushed + 1
      BY <1>1, Types DEF IndexInv, QueueCounted, PollRec
    <2> QED
      BY <1>1, <1>4, <1>5, <2>1 DEF IndexInv, QueueCounted
  <1>10. NothingLost'
    BY <1>4, <1>6 DEF IndexInv, NothingLost, workerVars
  <1>11. StoppedWorkerGone'
    BY DEF IndexInv, StoppedWorkerGone, workerVars
  <1>12. ClaimInv'
    BY DEF IndexInv, ClaimInv, Doomed, Stopping, workerVars
  <1>13. WakeInv'
    BY <1>3 DEF WakeInv
  <1> QED
    BY <1>7, <1>8, <1>9, <1>10, <1>11, <1>12, <1>13 DEF IndexInv

LEMMA AddNotify ==
  ASSUME IndexInv, NEW r \in Run, index[r].pc = "notify", Notify,
         index' = IF index[r].task = Extra
                  THEN [index EXCEPT ![r].pc = "done"]
                  ELSE [index EXCEPT ![r].pc = "file", ![r].task = @ + 1],
         UNCHANGED <<queue, totalPushed, workerVars, lockVars, poll, th, ledger, bounds>>
  PROVE  IndexInv'
  <1>1. index \in [Run -> IndexRec]
    BY Types DEF IndexInv
  <1>2. index' \in [Run -> IndexRec]
    <2>1. CASE index[r].task = Extra
      <3>1. PICK x \in IndexRec : index' = [index EXCEPT ![r] = x]
        BY <2>1, IndexRecMoves DEF IndexPc
      <3> QED
        BY <1>1, <3>1
    <2>2. CASE index[r].task # Extra
      <3>1. index[r].task + 1 \in Task
        BY <2>2, IndexRecMoves
      <3> QED
        BY <1>1, <2>2, <3>1 DEF IndexRec, IndexPc
    <2> QED
      BY <2>1, <2>2
  <1>3. TypeOK'
    BY <1>2 DEF IndexInv, TypeOK, Notify, IndexRec, workerVars, lockVars, ledger, bounds
  <1>4. DeadIsDead'
    BY DEF IndexInv, DeadIsDead, workerVars
  <1>5. QueueCounted'
    BY DEF IndexInv, QueueCounted
  <1>6. NothingLost'
    BY DEF IndexInv, NothingLost, workerVars, ledger
  <1>7. StoppedWorkerGone'
    BY DEF IndexInv, StoppedWorkerGone, workerVars
  <1>8. ClaimInv'
    BY DEF IndexInv, ClaimInv, Doomed, Stopping, workerVars
  <1>9. WakeInv'
    BY DEF WakeInv, Notify
  <1> QED
    BY <1>3, <1>4, <1>5, <1>6, <1>7, <1>8, <1>9 DEF IndexInv

LEMMA AddToQueueStep == ASSUME IndexInv, NEW r \in Run, AddToQueue(r) PROVE IndexInv'
  BY AddStart, AddPush, AddNotify DEF AddToQueue

-----------------------------------------------------------------------------
(* The worker. *)

\* A worker that goes on changes nothing anybody claims of it.
LEMMA WorkerGoesOn ==
  ASSUME IndexInv, NEW w \in Worker, NEW x \in WorkerRec, workers' = [workers EXCEPT ![w] = x],
         workers[w].pc # "dead", x.pc \notin {"dead", "restart"},
         x.cancelled = workers[w].cancelled, UNCHANGED <<workerCancel, th>>
  PROVE  /\ workers' \in [Worker -> WorkerRec] /\ workers'[w] = x
         /\ \A v \in Worker \ {w} : workers'[v] = workers[v]
         /\ DeadIsDead' /\ StoppedWorkerGone' /\ ClaimInv'
  <1>1. /\ workers \in [Worker -> WorkerRec] /\ th \in [Handler -> ThreadRec]
        /\ workerCancel \in Worker \cup {None} /\ None \notin Worker
    BY Types, Numbers DEF IndexInv
  <1>2. /\ workers' \in [Worker -> WorkerRec] /\ workers'[w] = x
        /\ \A v \in Worker \ {w} : workers'[v] = workers[v]
    BY <1>1
  <1>3. DeadIsDead'
    BY <1>2 DEF IndexInv, DeadIsDead
  <1>4. StoppedWorkerGone'
    <2>1. \A h \in Handler : th[h].target # None => th[h].target \in Worker
      BY <1>1 DEF ThreadRec
    <2> QED
      BY <1>2, <2>1 DEF IndexInv, StoppedWorkerGone
  <1>5. ClaimInv'
    <2>1. workerCancel # None /\ Doomed(workerCancel)' => Doomed(workerCancel)
      BY <1>1, <1>2 DEF Doomed
    <2>2. \A v \in Worker : workers'[v].pc = "restart" => workers[v].pc = "restart"
      BY <1>2
    <2>3. Stopping => Stopping'
      BY DEF Stopping
    <2> QED
      BY <2>1, <2>2, <2>3 DEF IndexInv, ClaimInv, Doomed
  <1> QED
    BY <1>2, <1>3, <1>4, <1>5

\* A worker that returns was told to, or the stored cancel function is another's.
LEMMA WorkerReturns ==
  ASSUME IndexInv, NEW w \in Worker, Exit(w), workers[w].pc # "dead",
         workers[w].cancelled \/ workerCancel # w, UNCHANGED workerCancel
  PROVE  /\ workers' \in [Worker -> WorkerRec] /\ workers'[w].pc = "dead"
         /\ \A v \in Worker \ {w} : workers'[v] = workers[v]
         /\ th' \in [Handler -> ThreadRec]
         /\ DeadIsDead' /\ StoppedWorkerGone' /\ ClaimInv'
  <1>1. /\ workers \in [Worker -> WorkerRec] /\ th \in [Handler -> ThreadRec]
        /\ workerCancel \in Worker \cup {None} /\ None \notin Worker
    BY Types, Numbers DEF IndexInv
  <1>2. /\ workers' \in [Worker -> WorkerRec] /\ workers'[w] = Dead
        /\ \A v \in Worker \ {w} : workers'[v] = workers[v]
    BY <1>1, WorkerRecs DEF Exit
  <1>3. Dead.pc = "dead" /\ ~Dead.cancelled
    BY WorkerRecs
  <1>4. /\ th' \in [Handler -> ThreadRec]
        /\ \A h \in Handler :
             /\ th'[h].target = th[h].target
             /\ \/ th'[h].pc = th[h].pc
                \/ /\ th[h].pc = "wait" /\ th'[h].pc = "clearCancel"
                   /\ \A v \in Worker \ {w} : workers[v].pc = "dead"
    BY ReleasedDoes DEF Exit, IndexInv
  <1>5. DeadIsDead'
    BY <1>2, <1>3 DEF IndexInv, DeadIsDead, Dead
  <1>6. StoppedWorkerGone'
    <2>1. \A h \in Handler : th[h].target # None => th[h].target \in Worker
      BY <1>1 DEF ThreadRec
    <2> SUFFICES ASSUME NEW h \in Handler, th'[h].pc \in {"clearCancel", "clear"},
                        th'[h].target # None
                 PROVE  workers'[th'[h].target].pc = "dead"
      BY DEF StoppedWorkerGone
    <2>2. th'[h].target = th[h].target /\ th[h].target \in Worker
      BY <1>4, <2>1
    <2>3. CASE th'[h].pc = th[h].pc
      <3>1. workers[th[h].target].pc = "dead"
        BY <2>2, <2>3 DEF IndexInv, StoppedWorkerGone
      <3> QED
        BY <1>2, <1>3, <2>2, <3>1
    <2>4. CASE \A v \in Worker \ {w} : workers[v].pc = "dead"
      BY <1>2, <1>3, <2>2, <2>4
    <2> QED
      BY <1>4, <2>3, <2>4
  <1>7. ClaimInv'
    <2>1. workerCancel # None /\ Doomed(workerCancel)' => Doomed(workerCancel)
      BY <1>1, <1>2, <1>3 DEF Doomed
    <2>2. \A v \in Worker : workers'[v].pc = "restart" => workers[v].pc = "restart"
      BY <1>2, <1>3
    <2>3. Stopping => Stopping'
      BY <1>4 DEF Stopping
    <2>4. \A h \in Handler : th'[h].pc = "cancelWorker" => th'[h].target # None
      BY <1>4 DEF IndexInv, ClaimInv
    <2> QED
      BY <2>1, <2>2, <2>3, <2>4 DEF IndexInv, ClaimInv, Doomed
  <1> QED
    BY <1>2, <1>3, <1>4, <1>5, <1>6, <1>7

LEMMA WaitPopStep == ASSUME IndexInv, NEW w \in Worker, WaitPop(w) PROVE IndexInv'
  <1>1. /\ workers \in [Worker -> WorkerRec] /\ queue \in Seq(Task)
        /\ workers[w].pc = "pop" /\ workers[w] \in WorkerRec
    BY Types DEF IndexInv, WaitPop
  <1>2. UNCHANGED <<notify, totalPushed, workerCancel, stored, lockVars, index, poll, th, ledger, bounds>>
    BY DEF WaitPop
  <1>3. CASE queue # <<>> /\ queue' = Tail(queue)
             /\ workers' = [workers EXCEPT ![w].pc = "embed", ![w].task = Head(queue)]
    <2> DEFINE x == [workers[w] EXCEPT !.pc = "embed", !.task = Head(queue)]
    <2>1. /\ queue' \in Seq(Task) /\ Head(queue) \in Task
          /\ Len(queue) \in Nat /\ Len(queue') = Len(queue) - 1
          /\ \A i \in 1..Len(queue') : queue'[i] = queue[i + 1]
          /\ Head(queue) = queue[1]
      BY <1>1, <1>3, HeadTailProperties, LenProperties
    <2>2. x \in WorkerRec /\ x.pc = "embed" /\ x.task = Head(queue) /\ x.cancelled = workers[w].cancelled
      BY <1>1, <2>1 DEF WorkerRec, WorkerPc
    <2>3. workers' = [workers EXCEPT ![w] = x]
      BY <1>1, <1>3
    <2> HIDE DEF x
    <2>4. /\ workers' \in [Worker -> WorkerRec] /\ workers'[w] = x
          /\ \A v \in Worker \ {w} : workers'[v] = workers[v]
          /\ DeadIsDead' /\ StoppedWorkerGone' /\ ClaimInv'
      BY <1>1, <1>2, <2>2, <2>3, WorkerGoesOn
    <2>5. TypeOK'
      BY <1>2, <2>1, <2>4 DEF IndexInv, TypeOK, WorkerRec, lockVars, ledger, bounds
    <2>6. QueueCounted'
      <3>1. totalPushed \in Nat
        BY Types DEF IndexInv
      <3> QED
        BY <1>2, <2>1, <3>1 DEF IndexInv, QueueCounted
    <2>7. NothingLost'
      <3>1. ToSet(queue) \subseteq ToSet(queue') \cup {Head(queue)}
        <4> SUFFICES ASSUME NEW i \in 1..Len(queue) PROVE queue[i] \in ToSet(queue') \cup {Head(queue)}
          BY DEF ToSet
        <4>1. CASE i = 1
          BY <2>1, <4>1
        <4>2. CASE i # 1
          <5>1. i - 1 \in 1..Len(queue') /\ (i - 1) + 1 = i
            BY <2>1, <4>2
          <5>2. queue'[i - 1] = queue[i]
            BY <2>1, <5>1
          <5> QED
            BY <5>1, <5>2 DEF ToSet
        <4> QED
          BY <4>1, <4>2
      <3>2. \A v \in Worker : workers[v].pc = "embed" =>
             workers'[v].pc = "embed" /\ workers'[v].task = workers[v].task
        BY <1>1, <2>4
      <3>3. workers'[w].pc = "embed" /\ workers'[w].task = Head(queue)
        BY <2>2, <2>4
      <3> DEFINE Old == {workers[v].task : v \in {u \in Worker : workers[u].pc = "embed"}}
                 New == {workers'[v].task : v \in {u \in Worker : workers'[u].pc = "embed"}}
      <3>4. Old \subseteq New /\ Head(queue) \in New
        BY <3>2, <3>3
      <3>5. owed \subseteq stored \cup ToSet(queue) \cup Old
        BY DEF IndexInv, NothingLost
      <3> HIDE DEF Old, New
      <3>6. owed' \subseteq stored' \cup ToSet(queue') \cup New
        BY <1>2, <3>1, <3>4, <3>5 DEF ledger
      <3> QED
        BY <3>6 DEF NothingLost, New
    <2>8. WakeInv'
      BY <2>2, <2>4 DEF WakeInv, Looking
    <2> QED
      BY <2>4, <2>5, <2>6, <2>7, <2>8 DEF IndexInv
  <1>4. CASE queue = <<>> /\ workers' = [workers EXCEPT ![w].pc = "select"] /\ UNCHANGED queue
    <2> DEFINE x == [workers[w] EXCEPT !.pc = "select"]
    <2>2. x \in WorkerRec /\ x.pc = "select" /\ x.cancelled = workers[w].cancelled
      BY <1>1 DEF WorkerRec, WorkerPc
    <2>3. workers' = [workers EXCEPT ![w] = x]
      BY <1>1, <1>4
    <2> HIDE DEF x
    <2>4. /\ workers' \in [Worker -> WorkerRec] /\ workers'[w] = x
          /\ \A v \in Worker \ {w} : workers'[v] = workers[v]
          /\ DeadIsDead' /\ StoppedWorkerGone' /\ ClaimInv'
      BY <1>1, <1>2, <2>2, <2>3, WorkerGoesOn
    <2>5. TypeOK'
      BY <1>2, <1>4, <2>4 DEF IndexInv, TypeOK, WorkerRec, lockVars, ledger, bounds
    <2>6. QueueCounted'
      BY <1>2, <1>4 DEF IndexInv, QueueCounted
    <2>7. NothingLost'
      <3>1. \A v \in Worker : workers[v].pc = "embed" =>
             workers'[v].pc = "embed" /\ workers'[v].task = workers[v].task
        BY <1>1, <2>4
      <3> QED
        BY <1>2, <1>4, <3>1 DEF IndexInv, NothingLost, ledger
    <2>8. WakeInv'
      BY <1>4 DEF WakeInv
    <2> QED
      BY <2>4, <2>5, <2>6, <2>7, <2>8 DEF IndexInv
  <1> QED
    BY <1>3, <1>4 DEF WaitPop

LEMMA WakeStep == ASSUME IndexInv, NEW w \in Worker, Wake(w) PROVE IndexInv'
  <1>1. /\ workers \in [Worker -> WorkerRec] /\ notify \in 0..1
        /\ workers[w].pc = "select" /\ workers[w] \in WorkerRec
    BY Types DEF IndexInv, Wake
  <1>2. UNCHANGED <<queue, totalPushed, workerCancel, stored, lockVars, index, poll, ledger, bounds>>
    BY DEF Wake
  <1>3. QueueCounted'
    BY <1>2 DEF IndexInv, QueueCounted
  <1>4. CASE notify > 0 /\ notify' = notify - 1 /\ workers' = [workers EXCEPT ![w].pc = "pop"]
             /\ UNCHANGED th
    <2> DEFINE x == [workers[w] EXCEPT !.pc = "pop"]
    <2>1. x \in WorkerRec /\ x.pc = "pop" /\ x.cancelled = workers[w].cancelled
      BY <1>1 DEF WorkerRec, WorkerPc
    <2>2. workers' = [workers EXCEPT ![w] = x]
      BY <1>1, <1>4
    <2> HIDE DEF x
    <2>3. /\ workers' \in [Worker -> WorkerRec] /\ workers'[w] = x
          /\ \A v \in Worker \ {w} : workers'[v] = workers[v]
          /\ DeadIsDead' /\ StoppedWorkerGone' /\ ClaimInv'
      BY <1>1, <1>2, <1>4, <2>1, <2>2, WorkerGoesOn
    <2>4. TypeOK'
      BY <1>1, <1>2, <1>4, <2>3 DEF IndexInv, TypeOK, WorkerRec, lockVars, ledger, bounds
    <2>5. NothingLost'
      <3>1. \A v \in Worker : workers[v].pc = "embed" =>
             workers'[v].pc = "embed" /\ workers'[v].task = workers[v].task
        BY <1>1, <2>3
      <3> QED
        BY <1>2, <3>1 DEF IndexInv, NothingLost, ledger
    <2>6. WakeInv'
      BY <2>1, <2>3 DEF WakeInv, Looking
    <2> QED
      BY <1>3, <2>3, <2>4, <2>5, <2>6 DEF IndexInv
  <1>5. CASE workers[w].cancelled /\ Exit(w) /\ UNCHANGED notify
    <2>1. /\ workers' \in [Worker -> WorkerRec] /\ workers'[w].pc = "dead"
          /\ \A v \in Worker \ {w} : workers'[v] = workers[v]
          /\ th' \in [Handler -> ThreadRec]
          /\ DeadIsDead' /\ StoppedWorkerGone' /\ ClaimInv'
      BY <1>1, <1>2, <1>5, WorkerReturns
    <2>2. TypeOK'
      BY <1>2, <1>5, <2>1 DEF IndexInv, TypeOK, WorkerRec, ThreadRec, lockVars, ledger, bounds
    <2>3. NothingLost'
      <3>1. \A v \in Worker : workers[v].pc = "embed" =>
             workers'[v].pc = "embed" /\ workers'[v].task = workers[v].task
        BY <1>1, <2>1
      <3> QED
        BY <1>2, <3>1 DEF IndexInv, NothingLost, ledger
    <2>4. WakeInv'
      <3>1. Sleeping' => Sleeping
        BY <2>1 DEF Sleeping
      <3>2. Looking => Looking'
        BY <1>1, <1>2, <2>1 DEF Looking
      <3> QED
        BY <1>2, <1>5, <3>1, <3>2 DEF IndexInv, WakeInv, ledger
    <2> QED
      BY <1>3, <2>1, <2>2, <2>3, <2>4 DEF IndexInv
  <1> QED
    BY <1>4, <1>5 DEF Wake

LEMMA EmbedAndStoreStep == ASSUME IndexInv, NEW w \in Worker, EmbedAndStore(w) PROVE IndexInv'
  <1>1. /\ workers \in [Worker -> WorkerRec] /\ Extra \in Task
        /\ workers[w].pc = "embed" /\ workers[w] \in WorkerRec /\ workers[w].task \in Task
    BY Types, Numbers DEF IndexInv, EmbedAndStore, WorkerRec
  <1>2. UNCHANGED <<qmVars, workerCancel, lockVars, index, poll, th, abandoned, calls>>
    BY DEF EmbedAndStore
  <1>3. PICK pc \in {"pop", "panic"} : workers' = [workers EXCEPT ![w].pc = pc, ![w].task = Extra]
    BY DEF EmbedAndStore
  <1> DEFINE x == [workers[w] EXCEPT !.pc = pc, !.task = Extra]
  <1>4. x \in WorkerRec /\ x.pc = pc /\ x.cancelled = workers[w].cancelled
    BY <1>1, <1>3 DEF WorkerRec, WorkerPc
  <1>5. workers' = [workers EXCEPT ![w] = x]
    BY <1>1, <1>3
  <1> HIDE DEF x
  <1>6. /\ workers' \in [Worker -> WorkerRec] /\ workers'[w] = x
        /\ \A v \in Worker \ {w} : workers'[v] = workers[v]
        /\ DeadIsDead' /\ StoppedWorkerGone' /\ ClaimInv'
    BY <1>1, <1>2, <1>3, <1>4, <1>5, WorkerGoesOn
  <1>7. \/ stored' = stored \cup {workers[w].task} /\ owed' = owed
        \/ stored' = stored /\ owed' = owed \ {workers[w].task}
    BY DEF EmbedAndStore
  <1>8. panics' \in 0..MaxPanics
    BY Types, NumberAssumption DEF IndexInv, EmbedAndStore
  <1>9. TypeOK'
    <2>1. stored' \subseteq Task /\ owed' \subseteq Task
      BY <1>1, <1>7, Types DEF IndexInv
    <2> QED
      BY <1>2, <1>6, <1>8, <2>1 DEF IndexInv, TypeOK, WorkerRec, qmVars, lockVars
  <1>10. QueueCounted'
    BY <1>2 DEF IndexInv, QueueCounted, qmVars
  <1>11. NothingLost'
    <2> DEFINE Old == {workers[v].task : v \in {u \in Worker : workers[u].pc = "embed"}}
               New == {workers'[v].task : v \in {u \in Worker : workers'[u].pc = "embed"}}
    <2>1. Old \subseteq New \cup {workers[w].task}
      BY <1>1, <1>6
    <2>2. owed \subseteq stored \cup ToSet(queue) \cup Old
      BY DEF IndexInv, NothingLost
    <2> HIDE DEF Old, New
    <2>3. owed' \subseteq stored' \cup ToSet(queue') \cup New
      BY <1>2, <1>7, <2>1, <2>2 DEF qmVars
    <2> QED
      BY <2>3 DEF NothingLost, New
  <1>12. WakeInv'
    BY <1>3, <1>4, <1>6 DEF WakeInv, Looking
  <1> QED
    BY <1>6, <1>9, <1>10, <1>11, <1>12 DEF IndexInv

LEMMA RecoverStep == ASSUME IndexInv, NEW w \in Worker, Recover(w) PROVE IndexInv'
  <1>1. /\ workers \in [Worker -> WorkerRec]
        /\ workers[w].pc = "panic" /\ workers[w] \in WorkerRec
    BY Types DEF IndexInv, Recover
  <1>2. UNCHANGED <<qmVars, workerCancel, stored, lockVars, index, poll, owed, bounds>>
    BY DEF Recover
  <1>3. QueueCounted'
    BY <1>2 DEF IndexInv, QueueCounted, qmVars
  <1>4. CASE workers[w].cancelled
    <2>0. Exit(w) /\ abandoned' = TRUE
      BY <1>4 DEF Recover
    <2>1. /\ workers' \in [Worker -> WorkerRec] /\ workers'[w].pc = "dead"
          /\ \A v \in Worker \ {w} : workers'[v] = workers[v]
          /\ th' \in [Handler -> ThreadRec]
          /\ DeadIsDead' /\ StoppedWorkerGone' /\ ClaimInv'
      BY <1>1, <1>2, <1>4, <2>0, WorkerReturns
    <2>2. TypeOK'
      BY <1>2, <2>0, <2>1 DEF IndexInv, TypeOK, WorkerRec, ThreadRec, qmVars, lockVars, bounds
    <2>3. NothingLost'
      <3>1. \A v \in Worker : workers[v].pc = "embed" =>
             workers'[v].pc = "embed" /\ workers'[v].task = workers[v].task
        BY <1>1, <2>1
      <3> QED
        BY <1>2, <3>1 DEF IndexInv, NothingLost, qmVars
    <2>4. WakeInv'
      BY <2>0 DEF WakeInv
    <2> QED
      BY <1>3, <2>1, <2>2, <2>3, <2>4 DEF IndexInv
  <1>5. CASE ~workers[w].cancelled
    <2> DEFINE x == [workers[w] EXCEPT !.pc = "clear"]
    <2>1. x \in WorkerRec /\ x.pc = "clear" /\ x.cancelled = workers[w].cancelled
      BY <1>1 DEF WorkerRec, WorkerPc
    <2>2. workers' = [workers EXCEPT ![w] = x] /\ UNCHANGED <<th, abandoned>>
      BY <1>1, <1>5 DEF Recover
    <2> HIDE DEF x
    <2>3. /\ workers' \in [Worker -> WorkerRec] /\ workers'[w] = x
          /\ \A v \in Worker \ {w} : workers'[v] = workers[v]
          /\ DeadIsDead' /\ StoppedWorkerGone' /\ ClaimInv'
      BY <1>1, <1>2, <2>1, <2>2, WorkerGoesOn
    <2>4. TypeOK'
      BY <1>2, <2>2, <2>3 DEF IndexInv, TypeOK, WorkerRec, qmVars, lockVars, bounds
    <2>5. NothingLost'
      <3>1. \A v \in Worker : workers[v].pc = "embed" =>
             workers'[v].pc = "embed" /\ workers'[v].task = workers[v].task
        BY <1>1, <2>3
      <3> QED
        BY <1>2, <3>1 DEF IndexInv, NothingLost, qmVars
    <2>6. WakeInv'
      BY <2>1, <2>3 DEF WakeInv, Looking
    <2> QED
      BY <1>3, <2>3, <2>4, <2>5, <2>6 DEF IndexInv
  <1> QED
    BY <1>4, <1>5

LEMMA ClearStateStep == ASSUME IndexInv, NEW w \in Worker, ClearState(w) PROVE IndexInv'
  <1> DEFINE x == [workers[w] EXCEPT !.pc = "restart"]
  <1>1. /\ workers \in [Worker -> WorkerRec] /\ th \in [Handler -> ThreadRec] /\ None \notin Worker
        /\ workers[w].pc = "clear" /\ workers[w] \in WorkerRec
    BY Types, Numbers DEF IndexInv, ClearState
  <1>2. UNCHANGED <<qmVars, stored, lockVars, index, poll, th, ledger, bounds>> /\ workerCancel' = None
    BY DEF ClearState
  <1>3. x \in WorkerRec /\ x.pc = "restart"
    BY <1>1 DEF WorkerRec, WorkerPc
  <1>4. workers' = [workers EXCEPT ![w] = x]
    BY <1>1 DEF ClearState
  <1> HIDE DEF x
  <1>5. /\ workers' \in [Worker -> WorkerRec] /\ workers'[w] = x
        /\ \A v \in Worker \ {w} : workers'[v] = workers[v]
    BY <1>1, <1>3, <1>4
  <1>6. TypeOK'
    BY <1>2, <1>5 DEF IndexInv, TypeOK, WorkerRec, qmVars, lockVars, ledger, bounds
  <1>7. DeadIsDead'
    BY <1>3, <1>5 DEF IndexInv, DeadIsDead
  <1>8. QueueCounted'
    BY <1>2 DEF IndexInv, QueueCounted, qmVars
  <1>9. NothingLost'
    <2>1. \A v \in Worker : workers[v].pc = "embed" =>
           workers'[v].pc = "embed" /\ workers'[v].task = workers[v].task
      BY <1>1, <1>5
    <2> QED
      BY <1>2, <2>1 DEF IndexInv, NothingLost, qmVars, ledger
  <1>10. StoppedWorkerGone'
    <2>1. \A h \in Handler : th[h].target # None => th[h].target \in Worker
      BY <1>1 DEF ThreadRec
    <2> QED
      BY <1>1, <1>2, <1>5, <2>1 DEF IndexInv, StoppedWorkerGone
  <1>11. ClaimInv'
    BY <1>1, <1>2 DEF IndexInv, ClaimInv
  <1>12. WakeInv'
    BY <1>2, <1>3, <1>5 DEF WakeInv, Looking
  <1> QED
    BY <1>6, <1>7, <1>8, <1>9, <1>10, <1>11, <1>12 DEF IndexInv

LEMMA RestartStep == ASSUME IndexInv, NEW w \in Worker, Restart(w) PROVE IndexInv'
  <1> DEFINE ws == [workers EXCEPT ![w] = Dead]
  <1>1. /\ workers \in [Worker -> WorkerRec] /\ th \in [Handler -> ThreadRec] /\ None \notin Worker
        /\ workers[w].pc = "restart" /\ workerCancel # w /\ TypeOK
        /\ StartWorker(ws)
    BY Types, Numbers DEF IndexInv, Restart, ClaimInv
  <1>2. UNCHANGED <<qmVars, stored, lockVars, index, poll, ledger, bounds>>
        /\ th' = IF workerCancel = None THEN th ELSE Released(w)
    BY DEF Restart
  <1>3. /\ ws \in [Worker -> WorkerRec] /\ ws[w] = Dead
        /\ \A v \in Worker \ {w} : ws[v] = workers[v]
    BY <1>1, WorkerRecs
  <1>4. QueueCounted'
    BY <1>2 DEF IndexInv, QueueCounted, qmVars
  <1>5. CASE workerCancel # None /\ workers' = ws /\ workerCancel' = workerCancel
    <2>1. Exit(w)
      BY <1>2, <1>5 DEF Exit
    <2>2. /\ workers' \in [Worker -> WorkerRec] /\ workers'[w].pc = "dead"
          /\ \A v \in Worker \ {w} : workers'[v] = workers[v]
          /\ th' \in [Handler -> ThreadRec]
          /\ DeadIsDead' /\ StoppedWorkerGone' /\ ClaimInv'
      BY <1>1, <1>5, <2>1, WorkerReturns
    <2>3. TypeOK'
      BY <1>2, <1>5, <2>2 DEF IndexInv, TypeOK, WorkerRec, ThreadRec, qmVars, lockVars, ledger, bounds
    <2>4. NothingLost'
      <3>1. \A v \in Worker : workers[v].pc = "embed" =>
             workers'[v].pc = "embed" /\ workers'[v].task = workers[v].task
        BY <1>1, <2>2
      <3> QED
        BY <1>2, <3>1 DEF IndexInv, NothingLost, qmVars, ledger
    <2>5. WakeInv'
      <3>1. Sleeping' => Sleeping
        BY <2>2 DEF Sleeping
      <3>2. Looking => Looking'
        BY <1>1, <1>5, <2>2 DEF Looking
      <3> QED
        BY <1>2, <3>1, <3>2 DEF IndexInv, WakeInv, qmVars, ledger
    <2> QED
      BY <1>4, <2>2, <2>3, <2>4, <2>5 DEF IndexInv
  <1>6. ASSUME NEW v \in Worker, workerCancel = None, workerCancel' = v,
               workers[v].pc = "dead", \A h \in Handler : th[h].target # v,
               workers' = [ws EXCEPT ![v] = Fresh]
        PROVE  IndexInv'
    <2>1. /\ v # w /\ workers' \in [Worker -> WorkerRec]
          /\ workers'[v] = Fresh /\ workers'[w] = Dead
          /\ \A u \in Worker \ {v, w} : workers'[u] = workers[u]
      BY <1>1, <1>3, <1>6, WorkerRecs
    <2>2. th' = th
      BY <1>2, <1>6
    <2>3. Dead.pc = "dead" /\ Fresh.pc = "pop" /\ ~Fresh.cancelled
      BY WorkerRecs
    <2>4. TypeOK'
      BY <1>2, <1>6, <2>1, <2>2 DEF IndexInv, TypeOK, WorkerRec, qmVars, lockVars, ledger, bounds
    <2>5. DeadIsDead'
      BY <2>1, <2>3 DEF IndexInv, DeadIsDead, Dead
    <2>6. NothingLost'
      <3>1. \A u \in Worker : workers[u].pc = "embed" =>
             workers'[u].pc = "embed" /\ workers'[u].task = workers[u].task
        BY <1>1, <1>6, <2>1
      <3> QED
        BY <1>2, <3>1 DEF IndexInv, NothingLost, qmVars, ledger
    <2>7. StoppedWorkerGone'
      <3>1. \A h \in Handler : th[h].target # None => th[h].target \in Worker \ {v}
        BY <1>1, <1>6 DEF ThreadRec
      <3> QED
        BY <2>1, <2>2, <2>3, <3>1 DEF IndexInv, StoppedWorkerGone
    <2>8. ClaimInv'
      <3>1. ~Doomed(workerCancel)'
        BY <1>6, <2>1, <2>3 DEF Doomed
      <3>2. \A u \in Worker : workers'[u].pc = "restart" => workerCancel' # u
        BY <1>6, <2>1, <2>3
      <3> QED
        BY <2>2, <3>1, <3>2 DEF IndexInv, ClaimInv
    <2>9. WakeInv'
      BY <2>1, <2>3 DEF WakeInv, Looking
    <2> QED
      BY <1>4, <2>4, <2>5, <2>6, <2>7, <2>8, <2>9 DEF IndexInv
  <1> HIDE DEF ws
  <1> QED
    BY <1>1, <1>5, <1>6, StartWorkerDoes

-----------------------------------------------------------------------------
(* The commands.  A step of one of them moves its own record; the claims hold *)
(* as long as nobody who is stopping a worker forgets to drop its claim.       *)

LEMMA ThreadMoves ==
  ASSUME IndexInv, NEW h \in Handler, NEW x \in ThreadRec, th' = [th EXCEPT ![h] = x]
  PROVE  th' \in [Handler -> ThreadRec] /\ th'[h] = x /\ \A g \in Handler \ {h} : th'[g] = th[g]
  BY Types DEF IndexInv

LEMMA ThreadKeeps ==
  ASSUME IndexInv, NEW h \in Handler, NEW x \in ThreadRec, th' = [th EXCEPT ![h] = x],
         UNCHANGED <<workers, workerCancel>>,
         th[h].pc \in {"cancelWorker", "wait", "clearCancel"} =>
           x.pc \in {"cancelWorker", "wait", "clearCancel"},
         x.pc = "cancelWorker" => x.target # None,
         x.pc \in {"clearCancel", "clear"} /\ x.target # None => workers[x.target].pc = "dead"
  PROVE  DeadIsDead' /\ StoppedWorkerGone' /\ ClaimInv'
  <1>1. th'[h] = x /\ \A g \in Handler \ {h} : th'[g] = th[g]
    BY ThreadMoves
  <1>2. DeadIsDead'
    BY DEF IndexInv, DeadIsDead
  <1>3. StoppedWorkerGone'
    BY <1>1 DEF IndexInv, StoppedWorkerGone
  <1>4. ClaimInv'
    <2>1. Stopping => Stopping'
      BY <1>1 DEF Stopping
    <2>2. \A g \in Handler : th'[g].pc = "cancelWorker" => th'[g].target # None
      BY <1>1 DEF IndexInv, ClaimInv
    <2> QED
      BY <2>1, <2>2 DEF IndexInv, ClaimInv, Doomed
  <1> QED
    BY <1>2, <1>3, <1>4

LEMMA ThreadRecs ==
  ASSUME IndexInv, NEW h \in Handler
  PROVE  /\ th[h] \in ThreadRec /\ Free \in ThreadRec /\ Free.pc = "idle"
         /\ \A pc \in ThreadPc :
              /\ [th[h] EXCEPT !.pc = pc] \in ThreadRec
              /\ [th[h] EXCEPT !.pc = pc].pc = pc
              /\ [th[h] EXCEPT !.pc = pc].target = th[h].target
              /\ [th EXCEPT ![h].pc = pc] = [th EXCEPT ![h] = [th[h] EXCEPT !.pc = pc]]
  <1>1. th \in [Handler -> ThreadRec]
    BY Types DEF IndexInv
  <1>2. Free \in ThreadRec /\ Free.pc = "idle"
    BY DEF Free, ThreadRec, ThreadPc, Command, Round
  <1> QED
    BY <1>1, <1>2 DEF ThreadRec

LEMMA BeginStep == ASSUME IndexInv, NEW h \in Handler, Begin(h) PROVE IndexInv'
  <1>1. PICK cmd \in Command : th' = [th EXCEPT ![h] = [Free EXCEPT !.pc = "cancelRun", !.cmd = cmd]]
    BY DEF Begin
  <1> DEFINE x == [Free EXCEPT !.pc = "cancelRun", !.cmd = cmd]
  <1>2. x \in ThreadRec /\ x.pc = "cancelRun"
    BY DEF Free, ThreadRec, ThreadPc, Round
  <1>3. th' = [th EXCEPT ![h] = x] /\ th[h].pc = "idle"
    BY <1>1 DEF Begin
  <1> HIDE DEF x
  <1>4. UNCHANGED <<qmVars, workerVars, lockVars, index, poll, ledger, panics>>
    BY DEF Begin
  <1>5. th' \in [Handler -> ThreadRec]
    BY <1>2, <1>3, ThreadMoves
  <1>6. DeadIsDead' /\ StoppedWorkerGone' /\ ClaimInv'
    BY <1>2, <1>3, <1>4, ThreadKeeps DEF workerVars
  <1>7. calls' \in 0..MaxCalls
    BY Types, NumberAssumption DEF IndexInv, Begin
  <1>8. TypeOK'
    BY <1>4, <1>5, <1>7 DEF IndexInv, TypeOK, ThreadRec, qmVars, workerVars, lockVars, ledger
  <1>9. QueueCounted'
    BY <1>4 DEF IndexInv, QueueCounted, qmVars
  <1>10. NothingLost'
    BY <1>4 DEF IndexInv, NothingLost, qmVars, workerVars, ledger
  <1>11. WakeInv'
    BY <1>4 DEF IndexInv, WakeInv, Sleeping, Looking, qmVars, workerVars, ledger
  <1> QED
    BY <1>6, <1>8, <1>9, <1>10, <1>11 DEF IndexInv

LEMMA CancelRunStep == ASSUME IndexInv, NEW h \in Handler, CancelRun(h) PROVE IndexInv'
  <1> DEFINE x == [th[h] EXCEPT !.pc = "stop"]
  <1>1. x \in ThreadRec /\ x.pc = "stop" /\ th' = [th EXCEPT ![h] = x] /\ th[h].pc = "cancelRun"
    BY ThreadRecs DEF CancelRun, ThreadPc
  <1> HIDE DEF x
  <1>2. UNCHANGED <<qmVars, workerVars, indexing, poll, ledger, bounds>> /\ indexCancel' = None
    BY DEF CancelRun
  <1>3. /\ index' \in [Run -> IndexRec]
        /\ \A r \in Run : index'[r].pc = index[r].pc
    <2>1. index \in [Run -> IndexRec] /\ indexCancel \in Run \cup {None}
      BY Types DEF IndexInv
    <2>2. \A r \in Run : /\ [index[r] EXCEPT !.cancelled = TRUE] \in IndexRec
                         /\ [index[r] EXCEPT !.cancelled = TRUE].pc = index[r].pc
      BY <2>1 DEF IndexRec
    <2> QED
      BY <2>1, <2>2 DEF CancelRun
  <1>4. th' \in [Handler -> ThreadRec]
    BY <1>1, ThreadMoves
  <1>5. DeadIsDead' /\ StoppedWorkerGone' /\ ClaimInv'
    BY <1>1, <1>2, ThreadKeeps DEF workerVars
  <1>6. TypeOK'
    BY <1>2, <1>3, <1>4 DEF IndexInv, TypeOK, ThreadRec, IndexRec, qmVars, workerVars, ledger, bounds
  <1>7. QueueCounted'
    BY <1>2 DEF IndexInv, QueueCounted, qmVars
  <1>8. NothingLost'
    BY <1>2 DEF IndexInv, NothingLost, qmVars, workerVars, ledger
  <1>9. WakeInv'
    BY <1>2, <1>3 DEF IndexInv, WakeInv, Sleeping, Looking, qmVars, workerVars, ledger
  <1> QED
    BY <1>5, <1>6, <1>7, <1>8, <1>9 DEF IndexInv

LEMMA StopReadStep == ASSUME IndexInv, NEW h \in Handler, StopRead(h) PROVE IndexInv'
  <1> DEFINE x == [th[h] EXCEPT !.target = workerCancel,
                                !.pc = IF workerCancel = None THEN "clear" ELSE "cancelWorker"]
  <1>1. /\ x \in ThreadRec /\ x.target = workerCancel
        /\ x.pc = (IF workerCancel = None THEN "clear" ELSE "cancelWorker")
    BY ThreadRecs, Types DEF IndexInv, ThreadRec, ThreadPc
  <1>2. th' = [th EXCEPT ![h] = x] /\ th[h].pc = "stop"
    BY Types DEF StopRead, IndexInv
  <1> HIDE DEF x
  <1>3. UNCHANGED <<qmVars, workerVars, lockVars, index, poll, ledger, bounds>>
    BY DEF StopRead
  <1>4. th' \in [Handler -> ThreadRec]
    BY <1>1, <1>2, ThreadMoves
  <1>5. DeadIsDead' /\ StoppedWorkerGone' /\ ClaimInv'
    BY <1>1, <1>2, <1>3, ThreadKeeps DEF workerVars
  <1>6. TypeOK'
    BY <1>3, <1>4 DEF IndexInv, TypeOK, ThreadRec, qmVars, workerVars, lockVars, ledger, bounds
  <1>7. QueueCounted'
    BY <1>3 DEF IndexInv, QueueCounted, qmVars
  <1>8. NothingLost'
    BY <1>3 DEF IndexInv, NothingLost, qmVars, workerVars, ledger
  <1>9. WakeInv'
    BY <1>3 DEF IndexInv, WakeInv, Sleeping, Looking, qmVars, workerVars, ledger
  <1> QED
    BY <1>5, <1>6, <1>7, <1>8, <1>9 DEF IndexInv

LEMMA StopCancelStep == ASSUME IndexInv, NEW h \in Handler, StopCancel(h) PROVE IndexInv'
  <1> DEFINE w == th[h].target
             x == [th[h] EXCEPT !.pc = IF \A v \in Worker : workers[v].pc = "dead"
                                       THEN "clearCancel" ELSE "wait"]
  <1>1. workers \in [Worker -> WorkerRec] /\ th \in [Handler -> ThreadRec] /\ w \in Worker
    BY Types DEF IndexInv, ClaimInv, StopCancel, ThreadRec
  <1>2. /\ x \in ThreadRec /\ x.target = w /\ x.pc \in {"clearCancel", "wait"}
        /\ x.pc = "clearCancel" => \A v \in Worker : workers[v].pc = "dead"
    BY <1>1, ThreadRecs DEF ThreadPc
  <1>3. th' = [th EXCEPT ![h] = x] /\ th[h].pc = "cancelWorker"
    BY <1>1 DEF StopCancel
  <1>4. UNCHANGED <<qmVars, workerCancel, stored, lockVars, index, poll, ledger, bounds>>
    BY DEF StopCancel
  <1>5. th' \in [Handler -> ThreadRec] /\ th'[h] = x /\ \A g \in Handler \ {h} : th'[g] = th[g]
    BY <1>2, <1>3, ThreadMoves
  <1>6. workers' = IF workers[w] = Dead THEN workers ELSE [workers EXCEPT ![w].cancelled = TRUE]
    BY DEF StopCancel, Cancel
  <1> HIDE DEF w, x
  <1>7. /\ workers' \in [Worker -> WorkerRec]
        /\ \A v \in Worker : workers'[v].pc = workers[v].pc /\ workers'[v].task = workers[v].task
        /\ \A v \in Worker : workers[v].cancelled => workers'[v].cancelled
        /\ workers'[w] = Dead \/ workers[w] # Dead
        /\ \A v \in Worker \ {w} : workers'[v] = workers[v]
        /\ workers[w] = Dead => workers' = workers
    <2>1. CASE workers[w] = Dead
      BY <1>1, <1>6, <2>1
    <2>2. CASE workers[w] # Dead
      <3>1. workers' = [workers EXCEPT ![w].cancelled = TRUE]
        BY <1>6, <2>2
      <3> QED
        BY <1>1, <2>2, <3>1 DEF WorkerRec
    <2> QED
      BY <2>1, <2>2
  <1>8. TypeOK'
    BY <1>4, <1>5, <1>7 DEF IndexInv, TypeOK, ThreadRec, WorkerRec, qmVars, lockVars, ledger, bounds
  <1>9. DeadIsDead'
    <2>1. \A v \in Worker : workers[v].pc = "dead" => workers'[v] = workers[v]
      BY <1>7 DEF IndexInv, DeadIsDead
    <2> QED
      BY <1>7, <2>1 DEF IndexInv, DeadIsDead
  <1>10. QueueCounted'
    BY <1>4 DEF IndexInv, QueueCounted, qmVars
  <1>11. NothingLost'
    <2>1. \A v \in Worker : workers[v].pc = "embed" =>
           workers'[v].pc = "embed" /\ workers'[v].task = workers[v].task
      BY <1>7
    <2> QED
      BY <1>4, <2>1 DEF IndexInv, NothingLost, qmVars, ledger
  <1>12. StoppedWorkerGone'
    <2> SUFFICES ASSUME NEW g \in Handler, th'[g].pc \in {"clearCancel", "clear"},
                        th'[g].target # None
                 PROVE  workers'[th'[g].target].pc = "dead"
      BY DEF StoppedWorkerGone
    <2>1. CASE g = h
      BY <1>1, <1>2, <1>5, <1>7, <2>1
    <2>2. CASE g # h
      <3>1. th'[g] = th[g] /\ th[g].target \in Worker
        BY <1>1, <1>5, <2>2 DEF ThreadRec
      <3> QED
        BY <1>7, <3>1 DEF IndexInv, StoppedWorkerGone
    <2> QED
      BY <2>1, <2>2
  <1>13. ClaimInv'
    <2>1. Stopping'
      BY <1>2, <1>5 DEF Stopping
    <2>2. \A v \in Worker : workers'[v].pc = "restart" => workerCancel' # v
      BY <1>4, <1>7 DEF IndexInv, ClaimInv
    <2>3. \A g \in Handler : th'[g].pc = "cancelWorker" => th'[g].target # None
      BY <1>2, <1>5 DEF IndexInv, ClaimInv
    <2> QED
      BY <2>1, <2>2, <2>3 DEF ClaimInv
  <1>14. WakeInv'
    <2>1. Sleeping' => Sleeping
      BY <1>7 DEF Sleeping
    <2>2. Looking => Looking'
      BY <1>4, <1>7 DEF Looking
    <2> QED
      BY <1>4, <2>1, <2>2 DEF IndexInv, WakeInv, qmVars, ledger
  <1> QED
    BY <1>8, <1>9, <1>10, <1>11, <1>12, <1>13, <1>14 DEF IndexInv

LEMMA StopDoneStep == ASSUME IndexInv, NEW h \in Handler, StopDone(h) PROVE IndexInv'
  <1> DEFINE x == [th[h] EXCEPT !.pc = "clear"]
  <1>1. /\ x \in ThreadRec /\ x.pc = "clear" /\ x.target = th[h].target
        /\ th' = [th EXCEPT ![h] = x] /\ th[h].pc = "clearCancel"
    BY ThreadRecs DEF StopDone, ThreadPc
  <1> HIDE DEF x
  <1>2. UNCHANGED <<qmVars, workers, stored, lockVars, index, poll, ledger, bounds>> /\ workerCancel' = None
    BY DEF StopDone
  <1>3. th' \in [Handler -> ThreadRec] /\ th'[h] = x /\ \A g \in Handler \ {h} : th'[g] = th[g]
    BY <1>1, ThreadMoves
  <1>4. TypeOK'
    BY <1>2, <1>3 DEF IndexInv, TypeOK, ThreadRec, qmVars, lockVars, ledger, bounds
  <1>5. DeadIsDead'
    BY <1>2 DEF IndexInv, DeadIsDead
  <1>6. QueueCounted'
    BY <1>2 DEF IndexInv, QueueCounted, qmVars
  <1>7. NothingLost'
    BY <1>2 DEF IndexInv, NothingLost, qmVars, ledger
  <1>8. StoppedWorkerGone'
    BY <1>1, <1>2, <1>3 DEF IndexInv, StoppedWorkerGone
  <1>9. ClaimInv'
    <2>1. \A w \in Worker : workerCancel' # w
      BY <1>2, Numbers
    <2>2. \A g \in Handler : th'[g].pc = "cancelWorker" => th'[g].target # None
      BY <1>1, <1>3 DEF IndexInv, ClaimInv
    <2> QED
      BY <1>2, <2>1, <2>2 DEF ClaimInv
  <1>10. WakeInv'
    BY <1>2 DEF IndexInv, WakeInv, Sleeping, Looking, qmVars, ledger
  <1> QED
    BY <1>4, <1>5, <1>6, <1>7, <1>8, <1>9, <1>10 DEF IndexInv

LEMMA ClearQueueStep == ASSUME IndexInv, NEW h \in Handler, ClearQueue(h) PROVE IndexInv'
  <1>1. /\ th[h].pc = "clear" /\ th \in [Handler -> ThreadRec] /\ th[h] \in ThreadRec
        /\ queue' = <<>> /\ totalPushed' = 0 /\ Writable
        /\ UNCHANGED <<notify, workerCancel, workers, lockVars, index, poll, abandoned, bounds>>
    BY Types DEF ClearQueue, Clear, IndexInv
  <1>2. PICK x \in ThreadRec : /\ th' = [th EXCEPT ![h] = x]
                               /\ x.pc \in {"idle", "stop", "start"}
    <2>1. CASE th' = [th EXCEPT ![h] = Free]
      BY <2>1, ThreadRecs
    <2>2. CASE th' = [th EXCEPT ![h].pc = "stop", ![h].round = "second", ![h].target = None]
      <3> DEFINE x == [th[h] EXCEPT !.pc = "stop", !.round = "second", !.target = None]
      <3>1. x \in ThreadRec /\ x.pc = "stop"
        BY <1>1 DEF ThreadRec, ThreadPc, Round
      <3>2. th' = [th EXCEPT ![h] = x]
        BY <1>1, <2>2
      <3> QED
        BY <3>1, <3>2
    <2>3. CASE th' = [th EXCEPT ![h].pc = "start", ![h].target = None]
      <3> DEFINE x == [th[h] EXCEPT !.pc = "start", !.target = None]
      <3>1. x \in ThreadRec /\ x.pc = "start"
        BY <1>1 DEF ThreadRec, ThreadPc
      <3>2. th' = [th EXCEPT ![h] = x]
        BY <1>1, <2>3
      <3> QED
        BY <3>1, <3>2
    <2> QED
      BY <2>1, <2>2, <2>3 DEF ClearQueue
  <1>3. \/ owed' = owed \ ToSet(queue) /\ stored' = stored
        \/ owed' = {} /\ stored' = {}
    BY DEF ClearQueue
  <1>4. th' \in [Handler -> ThreadRec]
    BY <1>2, ThreadMoves
  <1>5. DeadIsDead' /\ StoppedWorkerGone' /\ ClaimInv'
    BY <1>1, <1>2, ThreadKeeps
  <1>6. TypeOK'
    <2>1. owed' \subseteq Task /\ stored' \subseteq Task
      BY <1>3, Types DEF IndexInv
    <2>2. queue' \in Seq(Task) /\ totalPushed' \in Nat
      BY <1>1, EmptySeq
    <2> QED
      BY <1>1, <1>4, <2>1, <2>2 DEF IndexInv, TypeOK, ThreadRec, lockVars, bounds
  <1>7. QueueCounted'
    <2>1. Len(queue') = 0
      BY <1>1
    <2>2. \A r \in Run : poll'[r].pc # "total"
      BY <1>1 DEF Writable
    <2> QED
      BY <1>1, <2>1, <2>2 DEF QueueCounted
  <1>8. NothingLost'
    <2> DEFINE Embedded == {workers[w].task : w \in {v \in Worker : workers[v].pc = "embed"}}
    <2>1. owed \subseteq stored \cup ToSet(queue) \cup Embedded
      BY DEF IndexInv, NothingLost
    <2> HIDE DEF Embedded
    <2>2. owed' \subseteq stored' \cup Embedded
      BY <1>3, <2>1
    <2> QED
      BY <1>1, <2>2 DEF NothingLost, Embedded
  <1>9. WakeInv'
    BY <1>1 DEF WakeInv
  <1> QED
    BY <1>5, <1>6, <1>7, <1>8, <1>9 DEF IndexInv

LEMMA CleanDoneStep == ASSUME IndexInv, NEW h \in Handler, CleanDone(h) PROVE IndexInv'
  <1>1. /\ th[h].pc = "start" /\ StartWorker(workers) /\ th' = [th EXCEPT ![h] = Free]
        /\ UNCHANGED <<qmVars, stored, lockVars, index, poll, ledger, bounds>>
    BY DEF CleanDone
  <1>2. th' \in [Handler -> ThreadRec] /\ th'[h] = Free /\ \A g \in Handler \ {h} : th'[g] = th[g]
    BY <1>1, ThreadRecs, ThreadMoves
  <1>3. Free.pc = "idle"
    BY DEF Free
  <1>4. workers' \in [Worker -> WorkerRec] /\ workerCancel' \in Worker \cup {None}
    BY <1>1, StartTypes, Types DEF IndexInv
  <1>5. TypeOK'
    BY <1>1, <1>2, <1>4 DEF IndexInv, TypeOK, ThreadRec, WorkerRec, qmVars, lockVars, ledger, bounds
  <1>6. \A g \in Handler : \/ th'[g] = th[g]
                           \/ /\ th[g].pc \notin {"cancelWorker", "wait", "clearCancel"}
                              /\ th'[g].pc \notin {"cancelWorker", "clearCancel", "clear"}
    BY <1>1, <1>2, <1>3
  <1> QED
    BY <1>1, <1>2, <1>5, <1>6, StartKeeps DEF qmVars

LEMMA NextIndex == IndexInv /\ [Next]_vars => IndexInv'
  <1> SUFFICES ASSUME IndexInv, [Next]_vars PROVE IndexInv'
    OBVIOUS
  <1>1. ASSUME NEW r \in Run, Register(r) \/ RunIndex(r) \/ Poll(r) PROVE IndexInv'
    BY <1>1, RegisterStep, LockStep, FileStep, AddToQueueStep, UnregisterStep, UnlockStep, PollSteps
    DEF RunIndex
  <1>2. ASSUME NEW w \in Worker, Work(w) PROVE IndexInv'
    BY <1>2, WaitPopStep, WakeStep, EmbedAndStoreStep, RecoverStep, ClearStateStep, RestartStep
    DEF Work
  <1>3. ASSUME NEW h \in Handler, Begin(h) \/ Continue(h) PROVE IndexInv'
    BY <1>3, BeginStep, CancelRunStep, StopReadStep, StopCancelStep, StopDoneStep, ClearQueueStep,
       CleanDoneStep DEF Continue
  <1>4. CASE UNCHANGED vars
    <2>1. TypeOK'
      BY <1>4 DEF IndexInv, TypeOK, vars, qmVars, workerVars, lockVars, ledger, bounds
    <2>2. \A r \in Run : index[r].pc = "notify" => index'[r].pc = "notify"
      BY <1>4 DEF vars
    <2>3. \A r \in Run : poll'[r].pc = "total" => poll'[r].len <= totalPushed
      BY <1>4 DEF vars, IndexInv, QueueCounted
    <2> QED
      BY <1>4, <2>1, <2>2, <2>3, ScanKeeps DEF vars
  <1> QED
    BY <1>1, <1>2, <1>3, <1>4 DEF Next

LEMMA IndexAlways == Spec => []IndexInv
  <1> QED
    BY InitIndex, NextIndex, PTL DEF Spec

-----------------------------------------------------------------------------
\* Every variable of the index keeps its type: calls, queues, records of runs, polls,
\* workers and commands (QueueManager, codebaseDB, RunIndex).
THEOREM IndexTypeCorrect == Spec => []TypeOK
  <1>1. IndexInv => TypeOK
    BY DEF IndexInv
  <1> QED
    BY <1>1, IndexAlways, PTL

\* The progress RunIndex broadcasts is between 0 and its total, whatever is pushed, popped
\* and cleared between its two reads: DirectoryStatus holds cdb.mu, which clearing needs.
THEOREM ProgressIsInRange == Spec => []ProgressInRange
  <1>1. IndexInv => ProgressInRange
    <2> SUFFICES ASSUME IndexInv, NEW r \in Run, poll[r].pc = "total"
                 PROVE  Processed(r) \in 0..Total(r)
      BY DEF ProgressInRange
    <2>1. /\ poll[r].len \in Nat /\ poll[r].init \in Nat /\ totalPushed \in Nat
          /\ poll[r].len <= totalPushed
      BY Types DEF IndexInv, QueueCounted, PollRec
    <2> QED
      BY <2>1 DEF Processed, Total
  <1> QED
    BY <1>1, IndexAlways, PTL

\* A task that was queued, and that nobody cleared and no error was reported for, is stored,
\* still queued or in the hands of a worker, across panics, restarts, cancels and cleans
\* (WaitPop, worker, stopWorker).
THEOREM NoTaskLost == Spec => []NothingLost
  <1>1. IndexInv => NothingLost
    BY DEF IndexInv
  <1> QED
    BY <1>1, IndexAlways, PTL

\* A stored cancel function is a living worker's or about to be dropped, so that startWorker
\* will not refuse for ever; and what stopWorker has waited for is gone.
THEOREM WorkersAsClaimed == Spec => []WorkerAsClaimed
  <1>1. IndexInv => WorkerAsClaimed
    <2> SUFFICES ASSUME IndexInv PROVE ClaimedWorkerLives
      BY DEF WorkerAsClaimed, IndexInv
    <2>1. workers[workerCancel] = Dead => Doomed(workerCancel)
      BY WorkerRecs DEF Doomed
    <2> QED
      BY <2>1 DEF IndexInv, ClaimInv, Stopping, ClaimedWorkerLives
  <1> QED
    BY <1>1, IndexAlways, PTL

\* Push notifies behind its lock and WaitPop sleeps behind it, and still no worker sleeps
\* beside a queue that is not empty without somebody on the way to wake it.
THEOREM NoWakeupLost == Spec => []NoLostWakeup
  <1>1. IndexInv => NoLostWakeup
    BY DEF IndexInv, WakeInv, Sleeping, Looking, NoLostWakeup
  <1> QED
    BY <1>1, IndexAlways, PTL
=============================================================================
