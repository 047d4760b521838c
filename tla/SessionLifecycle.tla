-------------------------- MODULE SessionLifecycle --------------------------
(***************************************************************************)
(* The session registry of the ACP server (server/actions/session.go and   *)
(* main.go): which chats are loaded, which connections are bound to them,  *)
(* the delayed release that a disconnect schedules, and the reference-     *)
(* counted database handles shared by every session and request of one     *)
(* working directory.                                                      *)
(*                                                                         *)
(* One atomic step is what the code does between two acquisitions of       *)
(* sessLock, dbLock, connCallLock/sessionConnLock or                       *)
(* bindedSessionOnConnMu.  Requests of one connection run concurrently (a  *)
(* goroutine per message), so a request is a thread, th[h], that walks     *)
(* through its steps; the timers that time.AfterFunc creates are processes *)
(* of their own, because Stop() does not reach one that has already fired. *)
(***************************************************************************)
EXTENDS Integers, FiniteSets

CONSTANTS
  Conn,         \* WebSocket or stdio connections; an id is never used again
  Handler,      \* request goroutines
  Timer,        \* time.AfterFunc objects, armed or running their function
  Dir,          \* working directories, in the spelling path.Clean returns
  Path,         \* the spellings of them that a request may carry
  Clean,        \* path.Clean: [Path -> Dir]
  Sid,          \* session ids sess_<id>:<cwd>
  CwdOf,        \* the <cwd> of a session id: [Sid -> Dir]
  Handle,       \* *gorm.DB connections
  MaxRequests,  \* bound on the requests of one behaviour
  None

ASSUME PathAssumption ==
  /\ Dir \subseteq Path
  /\ Clean \in [Path -> Dir]
  /\ \A d \in Dir : Clean[d] = d
  /\ CwdOf \in [Sid -> Dir]
ASSUME NoneAssumption ==
  None \notin Conn \cup Handler \cup Timer \cup Path \cup Sid \cup Handle
ASSUME FiniteAssumption ==
  IsFiniteSet(Handler) /\ IsFiniteSet(Sid) /\ Handler \cap Sid = {}
ASSUME BoundAssumption == MaxRequests \in Nat

VARIABLES
  sessions,             \* the ids in the registry: DOMAIN of the Go map
  sessDB,               \* obj.session.DB of a registered session
  releaseTimer,         \* obj.releaseTimer, None for nil
  background,           \* obj.background, and the loop is requesting, receiving
                        \* or running tools: the test releaseFunc makes
  chats,                \* rows of the chats tables
  created,              \* ids the chats tables have handed out
  dbs,                  \* dbs[d].db, None when the map has no entry
  referCnt,             \* dbs[d].referCnt
  fileOf,               \* the directory whose database an open handle is on,
                        \* None for a closed handle
  misspelt,             \* directories whose database was ever loaded under
                        \* another spelling than path.Clean's
  sessionConnMap,       \* session id -> connections bound to it
  connCallMap,          \* connections that have a call function
  bindedSessionOnConn,  \* connection -> the session ids of its list
  connLock,             \* holder of connCallLock and sessionConnLock
  closed,               \* connections whose read loop has ended
  timers,               \* the AfterFunc processes
  th,                   \* the request goroutines
  requests              \* requests begun so far

sessVars == <<sessions, sessDB, releaseTimer, background>>
chatVars == <<chats, created>>
dbVars   == <<dbs, referCnt, fileOf, misspelt>>
connVars == <<sessionConnMap, connCallMap, bindedSessionOnConn, connLock, closed>>
vars     == <<sessVars, chatVars, dbVars, connVars, timers, th, requests>>

Idle == [pc |-> "idle", conn |-> None, sid |-> None, path |-> None,
         db |-> None, delete |-> FALSE, close |-> FALSE, todo |-> {}]
IdleTimer == [pc |-> "idle", sid |-> None]

ThreadPc == {"idle", "bind", "register", "cancel", "unregister", "unbind",
             "schedule", "closeSession", "loadDB", "useDB", "closeDB"}
TimerPc == {"idle", "armed", "check", "release"}

Thread == [pc : ThreadPc, conn : Conn \cup {None}, sid : Sid \cup {None},
           path : Path \cup {None}, db : Handle \cup {None}, delete : BOOLEAN,
           close : BOOLEAN, todo : SUBSET Sid]
TimerState == [pc : TimerPc, sid : Sid \cup {None}]

SessionType ==
  /\ sessions \in SUBSET Sid
  /\ sessDB \in [Sid -> Handle \cup {None}]
  /\ releaseTimer \in [Sid -> Timer \cup {None}]
  /\ background \in [Sid -> BOOLEAN]

ChatType ==
  /\ chats \in SUBSET Sid
  /\ created \in SUBSET Sid

DBType ==
  /\ dbs \in [Dir -> Handle \cup {None}]
  /\ referCnt \in [Dir -> Nat]
  /\ fileOf \in [Handle -> Dir \cup {None}]
  /\ misspelt \in SUBSET Dir

ConnType ==
  /\ sessionConnMap \in [Sid -> SUBSET Conn]
  /\ connCallMap \in SUBSET Conn
  /\ bindedSessionOnConn \in [Conn -> SUBSET Sid]
  /\ connLock \in Handler \cup {None}
  /\ closed \in SUBSET Conn

TypeOK ==
  /\ SessionType
  /\ ChatType
  /\ DBType
  /\ ConnType
  /\ timers \in [Timer -> TimerState]
  /\ th \in [Handler -> Thread]
  /\ requests \in 0..MaxRequests

Init ==
  /\ sessions = {}
  /\ sessDB = [s \in Sid |-> None]
  /\ releaseTimer = [s \in Sid |-> None]
  /\ background = [s \in Sid |-> FALSE]
  /\ chats = {}
  /\ created = {}
  /\ dbs = [d \in Dir |-> None]
  /\ referCnt = [d \in Dir |-> 0]
  /\ fileOf = [hd \in Handle |-> None]
  /\ misspelt = {}
  /\ sessionConnMap = [s \in Sid |-> {}]
  /\ connCallMap = {}
  /\ bindedSessionOnConn = [c \in Conn |-> {}]
  /\ connLock = None
  /\ closed = {}
  /\ timers = [t \in Timer |-> IdleTimer]
  /\ th = [h \in Handler |-> Idle]
  /\ requests = 0

-----------------------------------------------------------------------------
(* Database handles *)

dbOpen == {hd \in Handle : fileOf[hd] # None}

\* Requests that spell a directory otherwise than path.Clean leave their mark.
Spelt(p) == misspelt' = IF p \in Dir THEN misspelt ELSE misspelt \cup {Clean[p]}

\* InitStorage returns a connection nobody refers to.
Fresh(hd) ==
  /\ hd \notin dbOpen
  /\ \A s \in Sid : sessDB[s] # hd
  /\ \A h \in Handler : th[h].db # hd

\* Mutant of LoadDB: the map is never consulted.
LoadDBAlwaysOpens(p, hd) ==
  /\ Fresh(hd)
  /\ dbs' = [dbs EXCEPT ![Clean[p]] = hd]
  /\ referCnt' = [referCnt EXCEPT ![Clean[p]] = @ + 1]
  /\ fileOf' = [fileOf EXCEPT ![hd] = Clean[p]]
  /\ Spelt(p)

\* The map is looked up with the spelling of the caller, the new entry is
\* stored under the cleaned one, over any entry that is there.
LoadDB(p, hd) ==
  \/ /\ p \in Dir /\ dbs[p] # None
     /\ hd = dbs[p]
     /\ referCnt' = [referCnt EXCEPT ![p] = @ + 1]
     /\ UNCHANGED <<dbs, fileOf, misspelt>>
  \/ /\ p \in Dir => dbs[p] = None
     /\ Fresh(hd)
     /\ dbs' = [dbs EXCEPT ![Clean[p]] = hd]
     /\ referCnt' = [referCnt EXCEPT ![Clean[p]] = 1]
     /\ fileOf' = [fileOf EXCEPT ![hd] = Clean[p]]
     /\ Spelt(p)

\* Mutants of CloseDB: the count is compared before it is decremented, the
\* handle is dropped without db.Close, the entry is dropped whatever the count.
CloseDBLate(p) ==
  \/ /\ p \in Dir => dbs[p] = None
     /\ UNCHANGED dbVars
  \/ /\ p \in Dir /\ dbs[p] # None /\ referCnt[p] > 2
     /\ referCnt' = [referCnt EXCEPT ![p] = @ - 1]
     /\ UNCHANGED <<dbs, fileOf, misspelt>>
  \/ /\ p \in Dir /\ dbs[p] # None /\ referCnt[p] <= 2
     /\ fileOf' = [fileOf EXCEPT ![dbs[p]] = None]
     /\ dbs' = [dbs EXCEPT ![p] = None]
     /\ referCnt' = [referCnt EXCEPT ![p] = 0]
     /\ UNCHANGED misspelt

CloseDBForgetsClose(p) ==
  \/ /\ p \in Dir => dbs[p] = None
     /\ UNCHANGED dbVars
  \/ /\ p \in Dir /\ dbs[p] # None
     /\ UNCHANGED <<fileOf, misspelt>>
     /\ IF referCnt[p] > 1
        THEN referCnt' = [referCnt EXCEPT ![p] = @ - 1] /\ UNCHANGED dbs
        ELSE /\ dbs' = [dbs EXCEPT ![p] = None]
             /\ referCnt' = [referCnt EXCEPT ![p] = 0]

CloseDBUnguarded(p) ==
  /\ p \in Dir
  /\ fileOf' = [hd \in Handle |-> IF hd = dbs[p] THEN None ELSE fileOf[hd]]
  /\ UNCHANGED misspelt
  /\ dbs' = [dbs EXCEPT ![p] = None]
  /\ referCnt' = [referCnt EXCEPT ![p] = @ - 1]

CloseDB(p) ==
  \/ /\ p \in Dir => dbs[p] = None
     /\ UNCHANGED dbVars
  \/ /\ p \in Dir /\ dbs[p] # None /\ referCnt[p] > 1
     /\ referCnt' = [referCnt EXCEPT ![p] = @ - 1]
     /\ UNCHANGED <<dbs, fileOf, misspelt>>
  \/ /\ p \in Dir /\ dbs[p] # None /\ referCnt[p] <= 1
     /\ fileOf' = [fileOf EXCEPT ![dbs[p]] = None]
     /\ dbs' = [dbs EXCEPT ![p] = None]
     /\ referCnt' = [referCnt EXCEPT ![p] = 0]
     /\ UNCHANGED misspelt

-----------------------------------------------------------------------------
(* The registry *)

\* The branch of loadSession that registers a session object; the other one
\* only counts a reference nobody reads.
AddSession(s, hd) ==
  /\ sessions' = sessions \cup {s}
  /\ sessDB' = [sessDB EXCEPT ![s] = hd]
  /\ releaseTimer' = [releaseTimer EXCEPT ![s] = None]
  /\ background' = [background EXCEPT ![s] = FALSE]

\* Mutant of RemoveSession: a release without closeDB.
RemoveSessionKeepsDB(s) ==
  /\ sessions' = sessions \ {s}
  /\ sessDB' = [sessDB EXCEPT ![s] = None]
  /\ releaseTimer' = [releaseTimer EXCEPT ![s] = None]
  /\ background' = [background EXCEPT ![s] = FALSE]
  /\ UNCHANGED dbVars

\* loop.Cancel, closePermDone, closeDB and the deletion from the map.
RemoveSession(s) ==
  /\ sessions' = sessions \ {s}
  /\ sessDB' = [sessDB EXCEPT ![s] = None]
  /\ releaseTimer' = [releaseTimer EXCEPT ![s] = None]
  /\ background' = [background EXCEPT ![s] = FALSE]
  /\ CloseDB(CwdOf[s])

\* releaseTimer.Stop(): a timer that has fired runs on.
Stopped(s) ==
  IF releaseTimer[s] # None /\ timers[releaseTimer[s]].pc = "armed"
  THEN [timers EXCEPT ![releaseTimer[s]] = IdleTimer]
  ELSE timers

FreshTimer(t) == timers[t].pc = "idle" /\ \A s \in Sid : releaseTimer[s] # t

-----------------------------------------------------------------------------
(* Requests *)

\* A message that was read before the connection ended may be handled late, so
\* a request may come from a closed connection too.
Begin(h) ==
  /\ th[h].pc = "idle"
  /\ requests < MaxRequests
  /\ requests' = requests + 1

Goto(h, label) == th' = [th EXCEPT ![h].pc = label]
Return(h) == th' = [th EXCEPT ![h] = Idle]

SessionNew(h, c, s, hd) ==
  /\ Begin(h)
  /\ s \notin created
  /\ LoadDB(CwdOf[s], hd)
  /\ created' = created \cup {s}
  /\ chats' = chats \cup {s}
  /\ AddSession(s, hd)
  /\ th' = [th EXCEPT ![h] = [Idle EXCEPT !.pc = "bind", !.conn = c, !.sid = s]]
  /\ UNCHANGED <<connVars, timers>>

\* A registered session is found, another one is restored from its row; when
\* there is no row the database is opened and closed again.
SessionResume(h, c, s, hd) ==
  /\ Begin(h)
  /\ LET binding == [Idle EXCEPT !.pc = "bind", !.conn = c, !.sid = s]
         failing == [Idle EXCEPT !.pc = "closeDB", !.path = CwdOf[s], !.db = hd]
     IN  \/ /\ s \in sessions /\ hd = sessDB[s]
            /\ th' = [th EXCEPT ![h] = binding]
            /\ UNCHANGED <<sessVars, dbVars>>
         \/ /\ s \notin sessions /\ s \in chats
            /\ LoadDB(CwdOf[s], hd)
            /\ AddSession(s, hd)
            /\ th' = [th EXCEPT ![h] = binding]
         \/ /\ s \notin sessions /\ s \notin chats
            /\ LoadDB(CwdOf[s], hd)
            /\ th' = [th EXCEPT ![h] = failing]
            /\ UNCHANGED sessVars
  /\ UNCHANGED <<chatVars, connVars, timers>>

Bind(h) ==
  /\ th[h].pc = "bind"
  /\ bindedSessionOnConn' =
       [bindedSessionOnConn EXCEPT ![th[h].conn] = @ \cup {th[h].sid}]
  /\ Goto(h, "register")
  /\ UNCHANGED <<sessVars, chatVars, dbVars, sessionConnMap, connCallMap,
                 connLock, closed, timers, requests>>

\* registerConnCall keeps both locks while it calls cancelSessionRelease.
RegisterConnCall(h) ==
  LET c == th[h].conn
      s == th[h].sid
  IN  /\ th[h].pc = "register" /\ connLock = None
      /\ connCallMap' = connCallMap \cup {c}
      /\ \/ /\ c \in sessionConnMap[s]
            /\ Return(h)
            /\ UNCHANGED <<sessionConnMap, connLock>>
         \/ /\ c \notin sessionConnMap[s]
            /\ sessionConnMap' = [sessionConnMap EXCEPT ![s] = @ \cup {c}]
            /\ connLock' = h
            /\ Goto(h, "cancel")
      /\ UNCHANGED <<sessVars, chatVars, dbVars, bindedSessionOnConn, closed,
                     timers, requests>>

CancelSessionRelease(h) ==
  /\ th[h].pc = "cancel"
  /\ \/ /\ th[h].sid \in sessions
        /\ timers' = Stopped(th[h].sid)
        /\ releaseTimer' = [releaseTimer EXCEPT ![th[h].sid] = None]
     \/ th[h].sid \notin sessions /\ UNCHANGED <<timers, releaseTimer>>
  /\ connLock' = None
  /\ Return(h)
  /\ UNCHANGED <<sessions, sessDB, background, chatVars, dbVars,
                 sessionConnMap, connCallMap, bindedSessionOnConn, closed, requests>>

\* Any connection may close a registered session, bound to it or not.
SessionClose(h, c, s) ==
  /\ Begin(h)
  /\ s \in sessions
  /\ th' = [th EXCEPT ![h] =
              [Idle EXCEPT !.pc = "unregister", !.conn = c, !.sid = s]]
  /\ UNCHANGED <<sessVars, chatVars, dbVars, connVars, timers>>

\* Close: the read loop has ended, requests of the connection may still run.
Close(h, c) ==
  LET bound == bindedSessionOnConn[c]
  IN  /\ th[h].pc = "idle" /\ c \notin closed
      /\ closed' = closed \cup {c}
      /\ bindedSessionOnConn' = [bindedSessionOnConn EXCEPT ![c] = {}]
      /\ \/ bound = {} /\ UNCHANGED th
         \/ \E s \in bound :
              th' = [th EXCEPT ![h] =
                [Idle EXCEPT !.pc = "unregister", !.conn = c, !.sid = s,
                             !.close = TRUE, !.todo = bound \ {s}]]
      /\ UNCHANGED <<sessVars, chatVars, dbVars, sessionConnMap, connCallMap,
                     connLock, timers, requests>>

UnregisterConnCall(h) ==
  LET c == th[h].conn
      s == th[h].sid
  IN  /\ th[h].pc = "unregister" /\ connLock = None
      /\ connCallMap' = connCallMap \ {c}
      /\ sessionConnMap' = [sessionConnMap EXCEPT ![s] = @ \ {c}]
      /\ Goto(h, IF th[h].close THEN "schedule" ELSE "unbind")
      /\ UNCHANGED <<sessVars, chatVars, dbVars, bindedSessionOnConn, connLock,
                     closed, timers, requests>>

Unbind(h) ==
  /\ th[h].pc = "unbind"
  /\ bindedSessionOnConn' =
       [bindedSessionOnConn EXCEPT ![th[h].conn] = @ \ {th[h].sid}]
  /\ Goto(h, "schedule")
  /\ UNCHANGED <<sessVars, chatVars, dbVars, sessionConnMap, connCallMap,
                 connLock, closed, timers, requests>>

\* The next session of a closed connection, or the end of the request.
NextBound(h) ==
  \/ th[h].todo = {} /\ Return(h)
  \/ \E s \in th[h].todo :
       th' = [th EXCEPT ![h].pc = "unregister", ![h].sid = s, ![h].todo = @ \ {s}]

\* Mutant of ScheduleSessionRelease: a session that has a timer keeps it.
ScheduleSessionReleaseOnce(h, t) ==
  LET s == th[h].sid
  IN  /\ th[h].pc = "schedule"
      /\ \/ /\ s \in sessions /\ releaseTimer[s] = None
            /\ FreshTimer(t)
            /\ timers' = [timers EXCEPT ![t] = [pc |-> "armed", sid |-> s]]
            /\ releaseTimer' = [releaseTimer EXCEPT ![s] = t]
         \/ (s \notin sessions \/ releaseTimer[s] # None) /\ UNCHANGED <<timers, releaseTimer>>
      /\ NextBound(h)
      /\ UNCHANGED <<sessions, sessDB, background, chatVars, dbVars,
                     connVars, requests>>

ScheduleSessionRelease(h, t) ==
  LET s == th[h].sid
  IN  /\ th[h].pc = "schedule"
      /\ \/ /\ s \in sessions
            /\ FreshTimer(t)
            /\ timers' = [Stopped(s) EXCEPT ![t] = [pc |-> "armed", sid |-> s]]
            /\ releaseTimer' = [releaseTimer EXCEPT ![s] = t]
         \/ s \notin sessions /\ UNCHANGED <<timers, releaseTimer>>
      /\ NextBound(h)
      /\ UNCHANGED <<sessions, sessDB, background, chatVars, dbVars,
                     connVars, requests>>

\* SessionDelete, the request sess_<id>:<p> for the row of s.  The registry is
\* keyed by the id string, so only the cleaned spelling finds the session.
SessionDelete(h, s, p) ==
  /\ Begin(h)
  /\ Clean[p] = CwdOf[s]
  /\ LET deleting == [Idle EXCEPT !.sid = s, !.path = p, !.delete = TRUE]
     IN  \/ /\ p = CwdOf[s] /\ s \in sessions
            /\ timers' = Stopped(s)
            /\ releaseTimer' = [releaseTimer EXCEPT ![s] = None]
            /\ th' = [th EXCEPT ![h] = [deleting EXCEPT !.pc = "closeSession"]]
         \/ /\ ~(p = CwdOf[s] /\ s \in sessions)
            /\ th' = [th EXCEPT ![h] = [deleting EXCEPT !.pc = "loadDB"]]
            /\ UNCHANGED <<timers, releaseTimer>>
  /\ UNCHANGED <<sessions, sessDB, background, chatVars, dbVars, connVars>>

\* session.ReferCount is 1 from registration on, so closeSession releases.
CloseSession(h) ==
  LET s == th[h].sid
  IN  /\ th[h].pc = "closeSession"
      /\ \/ s \in sessions /\ timers' = Stopped(s) /\ RemoveSession(s)
         \/ s \notin sessions /\ UNCHANGED <<timers, sessVars, dbVars>>
      /\ Goto(h, "loadDB")
      /\ UNCHANGED <<chatVars, connVars, requests>>

\* SessionList, HandleSessionUpdate and the indexing of temp files and chat
\* history: what they share is loadDB, some queries, closeDB.
UseRequest(h, p, hd) ==
  /\ Begin(h)
  /\ LoadDB(p, hd)
  /\ th' = [th EXCEPT ![h] = [Idle EXCEPT !.pc = "useDB", !.path = p, !.db = hd]]
  /\ UNCHANGED <<sessVars, chatVars, connVars, timers>>

LoadDBStep(h, hd) ==
  /\ th[h].pc = "loadDB"
  /\ LoadDB(th[h].path, hd)
  /\ th' = [th EXCEPT ![h].pc = "useDB", ![h].db = hd]
  /\ UNCHANGED <<sessVars, chatVars, connVars, timers, requests>>

UseDB(h) ==
  /\ th[h].pc = "useDB"
  /\ chats' = IF th[h].delete THEN chats \ {th[h].sid} ELSE chats
  /\ Goto(h, "closeDB")
  /\ UNCHANGED <<sessVars, created, dbVars, connVars, timers, requests>>

CloseDBStep(h) ==
  /\ th[h].pc = "closeDB"
  /\ CloseDB(th[h].path)
  /\ Return(h)
  /\ UNCHANGED <<sessVars, chatVars, connVars, timers, requests>>

\* The /background command, or the loop starts or ends a turn.
SetBackground(s) ==
  /\ s \in sessions
  /\ background' = [background EXCEPT ![s] = ~@]
  /\ UNCHANGED <<sessions, sessDB, releaseTimer, chatVars, dbVars, connVars,
                 timers, th, requests>>

-----------------------------------------------------------------------------
(* The delayed release *)

TimerFires(t) ==
  /\ timers[t].pc = "armed"
  /\ timers' = [timers EXCEPT ![t].pc = "check"]
  /\ UNCHANGED <<sessVars, chatVars, dbVars, connVars, th, requests>>

ReleaseCheck(t) ==
  /\ timers[t].pc = "check" /\ connLock = None
  /\ timers' = IF sessionConnMap[timers[t].sid] # {}
               THEN [timers EXCEPT ![t] = IdleTimer]
               ELSE [timers EXCEPT ![t].pc = "release"]
  /\ UNCHANGED <<sessVars, chatVars, dbVars, connVars, th, requests>>

\* Mutant of ReleaseSession: a session at work is left without a new timer.
ReleaseSessionNoReschedule(t, u) ==
  LET s == timers[t].sid
      ended == [timers EXCEPT ![t] = IdleTimer]
  IN  /\ timers[t].pc = "release" /\ u # t
      /\ timers' = ended
      /\ \/ /\ s \notin sessions \/ releaseTimer[s] = None
            /\ UNCHANGED <<sessVars, dbVars>>
         \/ /\ s \in sessions /\ releaseTimer[s] # None /\ background[s]
            /\ releaseTimer' = [releaseTimer EXCEPT ![s] = None]
            /\ UNCHANGED <<sessions, sessDB, background, dbVars>>
         \/ /\ s \in sessions /\ releaseTimer[s] # None /\ ~background[s]
            /\ RemoveSession(s)
      /\ UNCHANGED <<chatVars, connVars, th, requests>>

\* u is the timer a rescheduled release is given.  The timer the session has
\* now is forgotten, not stopped: it may be a later one than t.
ReleaseSession(t, u) ==
  LET s == timers[t].sid
      ended == [timers EXCEPT ![t] = IdleTimer]
  IN  /\ timers[t].pc = "release"
      /\ \/ /\ s \notin sessions \/ releaseTimer[s] = None
            /\ timers' = ended
            /\ UNCHANGED <<sessVars, dbVars>>
         \/ /\ s \in sessions /\ releaseTimer[s] # None
            /\ background[s]
            /\ u # t /\ FreshTimer(u)
            /\ timers' = [ended EXCEPT ![u] = [pc |-> "armed", sid |-> s]]
            /\ releaseTimer' = [releaseTimer EXCEPT ![s] = u]
            /\ UNCHANGED <<sessions, sessDB, background, dbVars>>
         \/ /\ s \in sessions /\ releaseTimer[s] # None
            /\ ~background[s]
            /\ timers' = ended
            /\ RemoveSession(s)
      /\ UNCHANGED <<chatVars, connVars, th, requests>>

-----------------------------------------------------------------------------
Request(h) ==
  \/ \E c \in Conn, s \in Sid, hd \in Handle : SessionNew(h, c, s, hd) \/ SessionResume(h, c, s, hd)
  \/ \E c \in Conn, s \in Sid : SessionClose(h, c, s)
  \/ \E c \in Conn : Close(h, c)
  \/ \E s \in Sid, p \in Path : SessionDelete(h, s, p)
  \/ \E p \in Path, hd \in Handle : UseRequest(h, p, hd)

Continue(h) ==
  \/ Bind(h) \/ RegisterConnCall(h) \/ CancelSessionRelease(h)
  \/ UnregisterConnCall(h) \/ Unbind(h) \/ CloseSession(h)
  \/ UseDB(h) \/ CloseDBStep(h)
  \/ \E t \in Timer : ScheduleSessionRelease(h, t)
  \/ \E hd \in Handle : LoadDBStep(h, hd)

Release(t) ==
  TimerFires(t) \/ ReleaseCheck(t) \/ \E u \in Timer : ReleaseSession(t, u)

Next ==
  \/ \E h \in Handler : Request(h) \/ Continue(h)
  \/ \E t \in Timer : Release(t)
  \/ \E s \in Sid : SetBackground(s)

\* A goroutine that is not blocked is scheduled and the runtime fires a timer
\* that is due; nothing makes a client send a request, change the mode or go.
Fairness ==
  /\ \A h \in Handler : WF_vars(Continue(h))
  /\ \A t \in Timer : WF_vars(Release(t))

Spec == Init /\ [][Next]_vars /\ Fairness
-----------------------------------------------------------------------------
(* Properties *)

Using(h) == th[h].pc \in {"useDB", "closeDB"}

\* Who holds a reference to the database of directory d.
Holders(d) ==
  {s \in sessions : CwdOf[s] = d} \cup {h \in Handler : Using(h) /\ Clean[th[h].path] = d}

\* The directories every load so far spelt as path.Clean does.  One load under
\* another spelling replaces the entry and its count (loadDB looks up the raw
\* path), and from then on the counts of that directory are not its holders'.
Clear == Dir \ misspelt

\* The count of a directory is the number of its holders: no interleaving of
\* requests, deletes and delayed releases counts a release twice or forgets
\* one (loadDB and closeDB against all their callers), and a misspelt load
\* disturbs no directory but its own.
RefsExact == \A d \in Clear : referCnt[d] = Cardinality(Holders(d))

\* Whoever holds a directory holds the one handle the map has for it, and that
\* handle is open on its database: a release elsewhere never closes a database
\* under a loaded session or a running request.
HoldersShareOpenHandle ==
  /\ \A s \in sessions : CwdOf[s] \in Clear =>
       sessDB[s] = dbs[CwdOf[s]] /\ fileOf[sessDB[s]] = CwdOf[s]
  /\ \A h \in Handler : Using(h) /\ Clean[th[h].path] \in Clear =>
       th[h].db = dbs[Clean[th[h].path]] /\ fileOf[th[h].db] = Clean[th[h].path]

\* No handle on a directory's database stays open after its last holder has
\* gone, and none is open beside the one of the map.
NoHandleLeak ==
  \A hd \in dbOpen : fileOf[hd] \in Clear =>
    dbs[fileOf[hd]] = hd /\ Holders(fileOf[hd]) # {}

\* Somebody will yet bind, release or delete the session: a goroutine on its
\* way to registerConnCall or to the release, or a timer on its way to a
\* release that will not be turned away.
Attended(s) ==
  \/ \E h \in Handler :
       \/ th[h].sid = s /\ th[h].pc \in {"bind", "register", "unregister", "unbind",
                                         "schedule", "closeSession"}
       \/ s \in th[h].todo
  \/ /\ releaseTimer[s] # None
     /\ \E t \in Timer : timers[t].sid = s /\ timers[t].pc # "idle"

\* A loaded session no connection is bound to is never forgotten: whatever the
\* order of disconnects, resumes, deletes and stale timers, its release is
\* pending (scheduleSessionRelease, cancelSessionRelease and releaseFunc).
NeverStranded ==
  \A s \in sessions : sessionConnMap[s] = {} => Attended(s)

\* A loaded session that has lost every binding is released, unless it works
\* in background mode (the delayed release, under the fairness of Spec).
UnboundReleased ==
  \A s \in Sid : []<>(\/ s \notin sessions
                      \/ sessionConnMap[s] # {}
                      \/ background[s])

\* "Released after the timeout if there is still no connection": the release
\* removes no session that a connection is bound to.
ReleasesOnlyUnbound ==
  [][\A t \in Timer :
       LET s == timers[t].sid
       IN  timers[t].pc = "release" /\ timers'[t] # timers[t] /\ s \in sessions
             /\ s \notin sessions'
           => sessionConnMap[s] = {}]_vars

\* "Released if there is no connection": a session whose clients have all
\* disconnected is released, unless it works in background mode.
DisconnectedReleased ==
  \A s \in Sid : []<>(\/ s \notin sessions
                      \/ sessionConnMap[s] \ closed # {}
                      \/ background[s])

(* What the registry promises its users: a pool of shared handles, for the  *)
(* directories that were never misspelt.                                      *)
User == Sid \cup Handler
NoHold == [dir |-> None, handle |-> None]
Held ==
  [u \in User |->
     IF u \in Sid /\ u \in sessions /\ CwdOf[u] \in Clear
     THEN [dir |-> CwdOf[u], handle |-> sessDB[u]]
     ELSE IF u \in Handler /\ Using(u) /\ Clean[th[u].path] \in Clear
     THEN [dir |-> Clean[th[u].path], handle |-> th[u].db]
     ELSE NoHold]

Pool == INSTANCE HandlePool
          WITH held <- Held, open <- {hd \in dbOpen : fileOf[hd] \in Clear}, lost <- misspelt
ImplementsPool == Pool!Spec
=============================================================================
