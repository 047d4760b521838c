----------------------- MODULE SessionLifecycle_proofs -----------------------
(***************************************************************************)
(* The session registry, for any number of connections, sessions,          *)
(* directories, requests and timers: type correctness; exact reference     *)
(* counts; the registry as an implementation of the pool of shared         *)
(* handles; and the release of sessions nobody is connected to.            *)
(***************************************************************************)
EXTENDS SessionLifecycle, FiniteSetTheorems, TLAPS

\* What the program counter of a goroutine says about its local variables.
ThreadInv ==
  \A h \in Handler :
    /\ th[h].pc \in {"bind", "register", "cancel", "unregister", "unbind", "schedule"} =>
         th[h].conn \in Conn /\ th[h].sid \in Sid
    /\ th[h].pc \in {"closeSession", "loadDB", "useDB", "closeDB"} => th[h].path \in Path
    /\ th[h].pc = "closeSession" => th[h].sid \in Sid
    /\ Using(h) => th[h].db \in Handle

\* A timer that is not idle belongs to a session.
TimerInv == \A t \in Timer : timers[t].pc # "idle" => timers[t].sid \in Sid

ThreadsOK == th \in [Handler -> Thread] /\ ThreadInv
TimersOK == timers \in [Timer -> TimerState] /\ TimerInv
RequestsOK == requests \in 0..MaxRequests

TypeInv ==
  /\ SessionType /\ ChatType /\ DBType /\ ConnType
  /\ TimersOK /\ ThreadsOK /\ RequestsOK

LEMMA UnchangedParts ==
  /\ SessionType /\ UNCHANGED sessVars => SessionType'
  /\ ChatType /\ UNCHANGED chatVars => ChatType'
  /\ DBType /\ UNCHANGED dbVars => DBType'
  /\ ConnType /\ UNCHANGED connVars => ConnType'
  /\ TimersOK /\ UNCHANGED timers => TimersOK'
  /\ ThreadsOK /\ UNCHANGED th => ThreadsOK'
  /\ RequestsOK /\ UNCHANGED requests => RequestsOK'
  BY DEF SessionType, ChatType, DBType, ConnType, TimersOK, TimerInv, ThreadsOK, ThreadInv,
         Using, RequestsOK, sessVars, chatVars, dbVars, connVars

LEMMA BeginType ==
  ASSUME RequestsOK, NEW h \in Handler, Begin(h) PROVE RequestsOK'
  BY BoundAssumption DEF RequestsOK, Begin

LEMMA IdleType == Idle \in Thread /\ IdleTimer \in TimerState
  BY DEF Idle, Thread, ThreadPc, IdleTimer, TimerState, TimerPc

LEMMA LoadDBType ==
  ASSUME DBType, NEW p \in Path, NEW hd \in Handle, LoadDB(p, hd) PROVE DBType'
  <1>1. Clean[p] \in Dir
    BY PathAssumption
  <1>2. misspelt' \in SUBSET Dir
    BY <1>1 DEF DBType, LoadDB, Spelt
  <1>3. /\ dbs' \in [Dir -> Handle \cup {None}] /\ referCnt' \in [Dir -> Nat]
        /\ fileOf' \in [Handle -> Dir \cup {None}]
    BY <1>1 DEF DBType, LoadDB
  <1> QED BY <1>2, <1>3 DEF DBType

LEMMA CloseDBType ==
  ASSUME DBType, NEW p \in Path, CloseDB(p) PROVE DBType'
  <1>1. CASE UNCHANGED dbVars
    BY <1>1, UnchangedParts
  <1>2. CASE p \in Dir /\ referCnt[p] > 1 /\ referCnt' = [referCnt EXCEPT ![p] = @ - 1]
             /\ UNCHANGED <<dbs, fileOf, misspelt>>
    <2>1. referCnt[p] - 1 \in Nat
      BY <1>2 DEF DBType
    <2> QED BY <1>2, <2>1 DEF DBType
  <1>3. CASE p \in Dir /\ fileOf' = [fileOf EXCEPT ![dbs[p]] = None]
             /\ dbs' = [dbs EXCEPT ![p] = None] /\ referCnt' = [referCnt EXCEPT ![p] = 0]
             /\ UNCHANGED misspelt
    BY <1>3 DEF DBType
  <1> QED BY <1>1, <1>2, <1>3 DEF CloseDB

LEMMA StoppedType ==
  ASSUME SessionType, TimersOK, NEW s \in Sid
  PROVE  /\ Stopped(s) \in [Timer -> TimerState]
         /\ \A t \in Timer : Stopped(s)[t].pc # "idle" => Stopped(s)[t].sid \in Sid
  <1>1. CASE releaseTimer[s] # None /\ timers[releaseTimer[s]].pc = "armed"
    <2>1. releaseTimer[s] \in Timer
      BY <1>1 DEF SessionType
    <2>2. Stopped(s) = [timers EXCEPT ![releaseTimer[s]] = IdleTimer]
      BY <1>1 DEF Stopped
    <2> QED BY <2>1, <2>2, IdleType DEF TimersOK, TimerInv, IdleTimer
  <1>2. CASE ~(releaseTimer[s] # None /\ timers[releaseTimer[s]].pc = "armed")
    BY <1>2 DEF Stopped, TimersOK, TimerInv
  <1> QED BY <1>1, <1>2

\* How goroutines move: to a label that needs no more than they have, to the
\* end, or to a fresh record.
ReadyFor(r) ==
  /\ r.pc \in {"bind", "register", "cancel", "unregister", "unbind", "schedule"} =>
       r.conn \in Conn /\ r.sid \in Sid
  /\ r.pc \in {"closeSession", "loadDB", "useDB", "closeDB"} => r.path \in Path
  /\ r.pc = "closeSession" => r.sid \in Sid
  /\ r.pc \in {"useDB", "closeDB"} => r.db \in Handle

LEMMA ThreadStep ==
  ASSUME ThreadsOK, NEW h \in Handler, NEW r \in Thread, ReadyFor(r), th' = [th EXCEPT ![h] = r]
  PROVE  ThreadsOK'
  BY DEF ThreadsOK, ThreadInv, ReadyFor, Using

LEMMA ReturnType ==
  ASSUME ThreadsOK, NEW h \in Handler, Return(h) PROVE ThreadsOK'
  BY ThreadStep, IdleType DEF Return, ReadyFor, Idle

LEMMA GotoType ==
  ASSUME ThreadsOK, NEW h \in Handler, NEW label \in ThreadPc, Goto(h, label),
         ReadyFor([th[h] EXCEPT !.pc = label])
  PROVE  ThreadsOK'
  <1>1. [th[h] EXCEPT !.pc = label] \in Thread
    BY DEF ThreadsOK, Thread
  <1>2. th' = [th EXCEPT ![h] = [th[h] EXCEPT !.pc = label]]
    BY DEF Goto
  <1> QED BY <1>1, <1>2, ThreadStep

LEMMA NextBoundType ==
  ASSUME ThreadsOK, NEW h \in Handler, th[h].pc = "schedule", NextBound(h) PROVE ThreadsOK'
  <1>1. CASE Return(h)
    BY <1>1, ReturnType
  <1>2. ASSUME NEW s \in th[h].todo,
               th' = [th EXCEPT ![h].pc = "unregister", ![h].sid = s, ![h].todo = @ \ {s}]
        PROVE  ThreadsOK'
    <2> DEFINE r == [th[h] EXCEPT !.pc = "unregister", !.sid = s, !.todo = @ \ {s}]
    <2>1. th[h] \in Thread /\ th[h].conn \in Conn /\ s \in Sid
      BY DEF ThreadsOK, ThreadInv, Thread
    <2>2. r \in Thread /\ ReadyFor(r)
      BY <2>1 DEF Thread, ThreadPc, ReadyFor
    <2>3. th' = [th EXCEPT ![h] = r]
      BY <1>2 DEF ThreadsOK
    <2> QED BY <2>2, <2>3, ThreadStep
  <1> QED BY <1>1, <1>2 DEF NextBound

LEMMA InitType == Init => TypeInv
  BY NoneAssumption, BoundAssumption, IdleType
  DEF Init, TypeInv, SessionType, ChatType, DBType, ConnType, TimersOK, ThreadsOK, RequestsOK,
      ThreadInv, TimerInv, Using, Idle, IdleTimer

LEMMA StepType == TypeInv /\ [Next]_vars => TypeInv'
  <1> SUFFICES ASSUME TypeInv, [Next]_vars PROVE TypeInv'
    OBVIOUS
  <1>p. /\ SessionType /\ ChatType /\ DBType /\ ConnType
        /\ TimersOK /\ ThreadsOK /\ RequestsOK
    BY DEF TypeInv
  <1>u. /\ UNCHANGED sessVars => SessionType'
        /\ UNCHANGED chatVars => ChatType'
        /\ UNCHANGED dbVars => DBType'
        /\ UNCHANGED connVars => ConnType'
        /\ UNCHANGED timers => TimersOK'
        /\ UNCHANGED th => ThreadsOK'
        /\ UNCHANGED requests => RequestsOK'
    BY <1>p, UnchangedParts
  <1>1. ASSUME NEW h \in Handler, NEW c \in Conn, NEW s \in Sid, NEW hd \in Handle,
               SessionNew(h, c, s, hd)
        PROVE  TypeInv'
    <2> DEFINE r == [Idle EXCEPT !.pc = "bind", !.conn = c, !.sid = s]
    <2>1. CwdOf[s] \in Path
      BY PathAssumption
    <2>2. DBType'
      BY <1>p, <1>1, <2>1, LoadDBType DEF SessionNew
    <2>3. SessionType' /\ ChatType'
      BY <1>p, <1>1 DEF SessionNew, AddSession, SessionType, ChatType
    <2>4. r \in Thread /\ ReadyFor(r)
      BY DEF Idle, Thread, ThreadPc, ReadyFor
    <2>5. ThreadsOK'
      BY <1>p, <1>1, <2>4, ThreadStep DEF SessionNew
    <2>6. ConnType' /\ TimersOK' /\ RequestsOK'
      BY <1>p, <1>u, <1>1, BeginType DEF SessionNew
    <2> QED BY <2>2, <2>3, <2>5, <2>6 DEF TypeInv
  <1>2. ASSUME NEW h \in Handler, NEW c \in Conn, NEW s \in Sid, NEW hd \in Handle,
               SessionResume(h, c, s, hd)
        PROVE  TypeInv'
    <2> DEFINE binding == [Idle EXCEPT !.pc = "bind", !.conn = c, !.sid = s]
               failing == [Idle EXCEPT !.pc = "closeDB", !.path = CwdOf[s], !.db = hd]
    <2>1. CwdOf[s] \in Path
      BY PathAssumption
    <2>2. DBType'
      BY <1>p, <1>u, <1>2, <2>1, LoadDBType DEF SessionResume, dbVars
    <2>3. SessionType'
      <3>1. UNCHANGED sessVars \/ AddSession(s, hd)
        BY <1>2 DEF SessionResume
      <3>2. CASE AddSession(s, hd)
        BY <1>p, <3>2 DEF AddSession, SessionType
      <3> QED BY <1>u, <3>1, <3>2
    <2>4. binding \in Thread /\ ReadyFor(binding) /\ failing \in Thread /\ ReadyFor(failing)
      BY <2>1 DEF Idle, Thread, ThreadPc, ReadyFor
    <2>5. th' = [th EXCEPT ![h] = binding] \/ th' = [th EXCEPT ![h] = failing]
      BY <1>2 DEF SessionResume
    <2>6. ThreadsOK'
      <3>1. CASE th' = [th EXCEPT ![h] = binding]
        BY <1>p, <2>4, <3>1, ThreadStep
      <3>2. CASE th' = [th EXCEPT ![h] = failing]
        BY <1>p, <2>4, <3>2, ThreadStep
      <3> QED BY <2>5, <3>1, <3>2
    <2>7. ChatType' /\ ConnType' /\ TimersOK' /\ RequestsOK'
      BY <1>p, <1>u, <1>2, BeginType DEF SessionResume
    <2> QED BY <2>2, <2>3, <2>6, <2>7 DEF TypeInv
  <1>3. ASSUME NEW h \in Handler, Bind(h)
        PROVE  TypeInv'
    <2>1. th[h] \in Thread /\ th[h].conn \in Conn /\ th[h].sid \in Sid
      BY <1>p, <1>3 DEF ThreadsOK, ThreadInv, Bind
    <2>2. ConnType'
      BY <1>p, <1>3, <2>1 DEF Bind, ConnType
    <2>3. ReadyFor([th[h] EXCEPT !.pc = "register"]) /\ "register" \in ThreadPc
      BY <2>1 DEF ReadyFor, Thread, ThreadPc
    <2>4. ThreadsOK'
      BY <1>p, <1>3, <2>3, GotoType DEF Bind
    <2>5. SessionType' /\ ChatType' /\ DBType' /\ TimersOK' /\ RequestsOK'
      BY <1>u, <1>3 DEF Bind
    <2> QED BY <2>2, <2>4, <2>5 DEF TypeInv
  <1>4. ASSUME NEW h \in Handler, RegisterConnCall(h)
        PROVE  TypeInv'
    <2>1. th[h] \in Thread /\ th[h].conn \in Conn /\ th[h].sid \in Sid
      BY <1>p, <1>4 DEF ThreadsOK, ThreadInv, RegisterConnCall
    <2>2. ConnType'
      BY <1>p, <1>4, <2>1 DEF RegisterConnCall, ConnType
    <2>3. ReadyFor([th[h] EXCEPT !.pc = "cancel"]) /\ "cancel" \in ThreadPc
      BY <2>1 DEF ReadyFor, Thread, ThreadPc
    <2>4. Return(h) \/ Goto(h, "cancel")
      BY <1>4 DEF RegisterConnCall
    <2>5. ThreadsOK'
      BY <1>p, <2>3, <2>4, GotoType, ReturnType
    <2>6. SessionType' /\ ChatType' /\ DBType' /\ TimersOK' /\ RequestsOK'
      BY <1>u, <1>4 DEF RegisterConnCall
    <2> QED BY <2>2, <2>5, <2>6 DEF TypeInv
  <1>5. ASSUME NEW h \in Handler, CancelSessionRelease(h)
        PROVE  TypeInv'
    <2>1. th[h].sid \in Sid
      BY <1>p, <1>5 DEF CancelSessionRelease, ThreadsOK, ThreadInv
    <2>2. TimersOK'
      BY <1>p, <1>u, <1>5, <2>1, StoppedType DEF CancelSessionRelease, TimersOK, TimerInv
    <2>3. SessionType' /\ ConnType'
      BY <1>p, <1>5 DEF CancelSessionRelease, SessionType, ConnType
    <2>4. ThreadsOK'
      BY <1>p, <1>5, ReturnType DEF CancelSessionRelease
    <2>5. ChatType' /\ DBType' /\ RequestsOK'
      BY <1>u, <1>5 DEF CancelSessionRelease
    <2> QED BY <2>2, <2>3, <2>4, <2>5 DEF TypeInv
  <1>6. ASSUME NEW h \in Handler, NEW c \in Conn, NEW s \in Sid, SessionClose(h, c, s)
        PROVE  TypeInv'
    <2> DEFINE r == [Idle EXCEPT !.pc = "unregister", !.conn = c, !.sid = s]
    <2>1. r \in Thread /\ ReadyFor(r)
      BY DEF Idle, Thread, ThreadPc, ReadyFor
    <2>2. ThreadsOK'
      BY <1>p, <1>6, <2>1, ThreadStep DEF SessionClose
    <2>3. /\ SessionType' /\ ChatType' /\ DBType' /\ ConnType' /\ TimersOK' /\ RequestsOK'
      BY <1>p, <1>u, <1>6, BeginType DEF SessionClose
    <2> QED BY <2>2, <2>3 DEF TypeInv
  <1>7. ASSUME NEW h \in Handler, NEW c \in Conn, Close(h, c)
        PROVE  TypeInv'
    <2>1. ConnType'
      BY <1>p, <1>7 DEF Close, ConnType
    <2>2. ThreadsOK'
      <3>1. CASE UNCHANGED th
        BY <1>u, <3>1
      <3>2. ASSUME NEW s \in bindedSessionOnConn[c],
                   th' = [th EXCEPT ![h] =
                            [Idle EXCEPT !.pc = "unregister", !.conn = c, !.sid = s,
                                         !.close = TRUE, !.todo = bindedSessionOnConn[c] \ {s}]]
            PROVE  ThreadsOK'
        <4> DEFINE r == [Idle EXCEPT !.pc = "unregister", !.conn = c, !.sid = s,
                                     !.close = TRUE, !.todo = bindedSessionOnConn[c] \ {s}]
        <4>1. bindedSessionOnConn[c] \in SUBSET Sid
          BY <1>p DEF ConnType
        <4>2. r \in Thread /\ ReadyFor(r)
          BY <4>1 DEF Idle, Thread, ThreadPc, ReadyFor
        <4> QED BY <1>p, <3>2, <4>2, ThreadStep
      <3> QED BY <1>7, <3>1, <3>2 DEF Close
    <2>3. SessionType' /\ ChatType' /\ DBType' /\ TimersOK' /\ RequestsOK'
      BY <1>u, <1>7 DEF Close
    <2> QED BY <2>1, <2>2, <2>3 DEF TypeInv
  <1>8. ASSUME NEW h \in Handler, UnregisterConnCall(h)
        PROVE  TypeInv'
    <2>1. th[h] \in Thread /\ th[h].conn \in Conn /\ th[h].sid \in Sid
      BY <1>p, <1>8 DEF ThreadsOK, ThreadInv, UnregisterConnCall
    <2>2. ConnType'
      BY <1>p, <1>8, <2>1 DEF UnregisterConnCall, ConnType
    <2>3. \A label \in {"schedule", "unbind"} :
             ReadyFor([th[h] EXCEPT !.pc = label]) /\ label \in ThreadPc
      BY <2>1 DEF ReadyFor, Thread, ThreadPc
    <2>4. Goto(h, "schedule") \/ Goto(h, "unbind")
      BY <1>8 DEF UnregisterConnCall
    <2>5. ThreadsOK'
      BY <1>p, <2>3, <2>4, GotoType
    <2>6. SessionType' /\ ChatType' /\ DBType' /\ TimersOK' /\ RequestsOK'
      BY <1>u, <1>8 DEF UnregisterConnCall
    <2> QED BY <2>2, <2>5, <2>6 DEF TypeInv
  <1>9. ASSUME NEW h \in Handler, Unbind(h)
        PROVE  TypeInv'
    <2>1. th[h] \in Thread /\ th[h].conn \in Conn /\ th[h].sid \in Sid
      BY <1>p, <1>9 DEF ThreadsOK, ThreadInv, Unbind
    <2>2. ConnType'
      BY <1>p, <1>9, <2>1 DEF Unbind, ConnType
    <2>3. ReadyFor([th[h] EXCEPT !.pc = "schedule"]) /\ "schedule" \in ThreadPc
      BY <2>1 DEF ReadyFor, Thread, ThreadPc
    <2>4. ThreadsOK'
      BY <1>p, <1>9, <2>3, GotoType DEF Unbind
    <2>5. SessionType' /\ ChatType' /\ DBType' /\ TimersOK' /\ RequestsOK'
      BY <1>u, <1>9 DEF Unbind
    <2> QED BY <2>2, <2>4, <2>5 DEF TypeInv
  <1>10. ASSUME NEW h \in Handler, NEW t \in Timer, ScheduleSessionRelease(h, t)
         PROVE  TypeInv'
    <2>1. th[h].sid \in Sid
      BY <1>p, <1>10 DEF ScheduleSessionRelease, ThreadsOK, ThreadInv
    <2>2. [pc |-> "armed", sid |-> th[h].sid] \in TimerState
      BY <2>1 DEF TimerState, TimerPc
    <2>3. TimersOK'
      BY <1>p, <1>u, <1>10, <2>1, <2>2, StoppedType
      DEF ScheduleSessionRelease, TimersOK, TimerInv
    <2>4. SessionType'
      BY <1>p, <1>10 DEF ScheduleSessionRelease, SessionType
    <2>5. ThreadsOK'
      BY <1>p, <1>10, NextBoundType DEF ScheduleSessionRelease
    <2>6. ChatType' /\ DBType' /\ ConnType' /\ RequestsOK'
      BY <1>u, <1>10 DEF ScheduleSessionRelease
    <2> QED BY <2>3, <2>4, <2>5, <2>6 DEF TypeInv
  <1>11. ASSUME NEW h \in Handler, NEW s \in Sid, NEW p \in Path, SessionDelete(h, s, p)
         PROVE  TypeInv'
    <2> DEFINE r(label) == [[Idle EXCEPT !.sid = s, !.path = p, !.delete = TRUE] EXCEPT !.pc = label]
    <2>1. TimersOK'
      BY <1>p, <1>u, <1>11, StoppedType DEF SessionDelete, TimersOK, TimerInv
    <2>2. SessionType'
      BY <1>p, <1>11 DEF SessionDelete, SessionType
    <2>3. \A label \in {"closeSession", "loadDB"} : r(label) \in Thread /\ ReadyFor(r(label))
      BY DEF Idle, Thread, ThreadPc, ReadyFor
    <2>4. th' = [th EXCEPT ![h] = r("closeSession")] \/ th' = [th EXCEPT ![h] = r("loadDB")]
      BY <1>11 DEF SessionDelete
    <2>5. ThreadsOK'
      BY <1>p, <2>3, <2>4, ThreadStep
    <2>6. ChatType' /\ DBType' /\ ConnType' /\ RequestsOK'
      BY <1>p, <1>u, <1>11, BeginType DEF SessionDelete
    <2> QED BY <2>1, <2>2, <2>5, <2>6 DEF TypeInv
  <1>12. ASSUME NEW h \in Handler, CloseSession(h)
         PROVE  TypeInv'
    <2>1. /\ th[h] \in Thread /\ th[h].sid \in Sid /\ th[h].path \in Path
          /\ CwdOf[th[h].sid] \in Path
      BY <1>p, <1>12, PathAssumption DEF CloseSession, ThreadsOK, ThreadInv
    <2>2. TimersOK'
      BY <1>p, <1>u, <1>12, <2>1, StoppedType DEF CloseSession, TimersOK, TimerInv
    <2>3. DBType'
      BY <1>p, <1>u, <1>12, <2>1, CloseDBType DEF CloseSession, RemoveSession
    <2>4. SessionType'
      BY <1>p, <1>u, <1>12 DEF CloseSession, RemoveSession, SessionType
    <2>5. ReadyFor([th[h] EXCEPT !.pc = "loadDB"]) /\ "loadDB" \in ThreadPc
      BY <2>1 DEF ReadyFor, Thread, ThreadPc
    <2>6. ThreadsOK'
      BY <1>p, <1>12, <2>5, GotoType DEF CloseSession
    <2>7. ChatType' /\ ConnType' /\ RequestsOK'
      BY <1>u, <1>12 DEF CloseSession
    <2> QED BY <2>2, <2>3, <2>4, <2>6, <2>7 DEF TypeInv
  <1>13. ASSUME NEW h \in Handler, NEW p \in Path, NEW hd \in Handle, UseRequest(h, p, hd)
         PROVE  TypeInv'
    <2> DEFINE r == [Idle EXCEPT !.pc = "useDB", !.path = p, !.db = hd]
    <2>1. DBType'
      BY <1>p, <1>13, LoadDBType DEF UseRequest
    <2>2. r \in Thread /\ ReadyFor(r)
      BY DEF Idle, Thread, ThreadPc, ReadyFor
    <2>3. ThreadsOK'
      BY <1>p, <1>13, <2>2, ThreadStep DEF UseRequest
    <2>4. SessionType' /\ ChatType' /\ ConnType' /\ TimersOK' /\ RequestsOK'
      BY <1>p, <1>u, <1>13, BeginType DEF UseRequest
    <2> QED BY <2>1, <2>3, <2>4 DEF TypeInv
  <1>14. ASSUME NEW h \in Handler, NEW hd \in Handle, LoadDBStep(h, hd)
         PROVE  TypeInv'
    <2> DEFINE r == [th[h] EXCEPT !.pc = "useDB", !.db = hd]
    <2>1. th[h] \in Thread /\ th[h].path \in Path
      BY <1>p, <1>14 DEF LoadDBStep, ThreadsOK, ThreadInv
    <2>2. DBType'
      BY <1>p, <1>14, <2>1, LoadDBType DEF LoadDBStep
    <2>3. r \in Thread /\ ReadyFor(r)
      BY <2>1 DEF Thread, ThreadPc, ReadyFor
    <2>4. th' = [th EXCEPT ![h] = r]
      BY <1>p, <1>14 DEF LoadDBStep, ThreadsOK
    <2>5. ThreadsOK'
      BY <1>p, <2>3, <2>4, ThreadStep
    <2>6. SessionType' /\ ChatType' /\ ConnType' /\ TimersOK' /\ RequestsOK'
      BY <1>u, <1>14 DEF LoadDBStep
    <2> QED BY <2>2, <2>5, <2>6 DEF TypeInv
  <1>15. ASSUME NEW h \in Handler, UseDB(h)
         PROVE  TypeInv'
    <2>1. th[h] \in Thread /\ th[h].path \in Path /\ th[h].db \in Handle
      BY <1>p, <1>15 DEF UseDB, ThreadsOK, ThreadInv, Using
    <2>2. ReadyFor([th[h] EXCEPT !.pc = "closeDB"]) /\ "closeDB" \in ThreadPc
      BY <2>1 DEF ReadyFor, Thread, ThreadPc
    <2>3. ThreadsOK'
      BY <1>p, <1>15, <2>2, GotoType DEF UseDB
    <2>4. ChatType'
      BY <1>p, <1>15 DEF UseDB, ChatType
    <2>5. SessionType' /\ DBType' /\ ConnType' /\ TimersOK' /\ RequestsOK'
      BY <1>u, <1>15 DEF UseDB
    <2> QED BY <2>3, <2>4, <2>5 DEF TypeInv
  <1>16. ASSUME NEW h \in Handler, CloseDBStep(h)
         PROVE  TypeInv'
    <2>1. th[h].path \in Path
      BY <1>p, <1>16 DEF CloseDBStep, ThreadsOK, ThreadInv
    <2>2. DBType'
      BY <1>p, <1>16, <2>1, CloseDBType DEF CloseDBStep
    <2>3. ThreadsOK'
      BY <1>p, <1>16, ReturnType DEF CloseDBStep
    <2>4. SessionType' /\ ChatType' /\ ConnType' /\ TimersOK' /\ RequestsOK'
      BY <1>u, <1>16 DEF CloseDBStep
    <2> QED BY <2>2, <2>3, <2>4 DEF TypeInv
  <1>17. ASSUME NEW s \in Sid, SetBackground(s)
         PROVE  TypeInv'
    <2>1. SessionType'
      BY <1>p, <1>17 DEF SetBackground, SessionType
    <2>2. ChatType' /\ DBType' /\ ConnType' /\ TimersOK' /\ ThreadsOK' /\ RequestsOK'
      BY <1>u, <1>17 DEF SetBackground
    <2> QED BY <2>1, <2>2 DEF TypeInv
  <1>18. ASSUME NEW t \in Timer, TimerFires(t) \/ ReleaseCheck(t)
         PROVE  TypeInv'
    <2>1. TimersOK'
      BY <1>p, <1>18, IdleType
      DEF TimerFires, ReleaseCheck, IdleTimer, TimersOK, TimerInv, TimerState, TimerPc
    <2>2. SessionType' /\ ChatType' /\ DBType' /\ ConnType' /\ ThreadsOK' /\ RequestsOK'
      BY <1>u, <1>18 DEF TimerFires, ReleaseCheck
    <2> QED BY <2>1, <2>2 DEF TypeInv
  <1>19. ASSUME NEW t \in Timer, NEW u \in Timer, ReleaseSession(t, u)
         PROVE  TypeInv'
    <2>1. timers[t].sid \in Sid /\ CwdOf[timers[t].sid] \in Path
      BY <1>p, <1>19, PathAssumption DEF ReleaseSession, TimersOK, TimerInv
    <2>2. DBType'
      BY <1>p, <1>u, <1>19, <2>1, CloseDBType DEF ReleaseSession, RemoveSession, dbVars
    <2>3. [pc |-> "armed", sid |-> timers[t].sid] \in TimerState
      BY <2>1 DEF TimerState, TimerPc
    <2>4. TimersOK'
      BY <1>p, <1>19, <2>1, <2>3, IdleType DEF ReleaseSession, IdleTimer, TimersOK, TimerInv
    <2>5. SessionType'
      BY <1>p, <1>u, <1>19 DEF ReleaseSession, RemoveSession, SessionType, sessVars
    <2>6. ChatType' /\ ConnType' /\ ThreadsOK' /\ RequestsOK'
      BY <1>u, <1>19 DEF ReleaseSession
    <2> QED BY <2>2, <2>4, <2>5, <2>6 DEF TypeInv
  <1>20. CASE UNCHANGED vars
    BY <1>p, <1>u, <1>20 DEF vars, TypeInv
  <1> QED
    BY <1>1, <1>2, <1>3, <1>4, <1>5, <1>6, <1>7, <1>8, <1>9, <1>10, <1>11, <1>12, <1>13,
       <1>14, <1>15, <1>16, <1>17, <1>18, <1>19, <1>20
    DEF Next, Request, Continue, Release

LEMMA TypeInvariant == Spec => []TypeInv
  BY InitType, StepType, PTL DEF Spec

\* The registry keeps its types, for every value of the constants.
THEOREM TypeCorrect == Spec => []TypeOK
  <1>1. TypeInv => TypeOK
    BY DEF TypeInv, TypeOK, TimersOK, ThreadsOK, RequestsOK
  <1> QED BY <1>1, TypeInvariant, PTL

-----------------------------------------------------------------------------
(* Reference counting.  A load that misspells a directory spoils the entry of  *)
(* that directory and leaves every other one as it is, so that the entries of *)
(* the others go on following their holders.                                  *)

\* A chat is created before it is registered: SessionNew meets a free id.
CreatedInv == sessions \subseteq created /\ chats \subseteq created

HandleOf(u) == IF u \in Sid THEN sessDB[u] ELSE th[u].db

\* The handle of an entry is open, on the database of the entry's directory.
MappedOpen == \A d \in Dir : dbs[d] # None => fileOf[dbs[d]] = d

\* Who uses a directory under another spelling has left the mark.
UsersMarked ==
  \A h \in Handler : Using(h) => th[h].path \in Dir \/ Clean[th[h].path] \in misspelt

\* The entry of a directory follows its holders: it counts them, it exists as
\* long as there is one, it is the handle each was given, and no other handle
\* is open on the directory's database.
DirInv(d) ==
  /\ referCnt[d] = Cardinality(Holders(d))
  /\ dbs[d] = None <=> Holders(d) = {}
  /\ \A u \in Holders(d) : HandleOf(u) = dbs[d]
  /\ \A hd \in Handle : fileOf[hd] = d => dbs[d] = hd

PoolInv ==
  /\ MappedOpen
  /\ UsersMarked
  /\ \A d \in Clear : DirInv(d)

\* A step that is not about the database of directory d.
SameEntry(d) ==
  /\ referCnt'[d] = referCnt[d] /\ dbs'[d] = dbs[d]
  /\ \A hd \in Handle : fileOf'[hd] = d <=> fileOf[hd] = d
SameHolders(d) ==
  Holders(d)' = Holders(d) /\ \A u \in Holders(d) : HandleOf(u)' = HandleOf(u)

LEMMA NoneIsNothing == None \notin Dir
  BY PathAssumption, NoneAssumption

LEMMA HoldersFinite ==
  ASSUME TypeInv, NEW d \in Dir PROVE IsFiniteSet(Holders(d))
  <1>1. Holders(d) \subseteq Sid \cup Handler
    BY DEF Holders, TypeInv, SessionType
  <1>2. IsFiniteSet(Sid \cup Handler)
    BY FiniteAssumption, FS_Union
  <1> QED BY <1>1, <1>2, FS_Subset

\* LoadDB and CloseDB leave the other directories as they are.
LEMMA LoadElsewhere ==
  ASSUME TypeInv, MappedOpen, NEW p \in Path, NEW hd \in Handle, LoadDB(p, hd)
  PROVE  MappedOpen' /\ \A e \in Dir \ {Clean[p]} : SameEntry(e)
  <1>1. DBType /\ None \notin Handle /\ None \notin Dir /\ Clean[p] \in Dir
    BY PathAssumption, NoneAssumption, NoneIsNothing DEF TypeInv
  <1>2. CASE p \in Dir /\ referCnt' = [referCnt EXCEPT ![p] = @ + 1] /\ UNCHANGED <<dbs, fileOf>>
    <2>1. Clean[p] = p
      BY <1>2, PathAssumption
    <2> QED BY <1>1, <1>2, <2>1 DEF DBType, MappedOpen, SameEntry
  <1>3. CASE /\ fileOf[hd] = None
             /\ dbs' = [dbs EXCEPT ![Clean[p]] = hd]
             /\ referCnt' = [referCnt EXCEPT ![Clean[p]] = 1]
             /\ fileOf' = [fileOf EXCEPT ![hd] = Clean[p]]
    <2>1. \A e \in Dir \ {Clean[p]} : dbs'[e] = dbs[e] /\ referCnt'[e] = referCnt[e]
      BY <1>1, <1>3 DEF DBType
    <2>2. \A g \in Handle : fileOf'[g] = IF g = hd THEN Clean[p] ELSE fileOf[g]
      BY <1>1, <1>3 DEF DBType
    <2>3. \A e \in Dir \ {Clean[p]} : SameEntry(e)
      BY <1>1, <1>3, <2>1, <2>2 DEF SameEntry
    <2>4. ASSUME NEW e \in Dir, dbs'[e] # None PROVE fileOf'[dbs'[e]] = e
      <3>1. CASE e = Clean[p]
        BY <1>1, <1>3, <2>2, <3>1 DEF DBType
      <3>2. CASE e # Clean[p]
        <4>1. dbs'[e] = dbs[e] /\ dbs[e] \in Handle /\ fileOf[dbs[e]] = e
          BY <1>1, <2>1, <2>4, <3>2 DEF DBType, MappedOpen
        <4> QED BY <1>1, <1>3, <2>2, <4>1
      <3> QED BY <3>1, <3>2
    <2> QED BY <2>3, <2>4 DEF MappedOpen
  <1> QED BY <1>2, <1>3 DEF LoadDB, Fresh, dbOpen

LEMMA CloseElsewhere ==
  ASSUME TypeInv, MappedOpen, NEW p \in Path, CloseDB(p)
  PROVE  /\ MappedOpen' /\ misspelt' = misspelt
         /\ \A e \in Dir \ {Clean[p]} : SameEntry(e)
         /\ p \notin Dir => \A e \in Dir : SameEntry(e)
  <1>1. DBType /\ None \notin Handle /\ None \notin Dir /\ (p \in Dir => Clean[p] = p)
    BY PathAssumption, NoneAssumption, NoneIsNothing DEF TypeInv
  <1>2. CASE UNCHANGED dbVars
    BY <1>2 DEF dbVars, MappedOpen, SameEntry
  <1>3. CASE p \in Dir /\ referCnt' = [referCnt EXCEPT ![p] = @ - 1]
             /\ UNCHANGED <<dbs, fileOf, misspelt>>
    BY <1>1, <1>3 DEF DBType, MappedOpen, SameEntry
  <1>4. CASE /\ p \in Dir /\ dbs[p] # None
             /\ fileOf' = [fileOf EXCEPT ![dbs[p]] = None]
             /\ dbs' = [dbs EXCEPT ![p] = None]
             /\ referCnt' = [referCnt EXCEPT ![p] = 0]
             /\ UNCHANGED misspelt
    <2>1. dbs[p] \in Handle /\ fileOf[dbs[p]] = p
      BY <1>1, <1>4 DEF DBType, MappedOpen
    <2>2. \A g \in Handle : fileOf'[g] = IF g = dbs[p] THEN None ELSE fileOf[g]
      BY <1>1, <1>4 DEF DBType
    <2>3. \A e \in Dir \ {p} : dbs'[e] = dbs[e] /\ referCnt'[e] = referCnt[e]
      BY <1>1, <1>4 DEF DBType
    <2>4. \A e \in Dir \ {p} : SameEntry(e)
      BY <1>1, <2>1, <2>2, <2>3 DEF SameEntry
    <2>5. ASSUME NEW e \in Dir, dbs'[e] # None PROVE fileOf'[dbs'[e]] = e
      <3>1. e # p
        BY <1>1, <1>4, <2>5 DEF DBType
      <3>2. dbs'[e] = dbs[e] /\ dbs[e] \in Handle /\ fileOf[dbs[e]] = e
        BY <1>1, <2>3, <2>5, <3>1 DEF DBType, MappedOpen
      <3> QED BY <2>1, <2>2, <3>1, <3>2
    <2> QED BY <1>1, <1>4, <2>4, <2>5 DEF MappedOpen
  <1> QED BY <1>2, <1>3, <1>4 DEF CloseDB

LEMMA DirKept ==
  ASSUME NEW d \in Dir, DirInv(d), SameEntry(d), SameHolders(d) PROVE DirInv(d)'
  BY DEF DirInv, SameEntry, SameHolders

\* One more holder, through LoadDB.
LEMMA DirAcquire ==
  ASSUME TypeInv, MappedOpen, NEW d \in Dir, DirInv(d), NEW hd \in Handle, LoadDB(d, hd),
         NEW u, u \notin Holders(d), HandleOf(u)' = hd,
         Holders(d)' = Holders(d) \cup {u},
         \A v \in Holders(d) : HandleOf(v)' = HandleOf(v)
  PROVE  DirInv(d)'
  <1>1. DBType /\ None \notin Handle /\ Clean[d] = d
    BY PathAssumption, NoneAssumption DEF TypeInv
  <1>2. Cardinality(Holders(d)') = Cardinality(Holders(d)) + 1
    BY HoldersFinite, FS_AddElement
  <1>3. referCnt[d] = Cardinality(Holders(d))
    BY DEF DirInv
  <1>4. CASE dbs[d] # None
    <2>1. hd = dbs[d] /\ referCnt' = [referCnt EXCEPT ![d] = @ + 1] /\ UNCHANGED <<dbs, fileOf>>
      BY <1>4 DEF LoadDB
    <2>2. referCnt'[d] = Cardinality(Holders(d)')
      BY <1>1, <1>2, <1>3, <2>1 DEF DBType
    <2>3. dbs'[d] # None /\ Holders(d)' # {}
      BY <1>4, <2>1
    <2>4. \A v \in Holders(d)' : HandleOf(v)' = dbs'[d]
      BY <2>1 DEF DirInv
    <2>5. \A g \in Handle : fileOf'[g] = d => dbs'[d] = g
      BY <2>1 DEF DirInv
    <2> QED BY <2>2, <2>3, <2>4, <2>5 DEF DirInv
  <1>5. CASE dbs[d] = None
    <2>1. /\ dbs' = [dbs EXCEPT ![d] = hd]
          /\ referCnt' = [referCnt EXCEPT ![d] = 1]
          /\ fileOf' = [fileOf EXCEPT ![hd] = d]
      BY <1>1, <1>5 DEF LoadDB
    <2>2. Holders(d) = {} /\ Cardinality(Holders(d)) = 0
      BY <1>5, FS_EmptySet DEF DirInv
    <2>3. referCnt'[d] = Cardinality(Holders(d)') /\ dbs'[d] = hd
      BY <1>1, <1>2, <2>1, <2>2 DEF DBType
    <2>4. \A v \in Holders(d)' : HandleOf(v)' = dbs'[d]
      BY <2>2, <2>3
    <2>5. ASSUME NEW g \in Handle, fileOf'[g] = d PROVE dbs'[d] = g
      <3>1. fileOf[g] # d
        BY <1>1, <1>5 DEF DirInv
      <3> QED BY <1>1, <2>1, <2>3, <2>5, <3>1 DEF DBType
    <2> QED BY <1>1, <2>3, <2>4, <2>5 DEF DirInv
  <1> QED BY <1>4, <1>5

\* One holder less, through CloseDB.
LEMMA DirRelease ==
  ASSUME TypeInv, MappedOpen, NEW d \in Dir, DirInv(d), CloseDB(d), NEW u \in Holders(d),
         Holders(d)' = Holders(d) \ {u},
         \A v \in Holders(d)' : HandleOf(v)' = HandleOf(v)
  PROVE  /\ DirInv(d)'
         /\ \A g \in Handle : fileOf'[g] = d <=> (fileOf[g] = d /\ Holders(d)' # {})
  <1>1. DBType /\ None \notin Handle /\ None \notin Dir
    BY NoneAssumption, NoneIsNothing DEF TypeInv
  <1>2. dbs[d] \in Handle /\ fileOf[dbs[d]] = d /\ referCnt[d] = Cardinality(Holders(d))
    BY <1>1 DEF DirInv, MappedOpen, DBType
  <1>3. /\ Cardinality(Holders(d)') = referCnt[d] - 1 /\ IsFiniteSet(Holders(d)')
        /\ Cardinality(Holders(d)') \in Nat
    BY <1>2, HoldersFinite, FS_RemoveElement, FS_CardinalityType
  <1>4. Cardinality(Holders(d)') = 0 <=> Holders(d)' = {}
    BY <1>3, FS_EmptySet
  <1>5. CASE referCnt[d] > 1
    <2>1. referCnt' = [referCnt EXCEPT ![d] = @ - 1] /\ UNCHANGED <<dbs, fileOf>>
      BY <1>1, <1>2, <1>5 DEF CloseDB, DBType
    <2>2. referCnt'[d] = Cardinality(Holders(d)')
      BY <1>1, <1>3, <2>1 DEF DBType
    <2>3. Holders(d)' # {}
      BY <1>1, <1>3, <1>4, <1>5 DEF DBType
    <2>4. dbs'[d] # None
      BY <1>1, <1>2, <2>1
    <2>5. \A v \in Holders(d)' : HandleOf(v)' = dbs'[d]
      BY <2>1 DEF DirInv
    <2>6. \A g \in Handle : fileOf'[g] = d => dbs'[d] = g
      BY <2>1 DEF DirInv
    <2> QED BY <2>1, <2>2, <2>3, <2>4, <2>5, <2>6 DEF DirInv
  <1>6. CASE referCnt[d] <= 1
    <2>1. /\ fileOf' = [fileOf EXCEPT ![dbs[d]] = None]
          /\ dbs' = [dbs EXCEPT ![d] = None]
          /\ referCnt' = [referCnt EXCEPT ![d] = 0]
      BY <1>1, <1>2, <1>3, <1>6 DEF CloseDB, DBType
    <2>2. Holders(d)' = {} /\ Cardinality(Holders(d)') = 0
      BY <1>1, <1>3, <1>4, <1>6 DEF DBType
    <2>3. referCnt'[d] = Cardinality(Holders(d)') /\ dbs'[d] = None
      BY <1>1, <2>1, <2>2 DEF DBType
    <2>4. \A g \in Handle : fileOf'[g] # d
      BY <1>1, <1>2, <2>1 DEF DBType, DirInv
    <2> QED BY <2>2, <2>3, <2>4 DEF DirInv
  <1> QED BY <1>1, <1>5, <1>6 DEF DBType

-----------------------------------------------------------------------------
(* What a step means for the holders: none is concerned, a session becomes    *)
(* one or ceases to be one, or a request does.                                *)

\* Requests that use a database go on using it.
UsersSame ==
  \A k \in Handler :
    /\ Using(k)' = Using(k)
    /\ Using(k) => th'[k].path = th[k].path /\ th'[k].db = th[k].db

\* All goroutines but h stay where they are.
OthersSame(h) == \A k \in Handler \ {h} : th'[k] = th[k]

SameStep == UNCHANGED <<sessions, sessDB, dbVars>> /\ UsersSame

AddSessionStep(s, hd) ==
  s \notin sessions /\ LoadDB(CwdOf[s], hd) /\ AddSession(s, hd) /\ UsersSame

RemoveSessionStep(s) == RemoveSession(s) /\ UsersSame

StartUseStep(h, p, hd) ==
  /\ ~Using(h) /\ LoadDB(p, hd) /\ UNCHANGED <<sessions, sessDB>>
  /\ th'[h].pc \in {"useDB", "closeDB"} /\ th'[h].path = p /\ th'[h].db = hd
  /\ OthersSame(h)

EndUseStep(h) ==
  /\ Using(h) /\ CloseDB(th[h].path) /\ UNCHANGED <<sessions, sessDB>>
  /\ th'[h].pc = "idle" /\ OthersSame(h)

HolderStep ==
  \/ SameStep
  \/ \E s \in Sid, hd \in Handle : AddSessionStep(s, hd)
  \/ \E s \in sessions : RemoveSessionStep(s)
  \/ \E h \in Handler, p \in Path, hd \in Handle : StartUseStep(h, p, hd)
  \/ \E h \in Handler : EndUseStep(h)

\* A goroutine that uses no database before or after its step.
LEMMA QuietUsers ==
  ASSUME NEW h \in Handler, ~Using(h), th'[h].pc \notin {"useDB", "closeDB"}, OthersSame(h)
  PROVE  UsersSame
  BY DEF UsersSame, OthersSame, Using

LEMMA SameStepHolders ==
  ASSUME TypeInv, SameStep
  PROVE  \A d \in Dir : SameHolders(d) /\ SameEntry(d)
  <1>1. \A d \in Dir : Holders(d)' = Holders(d)
    BY DEF SameStep, UsersSame, Holders
  <1>2. \A d \in Dir : \A u \in Holders(d) : HandleOf(u)' = HandleOf(u)
    BY DEF SameStep, UsersSame, Holders, HandleOf, TypeInv, SessionType
  <1> QED BY <1>1, <1>2 DEF SameHolders, SameEntry, SameStep, dbVars

\* Who holds what when a session is added.
LEMMA AddedHolder ==
  ASSUME TypeInv, NEW s \in Sid, NEW hd \in Handle, AddSessionStep(s, hd)
  PROVE  /\ CwdOf[s] \in Dir
         /\ \A d \in Dir : s \notin Holders(d)
         /\ \A d \in Dir : Holders(d)' = IF d = CwdOf[s] THEN Holders(d) \cup {s} ELSE Holders(d)
         /\ HandleOf(s)' = hd
         /\ \A d \in Dir : \A v \in Holders(d) : HandleOf(v)' = HandleOf(v)
  <1>1. CwdOf[s] \in Dir
    BY PathAssumption
  <1>2. \A d \in Dir : s \notin Holders(d)
    BY FiniteAssumption DEF AddSessionStep, Holders
  <1>3. /\ sessions' = sessions \cup {s}
        /\ sessDB' = [sessDB EXCEPT ![s] = hd] /\ sessDB \in [Sid -> Handle \cup {None}]
    BY DEF AddSessionStep, AddSession, TypeInv, SessionType
  <1>4. \A d \in Dir : Holders(d)' = IF d = CwdOf[s] THEN Holders(d) \cup {s} ELSE Holders(d)
    BY <1>1, <1>3 DEF AddSessionStep, UsersSame, Holders
  <1>5. HandleOf(s)' = hd
    BY <1>3 DEF HandleOf
  <1>6. \A d \in Dir : \A v \in Holders(d) : HandleOf(v)' = HandleOf(v)
    BY <1>2, <1>3, FiniteAssumption
    DEF AddSessionStep, UsersSame, Holders, HandleOf, TypeInv, SessionType
  <1> QED BY <1>1, <1>2, <1>4, <1>5, <1>6

LEMMA RemovedHolder ==
  ASSUME TypeInv, NEW s \in sessions, RemoveSessionStep(s)
  PROVE  /\ CwdOf[s] \in Dir /\ s \in Holders(CwdOf[s]) /\ CloseDB(CwdOf[s])
         /\ \A d \in Dir : Holders(d)' = IF d = CwdOf[s] THEN Holders(d) \ {s} ELSE Holders(d)
         /\ \A d \in Dir : \A v \in Holders(d)' : HandleOf(v)' = HandleOf(v)
  <1>1. s \in Sid /\ CwdOf[s] \in Dir /\ UsersSame
    BY PathAssumption DEF RemoveSessionStep, TypeInv, SessionType
  <1>2. s \in Holders(CwdOf[s])
    BY DEF Holders
  <1>3. /\ sessions' = sessions \ {s} /\ CloseDB(CwdOf[s])
        /\ sessDB' = [sessDB EXCEPT ![s] = None] /\ sessDB \in [Sid -> Handle \cup {None}]
    BY DEF RemoveSessionStep, RemoveSession, TypeInv, SessionType
  <1>4. \A d \in Dir : Holders(d)' = IF d = CwdOf[s] THEN Holders(d) \ {s} ELSE Holders(d)
    BY <1>1, <1>3, FiniteAssumption DEF UsersSame, Holders
  <1>5. \A d \in Dir : \A v \in Holders(d)' : HandleOf(v)' = HandleOf(v)
    <2> SUFFICES ASSUME NEW d \in Dir, NEW v \in Holders(d)' PROVE HandleOf(v)' = HandleOf(v)
      OBVIOUS
    <2>1. CASE v \in sessions'
      BY <1>3, <2>1 DEF HandleOf, TypeInv, SessionType
    <2>2. CASE v \in Handler /\ Using(v)
      BY <1>1, <2>2, FiniteAssumption DEF UsersSame, HandleOf
    <2> QED BY <1>1, <2>1, <2>2 DEF UsersSame, Holders
  <1> QED BY <1>1, <1>2, <1>3, <1>4, <1>5

\* Who holds what when a request starts and ends.
LEMMA StartedHolder ==
  ASSUME TypeInv, NEW h \in Handler, NEW p \in Path, NEW hd \in Handle, StartUseStep(h, p, hd)
  PROVE  /\ Clean[p] \in Dir
         /\ \A d \in Dir : h \notin Holders(d)
         /\ \A d \in Dir : Holders(d)' = IF d = Clean[p] THEN Holders(d) \cup {h} ELSE Holders(d)
         /\ HandleOf(h)' = hd
         /\ \A d \in Dir : \A v \in Holders(d) : HandleOf(v)' = HandleOf(v)
  <1>1. Clean[p] \in Dir /\ h \notin Sid
    BY PathAssumption, FiniteAssumption
  <1>2. \A d \in Dir : h \notin Holders(d)
    BY <1>1 DEF StartUseStep, Holders, TypeInv, SessionType
  <1>3. Using(h)' /\ \A k \in Handler \ {h} : Using(k)' = Using(k)
    BY DEF StartUseStep, OthersSame, Using
  <1>4. \A d \in Dir : Holders(d)' = IF d = Clean[p] THEN Holders(d) \cup {h} ELSE Holders(d)
    BY <1>1, <1>3 DEF StartUseStep, OthersSame, Holders
  <1>5. HandleOf(h)' = hd
    BY <1>1 DEF StartUseStep, HandleOf
  <1>6. \A d \in Dir : \A v \in Holders(d) : HandleOf(v)' = HandleOf(v)
    BY <1>2 DEF StartUseStep, OthersSame, Holders, HandleOf, TypeInv, SessionType
  <1> QED BY <1>1, <1>2, <1>4, <1>5, <1>6

LEMMA EndedHolder ==
  ASSUME TypeInv, NEW h \in Handler, EndUseStep(h)
  PROVE  /\ th[h].path \in Path /\ Clean[th[h].path] \in Dir
         /\ h \in Holders(Clean[th[h].path]) /\ CloseDB(th[h].path)
         /\ \A d \in Dir :
              Holders(d)' = IF d = Clean[th[h].path] THEN Holders(d) \ {h} ELSE Holders(d)
         /\ \A d \in Dir : \A v \in Holders(d)' : HandleOf(v)' = HandleOf(v)
  <1>1. th[h].path \in Path /\ Clean[th[h].path] \in Dir /\ h \notin Sid
    BY PathAssumption, FiniteAssumption DEF EndUseStep, TypeInv, ThreadsOK, ThreadInv, Using
  <1>2. h \in Holders(Clean[th[h].path])
    BY <1>1 DEF EndUseStep, Holders
  <1>3. ~Using(h)' /\ \A k \in Handler \ {h} : Using(k)' = Using(k)
    BY DEF EndUseStep, OthersSame, Using
  <1>4. \A d \in Dir :
          Holders(d)' = IF d = Clean[th[h].path] THEN Holders(d) \ {h} ELSE Holders(d)
    BY <1>1, <1>3 DEF EndUseStep, OthersSame, Holders, TypeInv, SessionType
  <1>5. \A d \in Dir : \A v \in Holders(d)' : HandleOf(v)' = HandleOf(v)
    BY <1>1, <1>3 DEF EndUseStep, OthersSame, Holders, HandleOf, TypeInv, SessionType
  <1> QED BY <1>1, <1>2, <1>4, <1>5 DEF EndUseStep

LEMMA InitPool == Init => CreatedInv /\ PoolInv
  <1> SUFFICES ASSUME Init PROVE CreatedInv /\ PoolInv
    OBVIOUS
  <1>1. \A d \in Dir : Holders(d) = {} /\ referCnt[d] = 0 /\ dbs[d] = None
    BY DEF Init, Holders, Using, Idle
  <1>2. \A hd \in Handle : fileOf[hd] = None
    BY DEF Init
  <1>3. \A d \in Dir : DirInv(d)
    BY <1>1, <1>2, FS_EmptySet, NoneIsNothing DEF DirInv
  <1>4. MappedOpen /\ UsersMarked
    BY <1>1 DEF Init, MappedOpen, UsersMarked, Using, Idle
  <1>5. sessions = {} /\ chats = {}
    BY DEF Init
  <1> QED BY <1>3, <1>4, <1>5 DEF CreatedInv, PoolInv, Clear

LEMMA StepCreated == TypeInv /\ CreatedInv /\ [Next]_vars => CreatedInv'
  <1> SUFFICES ASSUME TypeInv, CreatedInv, [Next]_vars PROVE CreatedInv'
    OBVIOUS
  <1>1. ASSUME NEW h \in Handler, NEW c \in Conn, NEW s \in Sid, NEW hd \in Handle,
               SessionNew(h, c, s, hd)
        PROVE  CreatedInv'
    <2>1. /\ sessions' = sessions \cup {s}
          /\ chats' = chats \cup {s}
          /\ created' = created \cup {s}
      BY <1>1 DEF SessionNew, AddSession
    <2> QED BY <2>1 DEF CreatedInv
  <1>2. ASSUME NEW h \in Handler, NEW c \in Conn, NEW s \in Sid, NEW hd \in Handle,
               SessionResume(h, c, s, hd)
        PROVE  CreatedInv'
    <2>1. UNCHANGED sessVars \/ (s \in chats /\ AddSession(s, hd))
      BY <1>2 DEF SessionResume
    <2>2. UNCHANGED chatVars
      BY <1>2 DEF SessionResume
    <2> QED BY <2>1, <2>2 DEF AddSession, CreatedInv, sessVars, chatVars
  <1>4. ASSUME NEW h \in Handler, Continue(h) PROVE CreatedInv'
    <2>1. ASSUME Bind(h) \/ RegisterConnCall(h) \/ CancelSessionRelease(h)
                 \/ UnregisterConnCall(h) \/ Unbind(h)
          PROVE  CreatedInv'
      BY <2>1 DEF Bind, RegisterConnCall, CancelSessionRelease, UnregisterConnCall, Unbind,
                  CreatedInv, sessVars, chatVars
    <2>2. ASSUME CloseSession(h) \/ UseDB(h) \/ CloseDBStep(h) PROVE CreatedInv'
      BY <2>2 DEF CloseSession, RemoveSession, UseDB, CloseDBStep, CreatedInv, sessVars, chatVars
    <2>3. ASSUME NEW t \in Timer, ScheduleSessionRelease(h, t) PROVE CreatedInv'
      BY <2>3 DEF ScheduleSessionRelease, CreatedInv, chatVars
    <2>4. ASSUME NEW hd \in Handle, LoadDBStep(h, hd) PROVE CreatedInv'
      BY <2>4 DEF LoadDBStep, CreatedInv, sessVars, chatVars
    <2> QED BY <1>4, <2>1, <2>2, <2>3, <2>4 DEF Continue
  <1>5. ASSUME NEW t \in Timer, Release(t) PROVE CreatedInv'
    BY <1>5 DEF Release, TimerFires, ReleaseCheck, ReleaseSession, RemoveSession, CreatedInv,
                sessVars, chatVars
  <1>6. ASSUME NEW s \in Sid, SetBackground(s) PROVE CreatedInv'
    BY <1>6 DEF SetBackground, CreatedInv, chatVars
  <1>7. CASE UNCHANGED vars
    BY <1>7 DEF vars, CreatedInv, sessVars, chatVars
  <1>8. ASSUME NEW h \in Handler, Request(h) PROVE CreatedInv'
    <2>1. CASE \E c \in Conn, s \in Sid, hd \in Handle :
                 SessionNew(h, c, s, hd) \/ SessionResume(h, c, s, hd)
      BY <1>1, <1>2, <2>1
    <2>2. CASE \E c \in Conn, s \in Sid : SessionClose(h, c, s)
      BY <2>2 DEF SessionClose, CreatedInv, sessVars, chatVars
    <2>3. CASE \E c \in Conn : Close(h, c)
      BY <2>3 DEF Close, CreatedInv, sessVars, chatVars
    <2>4. CASE \E s \in Sid, p \in Path : SessionDelete(h, s, p)
      BY <2>4 DEF SessionDelete, CreatedInv, sessVars, chatVars
    <2>5. CASE \E p \in Path, hd \in Handle : UseRequest(h, p, hd)
      BY <2>5 DEF UseRequest, CreatedInv, sessVars, chatVars
    <2> QED BY <1>8, <2>1, <2>2, <2>3, <2>4, <2>5 DEF Request
  <1> QED BY <1>4, <1>5, <1>6, <1>7, <1>8 DEF Next

\* Every action is one of the five kinds.
LEMMA StepHolders ==
  ASSUME TypeInv, CreatedInv, [Next]_vars PROVE HolderStep
  <1>t. TypeInv /\ th \in [Handler -> Thread] /\ ThreadInv /\ TimerInv
    BY DEF TypeInv, ThreadsOK, TimersOK
  <1>1. ASSUME NEW h \in Handler, NEW c \in Conn, NEW s \in Sid, NEW hd \in Handle,
               SessionNew(h, c, s, hd)
        PROVE  HolderStep
    <2>1. s \notin sessions /\ ~Using(h)
      BY <1>1 DEF SessionNew, Begin, CreatedInv, Using
    <2>2. th'[h].pc = "bind" /\ OthersSame(h)
      BY <1>t, <1>1 DEF SessionNew, Idle, OthersSame
    <2>3. LoadDB(CwdOf[s], hd) /\ AddSession(s, hd)
      BY <1>1 DEF SessionNew
    <2> QED BY <2>1, <2>2, <2>3, QuietUsers DEF HolderStep, AddSessionStep
  <1>2. ASSUME NEW h \in Handler, NEW c \in Conn, NEW s \in Sid, NEW hd \in Handle,
               SessionResume(h, c, s, hd)
        PROVE  HolderStep
    <2> DEFINE binding == [Idle EXCEPT !.pc = "bind", !.conn = c, !.sid = s]
               failing == [Idle EXCEPT !.pc = "closeDB", !.path = CwdOf[s], !.db = hd]
    <2>1. ~Using(h) /\ CwdOf[s] \in Path
      BY <1>2, PathAssumption DEF SessionResume, Begin, Using
    <2>2. binding.pc = "bind" /\ failing.pc = "closeDB" /\ failing.path = CwdOf[s] /\ failing.db = hd
      BY DEF Idle
    <2>3. CASE UNCHANGED <<sessVars, dbVars>> /\ th' = [th EXCEPT ![h] = binding]
      <3>1. th'[h].pc = "bind" /\ OthersSame(h)
        BY <1>t, <2>2, <2>3 DEF OthersSame
      <3> QED BY <2>1, <2>3, <3>1, QuietUsers DEF HolderStep, SameStep, sessVars
    <2>4. CASE s \notin sessions /\ LoadDB(CwdOf[s], hd) /\ AddSession(s, hd)
               /\ th' = [th EXCEPT ![h] = binding]
      <3>1. th'[h].pc = "bind" /\ OthersSame(h)
        BY <1>t, <2>2, <2>4 DEF OthersSame
      <3> QED BY <2>1, <2>4, <3>1, QuietUsers DEF HolderStep, AddSessionStep
    <2>5. CASE LoadDB(CwdOf[s], hd) /\ th' = [th EXCEPT ![h] = failing] /\ UNCHANGED sessVars
      <3>1. th'[h] = failing /\ OthersSame(h)
        BY <1>t, <2>5 DEF OthersSame
      <3> QED BY <2>1, <2>2, <2>5, <3>1 DEF HolderStep, StartUseStep, sessVars
    <2> QED BY <1>2, <2>3, <2>4, <2>5 DEF SessionResume
  <1>3. ASSUME NEW h \in Handler, Bind(h) \/ UnregisterConnCall(h) \/ Unbind(h)
        PROVE  HolderStep
    <2>1. /\ ~Using(h) /\ th'[h].pc \notin {"useDB", "closeDB"}
          /\ OthersSame(h)
      BY <1>t, <1>3 DEF Bind, UnregisterConnCall, Unbind, Goto, Using, Thread, OthersSame
    <2>2. UNCHANGED <<sessions, sessDB, dbVars>>
      BY <1>3 DEF Bind, UnregisterConnCall, Unbind, sessVars
    <2> QED BY <2>1, <2>2, QuietUsers DEF HolderStep, SameStep
  <1>4. ASSUME NEW h \in Handler, RegisterConnCall(h) \/ CancelSessionRelease(h)
        PROVE  HolderStep
    <2>1. /\ ~Using(h) /\ th'[h].pc \notin {"useDB", "closeDB"}
          /\ OthersSame(h)
      BY <1>t, <1>4 DEF RegisterConnCall, CancelSessionRelease, Goto, Return, Idle, Using, Thread, OthersSame
    <2>2. UNCHANGED <<sessions, sessDB, dbVars>>
      BY <1>4 DEF RegisterConnCall, CancelSessionRelease, sessVars
    <2> QED BY <2>1, <2>2, QuietUsers DEF HolderStep, SameStep
  <1>5. ASSUME NEW h \in Handler, NEW c \in Conn, NEW s \in Sid, SessionClose(h, c, s)
        PROVE  HolderStep
    <2>1. /\ ~Using(h) /\ th'[h].pc = "unregister"
          /\ OthersSame(h)
      BY <1>t, <1>5 DEF SessionClose, Begin, Idle, Using, OthersSame
    <2>2. UNCHANGED <<sessions, sessDB, dbVars>>
      BY <1>5 DEF SessionClose, sessVars
    <2> QED BY <2>1, <2>2, QuietUsers DEF HolderStep, SameStep
  <1>6. ASSUME NEW h \in Handler, NEW c \in Conn, Close(h, c) PROVE HolderStep
    <2>1. ~Using(h) /\ UNCHANGED <<sessions, sessDB, dbVars>>
      BY <1>6 DEF Close, Using, sessVars
    <2>2. CASE UNCHANGED th
      BY <2>1, <2>2 DEF HolderStep, SameStep, UsersSame, Using
    <2>3. ASSUME NEW s \in Sid, NEW todo,
                 th' = [th EXCEPT ![h] =
                   [Idle EXCEPT !.pc = "unregister", !.conn = c, !.sid = s,
                                !.close = TRUE, !.todo = todo]]
          PROVE  HolderStep
      <3>1. th'[h].pc = "unregister" /\ OthersSame(h)
        BY <1>t, <2>3 DEF Idle, OthersSame
      <3> QED BY <2>1, <3>1, QuietUsers DEF HolderStep, SameStep
    <2> QED BY <1>t, <1>6, <2>2, <2>3 DEF Close, TypeInv, ConnType
  <1>7. ASSUME NEW h \in Handler, NEW t \in Timer, ScheduleSessionRelease(h, t) PROVE HolderStep
    <2>1. /\ ~Using(h) /\ th'[h].pc \notin {"useDB", "closeDB"}
          /\ OthersSame(h)
      <3>1. th[h].pc = "schedule" /\ NextBound(h)
        BY <1>7 DEF ScheduleSessionRelease
      <3>2. CASE Return(h)
        BY <1>t, <3>1, <3>2 DEF Return, Idle, Using, OthersSame
      <3>3. ASSUME NEW s \in th[h].todo,
                   th' = [th EXCEPT ![h].pc = "unregister", ![h].sid = s, ![h].todo = @ \ {s}]
            PROVE  th'[h].pc = "unregister" /\ OthersSame(h)
        BY <1>t, <3>3 DEF Thread, OthersSame
      <3> QED BY <3>1, <3>2, <3>3 DEF NextBound, Using
    <2>2. UNCHANGED <<sessions, sessDB, dbVars>>
      BY <1>7 DEF ScheduleSessionRelease
    <2> QED BY <2>1, <2>2, QuietUsers DEF HolderStep, SameStep
  <1>8. ASSUME NEW h \in Handler, NEW s \in Sid, NEW p \in Path, SessionDelete(h, s, p)
        PROVE  HolderStep
    <2>1. /\ ~Using(h) /\ th'[h].pc \notin {"useDB", "closeDB"}
          /\ OthersSame(h)
      BY <1>t, <1>8 DEF SessionDelete, Begin, Idle, Using, OthersSame
    <2>2. UNCHANGED <<sessions, sessDB, dbVars>>
      BY <1>8 DEF SessionDelete
    <2> QED BY <2>1, <2>2, QuietUsers DEF HolderStep, SameStep
  <1>9. ASSUME NEW h \in Handler, CloseSession(h) PROVE HolderStep
    <2>1. /\ ~Using(h) /\ th'[h].pc = "loadDB"
          /\ OthersSame(h)
      BY <1>t, <1>9 DEF CloseSession, Goto, Using, Thread, OthersSame
    <2>2. CASE UNCHANGED <<sessVars, dbVars>>
      BY <2>1, <2>2, QuietUsers DEF HolderStep, SameStep, sessVars
    <2>3. ASSUME th[h].sid \in sessions, RemoveSession(th[h].sid) PROVE HolderStep
      <3> QED BY <2>1, <2>3, QuietUsers DEF HolderStep, RemoveSessionStep
    <2> QED BY <1>9, <2>2, <2>3 DEF CloseSession
  <1>10. ASSUME NEW h \in Handler, NEW p \in Path, NEW hd \in Handle, UseRequest(h, p, hd)
         PROVE  HolderStep
    <2>1. /\ ~Using(h) /\ th'[h].pc = "useDB" /\ th'[h].path = p /\ th'[h].db = hd
          /\ OthersSame(h)
      BY <1>t, <1>10 DEF UseRequest, Begin, Idle, Using, OthersSame
    <2>2. LoadDB(p, hd) /\ UNCHANGED <<sessions, sessDB>>
      BY <1>10 DEF UseRequest, sessVars
    <2> QED BY <2>1, <2>2 DEF HolderStep, StartUseStep
  <1>11. ASSUME NEW h \in Handler, NEW hd \in Handle, LoadDBStep(h, hd) PROVE HolderStep
    <2>1. /\ ~Using(h) /\ th[h].path \in Path
          /\ th'[h].pc = "useDB" /\ th'[h].path = th[h].path /\ th'[h].db = hd
          /\ OthersSame(h)
      BY <1>t, <1>11 DEF LoadDBStep, ThreadInv, Using, Thread, OthersSame
    <2>2. LoadDB(th[h].path, hd) /\ UNCHANGED <<sessions, sessDB>>
      BY <1>11 DEF LoadDBStep, sessVars
    <2> QED BY <2>1, <2>2 DEF HolderStep, StartUseStep
  <1>12. ASSUME NEW h \in Handler, UseDB(h) PROVE HolderStep
    <2>1. \A k \in Handler : /\ Using(k)' = Using(k)
                             /\ Using(k) => th'[k].path = th[k].path /\ th'[k].db = th[k].db
      BY <1>t, <1>12 DEF UseDB, Goto, Using, Thread
    <2>2. UNCHANGED <<sessions, sessDB, dbVars>>
      BY <1>12 DEF UseDB, sessVars
    <2> QED BY <2>1, <2>2 DEF HolderStep, SameStep, UsersSame
  <1>13. ASSUME NEW h \in Handler, CloseDBStep(h) PROVE HolderStep
    <2>1. /\ Using(h) /\ th'[h].pc = "idle"
          /\ OthersSame(h)
      BY <1>t, <1>13 DEF CloseDBStep, Return, Idle, Using, OthersSame
    <2>2. CloseDB(th[h].path) /\ UNCHANGED <<sessions, sessDB>>
      BY <1>13 DEF CloseDBStep, sessVars
    <2> QED BY <2>1, <2>2 DEF HolderStep, EndUseStep
  <1>14. ASSUME UNCHANGED <<sessions, sessDB, dbVars, th>> PROVE HolderStep
    BY <1>14 DEF HolderStep, SameStep, UsersSame, Using
  <1>15. ASSUME NEW s \in Sid, SetBackground(s) PROVE HolderStep
    BY <1>14, <1>15 DEF SetBackground
  <1>16. ASSUME NEW t \in Timer, TimerFires(t) \/ ReleaseCheck(t) PROVE HolderStep
    BY <1>14, <1>16 DEF TimerFires, ReleaseCheck, sessVars
  <1>17. ASSUME NEW t \in Timer, NEW u \in Timer, ReleaseSession(t, u) PROVE HolderStep
    <2>1. UNCHANGED th
      BY <1>17 DEF ReleaseSession
    <2>2. CASE UNCHANGED <<sessions, sessDB, dbVars>>
      BY <1>14, <2>1, <2>2
    <2>3. ASSUME timers[t].sid \in sessions, RemoveSession(timers[t].sid) PROVE HolderStep
      <3>1. \A k \in Handler : Using(k)' = Using(k) /\ (Using(k) => th'[k] = th[k])
        BY <2>1 DEF Using
      <3> QED BY <2>3, <3>1 DEF HolderStep, RemoveSessionStep, UsersSame
    <2> QED BY <1>17, <2>2, <2>3 DEF ReleaseSession, sessVars
  <1>18. CASE UNCHANGED vars
    BY <1>14, <1>18 DEF vars, sessVars
  <1> QED
    BY <1>1, <1>2, <1>3, <1>4, <1>5, <1>6, <1>7, <1>8, <1>9, <1>10, <1>11, <1>12, <1>13,
       <1>15, <1>16, <1>17, <1>18
    DEF Next, Request, Continue, Release

LEMMA SameUsersMarked ==
  ASSUME UsersMarked, UsersSame, misspelt \subseteq misspelt' PROVE UsersMarked'
  BY DEF UsersMarked, UsersSame

\* A session joins or leaves the holders of its directory.
LEMMA PoolAdd ==
  ASSUME TypeInv, PoolInv, NEW s \in Sid, NEW hd \in Handle, AddSessionStep(s, hd)
  PROVE  PoolInv'
  <1>1. /\ CwdOf[s] \in Dir /\ CwdOf[s] \in Path /\ Clean[CwdOf[s]] = CwdOf[s]
        /\ LoadDB(CwdOf[s], hd) /\ UsersSame /\ MappedOpen /\ UsersMarked
    BY PathAssumption DEF AddSessionStep, PoolInv
  <1>2. misspelt' = misspelt /\ Clear' = Clear
    BY <1>1 DEF LoadDB, Spelt, Clear
  <1>3. MappedOpen' /\ \A e \in Dir \ {CwdOf[s]} : SameEntry(e)
    BY <1>1, LoadElsewhere
  <1>4. ASSUME NEW e \in Clear PROVE DirInv(e)'
    <2>1. e \in Dir /\ DirInv(e)
      BY DEF Clear, PoolInv
    <2>2. CASE e = CwdOf[s]
      BY <1>1, <2>1, <2>2, AddedHolder, DirAcquire
    <2>3. CASE e # CwdOf[s]
      <3>1. SameHolders(e)
        BY <2>1, <2>3, AddedHolder DEF SameHolders
      <3> QED BY <1>3, <2>1, <2>3, <3>1, DirKept
    <2> QED BY <2>2, <2>3
  <1>5. UsersMarked'
    BY <1>1, <1>2, SameUsersMarked
  <1> QED BY <1>2, <1>3, <1>4, <1>5 DEF PoolInv

LEMMA PoolRemove ==
  ASSUME TypeInv, PoolInv, NEW s \in sessions, RemoveSessionStep(s) PROVE PoolInv'
  <1>1. /\ CwdOf[s] \in Dir /\ CwdOf[s] \in Path /\ Clean[CwdOf[s]] = CwdOf[s]
        /\ CloseDB(CwdOf[s]) /\ UsersSame /\ MappedOpen /\ UsersMarked
    BY PathAssumption, RemovedHolder DEF RemoveSessionStep, PoolInv
  <1>2. /\ MappedOpen' /\ misspelt' = misspelt
        /\ \A e \in Dir \ {CwdOf[s]} : SameEntry(e)
    BY <1>1, CloseElsewhere
  <1>3. Clear' = Clear
    BY <1>2 DEF Clear
  <1>4. ASSUME NEW e \in Clear PROVE DirInv(e)'
    <2>1. e \in Dir /\ DirInv(e)
      BY DEF Clear, PoolInv
    <2>2. CASE e = CwdOf[s]
      BY <1>1, <2>1, <2>2, RemovedHolder, DirRelease
    <2>3. CASE e # CwdOf[s]
      <3>1. SameHolders(e)
        BY <2>1, <2>3, RemovedHolder DEF SameHolders
      <3> QED BY <1>2, <2>1, <2>3, <3>1, DirKept
    <2> QED BY <2>2, <2>3
  <1>5. UsersMarked'
    BY <1>1, <1>2, SameUsersMarked
  <1> QED BY <1>2, <1>3, <1>4, <1>5 DEF PoolInv

\* A request joins or leaves the holders of the directory it spells: a correct
\* spelling counts, another one spoils the directory and is not counted back.
LEMMA PoolStart ==
  ASSUME TypeInv, PoolInv, NEW h \in Handler, NEW p \in Path, NEW hd \in Handle,
         StartUseStep(h, p, hd)
  PROVE  PoolInv'
  <1>1. /\ Clean[p] \in Dir /\ (p \in Dir => Clean[p] = p)
        /\ LoadDB(p, hd) /\ MappedOpen /\ UsersMarked
    BY PathAssumption DEF StartUseStep, PoolInv
  <1>2. misspelt' = IF p \in Dir THEN misspelt ELSE misspelt \cup {Clean[p]}
    BY <1>1 DEF LoadDB, Spelt
  <1>3. MappedOpen' /\ \A e \in Dir \ {Clean[p]} : SameEntry(e)
    BY <1>1, LoadElsewhere
  <1>4. ASSUME NEW e \in Clear' PROVE DirInv(e)'
    <2>1. e \in Dir /\ e \in Clear /\ DirInv(e)
      BY <1>2 DEF Clear, PoolInv
    <2>2. CASE e = Clean[p]
      <3>1. p \in Dir /\ e = p
        BY <1>1, <1>2, <2>2 DEF Clear
      <3> QED BY <1>1, <2>1, <3>1, StartedHolder, DirAcquire
    <2>3. CASE e # Clean[p]
      <3>1. SameHolders(e)
        BY <2>1, <2>3, StartedHolder DEF SameHolders
      <3> QED BY <1>3, <2>1, <2>3, <3>1, DirKept
    <2> QED BY <2>2, <2>3
  <1>5. UsersMarked'
    BY <1>1, <1>2 DEF UsersMarked, StartUseStep, OthersSame, Using
  <1> QED BY <1>3, <1>4, <1>5 DEF PoolInv

LEMMA PoolEnd ==
  ASSUME TypeInv, PoolInv, NEW h \in Handler, EndUseStep(h) PROVE PoolInv'
  <1> DEFINE p == th[h].path
  <1>1. /\ p \in Path /\ Clean[p] \in Dir /\ (p \in Dir => Clean[p] = p)
        /\ CloseDB(p) /\ MappedOpen /\ UsersMarked /\ Using(h)
    BY PathAssumption, EndedHolder DEF EndUseStep, PoolInv
  <1>2. /\ MappedOpen' /\ misspelt' = misspelt
        /\ \A e \in Dir \ {Clean[p]} : SameEntry(e)
    BY <1>1, CloseElsewhere
  <1>3. Clear' = Clear
    BY <1>2 DEF Clear
  <1>4. ASSUME NEW e \in Clear PROVE DirInv(e)'
    <2>1. e \in Dir /\ DirInv(e)
      BY DEF Clear, PoolInv
    <2>2. CASE e = Clean[p]
      <3>1. p \in Dir /\ e = p
        BY <1>1, <2>2 DEF Clear, UsersMarked
      <3> QED BY <1>1, <2>1, <3>1, EndedHolder, DirRelease
    <2>3. CASE e # Clean[p]
      <3>1. SameHolders(e)
        BY <2>1, <2>3, EndedHolder DEF SameHolders
      <3> QED BY <1>2, <2>1, <2>3, <3>1, DirKept
    <2> QED BY <2>2, <2>3
  <1>5. UsersMarked'
    BY <1>1, <1>2 DEF UsersMarked, EndUseStep, OthersSame, Using
  <1> QED BY <1>2, <1>3, <1>4, <1>5 DEF PoolInv

LEMMA StepPool ==
  ASSUME TypeInv, CreatedInv, PoolInv, [Next]_vars PROVE PoolInv'
  <1>1. CASE SameStep
    <2>1. \A d \in Dir : DirInv(d) => DirInv(d)'
      BY <1>1, SameStepHolders, DirKept
    <2>2. misspelt' = misspelt /\ dbs' = dbs /\ fileOf' = fileOf /\ UsersSame
      BY <1>1 DEF SameStep, dbVars
    <2>3. Clear' = Clear /\ MappedOpen' /\ UsersMarked'
      BY <2>2, SameUsersMarked DEF Clear, MappedOpen, PoolInv
    <2>4. \A d \in Clear : DirInv(d)'
      BY <2>1 DEF Clear, PoolInv
    <2> QED BY <2>3, <2>4 DEF PoolInv
  <1>2. ASSUME NEW s \in Sid, NEW hd \in Handle, AddSessionStep(s, hd) PROVE PoolInv'
    BY <1>2, PoolAdd
  <1>3. ASSUME NEW s \in sessions, RemoveSessionStep(s) PROVE PoolInv'
    BY <1>3, PoolRemove
  <1>4. ASSUME NEW h \in Handler, NEW p \in Path, NEW hd \in Handle, StartUseStep(h, p, hd)
        PROVE  PoolInv'
    BY <1>4, PoolStart
  <1>5. ASSUME NEW h \in Handler, EndUseStep(h) PROVE PoolInv'
    BY <1>5, PoolEnd
  <1> QED BY <1>1, <1>2, <1>3, <1>4, <1>5, StepHolders DEF HolderStep

LEMMA PoolInvariant == Spec => [](TypeInv /\ CreatedInv /\ PoolInv)
  <1>1. Init => TypeInv /\ CreatedInv /\ PoolInv
    BY InitType, InitPool
  <1>2. TypeInv /\ CreatedInv /\ PoolInv /\ [Next]_vars => (TypeInv /\ CreatedInv /\ PoolInv)'
    BY StepType, StepCreated, StepPool
  <1> QED BY <1>1, <1>2, PTL DEF Spec

\* Every reference is counted once: the count of a directory nobody misspelt
\* is the number of loaded sessions and running requests that hold it,
\* whatever is misspelt elsewhere (loadDB, closeDB).
THEOREM CountsExact == Spec => []RefsExact
  <1>1. PoolInv => RefsExact
    BY DEF PoolInv, DirInv, RefsExact
  <1> QED BY <1>1, PoolInvariant, PTL

\* No session and no request holds a database another one has closed, unless
\* its own directory was misspelt.
THEOREM HandlesShared == Spec => []HoldersShareOpenHandle
  <1>1. TypeInv /\ PoolInv => HoldersShareOpenHandle
    <2> SUFFICES ASSUME TypeInv, PoolInv PROVE HoldersShareOpenHandle
      OBVIOUS
    <2>1. \A d \in Clear : \A u \in Holders(d) : HandleOf(u) = dbs[d] /\ fileOf[HandleOf(u)] = d
      BY DEF PoolInv, DirInv, MappedOpen, Clear
    <2>2. ASSUME NEW s \in sessions, CwdOf[s] \in Clear
          PROVE  sessDB[s] = dbs[CwdOf[s]] /\ fileOf[sessDB[s]] = CwdOf[s]
      <3>1. s \in Sid /\ s \in Holders(CwdOf[s])
        BY DEF TypeInv, SessionType, Holders
      <3> QED BY <2>1, <2>2, <3>1 DEF HandleOf
    <2>3. ASSUME NEW h \in Handler, Using(h), Clean[th[h].path] \in Clear
          PROVE  th[h].db = dbs[Clean[th[h].path]] /\ fileOf[th[h].db] = Clean[th[h].path]
      <3>1. h \in Holders(Clean[th[h].path]) /\ h \notin Sid
        BY <2>3, FiniteAssumption DEF Holders
      <3> QED BY <2>1, <2>3, <3>1 DEF HandleOf
    <2> QED BY <2>2, <2>3 DEF HoldersShareOpenHandle
  <1> QED BY <1>1, PoolInvariant, PTL

\* A handle is open on the database of a directory nobody misspelt only while
\* somebody holds the directory, and it is the one they all hold.
THEOREM HandlesClosed == Spec => []NoHandleLeak
  <1>1. TypeInv /\ PoolInv => NoHandleLeak
    <2> SUFFICES ASSUME TypeInv, PoolInv, NEW hd \in dbOpen, fileOf[hd] \in Clear
                 PROVE  dbs[fileOf[hd]] = hd /\ Holders(fileOf[hd]) # {}
      BY DEF NoHandleLeak
    <2>1. hd \in Handle /\ hd # None
      BY NoneAssumption DEF dbOpen
    <2>2. DirInv(fileOf[hd])
      BY DEF PoolInv
    <2> QED BY <2>1, <2>2 DEF DirInv
  <1> QED BY <1>1, PoolInvariant, PTL

-----------------------------------------------------------------------------
(* The registry implements the pool of shared handles (HandlePool).          *)

\* The handles on the databases of directories nobody misspelt.
PoolOpen == {hd \in dbOpen : fileOf[hd] \in Clear}

\* The holders of the registry are the users of the pool, with the handles
\* they keep, as long as their directory was not misspelt.
HeldExact ==
  /\ Held = [u \in User |-> Held[u]]
  /\ \A d \in Clear : \A u \in Holders(d) :
       u \in User /\ Held[u] = [dir |-> d, handle |-> HandleOf(u)]
  /\ \A u \in User : (\A d \in Clear : u \notin Holders(d)) => Held[u] = NoHold

LEMMA HeldIsExact == TypeInv => HeldExact
  <1> SUFFICES ASSUME TypeInv PROVE HeldExact
    OBVIOUS
  <1>1. Held = [u \in User |-> Held[u]]
    BY DEF Held
  <1>2. ASSUME NEW d \in Clear, NEW u \in Holders(d)
        PROVE  u \in User /\ Held[u] = [dir |-> d, handle |-> HandleOf(u)]
    <2>1. CASE u \in sessions /\ CwdOf[u] = d
      <3>1. u \in Sid
        BY <2>1 DEF TypeInv, SessionType
      <3> QED BY <2>1, <3>1 DEF Held, User, HandleOf
    <2>2. CASE u \in Handler /\ Using(u) /\ Clean[th[u].path] = d
      <3>1. u \notin Sid
        BY <2>2, FiniteAssumption
      <3> QED BY <2>2, <3>1 DEF Held, User, HandleOf
    <2> QED BY <2>1, <2>2 DEF Holders
  <1>3. ASSUME NEW u \in User, \A d \in Clear : u \notin Holders(d) PROVE Held[u] = NoHold
    <2>1. ~(u \in sessions /\ CwdOf[u] \in Clear)
      BY <1>3 DEF Holders
    <2>2. ~(u \in Handler /\ Using(u) /\ Clean[th[u].path] \in Clear)
      BY <1>3 DEF Holders
    <2> QED BY <2>1, <2>2 DEF Held
  <1> QED BY <1>1, <1>2, <1>3 DEF HeldExact

LEMMA HeldFields ==
  ASSUME HeldExact, NEW d \in Clear, NEW u \in Holders(d)
  PROVE  u \in User /\ Held[u].dir = d /\ Held[u].handle = HandleOf(u)
  <1>1. u \in User /\ Held[u] = [dir |-> d, handle |-> HandleOf(u)]
    BY DEF HeldExact
  <1> QED BY <1>1

LEMMA UsersAreHolders ==
  ASSUME HeldExact, NEW d \in Clear PROVE Pool!UsersOf(d) = Holders(d)
  <1>1. ASSUME NEW u \in Holders(d) PROVE u \in Pool!UsersOf(d)
    BY <1>1, HeldFields DEF Pool!UsersOf
  <1>2. ASSUME NEW u \in User, Held[u].dir = d PROVE u \in Holders(d)
    <2>1. Held[u] # NoHold
      BY <1>2, NoneIsNothing DEF NoHold, Clear
    <2>2. PICK e \in Clear : u \in Holders(e)
      BY <2>1 DEF HeldExact
    <2>3. Held[u].dir = e
      BY <2>2, HeldFields
    <2> QED BY <1>2, <2>2, <2>3
  <1> QED BY <1>1, <1>2 DEF Pool!UsersOf

LEMMA HoldsOne ==
  ASSUME HeldExact, NEW d \in Clear, NEW e \in Clear, NEW u \in Holders(d), u \in Holders(e)
  PROVE  d = e
  <1>1. Held[u].dir = d /\ Held[u].dir = e
    BY HeldFields
  <1> QED BY <1>1

\* Who holds the same directories as before, with the same handles, is held
\* to the same.
LEMMA HeldKept ==
  ASSUME HeldExact, HeldExact', NEW v \in User,
         \A e \in Clear' : v \in Holders(e)' => e \in Clear /\ v \in Holders(e),
         \A e \in Clear : v \in Holders(e) =>
           e \in Clear' /\ v \in Holders(e)' /\ HandleOf(v)' = HandleOf(v)
  PROVE  Held'[v] = Held[v]
  <1>1. ASSUME NEW e \in Clear, v \in Holders(e) PROVE Held'[v] = Held[v]
    <2>1. e \in Clear' /\ v \in Holders(e)' /\ HandleOf(v)' = HandleOf(v)
      BY <1>1
    <2>2. Held'[v] = [dir |-> e, handle |-> HandleOf(v)']
      BY <2>1 DEF HeldExact
    <2> QED BY <1>1, <2>1, <2>2 DEF HeldExact
  <1>2. CASE \A e \in Clear : v \notin Holders(e)
    <2>1. \A e \in Clear' : v \notin Holders(e)'
      BY <1>2
    <2>2. Held'[v] = NoHold
      BY <2>1 DEF HeldExact, NoHold, User
    <2> QED BY <1>2, <2>2 DEF HeldExact
  <1> QED BY <1>1, <1>2

LEMMA HeldFunction ==
  ASSUME HeldExact, HeldExact', NEW u \in User,
         \A v \in User \ {u} : Held'[v] = Held[v]
  PROVE  Held' = [Held EXCEPT ![u] = Held'[u]]
  <1>1. /\ Held = [v \in User |-> Held[v]]
        /\ Held' = [v \in User |-> Held'[v]]
    BY DEF HeldExact, User
  <1> QED BY <1>1

\* A step on a directory nobody misspelt acquires or releases in the pool.
LEMMA AcquireMaps ==
  ASSUME TypeInv, PoolInv, HeldExact, HeldExact',
         NEW d \in Clear, misspelt' = misspelt, NEW hd \in Handle, LoadDB(d, hd),
         NEW u, \A e \in Dir : u \notin Holders(e), HandleOf(u)' = hd,
         \A e \in Dir : Holders(e)' = IF e = d THEN Holders(e) \cup {u} ELSE Holders(e),
         \A e \in Dir : \A v \in Holders(e) : HandleOf(v)' = HandleOf(v),
         \A e \in Dir \ {d} : SameEntry(e), DirInv(d)', MappedOpen'
  PROVE  Pool!Next
  <1>1. d \in Dir /\ Clear' = Clear /\ DBType /\ None \notin Dir /\ Clean[d] = d
    BY PathAssumption, NoneIsNothing DEF Clear, TypeInv
  <1>2. u \in Holders(d)' /\ u \in User
    BY <1>1 DEF HeldExact, User
  <1>3. Held[u] = Pool!NoHold
    BY <1>1, <1>2 DEF HeldExact, NoHold, Pool!NoHold, Clear
  <1>4. Held' = [Held EXCEPT ![u] = [dir |-> d, handle |-> hd]]
    <2>1. Held'[u] = [dir |-> d, handle |-> hd]
      BY <1>1, <1>2 DEF HeldExact
    <2>2. ASSUME NEW v \in User \ {u} PROVE Held'[v] = Held[v]
      BY <1>1, <2>2, HeldKept DEF Clear
    <2> QED BY <1>2, <2>1, <2>2, HeldFunction
  <1>5. IF Pool!UsersOf(d) = {} THEN hd \notin PoolOpen
                                ELSE \A v \in Pool!UsersOf(d) : Held[v].handle = hd
    <2>1. Pool!UsersOf(d) = Holders(d) /\ DirInv(d)
      BY UsersAreHolders DEF PoolInv
    <2>2. CASE Holders(d) = {}
      <3>1. dbs[d] = None
        BY <2>1, <2>2 DEF DirInv
      <3> QED BY <1>1, <2>1, <2>2, <3>1 DEF LoadDB, Fresh, PoolOpen
    <2>3. CASE Holders(d) # {}
      <3>1. hd = dbs[d]
        BY <1>1, <2>1, <2>3 DEF DirInv, LoadDB
      <3>2. \A v \in Holders(d) : Held[v].handle = hd
        BY <2>1, <3>1, HeldFields DEF DirInv
      <3> QED BY <2>1, <2>3, <3>2
    <2> QED BY <2>2, <2>3
  <1>6. PoolOpen' = PoolOpen \cup {hd}
    <2>1. dbs'[d] = hd /\ fileOf'[hd] = d
      <3>1. dbs'[d] # None /\ u \in Holders(d)' /\ HandleOf(u)' = dbs'[d]
        BY <1>2 DEF DirInv
      <3> QED BY <1>1, <3>1 DEF MappedOpen
    <2>2. \A g \in Handle : fileOf'[g] = d => g = hd
      BY <2>1 DEF DirInv
    <2>3. \A g \in Handle : fileOf[g] = d => g = hd
      <3> SUFFICES ASSUME NEW g \in Handle, fileOf[g] = d PROVE g = hd
        OBVIOUS
      <3>1. dbs[d] = g /\ g # None
        BY NoneAssumption DEF PoolInv, DirInv
      <3> QED BY <1>1, <3>1 DEF LoadDB
    <2>4. \A g \in Handle : g \in PoolOpen <=> fileOf[g] \in Clear
      BY <1>1 DEF PoolOpen, dbOpen, Clear
    <2>5. \A g \in Handle : g \in PoolOpen' <=> fileOf'[g] \in Clear
      BY <1>1 DEF PoolOpen, dbOpen, Clear
    <2>6. \A g \in Handle \ {hd} : fileOf'[g] \in Clear <=> fileOf[g] \in Clear
      BY <1>1, <2>2, <2>3 DEF Clear, SameEntry
    <2>7. PoolOpen \subseteq Handle /\ PoolOpen' \subseteq Handle
      BY DEF PoolOpen, dbOpen
    <2> QED BY <2>1, <2>4, <2>5, <2>6, <2>7
  <1>7. Pool!Acquire(u, d, hd)
    BY <1>1, <1>3, <1>4, <1>5, <1>6 DEF Pool!Acquire, PoolOpen, Clear
  <1> QED BY <1>1, <1>2, <1>7 DEF Pool!Next

LEMMA ReleaseMaps ==
  ASSUME TypeInv, PoolInv, HeldExact, HeldExact',
         NEW d \in Clear, misspelt' = misspelt, NEW u \in Holders(d),
         \A e \in Dir : Holders(e)' = IF e = d THEN Holders(e) \ {u} ELSE Holders(e),
         \A e \in Dir : \A v \in Holders(e)' : HandleOf(v)' = HandleOf(v),
         \A e \in Dir \ {d} : SameEntry(e),
         \A g \in Handle : fileOf'[g] = d <=> (fileOf[g] = d /\ Holders(d)' # {})
  PROVE  Pool!Next
  <1>1. d \in Dir /\ Clear' = Clear /\ None \notin Dir
    BY NoneIsNothing DEF Clear
  <1>2. u \in User /\ Held[u] = [dir |-> d, handle |-> dbs[d]]
    BY DEF HeldExact, PoolInv, DirInv
  <1>3. \A e \in Clear \ {d} : u \notin Holders(e)
    BY HoldsOne
  <1>4. Held' = [Held EXCEPT ![u] = Pool!NoHold]
    <2>1. Held'[u] = Pool!NoHold
      <3>1. \A e \in Clear' : u \notin Holders(e)'
        BY <1>1, <1>3 DEF Clear
      <3> QED BY <1>2, <3>1 DEF HeldExact, NoHold, Pool!NoHold, User
    <2>2. ASSUME NEW v \in User \ {u} PROVE Held'[v] = Held[v]
      BY <1>1, <2>2, HeldKept DEF Clear
    <2> QED BY <1>2, <2>1, <2>2, HeldFunction
  <1>5. Held[u] # Pool!NoHold
    BY <1>1, <1>2 DEF Pool!NoHold
  <1>6. PoolOpen' = IF Pool!UsersOf(d) = {u} THEN PoolOpen \ {dbs[d]} ELSE PoolOpen
    <2>1. Pool!UsersOf(d) = {u} <=> Holders(d)' = {}
      BY <1>1, UsersAreHolders
    <2>2. \A g \in Handle : g \in PoolOpen <=> fileOf[g] \in Clear
      BY <1>1 DEF PoolOpen, dbOpen, Clear
    <2>3. \A g \in Handle : g \in PoolOpen' <=> fileOf'[g] \in Clear
      BY <1>1 DEF PoolOpen, dbOpen, Clear
    <2>4. \A g \in Handle : fileOf[g] = d <=> g = dbs[d]
      BY <1>1 DEF PoolInv, DirInv, MappedOpen
    <2>5. \A g \in Handle : fileOf'[g] \in Clear <=>
            IF g = dbs[d] THEN Holders(d)' # {} ELSE fileOf[g] \in Clear
      BY <1>1, <2>4 DEF Clear, SameEntry
    <2>6. PoolOpen \subseteq Handle /\ PoolOpen' \subseteq Handle
      BY DEF PoolOpen, dbOpen
    <2>7. dbs[d] \in Handle => dbs[d] \in PoolOpen
      BY <2>2, <2>4
    <2> QED BY <2>1, <2>2, <2>3, <2>5, <2>6, <2>7
  <1>7. Pool!Release(u)
    BY <1>2, <1>4, <1>5, <1>6 DEF Pool!Release, PoolOpen
  <1> QED BY <1>2, <1>7 DEF Pool!Next

\* The first misspelt load of a directory takes it out of the pool.
LEMMA LoseMaps ==
  ASSUME TypeInv, PoolInv, HeldExact, HeldExact',
         NEW d \in Clear, misspelt' = misspelt \cup {d},
         \A e \in Dir \ {d} : SameHolders(e) /\ SameEntry(e)
  PROVE  Pool!Next
  <1>1. d \in Dir /\ Clear' = Clear \ {d} /\ None \notin Dir
    BY NoneIsNothing DEF Clear
  <1>2. Pool!UsersOf(d) = Holders(d)
    BY UsersAreHolders
  <1>3. Held' = [u \in User |-> IF u \in Pool!UsersOf(d) THEN Pool!NoHold ELSE Held[u]]
    <2>1. ASSUME NEW u \in User, u \in Holders(d) PROVE Held'[u] = Pool!NoHold
      <3>1. \A e \in Clear' : u \notin Holders(e)'
        BY <1>1, <2>1, HoldsOne DEF SameHolders, Clear
      <3> QED BY <2>1, <3>1 DEF HeldExact, NoHold, Pool!NoHold, User
    <2>2. ASSUME NEW u \in User, u \notin Holders(d) PROVE Held'[u] = Held[u]
      BY <1>1, <2>2, HeldKept DEF SameHolders, Clear
    <2>3. Held' = [u \in User |-> Held'[u]]
      BY DEF HeldExact, User
    <2> QED BY <1>2, <2>1, <2>2, <2>3
  <1>4. PoolOpen' = PoolOpen \ {Held[u].handle : u \in Pool!UsersOf(d)}
    <2>1. \A g \in Handle : g \in PoolOpen <=> fileOf[g] \in Clear
      BY <1>1 DEF PoolOpen, dbOpen, Clear
    <2>2. \A g \in Handle : g \in PoolOpen' <=> fileOf'[g] \in Clear'
      BY <1>1 DEF PoolOpen, dbOpen, Clear
    <2>3. \A g \in Handle : fileOf'[g] \in Clear' <=> fileOf[g] \in Clear \ {d}
      BY <1>1 DEF Clear, SameEntry
    <2>4. \A g \in Handle : fileOf[g] = d <=> g \in {Held[u].handle : u \in Pool!UsersOf(d)}
      <3> SUFFICES ASSUME NEW g \in Handle
                   PROVE  fileOf[g] = d <=> \E u \in Holders(d) : Held[u].handle = g
        BY <1>2
      <3>1. DirInv(d) /\ (dbs[d] # None => fileOf[dbs[d]] = d) /\ g # None
        BY <1>1, NoneAssumption DEF PoolInv, MappedOpen
      <3>2. \A u \in Holders(d) : Held[u].handle = dbs[d]
        BY <3>1, HeldFields DEF DirInv
      <3> QED BY <3>1, <3>2 DEF DirInv
    <2>5. PoolOpen \subseteq Handle /\ PoolOpen' \subseteq Handle
      BY DEF PoolOpen, dbOpen
    <2> QED BY <2>1, <2>2, <2>3, <2>4, <2>5
  <1>5. Pool!Lose(d)
    BY <1>3, <1>4 DEF Pool!Lose, PoolOpen, Clear
  <1> QED BY <1>1, <1>5 DEF Pool!Next

\* The pool does not see what happens to a misspelt directory.
LEMMA SameMaps ==
  ASSUME TypeInv, HeldExact, HeldExact', misspelt' = misspelt,
         \A e \in Clear : SameHolders(e) /\ SameEntry(e)
  PROVE  UNCHANGED <<Held, PoolOpen, misspelt>>
  <1>1. Clear' = Clear /\ None \notin Clear
    BY NoneIsNothing DEF Clear
  <1>2. ASSUME NEW v \in User PROVE Held'[v] = Held[v]
    BY <1>1, HeldKept DEF SameHolders
  <1>3. /\ Held = [v \in User |-> Held[v]]
        /\ Held' = [v \in User |-> Held'[v]]
    BY DEF HeldExact, User
  <1>4. \A g \in Handle : g \in PoolOpen' <=> g \in PoolOpen
    BY <1>1 DEF PoolOpen, dbOpen, SameEntry
  <1>5. PoolOpen \subseteq Handle /\ PoolOpen' \subseteq Handle
    BY DEF PoolOpen, dbOpen
  <1> QED BY <1>2, <1>3, <1>4, <1>5

LEMMA InitMaps == Init => Pool!Init
  <1> SUFFICES ASSUME Init PROVE Pool!Init
    OBVIOUS
  <1>1. \A u \in Handler : ~Using(u)
    BY DEF Init, Using, Idle
  <1>2. dbOpen = {}
    BY DEF Init, dbOpen
  <1> QED BY <1>1, <1>2 DEF Init, Held, Pool!Init, NoHold, Pool!NoHold

LEMMA AddMaps ==
  ASSUME TypeInv, PoolInv, PoolInv', HeldExact, HeldExact',
         NEW s \in Sid, NEW hd \in Handle, AddSessionStep(s, hd)
  PROVE  [Pool!Next]_<<Held, PoolOpen, misspelt>>
  <1>1. /\ CwdOf[s] \in Dir /\ CwdOf[s] \in Path /\ Clean[CwdOf[s]] = CwdOf[s]
        /\ LoadDB(CwdOf[s], hd) /\ MappedOpen
    BY PathAssumption DEF AddSessionStep, PoolInv
  <1>2. misspelt' = misspelt /\ Clear' = Clear
    BY <1>1 DEF LoadDB, Spelt, Clear
  <1>3. MappedOpen' /\ \A e \in Dir \ {CwdOf[s]} : SameEntry(e)
    BY <1>1, LoadElsewhere
  <1>4. CASE CwdOf[s] \in Clear
    <2>1. DirInv(CwdOf[s])'
      BY <1>2, <1>4 DEF PoolInv
    <2> QED BY <1>1, <1>2, <1>3, <1>4, <2>1, AddedHolder, AcquireMaps
  <1>5. CASE CwdOf[s] \notin Clear
    <2>1. \A e \in Clear : SameHolders(e) /\ SameEntry(e)
      BY <1>3, <1>5, AddedHolder DEF SameHolders, Clear
    <2> QED BY <1>2, <2>1, SameMaps
  <1> QED BY <1>4, <1>5

LEMMA RemoveMaps ==
  ASSUME TypeInv, PoolInv, HeldExact, HeldExact', NEW s \in sessions, RemoveSessionStep(s)
  PROVE  [Pool!Next]_<<Held, PoolOpen, misspelt>>
  <1>1. /\ CwdOf[s] \in Dir /\ CwdOf[s] \in Path /\ Clean[CwdOf[s]] = CwdOf[s]
        /\ CloseDB(CwdOf[s]) /\ MappedOpen
    BY PathAssumption, RemovedHolder DEF PoolInv
  <1>2. misspelt' = misspelt /\ \A e \in Dir \ {CwdOf[s]} : SameEntry(e)
    BY <1>1, CloseElsewhere
  <1>3. CASE CwdOf[s] \in Clear
    <2>1. DirInv(CwdOf[s])
      BY <1>3 DEF PoolInv
    <2>2. \A g \in Handle : fileOf'[g] = CwdOf[s] <=>
            (fileOf[g] = CwdOf[s] /\ Holders(CwdOf[s])' # {})
      BY <1>1, <2>1, RemovedHolder, DirRelease
    <2> QED BY <1>2, <1>3, <2>2, RemovedHolder, ReleaseMaps
  <1>4. CASE CwdOf[s] \notin Clear
    <2>1. \A e \in Clear : SameHolders(e) /\ SameEntry(e)
      BY <1>2, <1>4, RemovedHolder DEF SameHolders, Clear
    <2> QED BY <1>2, <2>1, SameMaps
  <1> QED BY <1>3, <1>4

LEMMA StartMaps ==
  ASSUME TypeInv, PoolInv, PoolInv', HeldExact, HeldExact',
         NEW h \in Handler, NEW p \in Path, NEW hd \in Handle, StartUseStep(h, p, hd)
  PROVE  [Pool!Next]_<<Held, PoolOpen, misspelt>>
  <1>1. /\ Clean[p] \in Dir /\ (p \in Dir => Clean[p] = p) /\ LoadDB(p, hd) /\ MappedOpen
    BY PathAssumption DEF StartUseStep, PoolInv
  <1>2. misspelt' = IF p \in Dir THEN misspelt ELSE misspelt \cup {Clean[p]}
    BY <1>1 DEF LoadDB, Spelt
  <1>3. MappedOpen' /\ \A e \in Dir \ {Clean[p]} : SameEntry(e)
    BY <1>1, LoadElsewhere
  <1>4. \A e \in Dir \ {Clean[p]} : SameHolders(e)
    BY StartedHolder DEF SameHolders
  <1>5. CASE Clean[p] \notin Clear
    <2>1. misspelt' = misspelt
      BY <1>1, <1>2, <1>5 DEF Clear
    <2>2. \A e \in Clear : SameHolders(e) /\ SameEntry(e)
      BY <1>3, <1>4, <1>5 DEF Clear
    <2> QED BY <2>1, <2>2, SameMaps
  <1>6. CASE Clean[p] \in Clear /\ p \in Dir
    <2>1. p \in Clear /\ misspelt' = misspelt /\ Clear' = Clear
      BY <1>1, <1>2, <1>6 DEF Clear
    <2>2. DirInv(p)'
      BY <2>1 DEF PoolInv
    <2>3. /\ \A e \in Dir : h \notin Holders(e)
          /\ \A e \in Dir : Holders(e)' = IF e = p THEN Holders(e) \cup {h} ELSE Holders(e)
          /\ HandleOf(h)' = hd
          /\ \A e \in Dir : \A v \in Holders(e) : HandleOf(v)' = HandleOf(v)
      BY <1>1, <1>6, StartedHolder
    <2>4. MappedOpen' /\ \A e \in Dir \ {p} : SameEntry(e)
      BY <1>1, <1>3, <1>6
    <2> QED BY <1>1, <2>1, <2>2, <2>3, <2>4, AcquireMaps
  <1>7. CASE Clean[p] \in Clear /\ p \notin Dir
    BY <1>2, <1>3, <1>4, <1>7, LoseMaps
  <1> QED BY <1>5, <1>6, <1>7

LEMMA EndMaps ==
  ASSUME TypeInv, PoolInv, HeldExact, HeldExact', NEW h \in Handler, EndUseStep(h)
  PROVE  [Pool!Next]_<<Held, PoolOpen, misspelt>>
  <1>0. PICK p \in Path : p = th[h].path
    BY EndedHolder
  <1>1. /\ Clean[p] \in Dir /\ (p \in Dir => Clean[p] = p)
        /\ CloseDB(p) /\ MappedOpen /\ UsersMarked /\ Using(h)
    BY <1>0, PathAssumption, EndedHolder DEF EndUseStep, PoolInv
  <1>2. misspelt' = misspelt /\ \A e \in Dir \ {Clean[p]} : SameEntry(e)
    BY <1>1, CloseElsewhere
  <1>3. CASE Clean[p] \in Clear
    <2>1. p \in Clear /\ Clean[p] = p /\ DirInv(p) /\ p \in Dir
      BY <1>0, <1>1, <1>3 DEF Clear, UsersMarked, PoolInv
    <2>2. /\ h \in Holders(p)
          /\ \A e \in Dir : Holders(e)' = IF e = p THEN Holders(e) \ {h} ELSE Holders(e)
          /\ \A e \in Dir : \A v \in Holders(e)' : HandleOf(v)' = HandleOf(v)
      BY <1>0, <2>1, EndedHolder
    <2>3. /\ Holders(p)' = Holders(p) \ {h}
          /\ \A v \in Holders(p)' : HandleOf(v)' = HandleOf(v)
      BY <2>1, <2>2
    <2>4. \A g \in Handle : fileOf'[g] = p <=> (fileOf[g] = p /\ Holders(p)' # {})
      BY <1>1, <2>1, <2>2, <2>3, DirRelease
    <2>5. \A e \in Dir \ {p} : SameEntry(e)
      BY <1>2, <2>1
    <2> QED BY <1>2, <2>1, <2>2, <2>4, <2>5, ReleaseMaps
  <1>4. CASE Clean[p] \notin Clear
    <2>1. \A e \in Clear : SameHolders(e) /\ SameEntry(e)
      BY <1>0, <1>2, <1>4, EndedHolder DEF SameHolders, Clear
    <2> QED BY <1>2, <2>1, SameMaps
  <1> QED BY <1>3, <1>4

LEMMA StepMaps ==
  ASSUME TypeInv, CreatedInv, PoolInv, PoolInv', HeldExact, HeldExact', [Next]_vars
  PROVE  [Pool!Next]_<<Held, PoolOpen, misspelt>>
  <1>1. CASE SameStep
    <2>1. misspelt' = misspelt /\ \A e \in Clear : SameHolders(e) /\ SameEntry(e)
      BY <1>1, SameStepHolders DEF SameStep, dbVars, Clear
    <2> QED BY <2>1, SameMaps
  <1>2. ASSUME NEW s \in Sid, NEW hd \in Handle, AddSessionStep(s, hd)
        PROVE  [Pool!Next]_<<Held, PoolOpen, misspelt>>
    BY <1>2, AddMaps
  <1>3. ASSUME NEW s \in sessions, RemoveSessionStep(s)
        PROVE  [Pool!Next]_<<Held, PoolOpen, misspelt>>
    BY <1>3, RemoveMaps
  <1>4. ASSUME NEW h \in Handler, NEW p \in Path, NEW hd \in Handle, StartUseStep(h, p, hd)
        PROVE  [Pool!Next]_<<Held, PoolOpen, misspelt>>
    BY <1>4, StartMaps
  <1>5. ASSUME NEW h \in Handler, EndUseStep(h)
        PROVE  [Pool!Next]_<<Held, PoolOpen, misspelt>>
    BY <1>5, EndMaps
  <1> QED BY <1>1, <1>2, <1>3, <1>4, <1>5, StepHolders DEF HolderStep

\* Whatever sessions, requests and delayed releases do to the counted handles,
\* the users of a directory see a pool until somebody misspells it: the first
\* opens the handle, all share it, the last closes it (loadDB and closeDB, all
\* their callers).
THEOREM Refinement == Spec => ImplementsPool
  <1>1. Init => Pool!Init
    BY InitMaps
  <1>2. /\ TypeInv /\ CreatedInv /\ PoolInv /\ PoolInv' /\ HeldExact /\ HeldExact' /\ [Next]_vars
        => [Pool!Next]_<<Held, PoolOpen, misspelt>>
    BY StepMaps
  <1>3. PoolOpen = {hd \in dbOpen : fileOf[hd] \in Clear}
    BY DEF PoolOpen
  <1> QED BY <1>1, <1>2, HeldIsExact, PoolInvariant, PTL DEF Spec, ImplementsPool, Pool!Spec, PoolOpen

-----------------------------------------------------------------------------
(* No loaded session is forgotten.  The release timer of a session is its    *)
(* own; a goroutine with sessions left to do is that of a closed connection, *)
(* on its way through them; and between binding a connection and taking the  *)
(* release back nobody can unbind it, for the locks are kept.                *)

Tended == {"bind", "register", "unregister", "unbind", "schedule", "closeSession"}
Attends(r, s) == (r.sid = s /\ r.pc \in Tended) \/ s \in r.todo
TimerAttends(s) ==
  releaseTimer[s] # None /\ \E t \in Timer : timers[t].sid = s /\ timers[t].pc # "idle"

TimersOwned ==
  \A s \in Sid : releaseTimer[s] # None /\ timers[releaseTimer[s]].pc # "idle" =>
                   timers[releaseTimer[s]].sid = s
TodoInv == \A h \in Handler : th[h].todo # {} => th[h].close /\ th[h].pc \in {"unregister", "schedule"}
CancelInv ==
  \A h \in Handler : th[h].pc = "cancel" =>
    connLock = h /\ th[h].conn \in sessionConnMap[th[h].sid]

Unforgotten == NeverStranded /\ TimersOwned /\ TodoInv /\ CancelInv

LEMMA StillAttended ==
  ASSUME NEW s \in Sid, Attended(s), \A g \in Handler : Attends(th[g], s) => Attends(th'[g], s),
         TimerAttends(s) => TimerAttends(s)'
  PROVE  Attended(s)'
  BY DEF Attended, Attends, TimerAttends, Tended

\* A step that only moves goroutines, and lets none of them drop what it attends to.
LEMMA MereMoves ==
  ASSUME NeverStranded, UNCHANGED <<sessions, releaseTimer, timers, sessionConnMap>>,
         sessions \in SUBSET Sid,
         \A s \in Sid : \A g \in Handler : Attends(th[g], s) => Attends(th'[g], s)
  PROVE  NeverStranded'
  <1> SUFFICES ASSUME NEW s \in sessions', sessionConnMap'[s] = {} PROVE Attended(s)'
    BY DEF NeverStranded
  <1>1. s \in Sid /\ Attended(s)
    BY DEF NeverStranded
  <1>2. TimerAttends(s) => TimerAttends(s)'
    BY DEF TimerAttends
  <1> QED BY <1>1, <1>2, StillAttended

\* What a goroutine that moves must be, for the two invariants about goroutines to hold.
WellPlaced(r) == /\ r.todo # {} => r.close /\ r.pc \in {"unregister", "schedule"}
                 /\ r.pc # "cancel"

LEMMA ThreadPlaced ==
  ASSUME TypeInv, TodoInv, CancelInv, NEW h \in Handler, NEW r \in Thread, WellPlaced(r),
         th' = [th EXCEPT ![h] = r],
         UNCHANGED <<connLock, sessionConnMap>>
  PROVE  TodoInv' /\ CancelInv' /\ th'[h] = r /\ \A g \in Handler \ {h} : th'[g] = th[g]
  <1>1. th'[h] = r /\ \A g \in Handler \ {h} : th'[g] = th[g]
    BY DEF TypeInv, ThreadsOK
  <1> QED BY <1>1 DEF TodoInv, CancelInv, WellPlaced

\* A goroutine that is neither on its way to a session nor in the middle of a list.
LEMMA AttendsNothing ==
  ASSUME TodoInv, NEW h \in Handler, th[h].pc \notin Tended
  PROVE  \A s \in Sid : ~Attends(th[h], s)
  BY DEF TodoInv, Attends, Tended

LEMMA TimersStay ==
  ASSUME TimersOwned, UNCHANGED <<releaseTimer, timers>> PROVE TimersOwned'
  BY DEF TimersOwned

\* Stop() ends the session's own timer and no other.
LEMMA StoppedOwn ==
  ASSUME TypeInv, TimersOwned, NEW s \in Sid
  PROVE  /\ \A t \in Timer : timers[t].sid # s => Stopped(s)[t] = timers[t]
         /\ \A t \in Timer : Stopped(s)[t] = timers[t] \/ Stopped(s)[t] = IdleTimer
  <1>1. CASE releaseTimer[s] # None /\ timers[releaseTimer[s]].pc = "armed"
    <2>1. releaseTimer[s] \in Timer /\ timers \in [Timer -> TimerState]
      BY <1>1 DEF TypeInv, SessionType, TimersOK
    <2>2. timers[releaseTimer[s]].sid = s
      BY <1>1 DEF TimersOwned
    <2>3. Stopped(s) = [timers EXCEPT ![releaseTimer[s]] = IdleTimer]
      BY <1>1 DEF Stopped
    <2> QED BY <2>1, <2>2, <2>3
  <1>2. CASE ~(releaseTimer[s] # None /\ timers[releaseTimer[s]].pc = "armed")
    BY <1>2 DEF Stopped
  <1> QED BY <1>1, <1>2

\* A session loses its timer: nobody else does.
LEMMA TimersDropped ==
  ASSUME TypeInv, TimersOwned, NEW s \in Sid,
         timers' = timers \/ timers' = Stopped(s),
         releaseTimer' = [releaseTimer EXCEPT ![s] = None]
  PROVE  /\ TimersOwned'
         /\ \A q \in Sid \ {s} : TimerAttends(q) => TimerAttends(q)'
  <1>1. \A t \in Timer : timers'[t] = timers[t] \/ (timers'[t] = IdleTimer /\ timers[t].sid = s)
    BY StoppedOwn
  <1>2. releaseTimer \in [Sid -> Timer \cup {None}] /\ IdleTimer.pc = "idle"
    BY DEF TypeInv, SessionType, IdleTimer
  <1>3. releaseTimer'[s] = None /\ \A q \in Sid \ {s} : releaseTimer'[q] = releaseTimer[q]
    BY <1>2
  <1>4. TimersOwned'
    BY <1>1, <1>2, <1>3 DEF TimersOwned
  <1>5. \A q \in Sid \ {s} : TimerAttends(q) => TimerAttends(q)'
    BY <1>1, <1>3 DEF TimerAttends
  <1> QED BY <1>4, <1>5

\* A session is given a timer that nobody has.
LEMMA TimersArmed ==
  ASSUME TypeInv, TimersOwned, NEW s \in Sid, NEW t \in Timer, FreshTimer(t), NEW old,
         old \in [Timer -> TimerState],
         \A u \in Timer : old[u] = timers[u] \/ (old[u] = IdleTimer /\ timers[u].sid = s),
         timers' = [old EXCEPT ![t] = [pc |-> "armed", sid |-> s]],
         releaseTimer' = [releaseTimer EXCEPT ![s] = t]
  PROVE  /\ TimersOwned' /\ TimerAttends(s)'
         /\ \A q \in Sid \ {s} : TimerAttends(q) => TimerAttends(q)'
  <1>1. /\ timers'[t] = [pc |-> "armed", sid |-> s]
        /\ \A u \in Timer \ {t} : timers'[u] = timers[u] \/ (timers'[u] = IdleTimer /\ timers[u].sid = s)
    OBVIOUS
  <1>2. /\ releaseTimer \in [Sid -> Timer \cup {None}] /\ IdleTimer.pc = "idle" /\ t # None
        /\ timers[t].pc = "idle" /\ \A q \in Sid : releaseTimer[q] # t
    BY NoneAssumption DEF TypeInv, SessionType, IdleTimer, FreshTimer
  <1>3. releaseTimer'[s] = t /\ \A q \in Sid \ {s} : releaseTimer'[q] = releaseTimer[q]
    BY <1>2
  <1>4. TimersOwned'
    BY <1>1, <1>2, <1>3 DEF TimersOwned
  <1>5. TimerAttends(s)'
    BY <1>1, <1>2, <1>3 DEF TimerAttends
  <1>6. \A q \in Sid \ {s} : TimerAttends(q) => TimerAttends(q)'
    BY <1>1, <1>2, <1>3 DEF TimerAttends
  <1> QED BY <1>4, <1>5, <1>6

LEMMA InitUnforgotten == Init => Unforgotten
  BY DEF Init, Unforgotten, NeverStranded, TimersOwned, TodoInv, CancelInv, Idle

\* A request begins, or goes on, and drops nothing: the registry and its timers are as before.
LEMMA MoveKeeps ==
  ASSUME TypeInv, Unforgotten, NEW h \in Handler, NEW r \in Thread, WellPlaced(r),
         th' = [th EXCEPT ![h] = r],
         \A s \in Sid : Attends(th[h], s) => Attends(r, s),
         UNCHANGED <<sessions, releaseTimer, timers, connLock, sessionConnMap>>
  PROVE  Unforgotten'
  <1>1. TodoInv' /\ CancelInv' /\ th'[h] = r /\ \A g \in Handler \ {h} : th'[g] = th[g]
    BY ThreadPlaced DEF Unforgotten
  <1>2. \A s \in Sid : \A g \in Handler : Attends(th[g], s) => Attends(th'[g], s)
    BY <1>1
  <1>3. NeverStranded'
    BY <1>2, MereMoves DEF Unforgotten, TypeInv, SessionType
  <1>4. TimersOwned'
    BY TimersStay DEF Unforgotten
  <1> QED BY <1>1, <1>3, <1>4 DEF Unforgotten

LEMMA GotoMoves ==
  ASSUME TypeInv, Unforgotten, NEW h \in Handler, NEW label \in ThreadPc \ {"cancel"},
         Goto(h, label), th[h].todo # {} => label \in {"unregister", "schedule"},
         th[h].pc \in Tended => label \in Tended,
         UNCHANGED <<sessions, releaseTimer, timers, connLock, sessionConnMap>>
  PROVE  Unforgotten'
  <1> DEFINE r == [th[h] EXCEPT !.pc = label]
  <1>1. th[h] \in Thread
    BY DEF TypeInv, ThreadsOK
  <1>2. /\ r \in Thread /\ r.pc = label /\ r.sid = th[h].sid /\ r.todo = th[h].todo
        /\ r.close = th[h].close
    BY <1>1 DEF Thread
  <1>3. th' = [th EXCEPT ![h] = r]
    BY DEF Goto
  <1> HIDE DEF r
  <1>4. WellPlaced(r)
    BY <1>2 DEF WellPlaced, Unforgotten, TodoInv
  <1>5. \A s \in Sid : Attends(th[h], s) => Attends(r, s)
    BY <1>2 DEF Attends
  <1> QED BY <1>2, <1>3, <1>4, <1>5, MoveKeeps

LEMMA IdlePlaced == WellPlaced(Idle) /\ Idle \in Thread /\ Idle.todo = {} /\ Idle.sid = None
                    /\ Idle.pc = "idle" /\ ~Idle.close
  BY IdleType DEF WellPlaced, Idle

\* A request that attends to no session returns.
LEMMA ReturnMoves ==
  ASSUME TypeInv, Unforgotten, NEW h \in Handler, Return(h), th[h].pc \notin Tended,
         UNCHANGED <<sessions, releaseTimer, timers, connLock, sessionConnMap>>
  PROVE  Unforgotten'
  BY AttendsNothing, IdlePlaced, MoveKeeps DEF Return, Unforgotten

\* A session is registered, for the request that will bind a connection to it.
LEMMA AddMoves ==
  ASSUME TypeInv, Unforgotten, NEW h \in Handler, NEW r \in Thread, NEW s \in Sid, NEW hd,
         th[h].pc = "idle", WellPlaced(r), Attends(r, s), AddSession(s, hd),
         th' = [th EXCEPT ![h] = r],
         UNCHANGED <<timers, connLock, sessionConnMap>>
  PROVE  Unforgotten'
  <1>1. TodoInv' /\ CancelInv' /\ th'[h] = r /\ \A g \in Handler \ {h} : th'[g] = th[g]
    BY ThreadPlaced DEF Unforgotten
  <1>2. \A q \in Sid : ~Attends(th[h], q)
    BY AttendsNothing DEF Unforgotten, Tended
  <1>3. TimersOwned' /\ \A q \in Sid \ {s} : TimerAttends(q) => TimerAttends(q)'
    BY TimersDropped DEF Unforgotten, AddSession
  <1>4. NeverStranded'
    <2> SUFFICES ASSUME NEW q \in sessions', sessionConnMap'[q] = {} PROVE Attended(q)'
      BY DEF NeverStranded
    <2>1. CASE q = s
      BY <1>1, <2>1 DEF Attended, Attends, Tended
    <2>2. CASE q # s
      <3>1. q \in Sid \ {s} /\ q \in sessions
        BY <2>2 DEF AddSession, TypeInv, SessionType
      <3>2. Attended(q)
        BY <3>1 DEF Unforgotten, NeverStranded
      <3> QED BY <1>1, <1>2, <1>3, <3>1, <3>2, StillAttended
    <2> QED BY <2>1, <2>2
  <1> QED BY <1>1, <1>3, <1>4 DEF Unforgotten

\* A session that is removed needs nobody; its timer goes with it.
LEMMA RemoveMoves ==
  ASSUME TypeInv, Unforgotten, NEW s \in Sid, RemoveSession(s),
         \A q \in Sid \ {s} : \A g \in Handler : Attends(th[g], q) => Attends(th'[g], q),
         \A q \in Sid \ {s} : TimerAttends(q) => TimerAttends(q)',
         UNCHANGED sessionConnMap
  PROVE  NeverStranded'
  <1> SUFFICES ASSUME NEW q \in sessions', sessionConnMap'[q] = {} PROVE Attended(q)'
    BY DEF NeverStranded
  <1>1. q \in Sid \ {s} /\ q \in sessions
    BY DEF RemoveSession, TypeInv, SessionType
  <1>2. Attended(q)
    BY <1>1 DEF Unforgotten, NeverStranded
  <1> QED BY <1>1, <1>2, StillAttended

-----------------------------------------------------------------------------
LEMMA SessionNewKeeps ==
  ASSUME TypeInv, Unforgotten, NEW h \in Handler, NEW c \in Conn, NEW s \in Sid, NEW hd \in Handle,
         SessionNew(h, c, s, hd)
  PROVE  Unforgotten'
  <1> DEFINE r == [Idle EXCEPT !.pc = "bind", !.conn = c, !.sid = s]
  <1>1. r \in Thread /\ WellPlaced(r) /\ Attends(r, s)
    BY DEF Idle, Thread, ThreadPc, WellPlaced, Attends, Tended
  <1> HIDE DEF r
  <1>2. /\ th[h].pc = "idle" /\ AddSession(s, hd) /\ th' = [th EXCEPT ![h] = r]
        /\ UNCHANGED <<timers, connLock, sessionConnMap>>
    BY DEF SessionNew, Begin, connVars, r
  <1> QED BY <1>1, <1>2, AddMoves

LEMMA SessionResumeKeeps ==
  ASSUME TypeInv, Unforgotten, NEW h \in Handler, NEW c \in Conn, NEW s \in Sid, NEW hd \in Handle,
         SessionResume(h, c, s, hd)
  PROVE  Unforgotten'
  <1> DEFINE binding == [Idle EXCEPT !.pc = "bind", !.conn = c, !.sid = s]
             failing == [Idle EXCEPT !.pc = "closeDB", !.path = CwdOf[s], !.db = hd]
  <1>1. /\ binding \in Thread /\ WellPlaced(binding) /\ Attends(binding, s)
        /\ failing \in Thread /\ WellPlaced(failing)
    BY PathAssumption DEF Idle, Thread, ThreadPc, WellPlaced, Attends, Tended
  <1>2. \A q \in Sid : ~Attends(th[h], q)
    BY AttendsNothing DEF Unforgotten, Tended, SessionResume, Begin
  <1>3. th[h].pc = "idle" /\ UNCHANGED <<timers, connLock, sessionConnMap>>
    BY DEF SessionResume, Begin, connVars
  <1>4. \/ th' = [th EXCEPT ![h] = binding] /\ UNCHANGED sessVars
        \/ th' = [th EXCEPT ![h] = binding] /\ AddSession(s, hd)
        \/ th' = [th EXCEPT ![h] = failing] /\ UNCHANGED sessVars
    BY DEF SessionResume
  <1> HIDE DEF binding, failing
  <1>5. CASE th' = [th EXCEPT ![h] = binding] /\ UNCHANGED sessVars
    BY <1>1, <1>2, <1>3, <1>5, MoveKeeps DEF sessVars
  <1>6. CASE th' = [th EXCEPT ![h] = binding] /\ AddSession(s, hd)
    BY <1>1, <1>3, <1>6, AddMoves
  <1>7. CASE th' = [th EXCEPT ![h] = failing] /\ UNCHANGED sessVars
    BY <1>1, <1>2, <1>3, <1>7, MoveKeeps DEF sessVars
  <1> QED BY <1>4, <1>5, <1>6, <1>7

LEMMA BindKeeps ==
  ASSUME TypeInv, Unforgotten, NEW h \in Handler, Bind(h) PROVE Unforgotten'
  <1>1. th[h].todo = {}
    BY DEF Unforgotten, TodoInv, Bind
  <1>2. "register" \in ThreadPc \ {"cancel"} /\ "register" \in Tended
    BY DEF ThreadPc, Tended
  <1> QED BY <1>1, <1>2, GotoMoves DEF Bind, sessVars

LEMMA RegisterConnCallKeeps ==
  ASSUME TypeInv, Unforgotten, NEW h \in Handler, RegisterConnCall(h) PROVE Unforgotten'
  <1> DEFINE c == th[h].conn
             s == th[h].sid
  <1>1. /\ th[h] \in Thread /\ c \in Conn /\ s \in Sid /\ th[h].todo = {}
        /\ th \in [Handler -> Thread] /\ sessionConnMap \in [Sid -> SUBSET Conn]
        /\ sessions \in SUBSET Sid
    <2>1. th[h] \in Thread /\ c \in Conn /\ s \in Sid /\ th \in [Handler -> Thread]
      BY DEF RegisterConnCall, TypeInv, ThreadsOK, ThreadInv
    <2>2. th[h].todo = {}
      BY DEF RegisterConnCall, Unforgotten, TodoInv
    <2>3. sessionConnMap \in [Sid -> SUBSET Conn] /\ sessions \in SUBSET Sid
      BY DEF TypeInv, ConnType, SessionType
    <2> QED BY <2>1, <2>2, <2>3
  <1>2. th[h].pc = "register" /\ connLock = None /\ UNCHANGED <<sessions, releaseTimer, timers>>
    BY DEF RegisterConnCall, sessVars
  <1>3. \A g \in Handler : th[g].pc # "cancel"
    BY <1>2, NoneAssumption DEF Unforgotten, CancelInv
  <1>4. /\ c \in sessionConnMap'[s]
        /\ \A q \in Sid \ {s} : sessionConnMap'[q] = sessionConnMap[q]
        /\ sessionConnMap'[s] # {}
    <2>1. CASE c \in sessionConnMap[s] /\ UNCHANGED sessionConnMap
      BY <2>1
    <2>2. CASE sessionConnMap' = [sessionConnMap EXCEPT ![s] = @ \cup {c}]
      BY <1>1, <2>2
    <2> QED BY <2>1, <2>2 DEF RegisterConnCall
  <1>5. PICK r \in Thread : /\ th' = [th EXCEPT ![h] = r] /\ r.todo = {}
                            /\ r.pc = "cancel" => r.conn = c /\ r.sid = s /\ connLock' = h
                            /\ connLock' \in {connLock, h}
    <2>1. CASE Return(h) /\ UNCHANGED connLock
      BY <2>1, IdlePlaced DEF Return
    <2>2. CASE connLock' = h /\ Goto(h, "cancel")
      <3> DEFINE r == [th[h] EXCEPT !.pc = "cancel"]
      <3>1. r \in Thread /\ r.todo = {} /\ r.conn = c /\ r.sid = s
        BY <1>1 DEF Thread, ThreadPc
      <3>2. th' = [th EXCEPT ![h] = r]
        BY <2>2 DEF Goto
      <3> QED BY <2>2, <3>1, <3>2
    <2> QED BY <2>1, <2>2 DEF RegisterConnCall
  <1>6. th'[h] = r /\ \A g \in Handler \ {h} : th'[g] = th[g]
    BY <1>1, <1>5
  <1>7. TodoInv'
    BY <1>5, <1>6 DEF Unforgotten, TodoInv
  <1>8. CancelInv'
    BY <1>3, <1>4, <1>5, <1>6 DEF CancelInv
  <1>9. NeverStranded'
    <2> SUFFICES ASSUME NEW q \in sessions', sessionConnMap'[q] = {} PROVE Attended(q)'
      BY DEF NeverStranded
    <2>1. q \in Sid \ {s} /\ q \in sessions /\ Attended(q)
      BY <1>1, <1>2, <1>4 DEF Unforgotten, NeverStranded
    <2>2. ~Attends(th[h], q)
      BY <1>1, <2>1 DEF Attends
    <2>3. TimerAttends(q) => TimerAttends(q)'
      BY <1>2 DEF TimerAttends
    <2> QED BY <1>6, <2>1, <2>2, <2>3, StillAttended
  <1>10. TimersOwned'
    BY <1>2, TimersStay DEF Unforgotten
  <1> QED BY <1>7, <1>8, <1>9, <1>10 DEF Unforgotten

LEMMA CancelSessionReleaseKeeps ==
  ASSUME TypeInv, Unforgotten, NEW h \in Handler, CancelSessionRelease(h) PROVE Unforgotten'
  <1> DEFINE s == th[h].sid
  <1>1. /\ th[h].pc = "cancel" /\ s \in Sid /\ th \in [Handler -> Thread]
        /\ sessions \in SUBSET Sid
    BY DEF CancelSessionRelease, TypeInv, ThreadsOK, ThreadInv, SessionType
  <1>2. connLock = h /\ sessionConnMap[s] # {}
    BY <1>1 DEF Unforgotten, CancelInv
  <1>3. th'[h] = Idle /\ \A g \in Handler \ {h} : th'[g] = th[g]
    BY <1>1 DEF CancelSessionRelease, Return
  <1>4. UNCHANGED <<sessions, sessionConnMap>>
    BY DEF CancelSessionRelease
  <1>5. TodoInv' /\ CancelInv'
    <2>1. \A g \in Handler \ {h} : th[g].pc # "cancel"
      BY <1>2 DEF Unforgotten, CancelInv
    <2> QED BY <1>3, <2>1, IdlePlaced DEF Unforgotten, TodoInv, CancelInv
  <1>6. TimersOwned' /\ \A q \in Sid \ {s} : TimerAttends(q) => TimerAttends(q)'
    <2>1. CASE timers' = Stopped(s) /\ releaseTimer' = [releaseTimer EXCEPT ![s] = None]
      BY <1>1, <2>1, TimersDropped DEF Unforgotten
    <2>2. CASE UNCHANGED <<timers, releaseTimer>>
      BY <2>2, TimersStay DEF Unforgotten, TimerAttends
    <2> QED BY <2>1, <2>2 DEF CancelSessionRelease
  <1>7. NeverStranded'
    <2> SUFFICES ASSUME NEW q \in sessions', sessionConnMap'[q] = {} PROVE Attended(q)'
      BY DEF NeverStranded
    <2>1. q \in Sid \ {s} /\ q \in sessions /\ Attended(q)
      BY <1>1, <1>2, <1>4 DEF Unforgotten, NeverStranded
    <2>2. ~Attends(th[h], q)
      BY <1>1, AttendsNothing, <2>1 DEF Unforgotten, Tended
    <2> QED BY <1>3, <1>6, <2>1, <2>2, StillAttended
  <1> QED BY <1>5, <1>6, <1>7 DEF Unforgotten

LEMMA SessionCloseKeeps ==
  ASSUME TypeInv, Unforgotten, NEW h \in Handler, NEW c \in Conn, NEW s \in Sid,
         SessionClose(h, c, s)
  PROVE  Unforgotten'
  <1> DEFINE r == [Idle EXCEPT !.pc = "unregister", !.conn = c, !.sid = s]
  <1>1. r \in Thread /\ WellPlaced(r)
    BY DEF Idle, Thread, ThreadPc, WellPlaced
  <1>2. \A q \in Sid : ~Attends(th[h], q)
    BY AttendsNothing DEF Unforgotten, Tended, SessionClose, Begin
  <1>3. th' = [th EXCEPT ![h] = r]
    BY DEF SessionClose
  <1> HIDE DEF r
  <1> QED BY <1>1, <1>2, <1>3, MoveKeeps DEF SessionClose, sessVars, connVars

LEMMA CloseKeeps ==
  ASSUME TypeInv, Unforgotten, NEW h \in Handler, NEW c \in Conn, Close(h, c)
  PROVE  Unforgotten'
  <1>1. \A q \in Sid : ~Attends(th[h], q)
    BY AttendsNothing DEF Unforgotten, Tended, Close
  <1>2. PICK r \in Thread : WellPlaced(r) /\ th' = [th EXCEPT ![h] = r]
                            /\ \A q \in Sid : Attends(th[h], q) => Attends(r, q)
    <2>1. CASE UNCHANGED th
      <3>1. th[h] \in Thread /\ th' = [th EXCEPT ![h] = th[h]]
        BY <2>1 DEF TypeInv, ThreadsOK
      <3>2. WellPlaced(th[h])
        BY DEF Unforgotten, TodoInv, WellPlaced, Close
      <3> QED BY <3>1, <3>2
    <2>2. ASSUME NEW s \in bindedSessionOnConn[c],
                 th' = [th EXCEPT ![h] =
                          [Idle EXCEPT !.pc = "unregister", !.conn = c, !.sid = s,
                                       !.close = TRUE, !.todo = bindedSessionOnConn[c] \ {s}]]
          PROVE  \E r \in Thread : WellPlaced(r) /\ th' = [th EXCEPT ![h] = r]
      <3> DEFINE r == [Idle EXCEPT !.pc = "unregister", !.conn = c, !.sid = s,
                                   !.close = TRUE, !.todo = bindedSessionOnConn[c] \ {s}]
      <3>1. bindedSessionOnConn[c] \in SUBSET Sid
        BY DEF TypeInv, ConnType
      <3>2. r \in Thread /\ WellPlaced(r)
        BY <3>1 DEF Idle, Thread, ThreadPc, WellPlaced
      <3>3. th' = [th EXCEPT ![h] = r]
        BY <2>2
      <3> HIDE DEF r
      <3> QED BY <3>2, <3>3
    <2> QED BY <1>1, <2>1, <2>2 DEF Close
  <1>3. UNCHANGED <<sessions, releaseTimer, timers, connLock, sessionConnMap>>
    BY DEF Close, sessVars
  <1> QED BY <1>2, <1>3, MoveKeeps

LEMMA UnregisterConnCallKeeps ==
  ASSUME TypeInv, Unforgotten, NEW h \in Handler, UnregisterConnCall(h) PROVE Unforgotten'
  <1> DEFINE s == th[h].sid
             label == IF th[h].close THEN "schedule" ELSE "unbind"
             r == [th[h] EXCEPT !.pc = label]
  <1>1. /\ th[h] \in Thread /\ s \in Sid /\ th \in [Handler -> Thread]
        /\ sessionConnMap \in [Sid -> SUBSET Conn] /\ sessions \in SUBSET Sid
    BY DEF UnregisterConnCall, TypeInv, ThreadsOK, ThreadInv, ConnType, SessionType
  <1>2. /\ th[h].pc = "unregister" /\ connLock = None /\ UNCHANGED connLock
        /\ UNCHANGED <<sessions, releaseTimer, timers>> /\ th' = [th EXCEPT ![h] = r]
        /\ \A q \in Sid \ {s} : sessionConnMap'[q] = sessionConnMap[q]
    BY <1>1 DEF UnregisterConnCall, sessVars, Goto
  <1>3. /\ r \in Thread /\ r.pc = label /\ r.sid = s /\ r.todo = th[h].todo
        /\ r.close = th[h].close
    BY <1>1 DEF Thread, ThreadPc
  <1>4. label \in {"schedule", "unbind"} /\ (r.todo # {} => label = "schedule" /\ r.close)
    BY <1>3 DEF Unforgotten, TodoInv
  <1> HIDE DEF r, label
  <1>5. th'[h] = r /\ \A g \in Handler \ {h} : th'[g] = th[g]
    BY <1>1, <1>2
  <1>6. TodoInv'
    BY <1>3, <1>4, <1>5 DEF Unforgotten, TodoInv
  <1>7. CancelInv'
    <2>1. \A g \in Handler : th[g].pc # "cancel"
      BY <1>2, NoneAssumption DEF Unforgotten, CancelInv
    <2> QED BY <1>3, <1>4, <1>5, <2>1 DEF CancelInv
  <1>8. TimersOwned'
    BY <1>2, TimersStay DEF Unforgotten
  <1>9. NeverStranded'
    <2> SUFFICES ASSUME NEW q \in sessions', sessionConnMap'[q] = {} PROVE Attended(q)'
      BY DEF NeverStranded
    <2>1. CASE q = s
      BY <1>3, <1>4, <1>5, <2>1 DEF Attended
    <2>2. CASE q # s
      <3>1. q \in Sid /\ q \in sessions /\ Attended(q)
        BY <1>1, <1>2, <2>2 DEF Unforgotten, NeverStranded
      <3>2. Attends(th[h], q) => Attends(r, q)
        BY <1>3, <2>2 DEF Attends
      <3>3. TimerAttends(q) => TimerAttends(q)'
        BY <1>2 DEF TimerAttends
      <3> QED BY <1>5, <3>1, <3>2, <3>3, StillAttended
    <2> QED BY <2>1, <2>2
  <1> QED BY <1>6, <1>7, <1>8, <1>9 DEF Unforgotten

LEMMA UnbindKeeps ==
  ASSUME TypeInv, Unforgotten, NEW h \in Handler, Unbind(h) PROVE Unforgotten'
  <1>1. "schedule" \in ThreadPc \ {"cancel"} /\ "schedule" \in Tended
    BY DEF ThreadPc, Tended
  <1> QED BY <1>1, GotoMoves DEF Unbind, sessVars

\* The list of a closed connection: what is next, or nothing is left.
LEMMA NextBoundPlaced ==
  ASSUME TypeInv, Unforgotten, NEW h \in Handler, th[h].pc = "schedule", NextBound(h)
  PROVE  \E r \in Thread : /\ WellPlaced(r) /\ th' = [th EXCEPT ![h] = r]
                           /\ \A q \in Sid \ {th[h].sid} : Attends(th[h], q) => Attends(r, q)
  <1>1. th[h] \in Thread
    BY DEF TypeInv, ThreadsOK
  <1>2. CASE th[h].todo = {} /\ Return(h)
    <2>1. \A q \in Sid \ {th[h].sid} : ~Attends(th[h], q)
      BY <1>2 DEF Attends
    <2> QED BY <1>2, <2>1, IdlePlaced DEF Return
  <1>3. ASSUME NEW s \in th[h].todo,
               th' = [th EXCEPT ![h].pc = "unregister", ![h].sid = s, ![h].todo = @ \ {s}]
        PROVE  \E r \in Thread : /\ WellPlaced(r) /\ th' = [th EXCEPT ![h] = r]
                                 /\ \A q \in Sid \ {th[h].sid} : Attends(th[h], q) => Attends(r, q)
    <2> DEFINE r == [th[h] EXCEPT !.pc = "unregister", !.sid = s, !.todo = @ \ {s}]
    <2>1. /\ r \in Thread /\ r.pc = "unregister" /\ r.sid = s /\ r.todo = th[h].todo \ {s}
          /\ r.close = th[h].close
      BY <1>1 DEF Thread, ThreadPc
    <2>2. th' = [th EXCEPT ![h] = r]
      BY <1>3 DEF TypeInv, ThreadsOK
    <2> HIDE DEF r
    <2>3. WellPlaced(r)
      BY <2>1 DEF WellPlaced, Unforgotten, TodoInv
    <2>4. \A q \in Sid \ {th[h].sid} : Attends(th[h], q) => Attends(r, q)
      BY <2>1 DEF Attends, Tended
    <2> QED BY <2>1, <2>2, <2>3, <2>4
  <1> QED BY <1>2, <1>3 DEF NextBound

LEMMA ScheduleKeeps ==
  ASSUME TypeInv, Unforgotten, NEW h \in Handler, NEW t \in Timer, ScheduleSessionRelease(h, t)
  PROVE  Unforgotten'
  <1>0. PICK s \in Sid : s = th[h].sid
    BY DEF ScheduleSessionRelease, TypeInv, ThreadsOK, ThreadInv
  <1>1. /\ th \in [Handler -> Thread] /\ th[h].pc = "schedule" /\ sessions \in SUBSET Sid
        /\ UNCHANGED <<sessions, connLock, sessionConnMap>>
    BY DEF ScheduleSessionRelease, TypeInv, ThreadsOK, SessionType, connVars
  <1>2. PICK r \in Thread : /\ WellPlaced(r) /\ th' = [th EXCEPT ![h] = r]
                            /\ \A q \in Sid \ {s} : Attends(th[h], q) => Attends(r, q)
    BY <1>0, <1>1, NextBoundPlaced DEF ScheduleSessionRelease
  <1>3. TodoInv' /\ CancelInv' /\ th'[h] = r /\ \A g \in Handler \ {h} : th'[g] = th[g]
    BY <1>1, <1>2, ThreadPlaced DEF Unforgotten
  <1>4. /\ TimersOwned' /\ \A q \in Sid \ {s} : TimerAttends(q) => TimerAttends(q)'
        /\ s \in sessions => TimerAttends(s)'
    <2>1. CASE /\ s \in sessions /\ FreshTimer(t)
               /\ timers' = [Stopped(s) EXCEPT ![t] = [pc |-> "armed", sid |-> s]]
               /\ releaseTimer' = [releaseTimer EXCEPT ![s] = t]
      <3>1. Stopped(s) \in [Timer -> TimerState]
        BY <1>1, StoppedType DEF TypeInv
      <3>2. \A u \in Timer : Stopped(s)[u] = timers[u] \/ (Stopped(s)[u] = IdleTimer /\ timers[u].sid = s)
        BY <1>1, StoppedOwn DEF Unforgotten
      <3> DEFINE old == Stopped(s)
      <3>3. /\ old \in [Timer -> TimerState]
            /\ \A u \in Timer : old[u] = timers[u] \/ (old[u] = IdleTimer /\ timers[u].sid = s)
            /\ timers' = [old EXCEPT ![t] = [pc |-> "armed", sid |-> s]]
        BY <2>1, <3>1, <3>2
      <3> HIDE DEF old
      <3>4. TimersOwned
        BY DEF Unforgotten
      <3> QED BY <1>1, <2>1, <3>3, <3>4, TimersArmed
    <2>2. CASE s \notin sessions /\ UNCHANGED <<timers, releaseTimer>>
      <3>1. TimersOwned'
        BY <2>2, TimersStay DEF Unforgotten
      <3>2. \A q \in Sid : TimerAttends(q) => TimerAttends(q)'
        BY <2>2 DEF TimerAttends
      <3> QED BY <2>2, <3>1, <3>2
    <2> QED BY <1>0, <2>1, <2>2 DEF ScheduleSessionRelease
  <1>5. NeverStranded'
    <2> SUFFICES ASSUME NEW q \in sessions', sessionConnMap'[q] = {} PROVE Attended(q)'
      BY DEF NeverStranded
    <2>1. CASE q = s
      <3>1. TimerAttends(q)'
        BY <1>1, <1>4, <2>1
      <3> QED BY <3>1 DEF Attended, TimerAttends
    <2>2. CASE q # s
      <3>1. q \in Sid \ {s} /\ Attended(q)
        BY <1>1, <2>2 DEF Unforgotten, NeverStranded
      <3> QED BY <1>2, <1>3, <1>4, <3>1, StillAttended
    <2> QED BY <2>1, <2>2
  <1> QED BY <1>3, <1>4, <1>5 DEF Unforgotten

LEMMA SessionDeleteKeeps ==
  ASSUME TypeInv, Unforgotten, NEW h \in Handler, NEW s \in Sid, NEW p \in Path,
         SessionDelete(h, s, p)
  PROVE  Unforgotten'
  <1> DEFINE r(label) == [[Idle EXCEPT !.sid = s, !.path = p, !.delete = TRUE] EXCEPT !.pc = label]
  <1>1. /\ th[h].pc = "idle" /\ th \in [Handler -> Thread] /\ sessions \in SUBSET Sid
        /\ UNCHANGED <<sessions, connLock, sessionConnMap>>
    BY DEF SessionDelete, Begin, TypeInv, ThreadsOK, SessionType, connVars
  <1>2. \A q \in Sid : ~Attends(th[h], q)
    BY <1>1, AttendsNothing DEF Unforgotten, Tended
  <1>3. /\ \A label \in {"closeSession", "loadDB"} : r(label) \in Thread /\ WellPlaced(r(label))
        /\ r("closeSession").sid = s /\ r("closeSession").pc = "closeSession"
    BY DEF Idle, Thread, ThreadPc, WellPlaced
  <1>4. CASE /\ timers' = Stopped(s) /\ releaseTimer' = [releaseTimer EXCEPT ![s] = None]
             /\ th' = [th EXCEPT ![h] = r("closeSession")]
    <2> DEFINE x == r("closeSession")
    <2>0. x \in Thread /\ WellPlaced(x) /\ th' = [th EXCEPT ![h] = x] /\ x.sid = s /\ x.pc = "closeSession"
      BY <1>3, <1>4
    <2> HIDE DEF r, x
    <2>1. TodoInv' /\ CancelInv' /\ th'[h] = x /\ \A g \in Handler \ {h} : th'[g] = th[g]
      BY <1>1, <2>0, ThreadPlaced DEF Unforgotten
    <2>2. TimersOwned' /\ \A q \in Sid \ {s} : TimerAttends(q) => TimerAttends(q)'
      BY <1>4, TimersDropped DEF Unforgotten
    <2>3. NeverStranded'
      <3> SUFFICES ASSUME NEW q \in sessions', sessionConnMap'[q] = {} PROVE Attended(q)'
        BY DEF NeverStranded
      <3>1. CASE q = s
        BY <2>0, <2>1, <3>1 DEF Attended
      <3>2. CASE q # s
        <4>1. q \in Sid \ {s} /\ Attended(q)
          BY <1>1, <3>2 DEF Unforgotten, NeverStranded
        <4> QED BY <1>2, <2>1, <2>2, <4>1, StillAttended
      <3> QED BY <3>1, <3>2
    <2> QED BY <2>1, <2>2, <2>3 DEF Unforgotten
  <1>5. CASE th' = [th EXCEPT ![h] = r("loadDB")] /\ UNCHANGED <<timers, releaseTimer>>
    <2> DEFINE x == r("loadDB")
    <2>1. x \in Thread /\ WellPlaced(x) /\ th' = [th EXCEPT ![h] = x]
      BY <1>3, <1>5
    <2> HIDE DEF r, x
    <2> QED BY <1>1, <1>2, <1>5, <2>1, MoveKeeps
  <1> QED BY <1>4, <1>5 DEF SessionDelete

LEMMA CloseSessionKeeps ==
  ASSUME TypeInv, Unforgotten, NEW h \in Handler, CloseSession(h) PROVE Unforgotten'
  <1> DEFINE s == th[h].sid
             r == [th[h] EXCEPT !.pc = "loadDB"]
  <1>1. /\ s \in Sid /\ th[h] \in Thread /\ th \in [Handler -> Thread]
        /\ th[h].pc = "closeSession" /\ sessions \in SUBSET Sid
        /\ UNCHANGED <<connLock, sessionConnMap>>
    BY DEF CloseSession, TypeInv, ThreadsOK, ThreadInv, SessionType, connVars
  <1>2. th[h].todo = {}
    BY <1>1 DEF Unforgotten, TodoInv
  <1>3. r \in Thread /\ WellPlaced(r) /\ th' = [th EXCEPT ![h] = r]
    BY <1>1, <1>2 DEF CloseSession, Goto, Thread, ThreadPc, WellPlaced
  <1> HIDE DEF r
  <1>4. TodoInv' /\ CancelInv' /\ th'[h] = r /\ \A g \in Handler \ {h} : th'[g] = th[g]
    BY <1>1, <1>3, ThreadPlaced DEF Unforgotten
  <1>5. \A q \in Sid \ {s} : ~Attends(th[h], q)
    BY <1>2 DEF Attends
  <1>6. CASE s \in sessions /\ timers' = Stopped(s) /\ RemoveSession(s)
    <2>1. TimersOwned' /\ \A q \in Sid \ {s} : TimerAttends(q) => TimerAttends(q)'
      BY <1>1, <1>6, TimersDropped DEF Unforgotten, RemoveSession
    <2>2. NeverStranded'
      BY <1>1, <1>4, <1>5, <1>6, <2>1, RemoveMoves
    <2> QED BY <1>4, <2>1, <2>2 DEF Unforgotten
  <1>7. CASE s \notin sessions /\ UNCHANGED <<timers, sessVars>>
    <2>1. TimersOwned'
      BY <1>7, TimersStay DEF Unforgotten, sessVars
    <2>2. NeverStranded'
      <3> SUFFICES ASSUME NEW q \in sessions', sessionConnMap'[q] = {} PROVE Attended(q)'
        BY DEF NeverStranded
      <3>1. q \in Sid \ {s} /\ Attended(q)
        BY <1>1, <1>7 DEF Unforgotten, NeverStranded, sessVars
      <3>2. TimerAttends(q) => TimerAttends(q)'
        BY <1>7 DEF TimerAttends, sessVars
      <3> QED BY <1>4, <1>5, <3>1, <3>2, StillAttended
    <2> QED BY <1>4, <2>1, <2>2 DEF Unforgotten
  <1> QED BY <1>6, <1>7 DEF CloseSession

LEMMA UseRequestKeeps ==
  ASSUME TypeInv, Unforgotten, NEW h \in Handler, NEW p \in Path, NEW hd \in Handle,
         UseRequest(h, p, hd)
  PROVE  Unforgotten'
  <1> DEFINE r == [Idle EXCEPT !.pc = "useDB", !.path = p, !.db = hd]
  <1>1. r \in Thread /\ WellPlaced(r)
    BY DEF Idle, Thread, ThreadPc, WellPlaced
  <1>2. \A q \in Sid : ~Attends(th[h], q)
    BY AttendsNothing DEF Unforgotten, Tended, UseRequest, Begin
  <1>3. th' = [th EXCEPT ![h] = r]
    BY DEF UseRequest
  <1> HIDE DEF r
  <1> QED BY <1>1, <1>2, <1>3, MoveKeeps DEF UseRequest, sessVars, connVars

LEMMA LoadDBStepKeeps ==
  ASSUME TypeInv, Unforgotten, NEW h \in Handler, NEW hd \in Handle, LoadDBStep(h, hd)
  PROVE  Unforgotten'
  <1> DEFINE r == [th[h] EXCEPT !.pc = "useDB", !.db = hd]
  <1>1. th[h] \in Thread /\ th[h].todo = {}
    BY DEF TypeInv, ThreadsOK, Unforgotten, TodoInv, LoadDBStep
  <1>2. r \in Thread /\ WellPlaced(r)
    BY <1>1 DEF Thread, ThreadPc, WellPlaced
  <1>3. \A q \in Sid : ~Attends(th[h], q)
    BY AttendsNothing DEF Unforgotten, Tended, LoadDBStep
  <1>4. th' = [th EXCEPT ![h] = r]
    BY DEF LoadDBStep, TypeInv, ThreadsOK
  <1> HIDE DEF r
  <1> QED BY <1>2, <1>3, <1>4, MoveKeeps DEF LoadDBStep, sessVars, connVars

LEMMA UseDBKeeps ==
  ASSUME TypeInv, Unforgotten, NEW h \in Handler, UseDB(h) PROVE Unforgotten'
  <1>1. "closeDB" \in ThreadPc \ {"cancel"} /\ th[h].todo = {} /\ th[h].pc \notin Tended
    BY DEF ThreadPc, Tended, UseDB, Unforgotten, TodoInv
  <1> QED BY <1>1, GotoMoves DEF UseDB, sessVars, connVars

LEMMA CloseDBStepKeeps ==
  ASSUME TypeInv, Unforgotten, NEW h \in Handler, CloseDBStep(h) PROVE Unforgotten'
  <1>1. th[h].pc \notin Tended
    BY DEF Tended, CloseDBStep
  <1> QED BY <1>1, ReturnMoves DEF CloseDBStep, sessVars, connVars

\* Nothing moves that the release of a session depends on.
LEMMA QuietKeeps ==
  ASSUME TypeInv, Unforgotten,
         UNCHANGED <<sessions, releaseTimer, timers, th, connLock, sessionConnMap>>
  PROVE  Unforgotten'
  BY DEF Unforgotten, NeverStranded, Attended, TimersOwned, TodoInv, CancelInv

\* A timer moves on without ending.
LEMMA TimerMoves ==
  ASSUME TypeInv, Unforgotten, NEW t \in Timer, NEW label \in TimerPc \ {"idle"},
         timers[t].pc # "idle", timers' = [timers EXCEPT ![t].pc = label],
         UNCHANGED <<sessions, releaseTimer, th, connLock, sessionConnMap>>
  PROVE  Unforgotten'
  <1>1. timers \in [Timer -> TimerState]
    BY DEF TypeInv, TimersOK
  <1>2. \A u \in Timer : /\ timers'[u].sid = timers[u].sid
                         /\ timers'[u].pc = "idle" <=> timers[u].pc = "idle"
    BY <1>1 DEF TimerState
  <1>3. TimersOwned'
    BY <1>2 DEF Unforgotten, TimersOwned, TypeInv, SessionType
  <1>4. \A q \in Sid : TimerAttends(q) => TimerAttends(q)'
    BY <1>2 DEF TimerAttends
  <1>5. NeverStranded'
    <2> SUFFICES ASSUME NEW q \in sessions', sessionConnMap'[q] = {} PROVE Attended(q)'
      BY DEF NeverStranded
    <2>1. q \in Sid /\ Attended(q)
      BY DEF Unforgotten, NeverStranded, TypeInv, SessionType
    <2> QED BY <1>4, <2>1, StillAttended
  <1>6. TodoInv' /\ CancelInv'
    BY DEF Unforgotten, TodoInv, CancelInv
  <1> QED BY <1>3, <1>5, <1>6 DEF Unforgotten

\* A timer ends: its session has a connection, or is not loaded, or has no timer.
LEMMA TimerEnds ==
  ASSUME TypeInv, Unforgotten, NEW t \in Timer, timers' = [timers EXCEPT ![t] = IdleTimer],
         \/ timers[t].sid \in Sid /\ sessionConnMap[timers[t].sid] # {}
         \/ timers[t].sid \notin sessions
         \/ releaseTimer[timers[t].sid] = None,
         UNCHANGED <<sessions, releaseTimer, th, connLock, sessionConnMap>>
  PROVE  Unforgotten'
  <1>1. /\ timers'[t] = IdleTimer /\ IdleTimer.pc = "idle"
        /\ \A u \in Timer \ {t} : timers'[u] = timers[u]
    BY DEF TypeInv, TimersOK, IdleTimer
  <1>2. TimersOwned'
    BY <1>1 DEF Unforgotten, TimersOwned, TypeInv, SessionType
  <1>3. NeverStranded'
    <2> SUFFICES ASSUME NEW q \in sessions', sessionConnMap'[q] = {} PROVE Attended(q)'
      BY DEF NeverStranded
    <2>1. q \in Sid /\ Attended(q)
      BY DEF Unforgotten, NeverStranded, TypeInv, SessionType
    <2>2. TimerAttends(q) => TimerAttends(q)'
      BY <1>1 DEF TimerAttends
    <2> QED BY <2>1, <2>2, StillAttended
  <1>4. TodoInv' /\ CancelInv'
    BY DEF Unforgotten, TodoInv, CancelInv
  <1> QED BY <1>2, <1>3, <1>4 DEF Unforgotten

LEMMA ReleaseCheckKeeps ==
  ASSUME TypeInv, Unforgotten, NEW t \in Timer, ReleaseCheck(t) PROVE Unforgotten'
  <1>1. /\ timers[t].pc = "check" /\ timers[t].sid \in Sid
        /\ UNCHANGED <<sessions, releaseTimer, th, connLock, sessionConnMap>>
    BY DEF ReleaseCheck, TypeInv, TimersOK, TimerInv, sessVars, connVars
  <1>2. CASE sessionConnMap[timers[t].sid] # {} /\ timers' = [timers EXCEPT ![t] = IdleTimer]
    BY <1>1, <1>2, TimerEnds
  <1>3. CASE timers' = [timers EXCEPT ![t].pc = "release"]
    <2>1. "release" \in TimerPc \ {"idle"}
      BY DEF TimerPc
    <2> QED BY <1>1, <1>3, <2>1, TimerMoves
  <1> QED BY <1>2, <1>3 DEF ReleaseCheck

\* The release itself: it turns away, is put off with a timer of its own, or
\* removes the session.
LEMMA ReleaseSessionKeeps ==
  ASSUME TypeInv, Unforgotten, NEW t \in Timer, NEW u \in Timer, ReleaseSession(t, u)
  PROVE  Unforgotten'
  <1>0. PICK s \in Sid : s = timers[t].sid
    BY DEF ReleaseSession, TypeInv, TimersOK, TimerInv
  <1> DEFINE ended == [timers EXCEPT ![t] = IdleTimer]
  <1>1. /\ timers \in [Timer -> TimerState] /\ sessions \in SUBSET Sid
        /\ releaseTimer \in [Sid -> Timer \cup {None}]
        /\ UNCHANGED <<th, connLock, sessionConnMap>>
    BY DEF ReleaseSession, TypeInv, TimersOK, SessionType, connVars
  <1>2. /\ ended \in [Timer -> TimerState]
        /\ \A v \in Timer : ended[v] = timers[v] \/ (ended[v] = IdleTimer /\ timers[v].sid = s)
    BY <1>0, <1>1, IdleType
  <1>3. TodoInv' /\ CancelInv'
    BY <1>1 DEF Unforgotten, TodoInv, CancelInv
  <1>4. CASE (s \notin sessions \/ releaseTimer[s] = None) /\ timers' = ended /\ UNCHANGED sessVars
    BY <1>0, <1>1, <1>4, TimerEnds DEF sessVars
  <1>5. CASE /\ FreshTimer(u) /\ UNCHANGED sessions
             /\ timers' = [ended EXCEPT ![u] = [pc |-> "armed", sid |-> s]]
             /\ releaseTimer' = [releaseTimer EXCEPT ![s] = u]
    <2>1. /\ TimersOwned' /\ TimerAttends(s)'
          /\ \A q \in Sid \ {s} : TimerAttends(q) => TimerAttends(q)'
      <3>1. TimersOwned
        BY DEF Unforgotten
      <3> HIDE DEF ended
      <3> QED BY <1>1, <1>2, <1>5, <3>1, TimersArmed
    <2>2. NeverStranded'
      <3> SUFFICES ASSUME NEW q \in sessions', sessionConnMap'[q] = {} PROVE Attended(q)'
        BY DEF NeverStranded
      <3>1. CASE q = s
        <4>1. TimerAttends(q)'
          BY <2>1, <3>1
        <4> QED BY <4>1 DEF Attended, TimerAttends
      <3>2. CASE q # s
        <4>1. q \in Sid \ {s} /\ Attended(q)
          BY <1>1, <1>5, <3>2 DEF Unforgotten, NeverStranded
        <4> QED BY <1>1, <2>1, <4>1, StillAttended
      <3> QED BY <3>1, <3>2
    <2> QED BY <1>3, <2>1, <2>2 DEF Unforgotten
  <1>6. CASE timers' = ended /\ RemoveSession(s)
    <2>1. /\ releaseTimer'[s] = None /\ \A q \in Sid \ {s} : releaseTimer'[q] = releaseTimer[q]
          /\ IdleTimer.pc = "idle" /\ timers'[t] = IdleTimer
          /\ \A v \in Timer \ {t} : timers'[v] = timers[v]
      BY <1>1, <1>6 DEF RemoveSession, IdleTimer
    <2>2. TimersOwned'
      BY <1>0, <1>1, <2>1 DEF Unforgotten, TimersOwned
    <2>3. \A q \in Sid \ {s} : TimerAttends(q) => TimerAttends(q)'
      BY <1>0, <2>1 DEF TimerAttends
    <2>4. NeverStranded'
      BY <1>1, <1>6, <2>3, RemoveMoves
    <2> QED BY <1>3, <2>2, <2>4 DEF Unforgotten
  <1> QED BY <1>0, <1>4, <1>5, <1>6 DEF ReleaseSession

LEMMA StepUnforgotten == TypeInv /\ Unforgotten /\ [Next]_vars => Unforgotten'
  <1> SUFFICES ASSUME TypeInv, Unforgotten, [Next]_vars PROVE Unforgotten'
    OBVIOUS
  <1>1. ASSUME NEW h \in Handler, Request(h) PROVE Unforgotten'
    BY <1>1, SessionNewKeeps, SessionResumeKeeps, SessionCloseKeeps, CloseKeeps,
       SessionDeleteKeeps, UseRequestKeeps DEF Request
  <1>2. ASSUME NEW h \in Handler, Continue(h) PROVE Unforgotten'
    BY <1>2, BindKeeps, RegisterConnCallKeeps, CancelSessionReleaseKeeps,
       UnregisterConnCallKeeps, UnbindKeeps, CloseSessionKeeps, UseDBKeeps,
       CloseDBStepKeeps, ScheduleKeeps, LoadDBStepKeeps DEF Continue
  <1>3. ASSUME NEW t \in Timer, Release(t) PROVE Unforgotten'
    <2>1. CASE TimerFires(t)
      <3>1. "check" \in TimerPc \ {"idle"}
        BY DEF TimerPc
      <3> QED BY <2>1, <3>1, TimerMoves DEF TimerFires, sessVars, connVars
    <2> QED BY <1>3, <2>1, ReleaseCheckKeeps, ReleaseSessionKeeps DEF Release
  <1>4. ASSUME NEW s \in Sid, SetBackground(s) PROVE Unforgotten'
    BY <1>4, QuietKeeps DEF SetBackground, connVars
  <1>5. CASE UNCHANGED vars
    BY <1>5, QuietKeeps DEF vars, sessVars, connVars
  <1> QED BY <1>1, <1>2, <1>3, <1>4, <1>5 DEF Next

\* A loaded session without a connection has somebody on the way to it: however
\* disconnects, resumes, deletes and late timers follow one another, none of
\* scheduleSessionRelease, cancelSessionRelease and releaseFunc forgets one.
THEOREM NoneStranded == Spec => []NeverStranded
  <1>1. TypeInv /\ Unforgotten /\ [Next]_vars => TypeInv' /\ Unforgotten'
    BY StepType, StepUnforgotten
  <1>2. Unforgotten => NeverStranded
    BY DEF Unforgotten
  <1> QED BY <1>1, <1>2, InitType, InitUnforgotten, PTL DEF Spec
=============================================================================
