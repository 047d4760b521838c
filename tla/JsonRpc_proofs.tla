---------------------------- MODULE JsonRpc_proofs ----------------------------
(***************************************************************************)
(* A request of the server takes one answer and forgets the clients it     *)
(* asked; a message of a client gets a reply to each of its calls.  For    *)
(* any number of connections, messages, batches, requests and slots.       *)
(***************************************************************************)
EXTENDS JsonRpc, FiniteSetTheorems, SequenceTheorems, TLAPS


Item == {"call", "note", "exit"} \cup Out

\* Messages are numbered as they are sent, and the id of a request of the server is none of
\* the other items.
RpcAssumed == /\ Message \subseteq Nat /\ None \notin Out
              /\ Out \cap {"call", "note", "exit"} = {}
              /\ \A body \in Bodies : body \in Seq(Item)

RpcTask == [at : TaskPc, conn : Conn \cup {None}, body : Seq(Item), rest : Seq(Item),
            replies : Seq(Int), out : Out \cup {None}]

RpcTypes ==
  /\ conn \in [Conn -> {"open", "lost", "closed", "gone"}]
  /\ line \in [Conn -> Seq(Message)]
  /\ reading \in [Conn -> Message \cup {None}]
  /\ task \in [Message -> RpcTask]
  /\ wire \in [Conn -> Seq(Message \X Int)]
  /\ pending \subseteq Out
  /\ asker \in [Out -> AskerPc]
  /\ asked \in [Out -> SUBSET Conn]
  /\ channel \in [Out -> {None, "answer", "signal"}]
  /\ answered \in [Out -> Nat]
  /\ permChan \in Out \cup {None}
  /\ released \in BOOLEAN

\* The message goroutine m has taken the callback of request o out of pending.
CallsBack(m, o) == task[m].at = "callback" /\ task[m].out = o

\* The callback of a request is in pending, in the hands of one goroutine, or was called; a
\* request whose channel is full and that has gone has had its one answer.
AskInv ==
  /\ \A m \in Message : task[m].at = "callback" => task[m].out \in Out
  /\ \A o \in Out :
       /\ o \in pending => asker[o] \in {"registered", "waiting", "leaving"} /\ answered[o] = 0
       /\ o \in pending \/ asker[o] = "none" => \A m \in Message : ~CallsBack(m, o)
       /\ asker[o] = "none" => o \notin pending /\ answered[o] = 0
       /\ \A m \in Message : CallsBack(m, o) => answered[o] = 0
       /\ \A m, n \in Message : CallsBack(m, o) /\ CallsBack(n, o) => m = n
       /\ answered[o] <= 1
       /\ permChan = o => asker[o] \in {"registered", "waiting"}
       /\ channel[o] # None =>
            released \/ answered[o] = 1 \/ asker[o] \in {"registered", "waiting"}

LEMMA InitRpc == ASSUME RpcAssumed PROVE Init => RpcTypes /\ AskInv
  <1> SUFFICES ASSUME Init PROVE RpcTypes /\ AskInv
    OBVIOUS
  <1>0. <<>> \in Seq(Item) /\ <<>> \in Seq(Int) /\ <<>> \in Seq(Message) /\ <<>> \in Seq(Message \X Int)
    OBVIOUS
  <1>1. [at |-> "none", conn |-> None, body |-> <<>>, rest |-> <<>>, replies |-> <<>>, out |-> None] \in RpcTask
    BY <1>0 DEF RpcTask, TaskPc
  <1>2. task \in [Message -> RpcTask] /\ \A m \in Message : task[m].at = "none"
    BY <1>1 DEF Init
  <1>3. RpcTypes
    BY <1>0, <1>2 DEF Init, RpcTypes, AskerPc
  <1>4. AskInv
    BY <1>2 DEF RpcAssumed, Init, AskInv, CallsBack
  <1> QED BY <1>3, <1>4

\* What the clients and the read loops do leaves the requests of the server alone.
LEMMA NoneCalledBack ==
  ASSUME RpcTypes, AskInv, NEW m \in Message, NEW x \in RpcTask, x.at # "callback",
         task' = [task EXCEPT ![m] = x],
         UNCHANGED <<pending, channel, answered, asker, asked, permChan, released>>
  PROVE  AskInv'
  <1>1. \A n \in Message, o \in Out : CallsBack(n, o)' => CallsBack(n, o)
    BY DEF RpcTypes, CallsBack
  <1> QED BY <1>1 DEF AskInv

\* A message becomes x.
LEMMA TaskTyped ==
  ASSUME RpcTypes, NEW m \in Message, NEW x \in RpcTask, task' = [task EXCEPT ![m] = x]
  PROVE  task' \in [Message -> RpcTask]
  BY DEF RpcTypes

LEMMA BodiesTyped == ASSUME RpcAssumed PROVE \A body \in Bodies : body \in Seq(Item)
  BY DEF RpcAssumed

\* The record of a message after each step of its goroutine.
Sent(c, body, m)  == [task[m] EXCEPT !.at = "sent", !.conn = c, !.body = body, !.rest = body]
Goes(m, at)       == [task[m] EXCEPT !.at = at]
Passed(m)         == [task[m] EXCEPT !.rest = Tail(@)]
Position(m)       == Len(task[m].body) - Len(task[m].rest) + 1
Replied(m)        == [task[m] EXCEPT !.rest = Tail(@), !.replies = Append(@, Position(m))]
Takes(m, o, at)   == [task[m] EXCEPT !.rest = Tail(@), !.out = o, !.at = at]
CalledBack(m)     == [task[m] EXCEPT !.at = "run", !.out = None]

LEMMA SendStep ==
  ASSUME RpcAssumed, RpcTypes, NEW c \in Conn, NEW m \in Message, ClientSends(c, m)
  PROVE  /\ task[m].at = "none"
         /\ \E body \in Bodies : \E x \in RpcTask :
              /\ task' = [task EXCEPT ![m] = x]
              /\ x.at = "sent" /\ x.conn = c /\ x.body = body /\ x.rest = body
              /\ x.replies = task[m].replies /\ x.out = task[m].out
  <1>1. task[m].at = "none"
    <2>1. m >= m
      BY DEF RpcAssumed
    <2> QED BY <2>1 DEF ClientSends
  <1>2. PICK body \in Bodies :
          task' = [task EXCEPT ![m].at = "sent", ![m].conn = c, ![m].body = body, ![m].rest = body]
    BY DEF ClientSends
  <1> DEFINE x == Sent(c, body, m)
  <1>3. task' = [task EXCEPT ![m] = x]
    BY <1>2 DEF RpcTypes, Sent
  <1>4. body \in Seq(Item) /\ task[m] \in RpcTask
    BY BodiesTyped DEF RpcTypes
  <1>5. /\ x \in RpcTask /\ x.at = "sent" /\ x.conn = c /\ x.body = body /\ x.rest = body
        /\ x.replies = task[m].replies /\ x.out = task[m].out
    BY <1>4 DEF Sent, RpcTask, TaskPc
  <1> QED BY <1>1, <1>3, <1>5

\* Only the place changes.
LEMMA GoesStep ==
  ASSUME RpcTypes, NEW m \in Message, NEW at \in TaskPc,
         task' = [task EXCEPT ![m].at = at]
  PROVE  \E x \in RpcTask :
           /\ task' = [task EXCEPT ![m] = x]
           /\ x.at = at /\ x.conn = task[m].conn /\ x.body = task[m].body
           /\ x.rest = task[m].rest /\ x.replies = task[m].replies /\ x.out = task[m].out
  <1> DEFINE x == Goes(m, at)
  <1>1. task' = [task EXCEPT ![m] = x]
    BY DEF RpcTypes, Goes
  <1>2. task[m] \in RpcTask
    BY DEF RpcTypes
  <1>3. /\ x \in RpcTask /\ x.at = at /\ x.conn = task[m].conn /\ x.body = task[m].body
        /\ x.rest = task[m].rest /\ x.replies = task[m].replies /\ x.out = task[m].out
    BY <1>2 DEF Goes, RpcTask
  <1> QED BY <1>1, <1>3

LEMMA RestTyped ==
  ASSUME RpcTypes, NEW m \in Message, task[m].rest # <<>>
  PROVE  /\ Tail(task[m].rest) \in Seq(Item)
         /\ Len(task[m].rest) \in Nat \ {0} /\ Len(Tail(task[m].rest)) = Len(task[m].rest) - 1
         /\ Len(task[m].body) \in Nat
         /\ Head(task[m].rest) = task[m].rest[1]
         /\ \A i \in 1..Len(Tail(task[m].rest)) : Tail(task[m].rest)[i] = task[m].rest[i+1]
  <1>1. task[m].rest \in Seq(Item) /\ task[m].body \in Seq(Item)
    BY DEF RpcTypes, RpcTask
  <1>2. Len(task[m].rest) \in Nat /\ Len(task[m].body) \in Nat
    BY <1>1, LenProperties
  <1>3. Len(task[m].rest) # 0
    BY <1>1, EmptySeq
  <1>4. /\ Tail(task[m].rest) \in Seq(Item) /\ Len(Tail(task[m].rest)) = Len(task[m].rest) - 1
        /\ Head(task[m].rest) = task[m].rest[1]
        /\ \A i \in 1..Len(Tail(task[m].rest)) : Tail(task[m].rest)[i] = task[m].rest[i+1]
    BY <1>1, HeadTailProperties
  <1> QED BY <1>2, <1>3, <1>4

LEMMA PassStep ==
  ASSUME RpcTypes, NEW m \in Message, SolveNote(m)
  PROVE  \E x \in RpcTask :
           /\ task' = [task EXCEPT ![m] = x]
           /\ x.at = "run" /\ x.conn = task[m].conn /\ x.body = task[m].body
           /\ x.rest = Tail(task[m].rest) /\ x.replies = task[m].replies /\ x.out = task[m].out
  <1> DEFINE x == Passed(m)
  <1>1. task' = [task EXCEPT ![m] = x]
    BY DEF RpcTypes, Passed, SolveNote
  <1>2. task[m] \in RpcTask /\ Tail(task[m].rest) \in Seq(Item) /\ task[m].at = "run"
    BY RestTyped DEF RpcTypes, SolveNote
  <1>3. /\ x \in RpcTask /\ x.at = "run" /\ x.conn = task[m].conn /\ x.body = task[m].body
        /\ x.rest = Tail(task[m].rest) /\ x.replies = task[m].replies /\ x.out = task[m].out
    BY <1>2 DEF Passed, RpcTask
  <1> QED BY <1>1, <1>3

LEMMA ReplyStep ==
  ASSUME RpcTypes, NEW m \in Message, SolveCall(m)
  PROVE  \E x \in RpcTask :
           /\ task' = [task EXCEPT ![m] = x]
           /\ x.at = "run" /\ x.conn = task[m].conn /\ x.body = task[m].body
           /\ x.rest = Tail(task[m].rest) /\ x.replies = Append(task[m].replies, Position(m))
           /\ x.out = task[m].out
  <1> DEFINE x == Replied(m)
  <1>1. task' = [task EXCEPT ![m] = x]
    BY DEF RpcTypes, Replied, Position, SolveCall, Reply
  <1>2. task[m] \in RpcTask /\ Tail(task[m].rest) \in Seq(Item) /\ task[m].at = "run"
    BY RestTyped DEF RpcTypes, SolveCall
  <1>3. Append(task[m].replies, Position(m)) \in Seq(Int)
    <2>1. Position(m) \in Int
      BY RestTyped DEF Position, SolveCall
    <2> QED BY <1>2, <2>1, AppendProperties DEF RpcTask
  <1>4. /\ x \in RpcTask /\ x.at = "run" /\ x.conn = task[m].conn /\ x.body = task[m].body
        /\ x.rest = Tail(task[m].rest) /\ x.replies = Append(task[m].replies, Position(m))
        /\ x.out = task[m].out
    BY <1>2, <1>3 DEF Replied, RpcTask
  <1> QED BY <1>1, <1>4

LEMMA TakeStep ==
  ASSUME RpcTypes, NEW m \in Message, SolveAnswer(m)
  PROVE  \E o \in Out : \E x \in RpcTask :
           /\ task' = [task EXCEPT ![m] = x] /\ pending' = pending \ {o}
           /\ task[m].rest # <<>> /\ o = Head(task[m].rest)
           /\ x.at = (IF o \in pending THEN "callback" ELSE "run")
           /\ x.conn = task[m].conn /\ x.body = task[m].body
           /\ x.rest = Tail(task[m].rest) /\ x.replies = task[m].replies /\ x.out = o
  <1> DEFINE o == Head(task[m].rest)
             at == IF o \in pending THEN "callback" ELSE "run"
             x == Takes(m, o, at)
  <1>1. task' = [task EXCEPT ![m] = x] /\ pending' = pending \ {o} /\ o \in Out /\ task[m].rest # <<>>
    BY DEF RpcTypes, Takes, SolveAnswer
  <1>2. task[m] \in RpcTask /\ Tail(task[m].rest) \in Seq(Item) /\ at \in TaskPc
    BY RestTyped DEF RpcTypes, SolveAnswer, TaskPc
  <1> HIDE DEF o, at
  <1>3. /\ x \in RpcTask /\ x.at = at /\ x.conn = task[m].conn /\ x.body = task[m].body
        /\ x.rest = Tail(task[m].rest) /\ x.replies = task[m].replies /\ x.out = o
    BY <1>1, <1>2 DEF Takes, RpcTask
  <1> HIDE DEF x
  <1>4. at = (IF o \in pending THEN "callback" ELSE "run") /\ o = Head(task[m].rest)
    BY DEF at, o
  <1> QED BY <1>1, <1>3, <1>4

LEMMA CalledBackStep ==
  ASSUME RpcTypes, NEW m \in Message, Callback(m)
  PROVE  \E x \in RpcTask :
           /\ task' = [task EXCEPT ![m] = x]
           /\ x.at = "run" /\ x.conn = task[m].conn /\ x.body = task[m].body
           /\ x.rest = task[m].rest /\ x.replies = task[m].replies /\ x.out = None
  <1> DEFINE x == CalledBack(m)
  <1>1. task' = [task EXCEPT ![m] = x]
    BY DEF RpcTypes, CalledBack, Callback
  <1>2. task[m] \in RpcTask
    BY DEF RpcTypes
  <1>3. /\ x \in RpcTask /\ x.at = "run" /\ x.conn = task[m].conn /\ x.body = task[m].body
        /\ x.rest = task[m].rest /\ x.replies = task[m].replies /\ x.out = None
    BY <1>2 DEF CalledBack, RpcTask, TaskPc
  <1> QED BY <1>1, <1>3

\* The clients and the read loops.
LEMMA ClientsTyped ==
  ASSUME RpcAssumed, RpcTypes, NEW c \in Conn,
         \/ \E m \in Message : ClientSends(c, m)
         \/ ClientLeaves(c) \/ ReadMessage(c) \/ Dispatch(c) \/ ReadFails(c)
  PROVE  RpcTypes'
  <1>1. ASSUME NEW m \in Message, ClientSends(c, m) PROVE RpcTypes'
    <2>1. task' \in [Message -> RpcTask]
      BY <1>1, SendStep, TaskTyped
    <2>2. Append(line[c], m) \in Seq(Message)
      BY AppendProperties DEF RpcTypes
    <2>3. line' \in [Conn -> Seq(Message)]
      BY <1>1, <2>2 DEF RpcTypes, ClientSends
    <2> QED BY <1>1, <2>1, <2>3 DEF RpcTypes, ClientSends, askVars
  <1>2. CASE ClientLeaves(c)
    BY <1>2 DEF RpcTypes, ClientLeaves, askVars
  <1>3. CASE ReadMessage(c)
    <2>1. Head(line[c]) \in Message /\ Tail(line[c]) \in Seq(Message)
      BY <1>3, HeadTailProperties DEF RpcTypes, ReadMessage
    <2>2. line' \in [Conn -> Seq(Message)] /\ reading' \in [Conn -> Message \cup {None}]
      BY <1>3, <2>1 DEF RpcTypes, ReadMessage
    <2> QED BY <1>3, <2>2 DEF RpcTypes, ReadMessage, askVars
  <1>4. CASE Dispatch(c)
    <2>1. reading[c] \in Message /\ task' = [task EXCEPT ![reading[c]].at = "run"] /\ "run" \in TaskPc
      BY <1>4 DEF RpcTypes, Dispatch, TaskPc
    <2>2. task' \in [Message -> RpcTask]
      <3>1. PICK m \in Message : m = reading[c]
        BY <2>1
      <3>2. PICK at \in TaskPc : task' = [task EXCEPT ![m].at = at]
        BY <2>1, <3>1
      <3>3. PICK x \in RpcTask : task' = [task EXCEPT ![m] = x]
        BY <3>2, GoesStep
      <3> QED BY <3>3, TaskTyped
    <2>3. reading' \in [Conn -> Message \cup {None}]
      BY <1>4 DEF RpcTypes, Dispatch
    <2> QED BY <1>4, <2>2, <2>3 DEF RpcTypes, Dispatch, askVars
  <1>5. CASE ReadFails(c)
    <2>1. line' \in [Conn -> Seq(Message)]
      BY <1>5 DEF RpcTypes, ReadFails
    <2> QED BY <1>5, <2>1 DEF RpcTypes, ReadFails, askVars
  <1> QED BY <1>1, <1>2, <1>3, <1>4, <1>5

LEMMA ClientsAsk ==
  ASSUME RpcAssumed, RpcTypes, AskInv, NEW c \in Conn,
         \/ \E m \in Message : ClientSends(c, m)
         \/ ClientLeaves(c) \/ ReadMessage(c) \/ Dispatch(c) \/ ReadFails(c)
  PROVE  AskInv'
  <1>0. UNCHANGED <<pending, channel, answered, asker, asked, permChan, released>>
    BY DEF ClientSends, ClientLeaves, ReadMessage, Dispatch, ReadFails, askVars
  <1>1. ASSUME NEW m \in Message, ClientSends(c, m) PROVE AskInv'
    BY <1>0, <1>1, SendStep, NoneCalledBack
  <1>2. CASE UNCHANGED task
    BY <1>0, <1>2 DEF AskInv, CallsBack
  <1>3. CASE Dispatch(c)
    <2>1. PICK m \in Message : m = reading[c]
      BY <1>3 DEF RpcTypes, Dispatch
    <2>2. PICK at \in TaskPc : task' = [task EXCEPT ![m].at = at] /\ at # "callback"
      BY <1>3, <2>1 DEF Dispatch, TaskPc
    <2>3. \E x \in RpcTask : task' = [task EXCEPT ![m] = x] /\ x.at = at
      <3>1. task' = [task EXCEPT ![m].at = at]
        BY <2>2
      <3> QED BY <3>1, GoesStep
    <2>4. at # "callback"
      BY <2>2
    <2> QED BY <1>0, <2>3, <2>4, NoneCalledBack
  <1> QED BY <1>1, <1>2, <1>3 DEF ClientLeaves, ReadMessage, ReadFails

\* What handle does to a message.
LEMMA HandleTyped ==
  ASSUME RpcTypes, NEW m \in Message, Handle(m) PROVE RpcTypes'
  <1>1. CASE SolveCall(m) \/ SolveNote(m)
    <2>1. task' \in [Message -> RpcTask]
      BY <1>1, ReplyStep, PassStep, TaskTyped
    <2> QED BY <1>1, <2>1 DEF RpcTypes, SolveCall, SolveNote, askVars, connVars
  <1>2. CASE SolveExit(m) \/ HandleReturns(m) \/ Write(m) \/ Exit(m)
    <2>1. PICK at \in TaskPc : task' = [task EXCEPT ![m].at = at]
      BY <1>2 DEF TaskPc, SolveExit, HandleReturns, Write, Exit
    <2>2. task' \in [Message -> RpcTask]
      BY <2>1, GoesStep, TaskTyped
    <2>3. CASE SolveExit(m) \/ HandleReturns(m)
      BY <2>2, <2>3 DEF RpcTypes, SolveExit, HandleReturns, askVars, connVars
    <2>4. CASE Exit(m)
      BY <2>2, <2>4 DEF RpcTypes, Exit, askVars
    <2>5. CASE Write(m)
      <3> DEFINE s == [k \in DOMAIN task[m].replies |-> <<m, task[m].replies[k]>>]
      <3>1. task[m].replies \in Seq(Int)
        BY DEF RpcTypes, RpcTask
      <3>2. s \in Seq(Message \X Int)
        <4>1. DOMAIN task[m].replies = 1..Len(task[m].replies) /\ Len(task[m].replies) \in Nat
              /\ \A k \in 1..Len(task[m].replies) : task[m].replies[k] \in Int
          BY <3>1, LenProperties, ElementOfSeq
        <4>2. s \in [1..Len(task[m].replies) -> Message \X Int]
          BY <4>1
        <4> QED BY <4>1, <4>2
      <3> HIDE DEF s
      <3>3. \A d \in Conn : wire[d] \o s \in Seq(Message \X Int)
        BY <3>2, ConcatProperties DEF RpcTypes
      <3>4. wire' = wire \/ wire' = [wire EXCEPT ![task[m].conn] = @ \o s]
        BY <2>5 DEF Write, s
      <3>5. wire' \in [Conn -> Seq(Message \X Int)]
        <4> DEFINE W == Seq(Message \X Int)
        <4>1. wire \in [Conn -> W] /\ \A d \in Conn : wire[d] \o s \in W
          BY <3>3 DEF RpcTypes
        <4> HIDE DEF W
        <4>2. wire' \in [Conn -> W]
          BY <3>4, <4>1
        <4> QED BY <4>2 DEF W
      <3> QED BY <2>2, <2>5, <3>5 DEF RpcTypes, Write, askVars
    <2> QED BY <1>2, <2>3, <2>4, <2>5
  <1>3. CASE SolveAnswer(m)
    <2>1. task' \in [Message -> RpcTask] /\ pending' \subseteq Out
      BY <1>3, TakeStep, TaskTyped DEF RpcTypes
    <2> QED BY <1>3, <2>1 DEF RpcTypes, SolveAnswer, askVars, connVars
  <1>4. CASE Callback(m)
    <2>1. task' \in [Message -> RpcTask]
      BY <1>4, CalledBackStep, TaskTyped
    <2>2. /\ channel' \in [Out -> {None, "answer", "signal"}]
          /\ answered' \in [Out -> Nat]
      <3>1. channel' = [channel EXCEPT ![task[m].out] = "answer"]
            /\ answered' = [answered EXCEPT ![task[m].out] = @ + 1]
        BY <1>4 DEF Callback
      <3>2. PICK o : o = task[m].out
        OBVIOUS
      <3>3. channel' = [channel EXCEPT ![o] = "answer"] /\ answered' = [answered EXCEPT ![o] = @ + 1]
        BY <3>1, <3>2
      <3>4. channel' \in [Out -> {None, "answer", "signal"}]
        BY <3>3 DEF RpcTypes
      <3>5. answered \in [Out -> Nat] /\ \A p \in Out : answered[p] + 1 \in Nat
        BY DEF RpcTypes
      <3>6. answered' \in [Out -> Nat]
        BY <3>3, <3>5
      <3> QED BY <3>4, <3>6
    <2> QED BY <1>4, <2>1, <2>2 DEF RpcTypes, Callback, askVars, connVars
  <1> QED BY <1>1, <1>2, <1>3, <1>4 DEF Handle

LEMMA HandleAsk ==
  ASSUME RpcAssumed, RpcTypes, AskInv, NEW m \in Message, Handle(m) PROVE AskInv'
  <1>1. CASE SolveCall(m) \/ SolveNote(m)
    <2>1. UNCHANGED <<pending, channel, answered, asker, asked, permChan, released>>
      BY <1>1 DEF SolveCall, SolveNote, askVars
    <2> QED BY <1>1, <2>1, ReplyStep, PassStep, NoneCalledBack
  <1>2. CASE SolveExit(m) \/ HandleReturns(m) \/ Write(m) \/ Exit(m)
    <2>1. PICK at \in TaskPc : task' = [task EXCEPT ![m].at = at] /\ at # "callback"
      BY <1>2 DEF TaskPc, SolveExit, HandleReturns, Write, Exit
    <2>2. UNCHANGED <<pending, channel, answered, asker, asked, permChan, released>>
      BY <1>2 DEF SolveExit, HandleReturns, Write, Exit, askVars
    <2>3. \E x \in RpcTask : task' = [task EXCEPT ![m] = x] /\ x.at = at
      <3>1. task' = [task EXCEPT ![m].at = at]
        BY <2>1
      <3> QED BY <3>1, GoesStep
    <2>4. at # "callback"
      BY <2>1
    <2> QED BY <2>2, <2>3, <2>4, NoneCalledBack
  <1>3. CASE SolveAnswer(m)
    <2>1. PICK o \in Out, x \in RpcTask :
            /\ task' = [task EXCEPT ![m] = x] /\ pending' = pending \ {o}
            /\ x.at = (IF o \in pending THEN "callback" ELSE "run") /\ x.out = o
      BY <1>3, TakeStep
    <2>2. UNCHANGED <<channel, answered, asker, asked, permChan, released>> /\ task[m].at = "run"
      BY <1>3 DEF SolveAnswer, askVars
    <2>3. \A n \in Message, p \in Out :
            CallsBack(n, p)' => CallsBack(n, p) \/ (n = m /\ p = o /\ o \in pending)
      BY <2>1 DEF RpcTypes, CallsBack
    <2>4. \A n \in Message, p \in Out : CallsBack(n, p)' => n # m \/ (p = o /\ o \in pending)
      BY <2>1 DEF RpcTypes, CallsBack
    <2> QED BY <2>1, <2>2, <2>3, <2>4 DEF AskInv
  <1>4. CASE Callback(m)
    <2>1. PICK x \in RpcTask : task' = [task EXCEPT ![m] = x] /\ x.at = "run"
      BY <1>4, CalledBackStep
    <2>2. PICK o : o = task[m].out
      OBVIOUS
    <2>3. task[m].at = "callback" /\ o \in Out \cup {None}
      BY <1>4, <2>2 DEF Callback, RpcTypes, RpcTask
    <2>4. UNCHANGED <<pending, asker, asked, permChan, released>>
          /\ channel' = [channel EXCEPT ![o] = "answer"]
          /\ answered' = [answered EXCEPT ![o] = @ + 1]
      BY <1>4, <2>2 DEF Callback, askVars
    <2>5. \A n \in Message, p \in Out : CallsBack(n, p)' => CallsBack(n, p) /\ n # m
      BY <2>1 DEF RpcTypes, CallsBack
    <2>6. CASE o \in Out
      <3>1. CallsBack(m, o)
        BY <2>2, <2>3 DEF CallsBack
      <3>2. answered[o] = 0 /\ answered'[o] = 1 /\ o \notin pending /\ asker[o] # "none"
        BY <2>4, <2>6, <3>1 DEF AskInv, RpcTypes
      <3>3. \A p \in Out : p # o => answered'[p] = answered[p] /\ channel'[p] = channel[p]
        BY <2>4, <2>6 DEF RpcTypes
      <3>4. \A n \in Message : ~CallsBack(n, o)'
        BY <2>5, <2>6, <3>1 DEF AskInv
      <3>5. \A n \in Message : task'[n].at = "callback" => task'[n].out \in Out
        BY <2>1 DEF AskInv, RpcTypes
      <3> QED BY <2>4, <2>5, <2>6, <3>2, <3>3, <3>4, <3>5 DEF AskInv
    <2>7. CASE o \notin Out
      <3>1. UNCHANGED <<channel, answered>>
        BY <2>4, <2>7 DEF RpcTypes
      <3>2. \A n \in Message : task'[n].at = "callback" => task'[n].out \in Out
        BY <2>1 DEF AskInv, RpcTypes
      <3> QED BY <2>4, <2>5, <3>1, <3>2 DEF AskInv
    <2> QED BY <2>6, <2>7
  <1> QED BY <1>1, <1>2, <1>3, <1>4 DEF Handle

\* requestPermission, a cancel, the end of the session.
LEMMA AskerKeeps ==
  ASSUME RpcAssumed, RpcTypes, AskInv,
         \/ \E o \in Out : Register(o) \/ Ask(o) \/ Leave(o) \/ RemovePending(o)
         \/ SignalPermission \/ Release
  PROVE  RpcTypes' /\ AskInv'
  <1>0. UNCHANGED task /\ \A n \in Message, p \in Out : CallsBack(n, p)' <=> CallsBack(n, p)
    BY DEF CallsBack, Register, Ask, Leave, RemovePending, SignalPermission,
           Release
  <1>1. ASSUME NEW o \in Out, Register(o) PROVE RpcTypes' /\ AskInv'
    <2> USE <1>1 DEF Register, connVars
    <2>1. RpcTypes'
      BY DEF RpcTypes, AskerPc
    <2>2. AskInv'
      BY <1>0 DEF RpcAssumed, RpcTypes, AskInv
    <2> QED BY <2>1, <2>2
  <1>2. ASSUME NEW o \in Out, Ask(o) PROVE RpcTypes' /\ AskInv'
    <2> USE <1>2 DEF Ask, connVars
    <2>1. RpcTypes'
      BY DEF RpcTypes, AskerPc
    <2>2. AskInv'
      BY <1>0 DEF RpcTypes, AskInv
    <2> QED BY <2>1, <2>2
  <1>3. ASSUME NEW o \in Out, Leave(o) PROVE RpcTypes' /\ AskInv'
    <2> USE <1>3 DEF Leave, connVars
    <2>1. RpcTypes'
      BY DEF RpcTypes, AskerPc
    <2>2. AskInv'
      BY <1>0 DEF RpcAssumed, RpcTypes, AskInv
    <2> QED BY <2>1, <2>2
  <1>4. ASSUME NEW o \in Out, RemovePending(o) PROVE RpcTypes' /\ AskInv'
    <2> USE <1>4 DEF RemovePending, connVars
    <2>1. RpcTypes'
      BY DEF RpcTypes, AskerPc
    <2>2. AskInv'
      BY <1>0 DEF RpcTypes, AskInv
    <2> QED BY <2>1, <2>2
  <1>5. CASE SignalPermission
    <2> USE <1>5 DEF SignalPermission, connVars, askVars
    <2>1. RpcTypes'
      BY DEF RpcTypes
    <2>2. AskInv'
      BY <1>0 DEF RpcTypes, AskInv
    <2> QED BY <2>1, <2>2
  <1>6. CASE Release
    BY <1>0, <1>6 DEF Release, connVars, RpcTypes, AskInv
  <1> QED BY <1>1, <1>2, <1>3, <1>4, <1>5, <1>6

LEMMA StepRpc ==
  ASSUME RpcAssumed PROVE RpcTypes /\ AskInv /\ [Next]_rpcVars => RpcTypes' /\ AskInv'
  <1> SUFFICES ASSUME RpcTypes, AskInv, [Next]_rpcVars PROVE RpcTypes' /\ AskInv'
    OBVIOUS
  <1>1. CASE UNCHANGED rpcVars
    BY <1>1 DEF rpcVars, RpcTypes, AskInv, CallsBack
  <1>2. CASE Next
    BY <1>2, ClientsTyped, ClientsAsk, HandleTyped, HandleAsk, AskerKeeps DEF Next
  <1> QED BY <1>1, <1>2

LEMMA AskInvMeans == RpcTypes /\ AskInv => AskedOnce
  <1>1. RpcTypes /\ AskInv => FirstAnswerWins /\ PendingHasAsker
    BY DEF RpcTypes, AskInv, FirstAnswerWins, PendingHasAsker
  <1>2. ASSUME RpcTypes, AskInv PROVE AnswerGetsThrough
    <2> SUFFICES ASSUME NEW m \in Message, task[m].at = "callback", channel[task[m].out] # None
                 PROVE  released \/ asker[task[m].out] \in {"registered", "waiting"}
      BY DEF AnswerGetsThrough
    <2>1. task[m].out \in Out
      BY <1>2 DEF AskInv
    <2>2. CallsBack(m, task[m].out)
      BY DEF CallsBack
    <2> QED BY <1>2, <2>1, <2>2 DEF AskInv
  <1> QED BY <1>1, <1>2 DEF AskedOnce

\* However many clients answer, in whatever order with a cancel, a release and the end of the
\* request, a request of the server is answered at most once, leaves nothing in pending, and
\* no goroutine of a late answer is stuck on its channel while the session lives
\* (requestPermission, session.go; handle, server.go).
THEOREM OneAnswer == ASSUME RpcAssumed PROVE Spec => []AskedOnce
  BY AskInvMeans, InitRpc, StepRpc, PTL DEF Spec

-----------------------------------------------------------------------------
\* The replies of a message so far are the positions of its calls, each once, in the part of
\* the batch that has been handled.
HasExit(t) == \E p \in 1..Len(t.body) : t.body[p] = "exit"
Handled(t) == Len(t.body) - Len(t.rest)

RepliesSound(t) ==
  /\ \A p \in 1..Len(t.body) : p <= Handled(t) /\ t.body[p] = "call" =>
       \E i \in 1..Len(t.replies) : t.replies[i] = p
  /\ \A i \in 1..Len(t.replies) :
       /\ t.replies[i] \in 1..Len(t.body) /\ t.replies[i] <= Handled(t)
       /\ t.body[t.replies[i]] = "call"
  /\ \A i, j \in 1..Len(t.replies) : t.replies[i] = t.replies[j] => i = j

RestSound(t) ==
  /\ Len(t.rest) <= Len(t.body)
  /\ \A i \in 1..Len(t.rest) : t.rest[i] = t.body[Handled(t) + i]

PlaceSound(t) ==
  /\ t.at = "none" => t.replies = <<>>
  /\ t.at # "none" => t.conn \in Conn
  /\ t.at = "write" => t.rest = <<>>
  /\ t.at = "exit" => HasExit(t)
  /\ t.at = "done" => t.rest = <<>> \/ HasExit(t)

TaskSound(t) == RepliesSound(t) /\ RestSound(t) /\ PlaceSound(t)

\* A message that waits to be read is in one place, and nothing of it is done.
QueueInv ==
  /\ \A c \in Conn : \A i \in 1..Len(line[c]) :
       task[line[c][i]].at = "sent" /\ task[line[c][i]].conn = c
  /\ \A c \in Conn : \A i, j \in 1..Len(line[c]) : line[c][i] = line[c][j] => i = j
  /\ \A c \in Conn : reading[c] # None =>
       /\ task[reading[c]].at = "sent" /\ task[reading[c]].conn = c
       /\ \A i \in 1..Len(line[c]) : line[c][i] # reading[c]

\* On the wire is a reply to a call of a message that is done, once; and of a message that is
\* done, all of them, unless its connection has ended.
OnWire(t, c, p) == /\ t.at = "done" /\ t.conn = c
                   /\ p \in 1..Len(t.body) /\ t.body[p] = "call"

ToldAll(m) ==
  task[m].at = "done" /\ conn[task[m].conn] = "open" /\ ~HasExit(task[m]) =>
    \A p \in 1..Len(task[m].body) : task[m].body[p] = "call" =>
      \E i \in 1..Len(wire[task[m].conn]) : wire[task[m].conn][i] = <<m, p>>

WireInv ==
  /\ \A c \in Conn : \A i \in 1..Len(wire[c]) : OnWire(task[wire[c][i][1]], c, wire[c][i][2])
  /\ \A c \in Conn : \A i, j \in 1..Len(wire[c]) : wire[c][i] = wire[c][j] => i = j
  /\ \A m \in Message : ToldAll(m)

ReplyInv == /\ \A m \in Message : TaskSound(task[m])
            /\ QueueInv /\ WireInv

LEMMA InitReplies == Init => ReplyInv
  <1> SUFFICES ASSUME Init PROVE ReplyInv
    OBVIOUS
  <1>1. \A m \in Message : /\ task[m].at = "none" /\ task[m].body = <<>> /\ task[m].rest = <<>>
                           /\ task[m].replies = <<>>
    BY DEF Init
  <1>2. \A m \in Message : TaskSound(task[m])
    <2>1. Len(<<>>) = 0
      OBVIOUS
    <2>2. ASSUME NEW t, t.at = "none", t.body = <<>>, t.rest = <<>>, t.replies = <<>>
          PROVE  TaskSound(t)
      <3>1. Len(t.body) = 0 /\ Len(t.rest) = 0 /\ Len(t.replies) = 0
        BY <2>1, <2>2
      <3>2. RepliesSound(t)
        BY <3>1 DEF RepliesSound
      <3>3. RestSound(t)
        BY <3>1 DEF RestSound
      <3>4. PlaceSound(t)
        BY <2>2 DEF PlaceSound
      <3> QED BY <3>2, <3>3, <3>4 DEF TaskSound
    <2> QED BY <1>1, <2>2
  <1>3. QueueInv
    BY DEF Init, QueueInv
  <1>4. WireInv
    BY <1>1 DEF Init, WireInv, ToldAll
  <1> QED BY <1>2, <1>3, <1>4 DEF ReplyInv

\* A message that is not done goes on and the wire stays; no connection opens again.
LEMMA WireKept ==
  ASSUME WireInv, UNCHANGED wire,
         \A m \in Message : task'[m].at = "done" <=> task[m].at = "done",
         \A m \in Message : task[m].at = "done" => task'[m] = task[m],
         \A c \in Conn : conn'[c] = "open" => conn[c] = "open",
         \A m \in Message : task[m].at = "done" => task[m].conn \in Conn,
         RpcTypes
  PROVE  WireInv'
  <1>1. \A c \in Conn : \A i \in 1..Len(wire[c]) : wire[c][i][1] \in Message
    BY DEF RpcTypes
  <1>2. ASSUME NEW c \in Conn, NEW i \in 1..Len(wire[c])
        PROVE  OnWire(task'[wire'[c][i][1]], c, wire'[c][i][2])
    <2>1. OnWire(task[wire[c][i][1]], c, wire[c][i][2])
      BY DEF WireInv
    <2>2. task[wire[c][i][1]].at = "done"
      BY <2>1 DEF OnWire
    <2>3. task'[wire[c][i][1]] = task[wire[c][i][1]]
      BY <1>1, <2>2
    <2> QED BY <2>1, <2>3
  <1>3. ASSUME NEW m \in Message
        PROVE  ToldAll(m)'
    <2> SUFFICES ASSUME task'[m].at = "done", conn'[task'[m].conn] = "open", ~HasExit(task'[m]),
                        NEW p \in 1..Len(task'[m].body), task'[m].body[p] = "call"
                 PROVE  \E i \in 1..Len(wire'[task'[m].conn]) : wire'[task'[m].conn][i] = <<m, p>>
      BY DEF ToldAll
    <2>1. task'[m] = task[m] /\ task[m].at = "done"
      OBVIOUS
    <2>2. task[m].conn \in Conn
      BY <2>1
    <2>3. conn[task[m].conn] = "open" /\ ~HasExit(task[m])
      BY <2>1, <2>2
    <2>4. p \in 1..Len(task[m].body) /\ task[m].body[p] = "call"
      BY <2>1
    <2>5. ToldAll(m)
      BY DEF WireInv
    <2>6. \E i \in 1..Len(wire[task[m].conn]) : wire[task[m].conn][i] = <<m, p>>
      BY <2>1, <2>3, <2>4, <2>5 DEF ToldAll
    <2> QED BY <2>1, <2>6
  <1>4. \A c \in Conn : \A i, j \in 1..Len(wire'[c]) : wire'[c][i] = wire'[c][j] => i = j
    BY DEF WireInv
  <1> QED BY <1>2, <1>3, <1>4 DEF WireInv

LEMMA QueueKept ==
  ASSUME RpcTypes, QueueInv, UNCHANGED <<line, reading>>,
         \A m \in Message : task[m].at = "sent" => task'[m] = task[m]
  PROVE  QueueInv'
  <1>1. \A c \in Conn : \A i \in 1..Len(line[c]) : line[c][i] \in Message
    BY DEF RpcTypes
  <1>2. \A c \in Conn : reading[c] # None => reading[c] \in Message
    BY DEF RpcTypes
  <1> QED BY <1>1, <1>2 DEF QueueInv

\* A message whose goroutine goes on, on the same connection.
LEMMA GoesOn ==
  ASSUME RpcTypes, ReplyInv, NEW m \in Message, NEW x \in RpcTask,
         task' = [task EXCEPT ![m] = x], task[m].at \notin {"none", "sent", "done"}, x.at # "done",
         TaskSound(x), UNCHANGED <<line, reading, wire>>,
         \A c \in Conn : conn'[c] = "open" => conn[c] = "open"
  PROVE  ReplyInv'
  <1>1. task'[m] = x /\ \A n \in Message : n # m => task'[n] = task[n]
    BY DEF RpcTypes
  <1>2. \A n \in Message : TaskSound(task'[n])
    BY <1>1 DEF ReplyInv
  <1>3. QueueInv'
    BY <1>1, QueueKept DEF ReplyInv
  <1>4. WireInv'
    BY <1>1, WireKept DEF ReplyInv, TaskSound, PlaceSound
  <1> QED BY <1>2, <1>3, <1>4 DEF ReplyInv

\* One item of the batch that is not a call is done with.
LEMMA ItemPassed ==
  ASSUME RpcTypes, NEW m \in Message, TaskSound(task[m]), task[m].rest # <<>>,
         Head(task[m].rest) # "call", NEW x \in RpcTask, x.conn = task[m].conn,
         x.body = task[m].body, x.rest = Tail(task[m].rest), x.replies = task[m].replies,
         x.at \in {"run", "callback"}, task[m].conn \in Conn
  PROVE  TaskSound(x)
  <1>1. /\ Len(task[m].rest) \in Nat \ {0} /\ Len(x.rest) = Len(task[m].rest) - 1
        /\ Len(task[m].body) \in Nat
        /\ Head(task[m].rest) = task[m].rest[1]
        /\ \A i \in 1..Len(x.rest) : x.rest[i] = task[m].rest[i+1]
    BY RestTyped
  <1>2. Handled(x) = Handled(task[m]) + 1 /\ Handled(task[m]) \in Nat
    <2>1. Len(task[m].rest) <= Len(task[m].body) /\ Len(x.body) = Len(task[m].body)
      BY DEF TaskSound, RestSound
    <2>2. PICK a \in Nat, b \in Nat : a = Len(task[m].body) /\ b = Len(task[m].rest) /\ b <= a
      BY <1>1, <2>1
    <2>3. Handled(task[m]) = a - b /\ Handled(x) = a - (b - 1)
      BY <1>1, <2>1, <2>2 DEF Handled
    <2> QED BY <2>2, <2>3
  <1>3. task[m].body[Handled(task[m]) + 1] # "call"
    BY <1>1 DEF TaskSound, RestSound
  <1>4. RestSound(x)
    <2>1. ASSUME NEW i \in 1..Len(x.rest) PROVE x.rest[i] = x.body[Handled(task[m]) + (i + 1)]
      <3>1. i + 1 \in 1..Len(task[m].rest)
        BY <1>1
      <3>2. task[m].rest[i + 1] = task[m].body[Handled(task[m]) + (i + 1)]
        BY <3>1 DEF TaskSound, RestSound
      <3> QED BY <1>1, <3>2
    <2>2. \A i \in 1..Len(x.rest) : Handled(task[m]) + (i + 1) = Handled(x) + i
      BY <1>1, <1>2
    <2>3. \A i \in 1..Len(x.rest) : x.rest[i] = x.body[Handled(x) + i]
      BY <2>1, <2>2
    <2>4. Len(x.rest) <= Len(x.body)
      BY <1>1 DEF TaskSound, RestSound
    <2> QED BY <2>3, <2>4 DEF RestSound
  <1>5. RepliesSound(x)
    BY <1>1, <1>2, <1>3 DEF TaskSound, RepliesSound
  <1>6. PlaceSound(x)
    BY DEF TaskSound, PlaceSound
  <1> QED BY <1>4, <1>5, <1>6 DEF TaskSound

\* A call gets its reply.
LEMMA CallReplied ==
  ASSUME RpcTypes, NEW m \in Message, TaskSound(task[m]), task[m].rest # <<>>,
         Head(task[m].rest) = "call", NEW x \in RpcTask, x.conn = task[m].conn,
         x.body = task[m].body, x.rest = Tail(task[m].rest),
         x.replies = Append(task[m].replies, Position(m)), x.at = "run", task[m].conn \in Conn
  PROVE  TaskSound(x)
  <1>1. /\ Len(task[m].rest) \in Nat \ {0} /\ Len(x.rest) = Len(task[m].rest) - 1
        /\ Len(task[m].body) \in Nat
        /\ Head(task[m].rest) = task[m].rest[1]
        /\ \A i \in 1..Len(x.rest) : x.rest[i] = task[m].rest[i+1]
    BY RestTyped
  <1>2. /\ Handled(x) = Handled(task[m]) + 1 /\ Handled(task[m]) \in Nat
        /\ Position(m) = Handled(x) /\ Handled(x) \in 1..Len(x.body)
    <2>1. Len(task[m].rest) <= Len(task[m].body) /\ Len(x.body) = Len(task[m].body)
      BY DEF TaskSound, RestSound
    <2>2. PICK a \in Nat, b \in Nat \ {0} : a = Len(task[m].body) /\ b = Len(task[m].rest) /\ b <= a
      BY <1>1, <2>1
    <2>3. /\ Handled(task[m]) = a - b /\ Handled(x) = a - (b - 1) /\ Position(m) = a - b + 1
          /\ Len(x.body) = a
      BY <1>1, <2>1, <2>2 DEF Handled, Position
    <2>4. a - (b - 1) = a - b + 1
      BY <2>2
    <2>5. a - b \in Nat
      BY <2>2
    <2>6. a - b + 1 \in 1..a
      <3>1. b >= 1 /\ b <= a /\ a \in Int /\ b \in Int
        BY <2>2
      <3>2. a - b + 1 \in Int /\ 1 <= a - b + 1 /\ a - b + 1 <= a
        BY <3>1
      <3> QED BY <3>1, <3>2
    <2> QED BY <2>3, <2>4, <2>5, <2>6
  <1>3. x.body[Handled(x)] = "call"
    BY <1>1, <1>2 DEF TaskSound, RestSound
  <1>4. /\ Len(task[m].replies) \in Nat /\ Len(x.replies) = Len(task[m].replies) + 1
        /\ \A i \in 1..Len(task[m].replies) : x.replies[i] = task[m].replies[i]
        /\ x.replies[Len(task[m].replies) + 1] = Handled(x)
    <2>1. task[m].replies \in Seq(Int)
      BY DEF RpcTypes, RpcTask
    <2>2. PICK k \in Int : k = Handled(x) /\ x.replies = Append(task[m].replies, k)
      BY <1>2
    <2>3. /\ Len(Append(task[m].replies, k)) = Len(task[m].replies) + 1
          /\ \A i \in 1..Len(task[m].replies) : Append(task[m].replies, k)[i] = task[m].replies[i]
          /\ Append(task[m].replies, k)[Len(task[m].replies) + 1] = k
      BY <2>1, AppendProperties
    <2>4. Len(task[m].replies) \in Nat
      BY <2>1, LenProperties
    <2> QED BY <2>2, <2>3, <2>4
  <1>5. RestSound(x)
    <2>1. ASSUME NEW i \in 1..Len(x.rest) PROVE x.rest[i] = x.body[Handled(task[m]) + (i + 1)]
      <3>1. i + 1 \in 1..Len(task[m].rest)
        BY <1>1
      <3>2. task[m].rest[i + 1] = task[m].body[Handled(task[m]) + (i + 1)]
        BY <3>1 DEF TaskSound, RestSound
      <3> QED BY <1>1, <3>2
    <2>2. \A i \in 1..Len(x.rest) : Handled(task[m]) + (i + 1) = Handled(x) + i
      BY <1>1, <1>2
    <2>3. \A i \in 1..Len(x.rest) : x.rest[i] = x.body[Handled(x) + i]
      BY <2>1, <2>2
    <2>4. Len(x.rest) <= Len(x.body)
      BY <1>1 DEF TaskSound, RestSound
    <2> QED BY <2>3, <2>4 DEF RestSound
  <1>6. RepliesSound(x)
    <2>1. ASSUME NEW p \in 1..Len(x.body), p <= Handled(x), x.body[p] = "call"
          PROVE  \E i \in 1..Len(x.replies) : x.replies[i] = p
      <3>1. CASE p = Handled(x)
        BY <1>4, <3>1
      <3>2. CASE p # Handled(x)
        <4>1. p <= Handled(task[m])
          BY <1>2, <2>1, <3>2
        <4>2. PICK i \in 1..Len(task[m].replies) : task[m].replies[i] = p
          BY <2>1, <4>1 DEF TaskSound, RepliesSound
        <4> QED BY <1>4, <4>2
      <3> QED BY <3>1, <3>2
    <2>2. ASSUME NEW i \in 1..Len(x.replies)
          PROVE  /\ x.replies[i] \in 1..Len(x.body) /\ x.replies[i] <= Handled(x)
                 /\ x.body[x.replies[i]] = "call"
      <3>1. CASE i = Len(task[m].replies) + 1
        BY <1>2, <1>3, <1>4, <3>1
      <3>2. CASE i # Len(task[m].replies) + 1
        <4>1. i \in 1..Len(task[m].replies)
          BY <1>4, <3>2
        <4> QED BY <1>1, <1>2, <1>4, <4>1 DEF TaskSound, RepliesSound
      <3> QED BY <3>1, <3>2
    <2>3. ASSUME NEW i \in 1..Len(x.replies), NEW j \in 1..Len(x.replies), x.replies[i] = x.replies[j]
          PROVE  i = j
      <3>1. \A k \in 1..Len(task[m].replies) : x.replies[k] # Handled(x)
        <4> SUFFICES ASSUME NEW k \in 1..Len(task[m].replies), x.replies[k] = Handled(x) PROVE FALSE
          OBVIOUS
        <4>1. task[m].replies[k] \in 1..Len(task[m].body) /\ task[m].replies[k] <= Handled(task[m])
          BY DEF TaskSound, RepliesSound
        <4> QED BY <1>1, <1>2, <1>4, <4>1
      <3>2. CASE i = Len(task[m].replies) + 1 \/ j = Len(task[m].replies) + 1
        BY <1>4, <2>3, <3>1, <3>2
      <3>3. CASE i \in 1..Len(task[m].replies) /\ j \in 1..Len(task[m].replies)
        BY <1>4, <2>3, <3>3 DEF TaskSound, RepliesSound
      <3> QED BY <1>4, <3>2, <3>3
    <2> QED BY <2>1, <2>2, <2>3 DEF RepliesSound
  <1>7. PlaceSound(x)
    BY DEF TaskSound, PlaceSound
  <1> QED BY <1>5, <1>6, <1>7 DEF TaskSound

\* A message at another place, with nothing handled in between.
LEMMA SameSound ==
  ASSUME NEW m \in Message, TaskSound(task[m]), NEW x \in RpcTask,
         x.body = task[m].body, x.rest = task[m].rest, x.replies = task[m].replies
  PROVE  RepliesSound(x) /\ RestSound(x)
  <1>1. Handled(x) = Handled(task[m])
    BY DEF Handled
  <1>2. RepliesSound(x)
    BY <1>1 DEF TaskSound, RepliesSound
  <1>3. RestSound(x)
    BY <1>1 DEF TaskSound, RestSound
  <1> QED BY <1>2, <1>3

\* A client sends a message.
LEMMA SendReplies ==
  ASSUME RpcAssumed, RpcTypes, ReplyInv, NEW c \in Conn, NEW m \in Message, ClientSends(c, m)
  PROVE  ReplyInv'
  <1>1. PICK body \in Bodies, x \in RpcTask :
          /\ task' = [task EXCEPT ![m] = x]
          /\ x.at = "sent" /\ x.conn = c /\ x.body = body /\ x.rest = body
          /\ x.replies = task[m].replies
    BY SendStep
  <1>2. task[m].at = "none" /\ task[m].replies = <<>>
    BY SendStep DEF ReplyInv, TaskSound, PlaceSound
  <1>3. task'[m] = x /\ \A n \in Message : n # m => task'[n] = task[n]
    BY <1>1 DEF RpcTypes
  <1>4. TaskSound(x)
    <2>1. Len(x.body) \in Nat /\ Len(x.rest) = Len(x.body) /\ Len(x.replies) = 0
      BY <1>1, <1>2, BodiesTyped, LenProperties
    <2>2. Handled(x) = 0
      BY <2>1 DEF Handled
    <2>3. RepliesSound(x)
      BY <2>1, <2>2 DEF RepliesSound
    <2>4. RestSound(x)
      BY <1>1, <2>1, <2>2 DEF RestSound
    <2>5. PlaceSound(x)
      BY <1>1 DEF PlaceSound
    <2> QED BY <2>3, <2>4, <2>5 DEF TaskSound
  <1>5. UNCHANGED <<conn, reading, wire>> /\ line' = [line EXCEPT ![c] = Append(@, m)]
    BY DEF ClientSends
  <1>6. QueueInv'
    <2>1. /\ line[c] \in Seq(Message) /\ Len(line[c]) \in Nat
          /\ Len(line'[c]) = Len(line[c]) + 1 /\ line'[c][Len(line[c]) + 1] = m
          /\ \A i \in 1..Len(line[c]) : line'[c][i] = line[c][i]
      <3>1. line[c] \in Seq(Message) /\ line'[c] = Append(line[c], m)
        BY <1>5 DEF RpcTypes
      <3> QED BY <3>1, AppendProperties, LenProperties
    <2>2. \A d \in Conn : d # c => line'[d] = line[d]
      BY <1>5 DEF RpcTypes
    <2>3. \A d \in Conn : \A i \in 1..Len(line[d]) :
            line[d][i] \in Message /\ line[d][i] # m /\ task[line[d][i]].at = "sent"
            /\ task[line[d][i]].conn = d
      <3>1. \A d \in Conn : \A i \in 1..Len(line[d]) : line[d][i] \in Message
        BY DEF RpcTypes
      <3>2. \A d \in Conn : \A i \in 1..Len(line[d]) :
              task[line[d][i]].at = "sent" /\ task[line[d][i]].conn = d
        BY DEF ReplyInv, QueueInv
      <3> QED BY <1>2, <3>1, <3>2
    <2>4. \A d \in Conn : reading[d] # None => reading[d] \in Message /\ reading[d] # m
      BY <1>2 DEF ReplyInv, QueueInv, RpcTypes
    <2>5. ASSUME NEW d \in Conn
          PROVE  /\ \A i \in 1..Len(line'[d]) :
                      task'[line'[d][i]].at = "sent" /\ task'[line'[d][i]].conn = d
                 /\ \A i, j \in 1..Len(line'[d]) : line'[d][i] = line'[d][j] => i = j
                 /\ reading[d] # None => \A i \in 1..Len(line'[d]) : line'[d][i] # reading[d]
      <3>1. CASE d # c
        BY <1>3, <2>2, <2>3, <3>1 DEF ReplyInv, QueueInv
      <3>2. CASE d = c
        <4>1. \A i \in 1..Len(line'[c]) : i = Len(line[c]) + 1 \/ i \in 1..Len(line[c])
          BY <2>1
        <4>2. \A i \in 1..Len(line'[c]) :
                task'[line'[c][i]].at = "sent" /\ task'[line'[c][i]].conn = c
          BY <1>1, <1>3, <2>1, <2>3, <4>1
        <4>3. \A i, j \in 1..Len(line'[c]) : line'[c][i] = line'[c][j] => i = j
          <5>1. \A i, j \in 1..Len(line[c]) : line[c][i] = line[c][j] => i = j
            BY DEF ReplyInv, QueueInv
          <5> QED BY <2>1, <2>3, <4>1, <5>1
        <4>4. reading[c] # None => \A i \in 1..Len(line'[c]) : line'[c][i] # reading[c]
          <5>1. reading[c] # None => \A i \in 1..Len(line[c]) : line[c][i] # reading[c]
            BY DEF ReplyInv, QueueInv
          <5> QED BY <2>1, <2>4, <4>1, <5>1
        <4> QED BY <3>2, <4>2, <4>3, <4>4
      <3> QED BY <3>1, <3>2
    <2>6. \A d \in Conn : reading[d] # None =>
            task'[reading[d]].at = "sent" /\ task'[reading[d]].conn = d
      BY <1>3, <2>4 DEF ReplyInv, QueueInv
    <2> QED BY <1>5, <2>5, <2>6 DEF QueueInv
  <1>7. WireInv'
    BY <1>1, <1>2, <1>3, <1>5, WireKept DEF ReplyInv, TaskSound, PlaceSound
  <1>8. \A n \in Message : TaskSound(task'[n])
    BY <1>3, <1>4 DEF ReplyInv
  <1> QED BY <1>6, <1>7, <1>8 DEF ReplyInv

\* The read loop takes a message, and gives it a slot; a connection ends.
LEMMA ReadReplies ==
  ASSUME RpcTypes, ReplyInv, NEW c \in Conn,
         ClientLeaves(c) \/ ReadMessage(c) \/ ReadFails(c)
  PROVE  ReplyInv'
  <1>1. UNCHANGED <<task, wire>> /\ \A d \in Conn : conn'[d] = "open" => conn[d] = "open"
    BY DEF RpcTypes, ClientLeaves, ReadMessage, ReadFails
  <1>2. WireInv'
    BY <1>1, WireKept DEF ReplyInv, TaskSound, PlaceSound
  <1>3. CASE ClientLeaves(c)
    BY <1>1, <1>2, <1>3 DEF ClientLeaves, ReplyInv, QueueInv
  <1>4. CASE ReadFails(c)
    <2>1. line'[c] = <<>> /\ Len(<<>>) = 0 /\ \A d \in Conn : d # c => line'[d] = line[d]
      BY <1>4 DEF RpcTypes, ReadFails
    <2>2. UNCHANGED reading /\ reading[c] = None
      BY <1>4 DEF ReadFails
    <2>3. QueueInv'
      BY <1>1, <2>1, <2>2 DEF ReplyInv, QueueInv
    <2> QED BY <1>1, <1>2, <2>3 DEF ReplyInv
  <1>5. CASE ReadMessage(c)
    <2>1. /\ line'[c] = Tail(line[c]) /\ reading'[c] = Head(line[c]) /\ line[c] # <<>>
          /\ \A d \in Conn : d # c => line'[d] = line[d] /\ reading'[d] = reading[d]
      BY <1>5 DEF RpcTypes, ReadMessage
    <2>2. /\ Len(line[c]) \in Nat \ {0} /\ Len(line'[c]) = Len(line[c]) - 1
          /\ reading'[c] = line[c][1] /\ \A i \in 1..Len(line'[c]) : line'[c][i] = line[c][i+1]
      <3>1. line[c] \in Seq(Message)
        BY DEF RpcTypes
      <3>2. Len(line[c]) \in Nat /\ Len(line[c]) # 0
        BY <2>1, <3>1, EmptySeq, LenProperties
      <3> QED BY <2>1, <3>1, <3>2, HeadTailProperties
    <2>3. \A i \in 1..Len(line'[c]) : i + 1 \in 1..Len(line[c]) /\ i + 1 # 1
      BY <2>2
    <2>4. ASSUME NEW d \in Conn
          PROVE  /\ \A i \in 1..Len(line'[d]) :
                      task[line'[d][i]].at = "sent" /\ task[line'[d][i]].conn = d
                 /\ \A i, j \in 1..Len(line'[d]) : line'[d][i] = line'[d][j] => i = j
                 /\ reading'[d] # None =>
                      /\ task[reading'[d]].at = "sent" /\ task[reading'[d]].conn = d
                      /\ \A i \in 1..Len(line'[d]) : line'[d][i] # reading'[d]
      <3>1. CASE d # c
        BY <2>1, <3>1 DEF ReplyInv, QueueInv
      <3>2. CASE d = c
        <4>1. /\ \A i \in 1..Len(line[c]) :
                   task[line[c][i]].at = "sent" /\ task[line[c][i]].conn = c
              /\ \A i, j \in 1..Len(line[c]) : line[c][i] = line[c][j] => i = j
          BY DEF ReplyInv, QueueInv
        <4>2. 1 \in 1..Len(line[c])
          BY <2>2
        <4>3. \A i \in 1..Len(line'[c]) :
                task[line'[c][i]].at = "sent" /\ task[line'[c][i]].conn = c
          BY <2>2, <2>3, <4>1
        <4>4. ASSUME NEW i \in 1..Len(line'[c]), NEW j \in 1..Len(line'[c]),
                     line'[c][i] = line'[c][j]
              PROVE  i = j
          <5>1. i + 1 \in 1..Len(line[c]) /\ j + 1 \in 1..Len(line[c]) /\ i \in Int /\ j \in Int
            BY <2>3
          <5>2. line[c][i + 1] = line[c][j + 1]
            BY <2>2, <4>4
          <5>3. i + 1 = j + 1
            BY <4>1, <5>1, <5>2
          <5> QED BY <5>1, <5>3
        <4>5. \A i \in 1..Len(line'[c]) : line'[c][i] # reading'[c]
          BY <2>2, <2>3, <4>1, <4>2
        <4>6. task[reading'[c]].at = "sent" /\ task[reading'[c]].conn = c
          BY <2>2, <4>1, <4>2
        <4> QED BY <3>2, <4>3, <4>4, <4>5, <4>6
      <3> QED BY <3>1, <3>2
    <2>5. QueueInv'
      BY <1>1, <2>4 DEF QueueInv
    <2> QED BY <1>1, <1>2, <2>5 DEF ReplyInv
  <1> QED BY <1>3, <1>4, <1>5

LEMMA DispatchReplies ==
  ASSUME RpcTypes, ReplyInv, NEW c \in Conn, Dispatch(c)
  PROVE  ReplyInv'
  <1>1. PICK m \in Message : m = reading[c]
    BY DEF RpcTypes, Dispatch
  <1>2. /\ task' = [task EXCEPT ![m].at = "run"] /\ reading[c] # None
        /\ reading' = [reading EXCEPT ![c] = None] /\ UNCHANGED <<conn, line, wire>>
    BY <1>1 DEF Dispatch
  <1>3. PICK x \in RpcTask :
          /\ task' = [task EXCEPT ![m] = x] /\ x.at = "run" /\ x.conn = task[m].conn
          /\ x.body = task[m].body /\ x.rest = task[m].rest /\ x.replies = task[m].replies
    <2>1. PICK at \in TaskPc : task' = [task EXCEPT ![m].at = at] /\ at = "run"
      BY <1>2 DEF TaskPc
    <2>2. \E x \in RpcTask :
            /\ task' = [task EXCEPT ![m] = x]
            /\ x.at = at /\ x.conn = task[m].conn /\ x.body = task[m].body
            /\ x.rest = task[m].rest /\ x.replies = task[m].replies /\ x.out = task[m].out
      <3>1. task' = [task EXCEPT ![m].at = at]
        BY <2>1
      <3> QED BY <3>1, GoesStep
    <2> QED BY <2>1, <2>2
  <1>4. task'[m] = x /\ \A n \in Message : n # m => task'[n] = task[n]
    BY <1>3 DEF RpcTypes
  <1>5. task[m].at = "sent" /\ task[m].conn = c
    BY <1>1, <1>2 DEF ReplyInv, QueueInv
  <1>6. TaskSound(x)
    <2>1. TaskSound(task[m])
      BY DEF ReplyInv
    <2>2. RepliesSound(x) /\ RestSound(x)
      BY <1>3, <2>1, SameSound
    <2>3. PlaceSound(x)
      BY <1>3, <1>5 DEF PlaceSound
    <2> QED BY <2>2, <2>3 DEF TaskSound
  <1>7. QueueInv'
    <2>1. \A d \in Conn : \A i \in 1..Len(line[d]) :
            line[d][i] \in Message /\ task[line[d][i]].conn = d
      BY DEF RpcTypes, ReplyInv, QueueInv
    <2>2. \A i \in 1..Len(line[c]) : line[c][i] # m
      BY <1>1, <1>2 DEF ReplyInv, QueueInv
    <2>3. \A d \in Conn : \A i \in 1..Len(line[d]) : line[d][i] # m
      BY <1>5, <2>1, <2>2
    <2>4. \A d \in Conn : \A i \in 1..Len(line[d]) : task'[line[d][i]] = task[line[d][i]]
      BY <1>4, <2>1, <2>3
    <2>5. \A d \in Conn : d # c /\ reading[d] # None =>
            reading[d] \in Message /\ reading[d] # m
      BY <1>5 DEF RpcTypes, ReplyInv, QueueInv
    <2>6. \A d \in Conn : d # c /\ reading[d] # None => task'[reading[d]] = task[reading[d]]
      BY <1>4, <2>5
    <2>7. reading'[c] = None /\ \A d \in Conn : d # c => reading'[d] = reading[d]
      BY <1>2 DEF RpcTypes
    <2>8. \A d \in Conn : \A i \in 1..Len(line'[d]) :
            task'[line'[d][i]].at = "sent" /\ task'[line'[d][i]].conn = d
      <3>1. \A d \in Conn : \A i \in 1..Len(line[d]) :
              task[line[d][i]].at = "sent" /\ task[line[d][i]].conn = d
        BY DEF ReplyInv, QueueInv
      <3>2. \A d \in Conn : \A i \in 1..Len(line[d]) :
              task'[line[d][i]].at = "sent" /\ task'[line[d][i]].conn = d
        BY <2>4, <3>1
      <3>3. line' = line
        BY <1>2
      <3> QED BY <3>2, <3>3
    <2>9. \A d \in Conn : reading'[d] # None =>
            /\ task'[reading'[d]].at = "sent" /\ task'[reading'[d]].conn = d
            /\ \A i \in 1..Len(line'[d]) : line'[d][i] # reading'[d]
      <3> SUFFICES ASSUME NEW d \in Conn, reading'[d] # None
                   PROVE  /\ task'[reading'[d]].at = "sent" /\ task'[reading'[d]].conn = d
                          /\ \A i \in 1..Len(line'[d]) : line'[d][i] # reading'[d]
        OBVIOUS
      <3>1. d # c /\ reading'[d] = reading[d] /\ reading[d] # None
        BY <2>7
      <3>2. task'[reading[d]] = task[reading[d]]
        BY <2>6, <3>1
      <3>3. task[reading[d]].at = "sent" /\ task[reading[d]].conn = d
        BY <3>1 DEF ReplyInv, QueueInv
      <3>4. \A i \in 1..Len(line[d]) : line[d][i] # reading[d]
        BY <3>1 DEF ReplyInv, QueueInv
      <3> QED BY <1>2, <3>1, <3>2, <3>3, <3>4
    <2>10. \A d \in Conn : \A i, j \in 1..Len(line'[d]) : line'[d][i] = line'[d][j] => i = j
      BY <1>2 DEF ReplyInv, QueueInv
    <2> QED BY <2>8, <2>9, <2>10 DEF QueueInv
  <1>8. WireInv'
    BY <1>2, <1>3, <1>4, <1>5, WireKept DEF ReplyInv, TaskSound, PlaceSound
  <1>9. \A n \in Message : TaskSound(task'[n])
    BY <1>4, <1>6 DEF ReplyInv
  <1> QED BY <1>7, <1>8, <1>9 DEF ReplyInv

\* handle, one item after the other.
LEMMA ItemReplies ==
  ASSUME RpcAssumed, RpcTypes, ReplyInv, NEW m \in Message,
         SolveCall(m) \/ SolveNote(m) \/ SolveAnswer(m) \/ Callback(m)
  PROVE  ReplyInv'
  <1>1. UNCHANGED <<conn, line, reading, wire>>
    BY DEF SolveCall, SolveNote, SolveAnswer, Callback, connVars
  <1>2. task[m].at \in {"run", "callback"}
    BY DEF SolveCall, SolveNote, SolveAnswer, Callback
  <1>3. TaskSound(task[m]) /\ task[m].conn \in Conn
    BY <1>2 DEF ReplyInv, TaskSound, PlaceSound
  <1>4. \E x \in RpcTask : task' = [task EXCEPT ![m] = x] /\ TaskSound(x) /\ x.at # "done"
    <2>1. CASE SolveCall(m)
      <3>1. task[m].rest # <<>> /\ Head(task[m].rest) = "call"
        BY <2>1 DEF SolveCall
      <3> QED BY <1>3, <2>1, <3>1, ReplyStep, CallReplied
    <2>2. CASE SolveNote(m)
      <3>1. task[m].rest # <<>> /\ Head(task[m].rest) # "call"
        BY <2>2 DEF SolveNote
      <3> QED BY <1>3, <2>2, <3>1, PassStep, ItemPassed
    <2>3. CASE SolveAnswer(m)
      <3>1. task[m].rest # <<>> /\ Head(task[m].rest) # "call"
        BY <2>3 DEF SolveAnswer, RpcAssumed
      <3>2. PICK o \in Out, x \in RpcTask :
              /\ task' = [task EXCEPT ![m] = x] /\ x.at \in {"callback", "run"}
              /\ x.conn = task[m].conn /\ x.body = task[m].body
              /\ x.rest = Tail(task[m].rest) /\ x.replies = task[m].replies
        BY <2>3, TakeStep
      <3>3. TaskSound(x)
        BY <1>3, <3>1, <3>2, ItemPassed
      <3> QED BY <3>2, <3>3
    <2>4. CASE Callback(m)
      <3>1. PICK x \in RpcTask :
              /\ task' = [task EXCEPT ![m] = x]
              /\ x.at = "run" /\ x.conn = task[m].conn /\ x.body = task[m].body
              /\ x.rest = task[m].rest /\ x.replies = task[m].replies
        BY <2>4, CalledBackStep
      <3>2. RepliesSound(x) /\ RestSound(x)
        BY <1>3, <3>1, SameSound
      <3>3. PlaceSound(x)
        BY <1>3, <3>1 DEF PlaceSound
      <3> QED BY <3>1, <3>2, <3>3 DEF TaskSound
    <2> QED BY <2>1, <2>2, <2>3, <2>4
  <1> QED BY <1>1, <1>2, <1>4, GoesOn

\* A batch with exit is cut short.
LEMMA ExitReplies ==
  ASSUME RpcTypes, ReplyInv, NEW m \in Message, SolveExit(m)
  PROVE  ReplyInv'
  <1>1. PICK at \in TaskPc : task' = [task EXCEPT ![m].at = at] /\ at = "exit"
    BY DEF SolveExit, TaskPc
  <1>2. PICK x \in RpcTask :
          /\ task' = [task EXCEPT ![m] = x]
          /\ x.at = at /\ x.conn = task[m].conn /\ x.body = task[m].body
          /\ x.rest = task[m].rest /\ x.replies = task[m].replies /\ x.out = task[m].out
    <2>1. task' = [task EXCEPT ![m].at = at]
      BY <1>1
    <2> QED BY <2>1, GoesStep
  <1>3. task[m].at = "run" /\ task[m].rest # <<>> /\ Head(task[m].rest) = "exit"
    BY DEF SolveExit
  <1>4. TaskSound(task[m]) /\ task[m].conn \in Conn
    BY <1>3 DEF ReplyInv, TaskSound, PlaceSound
  <1>5. HasExit(task[m])
    <2>1. PICK a \in Nat, b \in Nat \ {0} :
            a = Len(task[m].body) /\ b = Len(task[m].rest) /\ b <= a
      BY <1>3, <1>4, RestTyped DEF TaskSound, RestSound
    <2>2. b >= 1 /\ b <= a /\ a \in Int /\ b \in Int
      BY <2>1
    <2>3. a - b + 1 \in 1..a /\ 1 \in 1..b
      <3>1. a - b + 1 \in Int /\ 1 <= a - b + 1 /\ a - b + 1 <= a
        BY <2>2
      <3> QED BY <2>2, <3>1
    <2>4. task[m].body[a - b + 1] = task[m].rest[1]
      <3>1. \A i \in 1..Len(task[m].rest) : task[m].rest[i] = task[m].body[Handled(task[m]) + i]
        BY <1>4 DEF TaskSound, RestSound
      <3>2. task[m].rest[1] = task[m].body[Handled(task[m]) + 1]
        BY <2>1, <2>3, <3>1
      <3>3. Handled(task[m]) = a - b
        BY <2>1 DEF Handled
      <3> QED BY <3>2, <3>3
    <2>5. task[m].rest[1] = "exit"
      BY <1>3, RestTyped
    <2> QED BY <2>1, <2>3, <2>4, <2>5 DEF HasExit
  <1>6. TaskSound(x)
    <2>1. RepliesSound(x) /\ RestSound(x)
      BY <1>2, <1>4, SameSound
    <2>2. HasExit(x)
      BY <1>2, <1>5 DEF HasExit
    <2>3. PlaceSound(x)
      BY <1>1, <1>2, <1>4, <2>2 DEF PlaceSound
    <2> QED BY <2>1, <2>3 DEF TaskSound
  <1>7. UNCHANGED <<conn, line, reading, wire>> /\ x.at # "done"
    BY <1>1, <1>2 DEF SolveExit, connVars
  <1> QED BY <1>2, <1>3, <1>6, <1>7, GoesOn

\* A message is done: what it owes is on the wire, or it owes nothing.
LEMMA DoneReplies ==
  ASSUME RpcTypes, ReplyInv, NEW m \in Message, NEW x \in RpcTask,
         task' = [task EXCEPT ![m] = x], task[m].at \in {"run", "write", "exit"}, x.at = "done",
         x.conn = task[m].conn, x.body = task[m].body, x.rest = task[m].rest,
         x.replies = task[m].replies, task[m].rest = <<>> \/ HasExit(task[m]),
         UNCHANGED <<line, reading>>,
         \A c \in Conn : conn'[c] = "open" => conn[c] = "open",
         WireInv'
  PROVE  ReplyInv'
  <1>1. task'[m] = x /\ \A n \in Message : n # m => task'[n] = task[n]
    BY DEF RpcTypes
  <1>2. TaskSound(x)
    <2>1. TaskSound(task[m])
      BY DEF ReplyInv
    <2>2. RepliesSound(x) /\ RestSound(x)
      BY <2>1, SameSound
    <2>3. PlaceSound(x)
      BY <2>1 DEF TaskSound, PlaceSound, HasExit
    <2> QED BY <2>2, <2>3 DEF TaskSound
  <1>3. QueueInv'
    BY <1>1, QueueKept DEF ReplyInv
  <1>4. \A n \in Message : TaskSound(task'[n])
    BY <1>1, <1>2 DEF ReplyInv
  <1> QED BY <1>3, <1>4 DEF ReplyInv

\* The replies x has made are those to all of its calls once nothing of it is left.
LEMMA AllReplied ==
  ASSUME RpcTypes, NEW m \in Message, TaskSound(task[m]), task[m].rest = <<>>,
         NEW p \in 1..Len(task[m].body), task[m].body[p] = "call"
  PROVE  \E i \in 1..Len(task[m].replies) : task[m].replies[i] = p
  <1>1. Len(task[m].rest) = 0
    OBVIOUS
  <1>2. Len(task[m].body) \in Nat
    BY LenProperties DEF RpcTypes, RpcTask
  <1>3. PICK a \in Nat : a = Len(task[m].body)
    BY <1>2
  <1>4. Handled(task[m]) = a
    BY <1>1, <1>3 DEF Handled
  <1>5. p <= Handled(task[m])
    BY <1>3, <1>4
  <1> QED BY <1>5 DEF TaskSound, RepliesSound

\* handle returns, and what it returned is written.
LEMMA ReturnReplies ==
  ASSUME RpcTypes, ReplyInv, NEW m \in Message, HandleReturns(m)
  PROVE  ReplyInv'
  <1>1. PICK at \in TaskPc : /\ task' = [task EXCEPT ![m].at = at]
                                 /\ at = IF task[m].replies = <<>> THEN "done" ELSE "write"
    BY DEF HandleReturns, TaskPc
  <1>2. PICK x \in RpcTask :
          /\ task' = [task EXCEPT ![m] = x]
          /\ x.at = at /\ x.conn = task[m].conn /\ x.body = task[m].body
          /\ x.rest = task[m].rest /\ x.replies = task[m].replies /\ x.out = task[m].out
    <2>1. task' = [task EXCEPT ![m].at = at]
      BY <1>1
    <2> QED BY <2>1, GoesStep
  <1>3. /\ task[m].at = "run" /\ task[m].rest = <<>> /\ UNCHANGED <<conn, line, reading, wire>>
    BY DEF HandleReturns, connVars
  <1>4. TaskSound(task[m]) /\ task[m].conn \in Conn
    BY <1>3 DEF ReplyInv, TaskSound, PlaceSound
  <1>5. task'[m] = x /\ \A n \in Message : n # m => task'[n] = task[n]
    BY <1>2 DEF RpcTypes
  <1>6. CASE task[m].replies # <<>>
    <2>1. x.at = "write"
      BY <1>1, <1>2, <1>6
    <2>2. RepliesSound(x) /\ RestSound(x)
      BY <1>2, <1>4, SameSound
    <2>3. PlaceSound(x)
      BY <1>2, <1>3, <1>4, <2>1 DEF PlaceSound
    <2>4. TaskSound(x)
      BY <2>2, <2>3 DEF TaskSound
    <2> QED BY <1>2, <1>3, <2>1, <2>4, GoesOn
  <1>7. CASE task[m].replies = <<>>
    <2>1. x.at = "done"
      BY <1>1, <1>2, <1>7
    <2>2. \A p \in 1..Len(task[m].body) : task[m].body[p] # "call"
      <3>1. Len(task[m].replies) = 0
        BY <1>7
      <3> QED BY <1>3, <1>4, <3>1, AllReplied
    <2>3. WireInv'
      <3>1. \A c \in Conn : \A i \in 1..Len(wire[c]) :
              /\ wire[c][i][1] \in Message /\ wire[c][i][1] # m
              /\ OnWire(task[wire[c][i][1]], c, wire[c][i][2])
        <4>1. \A c \in Conn : \A i \in 1..Len(wire[c]) : wire[c][i][1] \in Message
          BY DEF RpcTypes
        <4>2. \A c \in Conn : \A i \in 1..Len(wire[c]) :
                OnWire(task[wire[c][i][1]], c, wire[c][i][2])
          BY DEF ReplyInv, WireInv
        <4>3. task[m].at # "done"
          BY <1>3
        <4>4. ASSUME NEW c \in Conn, NEW i \in 1..Len(wire[c]) PROVE wire[c][i][1] # m
          <5>1. task[wire[c][i][1]].at = "done"
            BY <4>2 DEF OnWire
          <5> QED BY <4>3, <5>1
        <4> QED BY <4>1, <4>2, <4>4
      <3>2. \A c \in Conn : \A i \in 1..Len(wire'[c]) :
              OnWire(task'[wire'[c][i][1]], c, wire'[c][i][2])
        BY <1>3, <1>5, <3>1
      <3>3. \A c \in Conn : \A i, j \in 1..Len(wire'[c]) : wire'[c][i] = wire'[c][j] => i = j
        BY <1>3 DEF ReplyInv, WireInv
      <3>4. ASSUME NEW n \in Message PROVE ToldAll(n)'
        <4>1. CASE n # m
          <5>1. ToldAll(n)
            BY DEF ReplyInv, WireInv
          <5>2. task'[n] = task[n]
            BY <1>5, <4>1
          <5> QED BY <1>3, <5>1, <5>2 DEF ToldAll
        <4>2. CASE n = m
          <5>1. task'[m].body = task[m].body
            BY <1>2, <1>5
          <5> QED BY <2>2, <4>2, <5>1 DEF ToldAll
        <4> QED BY <4>1, <4>2
      <3> QED BY <3>2, <3>3, <3>4 DEF WireInv
    <2> QED BY <1>2, <1>3, <2>1, <2>3, DoneReplies
  <1> QED BY <1>6, <1>7

\* os.Exit ends the connection of the message; it answers nothing.
LEMMA LeaveReplies ==
  ASSUME RpcTypes, ReplyInv, NEW m \in Message, Exit(m)
  PROVE  ReplyInv'
  <1>1. PICK at \in TaskPc : task' = [task EXCEPT ![m].at = at] /\ at = "done"
    BY DEF Exit, TaskPc
  <1>2. PICK x \in RpcTask :
          /\ task' = [task EXCEPT ![m] = x]
          /\ x.at = at /\ x.conn = task[m].conn /\ x.body = task[m].body
          /\ x.rest = task[m].rest /\ x.replies = task[m].replies /\ x.out = task[m].out
    <2>1. task' = [task EXCEPT ![m].at = at]
      BY <1>1
    <2> QED BY <2>1, GoesStep
  <1>3. task[m].at = "exit" /\ UNCHANGED <<line, reading, wire>>
    BY DEF Exit
  <1>4. HasExit(task[m])
    BY <1>3 DEF ReplyInv, TaskSound, PlaceSound
  <1>5. task'[m] = x /\ \A n \in Message : n # m => task'[n] = task[n]
    BY <1>2 DEF RpcTypes
  <1>6. \A c \in Conn : conn'[c] = "open" => conn[c] = "open"
    <2>1. PICK c : c = task[m].conn
      OBVIOUS
    <2>2. conn' = [conn EXCEPT ![c] = IF @ = "gone" THEN @ ELSE "closed"]
      BY <2>1 DEF Exit
    <2> QED BY <2>2 DEF RpcTypes
  <1>7. WireInv'
    <2>1. \A c \in Conn : \A i \in 1..Len(wire[c]) :
            /\ wire[c][i][1] \in Message /\ wire[c][i][1] # m
            /\ OnWire(task[wire[c][i][1]], c, wire[c][i][2])
      <3>1. \A c \in Conn : \A i \in 1..Len(wire[c]) : wire[c][i][1] \in Message
        BY DEF RpcTypes
      <3>2. \A c \in Conn : \A i \in 1..Len(wire[c]) :
              OnWire(task[wire[c][i][1]], c, wire[c][i][2])
        BY DEF ReplyInv, WireInv
      <3>3. task[m].at # "done"
        BY <1>3
      <3>4. ASSUME NEW c \in Conn, NEW i \in 1..Len(wire[c]) PROVE wire[c][i][1] # m
        <4>1. task[wire[c][i][1]].at = "done"
          BY <3>2 DEF OnWire
        <4> QED BY <3>3, <4>1
      <3> QED BY <3>1, <3>2, <3>4
    <2>2. \A c \in Conn : \A i \in 1..Len(wire'[c]) :
            OnWire(task'[wire'[c][i][1]], c, wire'[c][i][2])
      BY <1>3, <1>5, <2>1
    <2>3. \A c \in Conn : \A i, j \in 1..Len(wire'[c]) : wire'[c][i] = wire'[c][j] => i = j
      BY <1>3 DEF ReplyInv, WireInv
    <2>4. ASSUME NEW n \in Message PROVE ToldAll(n)'
      <3>1. CASE n # m
        <4> SUFFICES ASSUME task'[n].at = "done", conn'[task'[n].conn] = "open" PROVE ToldAll(n)'
          BY DEF ToldAll
        <4>1. ToldAll(n)
          BY DEF ReplyInv, WireInv
        <4>2. task'[n] = task[n]
          BY <1>5, <3>1
        <4>3. task[n].conn \in Conn
          BY <4>2 DEF ReplyInv, TaskSound, PlaceSound
        <4>4. conn[task[n].conn] = "open"
          BY <1>6, <4>2, <4>3
        <4> QED BY <1>3, <4>1, <4>2, <4>4 DEF ToldAll
      <3>2. CASE n = m
        <4>1. HasExit(task'[m])
          BY <1>2, <1>4, <1>5 DEF HasExit
        <4> QED BY <3>2, <4>1 DEF ToldAll
      <3> QED BY <3>1, <3>2
    <2> QED BY <2>2, <2>3, <2>4 DEF WireInv
  <1>8. x.at = "done" /\ task[m].at \in {"run", "write", "exit"}
    BY <1>1, <1>2, <1>3
  <1> QED BY <1>2, <1>3, <1>4, <1>6, <1>7, <1>8, DoneReplies

LEMMA FunctionIsSeq ==
  ASSUME NEW S, NEW n \in Nat, NEW f \in [1..n -> S]
  PROVE  f \in Seq(S) /\ Len(f) = n
  OBVIOUS

LEMMA Appended ==
  ASSUME NEW L \in Nat, NEW R \in Nat
  PROVE  /\ \A i \in 1..L : i \in 1..(L + R) /\ i <= L
         /\ \A k \in 1..R : L + k \in 1..(L + R) /\ ~(L + k <= L) /\ (L + k) - L = k
         /\ \A i \in 1..(L + R) : i \notin 1..L => i - L \in 1..R /\ i = L + (i - L)
  OBVIOUS

LEMMA WriteReplies ==
  ASSUME RpcTypes, ReplyInv, NEW m \in Message, Write(m)
  PROVE  ReplyInv'
  <1>1. PICK at \in TaskPc : task' = [task EXCEPT ![m].at = at] /\ at = "done"
    BY DEF Write, TaskPc
  <1>2. PICK x \in RpcTask :
          /\ task' = [task EXCEPT ![m] = x]
          /\ x.at = at /\ x.conn = task[m].conn /\ x.body = task[m].body
          /\ x.rest = task[m].rest /\ x.replies = task[m].replies /\ x.out = task[m].out
    <2>1. task' = [task EXCEPT ![m].at = at]
      BY <1>1
    <2> QED BY <2>1, GoesStep
  <1>3. /\ task[m].at = "write" /\ UNCHANGED <<conn, line, reading>>
        /\ x.at = "done" /\ task[m].at \in {"run", "write", "exit"}
    BY <1>1, <1>2 DEF Write
  <1>4. TaskSound(task[m]) /\ task[m].conn \in Conn /\ task[m].rest = <<>>
    BY <1>3 DEF ReplyInv, TaskSound, PlaceSound
  <1>5. task'[m] = x /\ \A n \in Message : n # m => task'[n] = task[n]
    BY <1>2 DEF RpcTypes
  <1>6. \A c \in Conn : \A i \in 1..Len(wire[c]) :
          /\ wire[c][i][1] \in Message /\ wire[c][i][1] # m
          /\ OnWire(task'[wire[c][i][1]], c, wire[c][i][2])
    <2>1. \A c \in Conn : \A i \in 1..Len(wire[c]) : wire[c][i][1] \in Message
      BY DEF RpcTypes
    <2>2. \A c \in Conn : \A i \in 1..Len(wire[c]) :
            OnWire(task[wire[c][i][1]], c, wire[c][i][2])
      BY DEF ReplyInv, WireInv
    <2>3. ASSUME NEW c \in Conn, NEW i \in 1..Len(wire[c]) PROVE wire[c][i][1] # m
      <3>1. task[wire[c][i][1]].at = "done"
        BY <2>2 DEF OnWire
      <3> QED BY <1>3, <3>1
    <2> QED BY <1>5, <2>1, <2>2, <2>3
  <1>7. \A c \in Conn : \A i, j \in 1..Len(wire[c]) : wire[c][i] = wire[c][j] => i = j
    BY DEF ReplyInv, WireInv
  <1>8. PICK e \in Conn : e = task[m].conn
    BY <1>4
  <1>9. CASE conn[e] # "open"
    <2>1. wire' = wire
      BY <1>8, <1>9 DEF Write
    <2>2. ASSUME NEW n \in Message PROVE ToldAll(n)'
      <3>1. CASE n # m
        <4>1. ToldAll(n)
          BY DEF ReplyInv, WireInv
        <4>2. task'[n] = task[n]
          BY <1>5, <3>1
        <4> QED BY <1>3, <2>1, <4>1, <4>2 DEF ToldAll
      <3>2. CASE n = m
        <4>1. conn'[task'[m].conn] # "open"
          BY <1>2, <1>3, <1>5, <1>8, <1>9
        <4> QED BY <3>2, <4>1 DEF ToldAll
      <3> QED BY <3>1, <3>2
    <2>3. WireInv'
      BY <1>6, <1>7, <2>1, <2>2 DEF WireInv
    <2> QED BY <1>2, <1>3, <1>4, <2>3, DoneReplies
  <1>10. CASE conn[e] = "open"
    <2> DEFINE s == [k \in DOMAIN task[m].replies |-> <<m, task[m].replies[k]>>]
    <2>1. PICK L \in Nat, R \in Nat : /\ L = Len(wire[e]) /\ R = Len(task[m].replies)
                                      /\ DOMAIN task[m].replies = 1..R
                                      /\ \A k \in 1..R : task[m].replies[k] \in Int
      <3>1. wire[e] \in Seq(Message \X Int) /\ task[m].replies \in Seq(Int)
        BY DEF RpcTypes, RpcTask
      <3> QED BY <3>1, LenProperties, ElementOfSeq
    <2>2. /\ wire[e] \in Seq(Message \X Int) /\ s \in Seq(Message \X Int) /\ Len(s) = R
          /\ \A k \in 1..R : s[k] = <<m, task[m].replies[k]>>
      <3>1. s \in [1..R -> Message \X Int]
        BY <2>1
      <3>2. s \in Seq(Message \X Int) /\ Len(s) = R
        BY <3>1, FunctionIsSeq
      <3>3. \A k \in 1..R : s[k] = <<m, task[m].replies[k]>>
        BY <2>1
      <3> QED BY <3>2, <3>3 DEF RpcTypes
    <2>3. wire' = [wire EXCEPT ![e] = @ \o s]
      BY <1>8, <1>10 DEF Write
    <2> HIDE DEF s
    <2>4. /\ Len(wire'[e]) = L + R
          /\ \A i \in 1..L : wire'[e][i] = wire[e][i]
          /\ \A k \in 1..R : wire'[e][L + k] = <<m, task[m].replies[k]>>
      <3>1. wire'[e] = wire[e] \o s
        BY <2>3 DEF RpcTypes
      <3>2. /\ Len(wire[e] \o s) = Len(wire[e]) + Len(s)
            /\ \A i \in 1..(Len(wire[e]) + Len(s)) :
                 (wire[e] \o s)[i] = IF i <= Len(wire[e]) THEN wire[e][i] ELSE s[i - Len(wire[e])]
        BY <2>2, ConcatProperties
      <3>3. \A i \in 1..(L + R) : wire'[e][i] = IF i <= L THEN wire[e][i] ELSE s[i - L]
        BY <2>1, <2>2, <3>1, <3>2
      <3>4. \A i \in 1..L : wire'[e][i] = wire[e][i]
        BY <3>3, Appended
      <3>5. ASSUME NEW k \in 1..R PROVE wire'[e][L + k] = s[k]
        <4>1. L + k \in 1..(L + R) /\ ~(L + k <= L) /\ (L + k) - L = k
          BY Appended
        <4> QED BY <3>3, <4>1
      <3> QED BY <2>1, <2>2, <3>1, <3>2, <3>4, <3>5
    <2>5. \A d \in Conn : d # e => wire'[d] = wire[d]
      BY <2>3 DEF RpcTypes
    <2>6. \A i \in 1..Len(wire'[e]) : i \in 1..L \/ \E k \in 1..R : i = L + k
      <3> SUFFICES ASSUME NEW i \in 1..(L + R), i \notin 1..L PROVE \E k \in 1..R : i = L + k
        BY <2>4
      <3>1. i - L \in 1..R /\ i = L + (i - L)
        BY Appended
      <3> QED BY <3>1
    <2>7. \A k \in 1..R : OnWire(x, e, task[m].replies[k])
      BY <1>2, <1>3, <1>4, <1>8, <2>1 DEF OnWire, TaskSound, RepliesSound
    <2>8. ASSUME NEW d \in Conn, NEW i \in 1..Len(wire'[d])
          PROVE  OnWire(task'[wire'[d][i][1]], d, wire'[d][i][2])
      <3>1. CASE d # e
        BY <1>6, <2>5, <3>1
      <3>2. CASE d = e /\ i \in 1..L
        BY <1>6, <2>1, <2>4, <3>2
      <3>3. ASSUME d = e, NEW k \in 1..R, i = L + k
            PROVE  OnWire(task'[wire'[d][i][1]], d, wire'[d][i][2])
        <4>1. wire'[d][i] = <<m, task[m].replies[k]>>
          BY <2>4, <3>3
        <4>2. wire'[d][i][1] = m /\ wire'[d][i][2] = task[m].replies[k]
          BY <4>1
        <4> QED BY <1>5, <2>7, <3>3, <4>2
      <3> QED BY <2>6, <3>1, <3>2, <3>3
    <2>9. ASSUME NEW d \in Conn, NEW i \in 1..Len(wire'[d]), NEW j \in 1..Len(wire'[d]),
                 wire'[d][i] = wire'[d][j]
          PROVE  i = j
      <3>1. CASE d # e
        BY <1>7, <2>5, <2>9, <3>1
      <3>2. CASE d = e
        <4>1. ASSUME NEW a \in 1..L, NEW k \in 1..R, wire'[e][a] = wire'[e][L + k] PROVE FALSE
          <5>1. wire[e][a] = <<m, task[m].replies[k]>>
            BY <2>4, <4>1
          <5>2. wire[e][a][1] = m
            BY <5>1
          <5> QED BY <1>6, <2>1, <5>2
        <4>2. ASSUME NEW h \in 1..R, NEW k \in 1..R, wire'[e][L + h] = wire'[e][L + k]
              PROVE  h = k
          <5>1. <<m, task[m].replies[h]>> = <<m, task[m].replies[k]>>
            BY <2>4, <4>2
          <5>2. task[m].replies[h] = task[m].replies[k]
            BY <5>1
          <5> QED BY <1>4, <2>1, <5>2 DEF TaskSound, RepliesSound
        <4>3. CASE i \in 1..L /\ j \in 1..L
          BY <1>7, <2>1, <2>4, <2>9, <3>2, <4>3
        <4>4. CASE i \in 1..L /\ \E k \in 1..R : j = L + k
          BY <2>9, <3>2, <4>1, <4>4
        <4>5. CASE j \in 1..L /\ \E k \in 1..R : i = L + k
          BY <2>9, <3>2, <4>1, <4>5
        <4>6. CASE (\E k \in 1..R : i = L + k) /\ (\E k \in 1..R : j = L + k)
          BY <2>9, <3>2, <4>2, <4>6
        <4> QED BY <2>6, <3>2, <4>3, <4>4, <4>5, <4>6
      <3> QED BY <3>1, <3>2
    <2>10. ASSUME NEW n \in Message PROVE ToldAll(n)'
      <3>1. CASE n # m
        <4> SUFFICES ASSUME task'[n].at = "done", conn'[task'[n].conn] = "open", ~HasExit(task'[n]),
                            NEW p \in 1..Len(task'[n].body), task'[n].body[p] = "call"
                     PROVE  \E i \in 1..Len(wire'[task'[n].conn]) : wire'[task'[n].conn][i] = <<n, p>>
          BY DEF ToldAll
        <4>1. ToldAll(n)
          BY DEF ReplyInv, WireInv
        <4>2. task'[n] = task[n]
          BY <1>5, <3>1
        <4>3. PICK d \in Conn : d = task[n].conn
          BY <4>2 DEF ReplyInv, TaskSound, PlaceSound
        <4>4. PICK i \in 1..Len(wire[d]) : wire[d][i] = <<n, p>>
          BY <1>3, <4>1, <4>2, <4>3 DEF ToldAll
        <4>5. i \in 1..Len(wire'[d]) /\ wire'[d][i] = <<n, p>>
          <5>1. CASE d # e
            BY <2>5, <4>4, <5>1
          <5>2. CASE d = e
            <6>1. i \in 1..L
              BY <2>1, <4>4, <5>2
            <6>2. i \in 1..(L + R)
              BY <6>1, Appended
            <6> QED BY <2>4, <4>4, <5>2, <6>1, <6>2
          <5> QED BY <5>1, <5>2
        <4> QED BY <4>2, <4>3, <4>5
      <3>2. CASE n = m
        <4>0. task'[m].body = task[m].body /\ task'[m].conn = e
          BY <1>2, <1>5, <1>8
        <4> SUFFICES ASSUME NEW p \in 1..Len(task[m].body), task[m].body[p] = "call"
                     PROVE  \E i \in 1..Len(wire'[e]) : wire'[e][i] = <<m, p>>
          BY <3>2, <4>0 DEF ToldAll
        <4>1. PICK k \in 1..R : task[m].replies[k] = p
          BY <1>4, <2>1, AllReplied
        <4>2. L + k \in 1..Len(wire'[e])
          BY <2>4, Appended
        <4> QED BY <2>4, <4>1, <4>2
      <3> QED BY <3>1, <3>2
    <2>11. WireInv'
      BY <2>8, <2>9, <2>10 DEF WireInv
    <2> QED BY <1>2, <1>3, <1>4, <2>11, DoneReplies
  <1> QED BY <1>9, <1>10

LEMMA StepReplies ==
  ASSUME RpcAssumed PROVE RpcTypes /\ ReplyInv /\ [Next]_rpcVars => ReplyInv'
  <1> SUFFICES ASSUME RpcTypes, ReplyInv, [Next]_rpcVars PROVE ReplyInv'
    OBVIOUS
  <1>1. CASE UNCHANGED <<conn, line, reading, task, wire>>
    <2>1. \A m \in Message : TaskSound(task'[m])
      BY <1>1 DEF ReplyInv
    <2>2. QueueInv'
      BY <1>1, QueueKept DEF ReplyInv
    <2>3. WireInv'
      BY <1>1, WireKept DEF ReplyInv, TaskSound, PlaceSound
    <2> QED BY <2>1, <2>2, <2>3 DEF ReplyInv
  <1>2. ASSUME NEW c \in Conn,
               \/ \E m \in Message : ClientSends(c, m)
               \/ ClientLeaves(c) \/ ReadMessage(c) \/ Dispatch(c) \/ ReadFails(c)
        PROVE  ReplyInv'
    BY <1>2, SendReplies, ReadReplies, DispatchReplies
  <1>3. ASSUME NEW m \in Message, Handle(m) PROVE ReplyInv'
    BY <1>3, ItemReplies, ExitReplies, ReturnReplies, LeaveReplies, WriteReplies DEF Handle
  <1>4. CASE \/ \E o \in Out : Register(o) \/ Ask(o) \/ Leave(o) \/ RemovePending(o)
             \/ SignalPermission \/ Release
    BY <1>1, <1>4 DEF Register, Ask, Leave, RemovePending, SignalPermission,
                      Release, connVars
  <1>5. CASE UNCHANGED rpcVars
    BY <1>1, <1>5 DEF rpcVars
  <1> QED BY <1>2, <1>3, <1>4, <1>5 DEF Next

\* The invariant says of a message that is done, with its connection open and no exit in it,
\* that the wire has its replies, each once.
LEMMA RepliesCounted ==
  RpcTypes /\ ReplyInv => RepliesComplete
  <1> SUFFICES ASSUME RpcTypes, ReplyInv, NEW m \in Message,
                      task[m].at = "done", conn[task[m].conn] = "open",
                      "exit" \notin ToSet(task[m].body),
                      NEW k \in DOMAIN task[m].body
               PROVE  Received(task[m].conn, m, k) = IF task[m].body[k] = "call" THEN 1 ELSE 0
    BY DEF RepliesComplete
  <1>1. PICK c \in Conn : c = task[m].conn
    BY DEF ReplyInv, TaskSound, PlaceSound
  <1>2. DOMAIN task[m].body = 1..Len(task[m].body) /\ DOMAIN wire[c] = 1..Len(wire[c])
    BY LenProperties DEF RpcTypes, RpcTask
  <1>3. ~HasExit(task[m])
    BY <1>2 DEF HasExit, ToSet
  <1> DEFINE A == {i \in DOMAIN wire[c] : wire[c][i] = <<m, k>>}
  <1>4. Received(c, m, k) = Cardinality(A)
    BY DEF Received
  <1>5. CASE task[m].body[k] = "call"
    <2>1. PICK i \in 1..Len(wire[c]) : wire[c][i] = <<m, k>>
      BY <1>1, <1>2, <1>3, <1>5 DEF ReplyInv, WireInv, ToldAll
    <2>2. \A j \in 1..Len(wire[c]) : wire[c][j] = <<m, k>> => j = i
      BY <2>1 DEF ReplyInv, WireInv
    <2>3. A = {i}
      BY <1>2, <2>1, <2>2
    <2>4. Cardinality({i}) = 1
      BY FS_Singleton
    <2> QED BY <1>1, <1>4, <1>5, <2>3, <2>4
  <1>6. CASE task[m].body[k] # "call"
    <2>1. ASSUME NEW i \in 1..Len(wire[c]), wire[c][i] = <<m, k>> PROVE FALSE
      <3>1. wire[c][i][1] = m /\ wire[c][i][2] = k
        BY <2>1
      <3>2. OnWire(task[wire[c][i][1]], c, wire[c][i][2])
        BY DEF ReplyInv, WireInv
      <3> QED BY <1>6, <3>1, <3>2 DEF OnWire
    <2>2. A = {}
      BY <1>2, <2>1
    <2>3. Cardinality({}) = 0
      BY FS_EmptySet
    <2> QED BY <1>1, <1>4, <1>6, <2>2, <2>3
  <1> QED BY <1>5, <1>6

\* As long as its connection is open, a batch without exit that the server is done with has
\* brought one reply for every call in it, and none for anything else, whatever else the
\* connection does meanwhile (handle and the read loop, jsonrpc/server.go, connect).
THEOREM EachCallReplied == ASSUME RpcAssumed PROVE Spec => []RepliesComplete
  BY RepliesCounted, InitRpc, InitReplies, StepRpc, StepReplies, PTL DEF Spec
=============================================================================
