------------------------------- MODULE JsonRpc -------------------------------
(***************************************************************************)
(* The JSON-RPC server: the read loop of a connection with its limited     *)
(* number of message goroutines (server/client/jsonrpc/connect), the       *)
(* handling of requests, notifications, batches and answers                *)
(* (server/client/jsonrpc/server.go), and the requests the server itself   *)
(* sends to every client of a session (requestPermission,                  *)
(* server/actions/session.go).                                             *)
(*                                                                         *)
(* A message is the sequence of its items: "call" stands for everything    *)
(* with an id that gets a reply (a method, ping, an unknown method or a    *)
(* wrong version), "note" for the same without id, "exit" for exit, and a  *)
(* member of Out for the answer to that request of the server.             *)
(***************************************************************************)
EXTENDS Integers, Sequences, FiniteSets, SequencesExt

CONSTANTS Conn,
          Message,  \* numbers, in the order the messages are sent
          Out,      \* ids of requests the server sends (NextReqSeq)
          Bodies,   \* the messages a client may send
          Slots,    \* message goroutines a connection may have at a time
          None

VARIABLES
  conn,      \* connection -> "open", "lost", "closed" by exit, or "gone"
  line,      \* connection -> messages sent by the client and not read
  reading,   \* connection -> None, or the message that waits for a slot
  task,      \* message -> [at, conn, body, rest, replies, out]
  wire,      \* connection -> the replies the client has received
  pending,   \* Server.pending, the set of its keys
  asker,     \* request of the server -> the step of its goroutine
  asked,     \* request of the server -> the connections it was sent to
  channel,   \* request of the server -> what its channel holds, or None
  answered,  \* request of the server -> how often its callback was called
  permChan,  \* the request whose channel obj.permChan is, or None
  released   \* permDone is closed

rpcVars == <<conn, line, reading, task, wire, pending, asker, asked, channel, answered,
             permChan, released>>
connVars == <<conn, line, reading, wire>>
askVars  == <<asker, asked, permChan, released>>

AskerPc == {"none", "registered", "waiting", "leaving", "done"}
TaskPc  == {"none", "sent", "run", "callback", "write", "exit", "done"}

TypeOK ==
  /\ conn \in [Conn -> {"open", "lost", "closed", "gone"}]
  /\ reading \in [Conn -> Message \cup {None}]
  /\ \A m \in Message : task[m].at \in TaskPc
  /\ pending \subseteq Out /\ asker \in [Out -> AskerPc]
  /\ asked \in [Out -> SUBSET Conn] /\ channel \in [Out -> {None, "answer", "signal"}]
  /\ permChan \in Out \cup {None}

Init ==
  /\ conn = [c \in Conn |-> "open"] /\ line = [c \in Conn |-> <<>>]
  /\ reading = [c \in Conn |-> None] /\ wire = [c \in Conn |-> <<>>]
  /\ task = [m \in Message |->
       [at |-> "none", conn |-> None, body |-> <<>>, rest |-> <<>>, replies |-> <<>>, out |-> None]]
  /\ pending = {} /\ asker = [o \in Out |-> "none"] /\ asked = [o \in Out |-> {}]
  /\ channel = [o \in Out |-> None] /\ answered = [o \in Out |-> 0]
  /\ permChan = None /\ released = FALSE

-----------------------------------------------------------------------------
(* The client                                                               *)

\* A client answers only what it was asked, and may do so more than once.
ClientSends(c, m) ==
  /\ conn[c] = "open"
  /\ \A n \in Message : task[n].at = "none" <=> n >= m
  /\ \E body \in Bodies :
       /\ \A o \in ToSet(body) \cap Out : c \in asked[o]
       /\ task' = [task EXCEPT ![m].at = "sent", ![m].conn = c, ![m].body = body, ![m].rest = body]
  /\ line' = [line EXCEPT ![c] = Append(@, m)]
  /\ UNCHANGED <<conn, reading, wire, pending, channel, answered, askVars>>

ClientLeaves(c) ==
  /\ conn[c] = "open"
  /\ conn' = [conn EXCEPT ![c] = "lost"]
  /\ UNCHANGED <<line, reading, wire, task, pending, channel, answered, askVars>>

-----------------------------------------------------------------------------
(* The read loop                                                            *)

Running(c) == {m \in Message : task[m].conn = c /\ task[m].at \notin {"none", "sent", "done"}}

ReadMessage(c) ==
  /\ conn[c] \in {"open", "lost"} /\ reading[c] = None /\ line[c] # <<>>
  /\ reading' = [reading EXCEPT ![c] = Head(line[c])]
  /\ line' = [line EXCEPT ![c] = Tail(@)]
  /\ UNCHANGED <<conn, wire, task, pending, channel, answered, askVars>>

\* The read loop waits for a slot, whatever becomes of the connection.
Dispatch(c) ==
  /\ reading[c] # None /\ Cardinality(Running(c)) < Slots
  /\ task' = [task EXCEPT ![reading[c]].at = "run"]
  /\ reading' = [reading EXCEPT ![c] = None]
  /\ UNCHANGED <<conn, line, wire, pending, channel, answered, askVars>>

\* A read that fails ends the loop: closeConn.
ReadFails(c) ==
  /\ conn[c] \in {"lost", "closed"} /\ reading[c] = None
  /\ conn' = [conn EXCEPT ![c] = "gone"]
  /\ line' = [line EXCEPT ![c] = <<>>]
  /\ UNCHANGED <<reading, wire, task, pending, channel, answered, askVars>>

-----------------------------------------------------------------------------
(* handle                                                                   *)

\* Mutant of Reply: a method that returns nothing is not replied to.
ReplyUnlessNil(m) ==
  \E nil \in BOOLEAN : task' =
    [task EXCEPT ![m].rest = Tail(@),
                 ![m].replies = IF nil THEN @ ELSE Append(@, Len(task[m].body) - Len(task[m].rest) + 1)]

Reply(m) ==
  task' = [task EXCEPT ![m].rest = Tail(@),
                       ![m].replies = Append(@, Len(task[m].body) - Len(task[m].rest) + 1)]

SolveCall(m) ==
  /\ task[m].at = "run" /\ task[m].rest # <<>> /\ Head(task[m].rest) = "call"
  /\ Reply(m)
  /\ UNCHANGED <<connVars, pending, channel, answered, askVars>>

SolveNote(m) ==
  /\ task[m].at = "run" /\ task[m].rest # <<>> /\ Head(task[m].rest) = "note"
  /\ task' = [task EXCEPT ![m].rest = Tail(@)]
  /\ UNCHANGED <<connVars, pending, channel, answered, askVars>>

\* The replies made so far are dropped.
SolveExit(m) ==
  /\ task[m].at = "run" /\ task[m].rest # <<>> /\ Head(task[m].rest) = "exit"
  /\ task' = [task EXCEPT ![m].at = "exit"]
  /\ UNCHANGED <<connVars, pending, channel, answered, askVars>>

\* Mutant of SolveAnswer: the entry is left for the end of the request.
SolveAnswerKeeps(m) ==
  /\ task[m].at = "run" /\ task[m].rest # <<>> /\ Head(task[m].rest) \in Out
  /\ LET o == Head(task[m].rest) IN
     task' = [task EXCEPT ![m].rest = Tail(@), ![m].out = o,
                          ![m].at = IF o \in pending THEN "callback" ELSE "run"]
  /\ UNCHANGED <<connVars, pending, channel, answered, askVars>>

\* The entry is taken out under the lock, its callback is called after it.
SolveAnswer(m) ==
  /\ task[m].at = "run" /\ task[m].rest # <<>> /\ Head(task[m].rest) \in Out
  /\ LET o == Head(task[m].rest) IN
     /\ task' = [task EXCEPT ![m].rest = Tail(@), ![m].out = o,
                             ![m].at = IF o \in pending THEN "callback" ELSE "run"]
     /\ pending' = pending \ {o}
  /\ UNCHANGED <<connVars, channel, answered, askVars>>

\* ch <- answer on a channel of capacity one.
Callback(m) ==
  /\ task[m].at = "callback" /\ channel[task[m].out] = None
  /\ channel' = [channel EXCEPT ![task[m].out] = "answer"]
  /\ answered' = [answered EXCEPT ![task[m].out] = @ + 1]
  /\ task' = [task EXCEPT ![m].at = "run", ![m].out = None]
  /\ UNCHANGED <<connVars, pending, askVars>>

HandleReturns(m) ==
  /\ task[m].at = "run" /\ task[m].rest = <<>>
  /\ task' = [task EXCEPT ![m].at = IF task[m].replies = <<>> THEN "done" ELSE "write"]
  /\ UNCHANGED <<connVars, pending, channel, answered, askVars>>

\* One write for the whole batch; on a dead connection it fails.
Write(m) ==
  LET c == task[m].conn IN
  /\ task[m].at = "write"
  /\ task' = [task EXCEPT ![m].at = "done"]
  /\ wire' = IF conn[c] # "open" THEN wire
             ELSE [wire EXCEPT ![c] = @ \o [k \in DOMAIN task[m].replies |-> <<m, task[m].replies[k]>>]]
  /\ UNCHANGED <<conn, line, reading, pending, channel, answered, askVars>>

Exit(m) ==
  LET c == task[m].conn IN
  /\ task[m].at = "exit"
  /\ task' = [task EXCEPT ![m].at = "done"]
  /\ conn' = [conn EXCEPT ![c] = IF @ = "gone" THEN @ ELSE "closed"]
  /\ UNCHANGED <<line, reading, wire, pending, channel, answered, askVars>>

-----------------------------------------------------------------------------
(* requestPermission                                                        *)

Register(o) ==
  /\ asker[o] = "none" /\ ~released
  /\ asker' = [asker EXCEPT ![o] = "registered"]
  /\ pending' = pending \cup {o}
  /\ permChan' = o
  /\ UNCHANGED <<connVars, task, channel, answered, asked, released>>

\* To all connections of the session at that moment.
Ask(o) ==
  /\ asker[o] = "registered"
  /\ asker' = [asker EXCEPT ![o] = "waiting"]
  /\ asked' = [asked EXCEPT ![o] = {c \in Conn : conn[c] = "open"}]
  /\ UNCHANGED <<connVars, task, pending, channel, answered, permChan, released>>

\* Mutant of Leave: obj.permChan keeps the channel.
LeaveSignalled(o) ==
  /\ asker[o] = "waiting"
  /\ asker' = [asker EXCEPT ![o] = "leaving"]
  /\ \/ channel[o] # None /\ channel' = [channel EXCEPT ![o] = None]
     \/ released /\ channel' = channel
  /\ UNCHANGED <<connVars, task, pending, answered, asked, permChan, released>>

\* An answer or a signal, or the end of the session.
Leave(o) ==
  /\ asker[o] = "waiting"
  /\ asker' = [asker EXCEPT ![o] = "leaving"]
  /\ permChan' = None
  /\ \/ channel[o] # None /\ channel' = [channel EXCEPT ![o] = None]
     \/ released /\ channel' = channel
  /\ UNCHANGED <<connVars, task, pending, answered, asked, released>>

\* Mutant of RemovePending: the entry of a request that ended stays.
RemovePendingNot(o) ==
  /\ asker[o] = "leaving"
  /\ asker' = [asker EXCEPT ![o] = "done"]
  /\ UNCHANGED <<connVars, task, pending, channel, answered, asked, permChan, released>>

RemovePending(o) ==
  /\ asker[o] = "leaving"
  /\ asker' = [asker EXCEPT ![o] = "done"]
  /\ pending' = pending \ {o}
  /\ UNCHANGED <<connVars, task, channel, answered, asked, permChan, released>>

\* session/cancel: a send that gives up on a full channel.
SignalPermission ==
  /\ permChan # None /\ channel[permChan] = None
  /\ channel' = [channel EXCEPT ![permChan] = "signal"]
  /\ UNCHANGED <<connVars, task, pending, answered, askVars>>

\* closeSession and the delayed release close permDone.
Release ==
  /\ ~released
  /\ released' = TRUE
  /\ UNCHANGED <<connVars, task, pending, channel, answered, asker, asked, permChan>>

-----------------------------------------------------------------------------
Handle(m) == \/ SolveCall(m) \/ SolveNote(m) \/ SolveExit(m) \/ SolveAnswer(m)
             \/ Callback(m) \/ HandleReturns(m) \/ Write(m) \/ Exit(m)

Next ==
  \/ \E c \in Conn : \/ \E m \in Message : ClientSends(c, m)
                     \/ ClientLeaves(c) \/ ReadMessage(c) \/ Dispatch(c) \/ ReadFails(c)
  \/ \E m \in Message : Handle(m)
  \/ \E o \in Out : Register(o) \/ Ask(o) \/ Leave(o) \/ RemovePending(o)
  \/ SignalPermission \/ Release

Spec == Init /\ [][Next]_rpcVars

-----------------------------------------------------------------------------
(* Properties                                                               *)

Received(c, m, k) == Cardinality({i \in DOMAIN wire[c] : wire[c][i] = <<m, k>>})

\* What a client sent without exit is replied to item by item: every request
\* with an id exactly once, notifications and answers never (handle).
RepliesComplete ==
  \A m \in Message :
    LET t == task[m] IN
    t.at = "done" /\ conn[t.conn] = "open" /\ "exit" \notin ToSet(t.body) =>
      \A k \in DOMAIN t.body : Received(t.conn, m, k) = IF t.body[k] = "call" THEN 1 ELSE 0

\* Of the answers of several clients, or of one client twice, the first alone
\* reaches the request ("first response wins", requestPermission).
FirstAnswerWins == \A o \in Out : answered[o] <= 1

\* No entry of a request that has returned is left behind in Server.pending.
PendingHasAsker == \A o \in pending : asker[o] \in {"registered", "waiting", "leaving"}

\* As long as the session lives, a message goroutine that waits to hand over
\* an answer has somebody to take what is in its way: it gives its slot back.
AnswerGetsThrough ==
  \A m \in Message : task[m].at = "callback" /\ channel[task[m].out] # None =>
    released \/ asker[task[m].out] \in {"registered", "waiting"}

\* A request to the clients takes one answer and then forgets them, and whoever brings
\* another one is not held up.
AskedOnce == FirstAnswerWins /\ PendingHasAsker /\ AnswerGetsThrough
=============================================================================
