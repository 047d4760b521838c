---------------------------- MODULE LspTransport ----------------------------
(***************************************************************************)
(* One connection to a language server (context/lsp/transport.go): callers *)
(* register a channel, write their request to the server's stdin and wait; *)
(* readLoop hands the answers out; Close ends everything.                  *)
(*                                                                         *)
(* A request is its caller.  stdin is the sequence of the pieces written   *)
(* and not yet read by the server: a header or a body.                     *)
(***************************************************************************)
EXTENDS Integers, Sequences, SequencesExt

CONSTANTS
  Request  \* ids: each is one call of SendRequest

VARIABLES
  pending,  \* Transport.pending: the ids with a channel to answer on
  channel,  \* the channels: open, holding an answer, closed
  closes,   \* history: how often each channel has been closed
  request,  \* where each call is; what it returned
  stdin,    \* pieces in the server's stdin
  stdinOpen,
  server,   \* "up", "lost" after a broken frame, "dead"
  stdout,   \* answers the server has sent and readLoop has not read
  closing,  \* Close: not called, closed closed, pending emptied, done
  reader    \* readLoop: where it is, and the id it hands out

transportVars ==
  <<pending, channel, closes, request, stdin, stdinOpen, server, stdout, closing, reader>>

Waiting == {"header", "body", "wait"}
Result  == {"answered", "timeout", "closed", "failed"}
Piece   == [kind : {"header", "body"}, id : Request]

TypeOK ==
  /\ pending \subseteq Request
  /\ channel \in [Request -> {"none", "open", "full", "closed"}]
  /\ closes \in [Request -> Nat]
  /\ request \in [Request -> {"new"} \cup Waiting \cup Result]
  /\ stdin \in Seq(Piece) /\ stdinOpen \in BOOLEAN
  /\ server \in {"up", "lost", "dead"}
  /\ stdout \in Seq(Request)
  /\ closing \in {"no", "closed", "swept", "done"}
  /\ reader.pc \in {"check", "read", "send", "gone"} /\ reader.id \in Request

Init ==
  /\ pending = {}
  /\ channel = [r \in Request |-> "none"]
  /\ closes = [r \in Request |-> 0]
  /\ request = [r \in Request |-> "new"]
  /\ stdin = <<>> /\ stdinOpen = TRUE
  /\ server = "up"
  /\ stdout = <<>>
  /\ closing = "no"
  /\ reader = [pc |-> "check", id |-> CHOOSE r \in Request : TRUE]

-----------------------------------------------------------------------------
(* SendRequest *)

Register(r) ==
  /\ request[r] = "new"
  /\ pending' = pending \cup {r}
  /\ channel' = [channel EXCEPT ![r] = "open"]
  /\ request' = [request EXCEPT ![r] = "header"]
  /\ UNCHANGED <<closes, stdin, stdinOpen, server, stdout, closing, reader>>

\* writeMessage: two writes, with no lock around them.  A write to a closed or
\* broken pipe fails and the request is taken back.
Write(r) ==
  /\ request[r] \in {"header", "body"}
  /\ \/ /\ stdinOpen /\ server # "dead"
        /\ stdin' = Append(stdin, [kind |-> request[r], id |-> r])
        /\ request' = [request EXCEPT ![r] = IF @ = "header" THEN "body" ELSE "wait"]
        /\ UNCHANGED pending
     \/ /\ ~stdinOpen \/ server = "dead"
        /\ pending' = pending \ {r}
        /\ request' = [request EXCEPT ![r] = "failed"]
        /\ UNCHANGED stdin
  /\ UNCHANGED <<channel, closes, stdinOpen, server, stdout, closing, reader>>

Answered(r) ==
  /\ request[r] = "wait" /\ channel[r] = "full"
  /\ request' = [request EXCEPT ![r] = "answered"]
  /\ UNCHANGED <<pending, channel, closes, stdin, stdinOpen, server, stdout, closing, reader>>

TransportClosed(r) ==
  /\ request[r] = "wait" /\ channel[r] = "closed"
  /\ request' = [request EXCEPT ![r] = "closed"]
  /\ UNCHANGED <<pending, channel, closes, stdin, stdinOpen, server, stdout, closing, reader>>

\* Mutant of Timeout: the id stays in pending.
TimeoutKeeps(r) ==
  /\ request[r] = "wait"
  /\ request' = [request EXCEPT ![r] = "timeout"]
  /\ UNCHANGED <<pending, channel, closes, stdin, stdinOpen, server, stdout, closing, reader>>

Timeout(r) ==
  /\ request[r] = "wait"
  /\ pending' = pending \ {r}
  /\ request' = [request EXCEPT ![r] = "timeout"]
  /\ UNCHANGED <<channel, closes, stdin, stdinOpen, server, stdout, closing, reader>>

-----------------------------------------------------------------------------
(* readLoop *)

ReaderCheck ==
  /\ reader.pc = "check"
  /\ reader' = [reader EXCEPT !.pc = IF closing = "no" THEN "read" ELSE "gone"]
  /\ UNCHANGED <<pending, channel, closes, request, stdin, stdinOpen, server, stdout, closing>>

\* Mutant of ReaderTakes: the channel is left in pending.
ReaderTakesKeeps ==
  /\ reader.pc = "read" /\ stdout # <<>>
  /\ stdout' = Tail(stdout)
  /\ reader' = IF Head(stdout) \in pending THEN [pc |-> "send", id |-> Head(stdout)]
               ELSE [reader EXCEPT !.pc = "check"]
  /\ UNCHANGED <<pending, channel, closes, request, stdin, stdinOpen, server, closing>>

\* The channel is taken out of pending; an id that is not there is logged.
ReaderTakes ==
  /\ reader.pc = "read" /\ stdout # <<>>
  /\ stdout' = Tail(stdout)
  /\ pending' = pending \ {Head(stdout)}
  /\ reader' = IF Head(stdout) \in pending THEN [pc |-> "send", id |-> Head(stdout)]
               ELSE [reader EXCEPT !.pc = "check"]
  /\ UNCHANGED <<channel, closes, request, stdin, stdinOpen, server, closing>>

ReaderSends ==
  /\ reader.pc = "send"
  /\ channel' = [channel EXCEPT ![reader.id] = "full"]
  /\ closes' = [closes EXCEPT ![reader.id] = @ + 1]
  /\ reader' = [reader EXCEPT !.pc = "check"]
  /\ UNCHANGED <<pending, request, stdin, stdinOpen, server, stdout, closing>>

\* The end of stdout comes wrapped ("read header line: EOF") and is neither
\* io.EOF nor "closed": the loop logs it and goes on.  After cleanupProcess, which
\* closes the pipe, the text says "closed" and the loop ends; the transport is
\* closed by then.
ReaderFails ==
  /\ reader.pc = "read" /\ stdout = <<>> /\ server = "dead"
  /\ reader' = [reader EXCEPT !.pc = IF closing = "done" THEN "gone" ELSE "check"]
  /\ UNCHANGED <<pending, channel, closes, request, stdin, stdinOpen, server, stdout, closing>>

-----------------------------------------------------------------------------
(* Close, called once by Client.Close or cleanupProcess *)

CloseBegins ==
  /\ closing = "no"
  /\ closing' = "closed"
  /\ UNCHANGED <<pending, channel, closes, request, stdin, stdinOpen, server, stdout, reader>>

CloseSweeps ==
  /\ closing = "closed"
  /\ closing' = "swept"
  /\ channel' = [r \in Request |-> IF r \in pending /\ channel[r] # "full" THEN "closed" ELSE channel[r]]
  /\ closes' = [r \in Request |-> IF r \in pending THEN closes[r] + 1 ELSE closes[r]]
  /\ pending' = {}
  /\ UNCHANGED <<request, stdin, stdinOpen, server, stdout, reader>>

\* stdin is closed, and cleanupProcess kills the server.
CloseEnds ==
  /\ closing = "swept"
  /\ closing' = "done"
  /\ stdinOpen' = FALSE
  /\ server' = "dead"
  /\ UNCHANGED <<pending, channel, closes, request, stdin, stdout, reader>>

(* The server *)

Whole == Len(stdin) >= 2 /\ stdin[1].kind = "header" /\ stdin[2].kind = "body"
         /\ stdin[1].id = stdin[2].id

ServerAnswers ==
  /\ server = "up" /\ Whole
  /\ stdin' = SubSeq(stdin, 3, Len(stdin))
  /\ stdout' = Append(stdout, stdin[1].id)
  /\ UNCHANGED <<pending, channel, closes, request, stdinOpen, server, closing, reader>>

\* A header that another request's piece follows: the lengths no longer fit.
ServerLost ==
  /\ server = "up" /\ Len(stdin) >= 2 /\ ~Whole
  /\ server' = "lost"
  /\ UNCHANGED <<pending, channel, closes, request, stdin, stdinOpen, stdout, closing, reader>>

ServerDies ==
  /\ server # "dead"
  /\ server' = "dead"
  /\ UNCHANGED <<pending, channel, closes, request, stdin, stdinOpen, stdout, closing, reader>>

Read == ReaderCheck \/ ReaderTakes \/ ReaderSends \/ ReaderFails

Next ==
  \/ \E r \in Request :
       Register(r) \/ Write(r) \/ Answered(r) \/ TransportClosed(r) \/ Timeout(r)
  \/ ReaderCheck \/ ReaderTakes \/ ReaderSends \/ ReaderFails
  \/ CloseBegins \/ CloseSweeps \/ CloseEnds
  \/ ServerAnswers \/ ServerLost \/ ServerDies

\* Go runs every goroutine that can run; a timer goes off; Close, once called, ends.
\* The server owes nothing.
Fairness ==
  /\ \A r \in Request : WF_transportVars(Write(r)) /\ WF_transportVars(Timeout(r))
  /\ WF_transportVars(Read)
  /\ WF_transportVars(CloseSweeps) /\ WF_transportVars(CloseEnds)

Spec == Init /\ [][Next]_transportVars /\ Fairness

-----------------------------------------------------------------------------
\* A channel is closed once, and answered before it is closed: a second close or a
\* late answer would panic readLoop or Close and take the program down
\* (readLoop and Close both close the channels of pending).
ChannelClosedOnce == \A r \in Request : closes[r] <= 1

\* An id in pending has a caller that will take it out again.  One left behind
\* would make HasPending true for ever, and the reaper would never recycle the
\* client.
PendingHasCaller == \A r \in pending : request[r] \in Waiting

\* Whichever of the answer, the time-out and Close comes first, a request is settled once
\* and leaves nothing behind.
SettledOnce == ChannelClosedOnce /\ PendingHasCaller

\* "thread safe" (client.go, SendRequest): what the server reads is whole frames.
FramesWhole == server # "lost"

\* readLoop treats the end of the connection as a reason to close the transport.
DeadServerNoticed == (server = "dead") ~> (closing = "done")
=============================================================================
