----------------------------- MODULE MCProtocols -----------------------------
(***************************************************************************)
(* Services that share nothing, side by side: one of them, active, takes   *)
(* the steps of a behaviour while the others rest in their initial states. *)
(***************************************************************************)
EXTENDS Naturals

CONSTANTS Key, Caller, Client, MaxResets,                     \* LspManager
          Request,                                            \* LspTransport
          Window, Keep, Main, Agent, Call, MaxRows, MaxPrompts, MaxSummaries,
          File, Temp, MaxContent, MaxDone,                    \* FileTrace
          Conn, Message, Out, Slots,                          \* JsonRpc
          Req, Root, Child, fx, fy,                           \* FileService
          Source, Symbols, Model, NoModel, MaxEdits, MaxRuns, MaxBreaks,  \* IndexStore
          Printed, Extent, MaxOps, MaxInt,                    \* Screen
          Judged, Exempt, Config, Batch, MaxRounds,           \* Approval
          None

VARIABLES active,
  clients, failCount, client, pending, caller, reaper, manager, resets,
  channels, channel, closes, request, stdin, stdinOpen, lspServer, stdout, closing, reader,
  history, state, current, nowAgent, lifecycle, loop, server, prompts, summaries, made,
  disk, rows, cache, confirmed, events, now, leaving, op, seen, foreign, torn, done,
  conn, line, reading, task, wire, outbound, asker, asked, answerChan, answered, permChan,
  released,
  tree, req,
  files, items, vectors, nextId, lastRow, model, run, queue, embedding, edits, runs, breaks, whole,
  buffer, output, gentle, ops,
  rounds, waiting, verdict

\* A batch with an answer, one with a notification, an answer alone, an exit.
Bodies == UNION {{<<"call", o>>, <<"note", "call">>, <<o>>, <<"call", "exit">>} : o \in Out}

Lsp  == INSTANCE LspManager
Pipe == INSTANCE LspTransport WITH pending <- channels, server <- lspServer
Talk == INSTANCE Dialogue
Trace == INSTANCE FileTrace
Rpc  == INSTANCE JsonRpc WITH pending <- outbound, channel <- answerChan

Asked == {<<"rm", Root>>, <<"rm", fy>>, <<"write", fx>>, <<"mkdir", fy>>, <<"read", fx>>,
          <<"read", Root>>, <<"chmod", fx>>, <<"stat", fy>>}
Files == INSTANCE FileService

Store == INSTANCE IndexStore WITH Path <- Source, Nobody <- None

Screen == INSTANCE Screen

Rounds == INSTANCE Approval

lspVars   == <<clients, failCount, client, pending, caller, reaper, manager, resets>>
pipeVars  == <<channels, channel, closes, request, stdin, stdinOpen, lspServer, stdout,
               closing, reader>>
talkVars  == <<history, state, current, nowAgent, lifecycle, loop, server, prompts,
               summaries, made>>
traceVars == <<disk, rows, cache, confirmed, events, now, leaving, op, seen, foreign, torn, done>>
rpcVars   == <<conn, line, reading, task, wire, outbound, asker, asked, answerChan, answered,
               permChan, released>>
fileVars  == <<tree, req>>
storeVars == <<files, items, vectors, nextId, lastRow, model, run, queue, embedding, edits,
               runs, breaks, whole>>
screenVars == <<buffer, output, gentle, ops>>
roundVars == <<rounds, waiting, verdict>>
allVars   == <<active, lspVars, pipeVars, talkVars, traceVars, rpcVars, fileVars, storeVars,
               screenVars, roundVars>>

Init ==
  /\ active \in {"lsp", "pipe", "talk", "trace", "rpc", "files", "store", "screen",
                "rounds"}
  /\ Lsp!Init /\ Pipe!Init /\ Talk!Init /\ Trace!Init /\ Rpc!Init /\ Files!Init
  /\ Store!Init /\ Screen!Init /\ Rounds!Init
  /\ active # "talk" => current = Main
  /\ active # "store" => (\A p \in Source : files[p] = 0) /\ model = NoModel
  /\ active # "screen" => \A n \in Extent : buffer.rows <= n /\ buffer.cols <= n

Next ==
  /\ UNCHANGED active
  /\ \/ active = "lsp"   /\ Lsp!Next
        /\ UNCHANGED <<pipeVars, talkVars, traceVars, rpcVars, fileVars, storeVars, screenVars,
                       roundVars>>
     \/ active = "pipe"  /\ Pipe!Next
        /\ UNCHANGED <<lspVars, talkVars, traceVars, rpcVars, fileVars, storeVars, screenVars,
                       roundVars>>
     \/ active = "talk"  /\ Talk!Next
        /\ UNCHANGED <<lspVars, pipeVars, traceVars, rpcVars, fileVars, storeVars, screenVars,
                       roundVars>>
     \/ active = "trace" /\ Trace!Next
        /\ UNCHANGED <<lspVars, pipeVars, talkVars, rpcVars, fileVars, storeVars, screenVars,
                       roundVars>>
     \/ active = "rpc"   /\ Rpc!Next
        /\ UNCHANGED <<lspVars, pipeVars, talkVars, traceVars, fileVars, storeVars, screenVars,
                       roundVars>>
     \/ active = "files" /\ Files!Next
        /\ UNCHANGED <<lspVars, pipeVars, talkVars, traceVars, rpcVars, storeVars, screenVars,
                       roundVars>>
     \/ active = "store" /\ Store!Next
        /\ UNCHANGED <<lspVars, pipeVars, talkVars, traceVars, rpcVars, fileVars, screenVars,
                       roundVars>>
     \/ active = "screen" /\ Screen!Next
        /\ UNCHANGED <<lspVars, pipeVars, talkVars, traceVars, rpcVars, fileVars, storeVars,
                       roundVars>>
     \/ active = "rounds" /\ Rounds!Next
        /\ UNCHANGED <<lspVars, pipeVars, talkVars, traceVars, rpcVars, fileVars, storeVars,
                       screenVars>>

Spec == Init /\ [][Next]_allVars

\* The properties of the components.
ClientsAccounted     == active = "lsp" => Lsp!ClientsAccounted
SettledOnce          == active = "pipe" => Pipe!SettledOnce
CallsPaired          == active = "talk" => Talk!CallsPaired
AgentSurvives        == active = "talk" => Talk!AgentSurvives
MainCacheIsTable     == active = "trace" => Trace!MainCacheIsTable
EditsWhatItSaw       == Trace!EditsWhatItSaw
RepliesComplete      == active = "rpc" => Rpc!RepliesComplete
AskedOnce            == active = "rpc" => Rpc!AskedOnce
RemovalStops         == active = "files" => Files!RemovalStops
IndexMatches         == active = "store" => Store!IndexMatches
ScreenSound          == active = "screen" => Screen!ScreenSound
BatchIsItsCalls      == active = "rounds" => Rounds!BatchIsItsCalls
RepeatStopped        == active = "rounds" => Rounds!RepeatStopped
=============================================================================
