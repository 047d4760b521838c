# alkaid0 in TLA+

alkaid0 is a coding agent written in Go. A client (an editor, a web page) talks
to it by JSON-RPC over WebSocket or stdio, in a dialect of the Agent Client
Protocol; the server keeps chats in SQLite databases, one per working
directory, runs a conversation loop per loaded chat, asks the client before it
runs tools, and indexes the working directory in the background.

This directory holds TLA+ models of the parts of the program whose correctness
depends on the order of steps, TLC configurations that check them on small
instances, and TLAPS proofs of what holds for every instance. Paths and line
numbers are those of the repository's `src/`.

| file | what it is |
|---|---|
| `SessionLifecycle.tla` | session registry, bindings, delayed release, counted database handles |
| `HandlePool.tla` | abstract specification: what `loadDB` / `closeDB` promise |
| `SessionLifecycle_proofs.tla` | TLAPS proofs: exact counts, shared and closed handles, the refinement of `HandlePool`, no session forgotten |
| `AgentLoop.tla` | what turns do to a session's state: tool approval, cancellation, restart |
| `LoopLifetime.tla` | the loop's goroutine from Start to its end: callback, retries, Stop, Cancel |
| `Replay.tla`, `Dialogue.tla` | stored history and the messages made of it; sub-agents, summaries, prompts, crashes |
| `ApprovalRules.tla`, `Approval.tla` | rules that approve or reject a batch, the search for repeated batches; what becomes of the batches of a chat |
| `RunService.tla` | shell jobs: submit, execute, wait, kill |
| `FileTrace.tla`, `TextEdits.tla`, `FileTree.tla`, `SearchTool.tla` | files followed and edited; the text of edits and patches; the tree tool; the search in files |
| `FileService.tla` | the protocol's file requests and their timers |
| `JsonRpc.tla` | read loop, message goroutines, requests to several clients |
| `CodebaseIndex.tla` | background index: queue, worker, progress poll, cancel, clean |
| `IndexStore.tla`, `IgnoreRules.tla`, `CodeSearch.tla` | the rows and vectors an index run leaves; which files it reads; the search over them |
| `LspManager.tla`, `LspTransport.tla` | language-server clients and their reaper; one server's request pipe |
| `StreamParse.tla`, `ModelStream.tla`, `Masking.tla` | partial JSON, calls and thinking in a streamed answer; the events of the stream; secrets and their fakes |
| `TerminalBuffer.tla`, `Screen.tla` | terminal screen and escape sequences; the calls that write on it, resize it and clear it |
| `MC*.tla`, `*.cfg` | instances for TLC |
| `AgentLoop_proofs.tla`, `CodebaseIndex_proofs.tla`, `LspManager_proofs.tla`, `JsonRpc_proofs.tla`, `Dialogue_proofs.tla` | TLAPS proofs about these modules |
| `MCProtocols_proofs.tla`, `MCLive_proofs.tla` | TLAPS proofs about the modules that run side by side in `MCProtocols` and `MCLive` |
| `PROJECT.json` | components, runs, mutants, map from definitions to source lines, findings, hazards, theorems |

To repeat a run: `tlc -workers 2 -config SessionSafety.cfg MCSessionLifecycle`.
To repeat the proofs: `tlapm SessionLifecycle_proofs.tla`, and so for the other
seven modules that end in `_proofs`.

## 1. Inventory

### Server (`server/actions`, `server/client`)

* **Session registry and database handles** (`session.go`, `main.go`).
  State: the map `sessions` from `sess_<id>:<cwd>` to session objects (handle,
  `releaseTimer`, `background`, loop), the map `dbs` from directory to handle
  and reference count, `sessionConnMap` / `connCallMap` (who is bound to what),
  `bindedSessionOnConn` (what a connection has bound). Operations:
  `session/new`, `resume`, `close`, `delete`, `list`, update, the
  connection's `Close`, and the function of the release timer.
  Every JSON-RPC message runs in a goroutine of its own
  (`client/jsonrpc/connect/ws.go:248`) and `Close` waits for none of them; five
  locks are taken one after the other, seldom together.
  Correct means: counts equal holders, nobody's handle is closed, none leaks, a
  session without a connection is released, a session with one is not.
* **Prompt, cancel, permission** (`prompt.go`, `session.go:500-930`). They
  read and write `session.State` of a running loop without a lock, put messages
  into `sendQueue`, broadcast `running`, `requires_action`, `idle`. A
  permission request lives in its own goroutine until the first client answers.
  Correct means: a batch of tools is run at most once and only if approved, a
  batch that waits is asked about, an announced turn ends.
* **Commands** (`commands.go`): `/background`, `/index`, `/index cancel`,
  `/index clean`, `/init`, `/summary`, and some that print or set configuration.
* **JSON-RPC layer** (`server/client`): methods by name, pending calls to the
  client, WebSocket and stdio transports. Hard: answers against timeouts and
  against the end of the connection.
* **File, config, title requests, telemetry, OpenAI endpoint, API keys**:
  sequential handlers. The hard one is `fs.go`: a request that exceeds 200 ms
  is answered with an error while its goroutine goes on.

### Conversation (`ui/loop`, `ui/funcs`, `provider`)

* **Loop** (`ui/loop/loop.go`): a goroutine that takes messages from
  `sendQueue` and runs responses until one asks for no further round; a second
  goroutine delivers callbacks (`recvQueue`, `recvSyncQueue`). State:
  `session.State`, `stopped`, `cancelFunc`, `done`.
* **Callback and lifetime** (`ui/loop/loop.go`): the loop hands every piece of an
  answer to the callback's goroutine and waits for its return; `Stop` cancels
  what runs, `Cancel` the loop itself, a failed request is retried after a pause.
  Correct means: nothing overtakes, and whoever is told to end ends.
* **Response and approval** (`provider/request/request.go`,
  `ui/funcs/funcs.go`): `SendRequest` creates the message row, streams, saves
  the tool calls, sets WaitApprove; `ApproveToolCalls` / `ExecuteToolCalls`
  take the newest message with tool calls. Hard: state that is partly saved,
  partly only in memory, at a restart.
* **Approval rules** (`provider/request`): expressions over a tool call with
  three outcomes, from the agent, the configuration and the program; a batch is
  judged as a whole, and one that comes a third time is stopped.
* **Sub-agents and history** (`provider/request/agents`, `build`, `response`):
  one table of rows for all agents of a session; activation and hand-back move
  the current agent in memory and in the database; a request is built from the
  rows since the last summary. Hard: rows come from two goroutines, the cut may
  fall between a call and its result, the process may end between two writes.
* **Streams** (`provider/parser`, `library/json`, `provider/request/openai.go`):
  an answer comes in pieces cut anywhere; arguments are used before they are
  complete.
* **Masking** (`provider/mask`, `library/ahocorasick`): secrets are replaced by
  fakes of the same look, kept in a table, and put back while the answer streams.

### Context (`context/codebase`, `context/lsp`)

* **Codebase index**: `RunIndex` walks the directory, leaves out what its lists
  and `.gitignore` name, compares hashes and queues embedding tasks; a worker per
  directory takes them; a poll reports progress; cancel and clean stop
  everything from other goroutines. Hard: notification channel of capacity one
  beside a queue under a mutex, worker replacement after a panic, several stops
  at once, cancel functions that are replaced; rows of files that change while
  they are indexed. The search puts ranks of words and distances of vectors
  together.
* **Language servers**: a manager with one client per language and root, failure
  counts and a reaper; a transport with pending requests. Hard: reaper against
  a new request, closed transport against a request being registered.

### Tools, storage, terminal, configuration, helpers

* **Run tool** (`tools/tools/run`): a service goroutine takes submissions and
  kills; each job executes in a goroutine of its own, in the background or with
  a waiting call. Hard: a stop that comes before the command exists.
* **Files** (`tools/tools/trace`, `edit`, `tree`, `search`): a conversation
  follows files, edits them by text or line, changes the tree by editing its
  listing, and searches. Hard: files that change between what the model saw and what
  it writes, numbers that are off by one, operations that need each other's order.
* **Scopes, fetch, memory, task, date**: one call, one effect.
* **Terminal** (`terminal/buffer`): a grid of cells with a cursor, a place that is kept and
  a region that scrolls, written by a parser of escape sequences. Hard: which bytes
  come is up to the program that runs, and resizes come between any two writes.
* **Storage**: gorm models and migration. **The rest of the terminal**: pty,
  sandboxes. **Configuration, statistics, logs, start-up programs, prompts,
  installer**: sequential code and data.

`PROJECT.json` lists every component with its status, and under `hazards` what
is hard to test in each, at its line.

## 2. Plan

The order was: first the shared state of the server (`SessionLifecycle` with
`HandlePool` and its proofs), then the conversation (`AgentLoop`), the index
(`CodebaseIndex`), the services beside them (language servers, the run tool,
JSON-RPC, file requests), what is stored and replayed (`Replay`, `Dialogue`,
`FileTrace`, `IndexStore`), the loop's goroutine (`LoopLifetime`), and the
algorithms on texts, streams, trees and rules.

Composition. `MCLive` and `MCProtocols` put components that share no state side by
side, one active per behaviour: the question asked of each is its own, and they
share one state graph. `MCServices` adds the pure algorithms to `MCProtocols`; they are
kept apart because their reference definitions are RECURSIVE, and what is proved
must not reach them. Where components do share state they
are one module: `Dialogue` extends `Replay` because what is stored decides what
is sent; `ModelStream` extends `Masking` because an answer is unmasked while it
is read.

Left, in the order of worth:

1. theorems about the texts and searches whose definitions are bounded by quantifiers
   and not by recursion (parts of `IgnoredStaysOut` and `EditReported`);
2. `SessionLoop`: the part of the registry that starts and cancels loops, with
   `LoopLifetime`;
3. scopes, the agent table and the snapshot of streaming calls.

## 3. Models and code

One atomic step is what the code does between two acquisitions of a lock, or
between two accesses to shared state where there is no lock. History variables
(marked in each module) serve only properties. `map` in `PROJECT.json` gives the
lines of every definition.

### SessionLifecycle

| model | code |
|---|---|
| `sessions`, `sessDB`, `releaseTimer`, `background` | `sessions` map and its objects |
| `dbs`, `referCnt`, `fileOf` | `dbs` map: entry, count; the database an open connection is on (`dbOpen`: the open ones) |
| `misspelt` | history: directories that were loaded under another spelling |
| `sessionConnMap`, `connCallMap`, `connLock` | maps under `connCallLock` / `sessionConnLock`, and who holds them |
| `bindedSessionOnConn`, `closed` | bound list per connection; read loop ended |
| `timers[t]` | an AfterFunc: armed, fired and about to check, about to release |
| `th[h]` | a request goroutine and where it is |
| `chats`, `created` | rows of the chats tables; ids handed out |

Actions: `SessionNew`, `SessionResume`, `Bind`,
`RegisterConnCall`, `CancelSessionRelease`; `SessionClose`, `Close`,
`UnregisterConnCall`, `Unbind`, `ScheduleSessionRelease`; `SessionDelete`,
`CloseSession`; `UseRequest`, `LoadDBStep`, `UseDB`, `CloseDBStep`;
`SetBackground`; `TimerFires`, `ReleaseCheck`, `ReleaseSession`.
A timer that has fired is beyond `Stop()`, so it is a process of its own that
may meet a later incarnation of its session.

Abstractions. The two lists `bindedSessionOnConn` and the one `Close` walks are
sets: a duplicate repeats a pair of calls that then does nothing.
`background[s]` is the whole test `releaseFunc` makes: the mode is on and the
loop is Requesting, Reciving or ToolCalling. A failing resume gives `sessLock`
back only at its end; the model puts a step between its `loadDB` and `closeDB`,
which allows more than the code. The window between `loadDB` dropping `dbLock`
and the registration is inside `sessLock` in the code, one step here.
`LoadDB` and `CloseDB` keep the asymmetry of the code: lookup by the spelling
of the caller (`session.go:587`, `611`), storage under `path.Clean` (`593`). A load under
another spelling opens a second handle and replaces the entry and its count; its own
`closeDB` finds nothing. From then on the directory is `misspelt`, and the properties of
counts and handles speak of the others, the `Clear` ones. Only session/list, and update or
delete of a session id the client wrote itself, can bring such a spelling
(`session.go:1861`, `1887`, `1931`); ids in the registry have clean ones.

### HandlePool

Users acquire and release a directory; all users of a directory have one open
handle, opened by the first and closed by the last. `SessionLifecycle`
implements it: `held` is computed from the registry and the goroutines between
`loadDB` and `closeDB`, `open` is the open handles on databases of `Clear` directories,
`lost` is `misspelt` (property `ImplementsPool`). `Lose` gives one directory up with its users
and handles, and touches no other. There are no counts in the abstract module: that the counts do their job is what the
refinement says.

### AgentLoop

| model | code |
|---|---|
| `state`, `saved` | `session.State` in memory and in the chat's row |
| `messages`, `messageId`, `toolMsg` | message rows, `CurrentMessageID`, newest row with tool calls |
| `pc`, `sendQueue`, `stopped`, `responding`, `cancelled` | loop goroutine, its channel, `stopped`, `cancelFunc`, its context |
| `perm[b]`, `permChan` | permission goroutine of batch b, `obj.permChan` |
| `th[h]`, `update` | prompt and cancel requests; last `state_update` |

Actions: `Start`, `Receive`, `Respond`, `BeginRequest`, `Build`, `EndRequest`,
`HandleWaitApprove`, `Announce`, `ApproveToolCalls`, `ExecuteToolCalls`,
`ToolsDone`; `ClientAnswers`, `PermissionGuard`, `PermissionApprove`,
`PermissionRefuse`; `SessionPrompt`, `RejectPending`, `Chat`, `Stop`,
`SessionCancel`, `CancelPending`; `Crash`.

Abstractions. Waiting stands for GeneratingPrompt too, Requesting for Reciving:
no code tells them apart. What a response contains, what the rules say, whether
a tool fails, are choices. In `Chat` the broadcast of `running` and the enqueue
are one step: between the two only the loop's own reports could be ordered
differently, and the second decides `update`. Saves of the whole session row
at other places than those in the model (the title, the configuration) would
persist the current in-memory state early; they are left out. The callback channel, automatic summaries and `Cancel`
are in `LoopLifetime`, sub-agents and what is stored in `Dialogue`.

### CodebaseIndex

| model | code |
|---|---|
| `queue`, `notify`, `totalPushed` | `queueManager` |
| `workerCancel`, `workers` | `cdb.workerCancel`, the goroutines counted by `workerWG` |
| `stored` | rows of the directory's tables |
| `indexCancel`, `indexing` | entry of `indexCancels`, of `indexingLocks` |
| `index[r]`, `poll[r]` | a call of `RunIndex`, the progress goroutine it leaves |
| `th[h]` | a goroutine that runs `/index cancel` or `/index clean` |

Actions: `Register`, `Lock`, `File`, `AddToQueue` (start worker, push, notify:
three steps), `Unregister`, `Unlock`; `PollLen`, `PollTotal`; `WaitPop`, `Wake`,
`EmbedAndStore`, `Recover`, `ClearState`, `Restart`; `Begin`, `CancelRun`,
`StopRead`, `StopCancel`, `StopDone`, `ClearQueue`, `CleanDone`.

Abstractions. A task is the number of its file; contents do not change during a
behaviour, so a stored task is one whose hash matches. Temp files and chat
history are one more task, queued after the scan. Symbols and removed files are
in `IndexStore`. Not in the model: the race of
two first calls of `getOrCreateDB`, `closeDirectory`, priorities, `Pause`/`Resume` (never called), and the panic of a
`sync.WaitGroup` that is reused while someone waits.

### LoopLifetime

| model | code |
|---|---|
| `ctx`, `done`, `stopped`, `response`, `tool` | the loop's context and `done` channel, `stopped`, `cancelFunc`, `toolCancelFunc` |
| `loop` | where `Start`'s goroutine is, the responses it has still to hand over, its retry and round counters |
| `sendQueue`, `recvQueue`, `sync`, `callback` | the three channels and `SetCallback`'s goroutine |
| `stopper`, `canceller` | calls of `Stop` and `Cancel` |

`Call` waits for the callback's return or for `done`; `Turn`, `Backoff`, `WaitApprove`
are the response loop with its retries; `RequestEnds`, `ToolsEnd`,
`ApprovedEnd`, `SummaryEnds` are what comes from outside. A summary before a
request uses the loop's own context. What is said is a sequence of anonymous
responses; kinds matter only where one is handed over synchronously.

### Replay, Dialogue

`Replay` is `RequestBody` as an operator: rows of one agent, newest window,
boundary at the newest summary, placeholders for calls without a result, results
without a replayed call dropped, and `splitMultiToolCalls`. A request is a set of messages, each
with its place: the row it comes from, its place among what comes of that row,
and the part it is of a message that was split. `Dialogue` extends it
with the tables: `history` (Messages), `nowAgent` (Chats) and, in memory,
`current`, `state`, `lifecycle` (AgentLifecycleLock); `loop` and `server` are the
two goroutines that write. Actions follow a request from `SendRequest` over
`Build`, the answer, rules (`Reject`, `Approve`, `WarnLoop`), `ExecPlain`,
`Activate` and the steps of a hand-back (`ClearAgent`, `HandBack`,
`SummariseAgent`) to `SaveResults`; `Prompt` and `StorePrompt` are the server's;
`Crash` keeps tables and drops the rest. Texts are left out, ids are numbers in the order
of creation.

### ApprovalRules, Approval

`Evaluate` is `EvaluateApprovalRules`: which rule is in force (`Own`, `Merge`),
reject before approve, the first call that decides. A rule is what it makes of each
call. `Loops` is `detectToolCallLoop` with its signature of a shell command
(words without numbers) and its limit on rows read.

`Approval` puts them to use: `rounds` are the stored batches of one chat with what
became of each, `waiting` is `StateWaitApprove`. `Answer` stores a batch; `Judge` is
`AutoHandlePendingToolCalls` with any rules in force and with or without an active
sub-agent, and may come again as long as the batch waits; `Approve` and `Reject` are a
client's. What is let through goes through `ExecuteToolCalls`: two changes of
agent in one batch leave it waiting, a repeated batch is answered with a warning, others
run or fail. `verdict` is a history variable: the last judgement and the rules it was
made by. Errors before the rules are asked change nothing and are left out.

### RunService

| model | code |
|---|---|
| `reqChan` | `Service.reqChan`: submissions and kills, served one after the other |
| `job[j]` | a `Job` and its execute goroutine, its watcher of the context, its ticker, its process |
| `tool`, `toolCtx`, `toolKillFn` | the loop's goroutine in a run call, the context of the batch, `session.ToolKillFn` |
| `stopper` | goroutines in `Stop()` |

Every step between two sections under `killFnMu`, `cmdMu`, `resultMu`, `toolKillMu` is
an action: create, set the kill function, look whether a kill came, start, wait,
second attempt without sandbox, final status, save, clean up.

### FileTrace, TextEdits, FileTree, SearchTool

`FileTrace`: the Traces table (`rows`), its copy in the session (`cache`), the
contents confirmed by relative path (`confirmed`), the files (`disk`). `op` is the operation
the loop's goroutine has under way, reading, unreading, tracing an output, building a
request, editing or summing up, in the steps between its accesses to what others write:
each takes the agent of that moment (`now`), because a prompt sends the sub-agent away
between any two of them (`Deactivate`, from the server's goroutine, `request.go:74`;
`leaving` is the agent whose summary then follows). Two agents with bind paths of their own
share relative paths, and files may have equal contents; the user writes at any moment. History variables: `seen`,
the content last shown of a file or made by an edit of it; `foreign`, the user's text
was confirmed with an edit; `torn`, the main agent's copy was stored with another's rows.
`TextEdits`: the formatter's edits on lines and characters, the targets of the edit
tool, the hunks of its report and `UnifiedDiff`. `FileTree`: the listing with its
numbers, the parsed lines, the operations derived from two trees and
their execution in order over temporary names, with what fails in the
middle; and the limits on depth, children and nodes. `SearchTool`: the kind of
query (plain, wildcard, regular expression), the walk with the tool's own ignore
matcher, the shares of lines and of index rows. What a raw regular expression finds is an input.

### FileService

`req[r]` is a handler and the goroutine of its operation: they part when the
timer expires. What a handler does to the disk without a timer are steps of its own, which
may never end: `Check`, the links of the path (`fs.go:202`, `209`), and `Infos`, the sizes of what was listed
(`fs.go:389`). Operations take the steps in which they look at their context
(`removeAllCtx` per entry, `write` before it opens), so that a goroutine may
outlive its answer. The disk is a directory and its children.

### JsonRpc

`line` and `wire` are what a connection has been sent and has answered, `reading`
the message that waits for one of `Slots` goroutines, `task` those goroutines;
`pending`, `asker`, `channel`, `permChan` belong to the requests the server
makes to all clients of a session. `ClientLeaves`, `ReadFails` and `exit` end a connection
while goroutines of it run.

### IndexStore, IgnoreRules, CodeSearch

`IndexStore`: the rows (`items`), vectors, `lastRow` of the database
connection, the run of `RunIndex` file by file and symbol by symbol, the worker's
queue. Files are edited and deleted between and during runs; runs fail, are
cancelled; tables are cleaned; the model is changed. The files of a run are looked at in
any order. A version of a file gives each symbol a text, the signature that is
hashed and embedded, and a body, the code that a search returns (`search.go:82-106`); a
symbol is queued only if its text changed (`index.go:888`), so that a body may stay old. A hash is
taken to tell texts apart; a version may name a symbol twice, and then either
text may stand in the one row there is for it. `whole` remembers that nothing failed
or came between since the tables were empty; it ends too when a file has lost
all its symbols and rows of them stay (`index.go:862` cleans none), or when the language server
fails. `IgnoreRules`: the walk, the fixed lists, and the
`.gitignore` matcher as it is coded; `Ignored` is git's meaning.
`CodeSearch`: words, vectors, fusion and limits. FTS5's ranks are numbers; which of
equal rows is cut is any.

### LspManager, LspTransport

`LspManager`: `clients` and `failCount` of the manager, each client's state and
process, callers step by step between the locks (look up, start, handshake,
store or close if somebody was first), the reaper's three steps, `Shutdown`.
`LspTransport`: `pending` with its channels, the two writes of a message, the
reader, time-outs, `Close` in its three steps, a server that answers, dies or
meets a torn frame.

### StreamParse, ModelStream, Masking, TerminalBuffer, Screen

`StreamParse`: the JSON parser as the state machine it is, with slots for open
values; the accumulator of calls; the parser of thinking. `ModelStream`: lines of
server-sent events to deltas, the end of the stream, a plain JSON body.
`Masking`: the multi-pattern replacer with what it holds back, `MaskText`
with detected stretches and custom values, the table of fakes with its unique
index, streaming restoration. A fake is of the texts' own characters, as in `generate.go:54-160`, its separators kept; which one is drawn
at each try is an input, the same for originals of one length, so that a fake may be
another text of the message. What detectors find is an input. `TerminalBuffer`: cells, cursor, regions,
scrolling, erasing, resizing, and the parser of escape sequences, its parameters the
machine's integers (`Wrapped`). `Screen` is such a buffer in use: a `Write` holds the lock from its first byte
to its last (`BeginWrite`, `Byte`), and resizes, `Clear` and `SetCursor` come between two of
them. `gentle` is a history variable: no resize has cut off the kept place
or the top of the region, no movement has left the integers.

### Compositions

`MCLive` holds `SessionLifecycle`, `RunService`, `FileService` and `LoopLifetime`;
`MCProtocols` the other services, and `MCServices` those and `MCAlgorithms`. A variable `active`, chosen in the
initial state, says whose steps a behaviour takes; the others rest. The
components share no variable, so an interleaving of two of them would add
products of states and nothing else. `MCAlgorithms` has one variable, `input`: a
step picks an input of one algorithm, invariants compare the algorithm with its
reference definition there.

## 4. Runs

| run | module | bounds | result |
|---|---|---|---|
| SessionSafety | MCSessionLifecycle | 2 connections, 2 goroutines, 3 timers, 1 directory in 2 spellings, 2 sessions, 2 handles, 3 requests | holds, 514,078 states (with symmetry) |
| SessionLive | MCLive | registry: 2 connections, 2 goroutines, 3 timers, 1 session, 2 requests; jobs: 2 jobs, 2 batches, 1 stop; files: 1 request of 11 kinds on 2 children; loop: queues of 1, 1 retry, 1 round, 1 input, 1 stop | holds, 285,118 states |
| LoopTurns | MCAgentLoop | 4 kinds of message, queue of 1, 3 rows, 2 requests, 2 goroutines, 1 restart | holds, 420,489 states |
| IndexQueue | MCCodebaseIndex | 2 runs, 2 command goroutines, 2 workers, 1 file and the extras, 4 calls, 1 panic | holds, 3,041,591 states (with symmetry) |
| Services | MCServices | below | holds, 1,659,056 states |
| SessionRace | MCSessionLifecycle | 2 connections, 2 goroutines, 2 timers, 1 session | violated |
| SessionDeadConn | MCSessionLifecycle | 1 connection, 2 goroutines, 2 timers, 1 session | violated |
| LoopStaleApproval | MCAgentLoop | queue of 2, 2 rows, 2 prompts | violated |
| LoopParkedState | MCAgentLoop | the same | violated |
| IndexCancel | MCCodebaseIndex | 2 runs, 1 command goroutine, 3 workers, 5 calls | violated |
| BatchFirst | Dialogue | 2 agents, 2 calls, 4 rows | violated |
| IndexVectors | MCIndexStore | 1 file of two versions, 1 edit, 2 runs | violated |

**What they show.**

*SessionSafety.* `RefsExact`: the count of a directory equals its holders.
`HoldersShareOpenHandle`: every loaded session and running request has the
map's handle and it is open on the directory's database. `NoHandleLeak`: an open handle is
the map's and has a holder. These three hold of a directory until somebody loads it under
another spelling, which requests of this run may do at any step. `ImplementsPool`: the refinement of `HandlePool`, which loses such a directory.
`NeverStranded`: a session without connections has a release or a request on the
way, however directories are spelt.

*SessionLive.* `UnboundReleased`: a session without connections is released (or
bound again, or at work in background mode). `NothingOutlivesJob`: who waited for a
job finds its process gone, its ticker stopped, its key deleted, its status
final. `StopEndsTool`: `Stop` reaches the command of a run call wherever
it is, and the call returns. `Answered`: a file request is answered though its operation
hangs, once the untimed parts of its handler are over; the code does not see to it that they end. `OneAtATime`: the loop goes on only when nothing it said is on its way.
`EndsWhenTold`: after `Cancel` the loop ends wherever it is, after `Stop` the request
or the tools do.

*LoopTurns.* `ExecutedOnce`: the tools of a response run at most once, over
rejections, approvals and a restart at any step. `WaitingIsAsked`: a session at
rest in WaitApprove has a permission request open for that very batch, after a
restart too. `TurnSettles`: `running` is followed by `idle` or
`requires_action`. Two exclusions are part of the statements: a batch in
`failed` (an error, or a full queue at the moment of approval, which the code
only logs) and a blank prompt (`dropped`; see "Observed" below).

*IndexQueue.* `ProgressInRange`, `NothingLost` and `WorkerAsClaimed` (a claimed
worker runs, a stopped one is gone when `stopWorker` returns), as stated in the
module. `WorkerAsClaimed` does not say that a root has one worker: two `stopWorker` at once
can leave a worker running that no field names (`worker.go:41-44`). `NoLostWakeup` excludes one case, `abandoned`: a worker that was told to stop takes the
notification and then panics; it is not replaced, and whoever stopped it clears
the queue.

*Services*, by component:

| component | properties | bounds |
|---|---|---|
| `LspManager` | `ClientsAccounted`: no client or process is lost, whoever starts, reaps and shuts down | 1 key, 2 callers, 2 clients, 1 reset |
| `LspTransport` | `SettledOnce`: one of answer, time-out, close settles a request, and nothing is left | 2 requests |
| `Dialogue` | `CallsPaired`: every call sent has one answer behind it, every answer its call; also when split for proxies, if results stand behind their calls (`Adjacent`); `AgentSurvives`: agent in memory and in the database agree when nobody is switching | 2 agents, 2 calls, 5 rows, 1 prompt, 1 summary |
| `FileTrace` | `EditsWhatItSaw`: an edit starts from a text some agent was last shown, or made, of its file of that name; `MainCacheIsTable`: the copy in use lists the table, unless `torn` | 2 agents, 1 file, 1 temporary path, 2 contents, 4 operations |
| `JsonRpc` | `RepliesComplete`: item by item one reply or none; `AskedOnce`: one answer taken, nobody held up | 2 connections, 2 messages, 1 slot, 1 request of the server |
| `FileService` | `RemovalStops`: at most one entry goes after the answer "timed out" | 2 requests of 8 kinds, 2 children |
| `IndexStore` | `IndexMatches`: after runs left alone, rows are exactly the files' symbols with their texts, each body of one version with that text | 1 file, 2 versions (one names a symbol twice, one symbol differs in its body alone), 2 edits, 2 runs, 1 failure |
| `TextEdits` | `EditsExact`, `EditReported`: against the edit on characters; a report can be taken back | texts of 2 to 6 lines |
| `Approval` | `BatchIsItsCalls`: approved by itself if and only if each call would be; `RepeatStopped`: the third batch in a row of the same commands does not run, whoever approved | 3 batches of 5 kinds, 4 calls, 20 sets of rules |
| `StreamParse` | `ParsesWhatCame`: any prefix is what came so far, the whole is the value; escape sequences show nothing | documents of depth 2, 3 deltas, texts of 5 to 8; 4 escape sequences on a line of 5 |
| `Masking`, `ModelStream` | `MaskRoundTrip`, `AnswerRestored` | texts of 3 to 5, fakes of 4 characters and a separator of which texts have 3, 3 sequences of draws, 2 keys, 4 lines |
| `Screen` | `ScreenSound`: cursor, kept place and region stay on the screen and no byte stops the reader, while the buffer is `gentle` | 2 by 2 to 4 by 4, 4 calls of 33 kinds, integers to 15 |
| `FileTree` | `TreeEditDone`: done means the disk is as the lines say; not done loses nothing | trees of 5 entries, 3 lines, 10 changes by others |
| `CodeSearch`, `SearchTool` | `SearchMerges`: order, limits and shares of both searches; up to twice the limit if one side of the index search failed | 3 rows; 3 files, queries of 4 |
| `IgnoreRules`, `SearchTool` | `IgnoredStaysOut`: what git ignores is not read, by the index or by the search | 2 rules of the root, 1 of a folder, 9 paths |

Preconditions in these statements are cases where the code falls short, each
named under "Observed" below or in the comment of the property: `IgnoredStaysOut`
takes rules that take nothing back, in a folder without a slash; `EditsExact`
edits whose end is not the first character of a line; `TreeEditDone` lines below
folders with numbers that were shown; `MaskRoundTrip` values that no earlier one runs into,
and for the way back fakes that stand in the masked text only where they were put;
`CallsPaired`, for the split, results right behind their calls and call ids that are unique.

`TypeOK` is checked in SessionSafety; the other modules state theirs as
documentation of their variables, and where section 5 has a theorem about the module
the types are part of its inductive invariant.

**Why the bounds are enough.** Session: two connections suffice for one to bind
while the other's disconnect is being handled, three timers for a fired, a
forgotten and a current one, three requests for new, delete and resume to
follow and overlap in pairs; one directory in two spellings is where all sharing happens (that a misspelt load touches
no other directory is proved, for any number of them), two sessions are needed for a shared handle; two handles let the
directory be reopened while an old handle is still referred to. Loop: three
rows allow a replaced batch and a further round; a queue of one is full at
once; one restart at every step. Index: two runs contend for the entry in
`indexCancels`, two commands for the worker; one file and the extras give
tasks of both kinds. Jobs: two let a second be submitted, killed and waited for while
the first ends; batches in the foreground and the background both occur. Language servers: two
callers race for one client; a client that lost the race is one of the two.
Transport: the second request is registered at every step of the first. Dialogue:
five rows hold prompt, call, result, hand-back and a row of the other
goroutine, so that a cut can fall at each. Trace: two agents collide on one
relative path. Algorithms: inputs are long enough for two neighbours and one more
(two edits, two keys of which one is the other's beginning, three lines, two
scroll regions); the code looks at no more at a time. Counters (`Max...`) are bounded in the
guards of the actions that start something; `Timer`, `Handle`, `Worker` and `Req` are pools of
identities that are reused when nothing refers to them, so that a full pool
delays a step and never forbids the release of what is there; `Client` is not reused, and bounds
how many clients are started.

**Deadlock** is not checked in any run: the server may rest (no client sends
anything), the bounds end every behaviour, and an algorithm is done when its
input is picked. That nobody waits for ever is what the liveness properties say.

**Fairness.** Weak, and only of what the Go scheduler, a due timer or a bounded
wait makes happen. `SessionLifecycle`: every goroutine's and timer's next step.
`AgentLoop`: the loop (its response ends: the HTTP client has a timeout), the
permission goroutine after the answer, requests. `RunService`: the service's
goroutine, each job's goroutine and watcher, the waiting call, a `Stop` that has
begun; not that a command ends by itself. `FileService`: that a handler receives a result that is
there, that its timer expires, that it gives up; not that the disk answers, in the goroutine or in
the handler's untimed parts (`Answered` is about handlers outside those).
`LoopLifetime`: the loop's steps and the callback's, and, once
the context is cancelled, that what it was passed to ends; not that a request ends by itself.
`CodebaseIndex` and `LspTransport` state fairness that no checked property uses. Never
assumed: that a client sends, answers, disconnects or changes the mode, or that
the process restarts.

### Findings

Seven runs check a sentence of the repository that the code does not keep; the
details and quotations are in `PROJECT.json`.

* **SessionRace**, `ReleasesOnlyUnbound`: `releaseFunc` looks at the bindings,
  gives the lock up and releases without looking again (`session.go:1101-1109`);
  a client that resumes in between loses the session it was just given.
* **SessionDeadConn**, `DisconnectedReleased`: a request that is still running
  when its connection ends binds the session to a dead connection; nothing
  releases it then (`ws.go:248`, `session.go:1308`).
* **LoopStaleApproval**, `RunsOnlyApproved`: an approval is queued without the
  batch it is for; behind a prompt it approves the batch of that prompt
  (`session.go:892`, `funcs.go:218`).
* **LoopParkedState**, `ParkedNotActive`: `session.State` stays Reciving when a
  turn ends with an answer; the delayed release takes this for work
  (`request.go:1358`, `session.go:1118`).
* **IndexCancel**, `CancelReachesIndex`: a refused `RunIndex` has already
  replaced the cancel function of the one in progress (`index.go:680-691`).
* **BatchFirst**, `ApprovedBatchRuns`: of a batch that was approved only the first
  call runs; the others reach the accumulator under the same index
  (`request.go:889`).
* **IndexVectors**, `VectorOfItsText`: after an update the vector is stored under
  the id of the row inserted last, not of the row updated (`worker.go:159`).

**Observed, without a run.** Stated in the modules as properties that the code
does not keep, for whoever wants to see the counterexample: `EveryTurnSettles`
(AgentLoop: a prompt of white space gets `running` and never `idle`,
`loop.go:430-435`), `CallbackEnds` (LoopLifetime: the callback's goroutine may stay
behind after `Cancel`, `loop.go:125`), `SummaryReplayed`, `RanIsNotDisowned`,
`ToolsAdjacent`, `OwnHistorySent` (Dialogue), `TimedOutUntouched` (FileService,
`fs.go:515`), `FramesWhole`, `DeadServerNoticed` (LspTransport), `SkipIsSafe`
(IndexStore, `index.go:851`), `BodiesMatch` (IndexStore: the body of a symbol whose signature is
unchanged stays old, `index.go:888`, against `worker.go:99`), `MainCacheIsOwn` (FileTrace: a
prompt between `trace.go:358` and `369`, or `590`-`594` and `776`-`781`, has the sub-agent's rows stored as the main agent's copy),
`MaskAlwaysRestored` (MCAlgorithms: with 80 masked as 37 an answer "80 37" comes back as "80 80", `engine.go:181-199` compares
whole fakes alone, against `custom.go:12`), `LoopIsThreeInARow` (Approval: the
batch itself is among the rows it is compared with, so the second in a row is stopped,
`request.go:769`), `PlainJsonUnderstood`, `ArgumentsApart` (MCAlgorithms), `StaysInside`
(Screen: a movement down or to the right by a number of 19 digits makes the cursor negative, `parser.go:183`, `189`; a resize leaves the kept place
and the top of the region outside, `buffer.go:261`; the next write there panics). To see one, check it instead of the
run's properties in a copy of the run's configuration and, where the module is
composed, of the MC module.

Seen while the code was read for the models, modelled as it is:

* loop: `Stop` during an automatic summary before a request does not reach it; during
  the pause of a retry it is reported as an error; `Cancel` before `Start` has
  set the context does nothing.
* index: queued tasks may add rows again for files deleted since; `/index clean`
  during a push leaves rows; symbols are read after the content that was scanned;
  FTS5's `bm25()` is negative, so that `BM25RetentionScore` never applies; rooted
  rules and rules with a slash of a nested `.gitignore` never apply.
* registry: a directory that is loaded under another spelling than `path.Clean`'s loses its entry and
  count, and its users may have the database closed under them (`session.go:587`, `593`).
* file requests: the links of a path and the sizes of a listing are looked at without a timer; a disk
  that hangs there keeps the request unanswered (`fs.go:202`, `209`, `389`), as does the look at users for chown (`fs.go:662`).
* file trace: a content is confirmed for a relative path whoever was shown it, so that an edit
  passes on the equal text of the other agent's file (`trace.go:404-409`, `450-451`); what the user writes
  between the readings of an edit is overwritten (`edit.go:544`, `581`) or confirmed unseen (`633`, `662`).
* search: with one side failed, always so without an embedding model, `searchHybrid` returns
  up to twice the "maximum" of `search.go:200` (`search.go:335-354`).
* masking: of two overlapping secrets the tail of the later one is sent in clear.
* tree tool: an invented number at a path that exists empties the file; a line
  below a file is dropped; moving into a folder that is new and not empty fails.
* formatter: what follows an edit on its last line is kept only if the edit ends
  after the first character (`format.go:279`).

## 5. Proofs

33 theorems, each for any values of the constants that its hypotheses admit. The
property in a statement is the very definition a run checks; where several components run
side by side it is that of `MCLive` or `MCProtocols`, and the theorem is about their
specification (see "Side by side" below). The invariants the proofs rest on were
checked by TLC first, as invariants of the runs named in section 4: that of the
registry on 514,078 states, of the index on 3,041,591, of the services on 1,659,056 (the
dialogue's part in them, 221,633, has all its agents' requests, the screen's is 267,543); that
of the index's rows also with two files (1 edit, 2 runs, 1 failure), on 3,176,562.

### SessionLifecycle

| theorem | states | assumes |
|---|---|---|
| `TypeCorrect` | `Spec => []TypeOK` | the module's ASSUMEs |
| `CountsExact` | `Spec => []RefsExact` | the same |
| `HandlesShared` | `Spec => []HoldersShareOpenHandle` | the same |
| `HandlesClosed` | `Spec => []NoHandleLeak` | the same |
| `Refinement` | `Spec => ImplementsPool` | the same |
| `NoneStranded` | `Spec => []NeverStranded` | the same |

The module's ASSUMEs say that the spellings include the clean ones and `Clean`
leaves those alone, that `None` is none of the values, that goroutines and
session ids are finite sets. Nothing is supposed of how requests spell directories. The
properties of counts and handles are about the directories in `Clear`, those that no
load has misspelt so far: one misspelt load replaces the entry and its count, and from
then on the code keeps none of the three for that directory (`session.go:587`, `593`). What the theorems say beyond
the directories everybody spells alike is that the damage stays where it was done.
The run has one directory in two spellings; several directories are left to the proofs.

**The argument.** None of the properties is inductive. For the handles the invariant is
`TypeInv /\ CreatedInv /\ PoolInv`:

* `TypeInv` adds to `TypeOK` what a program counter says about local variables
  (`ThreadInv`: a goroutine at `useDB` has a path and a handle; `TimerInv`: a
  timer that runs has a session).
* `CreatedInv`: loaded sessions and rows are ids the tables handed out, so that
  `session/new` never meets a registered id.
* `PoolInv` has three parts. `DirInv`, of every `Clear` directory: its count is the
  cardinality of `Holders`, no entry means no holder, every holder has the entry's handle,
  and no other handle is open on its database. `MappedOpen`, of every directory, misspelt or
  not: an entry's handle is open, on the database of that very directory. This is what
  keeps damage at home: whatever entry a `closeDB` drops, the handle it closes is not
  another directory's. `UsersMarked`: who uses a directory under another spelling has left the mark, so that the
  users of a `Clear` one release it under the spelling they loaded it by.

`LoadElsewhere` and `CloseElsewhere` say that a load or release leaves every directory
but its own as it is, `DirAcquire` and `DirRelease` what becomes of its own.
Every action of `Next` is a step of one of five kinds (`StepHolders`): no holder
is concerned, a session becomes a holder or ceases to be one, a request does.
`AddedHolder`, `RemovedHolder`, `StartedHolder` and `EndedHolder` say what such a
step does to `Holders`; `PoolAdd`, `PoolRemove`, `PoolStart` and `PoolEnd` carry
`PoolInv` over it.

The refinement uses the same five kinds. `HeldExact` says that the users of a
directory in the pool are its holders in the registry; a holder more is then
`Acquire` of the pool (the handle is new if there was no holder, by `Fresh`, or
everybody's, by `PoolInv`), a holder less is `Release` (the count that `CloseDB`
compares is 1 exactly for the last holder, by `RefsExact`), the first misspelt load of a
directory is `Lose` (`LoseMaps`), a step of a lost directory is none of the pool's, and any other step
leaves the pool alone.

**No session is forgotten.** `NeverStranded` speaks of a registered session without
connections: a timer runs for it, or a goroutine is between seeing the
last connection go and starting one. It is inductive only with what the timers and the
goroutines know (`Unforgotten`): the timer a session has in the
registry is that session's own (`TimersOwned`: a fired timer that is about to give up does not
take somebody else's entry with it), a connection's `Close` keeps its list of
sessions to visit only where it visits them (`TodoInv`), and a
handler that takes a release back has its connection bound and holds the lock of the
bindings (`CancelInv`; this is the step that would otherwise leave a session with
neither).

### AgentLoop

| theorem | states | assumes |
|---|---|---|
| `LoopTypeCorrect` | `Spec => []TypeOK` | the module's ASSUMEs |
| `ToolsRunOnce` | `Spec => []ExecutedOnce` | the same |
| `RestIsAsked` | `Spec => []WaitingIsAsked` | the same |

The ASSUMEs give the queue a place and the bounds their numbers, and say what a client
can send. `LoopInv` is `TypeOK` with `ExecInv` (a batch that may still run has
not: if the state in memory or the state in the database says WaitApprove, the newest batch was not executed;
the database half is what a restart needs), `AskInv` (the batch that waits is
with the clients, with the permission goroutine, or its approval is in the
queue) and `SendInv`. `WaitingIsAsked` is about a loop at rest and not inductive: its
reason lies in the places an approval passes on its way.

### CodebaseIndex

| theorem | states | assumes |
|---|---|---|
| `IndexTypeCorrect` | `Spec => []TypeOK` | the module's ASSUMEs |
| `ProgressIsInRange` | `Spec => []ProgressInRange` | the same |
| `NoTaskLost` | `Spec => []NothingLost` | the same |
| `WorkersAsClaimed` | `Spec => []WorkerAsClaimed` | the same |
| `NoWakeupLost` | `Spec => []NoLostWakeup` | the same |

The ASSUMEs: workers are numbered (a new one is the least that is free) and `None` is
no value. `IndexInv` has, beside the properties: `QueueCounted` (what is in the queue was
counted, and nothing is uncounted while a poll holds `cdb.mu`: this is why the
progress stays in range), `ClaimInv` (a stored cancel function of a worker that is gone
belongs to a `stopWorker` that will drop it), `DeadIsDead`, and `WakeInv`, which is
stronger than `NoLostWakeup`: a worker that is about to restart counts as somebody
who will look at the queue only if no other worker is claimed, for otherwise
`startWorker` refuses it.

### JsonRpc, LspManager

| theorem | states | assumes |
|---|---|---|
| `JsonRpc_proofs!OneAnswer` | `Spec => []AskedOnce` | `RpcAssumed` |
| `JsonRpc_proofs!EachCallReplied` | `Spec => []RepliesComplete` | `RpcAssumed` |
| `ManagerTypeCorrect`, `NoClientLost` | `Spec => []TypeOK`, `Spec => []ClientsAccounted` | `Assumed`: there is a key, `None` is no client, `MaxResets` a number |

`RpcAssumed`: messages are numbered in the order they are sent, a batch is a
sequence of items, the id of a request of the server is none of the words for the
other items.

*Answers* (`AskInv`): the callback of a request is in `pending`, in the hands of the one message
goroutine that took it out, or it was called; so no second answer finds it, and a
goroutine can be stuck on a full channel only when the session is released.
*Replies* (`ReplyInv`): of each message, the replies so far are the calls among the
items handled so far, each once (`TaskSound`); a message that waits to be read is
in one place (`QueueInv`); and what is on the wire comes from messages that are done, once
(`WireInv`). `RepliesComplete` compares the two when a message is done.

*Language servers* (`AccountInv`): a client that is being created has one creator and no place in
the map, a client in the map is ready and belongs to one key, a client that is
being shut down has left both; a process is always in one of the three.
The hard step is the caller that loses the race for the map and closes what
it has created.

### Side by side: MCLive and MCProtocols

| theorem | states | assumes |
|---|---|---|
| `RunTypeCorrect` | `Spec => []Run!TypeOK` | `RunAssumed`: jobs are numbered, bounds are numbers |
| `JobsEndClean` | `Spec => []NothingOutlivesJob` | `RunAssumed` |
| `LoopTypeCorrect` | `Spec => [](LoopTypes /\ LoopSound(loop))` | `LoopAssumed`: the capacity and the limits are numbers |
| `ResponsesInTurn` | `Spec => []OneAtATime` | `LoopAssumed` |
| `ServersAccounted` | `Spec => []ClientsAccounted` | `LspP!Assumed` |
| `AnsweredByOne` | `Spec => []AskedOnce` | `RpcAssumed` without the part about batches, which `Bodies` of `MCProtocols` satisfies |
| `CallsReplied` | `Spec => []RepliesComplete` | the same |
| `TransportTypeCorrect` | `Spec => []Pipe!TypeOK` | `Request # {}` |
| `RequestsSettledOnce` | `Spec => []SettledOnce` | `Request # {}` |
| `CopyIsTable` | `Spec => []MainCacheIsTable` | `Main` is an agent, `None` no number |
| `EditsOwnView` | `Spec => EditsWhatItSaw` (an action property) | the same |
| `RemovalEnds` | `Spec => []RemovalStops` | `fx` and `fy` are children |
| `AgentIsSaved` | `Spec => []AgentSurvives` | `TalkP!TalkAssumed`: `None` is neither "loop" nor "server" |
| `CallsArePaired` | `Spec => []CallsPaired` | the same |
| `ScreenStaysSound` | `Spec => []ScreenSound` | `ScreenAssumed`: `MaxInt` is a number, sizes are integers |
| `BatchesAreTheirCalls` | `Spec => []BatchIsItsCalls` | `RoundsAssumed`: rules are blank, broken or say yes, no or error of each call; batches are sequences of calls and not empty |
| `RepeatsAreStopped` | `Spec => []RepeatStopped` | the same |
| `IndexIsFiles` | `Spec => []IndexMatches` | `StoreAssumed`: 0 is no version, a version is a sequence of symbols with names, `None` is no task |

In these modules one component is active and the others rest, so a step of the
whole is a step of a component or leaves its variables alone: `StepsApart`, in
either module. A theorem then needs that the component's `Init` and every
step of its own `Next` keep the invariant, and says as much of the component alone; its
`MaxX` bounds are constants like any other and not fixed by the proof. For
`JsonRpc`, `LspManager` and `Dialogue` the invariant comes from the module of
proofs, instantiated (`RpcP`, `LspP`, `TalkP`): the lemmas `Same...` say that its
actions are those of the instance that runs. The invariants of the others:

* the loop (`LifetimeInv`): a response the loop waits for is in exactly one of the queue,
  the callback's hands, or the signal back (`OnItsWay`), and when the loop does not wait all three are
  empty (`Quiet`); `LoopSound` bounds retries and rounds;
* run tool (`RunInv`): a process runs only while its goroutine waits for it, the last status stands
  once the ticker has been waited for, and a job that is done has no key; a submission on its way is the only one
  and finds a number for its job (`SubmitInv`);
* transport (`PipeInv`): a channel is held by `pending` or by the read loop, never by
  both, and is open as long as one holds it. `SettledOnce` says nothing of the read loop
  between taking an entry out of `pending` and sending; the invariant says that nobody closes
  the channel then;
* file traces (`TraceInv`): beside types and what an operation's step says of its record
  (`OpSound`), `CopyInv`: the main agent's copy lists the rows' files, unless it is `torn` or an
  operation of the main agent's has changed the table and is about to renew it; rows that were
  found as the main agent's are still its rows when they are stored, because a prompt can only bring the main agent back.
  `SeenInv`: what is confirmed of a relative path, unless `foreign`, is the text last shown
  or made of some agent's file there, or an edit is about to confirm anew. Contents may be
  equal, so it cannot say whose; the code, keying `confirmed` by the path alone, does not know either;
* file requests (`FilesInv`): an entry in hand was begun before the time was over, and
  after one has gone late nothing else is begun (`Punctual`);
* screen (`ScreenInv`): the buffer is a grid of its own size, its parser in one of four states with
  integers for parameters, and everything it keeps a place of is inside (`BufferSound`); each
  operation of the buffer keeps that, the one-row excess of a cursor below the region
  (`Steady`) until it has scrolled;
* batches (`RoundsInv`): the judgement kept is what the rules make of the last batch, and a batch
  that ran was not the same as the one before it (`RanApart`). `FirstNotIs` says what a
  rule's first objection means for all calls, `EvaluateIs` and `AloneIs` what the
  merged rules make of a batch and of a call alone; `LoopSeen` relates the rows that
  `detectToolCallLoop` reads to the last two;
* dialogue, the agent (`AgentInv`): whoever has switched the agent in memory and not yet in the
  database holds the lifecycle lock (`Switching`), so that both agree when nobody
  has it; as long as somebody has it, memory names the main agent;
* dialogue, what is stored (`TalkInv`): see "Requests" below;
* index rows (`StoreInv`): a symbol of a file has one row (`RowsUnique`), text and body of every row
  and task came together from one version (`RowRec`, `Tasks`), and as long as nothing
  came between every file is in one of three states (`PathSound`): not yet looked at,
  when its rows and what waits in the queue will match some version or no file
  (`Indexed`) and nothing waits for it; being looked at, when they will match the
  file but for the symbols still to be compared (`Left`); done, when they will match it
  (`Agrees`). A row that the worker is about to write over counts as what it will be;
  `AgreesStored` is the step where it becomes that. With nothing pending and no file to do,
  `Agrees` is `IndexMatches`.

**Requests.** `CallsPaired` speaks of the request of every agent in every state, made of
rows that two goroutines stored, some of them cut off. The proof has two halves.

*What is stored* (`TalkInv`). `HistSound`: every call was made once, under an id
not above the counter; it was answered at most once, and then by the next tool row behind its
own, whatever agent that row belongs to; rows with calls are an agent's, rows with
results are a tool's. This is kept only because of what the loop holds (`LoopSound`): while a
request is on its way no tool row is behind its row (`Flying`), its plan is
what is left of the calls of that row and its results belong to them (`PlanSound`).
The server stores prompts at any moment, but no tool row, so that both stay true (`Follows`);
a crash drops the plan and leaves calls without results, which the invariant allows.

*What is sent*, for any rows of that kind (`RowsSound`; a window of them, or
one agent's share, is again of that kind). The scan that
collects ids ends at the newest summary (`Boundary`), the replay at the newest message that is
pushed there or before (`Oldest`), which may be older when the summary is on a tool row: then calls are sent
that were not scanned, and `CallsScanned` says that no result of theirs is behind the
boundary: a tool row with a result would be behind the summary, and the row with the
summary, a tool row itself, would have been next. So a call has a placeholder or its result and never both
(`AnswersToCall`, `RequestAnswered`). For a set of messages where that holds and where
calls and answers adjoin, `SplitIsPaired` and `SplitLosesNothing` follow the two parts of each
call, and `BlocksOutside` puts no content between a call and its result. Least and greatest
elements (`Max` of a set of row numbers) come from the well-foundedness of `<` (`LeastOf`, `Greatest`).

**Only model-checked:**

* liveness (`UnboundReleased`, `StopEndsTool`, `Answered`, `EndsWhenTold`,
  `TurnSettles`): fairness and ENABLED are out of the prover's reach;
* what the algorithms compute: `EditsExact`, `EditReported`, `SearchMerges`,
  `IgnoredStaysOut`, `MaskRoundTrip`, `AnswerRestored`, `ParsesWhatCame`, `TreeEditDone`. They hold of folds and recursive
  functions over texts, and need induction over data; the inputs of
  `MCAlgorithms` also come with recursive reference definitions, which a module with
  proofs may not reach.

## 6. Not modelled

Components with status `not_modelled` in `PROJECT.json`, each with its reason:

* calls to the outside with one effect: telemetry, the OpenAI-compatible endpoint, fetch and
  online search, the pty, sandboxes and the Python environment;
* sequential code without state between calls: configuration, titles,
  statistics and logs, start-up, scopes, memory and task tools, development programs;
* data and templates: prompts, the mock provider, the installer;
* storage: gorm's models and migrations; the rows that matter are in the
  modules that use them.

In modelled components: wording, formats and HTTP; what regular expressions, SQLite's
FTS5 and vector functions, the file system beyond one directory level
(`FileService`) and a random generator do, which are inputs or choices.
`FileTree` leaves links and unreadable entries aside, `SearchTool` character
classes, `RunService` the output of commands, `JsonRpc` pings and the
stdio transport.

The registry (`SessionLifecycle`) and the loop (`LoopLifetime`) are not composed: the
registry knows of the loop only whether it is at work (`background`). Hazards
without a property, or with one that excepts a case, have a note in `PROJECT.json`; the two
without are stated as properties the code does not keep (`CallbackEnds`, `FramesWhole`).

Smaller simplifications, in modules that are otherwise step by step:

* `AgentLoop`: a retry of a request keeps the tool calls of before, though a response that
  failed may already have saved some (`request.go:1314`, `loop.go:257`); `CancelPending` checks and
  clears the batch in one step (`request.go:644`, `667`); `Announce` registers the permission
  channel together with the announcement (`session.go:533`, `885`).
* `RunService`: the `recover` of a panicking job (`service.go:328`) is left out.
* `Dialogue`: creating an agent's row, the change in memory and its save are one step
  (`activate.go:43-60`); errors of the database in a hand-back (`94-97`) are left out.
* `CodebaseIndex`: that a worker which lives always has a stored cancel function is not claimed.
* `FileService`: `RemovalStops` counts what is removed late among the direct children; the
  removal of the directory itself (`fs.go:105`) and of what is in a directory below is not counted.
* `FileTree`: the random names that operations pass through are free (`files.go:769`).
* `FileTrace`, `IndexStore`: errors of the database are left out, in the latter but for `Fail`.
