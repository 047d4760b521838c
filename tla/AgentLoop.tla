----------------------------- MODULE AgentLoop -----------------------------
(***************************************************************************)
(* The conversation loop of one session (ui/loop, ui/funcs, the approval   *)
(* part of provider/request) with the three kinds of goroutines that share *)
(* session.State with it and take no lock for it: the handlers of          *)
(* session/prompt and session/cancel, and the goroutine that waits for the *)
(* answer to session/request_permission.                                   *)
(*                                                                         *)
(* A check of session.State and the assignment that follows from it are    *)
(* two steps, and so are setting stopped and looking at cancelFunc's       *)
(* effects.  Messages are the rows SendRequest creates, numbered from 1;   *)
(* the tool calls of a message are its batch.  State values that no code   *)
(* tells apart are one: Waiting stands for StateGeneratingPrompt too and   *)
(* Requesting for StateReciving.                                           *)
(***************************************************************************)
EXTENDS Integers, Sequences

CONSTANTS
  Handler,       \* request goroutines
  Kind,          \* what clients send: "prompt", "blank", "init", "summary"
  QueueSize,     \* capacity of sendQueue
  MaxMessages,   \* bound on the rows SendRequest creates: the model ends
  MaxRequests,   \* bound on the requests of one behaviour
  MaxCrashes     \* bound on restarts

ASSUME BoundAssumption ==
  /\ QueueSize \in Nat \ {0}
  /\ MaxMessages \in Nat
  /\ MaxRequests \in Nat
  /\ MaxCrashes \in Nat
ASSUME KindAssumption == Kind \subseteq {"prompt", "blank", "init", "summary"}

VARIABLES
  state,      \* session.State
  saved,      \* the state column of the chat's row
  messages,   \* rows created: the newest has this number
  messageId,  \* session.CurrentMessageID, 0 after a failed approval
  toolMsg,    \* the newest row that has tool calls, 0 for none
  pc,         \* where the loop goroutine is
  sendQueue,  \* the channel of the same name
  stopped,    \* Object.stopped
  responding, \* cancelFunc is set
  cancelled,  \* the context of the current response is cancelled
  perm,       \* the permission goroutine of each batch
  permChan,   \* the batch whose channel obj.permChan is, 0 for nil
  th,         \* the request goroutines
  update,     \* the state of the last state_update the clients got
  executed,   \* history: how often each batch began to run
  granted,    \* history: batches a rule or the user approved
  failed,     \* history: batches whose evaluation, approval or execution was
              \* an error the code only reports
  dropped,    \* history: a blank prompt was dropped since the last "running"
  requests,   \* requests begun so far
  crashes     \* restarts so far

loopVars   == <<pc, stopped, responding, cancelled>>
rowVars    == <<messages, messageId, toolMsg>>
permVars   == <<perm, permChan>>
ledger     == <<executed, granted, failed, dropped>>
bounds     == <<requests, crashes>>
vars == <<state, saved, rowVars, loopVars, sendQueue, permVars, th, update, ledger, bounds>>

Message == 1..MaxMessages
State   == {"Idle", "Waiting", "Requesting", "WaitApprove", "ToolCalling"}
LoopPc  == {"start", "select", "respond", "begin", "build", "request", "wait",
            "announce", "approve", "tools", "run"}
PermPc  == {"none", "asking", "yes", "no", "approve", "refuse", "done"}
ThreadPc == {"idle", "reject", "send", "cancel", "cancelReject"}
NoKind  == "none"
Thread  == [pc : ThreadPc, kind : Kind \cup {NoKind}]
Free    == [pc |-> "idle", kind |-> NoKind]

TypeOK ==
  /\ state \in State /\ saved \in State
  /\ messages \in 0..MaxMessages /\ messageId \in 0..MaxMessages /\ toolMsg \in 0..messages
  /\ pc \in LoopPc
  /\ sendQueue \in Seq(Kind \cup {"approve"}) /\ Len(sendQueue) <= QueueSize
  /\ {stopped, responding, cancelled} \subseteq BOOLEAN
  /\ perm \in [Message -> PermPc] /\ permChan \in 0..MaxMessages
  /\ th \in [Handler -> Thread]
  /\ update \in {"idle", "running", "requires_action"}
  /\ executed \in [Message -> Nat] /\ granted \subseteq Message /\ failed \subseteq Message
  /\ dropped \in BOOLEAN
  /\ requests \in 0..MaxRequests /\ crashes \in 0..MaxCrashes

\* What a process that starts has in memory; the rows are what they were.
Boot ==
  /\ state' = saved
  /\ messageId' = 0
  /\ pc' = "start"
  /\ sendQueue' = <<>>
  /\ stopped' = FALSE /\ responding' = FALSE /\ cancelled' = FALSE
  /\ perm' = [m \in Message |-> "none"] /\ permChan' = 0
  /\ th' = [h \in Handler |-> Free]
  /\ update' = "idle"

Init ==
  /\ state = "Idle" /\ saved = "Idle"
  /\ messages = 0 /\ messageId = 0 /\ toolMsg = 0
  /\ pc = "start"
  /\ sendQueue = <<>>
  /\ stopped = FALSE /\ responding = FALSE /\ cancelled = FALSE
  /\ perm = [m \in Message |-> "none"] /\ permChan = 0
  /\ th = [h \in Handler |-> Free]
  /\ update = "idle"
  /\ executed = [m \in Message |-> 0] /\ granted = {} /\ failed = {} /\ dropped = FALSE
  /\ requests = 0 /\ crashes = 0

SetState(s) == state' = s /\ saved' = s

-----------------------------------------------------------------------------
(* The loop goroutine *)

\* Mutant of Start: the saved state is not looked at.
StartIgnoresState ==
  /\ pc = "start"
  /\ pc' = "select"
  /\ UNCHANGED <<state, saved, rowVars, stopped, responding, cancelled, sendQueue,
                 permVars, th, update, ledger, bounds>>

\* A chat that was saved while it waited for approval is handled first.
Start ==
  /\ pc = "start"
  /\ pc' = IF state = "WaitApprove" THEN "wait" ELSE "select"
  /\ UNCHANGED <<state, saved, rowVars, stopped, responding, cancelled, sendQueue,
                 permVars, th, update, ledger, bounds>>

\* Summary answers with idle at once; a prompt that is blank after TrimSpace is
\* dropped; /init leaves inserting its message, and the rejection of pending
\* tools that goes with it, to the loop.
Receive ==
  /\ pc = "select" /\ sendQueue # <<>>
  /\ sendQueue' = Tail(sendQueue)
  /\ \/ /\ Head(sendQueue) = "approve"
        /\ pc' = "approve"
        /\ UNCHANGED <<state, saved, stopped, update, dropped>>
     \/ /\ Head(sendQueue) = "summary"
        /\ update' = "idle"
        /\ UNCHANGED <<state, saved, stopped, pc, dropped>>
     \/ /\ Head(sendQueue) = "blank"
        /\ stopped' = FALSE
        /\ dropped' = TRUE
        /\ UNCHANGED <<state, saved, pc, update>>
     \/ /\ Head(sendQueue) = "prompt"
        /\ stopped' = FALSE
        /\ pc' = "respond"
        /\ UNCHANGED <<state, saved, update, dropped>>
     \/ /\ Head(sendQueue) = "init"
        /\ stopped' = FALSE
        /\ pc' = "respond"
        /\ IF state = "WaitApprove" THEN SetState("Idle") ELSE UNCHANGED <<state, saved>>
        /\ UNCHANGED <<update, dropped>>
  /\ UNCHANGED <<rowVars, responding, cancelled, permVars, th, executed, granted, failed,
                 bounds>>

\* Mutant of Respond: a stopped loop reports nothing.
RespondSilently ==
  /\ pc = "respond"
  /\ pc' = IF stopped THEN "select" ELSE "begin"
  /\ UNCHANGED <<state, saved, rowVars, stopped, responding, cancelled, sendQueue,
                 permVars, th, update, ledger, bounds>>

\* The head of runResponseLoop.
Respond ==
  /\ pc = "respond"
  /\ \/ stopped /\ update' = "idle" /\ pc' = "select"
     \/ ~stopped /\ pc' = "begin" /\ UNCHANGED update
  /\ UNCHANGED <<state, saved, rowVars, stopped, responding, cancelled, sendQueue,
                 permVars, th, ledger, bounds>>

BeginRequest ==
  /\ pc = "begin"
  /\ responding' = TRUE /\ cancelled' = FALSE
  /\ state' = "Waiting"
  /\ pc' = "build"
  /\ UNCHANGED <<saved, rowVars, stopped, sendQueue, permVars, th, update, ledger, bounds>>

\* The end of a turn: cancelFunc is dropped and the callback reports idle.
EndTurn == responding' = FALSE /\ update' = "idle" /\ pc' = "select"

\* Building fails before or after the row is made, or the request goes out.
Build ==
  /\ pc = "build"
  /\ \/ EndTurn /\ UNCHANGED <<state, messages, messageId>>
     \/ /\ messages < MaxMessages
        /\ messages' = messages + 1 /\ messageId' = messages + 1
        /\ \/ EndTurn /\ state' = "Waiting"
           \/ state' = "Requesting" /\ pc' = "request" /\ UNCHANGED <<responding, update>>
  /\ UNCHANGED <<saved, toolMsg, stopped, cancelled, sendQueue, permVars, th, ledger, bounds>>

\* The response ends the turn (an answer, a cancellation, an error; its tool
\* calls may have been saved), is retried, asks for another round, or has tool
\* calls to approve; only then is session.State assigned.
EndRequest ==
  /\ pc = "request"
  /\ \/ /\ EndTurn
        /\ UNCHANGED <<state, saved, toolMsg>>
     \/ /\ EndTurn
        /\ toolMsg' = messages
        /\ UNCHANGED <<state, saved>>
     \/ /\ ~cancelled
        /\ state' = "Waiting"
        /\ pc' = "build"
        /\ UNCHANGED <<saved, toolMsg, responding, update>>
     \/ /\ responding' = FALSE
        /\ pc' = "respond"
        /\ UNCHANGED <<state, saved, toolMsg, update>>
     \/ /\ toolMsg' = messages
        /\ SetState("WaitApprove")
        /\ responding' = FALSE
        /\ pc' = "wait"
        /\ UNCHANGED update
  /\ UNCHANGED <<messages, messageId, stopped, cancelled, sendQueue, permVars, th,
                 ledger, bounds>>

\* handleWaitApprove: the rules approve the batch, reject it, leave it to the
\* user or fail.  Somebody may have rejected it since it was saved.
HandleWaitApprove ==
  /\ pc = "wait"
  /\ \/ /\ state # "WaitApprove" \/ toolMsg = 0
        /\ update' = "idle" /\ pc' = "select"
        /\ UNCHANGED <<state, saved, messageId, granted, failed>>
     \/ /\ state = "WaitApprove" /\ toolMsg # 0
        /\ messageId' = toolMsg
        /\ \/ /\ granted' = granted \cup {toolMsg}
              /\ pc' = "tools"
              /\ UNCHANGED <<state, saved, update, failed>>
           \/ /\ SetState("Idle")
              /\ pc' = "respond"
              /\ UNCHANGED <<update, granted, failed>>
           \/ /\ pc' = "announce"
              /\ UNCHANGED <<state, saved, update, granted, failed>>
           \/ /\ failed' = failed \cup {toolMsg}
              /\ update' = "idle" /\ pc' = "select"
              /\ UNCHANGED <<state, saved, granted>>
  /\ UNCHANGED <<messages, toolMsg, stopped, responding, cancelled, sendQueue, permVars,
                 th, executed, dropped, bounds>>

\* The callback of a pending batch starts the permission goroutine.
Announce ==
  /\ pc = "announce"
  /\ update' = "requires_action"
  /\ perm' = [perm EXCEPT ![toolMsg] = "asking"]
  /\ permChan' = toolMsg
  /\ pc' = "select"
  /\ UNCHANGED <<state, saved, rowVars, stopped, responding, cancelled, sendQueue, th,
                 ledger, bounds>>

\* ApproveToolCalls takes the newest batch, which may be one that is refused as
\* a whole; whatever it returns, the response loop runs next.
ApproveToolCalls ==
  /\ pc = "approve"
  /\ \/ /\ state # "WaitApprove" \/ toolMsg = 0
        /\ messageId' = 0 /\ pc' = "respond"
        /\ UNCHANGED <<update, failed>>
     \/ /\ state = "WaitApprove" /\ toolMsg # 0
        /\ messageId' = toolMsg
        /\ \/ pc' = "tools" /\ UNCHANGED <<update, failed>>
           \/ pc' = "respond" /\ update' = "idle" /\ failed' = failed \cup {toolMsg}
  /\ UNCHANGED <<state, saved, messages, toolMsg, stopped, responding, cancelled,
                 sendQueue, permVars, th, executed, granted, dropped,
                 bounds>>

\* Mutant of ExecuteToolCalls: the state is only set in memory.
ExecuteToolCallsUnsaved ==
  /\ pc = "tools"
  /\ \/ /\ SetState("Idle")
        /\ pc' = "respond"
        /\ UNCHANGED executed
     \/ /\ state' = "ToolCalling"
        /\ executed' = [executed EXCEPT ![toolMsg] = @ + 1]
        /\ pc' = "run"
        /\ UNCHANGED saved
  /\ UNCHANGED <<rowVars, stopped, responding, cancelled, sendQueue, permVars, th, update,
                 granted, failed, dropped, bounds>>

\* ExecuteToolCalls: a batch that repeats itself is answered with a warning and
\* not run; the state is saved before the first tool runs.
ExecuteToolCalls ==
  /\ pc = "tools"
  /\ \/ /\ SetState("Idle")
        /\ pc' = "respond"
        /\ UNCHANGED executed
     \/ /\ SetState("ToolCalling")
        /\ executed' = [executed EXCEPT ![toolMsg] = @ + 1]
        /\ pc' = "run"
  /\ UNCHANGED <<rowVars, stopped, responding, cancelled, sendQueue, permVars, th, update,
                 granted, failed, dropped, bounds>>

\* A tool that returns an error is reported; after a manual approval the
\* response loop runs all the same.
ToolsDone ==
  /\ pc = "run"
  /\ SetState("Idle")
  /\ \/ pc' = "respond" /\ UNCHANGED update
     \/ pc' \in {"respond", "select"} /\ update' = "idle"
  /\ UNCHANGED <<rowVars, stopped, responding, cancelled, sendQueue, permVars, th, ledger,
                 bounds>>

-----------------------------------------------------------------------------
(* The permission goroutine of batch b *)

\* The first answer of a client: allow_once or anything else.
ClientAnswers(b) ==
  /\ perm[b] = "asking"
  /\ \E answer \in {"yes", "no"} : perm' = [perm EXCEPT ![b] = answer]
  /\ UNCHANGED <<state, saved, rowVars, loopVars, sendQueue, permChan, th, update, ledger,
                 bounds>>

\* requestPermission returns; the answer counts only while b is what waits.
PermissionGuard(b) ==
  /\ perm[b] \in {"yes", "no"}
  /\ permChan' = 0
  /\ \/ /\ state = "WaitApprove" /\ messageId = b
        /\ \/ /\ perm[b] = "yes"
              /\ perm' = [perm EXCEPT ![b] = "approve"]
              /\ granted' = granted \cup {b}
           \/ /\ perm[b] = "no"
              /\ perm' = [perm EXCEPT ![b] = "refuse"]
              /\ UNCHANGED granted
     \/ /\ ~(state = "WaitApprove" /\ messageId = b)
        /\ perm' = [perm EXCEPT ![b] = "done"]
        /\ UNCHANGED granted
  /\ UNCHANGED <<state, saved, rowVars, loopVars, sendQueue, th, update, executed, failed,
                 dropped, bounds>>

\* That the queue was full is only logged.
PermissionApprove(b) ==
  /\ perm[b] = "approve"
  /\ update' = "running"
  /\ \/ /\ Len(sendQueue) < QueueSize
        /\ sendQueue' = Append(sendQueue, "approve")
        /\ UNCHANGED failed
     \/ /\ Len(sendQueue) = QueueSize
        /\ failed' = failed \cup {b}
        /\ UNCHANGED sendQueue
  /\ perm' = [perm EXCEPT ![b] = "done"]
  /\ UNCHANGED <<state, saved, rowVars, loopVars, permChan, th, executed, granted, dropped,
                 bounds>>

PermissionRefuse(b) ==
  /\ perm[b] = "refuse"
  /\ update' = "idle"
  /\ IF state = "WaitApprove" THEN SetState("Idle") ELSE UNCHANGED <<state, saved>>
  /\ perm' = [perm EXCEPT ![b] = "done"]
  /\ UNCHANGED <<rowVars, loopVars, sendQueue, permChan, th, ledger, bounds>>

-----------------------------------------------------------------------------
(* Requests *)

Begin(h, next) ==
  /\ th[h].pc = "idle"
  /\ requests < MaxRequests
  /\ requests' = requests + 1
  /\ th' = [th EXCEPT ![h] = next]

\* A prompt that finds tools waiting for approval rejects them first; commands
\* go straight to the queue.
SessionPrompt(h, kind) ==
  /\ Begin(h, [pc |-> IF kind \in {"prompt", "blank"} /\ state = "WaitApprove"
                      THEN "reject" ELSE "send", kind |-> kind])
  /\ UNCHANGED <<state, saved, rowVars, loopVars, sendQueue, permVars, update, ledger, crashes>>

RejectPending(h) ==
  /\ th[h].pc = "reject"
  /\ SetState("Idle")
  /\ th' = [th EXCEPT ![h].pc = "send"]
  /\ UNCHANGED <<rowVars, loopVars, sendQueue, permVars, update, ledger, bounds>>

\* running is reported, then the message is queued or refused.
Chat(h) ==
  /\ th[h].pc = "send"
  /\ \/ /\ Len(sendQueue) < QueueSize
        /\ sendQueue' = Append(sendQueue, th[h].kind)
        /\ update' = "running" /\ dropped' = FALSE
     \/ /\ Len(sendQueue) = QueueSize
        /\ update' = "idle"
        /\ UNCHANGED <<sendQueue, dropped>>
  /\ th' = [th EXCEPT ![h] = Free]
  /\ UNCHANGED <<state, saved, rowVars, loopVars, permVars, executed, granted, failed, bounds>>

\* session/cancel: Stop, then the check for tools that wait for approval.
Stop(h) ==
  /\ Begin(h, [pc |-> "cancel", kind |-> NoKind])
  /\ stopped' = TRUE
  /\ cancelled' = (cancelled \/ responding)
  /\ UNCHANGED <<state, saved, rowVars, pc, responding, sendQueue, permVars, update, ledger,
                 crashes>>

SessionCancel(h) ==
  /\ th[h].pc = "cancel"
  /\ th' = [th EXCEPT ![h] = IF state = "WaitApprove"
                             THEN [@ EXCEPT !.pc = "cancelReject"] ELSE Free]
  /\ UNCHANGED <<state, saved, rowVars, loopVars, sendQueue, permVars, update, ledger, bounds>>

\* The rejection, and signalPermission(false).
CancelPending(h) ==
  /\ th[h].pc = "cancelReject"
  /\ IF state = "WaitApprove" THEN SetState("Idle") ELSE UNCHANGED <<state, saved>>
  /\ perm' = [b \in Message |-> IF b = permChan /\ perm[b] = "asking" THEN "no" ELSE perm[b]]
  /\ th' = [th EXCEPT ![h] = Free]
  /\ UNCHANGED <<rowVars, loopVars, sendQueue, permChan, update, ledger, bounds>>

\* The process ends and is started again; the chat is loaded from its row.
Crash ==
  /\ crashes < MaxCrashes
  /\ crashes' = crashes + 1
  /\ Boot
  /\ UNCHANGED <<saved, messages, toolMsg, ledger, requests>>

-----------------------------------------------------------------------------
Loop ==
  \/ Start \/ Receive \/ Respond \/ BeginRequest \/ Build \/ EndRequest
  \/ HandleWaitApprove \/ Announce \/ ApproveToolCalls \/ ExecuteToolCalls \/ ToolsDone

Permission(b) == PermissionGuard(b) \/ PermissionApprove(b) \/ PermissionRefuse(b)

Continue(h) == RejectPending(h) \/ Chat(h) \/ SessionCancel(h) \/ CancelPending(h)

Next ==
  \/ Loop
  \/ \E b \in Message : ClientAnswers(b) \/ Permission(b)
  \/ \E h \in Handler : \/ \E kind \in Kind : SessionPrompt(h, kind)
                        \/ Stop(h) \/ Continue(h)
  \/ Crash

\* Goroutines are scheduled and the model's response ends, with an answer or an
\* error; nothing makes a client answer or send a request.
Fairness ==
  /\ WF_vars(Loop)
  /\ \A b \in Message : WF_vars(Permission(b))
  /\ \A h \in Handler : WF_vars(Continue(h))

Spec == Init /\ [][Next]_vars /\ Fairness

-----------------------------------------------------------------------------
(* Properties *)

\* The tools of one response run at most once, whatever approvals, rejections,
\* cancellations and restarts come together (ExecuteToolCalls saves the state
\* before it runs them, ApproveToolCalls and the restart read it).
ExecutedOnce == \A m \in Message : executed[m] <= 1

\* The loop has nothing to do and nobody is about to give it work.
Parked ==
  /\ pc = "select" /\ sendQueue = <<>>
  /\ \A h \in Handler : th[h].pc = "idle"
  /\ \A m \in Message : perm[m] \notin {"yes", "no", "approve", "refuse"}

\* A session at rest in WaitApprove has asked its clients about the batch that
\* waits and still listens for the answer, after a restart too, unless an error
\* ended the handling of the batch (handleWaitApprove, requestPermission).
WaitingIsAsked ==
  Parked /\ state = "WaitApprove" =>
    \/ perm[toolMsg] = "asking" /\ messageId = toolMsg
    \/ toolMsg \in failed

\* Clients that were told "running" are told when the turn ends, by idle or by
\* requires_action, unless the prompt was blank (runResponseLoop and the
\* permission goroutine, under the fairness of Spec).
TurnSettles == update = "running" ~> update # "running" \/ dropped

\* "All clients learn of the beginning and the end of a turn by running and
\* idle": the same for every prompt that was accepted.
EveryTurnSettles == update = "running" ~> update # "running"

\* "The session must still wait and its pending message must not have been
\* replaced": a batch that runs was approved itself, by a rule or by the user.
RunsOnlyApproved == \A m \in Message : executed[m] > 0 => m \in granted

\* "Released only when the loop is idle or waits for approval": a parked loop
\* is not in a state that the delayed release takes for work.
ParkedNotActive == Parked => state \notin {"Requesting", "ToolCalling"}
=============================================================================
