-------------------------- MODULE AgentLoop_proofs --------------------------
(***************************************************************************)
(* The conversation loop runs the tools of a response at most once, and at *)
(* rest it has asked its clients about the batch that waits, for any       *)
(* number of request goroutines, messages, requests and restarts, and any  *)
(* length of the queue.                                                    *)
(***************************************************************************)
EXTENDS AgentLoop, SequenceTheorems, TLAPS

\* A batch that may still be run has not been: ExecuteToolCalls saves a state that forbids
\* it before the first tool runs, and a row that answers has no tool calls yet.
ExecInv ==
  /\ \A m \in Message : executed[m] <= 1
  /\ \A m \in Message : m > toolMsg => executed[m] = 0
  /\ pc = "tools" \/ state = "WaitApprove" \/ saved = "WaitApprove" =>
       toolMsg # 0 /\ executed[toolMsg] = 0
  /\ pc = "request" => toolMsg < messages

Queued(c) == \E i \in 1..Len(sendQueue) : sendQueue[i] = c

\* The batch that waits is with the clients, with the permission goroutine or in the queue,
\* or an error has been reported; while a request is made or tools run nothing waits.
AskInv ==
  /\ state = "WaitApprove" /\ pc \in {"select", "respond", "begin"} =>
       \/ toolMsg \in failed
       \/ Queued("approve")
       \/ perm[toolMsg] \in {"approve", "refuse"}
       \/ perm[toolMsg] \in {"asking", "yes", "no"} /\ messageId = toolMsg
  /\ pc = "announce" /\ state = "WaitApprove" => messageId = toolMsg
  /\ pc \in {"build", "request", "run"} => state # "WaitApprove"

\* What a handler is about to send is something a client sent.
SendInv == \A h \in Handler : th[h].pc \in {"reject", "send"} => th[h].kind \in Kind

LoopInv == TypeOK /\ ExecInv /\ AskInv /\ SendInv

\* TypeOK in parts, each of them what some of the steps leave alone.
StateTypes  == state \in State /\ saved \in State
RowTypes    == messages \in 0..MaxMessages /\ messageId \in 0..MaxMessages /\ toolMsg \in 0..messages
LoopTypes   == /\ pc \in LoopPc /\ update \in {"idle", "running", "requires_action"}
               /\ stopped \in BOOLEAN /\ responding \in BOOLEAN /\ cancelled \in BOOLEAN
QueueTypes  == sendQueue \in Seq(Kind \cup {"approve"}) /\ Len(sendQueue) <= QueueSize
PermTypes   == perm \in [Message -> PermPc] /\ permChan \in 0..MaxMessages
ThreadTypes == th \in [Handler -> Thread]
LedgerTypes == /\ executed \in [Message -> Nat] /\ granted \subseteq Message
               /\ failed \subseteq Message /\ dropped \in BOOLEAN
BoundTypes  == requests \in 0..MaxRequests /\ crashes \in 0..MaxCrashes

-----------------------------------------------------------------------------
(* The queue *)

\* What Receive leaves in the queue was there, and only the head is gone.
LEMMA QueueTaken ==
  ASSUME TypeOK, sendQueue # <<>>, sendQueue' = Tail(sendQueue)
  PROVE  /\ sendQueue' \in Seq(Kind \cup {"approve"}) /\ Len(sendQueue') <= QueueSize
         /\ Queued("approve") => Head(sendQueue) = "approve" \/ Queued("approve")'
  <1>1. sendQueue \in Seq(Kind \cup {"approve"}) /\ Len(sendQueue) <= QueueSize
    BY DEF TypeOK
  <1>2. Len(sendQueue) \in Nat \ {0} /\ Head(sendQueue) = sendQueue[1]
    BY <1>1, EmptySeq, LenProperties
  <1>3. /\ sendQueue' \in Seq(Kind \cup {"approve"}) /\ Len(sendQueue') = Len(sendQueue) - 1
        /\ \A i \in 1..Len(sendQueue') : sendQueue'[i] = sendQueue[i + 1]
    BY <1>1, HeadTailProperties
  <1>4. ASSUME NEW i \in 1..Len(sendQueue), sendQueue[i] = "approve", i # 1
        PROVE  Queued("approve")'
    <2>1. i - 1 \in 1..Len(sendQueue') /\ (i - 1) + 1 = i
      BY <1>2, <1>3, <1>4
    <2>2. sendQueue'[i - 1] = "approve"
      BY <1>3, <1>4, <2>1
    <2> QED
      BY <2>1, <2>2 DEF Queued
  <1>5. Queued("approve") => Head(sendQueue) = "approve" \/ Queued("approve")'
    BY <1>2, <1>4 DEF Queued
  <1>6. Len(sendQueue') <= QueueSize
    BY <1>1, <1>2, <1>3, BoundAssumption
  <1> QED
    BY <1>3, <1>5, <1>6

\* A message that finds room is queued behind the others.
LEMMA QueueGrows ==
  ASSUME TypeOK, NEW c \in Kind \cup {"approve"}, Len(sendQueue) < QueueSize,
         sendQueue' = Append(sendQueue, c)
  PROVE  /\ sendQueue' \in Seq(Kind \cup {"approve"}) /\ Len(sendQueue') <= QueueSize
         /\ Queued("approve") => Queued("approve")'
         /\ Queued(c)'
  <1>1. sendQueue \in Seq(Kind \cup {"approve"})
    BY DEF TypeOK
  <1>2. /\ sendQueue' \in Seq(Kind \cup {"approve"}) /\ Len(sendQueue') = Len(sendQueue) + 1
        /\ \A i \in 1..Len(sendQueue) : sendQueue'[i] = sendQueue[i]
        /\ sendQueue'[Len(sendQueue) + 1] = c /\ Len(sendQueue) \in Nat
    BY <1>1, AppendProperties, LenProperties
  <1>3. Len(sendQueue') <= QueueSize
    BY <1>2, BoundAssumption
  <1>4. 1..Len(sendQueue) \subseteq 1..Len(sendQueue')
    BY <1>2
  <1>5. Queued("approve") => Queued("approve")'
    BY <1>2, <1>4 DEF Queued
  <1>6. Len(sendQueue') \in 1..Len(sendQueue')
    BY <1>2
  <1>7. Queued(c)'
    BY <1>2, <1>6 DEF Queued
  <1> QED
    BY <1>2, <1>3, <1>5, <1>7

-----------------------------------------------------------------------------
LEMMA TypeParts ==
  /\ TypeOK <=> /\ StateTypes /\ RowTypes /\ LoopTypes /\ QueueTypes /\ PermTypes
                /\ ThreadTypes /\ LedgerTypes /\ BoundTypes
  /\ TypeOK' <=> /\ StateTypes' /\ RowTypes' /\ LoopTypes' /\ QueueTypes' /\ PermTypes'
                 /\ ThreadTypes' /\ LedgerTypes' /\ BoundTypes'
  BY DEF TypeOK, StateTypes, RowTypes, LoopTypes, QueueTypes, PermTypes, ThreadTypes, LedgerTypes,
         BoundTypes

\* A batch is a row.
LEMMA BatchIsRow ==
  ASSUME TypeOK PROVE toolMsg \in 0..MaxMessages /\ (toolMsg # 0 => toolMsg \in Message)
  BY BoundAssumption DEF TypeOK, Message

LEMMA InitLoop == Init => LoopInv
  <1> SUFFICES ASSUME Init PROVE LoopInv
    OBVIOUS
  <1>1. StateTypes /\ LoopTypes
    BY DEF Init, StateTypes, LoopTypes, State, LoopPc
  <1>2. RowTypes
    BY BoundAssumption DEF Init, RowTypes
  <1>3. QueueTypes
    BY BoundAssumption, EmptySeq DEF Init, QueueTypes
  <1>4. PermTypes /\ ThreadTypes
    BY BoundAssumption DEF Init, PermTypes, ThreadTypes, PermPc, Thread, Free, ThreadPc, NoKind
  <1>5. BoundTypes
    BY BoundAssumption DEF Init, BoundTypes
  <1>6. executed \in [Message -> Nat] /\ granted = {} /\ failed = {} /\ dropped = FALSE
    BY DEF Init
  <1>7. LedgerTypes
    BY <1>6 DEF LedgerTypes
  <1>8. TypeOK
    BY <1>1, <1>3, <1>4, <1>5, <1>2, <1>7, TypeParts
  <1>9. ExecInv /\ AskInv /\ SendInv
    BY DEF Init, ExecInv, AskInv, SendInv, Free
  <1> QED
    BY <1>8, <1>9 DEF LoopInv

(* The loop goroutine *)

LEMMA StartStep == ASSUME LoopInv, Start PROVE LoopInv'
  <1> USE DEF Start, rowVars, permVars, ledger, bounds
  <1>1. /\ StateTypes /\ RowTypes /\ LoopTypes /\ QueueTypes /\ PermTypes /\ ThreadTypes
        /\ LedgerTypes /\ BoundTypes
        /\ toolMsg \in 0..MaxMessages /\ (toolMsg # 0 => toolMsg \in Message)
    BY TypeParts, BatchIsRow DEF LoopInv
  <1>2. LoopTypes'
    BY <1>1 DEF LoopTypes, LoopPc
  <1>3. /\ StateTypes' /\ RowTypes' /\ QueueTypes' /\ PermTypes'
        /\ ThreadTypes' /\ LedgerTypes' /\ BoundTypes'
    BY <1>1 DEF StateTypes, RowTypes, QueueTypes, PermTypes, ThreadTypes, LedgerTypes,
       BoundTypes
  <1>4. TypeOK'
    BY <1>2, <1>3, TypeParts
  <1>5. ExecInv'
    BY BoundAssumption DEF LoopInv, TypeOK, ExecInv, Message
  <1>6. AskInv'
    BY BoundAssumption DEF LoopInv, TypeOK, ExecInv, AskInv, Queued, Message
  <1>7. SendInv'
    BY DEF LoopInv, TypeOK, SendInv
  <1> QED
    BY <1>4, <1>5, <1>6, <1>7 DEF LoopInv

LEMMA ReceiveStep == ASSUME LoopInv, Receive PROVE LoopInv'
  <1> USE DEF Receive, SetState, rowVars, permVars, bounds
  <1>1. /\ StateTypes /\ RowTypes /\ LoopTypes /\ QueueTypes /\ PermTypes /\ ThreadTypes
        /\ LedgerTypes /\ BoundTypes
        /\ toolMsg \in 0..MaxMessages /\ (toolMsg # 0 => toolMsg \in Message)
    BY TypeParts, BatchIsRow DEF LoopInv
  <1>2. /\ sendQueue' \in Seq(Kind \cup {"approve"}) /\ Len(sendQueue') <= QueueSize
        /\ Queued("approve") => Head(sendQueue) = "approve" \/ Queued("approve")'
    BY QueueTaken DEF LoopInv
  <1>3. StateTypes'
    BY <1>1 DEF StateTypes, State
  <1>4. LoopTypes'
    BY <1>1 DEF LoopTypes, LoopPc
  <1>5. QueueTypes'
    BY <1>1, <1>2 DEF QueueTypes
  <1>6. LedgerTypes'
    BY <1>1 DEF LedgerTypes, LoopInv, ExecInv
  <1>7. RowTypes' /\ PermTypes' /\ ThreadTypes' /\ BoundTypes'
    BY <1>1 DEF RowTypes, PermTypes, ThreadTypes, BoundTypes
  <1>8. TypeOK'
    BY <1>3, <1>4, <1>5, <1>6, <1>7, TypeParts
  <1>9. ExecInv'
    BY BoundAssumption DEF LoopInv, TypeOK, ExecInv, Message
  <1>10. AskInv'
    BY <1>2, BoundAssumption DEF LoopInv, TypeOK, ExecInv, AskInv, Message
  <1>11. SendInv'
    BY DEF LoopInv, TypeOK, SendInv
  <1> QED
    BY <1>8, <1>9, <1>10, <1>11 DEF LoopInv

LEMMA RespondStep == ASSUME LoopInv, Respond PROVE LoopInv'
  <1> USE DEF Respond, rowVars, permVars, ledger, bounds
  <1>1. /\ StateTypes /\ RowTypes /\ LoopTypes /\ QueueTypes /\ PermTypes /\ ThreadTypes
        /\ LedgerTypes /\ BoundTypes
        /\ toolMsg \in 0..MaxMessages /\ (toolMsg # 0 => toolMsg \in Message)
    BY TypeParts, BatchIsRow DEF LoopInv
  <1>2. LoopTypes'
    BY <1>1 DEF LoopTypes, LoopPc
  <1>3. /\ StateTypes' /\ RowTypes' /\ QueueTypes' /\ PermTypes'
        /\ ThreadTypes' /\ LedgerTypes' /\ BoundTypes'
    BY <1>1 DEF StateTypes, RowTypes, QueueTypes, PermTypes, ThreadTypes, LedgerTypes,
       BoundTypes
  <1>4. TypeOK'
    BY <1>2, <1>3, TypeParts
  <1>5. ExecInv'
    BY BoundAssumption DEF LoopInv, TypeOK, ExecInv, Message
  <1>6. AskInv'
    BY BoundAssumption DEF LoopInv, TypeOK, ExecInv, AskInv, Queued, Message
  <1>7. SendInv'
    BY DEF LoopInv, TypeOK, SendInv
  <1> QED
    BY <1>4, <1>5, <1>6, <1>7 DEF LoopInv

LEMMA BeginRequestStep == ASSUME LoopInv, BeginRequest PROVE LoopInv'
  <1> USE DEF BeginRequest, rowVars, permVars, ledger, bounds
  <1>1. /\ StateTypes /\ RowTypes /\ LoopTypes /\ QueueTypes /\ PermTypes /\ ThreadTypes
        /\ LedgerTypes /\ BoundTypes
        /\ toolMsg \in 0..MaxMessages /\ (toolMsg # 0 => toolMsg \in Message)
    BY TypeParts, BatchIsRow DEF LoopInv
  <1>2. StateTypes'
    BY <1>1 DEF StateTypes, State
  <1>3. LoopTypes'
    BY <1>1 DEF LoopTypes, LoopPc
  <1>4. RowTypes' /\ QueueTypes' /\ PermTypes' /\ ThreadTypes' /\ LedgerTypes' /\ BoundTypes'
    BY <1>1 DEF RowTypes, QueueTypes, PermTypes, ThreadTypes, LedgerTypes, BoundTypes
  <1>5. TypeOK'
    BY <1>2, <1>3, <1>4, TypeParts
  <1>6. ExecInv'
    BY BoundAssumption DEF LoopInv, TypeOK, ExecInv, Message
  <1>7. AskInv'
    BY BoundAssumption DEF LoopInv, TypeOK, ExecInv, AskInv, Queued, Message
  <1>8. SendInv'
    BY DEF LoopInv, TypeOK, SendInv
  <1> QED
    BY <1>5, <1>6, <1>7, <1>8 DEF LoopInv

LEMMA BuildStep == ASSUME LoopInv, Build PROVE LoopInv'
  <1> USE DEF Build, EndTurn, permVars, ledger, bounds
  <1>1. /\ StateTypes /\ RowTypes /\ LoopTypes /\ QueueTypes /\ PermTypes /\ ThreadTypes
        /\ LedgerTypes /\ BoundTypes
        /\ toolMsg \in 0..MaxMessages /\ (toolMsg # 0 => toolMsg \in Message)
    BY TypeParts, BatchIsRow DEF LoopInv
  <1>2. StateTypes'
    BY <1>1 DEF StateTypes, State
  <1>3. RowTypes'
    BY <1>1, BoundAssumption DEF RowTypes, LoopInv, ExecInv
  <1>4. LoopTypes'
    BY <1>1 DEF LoopTypes, LoopPc
  <1>5. QueueTypes' /\ PermTypes' /\ ThreadTypes' /\ LedgerTypes' /\ BoundTypes'
    BY <1>1 DEF QueueTypes, PermTypes, ThreadTypes, LedgerTypes, BoundTypes
  <1>6. TypeOK'
    BY <1>2, <1>3, <1>4, <1>5, TypeParts
  <1>7. ExecInv'
    BY BoundAssumption DEF LoopInv, TypeOK, ExecInv, Message
  <1>8. AskInv'
    BY BoundAssumption DEF LoopInv, TypeOK, ExecInv, AskInv, Queued, Message
  <1>9. SendInv'
    BY DEF LoopInv, TypeOK, SendInv
  <1> QED
    BY <1>6, <1>7, <1>8, <1>9 DEF LoopInv

LEMMA EndRequestStep == ASSUME LoopInv, EndRequest PROVE LoopInv'
  <1> USE DEF EndRequest, EndTurn, SetState, permVars, ledger, bounds
  <1>1. /\ StateTypes /\ RowTypes /\ LoopTypes /\ QueueTypes /\ PermTypes /\ ThreadTypes
        /\ LedgerTypes /\ BoundTypes
        /\ toolMsg \in 0..MaxMessages /\ (toolMsg # 0 => toolMsg \in Message)
    BY TypeParts, BatchIsRow DEF LoopInv
  <1>2. StateTypes'
    BY <1>1 DEF StateTypes, State
  <1>3. RowTypes'
    BY <1>1, BoundAssumption DEF RowTypes, LoopInv, ExecInv
  <1>4. LoopTypes'
    BY <1>1 DEF LoopTypes, LoopPc
  <1>5. QueueTypes' /\ PermTypes' /\ ThreadTypes' /\ LedgerTypes' /\ BoundTypes'
    BY <1>1 DEF QueueTypes, PermTypes, ThreadTypes, LedgerTypes, BoundTypes
  <1>6. TypeOK'
    BY <1>2, <1>3, <1>4, <1>5, TypeParts
  <1>7. ExecInv'
    BY BoundAssumption DEF LoopInv, TypeOK, ExecInv, Message
  <1>8. AskInv'
    BY BoundAssumption DEF LoopInv, TypeOK, ExecInv, AskInv, Queued, Message
  <1>9. SendInv'
    BY DEF LoopInv, TypeOK, SendInv
  <1> QED
    BY <1>6, <1>7, <1>8, <1>9 DEF LoopInv

LEMMA HandleWaitApproveStep == ASSUME LoopInv, HandleWaitApprove PROVE LoopInv'
  <1> USE DEF HandleWaitApprove, SetState, permVars, bounds
  <1>1. /\ StateTypes /\ RowTypes /\ LoopTypes /\ QueueTypes /\ PermTypes /\ ThreadTypes
        /\ LedgerTypes /\ BoundTypes
        /\ toolMsg \in 0..MaxMessages /\ (toolMsg # 0 => toolMsg \in Message)
    BY TypeParts, BatchIsRow DEF LoopInv
  <1>2. StateTypes'
    BY <1>1 DEF StateTypes, State
  <1>3. RowTypes'
    BY <1>1, BoundAssumption DEF RowTypes, LoopInv, ExecInv
  <1>4. LoopTypes'
    BY <1>1 DEF LoopTypes, LoopPc
  <1>5. LedgerTypes'
    BY <1>1 DEF LedgerTypes, LoopInv, ExecInv
  <1>6. QueueTypes' /\ PermTypes' /\ ThreadTypes' /\ BoundTypes'
    BY <1>1 DEF QueueTypes, PermTypes, ThreadTypes, BoundTypes
  <1>7. TypeOK'
    BY <1>2, <1>3, <1>4, <1>5, <1>6, TypeParts
  <1>8. ExecInv'
    BY BoundAssumption DEF LoopInv, TypeOK, ExecInv, Message
  <1>9. AskInv'
    BY BoundAssumption DEF LoopInv, TypeOK, ExecInv, AskInv, Queued, Message
  <1>10. SendInv'
    BY DEF LoopInv, TypeOK, SendInv
  <1> QED
    BY <1>7, <1>8, <1>9, <1>10 DEF LoopInv

LEMMA AnnounceStep == ASSUME LoopInv, Announce PROVE LoopInv'
  <1> USE DEF Announce, rowVars, ledger, bounds
  <1>1. /\ StateTypes /\ RowTypes /\ LoopTypes /\ QueueTypes /\ PermTypes /\ ThreadTypes
        /\ LedgerTypes /\ BoundTypes
        /\ toolMsg \in 0..MaxMessages /\ (toolMsg # 0 => toolMsg \in Message)
    BY TypeParts, BatchIsRow DEF LoopInv
  <1>2. LoopTypes'
    BY <1>1 DEF LoopTypes, LoopPc
  <1>3. PermTypes'
    BY <1>1 DEF PermTypes, PermPc
  <1>4. StateTypes' /\ RowTypes' /\ QueueTypes' /\ ThreadTypes' /\ LedgerTypes' /\ BoundTypes'
    BY <1>1 DEF StateTypes, RowTypes, QueueTypes, ThreadTypes, LedgerTypes, BoundTypes
  <1>5. TypeOK'
    BY <1>2, <1>3, <1>4, TypeParts
  <1>6. ExecInv'
    BY BoundAssumption DEF LoopInv, TypeOK, ExecInv, Message
  <1>7. AskInv'
    BY BoundAssumption DEF LoopInv, TypeOK, ExecInv, AskInv, Queued, Message
  <1>8. SendInv'
    BY DEF LoopInv, TypeOK, SendInv
  <1> QED
    BY <1>5, <1>6, <1>7, <1>8 DEF LoopInv

LEMMA ApproveToolCallsStep == ASSUME LoopInv, ApproveToolCalls PROVE LoopInv'
  <1> USE DEF ApproveToolCalls, permVars, bounds
  <1>1. /\ StateTypes /\ RowTypes /\ LoopTypes /\ QueueTypes /\ PermTypes /\ ThreadTypes
        /\ LedgerTypes /\ BoundTypes
        /\ toolMsg \in 0..MaxMessages /\ (toolMsg # 0 => toolMsg \in Message)
    BY TypeParts, BatchIsRow DEF LoopInv
  <1>2. RowTypes'
    BY <1>1, BoundAssumption DEF RowTypes, LoopInv, ExecInv
  <1>3. LoopTypes'
    BY <1>1 DEF LoopTypes, LoopPc
  <1>4. LedgerTypes'
    BY <1>1 DEF LedgerTypes, LoopInv, ExecInv
  <1>5. StateTypes' /\ QueueTypes' /\ PermTypes' /\ ThreadTypes' /\ BoundTypes'
    BY <1>1 DEF StateTypes, QueueTypes, PermTypes, ThreadTypes, BoundTypes
  <1>6. TypeOK'
    BY <1>2, <1>3, <1>4, <1>5, TypeParts
  <1>7. ExecInv'
    BY BoundAssumption DEF LoopInv, TypeOK, ExecInv, Message
  <1>8. AskInv'
    BY BoundAssumption DEF LoopInv, TypeOK, ExecInv, AskInv, Queued, Message
  <1>9. SendInv'
    BY DEF LoopInv, TypeOK, SendInv
  <1> QED
    BY <1>6, <1>7, <1>8, <1>9 DEF LoopInv

LEMMA ExecuteToolCallsStep == ASSUME LoopInv, ExecuteToolCalls PROVE LoopInv'
  <1> USE DEF ExecuteToolCalls, SetState, rowVars, permVars, bounds
  <1>1. /\ StateTypes /\ RowTypes /\ LoopTypes /\ QueueTypes /\ PermTypes /\ ThreadTypes
        /\ LedgerTypes /\ BoundTypes
        /\ toolMsg \in 0..MaxMessages /\ (toolMsg # 0 => toolMsg \in Message)
    BY TypeParts, BatchIsRow DEF LoopInv
  <1>2. StateTypes'
    BY <1>1 DEF StateTypes, State
  <1>3. LoopTypes'
    BY <1>1 DEF LoopTypes, LoopPc
  <1>4. LedgerTypes'
    BY <1>1 DEF LedgerTypes, LoopInv, ExecInv
  <1>5. RowTypes' /\ QueueTypes' /\ PermTypes' /\ ThreadTypes' /\ BoundTypes'
    BY <1>1 DEF RowTypes, QueueTypes, PermTypes, ThreadTypes, BoundTypes
  <1>6. TypeOK'
    BY <1>2, <1>3, <1>4, <1>5, TypeParts
  <1>7. ExecInv'
    BY BoundAssumption DEF LoopInv, TypeOK, ExecInv, Message
  <1>8. AskInv'
    BY BoundAssumption DEF LoopInv, TypeOK, ExecInv, AskInv, Queued, Message
  <1>9. SendInv'
    BY DEF LoopInv, TypeOK, SendInv
  <1> QED
    BY <1>6, <1>7, <1>8, <1>9 DEF LoopInv

LEMMA ToolsDoneStep == ASSUME LoopInv, ToolsDone PROVE LoopInv'
  <1> USE DEF ToolsDone, SetState, rowVars, permVars, ledger, bounds
  <1>1. /\ StateTypes /\ RowTypes /\ LoopTypes /\ QueueTypes /\ PermTypes /\ ThreadTypes
        /\ LedgerTypes /\ BoundTypes
        /\ toolMsg \in 0..MaxMessages /\ (toolMsg # 0 => toolMsg \in Message)
    BY TypeParts, BatchIsRow DEF LoopInv
  <1>2. StateTypes'
    BY <1>1 DEF StateTypes, State
  <1>3. LoopTypes'
    BY <1>1 DEF LoopTypes, LoopPc
  <1>4. RowTypes' /\ QueueTypes' /\ PermTypes' /\ ThreadTypes' /\ LedgerTypes' /\ BoundTypes'
    BY <1>1 DEF RowTypes, QueueTypes, PermTypes, ThreadTypes, LedgerTypes, BoundTypes
  <1>5. TypeOK'
    BY <1>2, <1>3, <1>4, TypeParts
  <1>6. ExecInv'
    BY BoundAssumption DEF LoopInv, TypeOK, ExecInv, Message
  <1>7. AskInv'
    BY BoundAssumption DEF LoopInv, TypeOK, ExecInv, AskInv, Queued, Message
  <1>8. SendInv'
    BY DEF LoopInv, TypeOK, SendInv
  <1> QED
    BY <1>5, <1>6, <1>7, <1>8 DEF LoopInv

-----------------------------------------------------------------------------
(* The permission goroutine *)

LEMMA ClientAnswersStep == ASSUME LoopInv, NEW b \in Message, ClientAnswers(b) PROVE LoopInv'
  <1> USE DEF ClientAnswers, rowVars, loopVars, ledger, bounds
  <1>1. /\ StateTypes /\ RowTypes /\ LoopTypes /\ QueueTypes /\ PermTypes /\ ThreadTypes
        /\ LedgerTypes /\ BoundTypes
        /\ toolMsg \in 0..MaxMessages /\ (toolMsg # 0 => toolMsg \in Message)
    BY TypeParts, BatchIsRow DEF LoopInv
  <1>2. PermTypes'
    BY <1>1, BoundAssumption DEF PermTypes, PermPc, RowTypes
  <1>3. /\ StateTypes' /\ RowTypes' /\ LoopTypes' /\ QueueTypes'
        /\ ThreadTypes' /\ LedgerTypes' /\ BoundTypes'
    BY <1>1 DEF StateTypes, RowTypes, LoopTypes, QueueTypes, ThreadTypes, LedgerTypes,
       BoundTypes
  <1>4. TypeOK'
    BY <1>2, <1>3, TypeParts
  <1>5. ExecInv'
    BY BoundAssumption DEF LoopInv, TypeOK, ExecInv, Message
  <1>6. AskInv'
    BY BoundAssumption DEF LoopInv, TypeOK, ExecInv, AskInv, Queued, Message
  <1>7. SendInv'
    BY DEF LoopInv, TypeOK, SendInv
  <1> QED
    BY <1>4, <1>5, <1>6, <1>7 DEF LoopInv

LEMMA PermissionGuardStep == ASSUME LoopInv, NEW b \in Message, PermissionGuard(b) PROVE LoopInv'
  <1> USE DEF PermissionGuard, rowVars, loopVars, bounds
  <1>1. /\ StateTypes /\ RowTypes /\ LoopTypes /\ QueueTypes /\ PermTypes /\ ThreadTypes
        /\ LedgerTypes /\ BoundTypes
        /\ toolMsg \in 0..MaxMessages /\ (toolMsg # 0 => toolMsg \in Message)
    BY TypeParts, BatchIsRow DEF LoopInv
  <1>2. PermTypes'
    BY <1>1, BoundAssumption DEF PermTypes, PermPc, RowTypes
  <1>3. LedgerTypes'
    BY <1>1 DEF LedgerTypes, LoopInv, ExecInv
  <1>4. StateTypes' /\ RowTypes' /\ LoopTypes' /\ QueueTypes' /\ ThreadTypes' /\ BoundTypes'
    BY <1>1 DEF StateTypes, RowTypes, LoopTypes, QueueTypes, ThreadTypes, BoundTypes
  <1>5. TypeOK'
    BY <1>2, <1>3, <1>4, TypeParts
  <1>6. ExecInv'
    BY BoundAssumption DEF LoopInv, TypeOK, ExecInv, Message
  <1>7. AskInv'
    BY BoundAssumption DEF LoopInv, TypeOK, ExecInv, AskInv, Queued, Message
  <1>8. SendInv'
    BY DEF LoopInv, TypeOK, SendInv
  <1> QED
    BY <1>5, <1>6, <1>7, <1>8 DEF LoopInv

LEMMA PermissionApproveStep ==
  ASSUME LoopInv, NEW b \in Message, PermissionApprove(b) PROVE LoopInv'
  <1> USE DEF PermissionApprove, rowVars, loopVars, bounds
  <1>1. /\ StateTypes /\ RowTypes /\ LoopTypes /\ QueueTypes /\ PermTypes /\ ThreadTypes
        /\ LedgerTypes /\ BoundTypes
        /\ toolMsg \in 0..MaxMessages /\ (toolMsg # 0 => toolMsg \in Message)
    BY TypeParts, BatchIsRow DEF LoopInv
  <1>2. \/ sendQueue' = sendQueue /\ (Queued("approve") => Queued("approve")')
        \/ /\ sendQueue' \in Seq(Kind \cup {"approve"}) /\ Len(sendQueue') <= QueueSize
           /\ Queued("approve")'
    BY QueueGrows DEF LoopInv, Queued
  <1>3. LoopTypes'
    BY <1>1 DEF LoopTypes, LoopPc
  <1>4. QueueTypes'
    BY <1>1, <1>2 DEF QueueTypes
  <1>5. PermTypes'
    BY <1>1, BoundAssumption DEF PermTypes, PermPc, RowTypes
  <1>6. LedgerTypes'
    BY <1>1 DEF LedgerTypes, LoopInv, ExecInv
  <1>7. StateTypes' /\ RowTypes' /\ ThreadTypes' /\ BoundTypes'
    BY <1>1 DEF StateTypes, RowTypes, ThreadTypes, BoundTypes
  <1>8. TypeOK'
    BY <1>3, <1>4, <1>5, <1>6, <1>7, TypeParts
  <1>9. ExecInv'
    BY BoundAssumption DEF LoopInv, TypeOK, ExecInv, Message
  <1>10. AskInv'
    BY <1>2, BoundAssumption DEF LoopInv, TypeOK, ExecInv, AskInv, Message
  <1>11. SendInv'
    BY DEF LoopInv, TypeOK, SendInv
  <1> QED
    BY <1>8, <1>9, <1>10, <1>11 DEF LoopInv

LEMMA PermissionRefuseStep == ASSUME LoopInv, NEW b \in Message, PermissionRefuse(b) PROVE LoopInv'
  <1> USE DEF PermissionRefuse, SetState, rowVars, loopVars, ledger, bounds
  <1>1. /\ StateTypes /\ RowTypes /\ LoopTypes /\ QueueTypes /\ PermTypes /\ ThreadTypes
        /\ LedgerTypes /\ BoundTypes
        /\ toolMsg \in 0..MaxMessages /\ (toolMsg # 0 => toolMsg \in Message)
    BY TypeParts, BatchIsRow DEF LoopInv
  <1>2. StateTypes'
    BY <1>1 DEF StateTypes, State
  <1>3. LoopTypes'
    BY <1>1 DEF LoopTypes, LoopPc
  <1>4. PermTypes'
    BY <1>1, BoundAssumption DEF PermTypes, PermPc, RowTypes
  <1>5. RowTypes' /\ QueueTypes' /\ ThreadTypes' /\ LedgerTypes' /\ BoundTypes'
    BY <1>1 DEF RowTypes, QueueTypes, ThreadTypes, LedgerTypes, BoundTypes
  <1>6. TypeOK'
    BY <1>2, <1>3, <1>4, <1>5, TypeParts
  <1>7. ExecInv'
    BY BoundAssumption DEF LoopInv, TypeOK, ExecInv, Message
  <1>8. AskInv'
    BY BoundAssumption DEF LoopInv, TypeOK, ExecInv, AskInv, Queued, Message
  <1>9. SendInv'
    BY DEF LoopInv, TypeOK, SendInv
  <1> QED
    BY <1>6, <1>7, <1>8, <1>9 DEF LoopInv

-----------------------------------------------------------------------------
(* Requests and restarts *)

LEMMA SessionPromptStep ==
  ASSUME LoopInv, NEW h \in Handler, NEW kind \in Kind, SessionPrompt(h, kind)
  PROVE  LoopInv'
  <1> USE DEF SessionPrompt, Begin, rowVars, loopVars, permVars, ledger
  <1>1. /\ StateTypes /\ RowTypes /\ LoopTypes /\ QueueTypes /\ PermTypes /\ ThreadTypes
        /\ LedgerTypes /\ BoundTypes
        /\ toolMsg \in 0..MaxMessages /\ (toolMsg # 0 => toolMsg \in Message)
    BY TypeParts, BatchIsRow DEF LoopInv
  <1>2. ThreadTypes'
    BY <1>1 DEF ThreadTypes, Thread, ThreadPc, Free, NoKind
  <1>3. BoundTypes'
    BY <1>1, BoundAssumption DEF BoundTypes
  <1>4. StateTypes' /\ RowTypes' /\ LoopTypes' /\ QueueTypes' /\ PermTypes' /\ LedgerTypes'
    BY <1>1 DEF StateTypes, RowTypes, LoopTypes, QueueTypes, PermTypes, LedgerTypes
  <1>5. TypeOK'
    BY <1>2, <1>3, <1>4, TypeParts
  <1>6. ExecInv'
    BY BoundAssumption DEF LoopInv, TypeOK, ExecInv, Message
  <1>7. AskInv'
    BY BoundAssumption DEF LoopInv, TypeOK, ExecInv, AskInv, Queued, Message
  <1>8. SendInv'
    BY DEF LoopInv, TypeOK, SendInv, Thread, Free
  <1> QED
    BY <1>5, <1>6, <1>7, <1>8 DEF LoopInv

LEMMA RejectPendingStep == ASSUME LoopInv, NEW h \in Handler, RejectPending(h) PROVE LoopInv'
  <1> USE DEF RejectPending, SetState, rowVars, loopVars, permVars, ledger, bounds
  <1>1. /\ StateTypes /\ RowTypes /\ LoopTypes /\ QueueTypes /\ PermTypes /\ ThreadTypes
        /\ LedgerTypes /\ BoundTypes
        /\ toolMsg \in 0..MaxMessages /\ (toolMsg # 0 => toolMsg \in Message)
    BY TypeParts, BatchIsRow DEF LoopInv
  <1>2. StateTypes'
    BY <1>1 DEF StateTypes, State
  <1>3. ThreadTypes'
    BY <1>1 DEF ThreadTypes, Thread, ThreadPc, Free, NoKind
  <1>4. RowTypes' /\ LoopTypes' /\ QueueTypes' /\ PermTypes' /\ LedgerTypes' /\ BoundTypes'
    BY <1>1 DEF RowTypes, LoopTypes, QueueTypes, PermTypes, LedgerTypes, BoundTypes
  <1>5. TypeOK'
    BY <1>2, <1>3, <1>4, TypeParts
  <1>6. ExecInv'
    BY BoundAssumption DEF LoopInv, TypeOK, ExecInv, Message
  <1>7. AskInv'
    BY BoundAssumption DEF LoopInv, TypeOK, ExecInv, AskInv, Queued, Message
  <1>8. SendInv'
    BY DEF LoopInv, TypeOK, SendInv, Thread, Free
  <1> QED
    BY <1>5, <1>6, <1>7, <1>8 DEF LoopInv

LEMMA ChatStep == ASSUME LoopInv, NEW h \in Handler, Chat(h) PROVE LoopInv'
  <1> USE DEF Chat, rowVars, loopVars, permVars, bounds
  <1>1. /\ StateTypes /\ RowTypes /\ LoopTypes /\ QueueTypes /\ PermTypes /\ ThreadTypes
        /\ LedgerTypes /\ BoundTypes
        /\ toolMsg \in 0..MaxMessages /\ (toolMsg # 0 => toolMsg \in Message)
    BY TypeParts, BatchIsRow DEF LoopInv
  <1>2. \/ sendQueue' = sendQueue /\ (Queued("approve") => Queued("approve")')
        \/ /\ sendQueue' \in Seq(Kind \cup {"approve"}) /\ Len(sendQueue') <= QueueSize
           /\ Queued("approve") => Queued("approve")'
    BY QueueGrows DEF LoopInv, SendInv, Queued
  <1>3. LoopTypes'
    BY <1>1 DEF LoopTypes, LoopPc
  <1>4. QueueTypes'
    BY <1>1, <1>2 DEF QueueTypes
  <1>5. ThreadTypes'
    BY <1>1 DEF ThreadTypes, Thread, ThreadPc, Free, NoKind
  <1>6. LedgerTypes'
    BY <1>1 DEF LedgerTypes, LoopInv, ExecInv
  <1>7. StateTypes' /\ RowTypes' /\ PermTypes' /\ BoundTypes'
    BY <1>1 DEF StateTypes, RowTypes, PermTypes, BoundTypes
  <1>8. TypeOK'
    BY <1>3, <1>4, <1>5, <1>6, <1>7, TypeParts
  <1>9. ExecInv'
    BY BoundAssumption DEF LoopInv, TypeOK, ExecInv, Message
  <1>10. AskInv'
    BY <1>2, BoundAssumption DEF LoopInv, TypeOK, ExecInv, AskInv, Message
  <1>11. SendInv'
    BY DEF LoopInv, TypeOK, SendInv, Thread, Free
  <1> QED
    BY <1>8, <1>9, <1>10, <1>11 DEF LoopInv

LEMMA StopStep == ASSUME LoopInv, NEW h \in Handler, Stop(h) PROVE LoopInv'
  <1> USE DEF Stop, Begin, rowVars, permVars, ledger
  <1>1. /\ StateTypes /\ RowTypes /\ LoopTypes /\ QueueTypes /\ PermTypes /\ ThreadTypes
        /\ LedgerTypes /\ BoundTypes
        /\ toolMsg \in 0..MaxMessages /\ (toolMsg # 0 => toolMsg \in Message)
    BY TypeParts, BatchIsRow DEF LoopInv
  <1>2. LoopTypes'
    BY <1>1 DEF LoopTypes, LoopPc
  <1>3. ThreadTypes'
    BY <1>1 DEF ThreadTypes, Thread, ThreadPc, Free, NoKind
  <1>4. BoundTypes'
    BY <1>1, BoundAssumption DEF BoundTypes
  <1>5. StateTypes' /\ RowTypes' /\ QueueTypes' /\ PermTypes' /\ LedgerTypes'
    BY <1>1 DEF StateTypes, RowTypes, QueueTypes, PermTypes, LedgerTypes
  <1>6. TypeOK'
    BY <1>2, <1>3, <1>4, <1>5, TypeParts
  <1>7. ExecInv'
    BY BoundAssumption DEF LoopInv, TypeOK, ExecInv, Message
  <1>8. AskInv'
    BY BoundAssumption DEF LoopInv, TypeOK, ExecInv, AskInv, Queued, Message
  <1>9. SendInv'
    BY DEF LoopInv, TypeOK, SendInv, Thread, Free
  <1> QED
    BY <1>6, <1>7, <1>8, <1>9 DEF LoopInv

LEMMA SessionCancelStep == ASSUME LoopInv, NEW h \in Handler, SessionCancel(h) PROVE LoopInv'
  <1> USE DEF SessionCancel, rowVars, loopVars, permVars, ledger, bounds
  <1>1. /\ StateTypes /\ RowTypes /\ LoopTypes /\ QueueTypes /\ PermTypes /\ ThreadTypes
        /\ LedgerTypes /\ BoundTypes
        /\ toolMsg \in 0..MaxMessages /\ (toolMsg # 0 => toolMsg \in Message)
    BY TypeParts, BatchIsRow DEF LoopInv
  <1>2. ThreadTypes'
    BY <1>1 DEF ThreadTypes, Thread, ThreadPc, Free, NoKind
  <1>3. /\ StateTypes' /\ RowTypes' /\ LoopTypes' /\ QueueTypes'
        /\ PermTypes' /\ LedgerTypes' /\ BoundTypes'
    BY <1>1 DEF StateTypes, RowTypes, LoopTypes, QueueTypes, PermTypes, LedgerTypes, BoundTypes
  <1>4. TypeOK'
    BY <1>2, <1>3, TypeParts
  <1>5. ExecInv'
    BY BoundAssumption DEF LoopInv, TypeOK, ExecInv, Message
  <1>6. AskInv'
    BY BoundAssumption DEF LoopInv, TypeOK, ExecInv, AskInv, Queued, Message
  <1>7. SendInv'
    BY DEF LoopInv, TypeOK, SendInv, Thread, Free
  <1> QED
    BY <1>4, <1>5, <1>6, <1>7 DEF LoopInv

LEMMA CancelPendingStep == ASSUME LoopInv, NEW h \in Handler, CancelPending(h) PROVE LoopInv'
  <1> USE DEF CancelPending, SetState, rowVars, loopVars, ledger, bounds
  <1>1. /\ StateTypes /\ RowTypes /\ LoopTypes /\ QueueTypes /\ PermTypes /\ ThreadTypes
        /\ LedgerTypes /\ BoundTypes
        /\ toolMsg \in 0..MaxMessages /\ (toolMsg # 0 => toolMsg \in Message)
    BY TypeParts, BatchIsRow DEF LoopInv
  <1>2. StateTypes'
    BY <1>1 DEF StateTypes, State
  <1>3. PermTypes'
    BY <1>1, BoundAssumption DEF PermTypes, PermPc, RowTypes
  <1>4. ThreadTypes'
    BY <1>1 DEF ThreadTypes, Thread, ThreadPc, Free, NoKind
  <1>5. RowTypes' /\ LoopTypes' /\ QueueTypes' /\ LedgerTypes' /\ BoundTypes'
    BY <1>1 DEF RowTypes, LoopTypes, QueueTypes, LedgerTypes, BoundTypes
  <1>6. TypeOK'
    BY <1>2, <1>3, <1>4, <1>5, TypeParts
  <1>7. ExecInv'
    BY BoundAssumption DEF LoopInv, TypeOK, ExecInv, Message
  <1>8. AskInv'
    BY BoundAssumption DEF LoopInv, TypeOK, ExecInv, AskInv, Queued, Message
  <1>9. SendInv'
    BY DEF LoopInv, TypeOK, SendInv, Thread, Free
  <1> QED
    BY <1>6, <1>7, <1>8, <1>9 DEF LoopInv

LEMMA CrashStep == ASSUME LoopInv, Crash PROVE LoopInv'
  <1> USE DEF Crash, Boot, ledger
  <1>1. /\ StateTypes /\ RowTypes /\ LoopTypes /\ QueueTypes /\ PermTypes /\ ThreadTypes
        /\ LedgerTypes /\ BoundTypes
        /\ toolMsg \in 0..MaxMessages /\ (toolMsg # 0 => toolMsg \in Message)
    BY TypeParts, BatchIsRow DEF LoopInv
  <1>2. StateTypes'
    BY <1>1 DEF StateTypes, State
  <1>3. RowTypes'
    BY <1>1, BoundAssumption DEF RowTypes, LoopInv, ExecInv
  <1>4. LoopTypes'
    BY <1>1 DEF LoopTypes, LoopPc
  <1>5. QueueTypes'
    BY <1>1, BoundAssumption, EmptySeq DEF QueueTypes
  <1>6. PermTypes'
    BY <1>1, BoundAssumption DEF PermTypes, PermPc, RowTypes
  <1>7. ThreadTypes'
    BY <1>1 DEF ThreadTypes, Thread, ThreadPc, Free, NoKind
  <1>8. BoundTypes'
    BY <1>1, BoundAssumption DEF BoundTypes
  <1>9. LedgerTypes'
    BY <1>1 DEF LedgerTypes
  <1>10. TypeOK'
    BY <1>2, <1>3, <1>4, <1>5, <1>6, <1>7, <1>8, <1>9, TypeParts
  <1>11. ExecInv'
    BY BoundAssumption DEF LoopInv, TypeOK, ExecInv, Message
  <1>12. AskInv'
    BY BoundAssumption DEF LoopInv, TypeOK, ExecInv, AskInv, Queued, Message
  <1>13. SendInv'
    BY DEF LoopInv, TypeOK, SendInv, Thread, Free
  <1> QED
    BY <1>10, <1>11, <1>12, <1>13 DEF LoopInv

-----------------------------------------------------------------------------
LEMMA NextLoop == LoopInv /\ [Next]_vars => LoopInv'
  <1> SUFFICES ASSUME LoopInv, [Next]_vars PROVE LoopInv'
    OBVIOUS
  <1>1. CASE UNCHANGED vars
    <2> USE <1>1 DEF vars, rowVars, loopVars, permVars, ledger, bounds
    <2>1. TypeOK'
      BY DEF LoopInv, TypeOK
    <2>2. ExecInv' /\ AskInv' /\ SendInv'
      BY DEF LoopInv, ExecInv, AskInv, SendInv, Queued
    <2> QED
      BY <2>1, <2>2 DEF LoopInv
  <1>2. CASE Loop
    BY <1>2, StartStep, ReceiveStep, RespondStep, BeginRequestStep, BuildStep, EndRequestStep,
       HandleWaitApproveStep, AnnounceStep, ApproveToolCallsStep, ExecuteToolCallsStep,
       ToolsDoneStep
    DEF Loop
  <1>3. ASSUME NEW b \in Message, ClientAnswers(b) \/ Permission(b) PROVE LoopInv'
    BY <1>3, ClientAnswersStep, PermissionGuardStep, PermissionApproveStep, PermissionRefuseStep
    DEF Permission
  <1>4. ASSUME NEW h \in Handler, NEW kind \in Kind, SessionPrompt(h, kind) PROVE LoopInv'
    BY <1>4, SessionPromptStep
  <1>5. ASSUME NEW h \in Handler, Stop(h) \/ Continue(h) PROVE LoopInv'
    BY <1>5, StopStep, RejectPendingStep, ChatStep, SessionCancelStep, CancelPendingStep
    DEF Continue
  <1>6. CASE Crash
    BY <1>6, CrashStep
  <1> QED
    BY <1>1, <1>2, <1>3, <1>4, <1>5, <1>6 DEF Next

-----------------------------------------------------------------------------
\* The session's state, the rows, the queue and the goroutines around the loop are well-typed:
\* the queue never holds more than its capacity.
THEOREM LoopTypeCorrect == Spec => []TypeOK
  <1>1. LoopInv => TypeOK
    BY DEF LoopInv
  <1> QED
    BY <1>1, InitLoop, NextLoop, PTL DEF Spec

\* The tools of one response run at most once, whatever approvals, rejections, cancellations
\* and restarts come together (ExecuteToolCalls saves the state before it runs them,
\* ApproveToolCalls and the restart read it).
THEOREM ToolsRunOnce == Spec => []ExecutedOnce
  <1>1. LoopInv => ExecutedOnce
    BY DEF LoopInv, ExecInv, ExecutedOnce
  <1> QED
    BY <1>1, InitLoop, NextLoop, PTL DEF Spec

\* A session at rest in WaitApprove has asked its clients about the batch that waits and
\* still listens, after a restart too, unless an error ended the handling of the batch
\* (handleWaitApprove, requestPermission).
THEOREM RestIsAsked == Spec => []WaitingIsAsked
  <1>1. LoopInv => WaitingIsAsked
    <2> SUFFICES ASSUME LoopInv, Parked, state = "WaitApprove"
                 PROVE  (perm[toolMsg] = "asking" /\ messageId = toolMsg) \/ toolMsg \in failed
      BY DEF WaitingIsAsked
    <2>1. toolMsg \in Message
      BY BatchIsRow DEF LoopInv, ExecInv
    <2>2. ~Queued("approve")
      BY EmptySeq DEF Parked, Queued
    <2>3. perm[toolMsg] \notin {"yes", "no", "approve", "refuse"} /\ pc = "select"
      BY <2>1 DEF Parked
    <2> QED
      BY <2>2, <2>3 DEF LoopInv, AskInv
  <1> QED
    BY <1>1, InitLoop, NextLoop, PTL DEF Spec
=============================================================================
