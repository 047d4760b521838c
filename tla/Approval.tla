------------------------------- MODULE Approval -------------------------------
(***************************************************************************)
(* The batches of one chat, from the answer that asks for them to their    *)
(* end: the rules judge a batch, a client may, and what is let through is  *)
(* carried out unless it repeats the batches before (ui/funcs,             *)
(* provider/request).  The rules are those of the moment: they may change  *)
(* while a batch waits, and it may be judged again when the loop starts.   *)
(***************************************************************************)
EXTENDS ApprovalRules

CONSTANTS Config,     \* rules that may be in force
          Batch,      \* batches an answer may ask for
          MaxRounds   \* bound: answers

VARIABLES rounds,     \* the stored batches, oldest first
          waiting,    \* Chats.State is WaitApprove
          verdict     \* history: the last judgement of the last batch

roundVars == <<rounds, waiting, verdict>>

Unjudged == [is |-> "none"]
Ends     == {"open", "ran", "failed", "looped", "rejected"}

TypeOK ==
  /\ rounds \in Seq([calls : Batch, end : Ends]) /\ Len(rounds) <= MaxRounds
  /\ waiting \in BOOLEAN
  /\ verdict = Unjudged \/ verdict.is \in {"approved", "rejected", "manual", "error"}

Init == rounds = <<>> /\ waiting = FALSE /\ verdict = Unjudged

-----------------------------------------------------------------------------
Last     == rounds[Len(rounds)]
Batches(rows) == [i \in DOMAIN rows |-> rows[i].calls]
Earlier  == Batches(SubSeq(rounds, 1, Len(rounds) - 1))

\* An answer is stored with its calls; they wait for approval unless the request
\* was cancelled.
Answer(batch) ==
  /\ ~waiting /\ Len(rounds) < MaxRounds
  /\ rounds' = Append(rounds, [calls |-> batch, end |-> "open"])
  /\ waiting' \in BOOLEAN
  /\ verdict' = Unjudged

Finish(end) ==
  /\ rounds' = [rounds EXCEPT ![Len(rounds)].end = end]
  /\ waiting' = FALSE

\* validateAgentLifecycleCalls: two changes of agent in a batch are too many.
Switches(calls) == {i \in DOMAIN calls : calls[i].name \in {"activate_agent", "deactivate_agent"}}
TwoSwitches(calls) == \E i, j \in Switches(calls) : i # j

\* ExecuteToolCalls: with too many changes of agent the batch goes on waiting; one
\* that repeats those before it is answered with a warning.
ExecuteToolCalls ==
  \/ TwoSwitches(Last.calls) /\ UNCHANGED <<rounds, waiting>>
  \/ ~TwoSwitches(Last.calls) /\ Loops(Earlier, Last.calls) /\ Finish("looped")
  \/ /\ ~TwoSwitches(Last.calls) /\ ~Loops(Earlier, Last.calls)
     /\ \E end \in {"ran", "failed"} : Finish(end)

\* AutoHandlePendingToolCalls: what is neither approved nor rejected waits for a
\* client, and in a sub-agent it is rejected.  Without one no rule is an agent's.
Judge(config, sub) ==
  /\ waiting
  /\ ~sub => config.agentReject = NoRule /\ config.agentApprove = NoRule
  /\ LET decision == Evaluate(config, Last.calls) IN
       /\ verdict' = [is |-> decision, config |-> config]
       /\ \/ decision = "approved" /\ ExecuteToolCalls
          \/ (decision = "rejected" \/ (decision = "manual" /\ sub)) /\ Finish("rejected")
          \/ (decision = "error" \/ (decision = "manual" /\ ~sub)) /\ UNCHANGED <<rounds, waiting>>

\* ApproveToolCalls: a client's approval.
Approve == waiting /\ ExecuteToolCalls /\ UNCHANGED verdict

\* RejectToolCallsNoDeactivate: a client's rejection, or its next prompt.
Reject == waiting /\ Finish("rejected") /\ UNCHANGED verdict

Next ==
  \/ \E batch \in Batch : Answer(batch)
  \/ \E config \in Config, sub \in BOOLEAN : Judge(config, sub)
  \/ Approve
  \/ Reject

Spec == Init /\ [][Next]_roundVars

-----------------------------------------------------------------------------
\* A batch runs by itself only if each of its calls would: no rule lets a call
\* through in the company of others, and none that the built-in rules turn
\* down is let through by a rule of the user.
BatchIsItsCalls ==
  verdict # Unjudged =>
    LET calls    == {Last.calls[i] : i \in DOMAIN Last.calls}
        alone(c) == Evaluate(verdict.config, <<c>>)
    IN /\ verdict.is = "approved" <=> \A c \in calls : alone(c) = "approved"
       /\ \A c \in calls \ Exempt :
            verdict.config.builtinReject.of[c] = "yes" => verdict.is \in {"rejected", "error"}

\* The third batch in a row of the same shell commands is not carried out, whatever
\* numbers and other parameters they are given with, and whoever approved it.
RepeatStopped ==
  LET shell(c)   == c.name = "run" /\ c.type = "shell"
      like(a, b) == /\ Len(a) = Len(b)
                    /\ \A i \in DOMAIN a : shell(a[i]) /\ shell(b[i]) /\ a[i].word = b[i].word
  IN \A i \in Threshold..Len(rounds) :
       (\A n \in 1..Threshold - 1 : like(rounds[i].calls, rounds[i - n].calls)) => rounds[i].end # "ran"

\* "N times in a row": a batch is a loop only if the N - 1 batches before it
\* were the same (request.go:689, 759).  The code does not keep it: the batch
\* itself is among the rows it is compared with.
LoopIsThreeInARow ==
  \A i \in DOMAIN rounds :
    rounds[i].end = "looped" =>
      i >= Threshold /\ \A n \in 1..Threshold - 1 : SameToolCalls(rounds[i].calls, rounds[i - n].calls)
=============================================================================
