---------------------------- MODULE ApprovalRules ----------------------------
(***************************************************************************)
(* What decides whether a batch of tool calls runs by itself: the rules    *)
(* for automatic approval and rejection, and the search for a loop of      *)
(* equal batches (provider/request/request.go).                            *)
(*                                                                         *)
(* A call is [name, type, word, number, rest]: word and number are the     *)
(* words and numbers of its command, rest its other parameters.  A rule is *)
(* [text, of]: text is "none" for a blank rule, "bad" for one that does    *)
(* not compile and "ok" otherwise; of gives what the rule makes of each    *)
(* call: "yes", "no" or "error".  Rules that look at the other calls of    *)
(* the batch are left out; the built-in ones do not.                       *)
(***************************************************************************)
EXTENDS Integers, Sequences

CONSTANTS Judged,  \* calls that rules judge
          Exempt   \* calls no rule judges (deactivate_agent)

-----------------------------------------------------------------------------
(* EvaluateApprovalRules                                                    *)

NoRule  == [text |-> "none", of |-> [c \in Judged |-> "no"]]
BadRule == [text |-> "bad",  of |-> [c \in Judged |-> "no"]]
Rule    == {NoRule, BadRule} \cup [text : {"ok"}, of : [Judged -> {"yes", "no", "error"}]]

\* mergeAutoRuleExpr: user || built-in, where the second is not reached when
\* the first is true or fails.
Merge(user, builtin) ==
  IF user.text = "none" THEN builtin
  ELSE IF builtin.text = "none" THEN user
  ELSE [text |-> IF "bad" \in {user.text, builtin.text} THEN "bad" ELSE "ok",
        of   |-> [c \in Judged |-> IF user.of[c] = "no" THEN builtin.of[c] ELSE user.of[c]]]

\* The rule of the active agent, or else the one for all agents.
Own(agent, default) == IF agent.text = "none" THEN default ELSE agent

First(places) == CHOOSE i \in places : \A j \in places : i <= j

\* What the first judged call that is not `pass' makes of the batch, or `pass'.
FirstNot(rule, calls, pass) ==
  LET others == {i \in DOMAIN calls : calls[i] \notin Exempt /\ rule.of[calls[i]] # pass}
  IN IF rule.text = "none" \/ others = {} THEN pass ELSE rule.of[calls[First(others)]]

\* Mutant of Approves: one call that matches is enough.
ApprovesAny(rule, calls) ==
  LET result == FirstNot(rule, calls, "no")
  IN CASE result = "no" -> "manual" [] result = "yes" -> "approved" [] OTHER -> "error"

Approves(rule, calls) ==
  LET result == FirstNot(rule, calls, "yes") IN
  CASE rule.text = "none" \/ result = "no" -> "manual"
    [] rule.text # "none" /\ result = "yes" -> "approved"
    [] OTHER -> "error"

Evaluate(config, calls) ==
  LET reject   == Merge(Own(config.agentReject, config.reject), config.builtinReject)
      approve  == Merge(Own(config.agentApprove, config.approve), config.builtinApprove)
      rejected == FirstNot(reject, calls, "no")
  IN IF calls = <<>> THEN "manual"
     ELSE IF \A i \in DOMAIN calls : calls[i] \in Exempt THEN "approved"
     ELSE IF "bad" \in {reject.text, approve.text} THEN "error"
     ELSE IF rejected = "yes" THEN "rejected"
     ELSE IF rejected = "error" THEN "error"
     ELSE Approves(approve, calls)

-----------------------------------------------------------------------------
(* detectToolCallLoop                                                       *)

Threshold  == 3
MaxHistory == 8

\* Mutant of Signature: every parameter counts.
SignatureExact(call) == <<call.name, call.type, call.word, call.number, call.rest>>

\* A shell command is compared without its numbers and other parameters, a
\* wait or a sleep by its command, any other tool by all it is given.
Signature(call) ==
  IF call.name # "run" THEN <<call.name, call.word, call.number, call.rest>>
  ELSE IF call.type \in {"wait", "sleep"} THEN <<"run", call.type, call.word, call.number>>
  ELSE <<"run", call.word>>

SameToolCalls(a, b) ==
  Len(a) = Len(b) /\ \A i \in 1..Len(a) : Signature(a[i]) = Signature(b[i])

\* stored are the batches of the chat's answers, oldest first: those that are
\* looked at from the end are as many as it takes, and all the same.
DetectLoop(stored, batch) ==
  /\ batch # <<>>
  /\ \A n \in 1..Threshold - 1 :
       /\ n <= MaxHistory /\ n <= Len(stored)
       /\ SameToolCalls(batch, stored[Len(stored) + 1 - n])

\* ExecuteToolCalls: the row of the batch was stored when its answer ended.
Loops(earlier, batch) == DetectLoop(Append(earlier, batch), batch)
=============================================================================
