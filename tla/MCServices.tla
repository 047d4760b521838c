------------------------------ MODULE MCServices ------------------------------
(***************************************************************************)
(* The services of MCProtocols and, beside them, the pure algorithms: one  *)
(* of all these, active, takes the steps of a behaviour.                   *)
(***************************************************************************)
EXTENDS MCProtocols, Sequences

CONSTANT Context

VARIABLE input

Pure == INSTANCE MCAlgorithms

\* Two versions of a file: of one symbol the signature changes and it is named twice, of
\* one the body alone changes, one goes.
Symb(name, text, body) == [name |-> name, text |-> text, body |-> body]
TwoVersions == <<<<Symb("s", 11, 21), Symb("t", 12, 22), Symb("u", 15, 25)>>,
                 <<Symb("s", 13, 23), Symb("s", 14, 24), Symb("u", 15, 26)>>>>

\* What a program prints: text, a movement of each kind, one of them beyond the
\* integers, places kept and taken again, a region, erasures.
Csi(parameters, cmd) == <<"ESC", "[">> \o parameters \o <<cmd>>
ScreenOutput ==
  {<<"a", "a", "a">>, <<"lead", "cont">>, <<"LF">>, <<"TAB">>, <<"ESC", "M">>, <<"ESC", "7">>, <<"ESC", "8">>,
   Csi(<<>>, "A"), Csi(<<"2", ";", "3">>, "H"), Csi(<<"9">>, "B"), Csi(<<"1", "5">>, "C"),
   Csi(<<"1">>, "K"), Csi(<<>>, "J"), Csi(<<"2", ";", "3">>, "r")}

\* Two runs of one command with numbers and other parameters of their own, an edit,
\* and a change of agent.
Shell(number, rest) == [name |-> "run", type |-> "shell", word |-> "test", number |-> number, rest |-> rest]
Test  == Shell(1, "a")
Retry == Shell(2, "b")
Edit  == [Test EXCEPT !.name = "edit"]
Leave == [Test EXCEPT !.name = "deactivate_agent"]

RuledCalls == {Test, Retry, Edit}
FreeCalls  == {Leave}
SomeBatches == {<<Test>>, <<Retry>>, <<Test, Edit>>, <<Leave, Test>>, <<Leave, Leave>>}

Says(result, calls) == [text |-> "ok", of |-> [c \in RuledCalls |-> IF c \in calls THEN result ELSE "no"]]
Blank == [Says("no", {}) EXCEPT !.text = "none"]
Bad   == [Says("no", {}) EXCEPT !.text = "bad"]

\* Rules of the agent, of the user and built in.
Rejects  == {<<Blank, Blank, Blank>>, <<Blank, Bad, Blank>>,
             <<Blank, Says("yes", {Edit}), Says("yes", {Test})>>,
             <<Says("error", {Retry}), Says("yes", RuledCalls), Blank>>}
Approves == {<<Blank, Blank, Blank>>, <<Blank, Says("yes", RuledCalls), Blank>>,
             <<Blank, Bad, Says("yes", {Test})>>, <<Says("yes", {Test}), Blank, Says("yes", {Retry})>>,
             <<Blank, Says("error", {Edit}), Says("yes", RuledCalls)>>}
SomeConfigs ==
  {[agentReject |-> r[1], reject |-> r[2], builtinReject |-> r[3],
    agentApprove |-> a[1], approve |-> a[2], builtinApprove |-> a[3]] : r \in Rejects, a \in Approves}

protocolVars == <<lspVars, pipeVars, talkVars, traceVars, rpcVars, fileVars, storeVars, screenVars,
                  roundVars>>
serviceVars  == <<active, protocolVars, input>>

\* While the algorithms take their turn the services rest.
PureInit ==
  /\ active = "pure"
  /\ Lsp!Init /\ Pipe!Init /\ Talk!Init /\ Trace!Init /\ Rpc!Init /\ Files!Init /\ Store!Init /\ Screen!Init
  /\ Rounds!Init
  /\ \A n \in Extent : buffer.rows <= n /\ buffer.cols <= n
  /\ current = Main /\ (\A p \in Source : files[p] = 0) /\ model = NoModel
  /\ Pure!Init

ServicesInit == (Init /\ Pure!Init) \/ PureInit

ServicesNext ==
  \/ /\ Next
     /\ UNCHANGED input
  \/ /\ active = "pure" /\ Pure!Next
     /\ UNCHANGED <<active, protocolVars>>

ServicesSpec == ServicesInit /\ [][ServicesNext]_serviceVars

\* The properties of the algorithms.
EditsExact           == active = "pure" => Pure!EditsExact
EditReported         == active = "pure" => Pure!EditReported
ParsesWhatCame       == active = "pure" => Pure!ParsesWhatCame
MaskRoundTrip        == active = "pure" => Pure!MaskRoundTrip
AnswerRestored       == active = "pure" => Pure!AnswerRestored
TreeEditDone         == active = "pure" => Pure!TreeEditDone
SearchMerges         == active = "pure" => Pure!SearchMerges
IgnoredStaysOut      == active = "pure" => Pure!IgnoredStaysOut
=============================================================================
