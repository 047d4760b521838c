------------------------------ MODULE FileService ------------------------------
(***************************************************************************)
(* The file requests of the protocol (server/actions/fs.go): fs/stat,      *)
(* read, write, mkdir, rm, chmod and chown.  Each touches the disk in a    *)
(* goroutine of its own, under a timer of 200 ms, and answers "timed out"  *)
(* when the timer is first, while the goroutine may still be at work.      *)
(* Two parts of a handler touch the disk without a timer.                  *)
(*                                                                         *)
(* The disk is one directory, Root, and its children.  Owners, modes and   *)
(* contents are not told apart.                                            *)
(***************************************************************************)
EXTENDS FiniteSets, Naturals, Sequences

CONSTANTS Req,      \* requests that may be at work at a time
          Root,     \* the directory
          Child,    \* names in it
          Asked     \* what is asked for: pairs of a kind and a path

VARIABLES tree,     \* path -> what is there
          req       \* request -> its handler and the goroutine of its operation

fsVars == <<tree, req>>

Place == {Root} \cup Child

\* The timed operations of a handler, in their order.
Stages(kind, isDir) ==
  CASE kind = "stat"  -> <<"stat", "owner">>
    [] kind = "read"  -> <<"stat", IF isDir THEN "list" ELSE "read">>
    [] kind \in {"write"} -> <<"parent", "write">>
    [] kind \in {"mkdir", "rm", "chmod", "chown"} -> <<kind>>

Kinds == {"stat", "read", "write", "mkdir", "rm", "chmod", "chown"}

TypeOK ==
  /\ tree \in [Place -> {"absent", "dir", "file"}]
  /\ req \in [Req -> [kind : Kinds, path : Place, stage : 0..2, isDir : BOOLEAN, ctx : {"live", "over"},
                      op : {"none", "checks", "infos", "begin", "open", "content", "data", "entry", "child", "self",
                            "ok", "failed"},
                      todo : SUBSET Child, dirs : SUBSET Child, late : SUBSET Child,
                      answered : BOOLEAN]]

\* No request: the last one is answered and its goroutine has ended.
Free == [kind |-> "stat", path |-> Root, stage |-> 0, isDir |-> FALSE, ctx |-> "over", op |-> "none",
         todo |-> {}, dirs |-> {}, late |-> {}, answered |-> FALSE]

Init ==
  /\ tree = [p \in Place |-> IF p = Root THEN "dir" ELSE "file"]
  /\ req = [r \in Req |-> Free]

Waiting(r)  == req[r].stage > 0 /\ ~req[r].answered
Stage(r)    == Stages(req[r].kind, req[r].isDir)[req[r].stage]
At(r, stage, op) == req[r].stage > 0 /\ Stage(r) = stage /\ req[r].op = op
Over(r)     == req[r].ctx = "over"
Untimed(r)  == req[r].op \in {"checks", "infos"}

-----------------------------------------------------------------------------
(* The handlers: fsOpWithTimeout and fsOpVoidWithTimeout                    *)

Start(r) ==
  /\ req[r].op = "none"
  /\ \E ask \in Asked :
       req' = [req EXCEPT ![r] = [Free EXCEPT !.kind = ask[1], !.path = ask[2], !.stage = 1,
                                              !.op = "checks"]]
  /\ UNCHANGED tree

\* sessionID2Cwd, validatePath, which follows the links of the path, and for chown the
\* look at the users: in the handler, with no timer.
Check(r) ==
  /\ req[r].op = "checks"
  /\ \/ req' = [req EXCEPT ![r] = Free]
     \/ req' = [req EXCEPT ![r].op = "begin", ![r].ctx = "live"]
  /\ UNCHANGED tree

\* The result of the operation: an error is the answer, after the last operation
\* the answer is ok, else the next one starts under a timer of its own.
Finished(r) == req[r].op = "failed" \/ req[r].stage = Len(Stages(req[r].kind, req[r].isDir))

\* What FsRead listed: each entry's size is asked for by the handler, with no timer.
Listed(r) == req[r].op = "ok" /\ Stage(r) = "list"
Infos(r) ==
  /\ req[r].op = "infos" /\ req' = [req EXCEPT ![r] = Free]
  /\ UNCHANGED tree

Receive(r) ==
  /\ Waiting(r) /\ req[r].op \in {"ok", "failed"}
  /\ \/ Listed(r) /\ req' = [req EXCEPT ![r].op = "infos", ![r].ctx = "over"]
     \/ Finished(r) /\ ~Listed(r) /\ req' = [req EXCEPT ![r] = Free]
     \/ ~Finished(r)
        /\ req' = [req EXCEPT ![r].stage = @ + 1, ![r].op = "begin", ![r].ctx = "live"]
  /\ UNCHANGED tree

\* context.WithTimeout: the 200 ms are over.
Expire(r) ==
  /\ Waiting(r) /\ ~Untimed(r) /\ ~Over(r)
  /\ req' = [req EXCEPT ![r].ctx = "over"]
  /\ UNCHANGED tree

\* Mutant of GiveUp: the handler waits for its goroutine.
GiveUpWaits(r) ==
  /\ Waiting(r) /\ Over(r) /\ req[r].op \in {"ok", "failed"}
  /\ req' = [req EXCEPT ![r] = IF @.op \in {"ok", "failed"} THEN Free
                                ELSE [@ EXCEPT !.answered = TRUE]]
  /\ UNCHANGED tree

GiveUp(r) ==
  /\ Waiting(r) /\ ~Untimed(r) /\ Over(r)
  /\ req' = [req EXCEPT ![r] = IF @.op \in {"ok", "failed"} THEN Free
                                ELSE [@ EXCEPT !.answered = TRUE]]
  /\ UNCHANGED tree

-----------------------------------------------------------------------------
(* The operations, in their goroutines                                      *)

\* The result waits in the channel; without its handler nothing is left.
Ends(r, good) ==
  req' = [req EXCEPT ![r] = IF ~Waiting(r) THEN Free
                            ELSE [@ EXCEPT !.op = IF good THEN "ok" ELSE "failed"]]

Goes(r, op) == req' = [req EXCEPT ![r].op = op]

Look(r) ==
  /\ At(r, "stat", "begin")
  /\ LET kind == tree[req[r].path]
     IN IF kind = "absent" \/ ~Waiting(r) THEN Ends(r, FALSE)
        ELSE req' = [req EXCEPT ![r].op = "ok", ![r].isDir = kind = "dir"]
  /\ UNCHANGED tree

Owner(r) == At(r, "owner", "begin") /\ Ends(r, TRUE) /\ UNCHANGED tree
List(r)  == At(r, "list", "begin") /\ Ends(r, tree[req[r].path] = "dir") /\ UNCHANGED tree

\* Opened, then read, with a look at the context before each piece.
OpenForRead(r) ==
  /\ At(r, "read", "begin")
  /\ IF tree[req[r].path] = "absent" THEN Ends(r, FALSE) ELSE Goes(r, "data")
  /\ UNCHANGED tree
ReadPiece(r) ==
  /\ At(r, "read", "data")
  /\ Ends(r, ~Over(r))
  /\ UNCHANGED tree

\* MkdirAll; it does not look at the context.
Make(r, path) ==
  IF tree[Root] = "file" \/ tree[path] = "file"
  THEN Ends(r, FALSE) /\ UNCHANGED tree
  ELSE /\ Ends(r, TRUE)
       /\ tree' = [tree EXCEPT ![Root] = "dir", ![path] = "dir"]
Mkdir(r)  == At(r, "mkdir", "begin") /\ Make(r, req[r].path)
Parent(r) ==
  /\ At(r, "parent", "begin")
  /\ IF req[r].path = Root THEN Ends(r, TRUE) /\ UNCHANGED tree ELSE Make(r, Root)

Change(r) ==
  /\ At(r, "chmod", "begin") \/ At(r, "chown", "begin")
  /\ Ends(r, tree[req[r].path] # "absent")
  /\ UNCHANGED tree

\* FsWrite: nothing is opened after the time is over; what was opened is written.
WriteCheck(r) ==
  /\ At(r, "write", "begin")
  /\ IF Over(r) THEN Ends(r, FALSE) ELSE Goes(r, "open")
  /\ UNCHANGED tree
WriteOpen(r) ==
  /\ At(r, "write", "open")
  /\ LET p == req[r].path IN
       IF tree[p] = "dir" \/ (p # Root /\ tree[Root] # "dir")
       THEN Ends(r, FALSE) /\ UNCHANGED tree
       ELSE /\ Goes(r, "content")
            /\ tree' = [tree EXCEPT ![p] = "file"]
WriteContent(r) == At(r, "write", "content") /\ Ends(r, TRUE) /\ UNCHANGED tree

\* removeAllCtx: a file or what is not there is removed at once, of a directory
\* first the entries it had when it was read.
Present == {c \in Child : tree[c] # "absent"}

RmBegin(r) ==
  /\ At(r, "rm", "begin")
  /\ CASE Over(r) -> Ends(r, FALSE)
       [] ~Over(r) /\ (req[r].path # Root \/ tree[Root] # "dir") -> Goes(r, "self")
       [] ~Over(r) /\ req[r].path = Root /\ tree[Root] = "dir" ->
            req' = [req EXCEPT ![r].op = "entry", ![r].todo = Present,
                               ![r].dirs = {c \in Present : tree[c] = "dir"}]
  /\ UNCHANGED tree

\* Mutant of RmEntry: the context is not looked at.
RmEntryBlind(r) ==
  /\ At(r, "rm", "entry")
  /\ Goes(r, IF req[r].todo = {} THEN "self" ELSE "child")
  /\ UNCHANGED tree

\* The context is looked at before each entry, but not before the directory.
RmEntry(r) ==
  /\ At(r, "rm", "entry")
  /\ CASE req[r].todo = {} -> Goes(r, "self")
       [] req[r].todo # {} /\ Over(r) -> Ends(r, FALSE)
       [] req[r].todo # {} /\ ~Over(r) -> Goes(r, "child")
  /\ UNCHANGED tree

\* One entry; a directory is removed by removeAllCtx, which looks again.
RmChild(r) ==
  /\ At(r, "rm", "child")
  /\ \E c \in req[r].todo :
       IF tree[c] = "absent" \/ (c \in req[r].dirs /\ Over(r))
       THEN Ends(r, FALSE) /\ UNCHANGED tree
       ELSE /\ req' = [req EXCEPT ![r].op = "entry", ![r].todo = @ \ {c},
                                          ![r].late = IF Over(r) THEN @ \cup {c} ELSE @]
            /\ tree' = [tree EXCEPT ![c] = "absent"]

RmSelf(r) ==
  /\ At(r, "rm", "self")
  /\ LET p == req[r].path IN
       IF tree[p] = "absent" \/ (p = Root /\ tree[p] = "dir" /\ Present # {})
       THEN Ends(r, FALSE) /\ UNCHANGED tree
       ELSE /\ Ends(r, TRUE)
            /\ tree' = [tree EXCEPT ![p] = "absent"]

Operate(r) ==
  \/ Look(r) \/ Owner(r) \/ List(r) \/ OpenForRead(r) \/ ReadPiece(r) \/ Mkdir(r) \/ Parent(r)
  \/ Change(r) \/ WriteCheck(r) \/ WriteOpen(r) \/ WriteContent(r)
  \/ RmBegin(r) \/ RmEntry(r) \/ RmChild(r) \/ RmSelf(r)

Next == \E r \in Req : Start(r) \/ Check(r) \/ Infos(r) \/ Receive(r) \/ Expire(r) \/ GiveUp(r) \/ Operate(r)

\* The runtime gives the handlers and their timers their turn; the disk may
\* never answer, neither to an operation nor to Check and Infos.
Fairness == \A r \in Req : WF_fsVars(Receive(r)) /\ WF_fsVars(Expire(r)) /\ WF_fsVars(GiveUp(r))

Spec == Init /\ [][Next]_fsVars /\ Fairness

-----------------------------------------------------------------------------
\* Every request is answered, though the disk hang for ever in any of the timed
\* operations, unless its handler itself never comes back from a call that has no
\* timer (fs.go:202, 209, 389; for chown 662).
Answered == \A r \in Req : []<>~Waiting(r) \/ <>[]Untimed(r)

\* A removal whose time is over removes one entry more at most (removeAllCtx,
\* fs.go:81-82: the client is not told "timed out" while the tree goes on
\* disappearing).
RemovalStops == \A r \in Req : Cardinality(req[r].late) <= 1

\* The same for a write: it does not open the file when its time is over
\* ("timed out, and the disk changed", fs.go:515).  The code looks before it
\* opens, so the two can still meet.
TimedOutUntouched ==
  [][\A r \in Req : At(r, "write", "open") /\ req[r].answered => UNCHANGED tree]_fsVars
=============================================================================
