------------------------------ MODULE FileTrace ------------------------------
(***************************************************************************)
(* The files a conversation keeps in view (tools/tools/trace/trace.go,     *)
(* cache.go) and the edits made to them (writeFile,                        *)
(* tools/tools/edit/edit.go): the Traces table, its copy in the session,   *)
(* the contents confirmed when a request is built, and the user who        *)
(* changes the same files outside.                                         *)
(*                                                                         *)
(* One goroutine carries out the conversation's tools and builds its       *)
(* requests.  Meanwhile a prompt may send the sub-agent away: each step of *)
(* an operation then goes on with the agent of that moment.                *)
(*                                                                         *)
(* A relative path names one file per agent, that under the agent's bind   *)
(* path.  A content is a number, 0 that of no file; two files may have the *)
(* same one.  Errors of the database are left out.                         *)
(***************************************************************************)
EXTENDS Integers, FiniteSets

CONSTANTS Agent, Main,  \* agents of the session; the main one
          File,         \* relative paths of files
          Temp,         \* paths under @temp/, kept in the database
          MaxContent,   \* contents a file may have
          MaxDone,      \* bound on done
          None

Path    == File \cup Temp
Content == 1..MaxContent

VARIABLES disk,      \* disk[a][f]: content of the file, 0 if there is none
          rows,      \* table Traces: rows[a][p] is last_content or None
          cache,     \* traceCache: cache[a] is None or a copy of rows[a]
          confirmed, \* TempKeyTraceConfirmedContent, by path alone
          events,    \* reads and edits of a path in the replayed history
          now,       \* session.NowAgent
          leaving,   \* the agent DeactivateAgent is summing up
          op,        \* the operation under way
          seen,      \* history: the content last shown of a file, or made by an edit of it
          foreign,   \* history: what is confirmed was written by the user, into an edit
          torn,      \* history: the main agent's copy was stored with another's rows
          done       \* operations begun, agents started, sessions opened, writes of the user

traceVars == <<disk, rows, cache, confirmed, events, now, leaving, op, seen, foreign, torn, done>>

known  == <<confirmed, seen, foreign>>
traces == <<rows, cache, events, torn>>
agents == <<now, leaving>>

\* of is the agent whose folder the operation works in, found the traces it took,
\* whose they are, kept the files that may be shown by a difference.
NoOp == [kind |-> "none", at |-> "idle", path |-> None, of |-> Main, read |-> 0,
         found |-> None, whose |-> Main, kept |-> {}]

Init ==
  /\ disk = [a \in Agent |-> [f \in File |-> 1]]
  /\ rows = [a \in Agent |-> [p \in Path |-> None]]
  /\ cache = [a \in Agent |-> None]
  /\ confirmed = [p \in Path |-> None]
  /\ events = [a \in Agent |-> [p \in Path |-> 0]]
  /\ now = Main /\ leaving = None
  /\ op = NoOp
  /\ seen = [a \in Agent |-> [p \in Path |-> None]]
  /\ foreign = [p \in Path |-> FALSE]
  /\ torn = FALSE /\ done = 0

Traced(a) == {p \in Path : rows[a][p] # None}

Counted == done < MaxDone /\ done' = done + 1
Begins(kind, at, path, content) ==
  /\ Counted
  /\ op.at = "idle"
  /\ op' = [NoOp EXCEPT !.kind = kind, !.at = at, !.path = path, !.of = now, !.read = content]
Goes(at) == op' = [op EXCEPT !.at = at]

\* Somebody else changes or removes the file under some agent's path.
UserWrites(a, f) ==
  /\ Counted
  /\ \E c \in Content \cup {0} : disk' = [disk EXCEPT ![a][f] = c]
  /\ UNCHANGED <<traces, known, agents, op>>

-----------------------------------------------------------------------------
(* The read tool, and the end of every tool that traces: Trace              *)

Read(f) ==
  /\ disk[now][f] # 0 /\ Begins("read", "count", f, disk[now][f])
  /\ UNCHANGED <<disk, traces, known, agents>>

\* Mutant of Unread: the copy is not read again.
UnreadStale(p) ==
  /\ op.at = "idle" /\ rows[now][p] # None
  /\ rows' = [rows EXCEPT ![now][p] = None]
  /\ UNCHANGED <<disk, cache, events, torn, known, agents, op, done>>

Unread(p) ==
  /\ Begins("unread", "find", p, 0) /\ rows[now][p] # None
  /\ rows' = [rows EXCEPT ![now][p] = None]
  /\ UNCHANGED <<disk, cache, events, torn, known, agents>>

\* AddTempObject: the output of a tool, traced without a last content.
AddTemp(t) ==
  /\ Begins("temp", "count", t, 0)
  /\ UNCHANGED <<disk, traces, known, agents>>

\* A file traced already stays as it is; the copy is read again anyway.
Count ==
  /\ op.at = "count"
  /\ Goes(IF rows[now][op.path] = None THEN "record" ELSE "find")
  /\ UNCHANGED <<disk, traces, known, agents, done>>

Record ==
  /\ op.at = "record" /\ Goes("find")
  /\ rows' = [rows EXCEPT ![now][op.path] = op.read]
  /\ UNCHANGED <<disk, cache, events, torn, known, agents, done>>

Find ==
  /\ op.at = "find"
  /\ op' = [op EXCEPT !.at = "store", !.read = 0, !.found = rows[now], !.whose = now]
  /\ UNCHANGED <<disk, traces, known, agents, done>>

\* The traces found are stored for the agent of now, whoever it was before.
Store ==
  /\ op.at = "store"
  /\ cache' = [cache EXCEPT ![now] = op.found]
  /\ torn' = IF now = Main THEN op.whose # Main ELSE torn
  /\ events' = IF op.kind \in {"read", "unread", "edit"}
               THEN [events EXCEPT ![now][op.path] = IF @ = 2 THEN 2 ELSE @ + 1] ELSE events
  /\ op' = IF op.kind \in {"edit", "build"}
           THEN [op EXCEPT !.at = IF op.kind = "edit" THEN "traced" ELSE "take", !.found = None,
                           !.whose = Main]
           ELSE NoOp
  /\ UNCHANGED <<disk, rows, known, agents, done>>

-----------------------------------------------------------------------------
(* Building a request: RenderTraceBlocks and insertEventContentBlocks       *)

Build ==
  /\ Begins("build", "load", None, 0)
  /\ UNCHANGED <<disk, traces, known, agents>>

Load ==
  /\ op.at = "load" /\ Goes(IF cache[now] = None THEN "find" ELSE "take")
  /\ UNCHANGED <<disk, traces, known, agents, done>>

\* Without a copy of the agent's the request fails.
Take ==
  /\ op.at = "take"
  /\ op' = IF cache[now] = None THEN NoOp ELSE [op EXCEPT !.at = "show", !.found = cache[now]]
  /\ UNCHANGED <<disk, traces, known, agents, done>>

\* Only files that can be read now are shown.
Shown == {f \in File : op.found[f] # None /\ disk[op.of][f] # 0}

\* Plan 2, an old block and a diff, needs an old content that differs.
Differs(f) == op.found[f] \notin {0, disk[op.of][f]}

\* A file of an event needs an earlier event to put the old block behind.
MayKeep(f) == Differs(f) /\ events[op.of][f] # 1

\* Their cost, the age of the cache and the diff's length pick those of plan 2 among the ones
\* that may keep it.  The full content of the others is stored in the table alone.
Show ==
  /\ op.at = "show"
  /\ \E kept \in SUBSET {f \in Shown : MayKeep(f)} :
       /\ op' = IF kept = {} THEN NoOp
                ELSE [NoOp EXCEPT !.kind = "build", !.at = "advance", !.kept = kept]
       /\ rows' = [rows EXCEPT ![now] = [p \in Path |->
            IF p \in Shown \ kept /\ @[p] # None THEN disk[op.of][p] ELSE @[p]]]
  /\ confirmed' = [p \in Path |-> IF p \in Shown THEN disk[op.of][p] ELSE confirmed[p]]
  /\ seen' = [seen EXCEPT ![op.of] = [p \in Path |->
                IF p \in Shown THEN disk[op.of][p] ELSE @[p]]]
  /\ foreign' = [p \in Path |-> p \notin Shown /\ foreign[p]]
  /\ UNCHANGED <<disk, cache, events, torn, agents, done>>

\* AdvanceTraceCache: files of plan 2 that fall back to the full content when the
\* blocks are inserted.  A copied row of another agent's is left alone.
Advance ==
  /\ op.at = "advance" /\ op' = NoOp
  /\ \E back \in SUBSET op.kept :
       LET Advanced(held) ==
             [p \in Path |-> IF p \in back /\ held[p] # None THEN confirmed[p] ELSE held[p]]
       IN /\ rows' = [rows EXCEPT ![now] = Advanced(@)]
          /\ cache' = IF cache[now] = None \/ (now = Main /\ torn) THEN cache
                      ELSE [cache EXCEPT ![now] = Advanced(@)]
  /\ UNCHANGED <<disk, events, torn, known, agents, done>>

-----------------------------------------------------------------------------
(* The edit tool                                                            *)

\* The file is read; the new text is computed from what was read here.
EditOpens(f) ==
  /\ Begins("edit", "opened", f, disk[now][f])
  /\ UNCHANGED <<disk, traces, known, agents>>

\* Mutant of EditChecks: CheckEditContent is not called.
EditChecksBlind ==
  /\ op.at = "opened" /\ Goes("checked")
  /\ UNCHANGED <<disk, traces, known, agents, done>>

\* It is read again and compared with the content confirmed, if any.
EditChecks ==
  /\ op.at = "opened" /\ confirmed[op.path] \in {None, disk[op.of][op.path]}
  /\ Goes("checked")
  /\ UNCHANGED <<disk, traces, known, agents, done>>

EditWrites ==
  /\ op.at = "checked" /\ Goes("written")
  /\ \E c \in Content : /\ disk' = [disk EXCEPT ![op.of][op.path] = c]
                        /\ seen' = [seen EXCEPT ![op.of][op.path] = c]
  /\ UNCHANGED <<traces, confirmed, foreign, agents, done>>

\* Trace, by the relative path: in the folder of the agent of now.
EditTraces ==
  /\ op.at = "written"
  /\ op' = IF disk[now][op.path] = 0 THEN [op EXCEPT !.at = "traced"]
           ELSE [op EXCEPT !.at = "count", !.read = disk[now][op.path]]
  /\ UNCHANGED <<disk, traces, known, agents, done>>

\* The formatter of the language server rewrites what it finds.
EditFormats ==
  /\ op.at = "traced" /\ Goes("formatted") /\ disk[op.of][op.path] # 0
  /\ \E c \in Content :
       /\ disk' = [disk EXCEPT ![op.of][op.path] = c]
       /\ seen' = IF disk[op.of][op.path] = seen[op.of][op.path]
                  THEN [seen EXCEPT ![op.of][op.path] = c] ELSE seen
  /\ UNCHANGED <<traces, confirmed, foreign, agents, done>>

\* The file is read once more and confirmed: the edit's own writing, the
\* formatter's, or what the user wrote meanwhile.
EditConfirms ==
  /\ op.at \in {"traced", "formatted"} /\ op' = NoOp
  /\ LET held  == disk[op.of][op.path]
         made  == seen[op.of][op.path]
         final == IF held = 0 THEN made ELSE held
     IN /\ confirmed' = [confirmed EXCEPT ![op.path] = final]
        /\ foreign' = [foreign EXCEPT ![op.path] = final # made]
  /\ UNCHANGED <<disk, traces, seen, agents, done>>

-----------------------------------------------------------------------------
(* Summaries and agents                                                     *)

\* The traces without a read or edit behind the summary are deleted.
Forget(a, gone) == /\ rows' = [rows EXCEPT ![a] = [p \in Path |->
                                 IF p \in gone THEN None ELSE @[p]]]
                   /\ events' = [events EXCEPT ![a] = [p \in Path |->
                                   IF p \in gone THEN 0 ELSE @[p]]]

Summarise ==
  /\ Begins("summary", "summary", None, 0)
  /\ UNCHANGED <<disk, traces, known, agents>>

\* SummarySession, once the model has answered: the copies of all agents are dropped.
Summarised ==
  /\ op.at = "summary" /\ op' = NoOp
  /\ \E gone \in SUBSET Traced(op.of) : Forget(op.of, gone)
  /\ cache' = [a \in Agent |-> None] /\ torn' = FALSE
  /\ UNCHANGED <<disk, known, agents, done>>

\* An edit that is refused or cancelled, a summary the model does not give.
Fails ==
  /\ op.at \in {"opened", "checked", "summary"} /\ op' = NoOp
  /\ UNCHANGED <<disk, traces, known, agents, done>>

Activate(a) ==
  /\ Counted
  /\ op.at = "idle" /\ leaving = None /\ now = Main /\ a # Main
  /\ now' = a
  /\ UNCHANGED <<disk, traces, known, leaving, op>>

\* DeactivateAgent: by the agent's tool, or by a prompt whatever is under way.
Deactivate ==
  /\ now # Main /\ leaving = None
  /\ now' = Main /\ leaving' = now
  /\ UNCHANGED <<disk, traces, known, op, done>>

\* Its summary, if there is one, is stored later; no copy is dropped.
Deactivated ==
  /\ leaving # None /\ leaving' = None
  /\ \E gone \in SUBSET Traced(leaving) : Forget(leaving, gone)
  /\ UNCHANGED <<disk, cache, torn, known, now, op, done>>

\* The session is opened anew (a release or a restart lies between).
Reopen ==
  /\ Counted
  /\ cache' = [a \in Agent |-> None] /\ torn' = FALSE
  /\ confirmed' = [p \in Path |-> None] /\ foreign' = [p \in Path |-> FALSE]
  /\ op' = NoOp /\ leaving' = None
  /\ UNCHANGED <<disk, rows, events, seen, now>>

Next ==
  \/ \E a \in Agent, f \in File : UserWrites(a, f)
  \/ \E f \in File : Read(f) \/ EditOpens(f)
  \/ \E p \in Path : Unread(p)
  \/ \E t \in Temp : AddTemp(t)
  \/ Count \/ Record \/ Find \/ Store
  \/ Build \/ Load \/ Take \/ Show \/ Advance
  \/ EditChecks \/ EditWrites \/ EditTraces \/ EditFormats \/ EditConfirms
  \/ Summarise \/ Summarised \/ Fails \/ Deactivate \/ Deactivated \/ Reopen
  \/ \E a \in Agent : Activate(a)

Spec == Init /\ [][Next]_traceVars

-----------------------------------------------------------------------------
(* Properties                                                               *)

TypeOK ==
  /\ DOMAIN disk = Agent /\ DOMAIN rows = Agent
  /\ \A a \in Agent : cache[a] = None \/ DOMAIN cache[a] = Path
  /\ now \in Agent /\ leaving \in Agent \cup {None}
  /\ op.at \in {"idle", "count", "record", "find", "store", "load", "take", "show", "advance",
                "opened", "checked", "written", "traced", "formatted", "summary"}

\* An edit of a file that a request of this session showed starts from the text
\* that was shown last of it or that an edit made.  Contents are confirmed by
\* relative path for all agents (CheckEditContent), so it may be the equal text
\* of another agent's file of that name; only if no other was ever shown is it
\* the agent's own.  Two windows are left: the user writes between the two
\* readings of the file (edit.go:544, 581), or between an edit and its last
\* reading (edit.go:633, 662), and the text is confirmed unshown.
EditsWhatItSaw ==
  [][EditChecks /\ confirmed[op.path] # None
       /\ ~foreign[op.path] /\ op.read = disk[op.of][op.path]
     => \E a \in Agent : op.read = seen[a][op.path]]_traceVars

\* Whenever it is used, the main conversation's copy of the traces lists the
\* files of the table.  One thing spoils it, until the next operation or summary
\* renews it: a prompt sends a sub-agent away after its rows were found and
\* before they are stored.
MainCacheIsTable ==
  op.at \in {"idle", "take"} /\ cache[Main] # None /\ ~torn
    => {p \in Path : cache[Main][p] # None} = Traced(Main)

\* The same without that exception.  The code does not keep it (trace.go:358,
\* 369): the main conversation then shows the sub-agent's files.
MainCacheIsOwn == ~torn
=============================================================================
