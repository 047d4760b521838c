------------------------------ MODULE IndexStore ------------------------------
(***************************************************************************)
(* What RunIndex, the embedding worker and the clean and cancel commands   *)
(* do to the tables of .alkaid0/codebase.sqlite (src/context/codebase).    *)
(* The queue's and the worker's own protocol is CodebaseIndex; here a      *)
(* worker is always there, and what counts is which rows they leave.       *)
(*                                                                         *)
(* A file is a version: Symbols[v] its symbols, each with its text (the    *)
(* signature, what is embedded) and its body (the code, what a search      *)
(* gives back), v both of them for the whole file.  A hash is as good as   *)
(* the text it is of.  codebase_items are rows [id, path, symbol, text,    *)
(* body], codebase_vec rows [id, text, model] for the vector that model    *)
(* gave for text.                                                          *)
(***************************************************************************)
EXTENDS Naturals, Sequences, FiniteSets, SequencesExt

CONSTANTS
  Path,        \* the files RunIndex may find; the order of the walk is any
  Symbols,     \* version -> <<[name, text, body]>>; 0, no file, is not in its domain
  Model,       \* the configured models; NoModel: words only
  NoModel, Nobody,
  MaxEdits, MaxRuns, MaxBreaks  \* bounds: edits; runs; failures, cancels, cleans, restarts

VARIABLES
  files,       \* path -> its version on disk, 0 when it does not exist
  items, vectors, nextId,
  lastRow,     \* last_insert_rowid() of the connection
  model,       \* cdb.modelName, and the model_name of codebase_meta
  run,         \* RunIndex: where it is, what it has to do, ctx.Done()
  queue, embedding,
  edits, runs, breaks,
  whole        \* history: nothing has failed or got between since the tables were empty

vars == <<files, items, vectors, nextId, lastRow, model, run, queue, embedding, edits,
          runs, breaks, whole>>

Versions == DOMAIN Symbols
Whole == ""    \* the symbol of the row for the whole file

Off == [pc |-> "off", todo |-> {}, scanned |-> <<>>, file |-> Nobody, symbols |-> <<>>,
        gone |-> {}, cancelled |-> FALSE]

Row(p, s)   == {r \in items : r.path = p /\ r.symbol = s}
Same(p, s, text) == \E r \in Row(p, s) : r.text = text
Task(p, s, text, body) == [path |-> p, symbol |-> s, text |-> text, body |-> body]
FileTask(p, v) == Task(p, Whole, v, v)
Idle        == queue = <<>> /\ embedding = Nobody

Init ==
  /\ files \in [Path -> {0} \cup Versions]
  /\ items = {} /\ vectors = {} /\ nextId = 1 /\ lastRow = 0
  /\ model \in Model
  /\ run = Off /\ queue = <<>> /\ embedding = Nobody
  /\ edits = 0 /\ runs = 0 /\ breaks = 0 /\ whole = TRUE

----------------------------------------------------------------------------
(* The world. *)

\* A file is written or deleted.  During a run the index cannot be expected to match.
Edit ==
  /\ edits < MaxEdits
  /\ edits' = edits + 1
  /\ \E p \in Path, v \in {0} \cup Versions :
       /\ v # files[p]
       /\ files' = [files EXCEPT ![p] = v]
  /\ whole' = (whole /\ run.pc = "off")
  /\ UNCHANGED <<items, vectors, nextId, lastRow, model, run, queue, embedding, runs, breaks>>

----------------------------------------------------------------------------
(* RunIndex. *)

\* The first pass: what the tables know, and the files that pass the filters, read.
StartIndex ==
  /\ run.pc = "off"
  /\ runs < MaxRuns /\ runs' = runs + 1
  /\ LET found == {p \in Path : files[p] # 0}
     IN  run' = [Off EXCEPT !.pc = "files", !.todo = found,
                            !.scanned = [p \in found |-> files[p]],
                            !.gone = {r.path : r \in items} \ found]
  /\ whole' = (whole /\ Idle)
  /\ UNCHANGED <<files, items, vectors, nextId, lastRow, model, queue, embedding, edits, breaks>>

\* CleanSymbols: the rows of symbols the file no longer has, and their vectors.
Orphans(p, active) == {r \in items : r.path = p /\ r.symbol # Whole /\ r.symbol \notin active}
\* Mutant of Delete: the rows themselves stay.
DeleteVectors(rows) ==
  /\ UNCHANGED items
  /\ vectors' = {v \in vectors : \A r \in rows : r.id # v.id}

Delete(rows) ==
  /\ items' = items \ rows
  /\ vectors' = {v \in vectors : \A r \in rows : r.id # v.id}

\* The loop looks at ctx only here.
Interrupted ==
  /\ run.pc = "files" /\ run.todo # {} /\ run.cancelled
  /\ run' = Off
  /\ UNCHANGED <<files, items, vectors, nextId, lastRow, model, queue, embedding, edits, runs,
                 breaks, whole>>

\* A file whose text is that of its row is left out.
SkipFile(p) ==
  /\ Same(p, Whole, run.scanned[p])
  /\ run' = [run EXCEPT !.todo = @ \ {p}]
  /\ UNCHANGED <<items, vectors, queue, whole>>

\* Without symbols the file itself is queued.
WholeFile(p) ==
  /\ queue' = Append(queue, FileTask(p, run.scanned[p]))
  /\ run' = [run EXCEPT !.todo = @ \ {p}]
  /\ whole' = (whole /\ {r \in items : r.path = p /\ r.symbol # Whole} = {}
                     /\ Symbols[run.scanned[p]] = <<>>)
  /\ UNCHANGED <<items, vectors>>

FileWithSymbols(p, found) ==
  /\ Delete(Orphans(p, {s.name : s \in ToSet(found)}))
  /\ run' = [run EXCEPT !.pc = "symbols", !.todo = @ \ {p}, !.file = p, !.symbols = found]
  /\ UNCHANGED <<queue, whole>>

\* The symbols are those of the file as it is now: the language server reads it again,
\* unless it fails.
NextFile ==
  /\ run.pc = "files" /\ ~run.cancelled
  /\ \E p \in run.todo :
       \/ SkipFile(p)
       \/ /\ ~Same(p, Whole, run.scanned[p])
          /\ \/ WholeFile(p)
             \/ /\ files[p] # 0 /\ Symbols[files[p]] # <<>>
                /\ FileWithSymbols(p, Symbols[files[p]])
  /\ UNCHANGED <<files, nextId, lastRow, model, embedding, edits, runs, breaks>>

\* One symbol of the file, queued unless its row is of the same text, whatever has become
\* of its body; after the last of them the file itself.
NextSymbol ==
  /\ run.pc = "symbols"
  /\ \/ /\ run.symbols = <<>>
        /\ queue' = Append(queue, FileTask(run.file, run.scanned[run.file]))
        /\ run' = [run EXCEPT !.pc = "files", !.file = Nobody]
     \/ /\ run.symbols # <<>>
        /\ LET s == Head(run.symbols)
           IN  queue' = IF Same(run.file, s.name, s.text) THEN queue
                        ELSE Append(queue, Task(run.file, s.name, s.text, s.body))
        /\ run' = [run EXCEPT !.symbols = Tail(@)]
  /\ UNCHANGED <<files, items, vectors, nextId, lastRow, model, embedding, edits, runs, breaks,
                 whole>>

\* RemoveFile for each file the tables knew and the walk did not meet, then the end.
RemoveGone ==
  /\ run.pc = "files" /\ run.todo = {}
  /\ \/ /\ run.gone = {}
        /\ run' = Off
        /\ UNCHANGED <<items, vectors>>
     \/ \E p \in run.gone :
          /\ run' = [run EXCEPT !.gone = @ \ {p}]
          /\ Delete({r \in items : r.path = p})
  /\ UNCHANGED <<files, nextId, lastRow, model, queue, embedding, edits, runs, breaks, whole>>

----------------------------------------------------------------------------
(* The worker. *)

\* embedAndStore up to the call of the model: a row of the same text gets the body alone.
Pop ==
  /\ embedding = Nobody /\ queue # <<>>
  /\ LET t == Head(queue)
     IN  IF Same(t.path, t.symbol, t.text)
         THEN /\ embedding' = Nobody
              /\ items' = {IF r \in Row(t.path, t.symbol) THEN [r EXCEPT !.body = t.body] ELSE r : r \in items}
         ELSE embedding' = t /\ UNCHANGED items
  /\ queue' = Tail(queue)
  /\ UNCHANGED <<files, vectors, nextId, lastRow, model, run, edits, runs, breaks, whole>>

\* The INSERT ... ON CONFLICT DO UPDATE: the row keeps its id when there was one.
Upserted(t) ==
  IF Row(t.path, t.symbol) = {}
  THEN items \cup {[id |-> nextId, path |-> t.path, symbol |-> t.symbol, text |-> t.text, body |-> t.body]}
  ELSE {IF r \in Row(t.path, t.symbol) THEN [r EXCEPT !.text = t.text, !.body = t.body] ELSE r : r \in items}

\* res.LastInsertId(): SQLite moves last_insert_rowid for an insert and not for an update.
InsertId(t) == IF Row(t.path, t.symbol) = {} THEN nextId ELSE lastRow

Store ==
  /\ embedding # Nobody
  /\ items' = Upserted(embedding)
  /\ nextId' = IF Row(embedding.path, embedding.symbol) = {} THEN nextId + 1 ELSE nextId
  /\ lastRow' = InsertId(embedding)
  /\ vectors' = IF model = NoModel THEN vectors
                ELSE {v \in vectors : v.id # InsertId(embedding)}
                       \cup {[id |-> InsertId(embedding), text |-> embedding.text, model |-> model]}
  /\ embedding' = Nobody
  /\ UNCHANGED <<files, model, run, queue, edits, runs, breaks, whole>>

\* The model does not answer, or the tables do not: the task is logged and gone.
Fail ==
  /\ embedding # Nobody
  /\ embedding' = Nobody
  /\ breaks < MaxBreaks /\ breaks' = breaks + 1
  /\ whole' = FALSE
  /\ UNCHANGED <<files, items, vectors, nextId, lastRow, model, run, queue, edits, runs>>

----------------------------------------------------------------------------
(* Commands and restarts. *)

\* CancelIndex: the run stops at its next file, the worker drops its task and the queue is
\* emptied.  What the run still queues for its file is worked off all the same.
Cancel ==
  /\ breaks < MaxBreaks /\ breaks' = breaks + 1
  /\ queue' = <<>> /\ embedding' = Nobody
  /\ run' = IF run.pc = "off" THEN run ELSE [run EXCEPT !.cancelled = TRUE]
  /\ whole' = (whole /\ run.pc = "off" /\ Idle)
  /\ UNCHANGED <<files, items, vectors, nextId, lastRow, model, edits, runs>>

\* dropTables and createTables.
Emptied == items' = {} /\ vectors' = {} /\ nextId' = 1

\* CleanDirectory cancels, but does not wait for RunIndex to notice.
Clean ==
  /\ breaks < MaxBreaks /\ breaks' = breaks + 1
  /\ Emptied
  /\ queue' = <<>> /\ embedding' = Nobody
  /\ run' = IF run.pc = "off" THEN run ELSE [run EXCEPT !.cancelled = TRUE]
  /\ whole' = (run.pc = "off")
  /\ UNCHANGED <<files, lastRow, model, edits, runs>>

\* The program starts again: ensureSchema keeps the tables if the model is theirs.
Reopen ==
  /\ breaks < MaxBreaks /\ breaks' = breaks + 1
  /\ run' = Off /\ queue' = <<>> /\ embedding' = Nobody /\ lastRow' = 0
  /\ model' \in Model
  /\ IF model' = model
     THEN /\ whole' = (whole /\ run.pc = "off" /\ Idle)
          /\ UNCHANGED <<items, vectors, nextId>>
     ELSE Emptied /\ whole' = TRUE
  /\ UNCHANGED <<files, edits, runs>>

Next ==
  \/ Edit \/ StartIndex \/ Interrupted \/ NextFile \/ NextSymbol \/ RemoveGone
  \/ Pop \/ Store \/ Fail
  \/ Cancel \/ Clean \/ Reopen

Spec == Init /\ [][Next]_vars

----------------------------------------------------------------------------
Wanted(p, v) ==
  {FileTask(p, v)} \cup {Task(p, s.name, s.text, s.body) : s \in ToSet(Symbols[v])}

Known(p) == {Task(r.path, r.symbol, r.text, r.body) : r \in {x \in items : x.path = p}}

\* Every row is of a text wanted and nothing wanted lacks one.  A symbol that the file
\* names twice has room for one: the row is of either text.
Matches(known, wanted) ==
  /\ \A t \in known : \E w \in wanted : w.symbol = t.symbol /\ w.text = t.text
  /\ \A w \in wanted : \E t \in known : t.symbol = w.symbol

\* Each row's body came with its text, from one version of the file.
OfOneVersion(p) == \A t \in Known(p) : \E v \in Versions : t \in Wanted(p, v)

\* RunIndex and the worker, left alone since the tables were empty or matched, get every
\* file's rows right: no symbol missing, none of an older text, none of a file that is gone,
\* and with each text a body that a version with that text had.  It need not be the body
\* of now, see BodiesMatch.
IndexMatches ==
  (whole /\ Idle /\ run.pc = "files" /\ run.todo = {} /\ run.gone = {} /\ ~run.cancelled)
    => \A p \in Path : /\ Matches(Known(p), IF files[p] = 0 THEN {} ELSE Wanted(p, files[p]))
                       /\ OfOneVersion(p)

\* worker.go:99: while the text is the same, the stored full_content is brought up to date.
\* RunIndex does not queue such a symbol (index.go:888), so a body that changes under the
\* same signature stays old; the code does not keep this.
BodiesMatch ==
  (whole /\ Idle /\ run.pc = "files" /\ run.todo = {} /\ run.gone = {} /\ ~run.cancelled)
    => \A p \in Path : files[p] # 0 => Known(p) \subseteq Wanted(p, files[p])

\* index.go:851: a file whose text is unchanged is left out, because its symbols are
\* unchanged too.
SkipIsSafe ==
  (run.pc = "files" /\ ~run.cancelled /\ Idle)
    => \A p \in run.todo : Same(p, Whole, run.scanned[p])
                             => Wanted(p, run.scanned[p]) \subseteq Known(p)

\* worker.go:164: the old vector goes if this is an update, then the new one is stored:
\* the vector under a row's id is that of the row's text.
VectorOfItsText ==
  \A v \in vectors, r \in items : v.id = r.id => v.text = r.text
=============================================================================
