-------------------------- MODULE MCProtocols_proofs --------------------------
(***************************************************************************)
(* The services that share nothing, proved beside one another as           *)
(* MCProtocols lets them run: for each an inductive invariant of its own   *)
(* next-state relation, and its property for any number of agents, files,  *)
(* connections, messages and requests.  That a step of the whole is a step *)
(* of a service, or leaves it alone, carries them over to Spec.            *)
(***************************************************************************)
EXTENDS MCProtocols, FiniteSetTheorems, SequenceTheorems, TLAPS

\* Whatever is active, each service takes one of its own steps or rests.
LEMMA StepsApart ==
  [Next]_allVars =>
    /\ [Lsp!Next]_lspVars /\ [Pipe!Next]_pipeVars /\ [Talk!Next]_talkVars
    /\ [Trace!Next]_traceVars /\ [Rpc!Next]_rpcVars /\ [Files!Next]_fileVars
    /\ [Store!Next]_storeVars /\ [Screen!Next]_screenVars /\ [Rounds!Next]_roundVars
  BY Zenon DEF Next, allVars

-----------------------------------------------------------------------------
(* The files in view (FileTrace).                                           *)

TraceAssumed == Main \in Agent /\ None \notin Nat /\ MaxContent \in Nat

FilePath == File \cup Temp
Content  == Nat \cup {None}
Traces   == [FilePath -> Content]

OpRec ==
  [kind : {"none", "read", "unread", "temp", "build", "edit", "summary"},
   at : {"idle", "count", "record", "find", "store", "load", "take", "show", "advance",
         "opened", "checked", "written", "traced", "formatted", "summary"},
   path : FilePath \cup {None}, of : Agent, read : Nat, found : Traces \cup {None},
   whose : Agent, kept : SUBSET FilePath]

\* Where an edit has written the file and not confirmed it.
Writing == {"written", "count", "record", "find", "store", "traced", "formatted"}

OpSound ==
  /\ op \in OpRec
  /\ op.kind = "edit" => op.path \in File
  /\ op.at \in {"opened", "checked", "written", "traced", "formatted"} => op.kind = "edit"
  /\ op.at \in {"count", "record"} => op.path \in FilePath
  /\ op.kind \in {"read", "unread", "temp"} => op.path \in FilePath
  /\ op.at \in {"store", "show"} => op.found \in Traces
  /\ op.at = "advance" => \A p \in op.kept : confirmed[p] # None

TraceTypes ==
  /\ disk \in [Agent -> [File -> Nat]]
  /\ rows \in [Agent -> Traces]
  /\ cache \in [Agent -> Traces \cup {None}]
  /\ confirmed \in Traces
  /\ seen \in [Agent -> Traces]
  /\ foreign \in [FilePath -> BOOLEAN] /\ torn \in BOOLEAN
  /\ now \in Agent /\ leaving \in (Agent \ {Main}) \cup {None}
  /\ OpSound

Names(x) == {p \in FilePath : x[p] # None}

\* The main agent's copy of the table, when there is one that is its own, except
\* while an operation of its has changed the table and is about to renew the copy.
CopyInv ==
  /\ cache[Main] # None /\ ~torn =>
       Names(cache[Main]) = Names(rows[Main]) \/ (op.at \in {"find", "store"} /\ now = Main)
  /\ op.at = "store" /\ op.whose = Main => now = Main /\ Names(op.found) = Names(rows[Main])

\* What is confirmed of a file, unless a user's writing slipped in, is the text last
\* shown or made of some agent's, except while an edit is on its way to confirm anew.
SeenInv ==
  \A f \in File : confirmed[f] # None /\ ~foreign[f] =>
    \/ \E a \in Agent : seen[a][f] = confirmed[f]
    \/ op.kind = "edit" /\ op.path = f /\ op.at \in Writing

TraceInv == TraceTypes /\ CopyInv /\ SeenInv

LEMMA IdleSound ==
  ASSUME TraceAssumed
  PROVE  Trace!NoOp \in OpRec /\ Trace!NoOp.at = "idle" /\ Trace!NoOp.kind = "none"
  BY DEF TraceAssumed, Trace!NoOp, OpRec

LEMMA InitTrace == ASSUME TraceAssumed PROVE Trace!Init => TraceInv
  <1> SUFFICES ASSUME Trace!Init PROVE TraceInv
    OBVIOUS
  <1>1. OpSound
    BY IdleSound DEF Trace!Init, OpSound
  <1>2. TraceTypes
    BY <1>1 DEF TraceAssumed, Trace!Init, Trace!Path, TraceTypes, FilePath, Content, Traces
  <1>3. CopyInv
    BY IdleSound DEF TraceAssumed, Trace!Init, CopyInv
  <1>4. SeenInv
    BY DEF Trace!Init, Trace!Path, SeenInv
  <1> QED BY <1>2, <1>3, <1>4 DEF TraceInv

\* The operation under way becomes x, and the rest stays.
LEMMA OpMoves ==
  ASSUME TraceInv, NEW x \in OpRec, op' = x,
         UNCHANGED <<disk, rows, cache, torn, confirmed, seen, foreign, now, leaving>>,
         x.kind = "edit" => x.path \in File,
         x.at \in {"opened", "checked", "written", "traced", "formatted"} => x.kind = "edit",
         x.at \in {"count", "record"} => x.path \in FilePath,
         x.kind \in {"read", "unread", "temp"} => x.path \in FilePath,
         x.at \in {"store", "show"} => x.found \in Traces,
         x.at # "advance",
         x.at = "store" => x.whose = now /\ x.found = rows[now],
         op.at \in {"find", "store"} => x.at \in {"find", "store"},
         op.kind = "edit" /\ op.at \in Writing =>
           x.kind = "edit" /\ x.path = op.path /\ x.at \in Writing
  PROVE  TraceInv'
  <1>1. TraceTypes'
    BY DEF TraceInv, TraceTypes, OpSound
  <1>2. CopyInv'
    BY DEF TraceInv, CopyInv
  <1>3. SeenInv'
    BY DEF TraceInv, SeenInv
  <1> QED BY <1>1, <1>2, <1>3 DEF TraceInv

\* An operation begins.
LEMMA BeginsKeeps ==
  ASSUME TraceAssumed, TraceInv,
         NEW kind \in {"read", "unread", "temp", "build", "edit", "summary"},
         NEW at \in {"count", "load", "opened", "summary"}, NEW path \in FilePath \cup {None},
         NEW content \in Nat, Trace!Begins(kind, at, path, content),
         UNCHANGED <<disk, rows, cache, torn, confirmed, seen, foreign, now, leaving>>,
         kind = "edit" => path \in File, kind \in {"read", "unread", "temp"} => path \in FilePath,
         at = "count" => path \in FilePath,
         at = "opened" => kind = "edit"
  PROVE  TraceInv'
  <1> DEFINE x == [Trace!NoOp EXCEPT !.kind = kind, !.at = at, !.path = path, !.of = now,
                                     !.read = content]
  <1>1. op.at = "idle" /\ op' = x
    BY DEF Trace!Begins
  <1>2. x \in OpRec /\ x.kind = kind /\ x.at = at /\ x.path = path
    BY DEF Trace!NoOp, OpRec, TraceAssumed, TraceInv, TraceTypes
  <1> HIDE DEF x
  <1> QED BY <1>1, <1>2, OpMoves DEF Writing

LEMMA BeginningsKeep ==
  ASSUME TraceAssumed, TraceInv,
         \/ \E f \in File : Trace!Read(f) \/ Trace!EditOpens(f)
         \/ \E t \in Temp : Trace!AddTemp(t)
         \/ Trace!Build \/ Trace!Summarise
  PROVE  TraceInv'
  <1>1. \A f \in File : f \in FilePath /\ disk[now][f] \in Nat
    BY DEF TraceInv, TraceTypes, FilePath
  <1>2. ASSUME NEW f \in File, Trace!Read(f) PROVE TraceInv'
    <2>1. /\ Trace!Begins("read", "count", f, disk[now][f])
          /\ UNCHANGED <<disk, rows, cache, torn, confirmed, seen, foreign, now, leaving>>
      BY <1>2 DEF Trace!Read, Trace!traces, Trace!known, Trace!agents
    <2> QED BY <1>1, <2>1, BeginsKeeps
  <1>3. ASSUME NEW f \in File, Trace!EditOpens(f) PROVE TraceInv'
    <2>1. /\ Trace!Begins("edit", "opened", f, disk[now][f])
          /\ UNCHANGED <<disk, rows, cache, torn, confirmed, seen, foreign, now, leaving>>
      BY <1>3 DEF Trace!EditOpens, Trace!traces, Trace!known, Trace!agents
    <2> QED BY <1>1, <2>1, BeginsKeeps
  <1>4. ASSUME NEW t \in Temp, Trace!AddTemp(t) PROVE TraceInv'
    <2>1. /\ Trace!Begins("temp", "count", t, 0) /\ t \in FilePath
          /\ UNCHANGED <<disk, rows, cache, torn, confirmed, seen, foreign, now, leaving>>
      BY <1>4 DEF Trace!AddTemp, Trace!traces, Trace!known, Trace!agents, FilePath
    <2> QED BY <2>1, BeginsKeeps
  <1>5. CASE Trace!Build
    <2>1. /\ Trace!Begins("build", "load", None, 0)
          /\ UNCHANGED <<disk, rows, cache, torn, confirmed, seen, foreign, now, leaving>>
      BY <1>5 DEF Trace!Build, Trace!traces, Trace!known, Trace!agents
    <2> QED BY <2>1, BeginsKeeps
  <1>6. CASE Trace!Summarise
    <2>1. /\ Trace!Begins("summary", "summary", None, 0)
          /\ UNCHANGED <<disk, rows, cache, torn, confirmed, seen, foreign, now, leaving>>
      BY <1>6 DEF Trace!Summarise, Trace!traces, Trace!known, Trace!agents
    <2> QED BY <2>1, BeginsKeeps
  <1> QED BY <1>2, <1>3, <1>4, <1>5, <1>6

\* A row of the agent of now is written or deleted, and the copy is about to be renewed.
LEMMA RowKeeps ==
  ASSUME TraceAssumed, TraceInv, NEW p \in FilePath, NEW content \in Content,
         rows' = [rows EXCEPT ![now][p] = content],
         NEW x \in OpRec, op' = x, x.at = "find",
         x.kind = "edit" => x.path \in File,
         x.kind \in {"read", "unread", "temp"} => x.path \in FilePath,
         UNCHANGED <<disk, cache, torn, confirmed, seen, foreign, now, leaving>>,
         op.at # "store", op.at # "find",
         op.kind = "edit" /\ op.at \in Writing => x.kind = "edit" /\ x.path = op.path
  PROVE  TraceInv'
  <1>1. /\ rows' \in [Agent -> Traces]
        /\ \A a \in Agent : a # now => rows'[a] = rows[a]
    BY DEF TraceInv, TraceTypes, Traces
  <1>2. TraceTypes'
    BY <1>1 DEF TraceInv, TraceTypes, OpSound
  <1>3. CopyInv'
    BY <1>1 DEF TraceAssumed, TraceInv, CopyInv, Names
  <1>4. SeenInv'
    BY DEF TraceInv, SeenInv, Writing
  <1> QED BY <1>2, <1>3, <1>4 DEF TraceInv

LEMMA UnreadKeeps ==
  ASSUME TraceAssumed, TraceInv, NEW p \in FilePath, Trace!Unread(p) PROVE TraceInv'
  <1> DEFINE x == [Trace!NoOp EXCEPT !.kind = "unread", !.at = "find", !.path = p, !.of = now, !.read = 0]
  <1>1. /\ op.at = "idle" /\ op' = x /\ rows' = [rows EXCEPT ![now][p] = None]
        /\ UNCHANGED <<disk, cache, torn, confirmed, seen, foreign, now, leaving>>
    BY DEF Trace!Unread, Trace!Begins, Trace!known, Trace!agents
  <1>2. x \in OpRec /\ x.kind = "unread" /\ x.at = "find" /\ x.path = p
    BY DEF Trace!NoOp, OpRec, TraceAssumed, TraceInv, TraceTypes
  <1> HIDE DEF x
  <1> QED BY <1>1, <1>2, RowKeeps DEF Content, Writing

LEMMA RecordKeeps == ASSUME TraceAssumed, TraceInv, Trace!Record PROVE TraceInv'
  <1> DEFINE x == [op EXCEPT !.at = "find"]
  <1>1. /\ op.at = "record" /\ op' = x /\ rows' = [rows EXCEPT ![now][op.path] = op.read]
        /\ UNCHANGED <<disk, cache, torn, confirmed, seen, foreign, now, leaving>>
    BY DEF Trace!Record, Trace!Goes, Trace!known, Trace!agents
  <1>2. /\ x \in OpRec /\ x.at = "find" /\ x.kind = op.kind /\ x.path = op.path
        /\ op.path \in FilePath /\ op.read \in Content /\ (op.kind = "edit" => op.path \in File)
    BY <1>1 DEF OpRec, TraceInv, TraceTypes, OpSound, Content
  <1> HIDE DEF x
  <1> QED BY <1>1, <1>2, RowKeeps

\* The steps that move the operation along and change nothing else.
LEMMA MovesKeep ==
  ASSUME TraceAssumed, TraceInv,
         \/ Trace!Count \/ Trace!Find \/ Trace!Load \/ Trace!Take \/ Trace!EditChecks
         \/ Trace!EditTraces \/ Trace!Fails
  PROVE  TraceInv'
  <1>1. UNCHANGED <<disk, rows, cache, torn, confirmed, seen, foreign, now, leaving>>
    BY DEF Trace!Count, Trace!Find, Trace!Load, Trace!Take, Trace!EditChecks, Trace!EditTraces,
           Trace!Fails, Trace!traces, Trace!known, Trace!agents
  <1>2. OpSound /\ op \in OpRec /\ now \in Agent /\ rows[now] \in Traces /\ cache[now] \in Traces \cup {None}
    BY DEF TraceInv, TraceTypes, OpSound
  <1>3. CASE Trace!Count
    <2>1. PICK at \in {"record", "find"} : op' = [op EXCEPT !.at = at]
      BY <1>3 DEF Trace!Count, Trace!Goes
    <2> DEFINE x == [op EXCEPT !.at = at]
    <2>2. x \in OpRec /\ x.at = at /\ x.kind = op.kind /\ x.path = op.path
      BY <1>2 DEF OpRec
    <2>3. op.at = "count"
      BY <1>3 DEF Trace!Count
    <2> HIDE DEF x
    <2>4. op' = x
      BY <2>1 DEF x
    <2> QED BY <1>1, <1>2, <2>2, <2>3, <2>4, OpMoves DEF OpSound, Writing
  <1>4. CASE Trace!Find
    <2> DEFINE x == [op EXCEPT !.at = "store", !.read = 0, !.found = rows[now], !.whose = now]
    <2>1. op.at = "find" /\ op' = x
      BY <1>4 DEF Trace!Find
    <2>2. /\ x \in OpRec /\ x.at = "store" /\ x.kind = op.kind /\ x.path = op.path
          /\ x.found = rows[now] /\ x.whose = now
      BY <1>2 DEF OpRec
    <2> HIDE DEF x
    <2> QED BY <1>1, <1>2, <2>1, <2>2, OpMoves DEF OpSound, Writing
  <1>5. CASE Trace!Load
    <2>1. PICK at \in {"find", "take"} : op' = [op EXCEPT !.at = at]
      BY <1>5 DEF Trace!Load, Trace!Goes
    <2> DEFINE x == [op EXCEPT !.at = at]
    <2>2. x \in OpRec /\ x.at = at /\ x.kind = op.kind /\ x.path = op.path
      BY <1>2 DEF OpRec
    <2>3. op.at = "load"
      BY <1>5 DEF Trace!Load
    <2> HIDE DEF x
    <2>4. op' = x
      BY <2>1 DEF x
    <2> QED BY <1>1, <1>2, <2>2, <2>3, <2>4, OpMoves DEF OpSound, Writing
  <1>6. CASE Trace!Take
    <2> DEFINE x == [op EXCEPT !.at = "show", !.found = cache[now]]
    <2>1. /\ op.at = "take"
          /\ op' = Trace!NoOp \/ (cache[now] # None /\ op' = x)
      BY <1>6 DEF Trace!Take
    <2>2. cache[now] # None => /\ x \in OpRec /\ x.at = "show" /\ x.kind = op.kind /\ x.path = op.path
                               /\ x.found \in Traces
      BY <1>2 DEF OpRec
    <2> HIDE DEF x
    <2>3. CASE op' = Trace!NoOp
      BY <1>1, <2>1, <2>3, IdleSound, OpMoves DEF Writing
    <2>4. CASE cache[now] # None /\ op' = x
      BY <1>1, <1>2, <2>1, <2>2, <2>4, OpMoves DEF OpSound, Writing
    <2> QED BY <2>1, <2>3, <2>4
  <1>7. CASE Trace!EditChecks
    <2> DEFINE x == [op EXCEPT !.at = "checked"]
    <2>1. op.at = "opened" /\ op' = x
      BY <1>7 DEF Trace!EditChecks, Trace!Goes
    <2>2. x \in OpRec /\ x.at = "checked" /\ x.kind = op.kind /\ x.path = op.path
      BY <1>2 DEF OpRec
    <2> HIDE DEF x
    <2> QED BY <1>1, <1>2, <2>1, <2>2, OpMoves DEF OpSound, Writing
  <1>8. CASE Trace!EditTraces
    <2>1. PICK at \in {"traced", "count"}, c \in Nat : op' = [op EXCEPT !.at = at, !.read = c]
      <3>1. CASE disk[now][op.path] = 0
        <4>1. op' = [op EXCEPT !.at = "traced"] /\ op.read \in Nat
          BY <1>2, <1>8, <3>1 DEF Trace!EditTraces, OpRec
        <4>2. op' = [op EXCEPT !.at = "traced", !.read = op.read]
          BY <1>2, <4>1 DEF OpRec
        <4> QED BY <4>1, <4>2
      <3>2. CASE disk[now][op.path] # 0
        <4>1. op.path \in File /\ disk[now][op.path] \in Nat
          BY <1>2, <1>8 DEF Trace!EditTraces, OpSound, TraceInv, TraceTypes
        <4> QED BY <1>8, <3>2, <4>1 DEF Trace!EditTraces
      <3> QED BY <3>1, <3>2
    <2> DEFINE x == [op EXCEPT !.at = at, !.read = c]
    <2>2. x \in OpRec /\ x.at = at /\ x.kind = op.kind /\ x.path = op.path
      BY <1>2 DEF OpRec
    <2>3. op.at = "written"
      BY <1>8 DEF Trace!EditTraces
    <2> HIDE DEF x
    <2>4. op' = x
      BY <2>1 DEF x
    <2>5. op.kind = "edit" /\ op.path \in FilePath
      BY <1>2, <2>3 DEF OpSound, FilePath
    <2> QED BY <1>1, <1>2, <2>2, <2>3, <2>4, <2>5, OpMoves DEF OpSound, Writing
  <1>9. CASE Trace!Fails
    <2>1. op.at \in {"opened", "checked", "summary"} /\ op' = Trace!NoOp
      BY <1>9 DEF Trace!Fails
    <2> QED BY <1>1, <2>1, IdleSound, OpMoves DEF Writing
  <1> QED BY <1>3, <1>4, <1>5, <1>6, <1>7, <1>8, <1>9

\* The copy is renewed: it is the table, or it is known to be another's.
LEMMA TraceStored == ASSUME TraceAssumed, TraceInv, Trace!Store PROVE TraceInv'
  <1>1. /\ op.at = "store" /\ cache' = [cache EXCEPT ![now] = op.found]
        /\ torn' = IF now = Main THEN op.whose # Main ELSE torn
        /\ UNCHANGED <<disk, rows, confirmed, seen, foreign, now, leaving>>
    BY DEF Trace!Store, Trace!known, Trace!agents
  <1>2. OpSound /\ op \in OpRec /\ now \in Agent /\ op.found \in Traces /\ torn \in BOOLEAN
        /\ cache \in [Agent -> Traces \cup {None}]
    BY <1>1 DEF TraceInv, TraceTypes, OpSound
  <1>3. PICK x \in OpRec :
          /\ op' = x
          /\ x.kind = "edit" => op.kind = "edit" /\ x.path = op.path
          /\ x.at = "traced" => x.kind = "edit"
          /\ op.kind = "edit" => x.kind = "edit" /\ x.path = op.path /\ x.at = "traced"
          /\ x.at \in {"idle", "traced", "take"} /\ x.kind \in {"none", "edit", "build"}
    <2> DEFINE y(at) == [op EXCEPT !.at = at, !.found = None, !.whose = Main]
    <2>1. \A at \in {"traced", "take"} : /\ y(at) \in OpRec /\ y(at).at = at /\ y(at).kind = op.kind
                                         /\ y(at).path = op.path
      BY <1>2 DEF OpRec, TraceAssumed
    <2>2. \/ op' = y("traced") /\ op.kind = "edit"
          \/ op' = y("take") /\ op.kind = "build"
          \/ op' = Trace!NoOp /\ op.kind # "edit"
      BY DEF Trace!Store
    <2> HIDE DEF y
    <2> QED BY <2>1, <2>2, IdleSound
  <1>4. cache' \in [Agent -> Traces \cup {None}] /\ torn' \in BOOLEAN
        /\ cache'[now] = op.found /\ \A a \in Agent : a # now => cache'[a] = cache[a]
    BY <1>1, <1>2
  <1>5. TraceTypes'
    BY <1>1, <1>2, <1>3, <1>4 DEF TraceInv, TraceTypes, OpSound
  <1>6. CopyInv'
    <2>1. CASE now = Main
      BY <1>1, <1>3, <1>4, <2>1 DEF TraceInv, CopyInv
    <2>2. CASE now # Main
      BY <1>1, <1>3, <1>4, <2>2 DEF TraceInv, CopyInv, TraceAssumed
    <2> QED BY <2>1, <2>2
  <1>7. SeenInv'
    BY <1>1, <1>3 DEF TraceInv, SeenInv, Writing
  <1> QED BY <1>5, <1>6, <1>7 DEF TraceInv

\* What a request shows is what is confirmed and seen; the rows have the names they had.
LEMMA ShowKeeps == ASSUME TraceAssumed, TraceInv, Trace!Show PROVE TraceInv'
  <1> DEFINE S == Trace!Shown
             D == [p \in FilePath |-> IF p \in S THEN disk[op.of][p] ELSE 0]
  <1>1. PICK kept \in SUBSET S :
          /\ op' = IF kept = {} THEN Trace!NoOp
                   ELSE [Trace!NoOp EXCEPT !.kind = "build", !.at = "advance", !.kept = kept]
          /\ rows' = [rows EXCEPT ![now] = [p \in FilePath |->
               IF p \in S \ kept /\ @[p] # None THEN disk[op.of][p] ELSE @[p]]]
    BY DEF Trace!Show, Trace!Path, FilePath
  <1>2. /\ op.at = "show"
        /\ confirmed' = [p \in FilePath |-> IF p \in S THEN disk[op.of][p] ELSE confirmed[p]]
        /\ seen' = [seen EXCEPT ![op.of] = [p \in FilePath |->
                      IF p \in S THEN disk[op.of][p] ELSE @[p]]]
        /\ foreign' = [p \in FilePath |-> p \notin S /\ foreign[p]]
        /\ UNCHANGED <<disk, cache, torn, now, leaving>>
    BY DEF Trace!Show, Trace!Path, FilePath, Trace!agents
  <1>3. /\ disk \in [Agent -> [File -> Nat]] /\ rows \in [Agent -> Traces] /\ confirmed \in Traces
        /\ seen \in [Agent -> Traces] /\ foreign \in [FilePath -> BOOLEAN]
        /\ now \in Agent /\ op.of \in Agent
    BY DEF TraceInv, TraceTypes, OpSound, OpRec
  <1>4. S \subseteq File /\ S \subseteq FilePath
    BY DEF Trace!Shown, FilePath
  <1> HIDE DEF S
  <1>5. \A p \in S : disk[op.of][p] \in Content /\ disk[op.of][p] # None
    BY <1>3, <1>4 DEF TraceAssumed, Content
  <1>6. /\ rows' \in [Agent -> Traces] /\ Names(rows'[now]) = Names(rows[now])
        /\ \A a \in Agent : a # now => rows'[a] = rows[a]
    BY <1>1, <1>3, <1>5 DEF Traces, Names
  <1>7. confirmed' \in Traces /\ seen' \in [Agent -> Traces] /\ foreign' \in [FilePath -> BOOLEAN]
    BY <1>2, <1>3, <1>5 DEF Traces
  <1>8. /\ op' \in OpRec /\ op'.kind \in {"none", "build"} /\ op'.at \in {"idle", "advance"}
        /\ op'.at = "advance" => op'.kept = kept
    BY <1>1, <1>4, IdleSound DEF TraceAssumed, Trace!NoOp, OpRec
  <1>9. TraceTypes'
    <2>1. op'.at = "advance" => \A p \in op'.kept : confirmed'[p] # None
      BY <1>1, <1>2, <1>4, <1>5, <1>8
    <2>2. OpSound'
      BY <1>8, <2>1 DEF OpSound
    <2> QED BY <1>2, <1>6, <1>7, <2>2 DEF TraceInv, TraceTypes
  <1>10. CopyInv'
    <2>1. Names(rows'[Main]) = Names(rows[Main])
      BY <1>6 DEF TraceAssumed
    <2>2. cache[Main] # None /\ ~torn => Names(cache[Main]) = Names(rows[Main])
      BY <1>2 DEF TraceInv, CopyInv
    <2> QED BY <1>2, <1>8, <2>1, <2>2 DEF CopyInv
  <1>11. SeenInv'
    <2> SUFFICES ASSUME NEW f \in File, confirmed'[f] # None, ~foreign'[f]
                 PROVE  \E a \in Agent : seen'[a][f] = confirmed'[f]
      BY DEF SeenInv
    <2>1. f \in FilePath
      BY DEF FilePath
    <2>2. CASE f \in S
      BY <1>2, <1>3, <2>1, <2>2
    <2>3. CASE f \notin S
      <3>1. confirmed'[f] = confirmed[f] /\ ~foreign[f]
        BY <1>2, <2>1, <2>3
      <3>2. PICK a \in Agent : seen[a][f] = confirmed[f]
        BY <1>2, <3>1 DEF TraceInv, SeenInv, Writing
      <3>3. seen'[a][f] = seen[a][f]
        BY <1>2, <1>3, <2>1, <2>3
      <3> QED BY <3>1, <3>2, <3>3
    <2> QED BY <2>2, <2>3
  <1> QED BY <1>9, <1>10, <1>11 DEF TraceInv

LEMMA AdvanceKeeps == ASSUME TraceAssumed, TraceInv, Trace!Advance PROVE TraceInv'
  <1> DEFINE A(held, back) ==
               [p \in FilePath |-> IF p \in back /\ held[p] # None THEN confirmed[p] ELSE held[p]]
  <1>1. PICK back \in SUBSET op.kept :
          /\ rows' = [rows EXCEPT ![now] = A(@, back)]
          /\ cache' = IF cache[now] = None \/ (now = Main /\ torn) THEN cache
                      ELSE [cache EXCEPT ![now] = A(@, back)]
    BY DEF Trace!Advance, Trace!Path, FilePath
  <1>2. /\ op.at = "advance" /\ op' = Trace!NoOp
        /\ UNCHANGED <<disk, torn, confirmed, seen, foreign, now, leaving>>
    BY DEF Trace!Advance, Trace!known, Trace!agents
  <1>3. /\ rows \in [Agent -> Traces] /\ cache \in [Agent -> Traces \cup {None}]
        /\ confirmed \in Traces /\ now \in Agent
    BY DEF TraceInv, TraceTypes
  <1>4. \A p \in back : confirmed[p] # None
    BY <1>1, <1>2 DEF TraceInv, TraceTypes, OpSound
  <1>5. \A held \in Traces : A(held, back) \in Traces /\ Names(A(held, back)) = Names(held)
    BY <1>3, <1>4 DEF Traces, Names
  <1> HIDE DEF A
  <1>6. rows' \in [Agent -> Traces] /\ \A a \in Agent : Names(rows'[a]) = Names(rows[a])
    BY <1>1, <1>3, <1>5
  <1>7. /\ cache' \in [Agent -> Traces \cup {None}]
        /\ cache[Main] # None => Names(cache'[Main]) = Names(cache[Main])
        /\ cache[Main] = None => cache'[Main] = None
    <2>1. CASE cache' = cache
      BY <1>3, <2>1
    <2>2. CASE cache[now] # None /\ cache' = [cache EXCEPT ![now] = A(@, back)]
      <3>1. cache[now] \in Traces
        BY <1>3, <2>2
      <3>2. /\ A(cache[now], back) \in Traces
            /\ Names(A(cache[now], back)) = Names(cache[now])
        BY <1>5, <3>1
      <3> QED BY <1>3, <2>2, <3>2 DEF TraceAssumed
    <2> QED BY <1>1, <2>1, <2>2
  <1>8. TraceTypes'
    BY <1>2, <1>6, <1>7, IdleSound DEF TraceInv, TraceTypes, OpSound
  <1>9. CopyInv'
    BY <1>2, <1>6, <1>7, IdleSound DEF TraceInv, CopyInv, TraceAssumed
  <1>10. SeenInv'
    BY <1>2, IdleSound DEF TraceInv, SeenInv, Writing
  <1> QED BY <1>8, <1>9, <1>10 DEF TraceInv

\* A file changes on the disk; what was seen of the file an edit has at hand may change with it.
LEMMA DiskKeeps ==
  ASSUME TraceAssumed, TraceInv, NEW a \in Agent, NEW f \in File, NEW c \in Nat,
         disk' = [disk EXCEPT ![a][f] = c],
         UNCHANGED <<rows, cache, torn, confirmed, foreign, now, leaving>>,
         \/ UNCHANGED <<op, seen>>
         \/ /\ op.kind = "edit" /\ op.path = f /\ op.at \in {"checked", "traced"}
            /\ \E at \in {"written", "formatted"} : op' = [op EXCEPT !.at = at]
            /\ seen' = [seen EXCEPT ![a][f] = c] \/ seen' = seen
  PROVE  TraceInv'
  <1>1. disk' \in [Agent -> [File -> Nat]]
    BY DEF TraceInv, TraceTypes
  <1>2. CASE UNCHANGED <<op, seen>>
    <2>1. TraceTypes'
      BY <1>1, <1>2 DEF TraceInv, TraceTypes, OpSound
    <2> QED BY <1>2, <2>1 DEF TraceInv, CopyInv, SeenInv
  <1>3. CASE /\ op.kind = "edit" /\ op.path = f /\ op.at \in {"checked", "traced"}
             /\ \E at \in {"written", "formatted"} : op' = [op EXCEPT !.at = at]
             /\ seen' = [seen EXCEPT ![a][f] = c] \/ seen' = seen
    <2>0. op \in OpRec /\ seen \in [Agent -> Traces] /\ f \in FilePath /\ c \in Content
      BY DEF TraceInv, TraceTypes, OpSound, FilePath, Content
    <2>1. /\ op' \in OpRec /\ op'.kind = "edit" /\ op'.path = f
          /\ op'.at \in {"written", "formatted"}
      BY <1>3, <2>0 DEF OpRec
    <2>2. /\ seen' \in [Agent -> Traces]
          /\ \A b \in Agent, g \in FilePath : g # f => seen'[b][g] = seen[b][g]
      BY <1>3, <2>0 DEF Traces
    <2>3. TraceTypes'
      BY <1>1, <2>1, <2>2 DEF TraceInv, TraceTypes, OpSound
    <2>4. CopyInv'
      BY <1>3, <2>1 DEF TraceInv, CopyInv
    <2>5. SeenInv'
      <3> SUFFICES ASSUME NEW g \in File, g # f, confirmed[g] # None, ~foreign[g]
                   PROVE  \E b \in Agent : seen'[b][g] = confirmed[g]
        BY <2>1 DEF SeenInv, Writing
      <3>1. PICK b \in Agent : seen[b][g] = confirmed[g]
        BY <1>3 DEF TraceInv, SeenInv
      <3> QED BY <2>2, <3>1 DEF FilePath
    <2> QED BY <2>3, <2>4, <2>5 DEF TraceInv
  <1> QED BY <1>2, <1>3

LEMMA DiskStepsKeep ==
  ASSUME TraceAssumed, TraceInv,
         \/ \E a \in Agent, f \in File : Trace!UserWrites(a, f)
         \/ Trace!EditWrites \/ Trace!EditFormats
  PROVE  TraceInv'
  <1>1. \A c \in Trace!Content \cup {0} : c \in Nat
    BY DEF Trace!Content, TraceAssumed
  <1>2. ASSUME NEW a \in Agent, NEW f \in File, Trace!UserWrites(a, f) PROVE TraceInv'
    <2>1. PICK c \in Trace!Content \cup {0} : disk' = [disk EXCEPT ![a][f] = c]
      BY <1>2 DEF Trace!UserWrites
    <2>2. UNCHANGED <<rows, cache, torn, confirmed, foreign, now, leaving, op, seen>>
      BY <1>2 DEF Trace!UserWrites, Trace!traces, Trace!known, Trace!agents
    <2> QED BY <1>1, <2>1, <2>2, DiskKeeps
  <1>3. op.at \in {"checked", "traced"} => op.kind = "edit" /\ op.path \in File /\ op.of \in Agent
    BY DEF TraceInv, TraceTypes, OpSound, OpRec
  <1>4. CASE Trace!EditWrites
    <2>1. PICK c \in Trace!Content : /\ disk' = [disk EXCEPT ![op.of][op.path] = c]
                                     /\ seen' = [seen EXCEPT ![op.of][op.path] = c]
      BY <1>4 DEF Trace!EditWrites
    <2>2. /\ op.at = "checked" /\ op' = [op EXCEPT !.at = "written"]
          /\ UNCHANGED <<rows, cache, torn, confirmed, foreign, now, leaving>>
      BY <1>4 DEF Trace!EditWrites, Trace!Goes, Trace!traces, Trace!agents
    <2> QED BY <1>1, <1>3, <2>1, <2>2, DiskKeeps
  <1>5. CASE Trace!EditFormats
    <2>1. PICK c \in Trace!Content :
            /\ disk' = [disk EXCEPT ![op.of][op.path] = c]
            /\ seen' = [seen EXCEPT ![op.of][op.path] = c] \/ seen' = seen
      BY <1>5 DEF Trace!EditFormats
    <2>2. /\ op.at = "traced" /\ op' = [op EXCEPT !.at = "formatted"]
          /\ UNCHANGED <<rows, cache, torn, confirmed, foreign, now, leaving>>
      BY <1>5 DEF Trace!EditFormats, Trace!Goes, Trace!traces, Trace!agents
    <2> QED BY <1>1, <1>3, <2>1, <2>2, DiskKeeps
  <1> QED BY <1>2, <1>4, <1>5

\* The edit confirms what it reads: its own text, or a foreign one.
LEMMA EditConfirmsKeeps == ASSUME TraceAssumed, TraceInv, Trace!EditConfirms PROVE TraceInv'
  <1> DEFINE f == op.path
             mine == seen[op.of][f]
             final == IF disk[op.of][f] = 0 THEN mine ELSE disk[op.of][f]
  <1>1. /\ op.at \in {"traced", "formatted"} /\ op' = Trace!NoOp
        /\ confirmed' = [confirmed EXCEPT ![f] = final]
        /\ foreign' = [foreign EXCEPT ![f] = final # mine]
        /\ UNCHANGED <<disk, rows, cache, torn, seen, now, leaving>>
    BY DEF Trace!EditConfirms, Trace!traces, Trace!agents
  <1>2. f \in File /\ f \in FilePath /\ op.of \in Agent
    BY <1>1 DEF TraceInv, TraceTypes, OpSound, OpRec, FilePath
  <1>3. /\ final \in Content /\ confirmed \in Traces /\ foreign \in [FilePath -> BOOLEAN]
        /\ (final # mine) \in BOOLEAN
    BY <1>2 DEF TraceInv, TraceTypes, Content, Traces
  <1>4. ~(final # mine) => final = seen[op.of][f]
    OBVIOUS
  <1> HIDE DEF f, mine, final
  <1>5. confirmed' \in Traces /\ foreign' \in [FilePath -> BOOLEAN]
    BY <1>1, <1>2, <1>3 DEF Traces
  <1>6. TraceTypes'
    BY <1>1, <1>5, IdleSound DEF TraceInv, TraceTypes, OpSound
  <1>7. CopyInv'
    BY <1>1, IdleSound DEF TraceInv, CopyInv
  <1>8. SeenInv'
    <2> SUFFICES ASSUME NEW g \in File, confirmed'[g] # None, ~foreign'[g]
                 PROVE  \E a \in Agent : seen'[a][g] = confirmed'[g]
      BY DEF SeenInv
    <2>1. CASE g = f
      BY <1>1, <1>2, <1>3, <1>4, <2>1 DEF Traces
    <2>2. CASE g # f
      <3>1. confirmed'[g] = confirmed[g] /\ foreign'[g] = foreign[g]
        BY <1>1, <1>2, <1>3, <2>2 DEF Traces, FilePath
      <3>2. op.path # g
        BY <2>2 DEF f
      <3> QED BY <1>1, <3>1, <3>2 DEF TraceInv, SeenInv
    <2> QED BY <2>1, <2>2
  <1> QED BY <1>6, <1>7, <1>8 DEF TraceInv

\* Rows of an agent are deleted: a sub-agent's that has left, or all copies are dropped.
LEMMA ForgetKeeps ==
  ASSUME TraceAssumed, TraceInv, NEW a \in Agent, NEW gone, Trace!Forget(a, gone)
  PROVE  /\ rows' \in [Agent -> Traces]
         /\ \A b \in Agent : b # a => rows'[b] = rows[b]
  <1> DEFINE r == [p \in FilePath |-> IF p \in gone THEN None ELSE rows[a][p]]
  <1>1. rows \in [Agent -> Traces] /\ r \in Traces
    BY DEF TraceInv, TraceTypes, Traces, Content
  <1>2. rows' = [rows EXCEPT ![a] = r]
    BY <1>1 DEF Trace!Forget, Trace!Path, FilePath
  <1> HIDE DEF r
  <1> QED BY <1>1, <1>2

LEMMA AgentsKeep ==
  ASSUME TraceAssumed, TraceInv,
         \/ Trace!Summarised \/ Trace!Deactivate \/ Trace!Deactivated \/ Trace!Reopen
         \/ \E a \in Agent : Trace!Activate(a)
  PROVE  TraceInv'
  <1>0. now \in Agent /\ op.of \in Agent /\ leaving \in (Agent \ {Main}) \cup {None}
    BY DEF TraceInv, TraceTypes, OpSound, OpRec
  <1>1. CASE Trace!Summarised
    <2>1. PICK gone : Trace!Forget(op.of, gone)
      BY <1>1 DEF Trace!Summarised
    <2>2. /\ op.at = "summary" /\ op' = Trace!NoOp /\ cache' = [a \in Agent |-> None] /\ torn' = FALSE
          /\ UNCHANGED <<disk, confirmed, seen, foreign, now, leaving>>
      BY <1>1 DEF Trace!Summarised, Trace!known, Trace!agents
    <2>3. rows' \in [Agent -> Traces]
      BY <1>0, <2>1, ForgetKeeps
    <2>4. TraceTypes'
      BY <2>2, <2>3, IdleSound DEF TraceInv, TraceTypes, OpSound
    <2>5. CopyInv'
      BY <2>2, IdleSound DEF CopyInv, TraceAssumed
    <2>6. SeenInv'
      BY <2>2, IdleSound DEF TraceInv, SeenInv, Writing
    <2> QED BY <2>4, <2>5, <2>6 DEF TraceInv
  <1>2. CASE Trace!Deactivate
    <2>1. /\ now # Main /\ leaving = None /\ now' = Main /\ leaving' = now
          /\ UNCHANGED <<disk, rows, cache, torn, confirmed, seen, foreign, op>>
      BY <1>2 DEF Trace!Deactivate, Trace!traces, Trace!known
    <2>2. TraceTypes'
      BY <1>0, <2>1 DEF TraceInv, TraceTypes, OpSound, TraceAssumed
    <2>3. CopyInv'
      BY <2>1 DEF TraceInv, CopyInv
    <2>4. SeenInv'
      BY <2>1 DEF TraceInv, SeenInv
    <2> QED BY <2>2, <2>3, <2>4 DEF TraceInv
  <1>3. CASE Trace!Deactivated
    <2>1. PICK gone : Trace!Forget(leaving, gone)
      BY <1>3 DEF Trace!Deactivated
    <2>2. /\ leaving \in Agent /\ leaving # Main /\ leaving' = None
          /\ UNCHANGED <<disk, cache, torn, confirmed, seen, foreign, now, op>>
      BY <1>0, <1>3 DEF Trace!Deactivated, Trace!known
    <2>3. rows' \in [Agent -> Traces] /\ rows'[Main] = rows[Main]
      BY <2>1, <2>2, ForgetKeeps DEF TraceAssumed
    <2>4. TraceTypes'
      BY <2>2, <2>3 DEF TraceInv, TraceTypes, OpSound
    <2>5. CopyInv'
      BY <2>2, <2>3 DEF TraceInv, CopyInv
    <2>6. SeenInv'
      BY <2>2 DEF TraceInv, SeenInv
    <2> QED BY <2>4, <2>5, <2>6 DEF TraceInv
  <1>4. CASE Trace!Reopen
    <2>1. /\ cache' = [a \in Agent |-> None] /\ torn' = FALSE
          /\ confirmed' = [p \in FilePath |-> None] /\ foreign' = [p \in FilePath |-> FALSE]
          /\ op' = Trace!NoOp /\ leaving' = None /\ UNCHANGED <<disk, rows, seen, now>>
      BY <1>4 DEF Trace!Reopen, Trace!Path, FilePath
    <2>2. TraceTypes'
      BY <2>1, IdleSound DEF TraceInv, TraceTypes, OpSound, Traces, Content
    <2>3. CopyInv'
      BY <2>1, IdleSound DEF CopyInv, TraceAssumed
    <2>4. SeenInv'
      BY <2>1 DEF SeenInv, FilePath
    <2> QED BY <2>2, <2>3, <2>4 DEF TraceInv
  <1>5. ASSUME NEW a \in Agent, Trace!Activate(a) PROVE TraceInv'
    <2>1. /\ op.at = "idle" /\ now = Main /\ now' = a
          /\ UNCHANGED <<disk, rows, cache, torn, confirmed, seen, foreign, leaving, op>>
      BY <1>5 DEF Trace!Activate, Trace!traces, Trace!known
    <2>2. TraceTypes'
      BY <2>1 DEF TraceInv, TraceTypes, OpSound
    <2>3. CopyInv' /\ SeenInv'
      BY <2>1 DEF TraceInv, CopyInv, SeenInv
    <2> QED BY <2>2, <2>3 DEF TraceInv
  <1> QED BY <1>1, <1>2, <1>3, <1>4, <1>5

LEMMA StepTrace == ASSUME TraceAssumed PROVE TraceInv /\ [Trace!Next]_traceVars => TraceInv'
  <1> SUFFICES ASSUME TraceInv, [Trace!Next]_traceVars PROVE TraceInv'
    OBVIOUS
  <1>1. CASE UNCHANGED traceVars
    BY <1>1 DEF traceVars, TraceInv, TraceTypes, OpSound, CopyInv, SeenInv
  <1>2. CASE Trace!Next
    <2>1. \A p \in Trace!Path : p \in FilePath
      BY DEF Trace!Path, FilePath
    <2> QED BY <1>2, <2>1, BeginningsKeep, UnreadKeeps, RecordKeeps, MovesKeep, TraceStored,
         ShowKeeps, AdvanceKeeps, DiskStepsKeep, EditConfirmsKeeps, AgentsKeep
       DEF Trace!Next
  <1> QED BY <1>1, <1>2

LEMMA TraceInvariant == ASSUME TraceAssumed PROVE Spec => []TraceInv
  <1>1. Init => Trace!Init
    BY DEF Init
  <1> QED BY <1>1, StepsApart, InitTrace, StepTrace, PTL DEF Spec

\* The copy of the traces that the main conversation works with lists the files
\* of the table, whatever was read, dropped, summarised, handed to sub-agents
\* or opened anew in between (cache.go, trace.go), unless a prompt sent a sub-agent
\* away between the reading of its rows and their storing (trace.go:358, 369).
THEOREM CopyIsTable == ASSUME TraceAssumed PROVE Spec => []MainCacheIsTable
  <1>1. TraceInv => MainCacheIsTable
    BY DEF TraceInv, CopyInv, Names, MainCacheIsTable, Trace!MainCacheIsTable, Trace!Traced,
           Trace!Path, FilePath
  <1> QED BY <1>1, TraceInvariant, PTL

\* An edit of a file that was confirmed starts from a text that was shown last, or
\* made, of the file of that name of some agent (CheckEditContent), unless the user
\* wrote between its two readings of the file (edit.go:544, 581) or slipped a text
\* into an earlier edit (edit.go:633, 662).
THEOREM EditsOwnView == ASSUME TraceAssumed PROVE Spec => EditsWhatItSaw
  <1>1. TraceInv => [Trace!EditChecks /\ confirmed[op.path] # None
                       /\ ~foreign[op.path] /\ op.read = disk[op.of][op.path]
                     => \E a \in Agent : op.read = seen[a][op.path]]_traceVars
    <2> SUFFICES ASSUME TraceInv, Trace!EditChecks, confirmed[op.path] # None,
                        ~foreign[op.path], op.read = disk[op.of][op.path]
                 PROVE  \E a \in Agent : op.read = seen[a][op.path]
      OBVIOUS
    <2>1. op.at = "opened" /\ confirmed[op.path] = op.read /\ op.path \in File
      BY DEF Trace!EditChecks, TraceInv, TraceTypes, OpSound
    <2>2. PICK a \in Agent : seen[a][op.path] = confirmed[op.path]
      BY <2>1 DEF TraceInv, SeenInv, Writing
    <2> QED BY <2>1, <2>2
  <1> QED BY <1>1, TraceInvariant, PTL DEF EditsWhatItSaw, Trace!EditsWhatItSaw, Trace!traceVars, traceVars

-----------------------------------------------------------------------------
(* The file requests (FileService). *)

FilesAssumed == fx \in Child /\ fy \in Child

FileRequest ==
  [kind : Files!Kinds, path : Files!Place, stage : 0..2, isDir : BOOLEAN, ctx : {"live", "over"},
   op : {"none", "checks", "infos", "begin", "open", "content", "data", "entry", "child", "self", "ok", "failed"},
   todo : SUBSET Child, dirs : SUBSET Child, late : SUBSET Child, answered : BOOLEAN]

\* Nothing is gone while a request is checked.  An entry that is on its way out was begun
\* in time, what went after the time was over is one entry, and then no other is begun.
Punctual(x) ==
  /\ x.kind \notin {"stat", "read", "write"} => x.stage <= 1
  /\ x.op \in {"checks", "child"} => x.late = {}
  /\ x.late # {} => x.ctx = "over" /\ x.kind = "rm"
  /\ Cardinality(x.late) <= 1

FilesInv ==
  /\ tree \in [Files!Place -> {"absent", "dir", "file"}]
  /\ req \in [Req -> FileRequest]
  /\ \A r \in Req : Punctual(req[r])

LEMMA FreePunctual == Files!Free \in FileRequest /\ Punctual(Files!Free)
  BY FS_EmptySet DEF Files!Free, FileRequest, Files!Kinds, Files!Place, Punctual

LEMMA InitFiles == Files!Init => FilesInv
  BY FreePunctual DEF Files!Init, FilesInv

\* A request becomes x.
LEMMA RequestBecomes ==
  ASSUME FilesInv, NEW r \in Req, NEW x \in FileRequest, Punctual(x), req' = [req EXCEPT ![r] = x],
         tree' \in [Files!Place -> {"absent", "dir", "file"}]
  PROVE  FilesInv'
  BY DEF FilesInv

LEMMA StageKind ==
  ASSUME NEW r \in Req, req[r] \in FileRequest, NEW stage, NEW next, Files!At(r, stage, next), Punctual(req[r])
  PROVE  /\ stage = "rm" => req[r].kind = "rm"
         /\ req[r].op = next
  BY DEF Files!At, Files!Stage, Files!Stages, FileRequest, Files!Kinds, Punctual

\* The operation ends, and the request is free or has its result.
LEMMA EndsKeeps ==
  ASSUME FilesInv, NEW r \in Req, NEW good \in BOOLEAN, Files!Ends(r, good),
         tree' \in [Files!Place -> {"absent", "dir", "file"}]
  PROVE  FilesInv'
  <1>1. CASE req' = [req EXCEPT ![r] = Files!Free]
    BY <1>1, FreePunctual, RequestBecomes
  <1>2. ASSUME NEW next \in {"ok", "failed"}, req' = [req EXCEPT ![r] = [req[r] EXCEPT !.op = next]]
        PROVE  FilesInv'
    <2> DEFINE x == [req[r] EXCEPT !.op = next]
    <2>1. /\ x \in FileRequest /\ x.op = next /\ x.late = req[r].late /\ x.kind = req[r].kind
          /\ x.stage = req[r].stage /\ x.ctx = req[r].ctx
      BY DEF FilesInv, FileRequest
    <2> HIDE DEF x
    <2>2. Punctual(x)
      BY <2>1 DEF FilesInv, Punctual
    <2>3. req' = [req EXCEPT ![r] = x]
      BY <1>2 DEF x
    <2> QED BY <2>1, <2>2, <2>3, RequestBecomes
  <1> QED BY <1>1, <1>2 DEF Files!Ends

LEMMA GoesKeeps ==
  ASSUME FilesInv, NEW r \in Req,
         NEW next \in {"open", "content", "data", "entry", "child", "self"}, Files!Goes(r, next),
         next = "child" => ~Files!Over(r),
         tree' \in [Files!Place -> {"absent", "dir", "file"}]
  PROVE  FilesInv'
  <1> DEFINE x == [req[r] EXCEPT !.op = next]
  <1>1. x \in FileRequest /\ Punctual(x)
    BY DEF FilesInv, FileRequest, Punctual, Files!Over
  <1>2. req' = [req EXCEPT ![r] = x]
    BY DEF Files!Goes
  <1> QED BY <1>1, <1>2, RequestBecomes

\* The handler: a request comes, is checked, its result is taken, its time is over, it gives up.
LEMMA HandlerKeeps ==
  ASSUME FilesAssumed, FilesInv, NEW r \in Req,
         \/ Files!Start(r) \/ Files!Check(r) \/ Files!Infos(r) \/ Files!Receive(r)
         \/ Files!Expire(r) \/ Files!GiveUp(r)
  PROVE  FilesInv'
  <1>1. req[r] \in FileRequest /\ Punctual(req[r]) /\ tree \in [Files!Place -> {"absent", "dir", "file"}]
    BY DEF FilesInv
  <1>2. CASE Files!Start(r)
    <2>1. PICK ask \in Asked : req' = [req EXCEPT ![r] =
            [Files!Free EXCEPT !.kind = ask[1], !.path = ask[2], !.stage = 1, !.op = "checks"]]
      BY <1>2 DEF Files!Start
    <2>2. ask[1] \in Files!Kinds /\ ask[2] \in Files!Place
      BY DEF FilesAssumed, Asked, Files!Kinds, Files!Place
    <2> DEFINE x == [Files!Free EXCEPT !.kind = ask[1], !.path = ask[2], !.stage = 1, !.op = "checks"]
    <2>3. /\ x \in FileRequest /\ x.stage = 1 /\ x.op = "checks" /\ x.late = {}
      <3>1. Files!Free \in FileRequest /\ Files!Free.late = {}
        BY FreePunctual DEF Files!Free
      <3>2. 1 \in 0..2
        OBVIOUS
      <3> QED BY <2>2, <3>1, <3>2 DEF FileRequest
    <2> HIDE DEF x
    <2>4. req' = [req EXCEPT ![r] = x]
      BY <2>1 DEF x
    <2>5. Punctual(x)
      BY <2>3, FS_EmptySet DEF Punctual
    <2> QED BY <1>1, <1>2, <2>3, <2>4, <2>5, RequestBecomes DEF Files!Start
  <1>3. CASE Files!Receive(r)
    <2>1. UNCHANGED tree
      BY <1>3 DEF Files!Receive
    <2>2. CASE req' = [req EXCEPT ![r] = Files!Free]
      BY <1>1, <2>1, <2>2, FreePunctual, RequestBecomes
    <2>3. CASE /\ req[r].stage # Len(Files!Stages(req[r].kind, req[r].isDir)) /\ req[r].stage > 0
               /\ req' = [req EXCEPT ![r] = [req[r] EXCEPT !.stage = @ + 1, !.op = "begin", !.ctx = "live"]]
      <3> DEFINE x == [req[r] EXCEPT !.stage = @ + 1, !.op = "begin", !.ctx = "live"]
      <3>1. req[r].kind \in {"stat", "read", "write"} /\ req[r].stage = 1
        <4>1. req[r].kind \in Files!Kinds /\ req[r].stage \in 1..2
          BY <1>1, <2>3 DEF FileRequest
        <4>2. CASE req[r].kind \in {"stat", "read", "write"}
          <5>1. Len(Files!Stages(req[r].kind, req[r].isDir)) = 2
            BY <4>2 DEF Files!Stages
          <5> QED BY <2>3, <4>1, <4>2, <5>1
        <4>3. CASE req[r].kind \in {"mkdir", "rm", "chmod", "chown"}
          <5>1. Len(Files!Stages(req[r].kind, req[r].isDir)) = 1
            BY <4>3 DEF Files!Stages
          <5> QED BY <1>1, <2>3, <4>1, <4>3, <5>1 DEF Punctual
        <4> QED BY <4>1, <4>2, <4>3 DEF Files!Kinds
      <3>2. /\ x \in FileRequest /\ x.op = "begin" /\ x.late = req[r].late /\ x.kind = req[r].kind
        <4>1. req[r].stage + 1 = 2
          BY <3>1
        <4>2. x = [req[r] EXCEPT !.stage = 2, !.op = "begin", !.ctx = "live"]
          BY <4>1
        <4> HIDE DEF x
        <4>3. 2 \in 0..2
          OBVIOUS
        <4>4. DOMAIN req[r] = {"kind", "path", "stage", "isDir", "ctx", "op", "todo", "dirs", "late", "answered"}
          BY <1>1 DEF FileRequest
        <4>5. x = [kind |-> req[r].kind, path |-> req[r].path, stage |-> 2, isDir |-> req[r].isDir,
                   ctx |-> "live", op |-> "begin", todo |-> req[r].todo, dirs |-> req[r].dirs,
                   late |-> req[r].late, answered |-> req[r].answered]
          BY <1>1, <4>2 DEF FileRequest
        <4> QED BY <1>1, <4>3, <4>5 DEF FileRequest
      <3>3. req' = [req EXCEPT ![r] = x]
        BY <2>3
      <3> HIDE DEF x
      <3>4. Punctual(x)
        BY <1>1, <3>1, <3>2 DEF Punctual
      <3> QED BY <1>1, <2>1, <3>2, <3>3, <3>4, RequestBecomes
    <2>4. req[r].stage > 0
      BY <1>3 DEF Files!Receive, Files!Waiting
    <2>5. CASE Files!Listed(r) /\ req' = [req EXCEPT ![r].op = "infos", ![r].ctx = "over"]
      <3> DEFINE x == [req[r] EXCEPT !.op = "infos", !.ctx = "over"]
      <3>1. /\ x \in FileRequest /\ x.op = "infos" /\ x.late = req[r].late /\ x.kind = req[r].kind
            /\ x.stage = req[r].stage /\ x.ctx = "over"
        BY <1>1 DEF FileRequest
      <3>2. req' = [req EXCEPT ![r] = x]
        BY <2>5 DEF FilesInv
      <3> HIDE DEF x
      <3>3. Punctual(x)
        BY <1>1, <3>1 DEF Punctual
      <3> QED BY <1>1, <2>1, <3>1, <3>2, <3>3, RequestBecomes
    <2>6. CASE ~Files!Finished(r) /\ req' = [req EXCEPT ![r].stage = @ + 1, ![r].op = "begin", ![r].ctx = "live"]
      <3>1. req' = [req EXCEPT ![r] = [req[r] EXCEPT !.stage = @ + 1, !.op = "begin", !.ctx = "live"]]
        BY <1>1, <2>6 DEF FilesInv
      <3> QED BY <2>3, <2>4, <2>6, <3>1 DEF Files!Finished
    <2> QED BY <1>3, <2>2, <2>5, <2>6 DEF Files!Receive
  <1>4. CASE Files!Expire(r)
    <2> DEFINE x == [req[r] EXCEPT !.ctx = "over"]
    <2>1. /\ x \in FileRequest /\ x.op = req[r].op /\ x.late = req[r].late /\ x.kind = req[r].kind
          /\ x.stage = req[r].stage /\ x.ctx = "over"
      BY <1>1 DEF FileRequest
    <2>2. req' = [req EXCEPT ![r] = x] /\ UNCHANGED tree
      BY <1>4 DEF Files!Expire
    <2> HIDE DEF x
    <2>3. Punctual(x)
      BY <1>1, <2>1 DEF Punctual
    <2> QED BY <1>1, <2>1, <2>2, <2>3, RequestBecomes
  <1>5. CASE Files!GiveUp(r)
    <2> DEFINE x == [req[r] EXCEPT !.answered = TRUE]
    <2>1. /\ x \in FileRequest /\ x.op = req[r].op /\ x.late = req[r].late /\ x.kind = req[r].kind
          /\ x.stage = req[r].stage /\ x.ctx = req[r].ctx
      BY <1>1 DEF FileRequest
    <2>2. (req' = [req EXCEPT ![r] = x] \/ req' = [req EXCEPT ![r] = Files!Free]) /\ UNCHANGED tree
      BY <1>5 DEF Files!GiveUp
    <2> HIDE DEF x
    <2>3. Punctual(x)
      BY <1>1, <2>1 DEF Punctual
    <2> QED BY <1>1, <2>1, <2>2, <2>3, FreePunctual, RequestBecomes
  <1>6. CASE Files!Check(r)
    <2> DEFINE x == [req[r] EXCEPT !.op = "begin", !.ctx = "live"]
    <2>1. /\ x \in FileRequest /\ x.op = "begin" /\ x.late = req[r].late /\ x.kind = req[r].kind
          /\ x.stage = req[r].stage
      BY <1>1 DEF FileRequest
    <2>2. (req' = [req EXCEPT ![r] = x] \/ req' = [req EXCEPT ![r] = Files!Free]) /\ UNCHANGED tree
      BY <1>6 DEF Files!Check, FilesInv
    <2>3. req[r].late = {}
      BY <1>1, <1>6 DEF Punctual, Files!Check
    <2> HIDE DEF x
    <2>4. Punctual(x)
      BY <1>1, <2>1, <2>3 DEF Punctual
    <2> QED BY <1>1, <2>1, <2>2, <2>4, FreePunctual, RequestBecomes
  <1>7. CASE Files!Infos(r)
    BY <1>1, <1>7, FreePunctual, RequestBecomes DEF Files!Infos
  <1> QED BY <1>2, <1>3, <1>4, <1>5, <1>6, <1>7

\* MkdirAll.
LEMMA MakeKeeps ==
  ASSUME FilesInv, NEW r \in Req, NEW path \in Files!Place, Files!Make(r, path) PROVE FilesInv'
  <1>1. PICK good \in BOOLEAN : Files!Ends(r, good)
    BY DEF Files!Make
  <1>2. tree' \in [Files!Place -> {"absent", "dir", "file"}]
    BY DEF Files!Make, FilesInv, Files!Place
  <1> QED BY <1>1, <1>2, EndsKeeps

\* What neither removes nor writes.
LEMMA ReadersKeep ==
  ASSUME FilesInv, NEW r \in Req,
         \/ Files!Look(r) \/ Files!Owner(r) \/ Files!List(r) \/ Files!OpenForRead(r)
         \/ Files!ReadPiece(r) \/ Files!Mkdir(r) \/ Files!Parent(r) \/ Files!Change(r)
  PROVE  FilesInv'
  <1>1. /\ req[r] \in FileRequest /\ Punctual(req[r]) /\ req[r].path \in Files!Place
        /\ tree \in [Files!Place -> {"absent", "dir", "file"}] /\ Root \in Files!Place
    BY DEF FilesInv, FileRequest, Files!Place
  <1>2. CASE Files!Look(r)
    <2>1. UNCHANGED tree
      BY <1>2 DEF Files!Look
    <2>2. CASE Files!Ends(r, FALSE)
      BY <1>1, <2>1, <2>2, EndsKeeps
    <2>3. CASE req' = [req EXCEPT ![r].op = "ok", ![r].isDir = tree[req[r].path] = "dir"]
      <3> DEFINE isDir == tree[req[r].path] = "dir"
                 x == [req[r] EXCEPT !.op = "ok", !.isDir = isDir]
      <3>0. isDir \in BOOLEAN
        OBVIOUS
      <3>1. req' = [req EXCEPT ![r] = x]
        BY <2>3 DEF FilesInv
      <3> HIDE DEF isDir
      <3>2. /\ x \in FileRequest /\ x.op = "ok" /\ x.late = req[r].late /\ x.kind = req[r].kind
            /\ x.stage = req[r].stage /\ x.ctx = req[r].ctx
        BY <1>1, <3>0 DEF FileRequest
      <3> HIDE DEF x
      <3>3. Punctual(x)
        BY <1>1, <3>2 DEF Punctual
      <3> QED BY <1>1, <2>1, <3>1, <3>2, <3>3, RequestBecomes
    <2> QED BY <1>2, <2>2, <2>3 DEF Files!Look
  <1>3. CASE Files!Owner(r) \/ Files!List(r) \/ Files!ReadPiece(r) \/ Files!Change(r)
    <2>1. UNCHANGED tree
      BY <1>3 DEF Files!Owner, Files!List, Files!ReadPiece, Files!Change
    <2>2. \E good \in BOOLEAN : Files!Ends(r, good)
      BY <1>3 DEF Files!Owner, Files!List, Files!ReadPiece, Files!Change, Files!Over
    <2> QED BY <1>1, <2>1, <2>2, EndsKeeps
  <1>4. CASE Files!OpenForRead(r)
    BY <1>1, <1>4, EndsKeeps, GoesKeeps DEF Files!OpenForRead
  <1>5. CASE Files!Mkdir(r) \/ Files!Parent(r)
    <2>1. CASE Files!Ends(r, TRUE) /\ UNCHANGED tree
      BY <1>1, <2>1, EndsKeeps
    <2>2. CASE Files!Make(r, req[r].path) \/ Files!Make(r, Root)
      BY <1>1, <2>2, MakeKeeps
    <2> QED BY <1>5, <2>1, <2>2 DEF Files!Mkdir, Files!Parent
  <1> QED BY <1>2, <1>3, <1>4, <1>5

LEMMA WritersKeep ==
  ASSUME FilesInv, NEW r \in Req,
         Files!WriteCheck(r) \/ Files!WriteOpen(r) \/ Files!WriteContent(r)
  PROVE  FilesInv'
  <1>1. tree \in [Files!Place -> {"absent", "dir", "file"}]
    BY DEF FilesInv
  <1>2. CASE Files!WriteCheck(r)
    BY <1>1, <1>2, EndsKeeps, GoesKeeps DEF Files!WriteCheck
  <1>3. CASE Files!WriteOpen(r)
    BY <1>1, <1>3, EndsKeeps, GoesKeeps DEF Files!WriteOpen
  <1>4. CASE Files!WriteContent(r)
    BY <1>1, <1>4, EndsKeeps DEF Files!WriteContent
  <1> QED BY <1>2, <1>3, <1>4

\* The removal looks at the clock before every entry, and begins none after it.
LEMMA RemovalKeeps ==
  ASSUME FilesInv, NEW r \in Req,
         Files!RmBegin(r) \/ Files!RmEntry(r) \/ Files!RmChild(r) \/ Files!RmSelf(r)
  PROVE  FilesInv'
  <1>1. /\ req[r] \in FileRequest /\ Punctual(req[r])
        /\ tree \in [Files!Place -> {"absent", "dir", "file"}] /\ req \in [Req -> FileRequest]
    BY DEF FilesInv
  <1>2. CASE Files!RmBegin(r)
    <2>1. UNCHANGED tree
      BY <1>2 DEF Files!RmBegin
    <2>2. CASE Files!Ends(r, FALSE)
      BY <1>1, <2>1, <2>2, EndsKeeps
    <2>3. CASE Files!Goes(r, "self")
      BY <1>1, <2>1, <2>3, GoesKeeps
    <2>4. CASE req' = [req EXCEPT ![r].op = "entry", ![r].todo = Files!Present,
                                  ![r].dirs = {c \in Files!Present : tree[c] = "dir"}]
      <3> DEFINE x == [req[r] EXCEPT !.op = "entry", !.todo = Files!Present,
                                     !.dirs = {c \in Files!Present : tree[c] = "dir"}]
      <3>1. req' = [req EXCEPT ![r] = x]
        BY <1>1, <2>4
      <3>2. Files!Present \in SUBSET Child /\ {c \in Files!Present : tree[c] = "dir"} \in SUBSET Child
        BY DEF Files!Present
      <3>3. /\ x \in FileRequest /\ x.op = "entry" /\ x.late = req[r].late /\ x.kind = req[r].kind
            /\ x.stage = req[r].stage /\ x.ctx = req[r].ctx
        BY <1>1, <3>2 DEF FileRequest
      <3> HIDE DEF x
      <3>4. Punctual(x)
        BY <1>1, <3>3 DEF Punctual
      <3> QED BY <1>1, <2>1, <3>1, <3>3, <3>4, RequestBecomes
    <2> QED BY <1>2, <2>2, <2>3, <2>4 DEF Files!RmBegin
  <1>3. CASE Files!RmEntry(r)
    <2>1. UNCHANGED tree
      BY <1>3 DEF Files!RmEntry
    <2>2. \/ Files!Goes(r, "self") \/ Files!Ends(r, FALSE)
          \/ Files!Goes(r, "child") /\ ~Files!Over(r)
      BY <1>3 DEF Files!RmEntry
    <2> QED BY <1>1, <2>1, <2>2, EndsKeeps, GoesKeeps
  <1>4. CASE Files!RmChild(r)
    <2>1. req[r].op = "child" /\ req[r].kind = "rm"
      BY <1>1, <1>4, StageKind DEF Files!RmChild
    <2>2. PICK c \in req[r].todo :
            IF tree[c] = "absent" \/ (c \in req[r].dirs /\ Files!Over(r))
            THEN Files!Ends(r, FALSE) /\ UNCHANGED tree
            ELSE /\ req' = [req EXCEPT ![r].op = "entry", ![r].todo = @ \ {c},
                              ![r].late = IF Files!Over(r) THEN @ \cup {c} ELSE @]
                 /\ tree' = [tree EXCEPT ![c] = "absent"]
      BY <1>4, Zenon DEF Files!RmChild
    <2>3. CASE Files!Ends(r, FALSE) /\ UNCHANGED tree
      BY <1>1, <2>3, EndsKeeps
    <2>4. CASE /\ req' = [req EXCEPT ![r].op = "entry", ![r].todo = @ \ {c},
                            ![r].late = IF Files!Over(r) THEN @ \cup {c} ELSE @]
               /\ tree' = [tree EXCEPT ![c] = "absent"]
      <3> DEFINE late == IF Files!Over(r) THEN req[r].late \cup {c} ELSE req[r].late
                 x == [req[r] EXCEPT !.op = "entry", !.todo = @ \ {c}, !.late = late]
      <3>1. req' = [req EXCEPT ![r] = x]
        BY <1>1, <2>4
      <3>2. late \in SUBSET Child /\ late \in {{}, {c}} /\ (late # {} => Files!Over(r))
        BY <1>1, <2>1 DEF FileRequest, Punctual
      <3> HIDE DEF late
      <3>3. /\ x \in FileRequest /\ x.op = "entry" /\ x.late = late /\ x.kind = "rm"
            /\ x.stage = req[r].stage /\ x.ctx = req[r].ctx
        BY <1>1, <2>1, <3>2 DEF FileRequest
      <3> HIDE DEF x
      <3>4. Cardinality(late) <= 1
        <4>1. late = {} \/ late = {c}
          BY <3>2
        <4>2. Cardinality({}) = 0 /\ Cardinality({c}) = 1
          BY FS_EmptySet, FS_Singleton
        <4> QED BY <4>1, <4>2
      <3>5. Punctual(x)
        BY <1>1, <2>1, <3>2, <3>3, <3>4 DEF Punctual, Files!Over
      <3>6. tree' \in [Files!Place -> {"absent", "dir", "file"}]
        BY <1>1, <2>4
      <3> QED BY <3>1, <3>3, <3>5, <3>6, RequestBecomes
    <2> QED BY <2>2, <2>3, <2>4
  <1>5. CASE Files!RmSelf(r)
    BY <1>1, <1>5, EndsKeeps, Zenon DEF Files!RmSelf
  <1> QED BY <1>2, <1>3, <1>4, <1>5

LEMMA StepFiles == ASSUME FilesAssumed PROVE FilesInv /\ [Files!Next]_fileVars => FilesInv'
  <1> SUFFICES ASSUME FilesInv, [Files!Next]_fileVars PROVE FilesInv'
    OBVIOUS
  <1>1. CASE UNCHANGED fileVars
    BY <1>1 DEF fileVars, FilesInv
  <1>2. ASSUME NEW r \in Req,
               \/ Files!Start(r) \/ Files!Check(r) \/ Files!Infos(r) \/ Files!Receive(r)
               \/ Files!Expire(r) \/ Files!GiveUp(r) \/ Files!Operate(r)
        PROVE  FilesInv'
    BY <1>2, HandlerKeeps, ReadersKeep, WritersKeep, RemovalKeeps DEF Files!Operate
  <1> QED BY <1>1, <1>2 DEF Files!Next

\* The client that is told "timed out" of a removal does not see the tree go on
\* disappearing: however the clock, the other requests and the goroutine meet,
\* at most the entry in hand goes after the time (removeAllCtx, fs.go:81-82).
THEOREM RemovalEnds == ASSUME FilesAssumed PROVE Spec => []RemovalStops
  <1>1. FilesInv => RemovalStops
    <2>1. \A r \in Req : Files!Cardinality(req[r].late) = Cardinality(req[r].late)
      BY Zenon DEF Files!Cardinality, Cardinality
    <2> QED BY <2>1 DEF FilesInv, Punctual, RemovalStops, Files!RemovalStops
  <1>2. Init => Files!Init
    BY DEF Init
  <1> QED BY <1>1, <1>2, StepsApart, InitFiles, StepFiles, PTL DEF Spec

-----------------------------------------------------------------------------
(* The requests to a language server (LspTransport). *)

\* The types the argument needs; where readLoop is said apart from the id it hands out.
PipeTypes ==
  /\ channels \subseteq Request
  /\ channel \in [Request -> {"none", "open", "full", "closed"}]
  /\ closes \in [Request -> Nat]
  /\ request \in [Request -> {"new"} \cup Pipe!Waiting \cup Pipe!Result]
  /\ stdout \in Seq(Request)
  /\ stdin \in Seq(Pipe!Piece)
  /\ closing \in {"no", "closed", "swept", "done"}
  /\ reader \in [pc : {"check", "read", "send", "gone"}, id : Request]
  /\ lspServer \in {"up", "lost", "dead"}
  /\ stdinOpen \in BOOLEAN

\* A channel has three holders, one after the other: nobody before the request, then
\* pending, then readLoop.  As long as one of them has it, it is open.
PipeHeld(r)  == r \in channels \/ (reader.pc = "send" /\ reader.id = r)
PipeHolds ==
  \A r \in Request :
    /\ closes[r] <= 1
    /\ PipeHeld(r) \/ request[r] = "new" => closes[r] = 0
    /\ PipeHeld(r) => channel[r] = "open"
    /\ r \in channels => request[r] \in Pipe!Waiting /\ ~(reader.pc = "send" /\ reader.id = r)
    /\ request[r] = "new" => ~PipeHeld(r)

PipeInv == PipeTypes /\ PipeHolds

LEMMA InitPipe == ASSUME Request # {} PROVE Pipe!Init => PipeInv
  <1> SUFFICES ASSUME Pipe!Init PROVE PipeInv
    OBVIOUS
  <1>1. PipeTypes
    BY DEF Pipe!Init, PipeTypes, Pipe!Piece, Pipe!Waiting, Pipe!Result
  <1>2. PipeHolds
    BY DEF Pipe!Init, PipeHolds, PipeHeld
  <1> QED
    BY <1>1, <1>2 DEF PipeInv

\* What a call does to its request.
LEMMA CallsKeep ==
  ASSUME PipeInv, NEW r \in Request,
         Pipe!Register(r) \/ Pipe!Write(r) \/ Pipe!Answered(r) \/ Pipe!TransportClosed(r) \/ Pipe!Timeout(r)
  PROVE  PipeInv'
  <1> USE DEF PipeInv
  <1>1. CASE Pipe!Register(r)
    BY <1>1 DEF Pipe!Register, PipeTypes, PipeHolds, PipeHeld, Pipe!Waiting, Pipe!Result
  <1>2. CASE Pipe!Write(r)
    <2> USE <1>2 DEF Pipe!Write
    <2>1. stdin' \in Seq(Pipe!Piece)
      <3>1. request[r] \in {"header", "body"} => [kind |-> request[r], id |-> r] \in Pipe!Piece
        BY DEF Pipe!Piece
      <3>2. ASSUME NEW piece \in Pipe!Piece PROVE Append(stdin, piece) \in Seq(Pipe!Piece)
        BY AppendProperties DEF PipeTypes
      <3> QED
        BY <3>1, <3>2, Zenon DEF PipeTypes
    <2>2. PipeTypes'
      BY <2>1 DEF PipeTypes, Pipe!Waiting, Pipe!Result
    <2>3. PipeHolds'
      BY DEF PipeTypes, PipeHolds, PipeHeld, Pipe!Waiting, Pipe!Result
    <2> QED
      BY <2>2, <2>3
  <1>3. CASE Pipe!Answered(r)
    BY <1>3 DEF Pipe!Answered, PipeTypes, PipeHolds, PipeHeld, Pipe!Waiting, Pipe!Result
  <1>4. CASE Pipe!TransportClosed(r)
    BY <1>4 DEF Pipe!TransportClosed, PipeTypes, PipeHolds, PipeHeld, Pipe!Waiting, Pipe!Result
  <1>5. CASE Pipe!Timeout(r)
    BY <1>5 DEF Pipe!Timeout, PipeTypes, PipeHolds, PipeHeld, Pipe!Waiting, Pipe!Result
  <1> QED
    BY <1>1, <1>2, <1>3, <1>4, <1>5

\* What readLoop does to the channel it takes.
LEMMA ReaderKeeps ==
  ASSUME PipeInv, Pipe!ReaderCheck \/ Pipe!ReaderTakes \/ Pipe!ReaderSends \/ Pipe!ReaderFails
  PROVE  PipeInv'
  <1> USE DEF PipeInv
  <1>1. CASE Pipe!ReaderCheck
    BY <1>1 DEF Pipe!ReaderCheck, PipeTypes, PipeHolds, PipeHeld
  <1>2. CASE Pipe!ReaderTakes
    <2> USE <1>2 DEF Pipe!ReaderTakes
    <2>1. Head(stdout) \in Request /\ Tail(stdout) \in Seq(Request)
      BY HeadTailProperties DEF PipeTypes
    <2>2. PipeTypes'
      BY <2>1 DEF PipeTypes
    <2>3. PipeHolds'
      BY <2>1 DEF PipeTypes, PipeHolds, PipeHeld
    <2> QED
      BY <2>2, <2>3
  <1>3. CASE Pipe!ReaderSends
    <2> USE <1>3 DEF Pipe!ReaderSends
    <2>1. reader.id \in Request /\ reader.pc = "send"
      BY DEF PipeTypes
    <2>2. PipeTypes'
      BY <2>1 DEF PipeTypes
    <2>3. /\ closes[reader.id] = 0 /\ reader.id \notin channels
          /\ request[reader.id] # "new"
      BY <2>1 DEF PipeHolds, PipeHeld
    <2>4. /\ closes'[reader.id] = 1 /\ reader'.pc = "check"
          /\ \A r \in Request : r # reader.id => closes'[r] = closes[r] /\ channel'[r] = channel[r]
      BY <2>1, <2>3 DEF PipeTypes
    <2>5. PipeHolds'
      BY <2>1, <2>3, <2>4 DEF PipeHolds, PipeHeld
    <2> QED BY <2>2, <2>5
  <1>4. CASE Pipe!ReaderFails
    BY <1>4 DEF Pipe!ReaderFails, PipeTypes, PipeHolds, PipeHeld
  <1> QED
    BY <1>1, <1>2, <1>3, <1>4

\* What Close and the server do.
LEMMA CloseKeeps ==
  ASSUME PipeInv,
         Pipe!CloseBegins \/ Pipe!CloseSweeps \/ Pipe!CloseEnds \/ Pipe!ServerAnswers \/ Pipe!ServerLost \/ Pipe!ServerDies
  PROVE  PipeInv'
  <1> USE DEF PipeInv
  <1>1. CASE Pipe!CloseBegins
    BY <1>1 DEF Pipe!CloseBegins, PipeTypes, PipeHolds, PipeHeld
  <1>2. CASE Pipe!CloseSweeps
    BY <1>2 DEF Pipe!CloseSweeps, PipeTypes, PipeHolds, PipeHeld
  <1>3. CASE Pipe!CloseEnds
    BY <1>3 DEF Pipe!CloseEnds, PipeTypes, PipeHolds, PipeHeld
  <1>4. CASE Pipe!ServerAnswers
    <2> USE <1>4 DEF Pipe!ServerAnswers
    <2>0. stdin \in Seq(Pipe!Piece) /\ \A i \in 1..Len(stdin) : stdin[i] \in Pipe!Piece
      BY ElementOfSeq DEF PipeTypes
    <2>1. stdin[1].id \in Request /\ SubSeq(stdin, 3, Len(stdin)) \in Seq(Pipe!Piece)
      <3>1. Len(stdin) \in Nat /\ Len(stdin) >= 2
        BY <2>0, LenProperties DEF Pipe!Whole
      <3>2. stdin[1] \in Pipe!Piece /\ \A i \in 3..Len(stdin) : stdin[i] \in Pipe!Piece
        BY <2>0, <3>1
      <3>3. SubSeq(stdin, 3, Len(stdin)) \in Seq(Pipe!Piece)
        BY <3>1, <3>2, SubSeqProperties
      <3> QED
        BY <3>2, <3>3 DEF Pipe!Piece
    <2>2. Append(stdout, stdin[1].id) \in Seq(Request)
      BY <2>1, AppendProperties DEF PipeTypes
    <2> QED
      BY <2>1, <2>2 DEF PipeTypes, PipeHolds, PipeHeld
  <1>5. CASE Pipe!ServerLost
    BY <1>5 DEF Pipe!ServerLost, PipeTypes, PipeHolds, PipeHeld
  <1>6. CASE Pipe!ServerDies
    BY <1>6 DEF Pipe!ServerDies, PipeTypes, PipeHolds, PipeHeld
  <1> QED
    BY <1>1, <1>2, <1>3, <1>4, <1>5, <1>6

LEMMA StepPipe == PipeInv /\ [Pipe!Next]_pipeVars => PipeInv'
  <1> SUFFICES ASSUME PipeInv, [Pipe!Next]_pipeVars PROVE PipeInv'
    OBVIOUS
  <1>1. CASE UNCHANGED pipeVars
    BY <1>1 DEF pipeVars, PipeInv, PipeTypes, PipeHolds, PipeHeld
  <1>2. CASE Pipe!Next
    BY <1>2, CallsKeep, ReaderKeeps, CloseKeeps DEF Pipe!Next
  <1> QED
    BY <1>1, <1>2


\* The state of the transport is well-typed (with the code's int64 ids as any set).
THEOREM TransportTypeCorrect == ASSUME Request # {} PROVE Spec => []Pipe!TypeOK
  <1>1. PipeInv => Pipe!TypeOK
    BY DEF PipeInv, PipeTypes, Pipe!TypeOK
  <1>2. Init => Pipe!Init
    BY DEF Init
  <1> QED
    BY <1>1, <1>2, StepsApart, InitPipe, StepPipe, PTL DEF Spec

\* Whoever comes first - the answer, the time-out, Close - no channel is closed twice, and
\* no id stays in pending without its caller, so that HasPending tells the reaper the truth
\* (transport.go:129, 148-158, 204-216).
THEOREM RequestsSettledOnce == ASSUME Request # {} PROVE Spec => []SettledOnce
  <1>1. PipeInv => SettledOnce
    BY DEF PipeInv, PipeTypes, PipeHolds, PipeHeld, SettledOnce, Pipe!SettledOnce,
           Pipe!ChannelClosedOnce, Pipe!PendingHasCaller
  <1>2. Init => Pipe!Init
    BY DEF Init
  <1> QED
    BY <1>1, <1>2, StepsApart, InitPipe, StepPipe, PTL DEF Spec

-----------------------------------------------------------------------------
(* The rows an index run leaves (IndexStore). *)

Version == DOMAIN Symbols
Wanted(p, v) == IF v = 0 THEN {} ELSE Store!Wanted(p, v)
Symbol  == UNION {Store!ToSet(Symbols[v]) : v \in Version}
Tasks   == UNION {Store!Wanted(p, v) : p \in Source, v \in Version}
\* A row holds what one task brought: a text, and the body that came with it.
RowRec  ==
  {r \in [id : Nat, path : Source, symbol : {t.symbol : t \in Tasks},
          text : {t.text : t \in Tasks}, body : {t.body : t \in Tasks}] :
     Store!Task(r.path, r.symbol, r.text, r.body) \in Tasks}

\* No version is the number for "no file", and a symbol has a name; it need not be the only
\* one of that name.
StoreAssumed ==
  /\ 0 \notin Version
  /\ \A v \in Version : Symbols[v] \in Seq(Store!ToSet(Symbols[v]))
  /\ \A s \in Symbol : s.name # Store!Whole
  /\ None \notin Tasks

Scans == UNION {[found -> Version] : found \in SUBSET Source}
RunRec ==
  [pc : {"off", "files", "symbols"}, todo : SUBSET Source,
   scanned : Scans, file : Source \cup {None},
   symbols : Seq(Symbol), gone : SUBSET Source, cancelled : BOOLEAN]

RunSound ==
  /\ run.pc = "off" => run = Store!Off
  /\ run.pc # "off" => run.todo \subseteq DOMAIN run.scanned
  /\ run.pc = "symbols" => run.file \in DOMAIN run.scanned \ run.todo

\* The table has one row for a symbol of a file.
RowsUnique ==
  \A r, s \in items : r.path = s.path /\ r.symbol = s.symbol => r = s

StoreTypes ==
  /\ files \in [Source -> {0} \cup Version]
  /\ items \subseteq RowRec /\ nextId \in Nat
  /\ queue \in Seq(Tasks) /\ embedding \in Tasks \cup {None}
  /\ run \in RunRec /\ RunSound /\ RowsUnique

\* What waits to be stored.
Pending == Store!ToSet(queue) \cup ({embedding} \ {None})

\* The row is of a text that the file's version has for its symbol.
TextOf(r, p, v) == \E w \in Wanted(p, v) : w.symbol = r.symbol /\ w.text = r.text

\* Of file p the rows its, and the tasks pend, will come to match version v, except perhaps
\* those of the symbols left.
Agrees(p, v, left, its, pend) ==
  /\ \A t \in pend : t.path = p => t \in Wanted(p, v)
  /\ \A r \in its : r.path = p =>
       /\ \E t \in Wanted(p, v) : t.symbol = r.symbol
       /\ \/ TextOf(r, p, v)
          \/ r.symbol \in left
          \/ \E t \in pend : t.path = p /\ t.symbol = r.symbol
  /\ \A t \in Wanted(p, v) :
       \/ t.symbol \in left
       \/ \E r \in its : r.path = p /\ r.symbol = t.symbol
       \/ \E u \in pend : u.path = p /\ u.symbol = t.symbol

\* The file was indexed as some version, or not at all.
Indexed(p, its, pend) == \E v \in {0} \cup Version : Agrees(p, v, {}, its, pend)
Quiet(p, pend)  == \A t \in pend : t.path # p

\* The symbols that the run has still to compare.
Left == {Store!Whole} \cup {s.name : s \in Store!ToSet(run.symbols)}
Now(p) == run.pc = "symbols" /\ run.file = p

PathSound(p) ==
  /\ run.pc = "off" => Indexed(p, items, Pending)
  /\ run.pc # "off" /\ p \in run.todo \cup run.gone =>
       Indexed(p, items, Pending) /\ Quiet(p, Pending)
  /\ run.pc # "off" /\ p \notin run.todo \cup run.gone /\ ~Now(p) =>
       Agrees(p, files[p], {}, items, Pending)
  /\ Now(p) => Agrees(p, files[p], Left, items, Pending)

RunsWhole ==
  /\ ~run.cancelled
  /\ run.pc # "off" =>
       /\ \A p \in DOMAIN run.scanned : run.scanned[p] = files[p]
       /\ \A p \in Source \ DOMAIN run.scanned : files[p] = 0
       /\ run.gone \cap DOMAIN run.scanned = {}
  /\ run.pc = "symbols" => Store!ToSet(run.symbols) \subseteq Store!ToSet(Symbols[files[run.file]])

StoreInv == StoreTypes /\ (whole => RunsWhole /\ \A p \in Source : PathSound(p))

-----------------------------------------------------------------------------
LEMMA ToSetEmpty == Store!ToSet(<<>>) = {}
  BY DEF Store!ToSet

LEMMA ToSetAppend ==
  ASSUME NEW S, NEW q \in Seq(S), NEW e
  PROVE  Store!ToSet(Append(q, e)) = Store!ToSet(q) \cup {e}
  <1>1. q \in Seq(S \cup {e}) /\ e \in S \cup {e}
    OBVIOUS
  <1>2. /\ Len(Append(q, e)) = Len(q) + 1 /\ Append(q, e)[Len(q) + 1] = e
        /\ \A i \in 1..Len(q) : Append(q, e)[i] = q[i]
        /\ DOMAIN Append(q, e) = 1..Len(q) + 1 /\ DOMAIN q = 1..Len(q) /\ Len(q) \in Nat
    BY <1>1
  <1>3. \A i \in 1..Len(q) + 1 : i \in 1..Len(q) \/ i = Len(q) + 1
    BY <1>2
  <1>4. \A i \in 1..Len(q) : i \in 1..Len(q) + 1
    BY <1>2
  <1>5. Len(q) + 1 \in 1..Len(q) + 1
    BY <1>2
  <1> QED BY <1>2, <1>3, <1>4, <1>5, Zenon DEF Store!ToSet

LEMMA ToSetHead ==
  ASSUME NEW S, NEW q \in Seq(S), q # <<>>
  PROVE  /\ Head(q) \in S /\ Tail(q) \in Seq(S)
         /\ Store!ToSet(q) = Store!ToSet(Tail(q)) \cup {Head(q)}
  <1>1. Head(q) \in S /\ Tail(q) \in Seq(S) /\ Head(q) = q[1]
    BY HeadTailProperties
  <1>2. /\ DOMAIN q = 1..Len(q) /\ Len(q) \in Nat \ {0}
        /\ DOMAIN Tail(q) = 1..Len(q) - 1
        /\ \A i \in 1..Len(q) - 1 : Tail(q)[i] = q[i + 1]
    BY HeadTailProperties, EmptySeq
  <1>3. \A i \in 1..Len(q) : i = 1 \/ (i - 1 \in 1..Len(q) - 1 /\ (i - 1) + 1 = i)
    BY <1>2
  <1>4. \A i \in 1..Len(q) - 1 : i + 1 \in 1..Len(q)
    BY <1>2
  <1>5. 1 \in 1..Len(q)
    BY <1>2
  <1>6. ASSUME NEW x \in Store!ToSet(q) PROVE x \in Store!ToSet(Tail(q)) \cup {Head(q)}
    <2>1. PICK i \in 1..Len(q) : x = q[i]
      BY <1>2 DEF Store!ToSet
    <2>2. CASE i = 1
      BY <2>1, <2>2, <1>1
    <2>3. CASE i - 1 \in 1..Len(q) - 1 /\ (i - 1) + 1 = i
      <3>1. Tail(q)[i - 1] = x
        BY <2>1, <2>3, <1>2
      <3> QED BY <3>1, <2>3, <1>2 DEF Store!ToSet
    <2> QED BY <2>2, <2>3, <1>3
  <1>7. ASSUME NEW x \in Store!ToSet(Tail(q)) \cup {Head(q)} PROVE x \in Store!ToSet(q)
    <2>1. CASE x = Head(q)
      BY <2>1, <1>1, <1>2, <1>5 DEF Store!ToSet
    <2>2. CASE x \in Store!ToSet(Tail(q))
      <3>1. PICK i \in 1..Len(q) - 1 : x = Tail(q)[i]
        BY <2>2, <1>2 DEF Store!ToSet
      <3> QED BY <3>1, <1>2, <1>4 DEF Store!ToSet
    <2> QED BY <2>1, <2>2
  <1> QED BY <1>1, <1>6, <1>7

\* What is wanted of a file: one task for the whole of it, one for each of its symbols.
LEMMA WantedIs ==
  ASSUME StoreAssumed, NEW p \in Source, NEW v \in Version
  PROVE  /\ Wanted(p, v) = Store!Wanted(p, v) /\ Wanted(p, v) \subseteq Tasks
         /\ \A t \in Wanted(p, v) : t.path = p /\ t = Store!Task(p, t.symbol, t.text, t.body)
         /\ Store!FileTask(p, v) \in Wanted(p, v)
         /\ \A t \in Wanted(p, v) : t.symbol = Store!Whole => t.text = v
         /\ \A s \in Store!ToSet(Symbols[v]) : Store!Task(p, s.name, s.text, s.body) \in Wanted(p, v)
         /\ \A t \in Wanted(p, v) :
              \/ t = Store!FileTask(p, v)
              \/ \E s \in Store!ToSet(Symbols[v]) : t = Store!Task(p, s.name, s.text, s.body)
  <1>1. v # 0 /\ \A s \in Store!ToSet(Symbols[v]) : s \in Symbol /\ s.name # Store!Whole
    BY DEF StoreAssumed, Symbol
  <1>2. Wanted(p, v) = Store!Wanted(p, v) /\ Wanted(p, v) \subseteq Tasks
    BY <1>1 DEF Wanted, Tasks
  <1>3. Store!Wanted(p, v) = {Store!FileTask(p, v)}
          \cup {Store!Task(p, s.name, s.text, s.body) : s \in Store!ToSet(Symbols[v])}
    BY DEF Store!Wanted
  <1>4. /\ \A s, x, y : LET t == Store!Task(p, s, x, y)
                         IN  t.path = p /\ t.symbol = s /\ t.text = x /\ t.body = y
        /\ Store!FileTask(p, v).symbol = Store!Whole /\ Store!FileTask(p, v).text = v
        /\ Store!FileTask(p, v).path = p /\ Store!FileTask(p, v).body = v
        /\ Store!FileTask(p, v) = Store!Task(p, Store!Whole, v, v)
    BY DEF Store!Task, Store!FileTask
  <1> HIDE DEF Version
  <1>5. \A t \in Wanted(p, v) :
              \/ t = Store!FileTask(p, v)
              \/ \E s \in Store!ToSet(Symbols[v]) : t = Store!Task(p, s.name, s.text, s.body)
    BY <1>2, <1>3, Zenon
  <1>6. \A t \in Wanted(p, v) : t.path = p /\ t = Store!Task(p, t.symbol, t.text, t.body)
    BY <1>4, <1>5
  <1>7. \A s \in Store!ToSet(Symbols[v]) : Store!Task(p, s.name, s.text, s.body) \in Wanted(p, v)
    BY <1>2, <1>3, Zenon
  <1>8. \A t \in Wanted(p, v) : t.symbol = Store!Whole => t.text = v
    BY <1>1, <1>4, <1>5
  <1>9. Store!FileTask(p, v) \in Wanted(p, v)
    BY <1>2, <1>3, Zenon
  <1> QED BY <1>2, <1>5, <1>6, <1>7, <1>8, <1>9

LEMMA WantedNothing == \A p : Wanted(p, 0) = {}
  BY DEF Wanted

\* A task is one of those of its file and version.
LEMMA TaskIs ==
  ASSUME StoreAssumed, NEW t \in Tasks
  PROVE  t.path \in Source /\ t = Store!Task(t.path, t.symbol, t.text, t.body) /\ t # None
  <1>1. PICK p \in Source, v \in Version : t \in Store!Wanted(p, v)
    BY DEF Tasks
  <1> QED BY <1>1, WantedIs DEF StoreAssumed

LEMMA WholeTask ==
  ASSUME StoreAssumed, NEW p \in Source, NEW v \in Version
  PROVE  Store!FileTask(p, v) \in Tasks
  BY WantedIs

LEMMA SymbolTask ==
  ASSUME StoreAssumed, NEW p \in Source, NEW s \in Symbol
  PROVE  Store!Task(p, s.name, s.text, s.body) \in Tasks
  <1>1. PICK v \in Version : s \in Store!ToSet(Symbols[v])
    BY DEF Symbol
  <1> QED BY <1>1, WantedIs

\* Agrees speaks of the rows and tasks of one file alone.
LEMMA AgreesSame ==
  ASSUME NEW p, NEW v, NEW left, NEW more, NEW its, NEW rest, NEW pend, NEW todo,
         Agrees(p, v, left, its, pend), left \subseteq more,
         \A r \in its : r.path = p => r \in rest, \A r \in rest : r.path = p => r \in its,
         \A t \in pend : t.path = p => t \in todo, \A t \in todo : t.path = p => t \in pend
  PROVE  Agrees(p, v, more, rest, todo)
  BY DEF Agrees

LEMMA IndexedSame ==
  ASSUME NEW p, NEW its, NEW rest, NEW pend, NEW todo, Indexed(p, its, pend),
         \A r \in its : r.path = p => r \in rest, \A r \in rest : r.path = p => r \in its,
         \A t \in pend : t.path = p => t \in todo, \A t \in todo : t.path = p => t \in pend
  PROVE  Indexed(p, rest, todo)
  <1>1. PICK v \in {0} \cup Version : Agrees(p, v, {}, its, pend)
    BY DEF Indexed
  <1>2. Agrees(p, v, {}, rest, todo)
    BY <1>1, AgreesSame
  <1> QED BY <1>2 DEF Indexed

\* A file without rows and without tasks agrees with there being no file.
LEMMA AgreesNothing ==
  ASSUME NEW p, NEW its, NEW pend, \A r \in its : r.path # p, \A t \in pend : t.path # p
  PROVE  Agrees(p, 0, {}, its, pend) /\ Indexed(p, its, pend)
  BY WantedNothing DEF Agrees, Indexed

\* The run stays where it is, and so does what there is of file p.
LEMMA PathSame ==
  ASSUME NEW p \in Source, PathSound(p), run' = run, files'[p] = files[p] \/ run.pc = "off",
         \A r \in items : r.path = p => r \in items', \A r \in items' : r.path = p => r \in items,
         \A t \in Pending : t.path = p => t \in Pending',
         \A t \in Pending' : t.path = p => t \in Pending
  PROVE  PathSound(p)'
  <1>1. Indexed(p, items, Pending) => Indexed(p, items', Pending')
    BY IndexedSame
  <1>2. \A left : Agrees(p, files[p], left, items, Pending)
                    => Agrees(p, files[p], left, items', Pending')
    BY AgreesSame
  <1>3. Left' = Left /\ (Now(p)' <=> Now(p))
    BY DEF Left, Now, Store!ToSet
  <1>4. Now(p) => run.pc # "off"
    BY DEF Now
  <1> QED BY <1>1, <1>2, <1>3, <1>4 DEF PathSound, Quiet

LEMMA RunsSame == ASSUME RunsWhole, run' = run, files' = files PROVE RunsWhole'
  BY DEF RunsWhole, Store!ToSet

LEMMA PendingSame == UNCHANGED <<queue, embedding>> => Pending' = Pending
  BY DEF Pending, Store!ToSet

LEMMA PendingIsTasks == ASSUME StoreTypes PROVE Pending \subseteq Tasks
  <1>1. queue \in Seq(Tasks) /\ embedding \in Tasks \cup {None}
    BY DEF StoreTypes
  <1>2. Store!ToSet(queue) \subseteq Tasks
    BY <1>1 DEF Store!ToSet
  <1> QED BY <1>1, <1>2 DEF Pending

LEMMA IdleIsEmpty == ASSUME Store!Idle PROVE Pending = {}
  BY ToSetEmpty DEF Pending, Store!Idle

LEMMA OffIsRun == Store!Off \in RunRec /\ Store!Off.pc = "off" /\ ~Store!Off.cancelled
  <1>1. <<>> \in Scans
    <2>1. <<>> \in [{} -> Version]
      OBVIOUS
    <2> QED BY <2>1 DEF Scans
  <1> QED BY <1>1 DEF Store!Off, RunRec

-----------------------------------------------------------------------------
LEMMA InitStore == ASSUME StoreAssumed PROVE Store!Init => StoreInv
  <1> SUFFICES ASSUME Store!Init PROVE StoreInv
    OBVIOUS
  <1> USE DEF Store!Init
  <1>1. StoreTypes
    BY OffIsRun DEF StoreTypes, RunSound, RowsUnique, Store!Versions, Version
  <1>2. RunsWhole
    BY OffIsRun DEF RunsWhole
  <1>3. ASSUME NEW p \in Source PROVE PathSound(p)
    <2>1. Pending = {}
      BY IdleIsEmpty DEF Store!Idle
    <2>2. Indexed(p, items, Pending)
      BY <2>1, AgreesNothing
    <2> QED BY <2>2, OffIsRun DEF PathSound, Now
  <1> QED BY <1>1, <1>2, <1>3 DEF StoreInv

\* The world, the commands and a restart.

LEMMA EditKeeps == ASSUME StoreAssumed, StoreInv, Store!Edit PROVE StoreInv'
  <1> USE DEF Store!Edit
  <1>1. PICK p \in Source, v \in {0} \cup Version : files' = [files EXCEPT ![p] = v]
    BY DEF Store!Versions, Version
  <1>2. files' \in [Source -> {0} \cup Version]
    BY <1>1 DEF StoreInv, StoreTypes
  <1>3. StoreTypes'
    BY <1>2 DEF StoreInv, StoreTypes, RunSound, RowsUnique
  <1>4. ASSUME whole' PROVE RunsWhole' /\ \A q \in Source : PathSound(q)'
    <2>1. whole /\ run.pc = "off" /\ RunsWhole /\ \A q \in Source : PathSound(q)
      BY <1>4 DEF StoreInv
    <2>2. RunsWhole'
      BY <2>1 DEF RunsWhole
    <2>3. ASSUME NEW q \in Source PROVE PathSound(q)'
      BY <2>1, PathSame, PendingSame
    <2> QED BY <2>2, <2>3
  <1> QED BY <1>3, <1>4 DEF StoreInv

\* Nothing is left but whole rows, and perhaps a run that was told to stop.
LEMMA Emptied ==
  ASSUME StoreTypes, run' = Store!Off, items' = {}, nextId' \in Nat, queue' = <<>>,
         embedding' = None, UNCHANGED files
  PROVE  StoreInv'
  <1>1. StoreTypes'
    BY OffIsRun DEF StoreTypes, RunSound, RowsUnique
  <1>2. RunsWhole'
    BY OffIsRun DEF RunsWhole
  <1>3. ASSUME NEW p \in Source PROVE PathSound(p)'
    <2>1. Pending' = {}
      BY ToSetEmpty DEF Pending, Store!ToSet
    <2>2. Indexed(p, items', Pending')
      BY <2>1, AgreesNothing
    <2> QED BY <2>2, OffIsRun DEF PathSound, Now
  <1> QED BY <1>1, <1>2, <1>3 DEF StoreInv

LEMMA CancelKeeps == ASSUME StoreAssumed, StoreInv, Store!Cancel PROVE StoreInv'
  <1> USE DEF Store!Cancel
  <1>1. /\ run' \in RunRec /\ RunSound'
    BY DEF StoreInv, StoreTypes, RunSound, RunRec
  <1>2. StoreTypes'
    BY <1>1 DEF StoreInv, StoreTypes, RowsUnique
  <1>3. ASSUME whole' PROVE RunsWhole' /\ \A q \in Source : PathSound(q)'
    <2>1. /\ whole /\ run.pc = "off" /\ Store!Idle /\ RunsWhole /\ run' = run
          /\ \A q \in Source : PathSound(q)
      BY <1>3 DEF StoreInv
    <2>2. Pending' = Pending
      BY <2>1, PendingSame DEF Store!Idle
    <2>3. RunsWhole'
      BY <2>1 DEF RunsWhole
    <2>4. ASSUME NEW q \in Source PROVE PathSound(q)'
      BY <2>1, <2>2, PathSame
    <2> QED BY <2>3, <2>4
  <1> QED BY <1>2, <1>3 DEF StoreInv

LEMMA CleanKeeps == ASSUME StoreAssumed, StoreInv, Store!Clean PROVE StoreInv'
  <1> USE DEF Store!Clean, Store!Emptied
  <1>1. CASE run.pc = "off"
    BY <1>1, Emptied DEF StoreInv, StoreTypes, RunSound
  <1>2. CASE run.pc # "off"
    <2>1. run' \in RunRec /\ RunSound'
      BY <1>2 DEF StoreInv, StoreTypes, RunSound, RunRec
    <2>2. ~whole'
      BY <1>2
    <2>3. queue' \in Seq(Tasks) /\ nextId' \in Nat
      OBVIOUS
    <2>4. StoreTypes'
      BY <2>1, <2>3 DEF StoreInv, StoreTypes, RowsUnique
    <2> QED BY <2>2, <2>4 DEF StoreInv
  <1> QED BY <1>1, <1>2

LEMMA ReopenKeeps == ASSUME StoreAssumed, StoreInv, Store!Reopen PROVE StoreInv'
  <1> USE DEF Store!Reopen, Store!Emptied
  <1>1. CASE model' # model
    BY <1>1, Emptied DEF StoreInv
  <1>2. CASE model' = model
    <2>1. StoreTypes'
      BY <1>2, OffIsRun DEF StoreInv, StoreTypes, RunSound, RowsUnique
    <2>2. ASSUME whole' PROVE RunsWhole' /\ \A q \in Source : PathSound(q)'
      <3>1. /\ whole /\ run.pc = "off" /\ Store!Idle /\ RunsWhole
            /\ \A q \in Source : PathSound(q)
        BY <1>2, <2>2 DEF StoreInv
      <3>2. run' = run
        BY <3>1 DEF StoreInv, StoreTypes, RunSound
      <3>3. Pending' = Pending
        BY <3>1, PendingSame DEF Store!Idle
      <3>4. RunsWhole'
        BY <3>1, <3>2 DEF RunsWhole
      <3>5. ASSUME NEW q \in Source PROVE PathSound(q)'
        BY <1>2, <3>1, <3>2, <3>3, PathSame
      <3> QED BY <3>4, <3>5
    <2> QED BY <2>1, <2>2 DEF StoreInv
  <1> QED BY <1>1, <1>2

-----------------------------------------------------------------------------
\* The worker.

\* A task that is stored, or is there already, waits no longer: the row is of its text.
LEMMA AgreesStored ==
  ASSUME NEW t, NEW v, NEW its, NEW rest, NEW pend, NEW todo,
         NEW left, Agrees(t.path, v, left, its, pend), t \in pend,
         t = Store!Task(t.path, t.symbol, t.text, t.body),
         todo \subseteq pend, \A u \in pend : u # t => u \in todo,
         \A r \in its : r.path = t.path /\ r.symbol # t.symbol => r \in rest,
         \A r \in rest : r.path = t.path /\ r.symbol # t.symbol => r \in its,
         \E r \in rest : r.path = t.path /\ r.symbol = t.symbol,
         \A r \in rest : r.path = t.path /\ r.symbol = t.symbol => r.text = t.text
  PROVE  Agrees(t.path, v, left, rest, todo)
  <1>1. t \in Wanted(t.path, v)
    BY DEF Agrees
  <1>2. \A u \in todo : u.path = t.path => u \in Wanted(t.path, v)
    BY DEF Agrees
  <1>3. ASSUME NEW r \in rest, r.path = t.path
        PROVE  /\ \E u \in Wanted(t.path, v) : u.symbol = r.symbol
               /\ \/ TextOf(r, t.path, v)
                  \/ r.symbol \in left
                  \/ \E u \in todo : u.path = t.path /\ u.symbol = r.symbol
    <2>1. CASE r.symbol = t.symbol
      BY <1>1, <1>3, <2>1 DEF TextOf
    <2>2. CASE r.symbol # t.symbol
      <3>1. r \in its
        BY <1>3, <2>2
      <3>2. /\ \E u \in Wanted(t.path, v) : u.symbol = r.symbol
            /\ \/ TextOf(r, t.path, v)
               \/ r.symbol \in left
               \/ \E u \in pend : u.path = t.path /\ u.symbol = r.symbol
        BY <1>3, <3>1 DEF Agrees
      <3>3. \A u \in pend : u.symbol = r.symbol => u \in todo
        BY <2>2
      <3> QED BY <3>2, <3>3
    <2> QED BY <2>1, <2>2
  <1>4. ASSUME NEW u \in Wanted(t.path, v)
        PROVE  \/ u.symbol \in left
               \/ \E r \in rest : r.path = t.path /\ r.symbol = u.symbol
               \/ \E w \in todo : w.path = t.path /\ w.symbol = u.symbol
    <2>1. CASE u.symbol = t.symbol
      BY <2>1
    <2>2. CASE u.symbol # t.symbol
      BY <2>2 DEF Agrees
    <2> QED BY <2>1, <2>2
  <1> QED BY <1>2, <1>3, <1>4 DEF Agrees

\* The same for everything that is known of its file.
LEMMA PathStored ==
  ASSUME StoreInv, whole, NEW t \in Tasks, t \in Pending, run' = run, files' = files,
         t = Store!Task(t.path, t.symbol, t.text, t.body),
         Pending' \subseteq Pending, \A u \in Pending : u # t => u \in Pending',
         \A r \in items : r.path # t.path \/ r.symbol # t.symbol => r \in items',
         \A r \in items' : r.path # t.path \/ r.symbol # t.symbol => r \in items,
         \E r \in items' : r.path = t.path /\ r.symbol = t.symbol,
         \A r \in items' : r.path = t.path /\ r.symbol = t.symbol => r.text = t.text
  PROVE  RunsWhole' /\ \A p \in Source : PathSound(p)'
  <1>1. RunsWhole /\ \A p \in Source : PathSound(p)
    BY DEF StoreInv
  <1>2. RunsWhole'
    BY <1>1 DEF RunsWhole, Store!ToSet
  <1>3. ASSUME NEW p \in Source PROVE PathSound(p)'
    <2>1. CASE p # t.path
      BY <1>1, <2>1, PathSame
    <2>2. CASE p = t.path
      <3>1. \A v, left : Agrees(p, v, left, items, Pending)
                           => Agrees(p, v, left, items', Pending')
        BY <2>2, AgreesStored
      <3>2. Indexed(p, items, Pending) => Indexed(p, items', Pending')
        BY <3>1 DEF Indexed
      <3>3. Left' = Left /\ (Now(p)' <=> Now(p)) /\ (Now(p) => run.pc # "off")
        BY DEF Left, Now, Store!ToSet
      <3>4. ~Quiet(p, Pending)
        BY <2>2 DEF Quiet
      <3> QED BY <1>1, <3>1, <3>2, <3>3, <3>4 DEF PathSound
    <2> QED BY <2>1, <2>2
  <1> QED BY <1>2, <1>3

\* The row of a task gets the task's text and body: it stays the one row of its symbol.
LEMMA RowReplaced ==
  ASSUME items \subseteq RowRec, RowsUnique, NEW t \in Tasks,
         t = Store!Task(t.path, t.symbol, t.text, t.body), Store!Row(t.path, t.symbol) # {},
         items' = {IF r \in Store!Row(t.path, t.symbol)
                   THEN [r EXCEPT !.text = t.text, !.body = t.body] ELSE r : r \in items}
  PROVE  /\ items' \subseteq RowRec /\ RowsUnique'
         /\ \A r \in items : r.path # t.path \/ r.symbol # t.symbol => r \in items'
         /\ \A r \in items' : r.path # t.path \/ r.symbol # t.symbol => r \in items
         /\ \E r \in items' : r.path = t.path /\ r.symbol = t.symbol
         /\ \A r \in items' : r.path = t.path /\ r.symbol = t.symbol => r.text = t.text
  <1> DEFINE g(r) == IF r \in Store!Row(t.path, t.symbol)
                 THEN [r EXCEPT !.text = t.text, !.body = t.body] ELSE r
  <1>1. items' = {g(r) : r \in items}
    OBVIOUS
  <1>2. \A r \in items : r \in Store!Row(t.path, t.symbol)
                           <=> r.path = t.path /\ r.symbol = t.symbol
    BY DEF Store!Row
  <1>3. ASSUME NEW r \in items, r.path = t.path, r.symbol = t.symbol
        PROVE  /\ g(r) \in RowRec /\ g(r).path = t.path /\ g(r).symbol = t.symbol
               /\ g(r).text = t.text
    <2>1. g(r) = [r EXCEPT !.text = t.text, !.body = t.body]
      BY <1>2, <1>3
    <2>2. r \in RowRec
      OBVIOUS
    <2> QED BY <1>3, <2>1, <2>2 DEF RowRec
  <1>4. ASSUME NEW r \in items, r.path # t.path \/ r.symbol # t.symbol
        PROVE  g(r) = r
    BY <1>2, <1>4
  <1> HIDE DEF g
  <1>5. \A r \in items : g(r) \in RowRec /\ g(r).path = r.path /\ g(r).symbol = r.symbol
    BY <1>3, <1>4
  <1>6. PICK o \in items : o.path = t.path /\ o.symbol = t.symbol
    BY DEF Store!Row
  <1>7. RowsUnique'
    <2> SUFFICES ASSUME NEW r \in items', NEW s \in items', r.path = s.path, r.symbol = s.symbol
                 PROVE  r = s
      BY DEF RowsUnique
    <2>1. PICK a \in items : r = g(a)
      BY <1>1
    <2>2. PICK b \in items : s = g(b)
      BY <1>1
    <2>3. a.path = b.path /\ a.symbol = b.symbol
      BY <1>5, <2>1, <2>2
    <2>4. a = b
      BY <2>3 DEF RowsUnique
    <2> QED BY <2>1, <2>2, <2>4
  <1>8. \A r \in items' : r \in RowRec
    BY <1>1, <1>5
  <1>9. \A r \in items : r.path # t.path \/ r.symbol # t.symbol => r \in items'
    BY <1>1, <1>4
  <1>10. ASSUME NEW r \in items'
         PROVE  /\ r.path # t.path \/ r.symbol # t.symbol => r \in items
                /\ r.path = t.path /\ r.symbol = t.symbol => r.text = t.text
    <2>1. PICK a \in items : r = g(a)
      BY <1>1
    <2> QED BY <1>3, <1>4, <1>5, <2>1
  <1>11. g(o) \in items' /\ g(o).path = t.path /\ g(o).symbol = t.symbol
    BY <1>1, <1>3, <1>6
  <1> QED BY <1>7, <1>8, <1>9, <1>10, <1>11

LEMMA PopKeeps == ASSUME StoreAssumed, StoreInv, Store!Pop PROVE StoreInv'
  <1> DEFINE t == Head(queue)
  <1> USE DEF Store!Pop
  <1>1. /\ embedding = None /\ queue # <<>> /\ queue' = Tail(queue)
        /\ embedding' = IF Store!Same(t.path, t.symbol, t.text) THEN None ELSE t
        /\ IF Store!Same(t.path, t.symbol, t.text)
           THEN items' = {IF r \in Store!Row(t.path, t.symbol) THEN [r EXCEPT !.body = t.body]
                          ELSE r : r \in items}
           ELSE UNCHANGED items
        /\ UNCHANGED <<files, nextId, run, whole>>
    OBVIOUS
  <1>2. /\ t \in Tasks /\ Tail(queue) \in Seq(Tasks)
        /\ Store!ToSet(queue) = Store!ToSet(Tail(queue)) \cup {t}
    BY ToSetHead DEF StoreInv, StoreTypes
  <1>3. t.path \in Source /\ t = Store!Task(t.path, t.symbol, t.text, t.body) /\ t # None
    BY <1>2, TaskIs
  <1> HIDE DEF t
  <1>0. items \subseteq RowRec /\ RowsUnique
    BY DEF StoreInv, StoreTypes
  <1>9. ASSUME Store!Same(t.path, t.symbol, t.text)
        PROVE  /\ items' \subseteq RowRec /\ RowsUnique'
               /\ \A r \in items : r.path # t.path \/ r.symbol # t.symbol => r \in items'
               /\ \A r \in items' : r.path # t.path \/ r.symbol # t.symbol => r \in items
               /\ \E r \in items' : r.path = t.path /\ r.symbol = t.symbol
               /\ \A r \in items' : r.path = t.path /\ r.symbol = t.symbol => r.text = t.text
    <2>1. PICK r \in items : r.path = t.path /\ r.symbol = t.symbol /\ r.text = t.text
      BY <1>9 DEF Store!Same, Store!Row
    <2>2. \A s \in Store!Row(t.path, t.symbol) : s = r
      BY <1>0, <2>1 DEF RowsUnique, Store!Row
    <2>3. [r EXCEPT !.body = t.body] = [r EXCEPT !.text = t.text, !.body = t.body]
      BY <1>0, <2>1 DEF RowRec
    <2>4. items' = {IF s \in Store!Row(t.path, t.symbol)
                    THEN [s EXCEPT !.text = t.text, !.body = t.body] ELSE s : s \in items}
      <3> DEFINE f(s) == IF s \in Store!Row(t.path, t.symbol) THEN [s EXCEPT !.body = t.body] ELSE s
                 g(s) == IF s \in Store!Row(t.path, t.symbol)
                         THEN [s EXCEPT !.text = t.text, !.body = t.body] ELSE s
      <3>1. \A s \in items : f(s) = g(s)
        BY <2>2, <2>3
      <3>2. items' = {f(s) : s \in items}
        BY <1>1, <1>9
      <3> HIDE DEF f, g
      <3>3. items' = {g(s) : s \in items}
        BY <3>1, <3>2
      <3> QED BY <3>3 DEF g
    <2>5. Store!Row(t.path, t.symbol) # {}
      BY <2>1 DEF Store!Row
    <2> QED BY <1>0, <1>2, <1>3, <2>4, <2>5, RowReplaced
  <1>4. StoreTypes'
    BY <1>1, <1>2, <1>9 DEF StoreInv, StoreTypes, RunSound, RowsUnique
  <1>5. Pending = Store!ToSet(Tail(queue)) \cup {t}
    BY <1>1, <1>2 DEF Pending
  <1>6. Pending' = Store!ToSet(Tail(queue)) \cup ({embedding'} \ {None})
    BY <1>1 DEF Pending, Store!ToSet
  <1>7. ASSUME whole PROVE RunsWhole' /\ \A p \in Source : PathSound(p)'
    <2>1. CASE Store!Same(t.path, t.symbol, t.text)
      <3>1. Pending' = Store!ToSet(Tail(queue))
        BY <1>1, <1>6, <2>1
      <3> QED BY <1>1, <1>2, <1>3, <1>5, <1>7, <1>9, <2>1, <3>1, PathStored
    <2>2. CASE ~Store!Same(t.path, t.symbol, t.text)
      <3>1. Pending' = Pending
        BY <1>1, <1>3, <1>5, <1>6, <2>2
      <3>2. RunsWhole'
        <4>1. RunsWhole /\ run' = run /\ files' = files
          BY <1>1, <1>7 DEF StoreInv
        <4> QED BY <4>1, RunsSame
      <3>3. ASSUME NEW p \in Source PROVE PathSound(p)'
        BY <1>1, <1>7, <2>2, <3>1, PathSame DEF StoreInv
      <3> QED BY <3>2, <3>3
    <2> QED BY <2>1, <2>2
  <1> QED BY <1>1, <1>4, <1>7 DEF StoreInv

LEMMA StoreKeeps == ASSUME StoreAssumed, StoreInv, Store!Store PROVE StoreInv'
  <1> DEFINE t == embedding
  <1> USE DEF Store!Store
  <1>1. t \in Tasks /\ t # None
    BY DEF StoreInv, StoreTypes
  <1>2. t.path \in Source /\ t = Store!Task(t.path, t.symbol, t.text, t.body)
    BY <1>1, TaskIs
  <1>3. /\ items' = Store!Upserted(t) /\ embedding' = None
        /\ UNCHANGED <<files, queue, run, whole>>
        /\ nextId' \in {nextId, nextId + 1}
    OBVIOUS
  <1> HIDE DEF t
  <1>4. /\ items' \subseteq RowRec /\ RowsUnique'
        /\ \A r \in items : r.path # t.path \/ r.symbol # t.symbol => r \in items'
        /\ \A r \in items' : r.path # t.path \/ r.symbol # t.symbol => r \in items
        /\ \E r \in items' : r.path = t.path /\ r.symbol = t.symbol
        /\ \A r \in items' : r.path = t.path /\ r.symbol = t.symbol => r.text = t.text
    <2>0. items \subseteq RowRec /\ RowsUnique /\ nextId \in Nat
      BY DEF StoreInv, StoreTypes
    <2>1. CASE Store!Row(t.path, t.symbol) = {}
      <3> DEFINE n == [id |-> nextId, path |-> t.path, symbol |-> t.symbol, text |-> t.text,
                       body |-> t.body]
      <3>1. items' = items \cup {n}
        BY <1>3, <2>1 DEF Store!Upserted
      <3>2. n \in RowRec /\ n.path = t.path /\ n.symbol = t.symbol /\ n.text = t.text
        BY <1>1, <1>2, <2>0 DEF RowRec
      <3> HIDE DEF n
      <3>3. \A r \in items : r.path # t.path \/ r.symbol # t.symbol
        BY <2>1 DEF Store!Row
      <3>4. RowsUnique'
        BY <2>0, <3>1, <3>2, <3>3 DEF RowsUnique
      <3> QED BY <2>0, <3>1, <3>2, <3>3, <3>4
    <2>2. CASE Store!Row(t.path, t.symbol) # {}
      <3>1. items' = {IF r \in Store!Row(t.path, t.symbol)
                      THEN [r EXCEPT !.text = t.text, !.body = t.body] ELSE r : r \in items}
        BY <1>3, <2>2 DEF Store!Upserted
      <3> QED BY <1>1, <1>2, <2>0, <2>2, <3>1, RowReplaced
    <2> QED BY <2>1, <2>2
  <1>5. StoreTypes'
    BY <1>3, <1>4 DEF StoreInv, StoreTypes, RunSound
  <1>6. Pending = Store!ToSet(queue) \cup {t} /\ Pending' = Store!ToSet(queue)
    BY <1>1, <1>3 DEF Pending, t, Store!ToSet
  <1>7. ASSUME whole PROVE RunsWhole' /\ \A p \in Source : PathSound(p)'
    BY <1>1, <1>2, <1>3, <1>4, <1>6, <1>7, PathStored
  <1> QED BY <1>3, <1>5, <1>7 DEF StoreInv

LEMMA FailKeeps == ASSUME StoreAssumed, StoreInv, Store!Fail PROVE StoreInv'
  BY DEF Store!Fail, StoreInv, StoreTypes, RunSound, RowsUnique

-----------------------------------------------------------------------------
\* RunIndex.

LEMMA StartKeeps == ASSUME StoreAssumed, StoreInv, Store!StartIndex PROVE StoreInv'
  <1> DEFINE found == {p \in Source : files[p] # 0}
             gone  == {r.path : r \in items} \ found
  <1> USE DEF Store!StartIndex
  <1>1. /\ run' = [Store!Off EXCEPT !.pc = "files", !.todo = found,
                     !.scanned = [p \in found |-> files[p]], !.gone = gone]
        /\ run.pc = "off" /\ whole' = (whole /\ Store!Idle)
        /\ UNCHANGED <<files, items, nextId, queue, embedding>>
    OBVIOUS
  <1>2. /\ run'.pc = "files" /\ run'.todo = found /\ run'.scanned = [p \in found |-> files[p]]
        /\ run'.gone = gone /\ ~run'.cancelled
        /\ run' = [pc |-> "files", todo |-> found, scanned |-> [p \in found |-> files[p]],
                   file |-> None, symbols |-> <<>>, gone |-> gone, cancelled |-> FALSE]
    BY <1>1 DEF Store!Off
  <1>3. found \subseteq Source /\ gone \subseteq Source /\ gone \cap found = {}
    BY DEF StoreInv, StoreTypes, RowRec
  <1>4. [p \in found |-> files[p]] \in Scans
    <2>1. [p \in found |-> files[p]] \in [found -> Version]
      BY DEF StoreInv, StoreTypes
    <2> QED BY <1>3, <2>1 DEF Scans
  <1>5. \A p \in Source : p \notin found => files[p] = 0
    OBVIOUS
  <1>6. \A p \in Source : p \notin found \cup gone => \A r \in items : r.path # p
    OBVIOUS
  <1>7. DOMAIN [p \in found |-> files[p]] = found /\ \A p \in found : [q \in found |-> files[q]][p] = files[p]
    OBVIOUS
  <1> HIDE DEF found, gone
  <1>8. run' \in RunRec /\ RunSound'
    <2>1. <<>> \in Seq(Symbol)
      OBVIOUS
    <2>2. run' \in RunRec
      BY <1>2, <1>3, <1>4, <2>1, Zenon DEF RunRec
    <2>3. RunSound'
      BY <1>2, <1>7 DEF RunSound
    <2> QED BY <2>2, <2>3
  <1>9. StoreTypes'
    BY <1>1, <1>8 DEF StoreInv, StoreTypes, RowsUnique
  <1>10. ASSUME whole' PROVE RunsWhole' /\ \A p \in Source : PathSound(p)'
    <2>1. whole /\ Pending = {} /\ Pending' = {} /\ \A p \in Source : PathSound(p)
      BY <1>1, <1>10, IdleIsEmpty, PendingSame DEF StoreInv
    <2>2. RunsWhole'
      BY <1>1, <1>2, <1>3, <1>5, <1>7 DEF RunsWhole
    <2>3. ASSUME NEW p \in Source PROVE PathSound(p)'
      <3>1. Indexed(p, items', Pending') /\ Quiet(p, Pending')
        BY <1>1, <2>1 DEF PathSound, Quiet
      <3>2. p \notin found \cup gone => Agrees(p, files'[p], {}, items', Pending')
        BY <1>1, <1>5, <1>6, <2>1, AgreesNothing
      <3> QED BY <1>2, <3>1, <3>2 DEF PathSound, Now
    <2> QED BY <2>2, <2>3
  <1> QED BY <1>9, <1>10 DEF StoreInv

LEMMA InterruptedKeeps == ASSUME StoreAssumed, StoreInv, Store!Interrupted PROVE StoreInv'
  <1> USE DEF Store!Interrupted
  <1>1. ~whole /\ ~whole'
    BY DEF StoreInv, RunsWhole
  <1>2. StoreTypes'
    BY OffIsRun DEF StoreInv, StoreTypes, RunSound, RowsUnique
  <1> QED BY <1>1, <1>2 DEF StoreInv

\* What the run knows of a file it is about to look at.
LEMMA Scanned ==
  ASSUME StoreAssumed, StoreTypes, run.pc # "off", NEW p \in DOMAIN run.scanned
  PROVE  p \in Source /\ run.scanned[p] \in Version /\ Store!FileTask(p, run.scanned[p]) \in Tasks
  <1>1. PICK found \in SUBSET Source : run.scanned \in [found -> Version]
    BY DEF StoreTypes, RunRec, Scans
  <1> QED BY <1>1, WholeTask

LEMMA SkipKeeps ==
  ASSUME StoreAssumed, StoreInv, run.pc = "files", NEW p \in run.todo, Store!SkipFile(p),
         UNCHANGED <<files, nextId, embedding>>
  PROVE  StoreInv'
  <1> USE DEF Store!SkipFile
  <1>0. run \in RunRec /\ RunSound
    BY DEF StoreInv, StoreTypes
  <1>1. /\ run' = [run EXCEPT !.todo = @ \ {p}]
        /\ UNCHANGED <<files, items, nextId, queue, embedding, whole>>
    OBVIOUS
  <1>2. /\ run' \in RunRec /\ run'.pc = "files" /\ run'.todo = run.todo \ {p}
        /\ run'.scanned = run.scanned /\ run'.gone = run.gone /\ run'.cancelled = run.cancelled
    BY <1>0, <1>1 DEF RunRec
  <1>3. StoreTypes'
    BY <1>0, <1>1, <1>2 DEF StoreInv, StoreTypes, RunSound, RowsUnique
  <1>4. p \in DOMAIN run.scanned /\ p \in Source /\ run.scanned[p] \in Version
    BY <1>0, Scanned DEF StoreInv, RunSound
  <1>5. ASSUME whole PROVE RunsWhole' /\ \A q \in Source : PathSound(q)'
    <2>1. RunsWhole /\ (\A q \in Source : PathSound(q)) /\ Pending' = Pending
      BY <1>1, <1>5, PendingSame DEF StoreInv
    <2>2. RunsWhole'
      BY <1>1, <1>2, <2>1 DEF RunsWhole
    <2>3. Agrees(p, files[p], {}, items, Pending)
      <3>1. Quiet(p, Pending) /\ Indexed(p, items, Pending)
        BY <2>1, <1>4 DEF PathSound
      <3>2. PICK v \in {0} \cup Version : Agrees(p, v, {}, items, Pending)
        BY <3>1 DEF Indexed
      <3>3. PICK r \in items : /\ r.path = p /\ r.symbol = Store!Whole
                               /\ r.text = run.scanned[p]
        BY DEF Store!Same, Store!Row
      <3>4. TextOf(r, p, v)
        BY <3>1, <3>2, <3>3 DEF Agrees, Quiet
      <3>5. v \in Version
        BY <3>4, WantedNothing DEF TextOf
      <3>6. v = run.scanned[p]
        BY <1>4, <3>3, <3>4, <3>5, WantedIs DEF TextOf
      <3> QED BY <1>4, <2>1, <3>2, <3>6 DEF RunsWhole
    <2>4. ASSUME NEW q \in Source PROVE PathSound(q)'
      <3>1. CASE q = p
        BY <1>1, <1>2, <2>1, <2>3, <1>4, <3>1 DEF PathSound, Now, RunsWhole
      <3>2. CASE q # p
        BY <1>1, <1>2, <2>1, <3>2 DEF PathSound, Now
      <3> QED BY <3>1, <3>2
    <2> QED BY <2>2, <2>4
  <1> QED BY <1>1, <1>3, <1>5 DEF StoreInv

\* The run has dealt with file p: from now on it is as the tasks will make it.
LEMMA FileDone ==
  ASSUME RunsWhole, \A q \in Source : PathSound(q), run.pc # "off",
         NEW p \in DOMAIN run.scanned, p \in run.todo \/ Now(p),
         run'.pc = "files", run'.todo = run.todo \ {p}, run'.gone = run.gone,
         run.pc = "files" \/ Now(p),
         files' = files, Agrees(p, files[p], {}, items', Pending'),
         \A r \in items : r.path # p => r \in items', \A r \in items' : r.path # p => r \in items,
         \A t \in Pending : t.path # p => t \in Pending',
         \A t \in Pending' : t.path # p => t \in Pending
  PROVE  \A q \in Source : PathSound(q)'
  <1> TAKE q \in Source
  <1>1. CASE q = p
    <2>1. q \notin run'.todo \cup run'.gone
      BY <1>1 DEF RunsWhole
    <2> QED BY <1>1, <2>1 DEF PathSound, Now
  <1>2. CASE q # p
    <2>1. Indexed(q, items, Pending) => Indexed(q, items', Pending')
      BY <1>2, IndexedSame
    <2>2. Agrees(q, files[q], {}, items, Pending) => Agrees(q, files[q], {}, items', Pending')
      BY <1>2, AgreesSame
    <2>3. ~Now(q)
      BY <1>2 DEF Now
    <2>4. Quiet(q, Pending) => Quiet(q, Pending')
      BY <1>2 DEF Quiet
    <2>5. PathSound(q)
      OBVIOUS
    <2> QED BY <1>2, <2>1, <2>2, <2>3, <2>4, <2>5 DEF PathSound, Now
  <1> QED BY <1>1, <1>2

\* A task more in the queue.
LEMMA PendingMore ==
  ASSUME StoreTypes, NEW t \in Tasks, t # None, queue' = Append(queue, t), embedding' = embedding
  PROVE  queue' \in Seq(Tasks) /\ Pending' = Pending \cup {t}
  <1>1. queue \in Seq(Tasks)
    BY DEF StoreTypes
  <1>2. Store!ToSet(Append(queue, t)) = Store!ToSet(queue) \cup {t}
    BY <1>1, ToSetAppend
  <1>3. queue' \in Seq(Tasks)
    BY <1>1
  <1>4. Pending' = Store!ToSet(Append(queue, t)) \cup ({embedding} \ {None})
    BY DEF Pending, Store!ToSet
  <1> QED BY <1>2, <1>3, <1>4 DEF Pending

LEMMA WholeFileKeeps ==
  ASSUME StoreAssumed, StoreInv, run.pc = "files", NEW p \in run.todo, Store!WholeFile(p),
         UNCHANGED <<files, nextId, embedding>>
  PROVE  StoreInv'
  <1> DEFINE t == Store!FileTask(p, run.scanned[p])
  <1> USE DEF Store!WholeFile
  <1>0. run \in RunRec /\ RunSound /\ StoreTypes
    BY DEF StoreInv, StoreTypes
  <1>1. /\ run' = [run EXCEPT !.todo = @ \ {p}] /\ queue' = Append(queue, t)
        /\ UNCHANGED <<files, items, nextId, embedding>>
        /\ whole' => /\ whole /\ Symbols[run.scanned[p]] = <<>>
                     /\ {r \in items : r.path = p /\ r.symbol # Store!Whole} = {}
    OBVIOUS
  <1>2. /\ run' \in RunRec /\ run'.pc = "files" /\ run'.todo = run.todo \ {p}
        /\ run'.scanned = run.scanned /\ run'.gone = run.gone /\ run'.cancelled = run.cancelled
    BY <1>0, <1>1 DEF RunRec
  <1>3. p \in DOMAIN run.scanned /\ p \in Source /\ run.scanned[p] \in Version /\ t \in Tasks
    BY <1>0, Scanned DEF RunSound
  <1>4. t.path = p /\ t.symbol = Store!Whole /\ t # None
    BY <1>3, TaskIs DEF Store!Task, Store!FileTask
  <1> HIDE DEF t
  <1>5. queue' \in Seq(Tasks) /\ Pending' = Pending \cup {t}
    BY <1>0, <1>1, <1>3, <1>4, PendingMore
  <1>6. StoreTypes'
    BY <1>0, <1>1, <1>2, <1>5 DEF StoreTypes, RunSound, RowsUnique
  <1>7. ASSUME whole' PROVE RunsWhole' /\ \A q \in Source : PathSound(q)'
    <2>1. RunsWhole /\ (\A q \in Source : PathSound(q))
      BY <1>1, <1>7 DEF StoreInv
    <2>2. RunsWhole'
      BY <1>1, <1>2, <2>1 DEF RunsWhole
    <2>3. Wanted(p, files[p]) = {t}
      <3>1. files[p] = run.scanned[p]
        BY <1>3, <2>1 DEF RunsWhole
      <3>2. Store!ToSet(Symbols[run.scanned[p]]) = {}
        BY <1>1, <1>7, ToSetEmpty
      <3>3. \A u \in Wanted(p, files[p]) : u = t
        BY <1>3, <3>1, <3>2, WantedIs DEF t
      <3>4. t \in Wanted(p, files[p])
        BY <1>3, <3>1, WantedIs DEF t
      <3> QED BY <3>3, <3>4
    <2>4. \A u \in Pending : u.path # p
      BY <1>3, <2>1 DEF PathSound, Quiet
    <2>5. \A r \in items : r.path = p => r.symbol = Store!Whole
      BY <1>1, <1>7
    <2>6. Agrees(p, files[p], {}, items, Pending')
      BY <1>4, <1>5, <2>3, <2>4, <2>5 DEF Agrees
    <2>7. \A q \in Source : PathSound(q)'
      BY <1>1, <1>2, <1>3, <1>4, <1>5, <2>1, <2>6, FileDone
    <2> QED BY <2>2, <2>7
  <1> QED BY <1>6, <1>7 DEF StoreInv

LEMMA SymbolsBegin ==
  ASSUME StoreAssumed, StoreInv, run.pc = "files", NEW p \in run.todo, files[p] # 0,
         Store!FileWithSymbols(p, Symbols[files[p]]), UNCHANGED <<files, nextId, embedding>>
  PROVE  StoreInv'
  <1> DEFINE found == Symbols[files[p]]
             names == {s.name : s \in Store!ToSet(found)}
  <1>0. run \in RunRec /\ RunSound /\ StoreTypes
    BY DEF StoreInv, StoreTypes
  <1>1. /\ run' = [run EXCEPT !.pc = "symbols", !.todo = @ \ {p}, !.file = p, !.symbols = found]
        /\ items' = items \ Store!Orphans(p, names)
        /\ UNCHANGED <<files, nextId, queue, embedding, whole>>
    BY DEF Store!FileWithSymbols, Store!Delete
  <1>2. p \in DOMAIN run.scanned /\ p \in Source /\ files[p] \in Version
    BY <1>0, Scanned DEF RunSound, StoreTypes
  <1>3. found \in Seq(Symbol)
    <2>1. Store!ToSet(found) \subseteq Symbol
      BY <1>2 DEF Symbol
    <2>2. found \in Seq(Store!ToSet(found))
      BY <1>2 DEF StoreAssumed
    <2> QED BY <2>1, <2>2
  <1> HIDE DEF found
  <1>4. /\ run' \in RunRec /\ run'.pc = "symbols" /\ run'.todo = run.todo \ {p} /\ run'.file = p
        /\ run'.symbols = found
        /\ run'.scanned = run.scanned /\ run'.gone = run.gone /\ run'.cancelled = run.cancelled
    <2>1. run' = [pc |-> "symbols", todo |-> run.todo \ {p}, scanned |-> run.scanned, file |-> p,
                  symbols |-> found, gone |-> run.gone, cancelled |-> run.cancelled]
      BY <1>0, <1>1 DEF RunRec
    <2>2. /\ run.todo \ {p} \in SUBSET Source /\ run.scanned \in Scans /\ run.gone \in SUBSET Source
          /\ run.cancelled \in BOOLEAN /\ p \in Source \cup {None} /\ found \in Seq(Symbol)
      BY <1>0, <1>2, <1>3 DEF RunRec
    <2>3. run' \in RunRec
      BY <2>1, <2>2 DEF RunRec
    <2> QED BY <2>1, <2>3
  <1>5. StoreTypes'
    BY <1>0, <1>1, <1>2, <1>4 DEF StoreTypes, RunSound, RowsUnique
  <1>6. /\ items' \subseteq items /\ \A r \in items : r.path # p => r \in items'
        /\ \A r \in items' : r.path = p => r.symbol = Store!Whole \/ r.symbol \in names
    BY <1>1 DEF Store!Orphans
  <1>7. ASSUME whole PROVE RunsWhole' /\ \A q \in Source : PathSound(q)'
    <2>1. RunsWhole /\ (\A q \in Source : PathSound(q)) /\ Pending' = Pending
      BY <1>1, <1>7, PendingSame DEF StoreInv
    <2>2. RunsWhole'
      <3>1. Store!ToSet(run'.symbols) = Store!ToSet(found) /\ found = Symbols[files'[run'.file]]
        BY <1>1, <1>4 DEF found
      <3> QED BY <1>1, <1>4, <2>1, <3>1 DEF RunsWhole, Store!ToSet
    <2>3. Left' = {Store!Whole} \cup names
      BY <1>4 DEF Left, Store!ToSet
    <2>4. Agrees(p, files[p], Left', items', Pending)
      <3>1. \A u \in Pending : u.path # p
        BY <1>2, <2>1 DEF PathSound, Quiet
      <3>2. ASSUME NEW x \in {Store!Whole} \cup names
            PROVE  \E u \in Wanted(p, files[p]) : u.symbol = x
        <4>1. CASE x = Store!Whole
          <5>1. Store!FileTask(p, files[p]) \in Wanted(p, files[p])
            BY <1>2, WantedIs
          <5> QED BY <4>1, <5>1 DEF Store!Task, Store!FileTask
        <4>2. CASE x \in names
          <5>1. PICK s \in Store!ToSet(found) : x = s.name
            BY <4>2
          <5>2. Store!Task(p, s.name, s.text, s.body) \in Wanted(p, files[p])
            BY <1>2, WantedIs DEF found
          <5> QED BY <5>1, <5>2 DEF Store!Task
        <4> QED BY <4>1, <4>2
      <3>3. ASSUME NEW u \in Wanted(p, files[p]) PROVE u.symbol \in {Store!Whole} \cup names
        <4>1. \/ u = Store!FileTask(p, files[p])
              \/ \E s \in Store!ToSet(found) : u = Store!Task(p, s.name, s.text, s.body)
          BY <1>2, WantedIs DEF found
        <4> QED BY <4>1 DEF Store!Task, Store!FileTask
      <3> QED BY <1>6, <2>3, <3>1, <3>2, <3>3 DEF Agrees
    <2>5. ASSUME NEW q \in Source PROVE PathSound(q)'
      <3>1. CASE q = p
        <4>1. q \notin run'.todo \cup run'.gone
          BY <1>2, <1>4, <2>1, <3>1 DEF RunsWhole
        <4> QED BY <1>1, <1>4, <2>1, <2>4, <3>1, <4>1 DEF PathSound, Now
      <3>2. CASE q # p
        <4>0. /\ \A r \in items : r.path = q => r \in items'
              /\ \A r \in items' : r.path = q => r \in items
          BY <1>6, <3>2
        <4>1. Indexed(q, items, Pending) => Indexed(q, items', Pending')
          BY <2>1, <4>0, IndexedSame
        <4>2. Agrees(q, files[q], {}, items, Pending) => Agrees(q, files[q], {}, items', Pending')
          <5> SUFFICES ASSUME Agrees(q, files[q], {}, items, Pending)
                       PROVE  Agrees(q, files[q], {}, items', Pending')
            OBVIOUS
          <5>1. /\ \A u \in Pending : u.path = q => u \in Pending'
                /\ \A u \in Pending' : u.path = q => u \in Pending
            BY <2>1
          <5> QED BY <4>0, <5>1, AgreesSame
        <4>3. ~Now(q) /\ ~Now(q)' /\ PathSound(q) /\ files'[q] = files[q]
          BY <1>1, <1>4, <2>1, <3>2 DEF Now
        <4>4. run'.pc # "off" /\ run'.todo = run.todo \ {p} /\ run'.gone = run.gone
          BY <1>4
        <4> QED BY <2>1, <3>2, <4>1, <4>2, <4>3, <4>4 DEF PathSound
      <3> QED BY <3>1, <3>2
    <2> QED BY <2>2, <2>5
  <1> QED BY <1>1, <1>5, <1>7 DEF StoreInv

LEMMA SymbolsGoOn ==
  ASSUME StoreAssumed, StoreInv, Store!NextSymbol
  PROVE  StoreInv'
  <1> DEFINE p == run.file
  <1> USE DEF Store!NextSymbol
  <1>0. run \in RunRec /\ RunSound /\ StoreTypes /\ run.pc = "symbols"
    BY DEF StoreInv, StoreTypes
  <1>1. /\ p \in DOMAIN run.scanned /\ p \in Source /\ run.scanned[p] \in Version
        /\ p \notin run.todo
        /\ Store!FileTask(p, run.scanned[p]) \in Tasks
    BY <1>0, Scanned DEF RunSound
  <1>2. UNCHANGED <<files, items, nextId, embedding, whole>>
    OBVIOUS
  <1>3. whole => /\ RunsWhole /\ (\A q \in Source : PathSound(q))
                 /\ run.scanned[p] = files[p] /\ files[p] \in Version
                 /\ Agrees(p, files[p], Left, items, Pending)
    BY <1>0, <1>1 DEF StoreInv, RunsWhole, PathSound, Now
  <1>4. CASE run.symbols = <<>>
    <2> DEFINE t == Store!FileTask(p, run.scanned[p])
    <2>1. run' = [run EXCEPT !.pc = "files", !.file = None] /\ queue' = Append(queue, t)
      BY <1>4
    <2>2. t.path = p /\ t.symbol = Store!Whole /\ t # None /\ t \in Tasks
      BY <1>1, TaskIs DEF Store!Task, Store!FileTask
    <2>3. whole => t \in Wanted(p, files[p])
      BY <1>1, <1>3, WantedIs
    <2> HIDE DEF t
    <2>4. /\ run' \in RunRec /\ run'.pc = "files" /\ run'.todo = run.todo
          /\ run'.scanned = run.scanned /\ run'.gone = run.gone /\ run'.cancelled = run.cancelled
      BY <1>0, <2>1 DEF RunRec
    <2>5. queue' \in Seq(Tasks) /\ Pending' = Pending \cup {t}
      BY <1>0, <1>2, <2>1, <2>2, PendingMore
    <2>6. StoreTypes'
      BY <1>0, <1>2, <2>4, <2>5 DEF StoreTypes, RunSound, RowsUnique
    <2>7. ASSUME whole PROVE RunsWhole' /\ \A q \in Source : PathSound(q)'
      <3>1. RunsWhole'
        BY <1>2, <1>3, <2>4, <2>7 DEF RunsWhole
      <3>2. Left = {Store!Whole}
        BY <1>4, ToSetEmpty DEF Left
      <3>3. Agrees(p, files[p], {}, items', Pending')
        BY <1>2, <1>3, <2>2, <2>3, <2>5, <2>7, <3>2 DEF Agrees
      <3>4. run'.todo = run.todo \ {p} /\ Now(p)
        BY <1>0, <1>1, <2>4 DEF Now
      <3>5. \A q \in Source : PathSound(q)'
        BY <1>0, <1>1, <1>2, <1>3, <2>2, <2>4, <2>5, <2>7, <3>3, <3>4, FileDone
      <3> QED BY <3>1, <3>5
    <2> QED BY <1>2, <2>6, <2>7 DEF StoreInv
  <1>5. CASE run.symbols # <<>>
    <2> DEFINE s == Head(run.symbols)
               t == Store!Task(p, s.name, s.text, s.body)
    <2>1. /\ run' = [run EXCEPT !.symbols = Tail(@)]
          /\ queue' = IF Store!Same(p, s.name, s.text) THEN queue ELSE Append(queue, t)
      BY <1>5
    <2>2. /\ s \in Symbol /\ Tail(run.symbols) \in Seq(Symbol)
          /\ Store!ToSet(run.symbols) = Store!ToSet(Tail(run.symbols)) \cup {s}
      BY <1>0, <1>5, ToSetHead DEF RunRec
    <2>3. t \in Tasks
      BY <1>1, <2>2, SymbolTask
    <2>4. t.path = p /\ t.symbol = s.name /\ t.text = s.text /\ t # None
      BY <2>3, TaskIs DEF Store!Task, Store!FileTask
    <2>5. whole => t \in Wanted(p, files[p])
      <3>1. whole => s \in Store!ToSet(Symbols[files[p]])
        BY <1>0, <1>3, <2>2 DEF RunsWhole
      <3> QED BY <1>1, <1>3, <3>1, WantedIs
    <2> HIDE DEF t, s
    <2>6. /\ run' \in RunRec /\ run'.pc = "symbols" /\ run'.todo = run.todo /\ run'.file = p
          /\ run'.symbols = Tail(run.symbols)
          /\ run'.scanned = run.scanned /\ run'.gone = run.gone /\ run'.cancelled = run.cancelled
      BY <1>0, <2>1, <2>2 DEF RunRec
    <2>7. /\ queue' \in Seq(Tasks)
          /\ \/ Pending' = Pending /\ Store!Same(p, s.name, s.text)
             \/ Pending' = Pending \cup {t}
      <3>1. CASE Store!Same(p, s.name, s.text)
        BY <1>0, <1>2, <2>1, <3>1, PendingSame DEF StoreTypes
      <3>2. CASE ~Store!Same(p, s.name, s.text)
        BY <1>0, <1>2, <2>1, <2>3, <2>4, <3>2, PendingMore
      <3> QED BY <3>1, <3>2
    <2>8. StoreTypes'
      BY <1>0, <1>1, <1>2, <2>6, <2>7 DEF StoreTypes, RunSound, RowsUnique
    <2>9. ASSUME whole PROVE RunsWhole' /\ \A q \in Source : PathSound(q)'
      <3>1. RunsWhole'
        <4>1. Store!ToSet(run'.symbols) = Store!ToSet(Tail(run.symbols))
          BY <2>6
        <4>2. Store!ToSet(Tail(run.symbols)) \subseteq Store!ToSet(Symbols[files[p]])
          BY <1>0, <1>3, <2>2, <2>9 DEF RunsWhole
        <4>3. RunsWhole /\ files' = files /\ run'.file = p
          BY <1>2, <1>3, <2>6, <2>9
        <4>4. Store!ToSet(run'.symbols) \subseteq Store!ToSet(Symbols[files[run'.file]])
          BY <4>1, <4>2, <4>3
        <4>5. Store!ToSet(run.symbols)' = Store!ToSet(run'.symbols)
          BY DEF Store!ToSet
        <4>6. Store!ToSet(Symbols[files[run.file]])' = Store!ToSet(Symbols[files[run'.file]])
          BY <4>3 DEF Store!ToSet
        <4> QED BY <1>0, <2>6, <4>3, <4>4, <4>5, <4>6 DEF RunsWhole
      <3>2. Left \subseteq Left' \cup {s.name} /\ Left' \subseteq Left
        <4>1. Left' = {Store!Whole} \cup {x.name : x \in Store!ToSet(Tail(run.symbols))}
          BY <2>6 DEF Left, Store!ToSet
        <4> QED BY <2>2, <4>1 DEF Left
      <3>3. Agrees(p, files[p], Left', items', Pending')
        <4>0. Agrees(p, files[p], Left, items, Pending) /\ items' = items
          BY <1>2, <1>3, <2>9
        <4>1. CASE Pending' = Pending \cup {t}
          BY <2>4, <2>5, <2>9, <3>2, <4>0, <4>1 DEF Agrees
        <4>2. CASE Pending' = Pending /\ Store!Same(p, s.name, s.text)
          <5>1. PICK r \in items : r.path = p /\ r.symbol = s.name /\ r.text = s.text
            BY <4>2 DEF Store!Same, Store!Row
          <5>2. \A o \in items : o.path = p /\ o.symbol = s.name => o = r
            BY <1>0, <5>1 DEF StoreTypes, RowsUnique
          <5>3. TextOf(r, p, files[p])
            BY <2>4, <2>5, <2>9, <5>1 DEF TextOf
          <5> QED BY <2>4, <2>5, <2>9, <3>2, <4>0, <4>2, <5>1, <5>2, <5>3 DEF Agrees
        <4> QED BY <2>7, <4>1, <4>2
      <3>4. ASSUME NEW q \in Source PROVE PathSound(q)'
        <4>1. CASE q = p
          <5>1. q \notin run'.todo \cup run'.gone
            BY <1>1, <1>3, <2>6, <2>9, <4>1 DEF RunsWhole
          <5> QED BY <1>2, <2>6, <3>3, <4>1, <5>1 DEF PathSound, Now
        <4>2. CASE q # p
          <5>1. /\ \A u \in Pending : u.path = q => u \in Pending'
                /\ \A u \in Pending' : u.path = q => u \in Pending
            BY <2>4, <2>7, <4>2
          <5>2. Indexed(q, items, Pending) => Indexed(q, items', Pending')
            BY <1>2, <5>1, IndexedSame
          <5>3. Agrees(q, files[q], {}, items, Pending) => Agrees(q, files[q], {}, items', Pending')
            BY <1>2, <5>1, AgreesSame
          <5>4. ~Now(q) /\ ~Now(q)' /\ PathSound(q) /\ files'[q] = files[q]
            BY <1>2, <1>3, <2>6, <2>9, <4>2 DEF Now
          <5>5. Quiet(q, Pending) => Quiet(q, Pending')
            BY <5>1 DEF Quiet
          <5> QED BY <1>0, <2>6, <5>2, <5>3, <5>4, <5>5 DEF PathSound
        <4> QED BY <4>1, <4>2
      <3> QED BY <3>1, <3>4
    <2> QED BY <1>2, <2>8, <2>9 DEF StoreInv
  <1> QED BY <1>4, <1>5

LEMMA RemoveGoneKeeps == ASSUME StoreAssumed, StoreInv, Store!RemoveGone PROVE StoreInv'
  <1>0. /\ run \in RunRec /\ RunSound /\ StoreTypes /\ run.pc = "files" /\ run.todo = {}
        /\ UNCHANGED <<files, nextId, queue, embedding, whole>>
    BY DEF StoreInv, StoreTypes, Store!RemoveGone
  <1>1. Pending' = Pending
    BY <1>0, PendingSame
  <1>2. CASE run.gone = {} /\ run' = Store!Off /\ UNCHANGED items
    <2>1. StoreTypes'
      BY <1>0, <1>2, OffIsRun DEF StoreTypes, RunSound, RowsUnique
    <2>2. ASSUME whole PROVE RunsWhole' /\ \A q \in Source : PathSound(q)'
      <3>1. RunsWhole'
        BY <1>2, OffIsRun DEF RunsWhole
      <3>2. ASSUME NEW q \in Source PROVE PathSound(q)'
        <4>1. Agrees(q, files[q], {}, items, Pending)
          BY <1>0, <1>2, <2>2 DEF StoreInv, PathSound, Now
        <4>2. files[q] \in {0} \cup Version
          BY <1>0 DEF StoreTypes
        <4>3. Indexed(q, items', Pending')
          BY <1>1, <1>2, <4>1, <4>2 DEF Indexed
        <4> QED BY <1>2, <4>3, OffIsRun DEF PathSound, Now
      <3> QED BY <3>1, <3>2
    <2> QED BY <1>0, <2>1, <2>2 DEF StoreInv
  <1>3. ASSUME NEW p \in run.gone, run' = [run EXCEPT !.gone = @ \ {p}],
               Store!Delete({r \in items : r.path = p})
        PROVE  StoreInv'
    <2>1. items' = items \ {r \in items : r.path = p}
      BY <1>3 DEF Store!Delete
    <2>2. /\ run' \in RunRec /\ run'.pc = run.pc /\ run'.todo = run.todo /\ p \in Source
          /\ run'.scanned = run.scanned /\ run'.gone = run.gone \ {p}
          /\ run'.cancelled = run.cancelled
      BY <1>0, <1>3 DEF RunRec
    <2>3. StoreTypes'
      BY <1>0, <2>1, <2>2 DEF StoreTypes, RunSound, RowsUnique
    <2>4. ASSUME whole PROVE RunsWhole' /\ \A q \in Source : PathSound(q)'
      <3>1. RunsWhole /\ \A q \in Source : PathSound(q)
        BY <2>4 DEF StoreInv
      <3>2. RunsWhole'
        BY <1>0, <2>2, <3>1 DEF RunsWhole
      <3>3. files[p] = 0 /\ Quiet(p, Pending)
        BY <1>0, <1>3, <2>2, <3>1 DEF RunsWhole, PathSound
      <3>4. Agrees(p, files[p], {}, items', Pending')
        <4>1. (\A r \in items' : r.path # p) /\ \A t \in Pending' : t.path # p
          BY <1>1, <2>1, <3>3 DEF Quiet
        <4> QED BY <3>3, <4>1, AgreesNothing
      <3>5. ASSUME NEW q \in Source PROVE PathSound(q)'
        <4>1. CASE q = p
          BY <1>0, <2>2, <3>4, <4>1 DEF PathSound, Now
        <4>2. CASE q # p
          <5>1. /\ \A r \in items : r.path = q => r \in items'
                /\ \A r \in items' : r.path = q => r \in items
                /\ \A t \in Pending : t.path = q => t \in Pending'
                /\ \A t \in Pending' : t.path = q => t \in Pending
            BY <1>1, <2>1, <4>2
          <5>2. Indexed(q, items, Pending) => Indexed(q, items', Pending')
            BY <5>1, IndexedSame
          <5>3. Agrees(q, files[q], {}, items, Pending) => Agrees(q, files[q], {}, items', Pending')
            <6> SUFFICES ASSUME Agrees(q, files[q], {}, items, Pending)
                         PROVE  Agrees(q, files[q], {}, items', Pending')
              OBVIOUS
            <6> QED BY <5>1, AgreesSame
          <5> QED BY <1>0, <1>1, <2>2, <3>1, <4>2, <5>2, <5>3 DEF PathSound, Now
        <4> QED BY <4>1, <4>2
      <3> QED BY <3>2, <3>5
    <2> QED BY <1>0, <2>3, <2>4 DEF StoreInv
  <1> QED BY <1>2, <1>3 DEF Store!RemoveGone

LEMMA NextFileKeeps == ASSUME StoreAssumed, StoreInv, Store!NextFile PROVE StoreInv'
  <1>1. run.pc = "files" /\ UNCHANGED <<files, nextId, embedding>>
    BY DEF Store!NextFile
  <1>2. PICK p \in run.todo :
          \/ Store!SkipFile(p)
          \/ Store!WholeFile(p)
          \/ files[p] # 0 /\ Store!FileWithSymbols(p, Symbols[files[p]])
    BY DEF Store!NextFile
  <1>3. CASE Store!SkipFile(p)
    BY <1>1, <1>3, SkipKeeps
  <1>4. CASE Store!WholeFile(p)
    BY <1>1, <1>4, WholeFileKeeps
  <1>5. CASE files[p] # 0 /\ Store!FileWithSymbols(p, Symbols[files[p]])
    BY <1>1, <1>5, SymbolsBegin
  <1> QED BY <1>2, <1>3, <1>4, <1>5

LEMMA StepStore == ASSUME StoreAssumed PROVE StoreInv /\ [Store!Next]_storeVars => StoreInv'
  <1> SUFFICES ASSUME StoreInv, [Store!Next]_storeVars PROVE StoreInv'
    OBVIOUS
  <1>1. CASE Store!Next
    BY <1>1, EditKeeps, StartKeeps, InterruptedKeeps, NextFileKeeps, SymbolsGoOn,
       RemoveGoneKeeps, PopKeeps, StoreKeeps, FailKeeps, CancelKeeps, CleanKeeps, ReopenKeeps
    DEF Store!Next
  <1>2. CASE UNCHANGED storeVars
    <2>1. run' = run /\ files' = files /\ items' = items /\ Pending' = Pending /\ whole' = whole
      BY <1>2, PendingSame DEF storeVars
    <2>2. StoreTypes'
      BY <1>2 DEF StoreInv, StoreTypes, RunSound, RowsUnique, storeVars
    <2>3. ASSUME whole PROVE RunsWhole' /\ \A q \in Source : PathSound(q)'
      <3>1. RunsWhole /\ \A q \in Source : PathSound(q)
        BY <2>3 DEF StoreInv
      <3>2. RunsWhole'
        BY <2>1, <3>1, RunsSame
      <3>3. ASSUME NEW q \in Source PROVE PathSound(q)'
        BY <2>1, <3>1, PathSame
      <3> QED BY <3>2, <3>3
    <2> QED BY <2>1, <2>2, <2>3 DEF StoreInv
  <1> QED BY <1>1, <1>2

\* At the end of a run that nothing came between every path is past: with nothing pending, the
\* rows of each are those of the file.
LEMMA EndMatches == ASSUME StoreAssumed PROVE StoreInv => IndexMatches
  <1> SUFFICES ASSUME StoreInv, whole, Store!Idle, run.pc = "files", run.todo = {},
                      run.gone = {}, NEW p \in Source
               PROVE  /\ Store!Matches(Store!Known(p),
                                       IF files[p] = 0 THEN {} ELSE Store!Wanted(p, files[p]))
                      /\ Store!OfOneVersion(p)
    BY DEF IndexMatches, Store!IndexMatches
  <1> DEFINE known == Store!Known(p)
             wanted == Wanted(p, files[p])
             asTask(r) == Store!Task(r.path, r.symbol, r.text, r.body)
  <1>1. Pending = {}
    BY IdleIsEmpty
  <1>2. Agrees(p, files[p], {}, items, {})
    BY <1>1 DEF StoreInv, PathSound, Now
  <1>3. known = {asTask(r) : r \in {x \in items : x.path = p}}
    BY DEF Store!Known
  <1>4. \A r : /\ asTask(r).path = r.path /\ asTask(r).symbol = r.symbol
               /\ asTask(r).text = r.text /\ asTask(r).body = r.body
    BY DEF Store!Task
  <1>5. \A r \in items : r.path = p => asTask(r) \in Tasks
    BY DEF StoreInv, StoreTypes, RowRec
  <1> HIDE DEF asTask
  <1>6. ASSUME NEW t \in known PROVE \E w \in wanted : w.symbol = t.symbol /\ w.text = t.text
    <2>1. PICK r \in items : r.path = p /\ t = asTask(r)
      BY <1>3
    <2>2. TextOf(r, p, files[p])
      BY <1>2, <2>1 DEF Agrees
    <2> QED BY <1>4, <2>1, <2>2 DEF TextOf
  <1>7. ASSUME NEW t \in wanted PROVE \E k \in known : k.symbol = t.symbol
    <2>1. PICK r \in items : r.path = p /\ r.symbol = t.symbol
      BY <1>2 DEF Agrees
    <2>2. asTask(r) \in known
      BY <1>3, <2>1
    <2> QED BY <1>4, <2>1, <2>2
  <1>8. ASSUME NEW t \in known PROVE \E v \in Version : t \in Store!Wanted(p, v)
    <2>1. PICK r \in items : r.path = p /\ t = asTask(r)
      BY <1>3
    <2>2. t \in Tasks /\ t.path = p
      BY <1>4, <1>5, <2>1
    <2>3. PICK q \in Source, v \in Version : t \in Store!Wanted(q, v)
      BY <2>2 DEF Tasks
    <2>4. q = p
      BY <2>2, <2>3, WantedIs
    <2> QED BY <2>3, <2>4
  <1>9. Store!OfOneVersion(p)
    BY <1>8 DEF Store!OfOneVersion, Store!Versions, Version
  <1> QED BY <1>6, <1>7, <1>9 DEF Store!Matches, Wanted

\* RunIndex and the worker, left alone since the tables were last emptied, leave of every file
\* a row for it and for each of its symbols, of the text it has now, and no other row; the body
\* in a row is one that a version with that text had, which may be an older one.  So however
\* many files there are, however often they were edited and indexed before, and whatever
\* failed, was cancelled or was cleaned before the tables were emptied.
THEOREM IndexIsFiles == ASSUME StoreAssumed PROVE Spec => []IndexMatches
  <1>1. Init => Store!Init
    BY DEF Init
  <1> QED BY <1>1, StepsApart, InitStore, StepStore, EndMatches, PTL DEF Spec

-----------------------------------------------------------------------------
(* What is stored of a conversation (Dialogue), whose proof is a module of   *)
(* its own: TalkP says of the same state what Talk says.                     *)

TalkP == INSTANCE Dialogue_proofs

LEMMA SameTalkInit == Talk!Init <=> TalkP!Init
  BY Zenon DEF Talk!Init, Talk!Sub, Talk!Row, Talk!Resting,
               TalkP!Init, TalkP!Sub, TalkP!Row, TalkP!Resting

\* The steps of a turn.
LEMMA SameTalkTurn ==
  /\ Talk!SendRequest <=> TalkP!SendRequest
  /\ Talk!Build <=> TalkP!Build
  /\ Talk!AnswerText <=> TalkP!AnswerText
  /\ Talk!AnswerNothing <=> TalkP!AnswerNothing
  /\ Talk!AnswerCalls <=> TalkP!AnswerCalls
  /\ Talk!Overtaken <=> TalkP!Overtaken
  /\ Talk!Reject <=> TalkP!Reject
  /\ Talk!Approve <=> TalkP!Approve
  /\ Talk!WarnLoop <=> TalkP!WarnLoop
  /\ Talk!ExecUnknown <=> TalkP!ExecUnknown
  /\ Talk!ExecPlain <=> TalkP!ExecPlain
  /\ Talk!Activate <=> TalkP!Activate
  /\ Talk!DeactivateAgain <=> TalkP!DeactivateAgain
  /\ Talk!SaveResults <=> TalkP!SaveResults
  BY Zenon DEF
    Talk!Append1, Talk!Room, Talk!Row, Talk!Resting, Talk!Deleted, Talk!Tools, Talk!Batches,
    Talk!NextIs, Talk!Executed, Talk!Sub, Talk!Cardinality, Talk!SendRequest, Talk!Build,
    Talk!AnswerText, Talk!AnswerNothing, Talk!AnswerCalls, Talk!Overtaken, Talk!Reject,
    Talk!Approve, Talk!WarnLoop, Talk!ExecUnknown, Talk!ExecPlain, Talk!Activate,
    Talk!DeactivateAgain, Talk!SaveResults, TalkP!Append1, TalkP!Room, TalkP!Row, TalkP!Resting,
    TalkP!Deleted, TalkP!Tools, TalkP!Batches, TalkP!NextIs, TalkP!Executed, TalkP!Sub,
    TalkP!Cardinality, TalkP!SendRequest, TalkP!Build, TalkP!AnswerText, TalkP!AnswerNothing,
    TalkP!AnswerCalls, TalkP!Overtaken, TalkP!Reject, TalkP!Approve, TalkP!WarnLoop,
    TalkP!ExecUnknown, TalkP!ExecPlain, TalkP!Activate, TalkP!DeactivateAgain, TalkP!SaveResults

\* The steps that switch the agent, summarise, take a prompt or crash.
LEMMA SameTalkRest ==
  /\ Talk!RequestSummary <=> TalkP!RequestSummary
  /\ Talk!WriteSummary <=> TalkP!WriteSummary
  /\ Talk!Prompt <=> TalkP!Prompt
  /\ Talk!NoAgentToLeave <=> TalkP!NoAgentToLeave
  /\ Talk!StorePrompt <=> TalkP!StorePrompt
  /\ Talk!Crash <=> TalkP!Crash
  /\ \A actor : /\ Talk!ClearAgent(actor) <=> TalkP!ClearAgent(actor)
                /\ Talk!HandBack(actor) <=> TalkP!HandBack(actor)
                /\ Talk!SummariseAgent(actor) <=> TalkP!SummariseAgent(actor)
  BY Zenon DEF
    Talk!Append1, Talk!Room, Talk!Row, Talk!Resting, Talk!NextIs, Talk!Executed, Talk!Set,
    Talk!Of, Talk!Leaves, Talk!Left, Talk!Summarised, Talk!LastMsg, Talk!KeepNumber, Talk!Max,
    Talk!Cardinality, Talk!ClearAgent, Talk!HandBack, Talk!SummariseAgent, Talk!RequestSummary,
    Talk!WriteSummary, Talk!Prompt, Talk!NoAgentToLeave, Talk!StorePrompt, Talk!Crash,
    TalkP!Append1, TalkP!Room, TalkP!Row, TalkP!Resting, TalkP!NextIs, TalkP!Executed, TalkP!Set,
    TalkP!Of, TalkP!Leaves, TalkP!Left, TalkP!Summarised, TalkP!LastMsg, TalkP!KeepNumber,
    TalkP!Max, TalkP!Cardinality, TalkP!ClearAgent, TalkP!HandBack, TalkP!SummariseAgent,
    TalkP!RequestSummary, TalkP!WriteSummary, TalkP!Prompt, TalkP!NoAgentToLeave,
    TalkP!StorePrompt, TalkP!Crash

LEMMA SameTalkNext == [Talk!Next]_talkVars => [TalkP!Next]_(TalkP!dialogueVars)
  <1>1. Talk!Next => TalkP!Next
    BY SameTalkTurn, SameTalkRest, Zenon DEF Talk!Next, TalkP!Next, Talk!Actor, TalkP!Actor
  <1> QED BY <1>1 DEF talkVars, TalkP!dialogueVars

\* What a request is made of.
LEMMA SameRequest ==
  /\ \A h, a : Talk!Replay(h, a) = TalkP!Replay(h, a) /\ Talk!Rows(h, a) = TalkP!Rows(h, a)
  /\ \A s : Talk!AnsweredOnce(s) <=> TalkP!AnsweredOnce(s)
  /\ \A s : Talk!SplitPairs(s) <=> TalkP!SplitPairs(s)
  /\ \A r, s : Talk!BlocksOutsideResults(r, s) <=> TalkP!BlocksOutsideResults(r, s)
  <1>1. \A h, a : Talk!Rows(h, a) = TalkP!Rows(h, a)
    BY Zenon DEF
      Talk!Rows, Talk!Cardinality, TalkP!Rows, TalkP!Cardinality
  <1>2. \A r, i : Talk!Render(r, i) = TalkP!Render(r, i)
    BY Zenon DEF
      Talk!Boundary, Talk!Scanned, Talk!CallIds, Talk!ResultIds, Talk!ToMessage,
      Talk!RenderAgent, Talk!RenderResults, Talk!Render, Talk!ToSet, Talk!Max, TalkP!Boundary,
      TalkP!Scanned, TalkP!CallIds, TalkP!ResultIds, TalkP!ToMessage, TalkP!RenderAgent,
      TalkP!RenderResults, TalkP!Render, TalkP!ToSet, TalkP!Max
  <1>3. \A h, a : Talk!Replay(h, a) = TalkP!Replay(h, a)
    <2> TAKE h, a
    <2> DEFINE own == Talk!Rows(h, a)
    <2>1. Talk!Boundary(own) = TalkP!Boundary(own)
      BY Zenon DEF Talk!Boundary, TalkP!Boundary, Talk!Max, TalkP!Max
    <2>2. Talk!Oldest(own) = TalkP!Oldest(own)
      <3> HIDE DEF own
      <3> DEFINE S == {i \in DOMAIN own : /\ i <= Talk!Boundary(own)
                                           /\ own[i].kind # "tool" /\ Talk!Render(own, i) # {}}
                 T == {i \in DOMAIN own : /\ i <= TalkP!Boundary(own)
                                           /\ own[i].kind # "tool" /\ TalkP!Render(own, i) # {}}
      <3>1. \A i : i \in S <=> i \in T
        <4> TAKE i
        <4>1. Talk!Render(own, i) = TalkP!Render(own, i)
          BY <1>2
        <4> QED BY <2>1, <4>1
      <3>2. S = T
        <4> HIDE DEF S, T
        <4> QED BY <3>1
      <3>3. /\ Talk!Oldest(own) = IF S = {} THEN 0 ELSE Talk!Max(S)
            /\ TalkP!Oldest(own) = IF T = {} THEN 0 ELSE TalkP!Max(T)
        BY Zenon DEF Talk!Oldest, TalkP!Oldest
      <3>4. Talk!Max(T) = TalkP!Max(T)
        BY Zenon DEF Talk!Max, TalkP!Max
      <3> HIDE DEF S, T
      <3> QED BY <3>2, <3>3, <3>4
    <2>3. own = TalkP!Rows(h, a)
      BY <1>1
    <2> HIDE DEF own
    <2> DEFINE read == {k \in DOMAIN own : k >= Talk!Oldest(own)}
    <2>4. UNION {Talk!Render(own, i) : i \in read} = UNION {TalkP!Render(own, i) : i \in read}
      <3> HIDE DEF read
      <3> QED BY <1>2, SMT
    <2> QED BY <2>2, <2>3, <2>4, Zenon DEF Talk!Replay, TalkP!Replay, own
  <1>4. \A s : Talk!AnsweredOnce(s) <=> TalkP!AnsweredOnce(s)
    BY Zenon DEF
      Talk!Before, Talk!ToSet, Talk!Answers, Talk!AnsweredOnce, TalkP!Before, TalkP!ToSet,
      TalkP!Answers, TalkP!AnsweredOnce
  <1>5. \A s : Talk!SplitPairs(s) <=> TalkP!SplitPairs(s)
    BY Zenon DEF
      Talk!ToMessage, Talk!Before, Talk!Adjoins, Talk!ToolRun, Talk!AnswerIn, Talk!Multi,
      Talk!Pair, Talk!Consumed, Talk!SplitMultiToolCalls, Talk!Answers, Talk!ToSet,
      Talk!Adjacent, Talk!Paired, Talk!RealAnswers, Talk!SplitPairs, TalkP!ToMessage,
      TalkP!Before, TalkP!Adjoins, TalkP!ToolRun, TalkP!AnswerIn, TalkP!Multi, TalkP!Pair,
      TalkP!Consumed, TalkP!SplitMultiToolCalls, TalkP!Answers, TalkP!ToSet, TalkP!Adjacent,
      TalkP!Paired, TalkP!RealAnswers, TalkP!SplitPairs
  <1>6. \A r, s : Talk!BlocksOutsideResults(r, s) <=> TalkP!BlocksOutsideResults(r, s)
    BY Zenon DEF
      Talk!Before, Talk!Adjoins, Talk!ToolRun, Talk!Assistant, Talk!EventAnchor, Talk!Parts,
      Talk!BlocksOutsideResults, TalkP!Before, TalkP!Adjoins, TalkP!ToolRun, TalkP!Assistant,
      TalkP!EventAnchor, TalkP!Parts, TalkP!BlocksOutsideResults
  <1> QED BY <1>1, <1>3, <1>4, <1>5, <1>6

LEMMA TalkInvariant == ASSUME TalkP!TalkAssumed PROVE Spec => []TalkP!DialogueInv
  <1>1. Init => TalkP!DialogueInv
    BY SameTalkInit, TalkP!InitDialogue DEF Init
  <1>2. TalkP!DialogueInv /\ [Talk!Next]_talkVars => TalkP!DialogueInv'
    BY SameTalkNext, TalkP!StepDialogue
  <1> QED BY <1>1, <1>2, StepsApart, PTL DEF Spec

\* The loop and a prompt of the server may both be about to leave a sub-agent, and the
\* process may die between any two of their writes: whenever nobody holds the lock, the
\* session in memory and the row in the database name the same agent (agents/activate.go).
THEOREM AgentIsSaved == ASSUME TalkP!TalkAssumed PROVE Spec => []AgentSurvives
  <1>1. TalkP!DialogueInv => AgentSurvives
    BY DEF TalkP!DialogueInv, TalkP!AgentInv, AgentSurvives, Talk!AgentSurvives
  <1> QED BY <1>1, TalkInvariant, PTL

\* Whatever was summed up, cut off by the window, handed over between agents or lost in a
\* crash: in every request each call is answered once, behind it, no answer is without its
\* call, and file contents part no call from its results; split for proxies each pair stands
\* alone, provided that in the request as built nothing stands between calls and their results
\* (Adjacent) (request/build/request.go, splitMultiToolCalls and findEventAnchor).
THEOREM CallsArePaired == ASSUME TalkP!TalkAssumed PROVE Spec => []CallsPaired
  <1>1. TalkP!DialogueInv => CallsPaired
    <2>1. TalkP!DialogueInv => TalkP!CallsPaired
      BY TalkP!TalkPaired DEF TalkP!DialogueInv
    <2>2. TalkP!CallsPaired <=> Talk!CallsPaired
      BY SameRequest, Zenon DEF TalkP!CallsPaired, Talk!CallsPaired
    <2> QED BY <2>1, <2>2 DEF CallsPaired
  <1> QED BY <1>1, TalkInvariant, PTL

-----------------------------------------------------------------------------
(* The requests and replies of a connection (JsonRpc), whose proof is a      *)
(* module of its own: RpcP says of the same state what Rpc says.             *)

RpcP == INSTANCE JsonRpc_proofs WITH pending <- outbound, channel <- answerChan

\* Messages are numbered as they are sent, and the id of a request of the server is none of
\* the other items.
RpcAssumed == /\ Message \subseteq Nat /\ None \notin Out
              /\ Out \cap {"call", "note", "exit"} = {}

LEMMA RpcAssumptions == ASSUME RpcAssumed PROVE RpcP!RpcAssumed
  <1>1. ASSUME NEW o \in Out,
               NEW body \in {<<"call", o>>, <<"note", "call">>, <<o>>, <<"call", "exit">>}
        PROVE  body \in Seq(RpcP!Item)
    <2>1. o \in RpcP!Item /\ "call" \in RpcP!Item /\ "note" \in RpcP!Item /\ "exit" \in RpcP!Item
      BY DEF RpcP!Item
    <2>2. /\ <<"call", o>> \in Seq(RpcP!Item) /\ <<"note", "call">> \in Seq(RpcP!Item)
          /\ <<o>> \in Seq(RpcP!Item) /\ <<"call", "exit">> \in Seq(RpcP!Item)
      BY <2>1
    <2> QED BY <1>1, <2>2
  <1> QED BY <1>1 DEF RpcAssumed, RpcP!RpcAssumed, Bodies

LEMMA SameRpcInit == Rpc!Init <=> RpcP!Init
  BY Zenon DEF Rpc!Init, RpcP!Init

LEMMA SameRpcClients ==
  ASSUME NEW c \in Conn
  PROVE  /\ \A m \in Message : Rpc!ClientSends(c, m) <=> RpcP!ClientSends(c, m)
         /\ Rpc!ClientLeaves(c) <=> RpcP!ClientLeaves(c)
         /\ Rpc!ReadMessage(c) <=> RpcP!ReadMessage(c)
         /\ Rpc!Dispatch(c) <=> RpcP!Dispatch(c)
         /\ Rpc!ReadFails(c) <=> RpcP!ReadFails(c)
  BY Zenon DEF
    Rpc!ClientSends, Rpc!ClientLeaves, Rpc!ReadMessage, Rpc!Dispatch, Rpc!ReadFails,
    Rpc!Running, Rpc!askVars, Rpc!ToSet, Rpc!Cardinality,
    RpcP!ClientSends, RpcP!ClientLeaves, RpcP!ReadMessage, RpcP!Dispatch, RpcP!ReadFails,
    RpcP!Running, RpcP!askVars, RpcP!ToSet, RpcP!Cardinality

LEMMA SameRpcHandle ==
  ASSUME NEW m \in Message
  PROVE  Rpc!Handle(m) <=> RpcP!Handle(m)
  <1>1. /\ Rpc!SolveCall(m) <=> RpcP!SolveCall(m)
        /\ Rpc!SolveNote(m) <=> RpcP!SolveNote(m)
        /\ Rpc!SolveExit(m) <=> RpcP!SolveExit(m)
        /\ Rpc!SolveAnswer(m) <=> RpcP!SolveAnswer(m)
        /\ Rpc!Callback(m) <=> RpcP!Callback(m)
        /\ Rpc!HandleReturns(m) <=> RpcP!HandleReturns(m)
        /\ Rpc!Write(m) <=> RpcP!Write(m)
        /\ Rpc!Exit(m) <=> RpcP!Exit(m)
    BY Zenon DEF
      Rpc!SolveCall, Rpc!SolveNote, Rpc!SolveExit, Rpc!SolveAnswer, Rpc!Callback,
      Rpc!HandleReturns, Rpc!Write, Rpc!Exit, Rpc!Reply, Rpc!askVars, Rpc!connVars,
      RpcP!SolveCall, RpcP!SolveNote, RpcP!SolveExit, RpcP!SolveAnswer, RpcP!Callback,
      RpcP!HandleReturns, RpcP!Write, RpcP!Exit, RpcP!Reply, RpcP!askVars, RpcP!connVars
  <1> QED BY <1>1 DEF Rpc!Handle, RpcP!Handle

LEMMA SameRpcAskers ==
  /\ \A o \in Out : /\ Rpc!Register(o) <=> RpcP!Register(o)
                    /\ Rpc!Ask(o) <=> RpcP!Ask(o)
                    /\ Rpc!Leave(o) <=> RpcP!Leave(o)
                    /\ Rpc!RemovePending(o) <=> RpcP!RemovePending(o)
  /\ Rpc!SignalPermission <=> RpcP!SignalPermission
  /\ Rpc!Release <=> RpcP!Release
  BY Zenon DEF
    Rpc!Register, Rpc!Ask, Rpc!Leave, Rpc!RemovePending, Rpc!SignalPermission, Rpc!Release,
    Rpc!askVars, Rpc!connVars,
    RpcP!Register, RpcP!Ask, RpcP!Leave, RpcP!RemovePending, RpcP!SignalPermission,
    RpcP!Release, RpcP!askVars, RpcP!connVars

LEMMA SameRpcNext == [Rpc!Next]_rpcVars => [RpcP!Next]_(RpcP!rpcVars)
  <1>1. Rpc!Next => RpcP!Next
    BY SameRpcClients, SameRpcHandle, SameRpcAskers DEF Rpc!Next, RpcP!Next
  <1> QED BY <1>1 DEF rpcVars, RpcP!rpcVars

\* However many clients answer, in whatever order with a cancel, a release and the end of the
\* request, a request of the server is answered at most once, leaves nothing in pending, and
\* no goroutine of a late answer is stuck on its channel while the session lives
\* (requestPermission, session.go; handle, server.go).
THEOREM AnsweredByOne == ASSUME RpcAssumed PROVE Spec => []AskedOnce
  <1>1. RpcP!RpcTypes /\ RpcP!AskInv => AskedOnce
    <2>1. RpcP!AskedOnce => AskedOnce
      BY Zenon DEF AskedOnce, Rpc!AskedOnce, Rpc!FirstAnswerWins, Rpc!PendingHasAsker,
                   Rpc!AnswerGetsThrough, RpcP!AskedOnce, RpcP!FirstAnswerWins,
                   RpcP!PendingHasAsker, RpcP!AnswerGetsThrough
    <2> QED BY <2>1, RpcP!AskInvMeans
  <1>2. Init => RpcP!RpcTypes /\ RpcP!AskInv
    BY RpcAssumptions, SameRpcInit, RpcP!InitRpc DEF Init
  <1>3. RpcP!RpcTypes /\ RpcP!AskInv /\ [Rpc!Next]_rpcVars => RpcP!RpcTypes' /\ RpcP!AskInv'
    BY RpcAssumptions, SameRpcNext, RpcP!StepRpc
  <1> QED BY <1>1, <1>2, <1>3, StepsApart, PTL DEF Spec

\* As long as its connection is open, a batch without exit that the server is done with has
\* brought one reply for every call in it, and none for anything else, whatever else the
\* connection does meanwhile (handle and the read loop, jsonrpc/server.go, connect).
THEOREM CallsReplied == ASSUME RpcAssumed PROVE Spec => []RepliesComplete
  <1> DEFINE Inv == RpcP!RpcTypes /\ RpcP!AskInv /\ RpcP!ReplyInv
  <1>1. Inv => RepliesComplete
    <2>1. RpcP!RepliesComplete => RepliesComplete
      BY Zenon DEF RepliesComplete, Rpc!RepliesComplete, Rpc!Received, Rpc!ToSet, Rpc!Cardinality,
                   RpcP!RepliesComplete, RpcP!Received, RpcP!ToSet, RpcP!Cardinality
    <2> QED BY <2>1, RpcP!RepliesCounted
  <1>2. Init => Inv
    BY RpcAssumptions, SameRpcInit, RpcP!InitRpc, RpcP!InitReplies DEF Init
  <1>3. Inv /\ [Rpc!Next]_rpcVars => Inv'
    BY RpcAssumptions, SameRpcNext, RpcP!StepRpc, RpcP!StepReplies
  <1> HIDE DEF Inv
  <1> QED BY <1>1, <1>2, <1>3, StepsApart, PTL DEF Spec

-----------------------------------------------------------------------------
(* The clients of language servers (LspManager), whose proof is a module of  *)
(* its own: LspP says of the same state what Lsp says.                       *)

LspP == INSTANCE LspManager_proofs

LEMMA SameLspInit == Lsp!Init <=> LspP!Init
  BY Zenon DEF Lsp!Init, LspP!Init, Lsp!Away, LspP!Away

LEMMA SameLspCallers ==
  ASSUME NEW g \in Caller
  PROVE  /\ Lsp!CheckDisabled(g) <=> LspP!CheckDisabled(g)
         /\ Lsp!Lookup(g) <=> LspP!Lookup(g)
         /\ Lsp!StartProcess(g) <=> LspP!StartProcess(g)
         /\ Lsp!Handshake(g) <=> LspP!Handshake(g)
         /\ Lsp!CountFailure(g) <=> LspP!CountFailure(g)
         /\ Lsp!ResetCount(g) <=> LspP!ResetCount(g)
         /\ Lsp!Store(g) <=> LspP!Store(g)
         /\ Lsp!Close(g) <=> LspP!Close(g)
         /\ Lsp!SendRequest(g) <=> LspP!SendRequest(g)
         /\ Lsp!RequestEnds(g) <=> LspP!RequestEnds(g)
  BY Zenon DEF
    Lsp!Unborn, Lsp!Ready, Lsp!CleanupProcess, Lsp!Goto, Lsp!Away,
    LspP!Unborn, LspP!Ready, LspP!CleanupProcess, LspP!Goto, LspP!Away,
    Lsp!CheckDisabled, Lsp!Lookup, Lsp!StartProcess, Lsp!Handshake, Lsp!CountFailure,
    Lsp!ResetCount, Lsp!Store, Lsp!Close, Lsp!SendRequest, Lsp!RequestEnds,
    LspP!CheckDisabled, LspP!Lookup, LspP!StartProcess, LspP!Handshake, LspP!CountFailure,
    LspP!ResetCount, LspP!Store, LspP!Close, LspP!SendRequest, LspP!RequestEnds

LEMMA SameLspRest ==
  /\ \A c \in Client : /\ Lsp!Age(c) <=> LspP!Age(c)
                       /\ Lsp!ShutdownBegins(c) <=> LspP!ShutdownBegins(c)
                       /\ Lsp!ShutdownEnds(c) <=> LspP!ShutdownEnds(c)
  /\ Lsp!Snapshot <=> LspP!Snapshot
  /\ Lsp!Examine <=> LspP!Examine
  /\ Lsp!DeleteIdle <=> LspP!DeleteIdle
  /\ Lsp!ReaperStops <=> LspP!ReaperStops
  /\ Lsp!StopReaper <=> LspP!StopReaper
  /\ Lsp!ShutdownAll <=> LspP!ShutdownAll
  /\ Lsp!ResetLSPFailures <=> LspP!ResetLSPFailures
  BY Zenon DEF
    Lsp!Ready, Lsp!CleanupProcess, LspP!Ready, LspP!CleanupProcess,
    Lsp!Age, Lsp!ShutdownBegins, Lsp!ShutdownEnds, Lsp!Snapshot, Lsp!Examine, Lsp!DeleteIdle,
    Lsp!ReaperStops, Lsp!StopReaper, Lsp!ShutdownAll, Lsp!ResetLSPFailures,
    LspP!Age, LspP!ShutdownBegins, LspP!ShutdownEnds, LspP!Snapshot, LspP!Examine,
    LspP!DeleteIdle, LspP!ReaperStops, LspP!StopReaper, LspP!ShutdownAll, LspP!ResetLSPFailures

LEMMA SameLspNext == [Lsp!Next]_lspVars => [LspP!Next]_(LspP!lspVars)
  <1>1. Lsp!Next => LspP!Next
    BY SameLspCallers, SameLspRest DEF Lsp!Next, LspP!Next
  <1> QED BY <1>1 DEF lspVars, LspP!lspVars

\* However many callers ask for however many servers, and however the reaper, the shutdown of
\* the program and failing handshakes come between them: a process that runs belongs to the
\* map, to the caller that starts it or to whoever shuts it down, and the map offers ready
\* clients alone (manager.go, getClient, reapIdle, Shutdown).
THEOREM ServersAccounted == ASSUME LspP!Assumed PROVE Spec => []ClientsAccounted
  <1>1. LspP!AccountInv => ClientsAccounted
    BY DEF LspP!AccountInv, LspP!MapInv, LspP!ClientInv, LspP!Stored, LspP!Creating,
           ClientsAccounted, Lsp!ClientsAccounted, Lsp!NoProcessLeak, Lsp!MapHoldsReady,
           Lsp!Stored, Lsp!Creating
  <1>2. Init => LspP!AccountInv
    BY SameLspInit, LspP!InitAccounted DEF Init
  <1>3. LspP!AccountInv /\ [Lsp!Next]_lspVars => LspP!AccountInv'
    BY SameLspNext, LspP!NextAccounted
  <1> QED BY <1>1, <1>2, <1>3, StepsApart, PTL DEF Spec

-----------------------------------------------------------------------------
(* The screen of a terminal (Screen): what every byte and every call does to *)
(* a buffer that is sound.                                                   *)

ScreenAssumed == MaxInt \in Nat /\ Extent \subseteq Int

\* What a buffer consists of.
BufferFields == {"rows", "cols", "cells", "x", "y", "look", "top", "bottom", "saved", "mode",
                 "params", "pending", "panic"}

\* The cells are a grid of the buffer's size.
Grid(cells, height, width) ==
  DOMAIN cells = 0..height - 1 /\ \A y \in 0..height - 1 : DOMAIN cells[y] = 0..width - 1

BufferTypes(b) ==
  /\ DOMAIN b = BufferFields
  /\ b.rows \in Nat /\ b.cols \in Nat /\ Grid(b.cells, b.rows, b.cols)
  /\ b.mode \in {"normal", "escape", "csi", "osc"}
  /\ b.params \in Seq(Int)

\* All that is kept is on the screen, but perhaps not the cursor's row.
Steady(b) ==
  /\ BufferTypes(b)
  /\ b.x \in 0..b.cols - 1
  /\ b.saved.x \in 0..b.cols - 1 /\ b.saved.y \in 0..b.rows - 1
  /\ b.top \in Nat /\ b.bottom \in Nat /\ b.top <= b.bottom /\ b.bottom < b.rows
  /\ b.panic = FALSE

\* The cursor, too, is on the screen.
BufferSound(b) == Steady(b) /\ b.y \in 0..b.rows - 1

\* The cursor goes to another place of the screen.
LEMMA CursorMoved ==
  ASSUME NEW b, Steady(b), NEW x \in 0..b.cols - 1, NEW y \in 0..b.rows - 1
  PROVE  /\ BufferSound([b EXCEPT !.x = x, !.y = y])
         /\ BufferSound([b EXCEPT !.y = y])
         /\ Steady([b EXCEPT !.x = x])
  BY DEF BufferSound, BufferTypes, Steady, BufferFields, Grid

\* The rows of the region move.
LEMMA Scrolled ==
  ASSUME NEW b, Steady(b)
  PROVE  /\ Steady(Screen!ScrollUp(b)) /\ Screen!ScrollUp(b).rows = b.rows
         /\ Screen!ScrollUp(b).bottom = b.bottom
         /\ Steady(Screen!ScrollDown(b)) /\ Screen!ScrollDown(b).rows = b.rows
         /\ Screen!ScrollDown(b).top = b.top
  <1> DEFINE up   == [y \in DOMAIN b.cells |-> CASE y \in b.top..b.bottom - 1 -> b.cells[y + 1]
                                                 [] y = b.bottom -> Screen!BlankRow(b.cols)
                                                 [] OTHER -> b.cells[y]]
             down == [y \in DOMAIN b.cells |-> CASE y = b.top -> Screen!BlankRow(b.cols)
                                                 [] y \in b.top + 1..b.bottom -> b.cells[y - 1]
                                                 [] OTHER -> b.cells[y]]
  <1>1. b.top \in DOMAIN b.cells /\ b.bottom \in DOMAIN b.cells
    BY DEF Steady, BufferTypes, Grid
  <1>2. /\ Screen!ScrollUp(b) = [b EXCEPT !.cells = up]
        /\ Screen!ScrollDown(b) = [b EXCEPT !.cells = down]
    BY <1>1, Zenon DEF Screen!ScrollUp, Screen!ScrollDown
  <1>3. DOMAIN Screen!BlankRow(b.cols) = 0..b.cols - 1
    BY DEF Screen!BlankRow
  <1>4. /\ DOMAIN b.cells = 0..b.rows - 1
        /\ \A y \in 0..b.rows - 1 : DOMAIN b.cells[y] = 0..b.cols - 1
        /\ b.rows \in Nat /\ b.top \in Nat /\ b.bottom \in Nat /\ b.bottom < b.rows
    BY DEF Steady, BufferTypes, Grid
  <1>5. Grid(up, b.rows, b.cols)
    <2>1. DOMAIN up = 0..b.rows - 1
      BY <1>4
    <2>2. ASSUME NEW y \in 0..b.rows - 1 PROVE DOMAIN up[y] = 0..b.cols - 1
      <3>1. CASE y \in b.top..b.bottom - 1
        <4>1. up[y] = b.cells[y + 1]
          BY <1>4, <3>1
        <4>2. y + 1 \in 0..b.rows - 1
          BY <1>4, <3>1
        <4> QED BY <1>4, <4>1, <4>2, Zenon
      <3>2. CASE y \notin b.top..b.bottom - 1
        BY <1>3, <1>4, <3>2
      <3> QED BY <3>1, <3>2
    <2> QED BY <2>1, <2>2 DEF Grid
  <1>6. Grid(down, b.rows, b.cols)
    <2>1. DOMAIN down = 0..b.rows - 1
      BY <1>4
    <2>2. ASSUME NEW y \in 0..b.rows - 1 PROVE DOMAIN down[y] = 0..b.cols - 1
      <3>1. CASE y \in b.top + 1..b.bottom
        <4>1. down[y] = b.cells[y - 1]
          BY <1>4, <3>1
        <4>2. y - 1 \in 0..b.rows - 1
          BY <1>4, <3>1
        <4> QED BY <1>4, <4>1, <4>2, Zenon
      <3>2. CASE y \notin b.top + 1..b.bottom
        BY <1>3, <1>4, <3>2
      <3> QED BY <3>1, <3>2
    <2> QED BY <2>1, <2>2 DEF Grid
  <1> HIDE DEF up, down
  <1> QED BY <1>2, <1>5, <1>6 DEF Steady, BufferTypes, BufferFields

\* Erasing, clearing and keeping a place leave the buffer as sound as it was.
LEMMA Erased ==
  ASSUME NEW b, BufferSound(b), NEW places, places \subseteq (0..b.cols - 1) \X (0..b.rows - 1)
  PROVE  BufferSound(Screen!Erase(b, places))
  BY DEF BufferSound, BufferTypes, Steady, BufferFields, Grid, Screen!Erase

LEMMA Cleared ==
  ASSUME NEW b, BufferSound(b)
  PROVE  BufferSound(Screen!Clear(b))
  BY DEF BufferSound, BufferTypes, Steady, BufferFields, Grid, Screen!Clear, Screen!BlankRow

LEMMA Saved ==
  ASSUME NEW b, BufferSound(b)
  PROVE  BufferSound(Screen!SaveCursor(b)) /\ BufferSound(Screen!RestoreCursor(b))
  BY DEF BufferSound, BufferTypes, Steady, BufferFields, Grid, Screen!SaveCursor,
         Screen!RestoreCursor

\* A resize that cuts nothing off brings the cursor back to the screen.
LEMMA Resized ==
  ASSUME NEW b, BufferSound(b), NEW height \in Int, NEW width \in Int,
         ~Screen!CutsOff(b, height, width)
  PROVE  BufferSound(Screen!Resize(b, height, width))
  <1>1. CASE height <= 0 \/ width <= 0
    BY <1>1 DEF Screen!Resize
  <1>2. CASE ~(height <= 0 \/ width <= 0)
    <2> DEFINE cells == [y \in 0..height - 1 |-> [x \in 0..width - 1 |->
                           IF y < b.rows /\ x < b.cols THEN b.cells[y][x] ELSE Screen!Blank]]
               next  == [b EXCEPT !.cells = cells, !.rows = height, !.cols = width,
                                  !.bottom = height - 1,
                                  !.x = Screen!Least(@, width - 1),
                                  !.y = Screen!Least(@, height - 1)]
    <2>1. Screen!Resize(b, height, width) = next
      BY <1>2, Zenon DEF Screen!Resize
    <2>2. Grid(cells, height, width)
      BY <1>2 DEF Grid
    <2>3. b.top < height /\ b.saved.x < width /\ b.saved.y < height
      BY <1>2 DEF Screen!CutsOff, BufferSound, Steady, BufferTypes
    <2> HIDE DEF cells
    <2>4. /\ b.x \in 0..b.cols - 1 /\ b.y \in 0..b.rows - 1
          /\ b.saved.x \in 0..b.cols - 1 /\ b.saved.y \in 0..b.rows - 1
          /\ b.top \in Nat /\ DOMAIN b = BufferFields /\ b.panic = FALSE
      BY DEF BufferSound, Steady, BufferTypes
    <2>5. /\ Screen!Least(b.x, width - 1) \in 0..width - 1
          /\ Screen!Least(b.y, height - 1) \in 0..height - 1
      BY <1>2, <2>4 DEF Screen!Least
    <2> DEFINE x == Screen!Least(b.x, width - 1)
               y == Screen!Least(b.y, height - 1)
    <2> HIDE DEF x, y
    <2>6. /\ DOMAIN next = BufferFields /\ next.panic = FALSE
          /\ next.rows = height /\ next.cols = width /\ next.cells = cells
          /\ next.x = x /\ next.y = y /\ next.bottom = height - 1
          /\ next.top = b.top /\ next.saved = b.saved
          /\ next.mode = b.mode /\ next.params = b.params
      BY <2>4, Zenon DEF BufferFields, x, y
    <2> HIDE DEF next
    <2>7. BufferTypes(next)
      BY <1>2, <2>2, <2>6 DEF BufferSound, Steady, BufferTypes
    <2>8. /\ x \in 0..width - 1 /\ y \in 0..height - 1
          /\ b.saved.x \in 0..width - 1 /\ b.saved.y \in 0..height - 1
          /\ height - 1 \in Nat /\ b.top <= height - 1
      BY <1>2, <2>3, <2>4, <2>5 DEF x, y
    <2>9. BufferSound(next)
      BY <2>4, <2>6, <2>7, <2>8 DEF BufferSound, Steady
    <2> QED BY <2>1, <2>9
  <1> QED BY <1>1, <1>2

\* SetCursor takes a place of the screen and no other.
LEMMA CursorSet ==
  ASSUME NEW b, BufferSound(b), NEW x, NEW y
  PROVE  BufferSound(Screen!SetCursor(b, x, y))
  BY DEF BufferSound, Steady, BufferTypes, BufferFields, Grid, Screen!SetCursor

\* A cursor one row below the region makes it scroll.
LEMMA BelowScrolls ==
  ASSUME NEW b, Steady(b), b.y \in 0..b.rows
  PROVE  BufferSound(Screen!Below(b))
  <1>1. CASE b.y > b.bottom
    <2> DEFINE c == Screen!ScrollUp(b)
    <2>1. Steady(c) /\ c.rows = b.rows
      BY Scrolled
    <2> HIDE DEF c
    <2>2. b.bottom \in 0..c.rows - 1 /\ c.x \in 0..c.cols - 1
      BY <2>1 DEF Steady, BufferTypes
    <2>3. BufferSound([c EXCEPT !.y = b.bottom])
      BY <2>1, <2>2, CursorMoved
    <2> QED BY <1>1, <2>3 DEF Screen!Below, c
  <1>2. CASE ~(b.y > b.bottom)
    BY <1>2 DEF Screen!Below, BufferSound, Steady, BufferTypes
  <1> QED BY <1>1, <1>2

\* The control characters move the cursor on the screen.
LEMMA FeedsMove ==
  ASSUME NEW b, BufferSound(b)
  PROVE  /\ BufferSound(Screen!LineFeed(b)) /\ BufferSound(Screen!CarriageReturn(b))
         /\ BufferSound(Screen!Backspace(b)) /\ BufferSound(Screen!Tab(b))
         /\ BufferSound(Screen!ReverseFeed(b))
  <1>1. BufferSound(Screen!LineFeed(b))
    <2> DEFINE c == [b EXCEPT !.y = @ + 1]
    <2>1. Steady(c) /\ c.y \in 0..c.rows
      BY DEF BufferSound, Steady, BufferTypes, BufferFields, Grid
    <2> HIDE DEF c
    <2>2. BufferSound(Screen!Below(c))
      BY <2>1, BelowScrolls
    <2> QED BY <2>2 DEF c, Screen!LineFeed
  <1>2. BufferSound(Screen!CarriageReturn(b)) /\ BufferSound(Screen!Backspace(b))
    BY DEF BufferSound, Steady, BufferTypes, BufferFields, Grid, Screen!CarriageReturn,
           Screen!Backspace, Screen!Most
  <1>3. BufferSound(Screen!Tab(b))
    BY DEF BufferSound, Steady, BufferTypes, BufferFields, Grid, Screen!Tab, Screen!Least
  <1>4. BufferSound(Screen!ReverseFeed(b))
    <2> DEFINE c == Screen!ScrollDown(b)
    <2>1. Steady(c) /\ c.rows = b.rows
      BY Scrolled DEF BufferSound
    <2> HIDE DEF c
    <2>2. b.top \in 0..c.rows - 1 /\ c.x \in 0..c.cols - 1
      BY <2>1 DEF BufferSound, Steady, BufferTypes
    <2>3. BufferSound([c EXCEPT !.y = b.top])
      BY <2>1, <2>2, CursorMoved
    <2>4. ~(b.y - 1 < b.top) => BufferSound([b EXCEPT !.y = @ - 1])
      BY DEF BufferSound, Steady, BufferTypes, BufferFields, Grid
    <2> QED BY <2>3, <2>4 DEF Screen!ReverseFeed, c
  <1> QED BY <1>1, <1>2, <1>3, <1>4

\* A character is written where the cursor is, which moves on.
LEMMA RuneWritten ==
  ASSUME NEW b, BufferSound(b), NEW c
  PROVE  BufferSound(Screen!WriteRune(b, c))
  <1> DEFINE put  == [b EXCEPT !.cells[b.y][b.x] = [char |-> c, look |-> b.look], !.x = @ + 1]
             over == [put EXCEPT !.x = 0, !.y = @ + 1]
  <1>1. Screen!WriteRune(b, c) = IF put.x >= b.cols THEN Screen!Below(over) ELSE put
    BY Zenon DEF Screen!WriteRune, Screen!OnScreen, BufferSound, Steady
  <1>2. put.x < b.cols => BufferSound(put)
    BY DEF BufferSound, Steady, BufferTypes, BufferFields, Grid
  <1>3. Steady(over) /\ over.y \in 0..over.rows
    BY DEF BufferSound, Steady, BufferTypes, BufferFields, Grid
  <1>4. put.x = b.x + 1
    BY DEF BufferSound, Steady, BufferTypes, BufferFields
  <1> HIDE DEF put, over
  <1>5. BufferSound(Screen!Below(over))
    BY <1>3, BelowScrolls
  <1>6. put.x >= b.cols \/ put.x < b.cols
    BY <1>4 DEF BufferSound, Steady, BufferTypes
  <1> QED BY <1>1, <1>2, <1>5, <1>6

\* A number that fits is kept as it is.
LEMMA WrappedIsInt == ASSUME MaxInt \in Nat, NEW n \in Int
  PROVE  /\ Screen!Wrapped(n) \in Int
         /\ n \in -MaxInt - 1..MaxInt => Screen!Wrapped(n) = n
  <1>1. 2 * (MaxInt + 1) \in Nat \ {0} /\ n + MaxInt + 1 \in Int
    OBVIOUS
  <1> DEFINE m == 2 * (MaxInt + 1)
             k == n + MaxInt + 1
  <1> HIDE DEF m, k
  <1>2. k % m \in Int
    BY <1>1 DEF m, k
  <1>3. (k % m) - (MaxInt + 1) \in Int
    BY <1>2
  <1> QED BY <1>3 DEF m, k, Screen!Wrapped

\* A parameter is a number, and not zero or less if its default is not.
LEMMA ParamIsCount ==
  ASSUME NEW b, b.params \in Seq(Int), NEW i \in Nat \ {0}, NEW d \in Int
  PROVE  /\ Screen!Param(b, i, d) \in Int
         /\ d > 0 => Screen!Param(b, i, d) > 0
  BY DEF Screen!Param

\* Erasing lines and displays stays on the screen.
LEMMA ErasuresFit ==
  ASSUME NEW b, BufferSound(b), NEW mode
  PROVE  BufferSound(Screen!EraseLine(b, mode)) /\ BufferSound(Screen!EraseDisplay(b, mode))
  <1> DEFINE screen == (0..b.cols - 1) \X (0..b.rows - 1)
  <1>1. /\ Screen!LineFrom(b) \subseteq screen /\ Screen!LineTo(b) \subseteq screen
        /\ (0..b.cols - 1) \X {b.y} \subseteq screen
        /\ (0..b.cols - 1) \X (b.y + 1..b.rows - 1) \subseteq screen
        /\ (0..b.cols - 1) \X (0..b.y - 1) \subseteq screen
    <2>1. /\ b.x..b.cols - 1 \subseteq 0..b.cols - 1 /\ 0..b.x \subseteq 0..b.cols - 1
          /\ {b.y} \subseteq 0..b.rows - 1 /\ b.y + 1..b.rows - 1 \subseteq 0..b.rows - 1
          /\ 0..b.y - 1 \subseteq 0..b.rows - 1
      BY DEF BufferSound, Steady, BufferTypes
    <2>2. \A A, B, C, D : A \subseteq C /\ B \subseteq D => A \X B \subseteq C \X D
      OBVIOUS
    <2> QED BY <2>1, <2>2, Zenon DEF Screen!LineFrom, Screen!LineTo
  <1>2. /\ Screen!LineFrom(b) \cup ((0..b.cols - 1) \X (b.y + 1..b.rows - 1)) \subseteq screen
        /\ Screen!LineTo(b) \cup ((0..b.cols - 1) \X (0..b.y - 1)) \subseteq screen
    BY <1>1, Zenon
  <1>3. BufferSound(Screen!EraseLine(b, mode))
    BY <1>1, Erased, Zenon DEF Screen!EraseLine
  <1>4. BufferSound(Screen!EraseDisplay(b, mode))
    BY <1>2, Erased, Cleared, Zenon DEF Screen!EraseDisplay
  <1> QED BY <1>3, <1>4

\* A region that is taken is on the screen.
LEMMA RegionSet ==
  ASSUME NEW b, BufferSound(b), NEW top \in Int, NEW bottom \in Int
  PROVE  BufferSound(Screen!SetScrollRegion(b, top, bottom))
  BY DEF BufferSound, Steady, BufferTypes, BufferFields, Grid, Screen!SetScrollRegion

\* A command moves the cursor by what it is told, as long as that is an integer.
LEMMA Commanded ==
  ASSUME MaxInt \in Nat, NEW b0, BufferSound(b0), NEW cmd, b0.mode = "csi",
         ~Screen!Overruns(b0, cmd)
  PROVE  BufferSound(Screen!ExecuteCSI(b0, cmd))
  <1> DEFINE b == [b0 EXCEPT !.params = IF @ = <<>> THEN <<0>> ELSE @, !.mode = "normal"]
             n == Screen!Param(b, 1, 1)
             m == Screen!Param(b, 2, 1)
             l == Screen!Param(b, 2, b.rows)
  <1>1. BufferSound(b)
    BY DEF BufferSound, Steady, BufferTypes, BufferFields, Grid
  <1>2. /\ b.params \in Seq(Int) /\ b.rows \in Nat /\ b.cols \in Nat
        /\ b.y \in 0..b.rows - 1 /\ b.x \in 0..b.cols - 1
    BY <1>1 DEF BufferSound, Steady, BufferTypes
  <1>3. n \in Int /\ n > 0 /\ m \in Int /\ m > 0 /\ l \in Int
    <2> HIDE DEF b
    <2>1. 1 \in Nat \ {0} /\ 2 \in Nat \ {0} /\ 1 \in Int /\ 1 > 0 /\ b.rows \in Int
      BY <1>2
    <2> QED BY <1>2, <2>1, ParamIsCount, Zenon
  <1>4. n = Screen!Param(b0, 1, 1) /\ b.x = b0.x /\ b.y = b0.y
    BY DEF BufferSound, Steady, BufferTypes, BufferFields, Screen!Param
  <1>5. /\ cmd = "B" => Screen!Wrapped(b.y + n) = b.y + n
        /\ cmd = "C" => Screen!Wrapped(b.x + n) = b.x + n
    <2>1. /\ cmd = "B" => ~(b0.y + Screen!Param(b0, 1, 1) > MaxInt)
          /\ cmd = "C" => ~(b0.x + Screen!Param(b0, 1, 1) > MaxInt)
      BY Zenon DEF Screen!Overruns
    <2> HIDE DEF b, n, m, l
    <2>2. /\ cmd = "B" => ~(b.y + n > MaxInt)
          /\ cmd = "C" => ~(b.x + n > MaxInt)
      BY <1>4, <2>1, Zenon
    <2>3. /\ ~(b.y + n > MaxInt) => b.y + n \in -MaxInt - 1..MaxInt
          /\ ~(b.x + n > MaxInt) => b.x + n \in -MaxInt - 1..MaxInt
          /\ b.y + n \in Int /\ b.x + n \in Int
      BY <1>2, <1>3
    <2> QED BY <2>2, <2>3, WrappedIsInt, Zenon
  <1> HIDE DEF b, n, m, l
  <1>6. CASE cmd = "A"
    <2>1. Screen!ExecuteCSI(b0, cmd) = [b EXCEPT !.y = Screen!Most(@ - n, 0)]
      BY <1>6 DEF Screen!ExecuteCSI, b, n
    <2>2. Screen!Most(b.y - n, 0) \in 0..b.rows - 1
      BY <1>2, <1>3 DEF Screen!Most
    <2> DEFINE to == Screen!Most(b.y - n, 0)
    <2> HIDE DEF to
    <2>3. BufferSound([b EXCEPT !.y = to])
      BY <1>1, <1>2, <2>2, CursorMoved DEF BufferSound, to
    <2> QED BY <2>1, <2>3 DEF to
  <1>7. CASE cmd = "B"
    <2>1. Screen!ExecuteCSI(b0, cmd) =
            [b EXCEPT !.y = Screen!Least(Screen!Wrapped(@ + n), b.rows - 1)]
      BY <1>7 DEF Screen!ExecuteCSI, b, n
    <2>2. Screen!Least(Screen!Wrapped(b.y + n), b.rows - 1) \in 0..b.rows - 1
      BY <1>2, <1>3, <1>5, <1>7 DEF Screen!Least
    <2> DEFINE to == Screen!Least(Screen!Wrapped(b.y + n), b.rows - 1)
    <2> HIDE DEF to
    <2>3. BufferSound([b EXCEPT !.y = to])
      BY <1>1, <1>2, <2>2, CursorMoved DEF BufferSound, to
    <2> QED BY <2>1, <2>3 DEF to
  <1>8. CASE cmd = "C"
    <2>1. Screen!ExecuteCSI(b0, cmd) =
            [b EXCEPT !.x = Screen!Least(Screen!Wrapped(@ + n), b.cols - 1)]
      BY <1>8 DEF Screen!ExecuteCSI, b, n
    <2>2. Screen!Least(Screen!Wrapped(b.x + n), b.cols - 1) \in 0..b.cols - 1
      BY <1>2, <1>3, <1>5, <1>8 DEF Screen!Least
    <2> DEFINE to == Screen!Least(Screen!Wrapped(b.x + n), b.cols - 1)
    <2> HIDE DEF to
    <2>3. BufferSound([b EXCEPT !.x = to])
      BY <1>1, <1>2, <2>2, CursorMoved DEF BufferSound, Steady, BufferTypes, BufferFields, Grid, to
    <2> QED BY <2>1, <2>3 DEF to
  <1>9. CASE cmd = "D"
    <2>1. Screen!ExecuteCSI(b0, cmd) = [b EXCEPT !.x = Screen!Most(@ - n, 0)]
      BY <1>9 DEF Screen!ExecuteCSI, b, n
    <2>2. Screen!Most(b.x - n, 0) \in 0..b.cols - 1
      BY <1>2, <1>3 DEF Screen!Most
    <2> DEFINE to == Screen!Most(b.x - n, 0)
    <2> HIDE DEF to
    <2>3. BufferSound([b EXCEPT !.x = to])
      BY <1>1, <1>2, <2>2, CursorMoved DEF BufferSound, Steady, BufferTypes, BufferFields, Grid, to
    <2> QED BY <2>1, <2>3 DEF to
  <1>10. CASE cmd \in {"H", "f"}
    <2>1. Screen!ExecuteCSI(b0, cmd) = [b EXCEPT !.y = Screen!Least(n - 1, b.rows - 1),
                                                 !.x = Screen!Least(m - 1, b.cols - 1)]
      BY <1>10 DEF Screen!ExecuteCSI, b, n, m
    <2>2. /\ Screen!Least(n - 1, b.rows - 1) \in 0..b.rows - 1
          /\ Screen!Least(m - 1, b.cols - 1) \in 0..b.cols - 1
      BY <1>2, <1>3 DEF Screen!Least
    <2> QED BY <1>1, <2>1, <2>2 DEF BufferSound, Steady, BufferTypes, BufferFields, Grid
  <1>11. CASE cmd \in {"J", "K"}
    <2>1. \E mode : Screen!ExecuteCSI(b0, cmd) \in
                      {Screen!EraseDisplay(b, mode), Screen!EraseLine(b, mode)}
      BY <1>11 DEF Screen!ExecuteCSI, b
    <2> QED BY <1>1, <2>1, ErasuresFit
  <1>12. CASE cmd = "m"
    <2>1. Screen!ExecuteCSI(b0, cmd) = [b EXCEPT !.look = Screen!SetGraphicsMode(@, b.params)]
      BY <1>12 DEF Screen!ExecuteCSI, b
    <2> QED BY <1>1, <2>1 DEF BufferSound, Steady, BufferTypes, BufferFields, Grid
  <1>13. CASE cmd = "r"
    <2>1. Screen!ExecuteCSI(b0, cmd) = Screen!SetScrollRegion(b, n - 1, l - 1)
      BY <1>13 DEF Screen!ExecuteCSI, b, n, l
    <2> QED BY <1>1, <1>3, <2>1, RegionSet
  <1>14. CASE cmd \in {"s", "u"}
    <2>1. Screen!ExecuteCSI(b0, cmd) \in {Screen!SaveCursor(b), Screen!RestoreCursor(b)}
      BY <1>14 DEF Screen!ExecuteCSI, b
    <2> QED BY <1>1, <2>1, Saved
  <1>15. CASE cmd \notin {"A", "B", "C", "D", "H", "f", "J", "K", "m", "r", "s", "u"}
    <2>1. Screen!ExecuteCSI(b0, cmd) = b
      BY <1>15 DEF Screen!ExecuteCSI, b
    <2> QED BY <1>1, <2>1
  <1> QED BY <1>6, <1>7, <1>8, <1>9, <1>10, <1>11, <1>12, <1>13, <1>14, <1>15

\* What is no part of the picture may change.
LEMMA OtherFields ==
  ASSUME NEW b, BufferSound(b)
  PROVE  /\ \A m \in {"normal", "escape", "csi", "osc"} : BufferSound([b EXCEPT !.mode = m])
         /\ \A p \in Seq(Int) : BufferSound([b EXCEPT !.params = p])
         /\ \A p : BufferSound([b EXCEPT !.pending = p])
         /\ \A l : BufferSound([b EXCEPT !.look = l])
  BY DEF BufferSound, Steady, BufferTypes, BufferFields, Grid

\* A byte of a control sequence.
LEMMA SequenceRead ==
  ASSUME MaxInt \in Nat, NEW b, BufferSound(b), NEW c, b.mode = "csi", ~Screen!Overruns(b, c)
  PROVE  BufferSound(Screen!InCSI(b, c))
  <1>1. b.params \in Seq(Int)
    BY DEF BufferSound, Steady, BufferTypes
  <1>2. CASE c \in Screen!ToSet(Screen!Digits)
    <2> DEFINE open == IF b.params = <<>> THEN <<0>> ELSE b.params
               digit == Screen!Digit(c)
               next == [open EXCEPT ![Len(open)] = Screen!Wrapped(@ * 10 + digit)]
    <2>1. Screen!InCSI(b, c) = [b EXCEPT !.params = next]
      <3>1. PICK i \in 1..10 : c = Screen!Digits[i]
        BY <1>2 DEF Screen!ToSet, Screen!Digits
      <3>2. c \in {"0", "1", "2", "3", "4", "5", "6", "7", "8", "9"}
        BY <3>1 DEF Screen!Digits
      <3>3. c # ";" /\ c \notin Screen!Intermediate
        BY <3>2 DEF Screen!Intermediate
      <3> QED BY <1>2, <3>3, Zenon DEF Screen!InCSI
    <2>2. open \in Seq(Int) /\ open # <<>> /\ Len(open) \in 1..Len(open)
      BY <1>1
    <2>3. \E d \in 0..9 : Screen!Digits[d + 1] = c
      <3>1. PICK i \in 1..10 : Screen!Digits[i] = c
        BY <1>2 DEF Screen!ToSet, Screen!Digits
      <3> QED BY <3>1
    <2>4. digit \in Int
      <3>1. digit \in 0..9
        BY <2>3, Zenon DEF Screen!Digit
      <3> QED BY <3>1
    <2> HIDE DEF open, digit
    <2>5. open[Len(open)] * 10 + digit \in Int
      BY <2>2, <2>4
    <2>6. Screen!Wrapped(open[Len(open)] * 10 + digit) \in Int
      BY <2>5, WrappedIsInt
    <2>7. next \in Seq(Int)
      BY <2>2, <2>6
    <2> HIDE DEF next
    <2>8. BufferSound([b EXCEPT !.params = next])
      BY <2>7, OtherFields, Zenon
    <2> QED BY <2>1, <2>8
  <1>3. CASE c \notin Screen!ToSet(Screen!Digits)
    <2>1. Append(b.params, 0) \in Seq(Int)
      BY <1>1
    <2>2. BufferSound([b EXCEPT !.params = Append(@, 0)])
      BY <2>1, OtherFields
    <2> QED BY <1>3, <2>2, Commanded DEF Screen!InCSI
  <1> QED BY <1>2, <1>3

\* The byte after an escape.
LEMMA EscapeRead ==
  ASSUME NEW b, BufferSound(b), NEW c
  PROVE  BufferSound(Screen!InEscape(b, c))
  <1> DEFINE n == [b EXCEPT !.mode = "normal"]
  <1>1. /\ BufferSound(n)
        /\ BufferSound([b EXCEPT !.mode = "csi"]) /\ BufferSound([b EXCEPT !.mode = "osc"])
    BY OtherFields
  <1> HIDE DEF n
  <1>2. /\ BufferSound(Screen!ReverseFeed(n)) /\ BufferSound(Screen!SaveCursor(n))
        /\ BufferSound(Screen!RestoreCursor(n)) /\ BufferSound(Screen!Clear(n))
    BY <1>1, FeedsMove, Saved, Cleared
  <1>3. BufferSound([Screen!Clear(n) EXCEPT !.look = Screen!Plain])
    BY <1>2, OtherFields
  <1> QED BY <1>1, <1>2, <1>3, Zenon DEF Screen!InEscape, n

\* A byte of text.
LEMMA TextRead ==
  ASSUME NEW b, BufferSound(b), NEW c
  PROVE  BufferSound(Screen!InText(b, c))
  <1>1. BufferSound([b EXCEPT !.pending = <<>>, !.mode = "escape", !.params = <<>>])
    BY DEF BufferSound, Steady, BufferTypes, BufferFields, Grid
  <1>2. BufferSound([b EXCEPT !.pending = <<>>]) /\ BufferSound([b EXCEPT !.pending = <<c>>])
    BY OtherFields
  <1> DEFINE n == [b EXCEPT !.pending = <<>>]
  <1>3. \A r : BufferSound(Screen!WriteRune(n, r)) /\ BufferSound(Screen!WriteRune(b, r))
    <2> HIDE DEF n
    <2> QED BY <1>2, RuneWritten DEF n
  <1> QED BY <1>1, <1>2, <1>3, FeedsMove, Zenon DEF Screen!InText

\* Any byte.
LEMMA ByteRead ==
  ASSUME MaxInt \in Nat, NEW b, BufferSound(b), NEW c, ~Screen!Overruns(b, c)
  PROVE  BufferSound(Screen!ProcessByte(b, c))
  <1>1. b.mode \in {"normal", "escape", "csi", "osc"}
    BY DEF BufferSound, Steady, BufferTypes
  <1>2. BufferSound([b EXCEPT !.mode = "normal"])
    BY OtherFields
  <1> QED BY <1>1, <1>2, TextRead, EscapeRead, SequenceRead DEF Screen!ProcessByte

\* As long as nothing has strained it, the buffer is sound.
ScreenInv == gentle => BufferSound(buffer)

\* A new buffer, whatever size is asked for.
LEMMA NewIsSound ==
  ASSUME NEW height \in Int, NEW width \in Int
  PROVE  BufferSound(Screen!NewBuffer(height, width))
  <1> DEFINE r == IF height > 0 THEN height ELSE 24
             c == IF width > 0 THEN width ELSE 80
  <1>1. r \in Nat \ {0} /\ c \in Nat \ {0}
    OBVIOUS
  <1> HIDE DEF r, c
  <1>2. BufferSound(Screen!Sized(r, c))
    BY <1>1 DEF Screen!Sized, Screen!BlankRow, BufferSound, Steady, BufferTypes, BufferFields, Grid
  <1> QED BY <1>2 DEF Screen!NewBuffer, r, c

LEMMA InitScreen == ASSUME ScreenAssumed PROVE Screen!Init => ScreenInv
  BY NewIsSound DEF ScreenAssumed, Screen!Init, ScreenInv

LEMMA StepScreen ==
  ASSUME ScreenAssumed, ScreenInv, [Screen!Next]_screenVars
  PROVE  ScreenInv'
  <1> SUFFICES ASSUME gentle' PROVE BufferSound(buffer')
    BY DEF ScreenInv
  <1>1. ASSUME NEW bytes \in Printed, Screen!BeginWrite(bytes) PROVE BufferSound(buffer')
    BY <1>1 DEF Screen!BeginWrite, ScreenInv
  <1>2. ASSUME Screen!Byte PROVE BufferSound(buffer')
    BY <1>2, ByteRead DEF Screen!Byte, ScreenInv, ScreenAssumed
  <1>3. ASSUME NEW height \in Extent, NEW width \in Extent, Screen!ResizeTo(height, width)
        PROVE  BufferSound(buffer')
    BY <1>3, Resized DEF Screen!ResizeTo, ScreenInv, ScreenAssumed
  <1>4. ASSUME Screen!ClearAll PROVE BufferSound(buffer')
    BY <1>4, Cleared DEF Screen!ClearAll, ScreenInv
  <1>5. ASSUME NEW x \in Extent, NEW y \in Extent, Screen!MoveCursor(x, y) PROVE BufferSound(buffer')
    BY <1>5, CursorSet DEF Screen!MoveCursor, ScreenInv
  <1>6. ASSUME UNCHANGED screenVars PROVE BufferSound(buffer')
    BY <1>6 DEF screenVars, ScreenInv
  <1> QED BY <1>1, <1>2, <1>3, <1>4, <1>5, <1>6 DEF Screen!Next

\* Whatever a program prints, on a screen of whatever size, and whenever it is resized, cleared
\* or its cursor set: no byte makes the parser read or write outside the cells, and the cursor,
\* the one that is kept and the region stay on the screen, unless a resize has cut one of
\* them off or a movement has left the integers (buffer.go, parser.go).
THEOREM ScreenStaysSound == ASSUME ScreenAssumed PROVE Spec => []ScreenSound
  <1>1. ScreenInv => ScreenSound
    BY DEF ScreenInv, BufferSound, Steady, BufferTypes, ScreenSound, Screen!ScreenSound,
           Screen!OnScreen
  <1>2. Init => ScreenInv
    BY InitScreen DEF Init
  <1>3. ScreenInv /\ [Screen!Next]_screenVars => ScreenInv'
    BY StepScreen
  <1> QED BY <1>1, <1>2, <1>3, StepsApart, PTL DEF Spec

-----------------------------------------------------------------------------
(* The batches of a chat (Approval), for any rules, calls and batches.      *)

RuledCall == Judged \cup Exempt

RoundsAssumed ==
  /\ Config \subseteq [agentReject : Rounds!Rule, reject : Rounds!Rule, builtinReject : Rounds!Rule,
                       agentApprove : Rounds!Rule, approve : Rounds!Rule, builtinApprove : Rounds!Rule]
  /\ Batch \subseteq Seq(RuledCall) \ {<<>>}

\* What is in force, merged: a rule in which "none" matches nothing.
Merged(rule) ==
  /\ rule.text \in {"none", "bad", "ok"}
  /\ rule.of \in [Judged -> {"yes", "no", "error"}]
  /\ rule.text = "none" => rule = Rounds!NoRule

InForce(config) ==
  [reject  |-> Rounds!Merge(Rounds!Own(config.agentReject, config.reject), config.builtinReject),
   approve |-> Rounds!Merge(Rounds!Own(config.agentApprove, config.approve), config.builtinApprove)]

LEMMA RuleMerged == ASSUME NEW r \in Rounds!Rule PROVE Merged(r)
  BY DEF Rounds!Rule, Rounds!NoRule, Rounds!BadRule, Merged

LEMMA MergeMerges ==
  ASSUME NEW user, Merged(user), NEW builtin, Merged(builtin)
  PROVE  /\ Merged(Rounds!Merge(user, builtin))
         /\ \A c \in Judged : builtin.of[c] = "yes" =>
              /\ Rounds!Merge(user, builtin).text # "none"
              /\ Rounds!Merge(user, builtin).of[c] # "no"
  BY DEF Merged, Rounds!Merge, Rounds!NoRule

LEMMA RulesInForce ==
  ASSUME RoundsAssumed, NEW config \in Config
  PROVE  /\ Merged(InForce(config).reject) /\ Merged(InForce(config).approve)
         /\ \A c \in Judged : config.builtinReject.of[c] = "yes" =>
              InForce(config).reject.text # "none" /\ InForce(config).reject.of[c] # "no"
  <1>1. /\ Merged(Rounds!Own(config.agentReject, config.reject)) /\ Merged(config.builtinReject)
        /\ Merged(Rounds!Own(config.agentApprove, config.approve)) /\ Merged(config.builtinApprove)
    BY RuleMerged DEF RoundsAssumed, Rounds!Own
  <1> QED BY <1>1, MergeMerges, Zenon DEF InForce

\* The first place of a set of places is one of them.
LEMMA FirstIsPlace ==
  ASSUME NEW places, places \subseteq Nat, places # {}
  PROVE  Rounds!First(places) \in places
  BY TalkP!LeastOf, Zenon DEF Rounds!First

\* A rule passes a batch if and only if it passes each call that is judged.
LEMMA FirstNotIs ==
  ASSUME NEW rule, Merged(rule), NEW calls \in Seq(RuledCall), NEW pass \in {"yes", "no", "error"}
  PROVE  /\ Rounds!FirstNot(rule, calls, pass) \in {"yes", "no", "error"}
         /\ rule.text = "none" => Rounds!FirstNot(rule, calls, pass) = pass
         /\ rule.text # "none" =>
              (Rounds!FirstNot(rule, calls, pass) = pass <=>
                 \A i \in DOMAIN calls : calls[i] \in Exempt \/ rule.of[calls[i]] = pass)
  <1> DEFINE others == {i \in DOMAIN calls : calls[i] \notin Exempt /\ rule.of[calls[i]] # pass}
             first  == Rounds!First(others)
  <1>1. Rounds!FirstNot(rule, calls, pass) =
          IF rule.text = "none" \/ others = {} THEN pass ELSE rule.of[calls[first]]
    BY DEF Rounds!FirstNot
  <1>2. others # {} => rule.of[calls[first]] \in {"yes", "no", "error"} \ {pass}
    <2> SUFFICES ASSUME others # {} PROVE rule.of[calls[first]] \in {"yes", "no", "error"} \ {pass}
      OBVIOUS
    <2>1. others \subseteq Nat
      OBVIOUS
    <2>2. first \in others
      <3> HIDE DEF others
      <3> QED BY <2>1, FirstIsPlace
    <2> HIDE DEF first
    <2>3. first \in DOMAIN calls /\ calls[first] \notin Exempt /\ rule.of[calls[first]] # pass
      BY <2>2
    <2>4. calls[first] \in Judged
      BY <2>3 DEF RuledCall
    <2> QED BY <2>3, <2>4 DEF Merged
  <1>3. others = {} <=> \A i \in DOMAIN calls : calls[i] \in Exempt \/ rule.of[calls[i]] = pass
    OBVIOUS
  <1> HIDE DEF others, first
  <1> QED BY <1>1, <1>2, <1>3

\* What the rules make of a batch is what they make of each call.
PassesAlone(config, c) ==
  /\ InForce(config).reject.text # "bad"
  /\ InForce(config).reject.text = "none" \/ InForce(config).reject.of[c] = "no"
  /\ InForce(config).approve.text = "ok" /\ InForce(config).approve.of[c] = "yes"

LEMMA EvaluateIs ==
  ASSUME RoundsAssumed, NEW config \in Config, NEW calls \in Seq(RuledCall), calls # <<>>
  PROVE  /\ Rounds!Evaluate(config, calls) \in {"approved", "rejected", "manual", "error"}
         /\ Rounds!Evaluate(config, calls) = "approved" <=>
              \A i \in DOMAIN calls : calls[i] \in Exempt \/ PassesAlone(config, calls[i])
         /\ \A i \in DOMAIN calls :
              calls[i] \notin Exempt /\ config.builtinReject.of[calls[i]] = "yes" =>
                Rounds!Evaluate(config, calls) \in {"rejected", "error"}
  <1> DEFINE reject   == InForce(config).reject
             approve  == InForce(config).approve
             rejected == Rounds!FirstNot(reject, calls, "no")
             result   == Rounds!FirstNot(approve, calls, "yes")
             exempt   == \A i \in DOMAIN calls : calls[i] \in Exempt
             verdicts == Rounds!Evaluate(config, calls)
  <1>1. Merged(reject) /\ Merged(approve)
    BY RulesInForce
  <1>2. verdicts =
          IF exempt THEN "approved"
          ELSE IF "bad" \in {reject.text, approve.text} THEN "error"
          ELSE IF rejected = "yes" THEN "rejected"
          ELSE IF rejected = "error" THEN "error"
          ELSE CASE approve.text = "none" \/ result = "no" -> "manual"
                 [] approve.text # "none" /\ result = "yes" -> "approved"
                 [] OTHER -> "error"
    BY Zenon DEF Rounds!Evaluate, Rounds!Approves, InForce
  <1>3. /\ rejected \in {"yes", "no", "error"}
        /\ reject.text = "none" => rejected = "no"
        /\ reject.text # "none" =>
             (rejected = "no" <=> \A i \in DOMAIN calls : calls[i] \in Exempt \/ reject.of[calls[i]] = "no")
    <2> HIDE DEF reject
    <2> QED BY <1>1, FirstNotIs
  <1>4. /\ result \in {"yes", "no", "error"}
        /\ approve.text # "none" =>
             (result = "yes" <=> \A i \in DOMAIN calls : calls[i] \in Exempt \/ approve.of[calls[i]] = "yes")
    <2> HIDE DEF approve
    <2> QED BY <1>1, FirstNotIs
  <1>5. \A i \in DOMAIN calls : calls[i] \notin Exempt => calls[i] \in Judged
    BY DEF RuledCall
  <1>6. \A i \in DOMAIN calls :
          calls[i] \notin Exempt /\ config.builtinReject.of[calls[i]] = "yes" =>
            reject.text # "none" /\ reject.of[calls[i]] # "no"
    BY <1>5, RulesInForce, Zenon
  <1>7. \A i \in DOMAIN calls :
          PassesAlone(config, calls[i]) <=>
            /\ reject.text # "bad" /\ (reject.text = "none" \/ reject.of[calls[i]] = "no")
            /\ approve.text = "ok" /\ approve.of[calls[i]] = "yes"
    BY Zenon DEF PassesAlone
  <1>8. reject.text \in {"none", "bad", "ok"} /\ approve.text \in {"none", "bad", "ok"}
    BY <1>1 DEF Merged
  <1> HIDE DEF reject, approve, rejected, result
  <1>9. verdicts \in {"approved", "rejected", "manual", "error"}
    BY <1>2
  <1>10. verdicts = "approved" <=>
           \A i \in DOMAIN calls : calls[i] \in Exempt \/ PassesAlone(config, calls[i])
    <2>1. CASE exempt
      BY <1>2, <2>1
    <2>2. CASE ~exempt
      <3>1. verdicts = "approved" <=>
              /\ reject.text # "bad" /\ approve.text = "ok" /\ rejected = "no" /\ result = "yes"
        BY <1>2, <1>3, <1>4, <1>8, <2>2
      <3> HIDE DEF verdicts
      <3> QED BY <1>3, <1>4, <1>7, <1>8, <2>2, <3>1
    <2> QED BY <2>1, <2>2
  <1>11. ASSUME NEW i \in DOMAIN calls, calls[i] \notin Exempt,
                config.builtinReject.of[calls[i]] = "yes"
         PROVE  verdicts \in {"rejected", "error"}
    <2>1. reject.text # "none" /\ reject.of[calls[i]] # "no"
      BY <1>6, <1>11
    <2>2. rejected # "no"
      BY <1>3, <1>11, <2>1
    <2> QED BY <1>2, <1>3, <1>11, <2>2
  <1> QED BY <1>9, <1>10, <1>11

\* A call alone.
LEMMA AloneIs ==
  ASSUME RoundsAssumed, NEW config \in Config, NEW c \in RuledCall
  PROVE  Rounds!Evaluate(config, <<c>>) = "approved" <=> c \in Exempt \/ PassesAlone(config, c)
  <1>1. <<c>> \in Seq(RuledCall) /\ <<c>> # <<>> /\ DOMAIN <<c>> = {1} /\ <<c>>[1] = c
    OBVIOUS
  <1> DEFINE calls == <<c>>
  <1>2. Rounds!Evaluate(config, calls) = "approved" <=>
          \A i \in DOMAIN calls : calls[i] \in Exempt \/ PassesAlone(config, calls[i])
    <2> HIDE DEF calls
    <2> QED BY <1>1, EvaluateIs DEF calls
  <1> QED BY <1>1, <1>2, Zenon

\* A batch that ran was not the same as the one before it; the last judgement is
\* what the rules make of the last batch.
Round == [calls : Batch, end : Rounds!Ends]

RanApart(stored) ==
  \A i \in 2..Len(stored) :
    stored[i].end = "ran" => ~Rounds!SameToolCalls(stored[i].calls, stored[i - 1].calls)

RoundsInv ==
  /\ rounds \in Seq(Round) /\ waiting \in BOOLEAN /\ (waiting => rounds # <<>>)
  /\ RanApart(rounds)
  /\ verdict # Rounds!Unjudged =>
       /\ rounds # <<>> /\ verdict.config \in Config
       /\ verdict.is = Rounds!Evaluate(verdict.config, Rounds!Last.calls)

LEMMA RoundHasCalls ==
  ASSUME RoundsAssumed, NEW row \in Round
  PROVE  row.calls \in Batch /\ row.calls \in Seq(RuledCall) /\ row.calls # <<>>
  <1>1. row.calls \in Batch
    BY DEF Round
  <1> QED BY <1>1 DEF RoundsAssumed

\* What the search for a loop sees of the last two rows.
LEMMA LoopSeen ==
  ASSUME RoundsAssumed, rounds \in Seq(Round), Len(rounds) >= 2,
         Rounds!SameToolCalls(Rounds!Last.calls, rounds[Len(rounds) - 1].calls)
  PROVE  Rounds!Loops(Rounds!Earlier, Rounds!Last.calls)
  <1> DEFINE n     == Len(rounds)
             front == SubSeq(rounds, 1, n - 1)
             calls == Rounds!Last.calls
             all   == Append(Rounds!Earlier, calls)
  <1>1. n \in Nat /\ \A i \in 1..n : rounds[i] \in Round
    OBVIOUS
  <1>2. /\ front \in Seq(Round) /\ Len(front) = n - 1
        /\ \A i \in 1..n - 1 : front[i] = rounds[i]
    BY <1>1
  <1>3. calls \in Batch /\ calls # <<>>
    BY <1>1, RoundHasCalls DEF Rounds!Last
  <1> HIDE DEF n, front, calls
  <1>4. /\ Rounds!Earlier \in Seq(Batch) /\ Len(Rounds!Earlier) = n - 1
        /\ \A i \in 1..n - 1 : Rounds!Earlier[i] = rounds[i].calls
    <2>1. DOMAIN front = 1..n - 1 /\ \A i \in 1..n - 1 : front[i] \in Round
      BY <1>1, <1>2 DEF n
    <2>2. Rounds!Earlier = [i \in 1..n - 1 |-> front[i].calls]
      BY <2>1, Zenon DEF Rounds!Earlier, Rounds!Batches, front, n
    <2>3. \A i \in 1..n - 1 : front[i].calls \in Batch
      BY <2>1, RoundHasCalls, Zenon
    <2>4. n - 1 \in Nat
      BY DEF n
    <2> QED BY <1>2, <2>2, <2>3, <2>4
  <1>5. Len(all) = n /\ all[n] = calls /\ all[n - 1] = rounds[n - 1].calls
    <2>1. /\ Len(all) = Len(Rounds!Earlier) + 1 /\ all[Len(Rounds!Earlier) + 1] = calls
          /\ \A i \in 1..Len(Rounds!Earlier) : all[i] = Rounds!Earlier[i]
      BY <1>3, <1>4, AppendProperties
    <2> QED BY <1>1, <1>4, <2>1 DEF n
  <1> HIDE DEF all
  <1>6. Rounds!SameToolCalls(calls, all[n]) /\ Rounds!SameToolCalls(calls, all[n - 1])
    BY <1>5 DEF Rounds!SameToolCalls, calls, n
  <1>7. \A k \in 1..2 : k = 1 \/ k = 2
    OBVIOUS
  <1>8. /\ n + 1 - 1 = n /\ n + 1 - 2 = n - 1 /\ Rounds!Threshold - 1 = 2
        /\ \A k \in 1..2 : k <= Rounds!MaxHistory /\ k <= n
    BY <1>1 DEF n, Rounds!Threshold, Rounds!MaxHistory
  <1>9. \A k \in 1..2 : Rounds!SameToolCalls(calls, all[n + 1 - k])
    BY <1>6, <1>7, <1>8
  <1>10. Rounds!DetectLoop(all, calls)
    BY <1>3, <1>5, <1>8, <1>9 DEF Rounds!DetectLoop
  <1> QED BY <1>10 DEF Rounds!Loops, all, calls

\* The last batch ends.
LEMMA FinishKeeps ==
  ASSUME RoundsAssumed, RoundsInv, waiting, NEW end \in Rounds!Ends, Rounds!Finish(end),
         end = "ran" => ~Rounds!Loops(Rounds!Earlier, Rounds!Last.calls)
  PROVE  /\ rounds' \in Seq(Round) /\ waiting' \in BOOLEAN /\ (waiting' => rounds' # <<>>)
         /\ RanApart(rounds') /\ rounds' # <<>> /\ Rounds!Last'.calls = Rounds!Last.calls
  <1> DEFINE n == Len(rounds)
  <1>1. n \in Nat \ {0} /\ rounds \in Seq(Round) /\ \A i \in 1..n : rounds[i] \in Round
    BY DEF RoundsInv
  <1>2. rounds' = [rounds EXCEPT ![n].end = end] /\ waiting' = FALSE
    BY DEF Rounds!Finish
  <1>3. /\ rounds' \in Seq(Round) /\ Len(rounds') = n
        /\ \A i \in 1..n : /\ rounds'[i].calls = rounds[i].calls
                           /\ i # n => rounds'[i].end = rounds[i].end
        /\ rounds'[n].end = end
    BY <1>1, <1>2 DEF Round
  <1>4. Rounds!Last = rounds[n] /\ Rounds!Last' = rounds'[n]
    BY <1>3 DEF Rounds!Last
  <1> HIDE DEF n
  <1>5. RanApart(rounds')
    <2> SUFFICES ASSUME NEW i \in 2..n, rounds'[i].end = "ran"
                 PROVE  ~Rounds!SameToolCalls(rounds[i].calls, rounds[i - 1].calls)
      BY <1>1, <1>3 DEF RanApart
    <2>1. CASE i # n
      BY <1>1, <1>3, <2>1 DEF RoundsInv, RanApart, n
    <2>2. CASE i = n
      BY <1>1, <1>3, <1>4, <2>2, LoopSeen DEF n
    <2> QED BY <2>1, <2>2
  <1>6. rounds' # <<>> /\ Rounds!Last'.calls = Rounds!Last.calls
    BY <1>1, <1>3, <1>4
  <1> QED BY <1>2, <1>3, <1>5, <1>6

LEMMA ExecuteKeeps ==
  ASSUME RoundsAssumed, RoundsInv, waiting, Rounds!ExecuteToolCalls
  PROVE  /\ rounds' \in Seq(Round) /\ waiting' \in BOOLEAN /\ (waiting' => rounds' # <<>>)
         /\ RanApart(rounds') /\ rounds' # <<>> /\ Rounds!Last'.calls = Rounds!Last.calls
  <1>1. CASE UNCHANGED <<rounds, waiting>>
    BY <1>1 DEF RoundsInv, Rounds!Last
  <1>2. CASE Rounds!Finish("looped")
    BY <1>2, FinishKeeps DEF Rounds!Ends
  <1>3. CASE ~Rounds!Loops(Rounds!Earlier, Rounds!Last.calls) /\ \E end \in {"ran", "failed"} : Rounds!Finish(end)
    BY <1>3, FinishKeeps DEF Rounds!Ends
  <1> QED BY <1>1, <1>2, <1>3, Zenon DEF Rounds!ExecuteToolCalls

LEMMA InitRounds == ASSUME RoundsAssumed PROVE Rounds!Init => RoundsInv
  <1> SUFFICES ASSUME Rounds!Init PROVE RoundsInv
    OBVIOUS
  <1>1. rounds = <<>> /\ waiting = FALSE /\ verdict = Rounds!Unjudged
    BY DEF Rounds!Init
  <1>2. RanApart(<<>>) /\ <<>> \in Seq(Round)
    BY DEF RanApart
  <1> QED BY <1>1, <1>2, Zenon DEF RoundsInv

LEMMA AnswerKeeps ==
  ASSUME RoundsAssumed, RoundsInv, NEW batch \in Batch, Rounds!Answer(batch)
  PROVE  RoundsInv'
  <1> DEFINE row == [calls |-> batch, end |-> "open"]
  <1>1. row \in Round /\ row.end # "ran"
    BY DEF Round, Rounds!Ends
  <1>2. rounds' = Append(rounds, row) /\ waiting' \in BOOLEAN /\ verdict' = Rounds!Unjudged
    BY DEF Rounds!Answer
  <1> HIDE DEF row
  <1>3. /\ rounds' \in Seq(Round) /\ rounds' # <<>> /\ Len(rounds') = Len(rounds) + 1
        /\ \A i \in 1..Len(rounds) : rounds'[i] = rounds[i]
        /\ rounds'[Len(rounds) + 1] = row
    BY <1>1, <1>2, AppendProperties DEF RoundsInv
  <1>4. Len(rounds) \in Nat
    BY DEF RoundsInv
  <1>5. RanApart(rounds')
    <2> SUFFICES ASSUME NEW i \in 2..Len(rounds) + 1, rounds'[i].end = "ran"
                 PROVE  ~Rounds!SameToolCalls(rounds'[i].calls, rounds'[i - 1].calls)
      BY <1>3 DEF RanApart
    <2>1. i \in 2..Len(rounds) /\ i - 1 \in 1..Len(rounds)
      BY <1>1, <1>3, <1>4
    <2> QED BY <1>3, <1>4, <2>1 DEF RoundsInv, RanApart
  <1> QED BY <1>2, <1>3, <1>5 DEF RoundsInv

LEMMA JudgeKeeps ==
  ASSUME RoundsAssumed, RoundsInv, NEW config \in Config, NEW sub \in BOOLEAN,
         Rounds!Judge(config, sub)
  PROVE  RoundsInv'
  <1> DEFINE decision == Rounds!Evaluate(config, Rounds!Last.calls)
  <1>1. waiting /\ verdict' = [is |-> decision, config |-> config]
    BY Zenon DEF Rounds!Judge
  <1>2. /\ rounds' \in Seq(Round) /\ waiting' \in BOOLEAN /\ (waiting' => rounds' # <<>>)
        /\ RanApart(rounds') /\ rounds' # <<>> /\ Rounds!Last'.calls = Rounds!Last.calls
    <2>1. Rounds!ExecuteToolCalls \/ Rounds!Finish("rejected") \/ UNCHANGED <<rounds, waiting>>
      BY Zenon DEF Rounds!Judge
    <2>2. CASE Rounds!ExecuteToolCalls
      BY <1>1, <2>2, ExecuteKeeps
    <2>3. CASE Rounds!Finish("rejected")
      BY <1>1, <2>3, FinishKeeps DEF Rounds!Ends
    <2>4. CASE UNCHANGED <<rounds, waiting>>
      BY <1>1, <2>4 DEF RoundsInv, Rounds!Last
    <2> QED BY <2>1, <2>2, <2>3, <2>4
  <1>3. verdict'.config = config /\ verdict'.is = decision
    BY <1>1
  <1> QED BY <1>2, <1>3 DEF RoundsInv

LEMMA StepRounds ==
  ASSUME RoundsAssumed, RoundsInv, [Rounds!Next]_roundVars
  PROVE  RoundsInv'
  <1>1. ASSUME Rounds!Approve PROVE RoundsInv'
    <2>1. waiting /\ Rounds!ExecuteToolCalls /\ verdict' = verdict
      BY <1>1 DEF Rounds!Approve
    <2> QED BY <2>1, ExecuteKeeps DEF RoundsInv
  <1>2. ASSUME Rounds!Reject PROVE RoundsInv'
    <2>1. waiting /\ Rounds!Finish("rejected") /\ verdict' = verdict
      BY <1>2 DEF Rounds!Reject
    <2> QED BY <2>1, FinishKeeps DEF RoundsInv, Rounds!Ends
  <1>3. ASSUME UNCHANGED roundVars PROVE RoundsInv'
    BY <1>3 DEF roundVars, RoundsInv, Rounds!Last
  <1> QED BY <1>1, <1>2, <1>3, AnswerKeeps, JudgeKeeps DEF Rounds!Next

LEMMA RoundsInvariant == ASSUME RoundsAssumed PROVE Spec => []RoundsInv
  <1>1. Init => RoundsInv
    BY InitRounds DEF Init
  <1>2. RoundsInv /\ [Rounds!Next]_roundVars => RoundsInv'
    BY StepRounds
  <1> QED BY <1>1, <1>2, StepsApart, PTL DEF Spec

\* Whatever rules are configured, for the agent, for all agents and built in, with errors or
\* without: a batch runs by itself if and only if each of its calls would alone, and none
\* with a call that the built-in rules turn down does (EvaluateApprovalRules).
THEOREM BatchesAreTheirCalls == ASSUME RoundsAssumed PROVE Spec => []BatchIsItsCalls
  <1>1. RoundsInv => BatchIsItsCalls
    <2> SUFFICES ASSUME RoundsInv, verdict # Rounds!Unjudged PROVE Rounds!BatchIsItsCalls
      BY DEF BatchIsItsCalls, Rounds!BatchIsItsCalls
    <2> DEFINE config == verdict.config
               calls  == Rounds!Last.calls
               named  == {calls[i] : i \in DOMAIN calls}
    <2>1. /\ config \in Config /\ calls \in Seq(RuledCall) /\ calls # <<>>
          /\ verdict.is = Rounds!Evaluate(config, calls)
      <3>1. rounds # <<>> /\ rounds \in Seq(Round)
        BY DEF RoundsInv
      <3>2. Rounds!Last \in Round
        BY <3>1 DEF Rounds!Last
      <3> QED BY <3>2, RoundHasCalls, Zenon DEF RoundsInv
    <2> HIDE DEF config, calls
    <2>2. /\ verdict.is = "approved" <=>
               \A i \in DOMAIN calls : calls[i] \in Exempt \/ PassesAlone(config, calls[i])
          /\ \A i \in DOMAIN calls :
               calls[i] \notin Exempt /\ config.builtinReject.of[calls[i]] = "yes" =>
                 verdict.is \in {"rejected", "error"}
      BY <2>1, EvaluateIs
    <2>3. \A i \in DOMAIN calls :
            Rounds!Evaluate(config, <<calls[i]>>) = "approved" <=>
              calls[i] \in Exempt \/ PassesAlone(config, calls[i])
      <3>1. \A i \in DOMAIN calls : calls[i] \in RuledCall
        BY <2>1
      <3> QED BY <2>1, <3>1, AloneIs
    <2>4. verdict.is = "approved" <=> \A c \in named : Rounds!Evaluate(config, <<c>>) = "approved"
      BY <2>2, <2>3, Zenon
    <2>5. \A c \in named \ Exempt :
            config.builtinReject.of[c] = "yes" => verdict.is \in {"rejected", "error"}
      BY <2>2, Zenon
    <2> QED BY <2>4, <2>5, Zenon DEF Rounds!BatchIsItsCalls, config, calls
  <1> QED BY <1>1, RoundsInvariant, PTL

\* However long a chat is and whoever approves: the third batch in a row of the same shell
\* commands is not carried out, whatever numbers and other parameters they are given
\* with (detectToolCallLoop).
THEOREM RepeatsAreStopped == ASSUME RoundsAssumed PROVE Spec => []RepeatStopped
  <1>1. RoundsInv => RepeatStopped
    <2> DEFINE shell(c)   == c.name = "run" /\ c.type = "shell"
               like(a, b) == /\ Len(a) = Len(b)
                             /\ \A i \in DOMAIN a : shell(a[i]) /\ shell(b[i]) /\ a[i].word = b[i].word
    <2> SUFFICES ASSUME RoundsInv, NEW i \in Rounds!Threshold..Len(rounds),
                        \A n \in 1..Rounds!Threshold - 1 : like(rounds[i].calls, rounds[i - n].calls)
                 PROVE  rounds[i].end # "ran"
      BY Zenon DEF RepeatStopped, Rounds!RepeatStopped
    <2>1. /\ i \in 2..Len(rounds) /\ 1 \in 1..Rounds!Threshold - 1 /\ rounds \in Seq(Round)
          /\ i - 1 \in 1..Len(rounds) /\ i \in 1..Len(rounds)
      BY DEF Rounds!Threshold, RoundsInv
    <2> DEFINE a == rounds[i].calls
               b == rounds[i - 1].calls
    <2>2. a \in Seq(RuledCall) /\ b \in Seq(RuledCall)
      <3>1. rounds[i] \in Round /\ rounds[i - 1] \in Round
        BY <2>1
      <3> QED BY <3>1, RoundHasCalls, Zenon
    <2>3. like(a, b)
      BY <2>1, Zenon
    <2> HIDE DEF a, b
    <2>4. Rounds!SameToolCalls(a, b)
      <3>1. ASSUME NEW k \in 1..Len(a) PROVE Rounds!Signature(a[k]) = Rounds!Signature(b[k])
        <4>1. shell(a[k]) /\ shell(b[k]) /\ a[k].word = b[k].word
          BY <2>2, <2>3
        <4>2. "shell" \notin {"wait", "sleep"}
          OBVIOUS
        <4> QED BY <4>1, <4>2, Zenon DEF Rounds!Signature
      <3> QED BY <2>3, <3>1 DEF Rounds!SameToolCalls
    <2> QED BY <2>1, <2>4 DEF RoundsInv, RanApart, a, b
  <1> QED BY <1>1, RoundsInvariant, PTL
=============================================================================
