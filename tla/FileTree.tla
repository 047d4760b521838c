------------------------------- MODULE FileTree -------------------------------
(***************************************************************************)
(* The tree tool (tools/tools/tree): the model is shown the workspace as   *)
(* lines of names, each file with a number, and changes files by changing  *)
(* the lines; the old tree and the new one are turned into operations on   *)
(* the disk.  A name is a number, a path a sequence of names below the     *)
(* root, a disk a function from its paths to Folder or to what the file    *)
(* holds.  Entries that cannot be read and links are left aside.           *)
(***************************************************************************)
EXTENDS Integers, Sequences, FiniteSets, SequencesExt, FiniteSetsExt

CONSTANTS MaxDepth, MaxChildrenNum, MaxNodeCount,
          Hidden,      \* dirBlacklists: names that are neither shown nor accepted
          Sensitive    \* names that must not be deleted or moved

Folder == 0
Empty  == -1
Illegal == 0           \* a name that is no name: "..", or with a "/"
TempName(name) == 1000 + name

Parents(p) == {SubSeq(p, 1, n) : n \in 1..Len(p) - 1}
Below(paths, dir) == {p \in paths : Len(p) = Len(dir) + 1 /\ IsPrefix(dir, p)}

-----------------------------------------------------------------------------
(* The tree and its text                                                    *)

Visible(disk) == {p \in DOMAIN disk : Range(p) \cap Hidden = {}}
Entries(disk, dir) == Below(Visible(disk), dir)
Unfolded(disk, dir) == Len(dir) < MaxDepth /\ Cardinality(Entries(disk, dir)) <= MaxChildrenNum

\* What a walk meets that does not go into folders that are too deep or too full.
Reached(disk) ==
  {p \in Visible(disk) : Unfolded(disk, <<>>) /\ \A dir \in Parents(p) : Unfolded(disk, dir)}

FirstDifference(p, q) == Min({n \in 1..Len(p) + 1 : n > Len(p) \/ n > Len(q) \/ p[n] # q[n]})
\* q is not met before p.
Walked(p, q) ==
  LET n == FirstDifference(p, q) IN n > Len(p) \/ (n <= Len(q) /\ p[n] < q[n])

Node(path, id, count) == [path |-> path, id |-> id, count |-> count]
Paths(nodes) == {n.path : n \in nodes}
At(nodes, p) == CHOOSE n \in nodes : n.path = p
Files(nodes) == {n \in nodes : n.id # 0}
Ids(nodes)   == {n.id : n \in Files(nodes)}

\* Files are numbered as the walk meets them.
BuildTree(disk) ==
  LET files == {p \in Reached(disk) : disk[p] # Folder}
  IN {Node(p, IF p \in files THEN Cardinality({q \in files : Walked(q, p)}) ELSE 0,
           Cardinality(Entries(disk, p))) : p \in Reached(disk)}

\* Folders come before files, both by name.
Above(tree, p, q) ==
  LET n == FirstDifference(p, q)
      file(r) == At(tree, SubSeq(r, 1, n)).id # 0
  IN CASE n > Len(p) -> TRUE
       [] n > Len(q) -> FALSE
       [] OTHER -> IF file(p) # file(q) THEN file(q) ELSE p[n] < q[n]

Line(indent, name, id) == [indent |-> indent, name |-> name, id |-> id]
RootLine == Line(0, 1, 0)

BuildString(tree) ==
  IF Cardinality(tree) + 1 >= MaxNodeCount THEN <<Line(0, Illegal, 0)>>
  ELSE LET shown == SetToSortSeq(tree, LAMBDA m, n : m # n /\ Above(tree, m.path, n.path))
       IN <<RootLine>> \o [i \in DOMAIN shown |-> Line(Len(shown[i].path), Last(shown[i].path), shown[i].id)]

\* The lines back as nodes, in order, or an error.  A line without a number is
\* a folder.
BuildNodeFromString(lines) ==
  LET step(a, ln) ==
        IF ~a.ok \/ ln.indent > a.open \/ ln.name \in Hidden \cup {Illegal} THEN [a EXCEPT !.ok = FALSE]
        ELSE IF ln.indent = 0 THEN [a EXCEPT !.roots = @ + 1, !.open = 1, !.path = <<>>]
        ELSE LET path == Append(SubSeq(a.path, 1, ln.indent - 1), ln.name)
             IN [a EXCEPT !.open = ln.indent + 1, !.path = path, !.nodes = Append(@, Node(path, ln.id, 0))]
      read == FoldLeft(step, [ok |-> TRUE, roots |-> 0, open |-> 0, path |-> <<>>, nodes |-> <<>>], lines)
  IN [ok |-> read.ok /\ read.roots = 1, nodes |-> read.nodes]

\* Nothing looks at the lines below a file.
Seen(nodes) ==
  SelectSeq(nodes, LAMBDA n : \A m \in Range(nodes) : m.id # 0 => m.path \notin Parents(n.path))

CheckNodeFileName(nodes) == Cardinality(Paths(Range(Seen(nodes)))) = Len(Seen(nodes))

-----------------------------------------------------------------------------
(* What is kept between requests                                            *)

\* What is noted of each path, a folder's time changing with its entries.
TreeStates(disk, top) ==
  {<<p, IF disk[p] = Folder THEN Below(DOMAIN disk, p) ELSE {disk[p]}>> : p \in {q \in Reached(disk) : IsPrefix(top, q)}}
Complete(disk) ==
  /\ Unfolded(disk, <<>>)
  /\ \A p \in Reached(disk) : disk[p] = Folder => Unfolded(disk, p)

MaxTreeID(tree) == Max(Ids(tree) \cup {0})

\* Below the root, what has not changed stays; what has is built anew, files
\* that are where they were keep their numbers and others get numbers that were
\* not in use (some numbers are left out; which does not matter).
RefreshDirectory(tree, before, now) ==
  LET fresh == BuildTree(now)
      added == Paths(Files(fresh)) \ Paths(Files(tree))
      changed == {name \in {p[1] : p \in Paths(fresh)} : TreeStates(before, <<name>>) # TreeStates(now, <<name>>)}
  IN {n \in tree : n.path[1] \notin changed /\ n.path \in Paths(fresh)}
       \cup {IF n.id = 0 THEN n
             ELSE IF n.path \notin added THEN [n EXCEPT !.id = At(tree, n.path).id]
             ELSE [n EXCEPT !.id = MaxTreeID(tree) + Cardinality({q \in added : Walked(q, n.path)})]
               : n \in {n \in fresh : n.path[1] \in changed}}

\* Mutant of GlobalTree: the numbers are given anew.
GlobalTreeAnew(tree, before, now) == BuildTree(now)

\* The tree of the disk now, for a session that keeps the tree of an earlier one.
GlobalTree(tree, before, now) ==
  IF Complete(before) /\ Complete(now) THEN RefreshDirectory(tree, before, now) ELSE BuildTree(now)

-----------------------------------------------------------------------------
(* From the two trees to operations                                         *)

\* A folder that is shown without its entries is left as it is.
Kept(tree) == Paths({n \in tree : n.count > MaxChildrenNum})

\* The nodes the comparison comes to: below folders of the target only.
Compared(tree, target, nodes) ==
  {n \in nodes : \A dir \in Parents(n.path) :
                   dir \notin Kept(tree) /\ \E t \in target : t.path = dir /\ t.id = 0}

Unwanted(tree, target) ==
  {n \in Compared(tree, target, tree) :
     n.path \notin Kept(tree) /\ ~\E t \in target : t.path = n.path /\ t.id = n.id}
WantedFiles(tree, target) ==
  {t \in Compared(tree, target, Files(target)) : t.path \notin Kept(tree)}
LeafDirs(tree, target) ==
  {p \in Paths(Compared(tree, target, {n \in tree : n.path \in Kept(tree)} \cup {t \in target : t.id = 0})) :
     Below(Paths(tree \cup target), p) = {}}

Task(type, origin, path) == [type |-> type, origin |-> origin, path |-> path]
TempPath(p) == Append(Front(p), TempName(Last(p)))

\* What is to be done, by kind.
DiffOrigins(tree, target) ==
  LET known == {t \in WantedFiles(tree, target) : t.id \in Ids(tree)}
      source(t) == (CHOOSE n \in tree : n.id = t.id).path
      moved == {t \in known : source(t) # t.path}
      delete(nodes) == {Task("delete", <<>>, n.path) : n \in nodes}
      gone == Unwanted(tree, target)
  IN [dirs |-> {Task("createDir", <<>>, p) : p \in LeafDirs(tree, target)},
      files |-> {Task("createFile", <<>>, t.path) : t \in WantedFiles(tree, target) \ known}
                  \cup {Task("copy", source(t), TempPath(t.path)) : t \in moved},
      goneFiles |-> delete(Files(gone)), goneDirs |-> delete(gone \ Files(gone)),
      moves |-> {Task("move", TempPath(t.path), t.path) : t \in moved}]

\* Mutant of GenerateDiff: what is to go goes first.
GenerateDiffEarly(tree, target) ==
  LET all == DiffOrigins(tree, target) IN <<all.dirs, all.goneFiles, all.goneDirs, all.files, all.moves>>

\* A file whose number is known is copied beside its place first, all that is
\* to go goes, and the copies take their places at last.
GenerateDiff(tree, target) ==
  LET all == DiffOrigins(tree, target) IN <<all.dirs, all.files, all.goneFiles, all.goneDirs, all.moves>>

-----------------------------------------------------------------------------
(* The operations on the disk                                               *)

IsDir(disk, p)    == p = <<>> \/ (p \in DOMAIN disk /\ disk[p] = Folder)
CanWrite(disk, p) == IsDir(disk, Front(p)) /\ ~IsDir(disk, p)
With(disk, p, what) == [q \in DOMAIN disk \cup {p} |-> IF q = p THEN what ELSE disk[q]]
Without(disk, p) == [q \in {q \in DOMAIN disk : ~IsPrefix(p, q)} |-> disk[q]]

MakeAll(disk, p) ==
  [q \in DOMAIN disk \cup Parents(p) \cup {p} |-> IF q \in DOMAIN disk THEN disk[q] ELSE Folder]

Possible(disk, task) ==
  CASE task.type = "createDir"  -> \A p \in Parents(task.path) \cup {task.path} : p \in DOMAIN disk => disk[p] = Folder
    [] task.type = "createFile" -> CanWrite(disk, task.path)
    [] task.type \in {"copy", "move"} -> task.origin \in DOMAIN disk /\ CanWrite(disk, task.path)
    [] task.type = "delete" -> TRUE

Carried(disk, task) ==
  CASE task.type = "createDir"  -> MakeAll(disk, task.path)
    [] task.type = "createFile" -> With(disk, task.path, Empty)
    [] task.type = "copy"   -> With(disk, task.path, disk[task.origin])
    [] task.type = "move"   -> Without(With(disk, task.path, disk[task.origin]), task.origin)
    [] task.type = "delete" -> Without(disk, task.path)

IsSensitive(path) == Range(path) \cap Sensitive # {}
Refused(tasks) ==
  \E task \in Range(tasks) : task.type \in {"delete", "move"} /\ IsSensitive(task.path)

\* The first that fails ends it; of one kind the order is the map's.
SolveDiffTask(disk, tasks) ==
  IF Refused(tasks) THEN [ok |-> FALSE, disk |-> disk]
  ELSE FoldLeft(LAMBDA a, task : IF ~a.ok THEN a
                                 ELSE IF Possible(a.disk, task) THEN [a EXCEPT !.disk = Carried(@, task)]
                                 ELSE [a EXCEPT !.ok = FALSE],
                [ok |-> TRUE, disk |-> disk], tasks)

SolveCall(disk, tree, lines) ==
  LET read == BuildNodeFromString(lines)
  IN IF ~read.ok \/ ~CheckNodeFileName(read.nodes) THEN [ok |-> FALSE, disk |-> disk]
     ELSE SolveDiffTask(disk, FoldLeft(LAMBDA s, tasks : s \o SetToSeq(tasks), <<>>,
                                       GenerateDiff(tree, Range(Seen(read.nodes)))))

\* A call of the edit tool on "@tree" by a session that keeps the tree of an earlier disk:
\* lines is what the call makes of the text it is shown.
ShownText(tree, before, now) == BuildString(GlobalTree(tree, before, now))
WriteTree(tree, before, now, lines) ==
  IF ~Complete(now) THEN [ok |-> FALSE, disk |-> now]
  ELSE SolveCall(now, GlobalTree(tree, before, now), lines)
=============================================================================
