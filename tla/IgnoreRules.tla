------------------------------ MODULE IgnoreRules ------------------------------
(***************************************************************************)
(* Which files RunIndex reads: the walk, its own lists and the rules of    *)
(* .gitignore files (src/context/codebase/index.go).  A path is the        *)
(* sequence of its names, a rule the sequence of its names, in which "*"   *)
(* stands for any one name and "**" for any number of them.                *)
(***************************************************************************)
EXTENDS Naturals, Sequences, SequencesExt

CONSTANTS SkipDirs,   \* names of folders left out whatever the rules say
          Private     \* names of files that are never read

\* One line of a .gitignore: its names, ! before it, / after it, / at its head.
Rule(names, negate, dirOnly, rooted) ==
  [names |-> names, negate |-> negate, dirOnly |-> dirOnly, rooted |-> rooted]

HasSlash(rule) == Len(rule.names) > 1

\* filepath.Match: name for name, * any.
Match(names, path) ==
  /\ Len(names) = Len(path)
  /\ \A i \in DOMAIN names : names[i] = "*" \/ names[i] = path[i]

\* A pattern of ** : alone, at the head, in the middle, at the end, in this order.
MatchDoubleStar(names, path) ==
  CASE names = <<"**">> -> TRUE
    [] names[1] = "**" ->
         \/ IsSuffix(Tail(names), path)
         \/ \E i \in DOMAIN path : Match(Tail(names), <<path[i]>>)
    [] \E i \in 2..(Len(names) - 1) : names[i] = "**" ->
         LET i      == CHOOSE j \in 2..(Len(names) - 1) :
                         names[j] = "**" /\ \A k \in 2..(j - 1) : names[k] # "**"
             prefix == SubSeq(names, 1, i - 1)
             suffix == SubSeq(names, i + 1, Len(names))
         IN  /\ IsStrictPrefix(prefix, path)
             /\ LET tail == SubSeq(path, i, Len(path))
                IN  IsSuffix(suffix, tail) \/ Match(suffix, <<Last(tail)>>)
    [] OTHER -> IsPrefix(Front(names), path)

\* One rule against a path from the root of the index.
MatchPattern(rule, path) ==
  IF "**" \in ToSet(rule.names) THEN MatchDoubleStar(rule.names, path)
  ELSE IF rule.rooted THEN IsPrefix(rule.names, path) \/ Match(rule.names, path)
  ELSE IF HasSlash(rule) THEN Match(rule.names, path) \/ IsSuffix(rule.names, path)
  ELSE \E i \in DOMAIN path : Match(rule.names, <<path[i]>>)

\* All the rules of a folder: one that takes back ends the search.
MatchGitignore(rules, path, isDir) ==
  LET hits == {i \in DOMAIN rules : (rules[i].dirOnly => isDir) /\ MatchPattern(rules[i], path)}
  IN  hits # {} /\ \A i \in hits : ~rules[i].negate

\* Mutant of GetRules: the rules of the root alone.
RootRules(ignore, dir) == ignore[<<>>]

\* getRules: those of the folders above, then its own.
GetRules(ignore, dir) ==
  FlattenSeq([i \in 1..(Len(dir) + 1) |->
                LET d == SubSeq(dir, 1, i - 1) IN IF d \in DOMAIN ignore THEN ignore[d] ELSE <<>>])

\* The walk goes into a folder, and reads a file in a folder it goes into.
Entered(ignore, dir) ==
  \A n \in 1..Len(dir) :
    /\ dir[n] \notin SkipDirs
    /\ ~MatchGitignore(GetRules(ignore, SubSeq(dir, 1, n)), SubSeq(dir, 1, n), TRUE)

Scanned(ignore, file) ==
  /\ Entered(ignore, Front(file))
  /\ Last(file) \notin Private
  /\ ~MatchGitignore(GetRules(ignore, Front(file)), file, FALSE)

----------------------------------------------------------------------------
(* What git does with rules that take nothing back. *)

RECURSIVE Glob(_, _)
Glob(names, path) ==
  CASE names = <<>> -> path = <<>>
    [] names = <<"**">> -> path # <<>>
    [] Head(names) = "**" -> \E n \in 0..Len(path) : Glob(Tail(names), SubSeq(path, n + 1, Len(path)))
    [] OTHER -> /\ path # <<>>
                /\ Match(<<Head(names)>>, <<Head(path)>>)
                /\ Glob(Tail(names), Tail(path))

\* A rule without a slash matches at any depth, another from the folder it is written in.
\* What is in an ignored folder is ignored.
GitIgnores(dir, rule, file) ==
  LET path     == SubSeq(file, Len(dir) + 1, Len(file))
      anywhere == ~rule.rooted /\ ~HasSlash(rule)
  IN  /\ IsStrictPrefix(dir, file)
      /\ \E n \in 1..Len(path) :
           /\ rule.dirOnly => n < Len(path)
           /\ Glob(IF anywhere THEN <<"**">> \o rule.names ELSE rule.names, SubSeq(path, 1, n))

Ignored(ignore, file) ==
  \E dir \in DOMAIN ignore : \E i \in DOMAIN ignore[dir] : GitIgnores(dir, ignore[dir][i], file)
=============================================================================
