------------------------------ MODULE SearchTool ------------------------------
(***************************************************************************)
(* The search tool on the workspace (tools/tools/search): what it takes    *)
(* the query for, which lines of which files it shows, and what it adds of *)
(* the code base's index.                                                  *)
(*                                                                         *)
(* Paths and rules are as in IgnoreRules, but the tool has a matcher of    *)
(* its own and reads the .gitignore of the folder it searches alone.  A    *)
(* file is [path, lines], a query and a line sequences of characters.      *)
(* Character classes are left out; what a raw regular expression finds is  *)
(* an input, as it is what Go's regexp says.                               *)
(***************************************************************************)
EXTENDS Integers, Sequences, FiniteSets, FiniteSetsExt, SequencesExt

CONSTANTS DirBlacklists,  \* names that are never entered or read
          BinaryExts      \* names of files that are taken for binary

One(name, part) == name = "*" \/ name = part

Match(names, path) == Len(names) = Len(path) /\ \A i \in DOMAIN names : One(names[i], path[i])

\* Mutant of MatchDoubleStar: ** stands for one name, as filepath.Match would have it.
MatchStar(names, path) ==
  Match([i \in DOMAIN names |-> IF names[i] = "**" THEN "*" ELSE names[i]], path)

\* The names between the ** in this order somewhere in the path.
MatchDoubleStar(names, path) ==
  LET segments == SelectSeq(names, LAMBDA n : n # "**")
      met(n, part) == IF n < Len(segments) /\ One(segments[n + 1], part) THEN n + 1 ELSE n
  IN  FoldLeft(met, 0, path) = Len(segments)

\* A bare name fits any part, a rooted pattern the whole path, another any end of it.
MatchPattern(rule, path) ==
  CASE "**" \in ToSet(rule.names) -> MatchDoubleStar(rule.names, path)
    [] rule.rooted -> Match(rule.names, path)
    [] Len(rule.names) = 1 -> \E i \in DOMAIN path : One(rule.names[1], path[i])
    [] OTHER -> \E i \in DOMAIN path : Match(rule.names, SubSeq(path, i, Len(path)))

MatchGitignore(rules, path, isDir) ==
  LET hits == {i \in DOMAIN rules : (rules[i].dirOnly => isDir) /\ MatchPattern(rules[i], path)}
  IN  hits # {} /\ \A i \in hits : ~rules[i].negate

\* What aiGrep's walk reads; rules are none when ignored files are asked for.
Searched(rules, recursive, path) ==
  /\ recursive \/ Len(path) = 1
  /\ Last(path) \notin BinaryExts
  /\ \A n \in DOMAIN path :
       /\ path[n] \notin DirBlacklists
       /\ ~MatchGitignore(rules, SubSeq(path, 1, n), n < Len(path))

-----------------------------------------------------------------------------
(* The query *)

Letters == {"a", "b", "i"}

\* /pattern/flags: the last slash ends the pattern, only letters follow.
ParseDelimitedRegex(query) ==
  LET last == Max({0} \cup {i \in DOMAIN query : query[i] = "/"})
  IN  IF last > 2 /\ query[1] = "/" /\ ToSet(SubSeq(query, last + 1, Len(query))) \subseteq Letters
      THEN SubSeq(query, 2, last - 1) ELSE <<>>

IsGrepExpr(query) == ToSet(query) \cap {"*", "?"} # {}

\* Mutant of WildcardToRegex: a dot is not quoted.
WildcardUnquoted(query) ==
  [i \in DOMAIN query |-> CASE query[i] = "*" -> "many" [] query[i] \in {"?", "."} -> "one" [] OTHER -> query[i]]

\* * becomes "many", ? "one", and all else stands for itself.
WildcardToRegex(query) ==
  [i \in DOMAIN query |-> CASE query[i] = "*" -> "many" [] query[i] = "?" -> "one" [] OTHER -> query[i]]

\* regexp's MatchString: the states the expression can be in after each character of the
\* line; it may begin and end anywhere.
MatchString(re, line) ==
  LET free(S) == S \cup {j \in DOMAIN re : \E i \in S : i < j /\ \A k \in (i + 1)..j : re[k] = "many"}
      next(S, c) ==
        free({0} \cup {i \in S : i = Len(re) \/ (i < Len(re) /\ re[i + 1] = "many")}
                 \cup {i + 1 : i \in {k \in S : k < Len(re) /\ re[k + 1] \in {c, "one"}}})
  IN  Len(re) \in FoldLeft(next, free({0}), line)

HasText(line, text) == \E i \in 1..(Len(line) - Len(text) + 1) : SubSeq(line, i, i + Len(text) - 1) = text

\* How the lines are judged, and the shares of the answer.  An expression that does not
\* compile leaves the query a text like any other.
Plan(query, raw, maxResults) ==
  LET kind == CASE ParseDelimitedRegex(query) # <<>> -> IF raw.compiles THEN "raw" ELSE "text"
                [] IsGrepExpr(query) -> "wild"
                [] OTHER -> "text"
      grepMax == Max({(maxResults * 4) \div 5, 1})
  IN  IF kind = "text" THEN [kind |-> kind, grep |-> maxResults, context |-> maxResults]
      ELSE [kind |-> kind, grep |-> grepMax, context |-> Max({maxResults - grepMax, 1})]

Hit(kind, query, raw, line) ==
  CASE kind = "text" -> HasText(line, query)
    [] kind = "wild" -> MatchString(WildcardToRegex(query), line)
    [] kind = "raw"  -> line \in raw.finds

-----------------------------------------------------------------------------
(* The answer *)

\* grepFile stops at the line that fills its share.
GrepFile(file, kind, query, raw, share) ==
  LET hits == SelectSeq([n \in DOMAIN file.lines |-> [path |-> file.path, line |-> n]],
                        LAMBDA h : Hit(kind, query, raw, file.lines[h.line]))
  IN  SubSeq(hits, 1, Min({Len(hits), share}))

\* aiGrep: file after file in the order of the walk, until the share is full.
AiGrep(files, kind, query, raw, share) ==
  LET add(found, file) == IF Len(found) >= share THEN found
                          ELSE found \o GrepFile(file, kind, query, raw, share - Len(found))
  IN  FoldLeft(add, <<>>, files)

\* contextSearch: what is of old chats and temporary files comes last, three at the most.
ContextSearch(hits) ==
  LET tagged == SelectSeq(hits, LAMBDA h : h.tagged)
  IN  SelectSeq(hits, LAMBDA h : ~h.tagged) \o SubSeq(tagged, 1, Min({Len(tagged), 3}))

\* runSearch; index gives as many as it is asked for, none when it fails.
RunSearch(files, rules, recursive, query, raw, maxResults, index) ==
  LET plan == Plan(query, raw, maxResults)
      read == SelectSeq(files, LAMBDA f : Searched(rules, recursive, f.path))
  IN  [grep    |-> AiGrep(read, plan.kind, query, raw, plan.grep),
       context |-> ContextSearch(SubSeq(index, 1, Min({Len(index), plan.context})))]
=============================================================================
