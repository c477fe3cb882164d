----------------------------- MODULE Gitignore ------------------------------
(***************************************************************************)
(* Deciding from .gitignore files whether a path is ignored.  A line, a    *)
(* pattern, a path and a file name are sequences of characters; Sep is the *)
(* separator of path components.  Character classes and the trimming of    *)
(* blanks are left out.                                                    *)
(***************************************************************************)
EXTENDS Naturals, Sequences, FiniteSets, SequencesExt

Sep == "/"
Wild == {"*", "?"}

From(s, p) == SubSeq(s, p, Len(s))
Upto(s, p) == SubSeq(s, 1, p)
Has(s, chars) == \E p \in DOMAIN s : s[p] \in chars
Seps(s) == {p \in DOMAIN s : s[p] = Sep}
EndsWith(s, tail) == IsSuffix(tail, s)

\* What follows the last separator.
FileName(path) ==
  LET last == CHOOSE p \in Seps(path) \cup {0} : \A q \in Seps(path) : q <= p
  IN  From(path, last + 1)

\* Stands for an absent optional part of a rule.
Absent == <<"absent">>

-----------------------------------------------------------------------------
(* Parsing a line: Gitignore::from_bytes.                                  *)

\* The pattern without the slashes at its end.
NoTrailingSeps(s) ==
  LET keep == {p \in DOMAIN s : s[p] # Sep} \cup {0}
  IN  Upto(s, CHOOSE p \in keep : \A q \in keep : q <= p)

\* "A/**/B" with B a plain component: where the first "/**/" starts.
MidAt(s) ==
  LET at == {p \in 1..(Len(s) - 3) : SubSeq(s, p, p + 3) = <<Sep, "*", "*", Sep>>}
      p  == CHOOSE p \in at : \A q \in at : p <= q
  IN  IF at = {} \/ From(s, p + 4) = <<>> \/ Has(From(s, p + 4), {Sep}) THEN 0 ELSE p

\* "A/**" with a literal A, or "**" alone: everything inside A.
InsideOf(s) ==
  IF s = <<"*", "*">> THEN <<>>
  ELSE IF Len(s) > 3 /\ EndsWith(s, <<Sep, "*", "*">>) /\ ~ Has(Upto(s, Len(s) - 3), Wild)
  THEN Upto(s, Len(s) - 3) ELSE Absent

\* The leading part decides whether a pattern is tied to the file's directory
\* (anchored) and whether it floats to any depth below it.
Leading(s) ==
  IF s[1] = Sep THEN [body |-> Tail(s), anchored |-> TRUE, floats |-> FALSE]
  ELSE IF Len(s) > 3 /\ Upto(s, 3) = <<"*", "*", Sep>>
  THEN LET rest == From(s, 4)
       IN  [body |-> rest, anchored |-> Has(rest, {Sep}), floats |-> Has(rest, {Sep})]
  ELSE [body |-> s, anchored |-> Has(s, {Sep}), floats |-> FALSE]

\* analyze_wildcard: "*.ext" is matched by its suffix, "test*" by its prefix.
SuffixOf(s) == IF Len(s) > 1 /\ s[1] = "*" /\ ~ Has(Tail(s), Wild) THEN Tail(s) ELSE Absent
PrefixOf(s) == IF Len(s) > 1 /\ s[Len(s)] = "*" /\ ~ Has(Upto(s, Len(s) - 1), Wild)
               THEN Upto(s, Len(s) - 1) ELSE Absent

\* The rule of a pattern.  A literal pattern keeps its characters and flags
\* only; that it floats is lost.
RuleOf(lead, mid, body, inside, literal, negated, dirOnly) ==
  LET suffix == IF literal \/ inside # Absent THEN Absent ELSE SuffixOf(body)
  IN  [literal |-> literal, body |-> body, negated |-> negated, dirOnly |-> dirOnly,
       anchored |-> lead.anchored, floats |-> lead.floats /\ ~ literal,
       mid |-> IF mid # 0 THEN Upto(lead.body, mid - 1) ELSE Absent,
       inside |-> inside, suffix |-> suffix,
       prefix |-> IF literal \/ inside # Absent \/ suffix # Absent THEN Absent
                  ELSE PrefixOf(body)]

RuleAfter(lead, mid, body, negated, dirOnly) ==
  RuleOf(lead, mid, body, IF lead.anchored /\ mid = 0 THEN InsideOf(body) ELSE Absent,
         mid = 0 /\ ~ Has(body, Wild), negated, dirOnly)

RuleFrom(lead, mid, negated, dirOnly) ==
  RuleAfter(lead, mid, From(lead.body, IF mid # 0 THEN mid + 4 ELSE 1), negated, dirOnly)

Rule(lead, negated, dirOnly) ==
  RuleFrom(lead, IF lead.anchored THEN MidAt(lead.body) ELSE 0, negated, dirOnly)

\* The rules of one line: one, or none for a line without a pattern.
RulesOf(pattern, body, negated) ==
  IF body \in {<<>>, <<Sep>>} THEN <<>>
  ELSE <<Rule(Leading(body), negated, pattern[Len(pattern)] = Sep)>>

ParseLine(line) ==
  LET negated == line # <<>> /\ line[1] = "!"
      pattern == IF negated THEN Tail(line) ELSE line
  IN  RulesOf(pattern, NoTrailingSeps(pattern), negated)

Parse(lines) == FlattenSeq([i \in DOMAIN lines |-> ParseLine(lines[i])])

-----------------------------------------------------------------------------
(* glob_match: one pass over the text that remembers the last run of stars *)
(* and comes back to it.                                                   *)

Start(p, t) == [p |-> p, t |-> t, star |-> 0, m |-> 0, cross |-> FALSE]

\* The last star of the run that starts at p.
RunEnd(pat, p) ==
  CHOOSE e \in p..Len(pat) : /\ \A q \in p..e : pat[q] = "*"
                             /\ e = Len(pat) \/ pat[e + 1] # "*"

\* "**" as a component of its own crosses separators.
Crosses(pat, p, e) == /\ e = p + 1
                      /\ p = 1 \/ pat[p - 1] = Sep
                      /\ e = Len(pat) \/ pat[e + 1] = Sep

Fits(pat, text, s, anchored) ==
  /\ s.p <= Len(pat)
  /\ IF pat[s.p] = "?" THEN ~ (anchored /\ text[s.t] = Sep) ELSE pat[s.p] = text[s.t]

\* The next place at which the character after the stars occurs.
Resume(pat, text, s, anchored) ==
  LET lit == pat[s.star + 1]
      at  == {q \in (s.m + 1)..Len(text) :
                /\ text[q] = lit
                /\ anchored /\ ~ s.cross /\ lit # Sep => ~ Has(SubSeq(text, s.m + 1, q), {Sep})}
  IN  IF at = {} THEN 0 ELSE CHOOSE q \in at : \A r \in at : q <= r

States == [p : Nat, t : Nat, star : Nat, m : Nat, cross : BOOLEAN]

GlobMatch(pat, text, anchored) ==
  LET run[s \in States] ==
        IF s.t > Len(text) THEN \A q \in s.p..Len(pat) : pat[q] = "*"
        ELSE IF s.p <= Len(pat) /\ pat[s.p] = "*" THEN
          LET e == RunEnd(pat, s.p)
              x == Crosses(pat, s.p, e)
          IN  IF x /\ e < Len(pat)
              THEN \E t \in {s.t} \cup {q + 1 : q \in {r \in Seps(text) : r >= s.t}} :
                     run[Start(e + 2, t)]
              ELSE run[[s EXCEPT !.p = e + 1, !.star = e, !.m = s.t, !.cross = x]]
        ELSE IF Fits(pat, text, s, anchored) THEN run[[s EXCEPT !.p = @ + 1, !.t = @ + 1]]
        ELSE IF s.star = 0 THEN FALSE
        ELSE IF s.star < Len(pat) /\ pat[s.star + 1] \notin Wild THEN
          LET q == Resume(pat, text, s, anchored)
          IN  q # 0 /\ run[[s EXCEPT !.p = s.star + 1, !.t = q, !.m = q]]
        ELSE /\ ~ (anchored /\ ~ s.cross /\ text[s.t] = Sep)
             /\ run[[s EXCEPT !.p = s.star + 1, !.t = s.m + 1, !.m = @ + 1]]
  IN  run[Start(1, 1)]

-----------------------------------------------------------------------------
(* Matching a rule.                                                        *)

\* match_wildcard_tail: the fast paths for a suffix and a prefix.
MatchTail(rule, text, anchored) ==
  LET clear(middle) == anchored => ~ Has(middle, {Sep})
  IN  IF rule.suffix # Absent
      THEN EndsWith(text, rule.suffix) /\ clear(Upto(text, Len(text) - Len(rule.suffix)))
      ELSE IF rule.prefix # Absent
      THEN IsPrefix(rule.prefix, text) /\ clear(From(text, Len(rule.prefix) + 1))
      ELSE GlobMatch(rule.body, text, anchored)

\* text lies strictly inside the directory dir.
IsInside(dir, text) == Len(text) > Len(dir) /\ IsPrefix(dir, text) /\ text[Len(dir) + 1] = Sep

MatchAt(rule, text) ==
  IF rule.inside # Absent
  THEN IF rule.inside = <<>> THEN text # <<>> ELSE IsInside(rule.inside, text)
  ELSE /\ rule.mid # Absent => IsInside(rule.mid, text)
       /\ MatchTail(rule, IF rule.mid # Absent THEN FileName(text) ELSE text,
                    rule.mid = Absent /\ rule.anchored)

\* A floating rule is tried at every component.
MatchWildcard(rule, text) ==
  \E p \in {0} \cup (IF rule.floats THEN Seps(text) ELSE {}) :
     MatchAt(rule, From(text, p + 1))

Applies(rule, path, isDir) ==
  /\ rule.dirOnly => isDir
  /\ LET text == IF rule.anchored THEN path ELSE FileName(path)
     IN  IF rule.literal THEN rule.body = text ELSE MatchWildcard(rule, text)

-----------------------------------------------------------------------------
(* One file's rules, and the chain of files from the root down.            *)

HasNegations(rules) == \E i \in DOMAIN rules : rules[i].negated

\* Mutant: the first rule that applies decides.
OrderedFirst(rules, path, isDir) ==
  FoldLeft(LAMBDA v, r : IF v = "none" /\ Applies(r, path, isDir)
                         THEN IF r.negated THEN "negated" ELSE "ignored" ELSE v,
           "none", rules)

\* Rules in order: the last one that applies decides.
Ordered(rules, path, isDir) ==
  FoldLeft(LAMBDA v, r : IF Applies(r, path, isDir)
                         THEN IF r.negated THEN "negated" ELSE "ignored" ELSE v,
           "none", rules)

\* Without negations the order is given up: any rule that applies decides.
Unordered(rules, path, isDir) ==
  IF \E i \in DOMAIN rules : Applies(rules[i], path, isDir) THEN "ignored" ELSE "none"

Check(rules, path, isDir) ==
  IF HasNegations(rules) THEN Ordered(rules, path, isDir) ELSE Unordered(rules, path, isDir)

\* An entry of a chain: the depth of the directory that has the file, the
\* length of its path, its rules.
Relative(path, prefix) == IF prefix = 0 THEN path ELSE From(path, prefix + 2)

\* with_gitignore: entries of this depth and below belong to other branches.
WithGitignore(chain, depth, prefix, rules) ==
  Append(SelectSeq(chain, LAMBDA e : e.depth < depth),
         [depth |-> depth, prefix |-> prefix, rules |-> rules])

\* GitignoreChain::is_ignored.
ChainVerdict(chain, verdicts) ==
  IF Len(chain) = 1 \/ \A i \in DOMAIN chain : ~ HasNegations(chain[i].rules)
  THEN \E i \in DOMAIN verdicts : verdicts[i] = "ignored"
  ELSE FoldLeft(LAMBDA v, w : IF w = "none" THEN v ELSE w, "none", verdicts) = "ignored"

ChainIgnores(chain, path, isDir) ==
  ChainVerdict(chain, [i \in DOMAIN chain |->
    Check(chain[i].rules, Relative(path, chain[i].prefix), isDir)])
=============================================================================
