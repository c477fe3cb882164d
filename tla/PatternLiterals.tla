--------------------------- MODULE PatternLiterals --------------------------
(***************************************************************************)
(* What every match of a pattern contains.  A pattern is the tree that the *)
(* regex parser makes of it, written as a sequence of nodes, a node's      *)
(* children before the node, the root last:                                *)
(*   class   one of chars; a class of one character is a literal           *)
(*   empty   the empty text                                                *)
(*   repeat  the node sub, from min to max times                           *)
(*   group   the node sub, captured                                        *)
(*   concat, alt   the nodes subs, one after the other or one of them      *)
(* Of the assertions only the word boundaries of -w are considered.        *)
(***************************************************************************)
EXTENDS Chars, Naturals, FiniteSets, Sequences, SequencesExt

CONSTANTS MinFrag,        \* MIN_FRAGMENT_LEN
          MaxFrag,        \* the longest fragment
          MinCommon,      \* MIN_ALTERNATION_SUBSTRING
          MaxCandidates,  \* MAX_ALTERNATION_CANDIDATES
          MaxRepeat,      \* MAX_REPEATED_LITERAL_BYTES
          MaxPatterns     \* MAX_MULTI_LITERAL_PATTERNS

ASSUME FragAssumption == /\ MinFrag \in Nat \ {0, 1} /\ MaxFrag \in Nat
                         /\ MinFrag <= MaxFrag
ASSUME LimitsAssumption == /\ MinCommon \in Nat \ {0} /\ MaxCandidates \in Nat
                           /\ MaxRepeat \in Nat /\ MaxPatterns \in Nat

\* Every node of a pattern in turn; of(n, done) is what the node makes of what
\* its children have made.
Bottom(pat, of(_, _)) == FoldLeft(LAMBDA done, n : Append(done, of(n, done)), <<>>, pat)

\* With -i a class holds all forms of its characters.
Matched(n, fold) == IF fold THEN UNION {Orbit(c) : c \in n.chars} ELSE n.chars

-----------------------------------------------------------------------------
(* The texts a pattern matches.                                            *)

Joined(left, right) == {u \o v : u \in left, v \in right}
Times(words, k) == FoldLeft(LAMBDA acc, i : Joined(acc, words), {<<>>}, [i \in 1..k |-> i])

\* forms(c) is what the matcher takes for the character c.
Language(pat, forms(_)) ==
  LET of(n, done) ==
        CASE n.op = "class"  -> {<<d>> : d \in UNION {forms(c) : c \in n.chars}}
          [] n.op = "empty"  -> {<<>>}
          [] n.op = "repeat" -> UNION {Times(done[n.sub], k) : k \in n.min..n.max}
          [] n.op = "group"  -> done[n.sub]
          [] n.op = "concat" -> FoldLeft(LAMBDA acc, s : Joined(acc, done[s]), {<<>>}, n.subs)
          [] n.op = "alt"    -> UNION {done[s] : s \in Range(n.subs)}
  IN  Last(Bottom(pat, of))

-----------------------------------------------------------------------------
(* Required parts.  A part is a text that every match contains, in lower   *)
(* case and to be compared so when fold is set.                            *)

Part(text, fold) == [text |-> text, fold |-> fold]
Glued(parts) == Part(FlattenSeq([k \in DOMAIN parts |-> parts[k].text]),
                     \E k \in DOMAIN parts : parts[k].fold)

\* A class of one character, or of the two forms of an ASCII letter.
ClassPart(chars) ==
  {Part(<<c>>, FALSE) : c \in {c \in chars : chars = {c}}}
    \cup {Part(<<LowerOf[c]>>, TRUE) : c \in {c \in DOMAIN LowerOf : chars = {c, LowerOf[c]}}}

\* literal_part_bytes: a node that is one literal run; the empty set when it is
\* none.
UnitsOf(pat, fold) ==
  LET of(n, done) ==
        CASE n.op = "class"  -> ClassPart(Matched(n, fold))
          [] n.op = "group"  -> done[n.sub]
          [] n.op = "concat" ->
               IF \E s \in Range(n.subs) : done[s] = {} THEN {}
               ELSE {Glued([k \in DOMAIN n.subs |-> CHOOSE u \in done[n.subs[k]] : TRUE])}
          [] OTHER -> {}
  IN  Bottom(pat, of)

\* repeat_bytes: as many copies as fit the limit, but one.
Repeated(unit, min) ==
  LET fit    == MaxRepeat \div Len(unit.text)
      copies == IF min <= fit THEN min ELSE IF fit = 0 THEN 1 ELSE fit
  IN  IF unit.text = <<>> THEN unit
      ELSE [unit EXCEPT !.text = FlattenSeq([k \in 1..copies |-> unit.text])]

\* Mutant: a run of literals goes on behind a node that is none.
ConcatPartsUnbroken(subs, units, parts) ==
  LET walk == FoldLeft(LAMBDA acc, s :
                IF units[s] # {}
                THEN [acc EXCEPT !.run = Append(@, CHOOSE u \in units[s] : TRUE)]
                ELSE [acc EXCEPT !.parts = @ \o parts[s]],
                [run |-> <<>>, parts |-> <<>>], subs)
  IN  IF walk.run = <<>> THEN walk.parts ELSE Append(walk.parts, Glued(walk.run))

\* concat_literal_parts: literals next to each other make one part.
Flushed(acc) == IF Glued(acc.run).text = <<>> THEN acc.parts
                ELSE Append(acc.parts, Glued(acc.run))

ConcatParts(subs, units, parts) ==
  Flushed(FoldLeft(LAMBDA acc, s :
            IF units[s] # {}
            THEN [acc EXCEPT !.run = Append(@, CHOOSE u \in units[s] : TRUE)]
            ELSE [run |-> <<>>, parts |-> Flushed(acc) \o parts[s]],
            [run |-> <<>>, parts |-> <<>>], subs))

\* common_substrings: those that cannot be made longer.
SameBack(a, b, i, j) ==
  CHOOSE k \in 0..i : /\ k <= j /\ \A d \in 0..(k - 1) : a[i - d] = b[j - d]
                      /\ k = i \/ k = j \/ a[i - k] # b[j - k]

CommonSubstrings(a, b) ==
  {SubSeq(a, e[1] - SameBack(a, b, e[1], e[2]) + 1, e[1]) :
     e \in {e \in (DOMAIN a) \X (DOMAIN b) :
              /\ SameBack(a, b, e[1], e[2]) >= MinCommon
              /\ e[1] < Len(a) /\ e[2] < Len(b) => a[e[1] + 1] # b[e[2] + 1]}}

\* What two branches have in common; parts that are compared differently have
\* nothing.
Common(candidates, parts) ==
  UNION {{Part(text, pair[1].fold) : text \in CommonSubstrings(pair[1].text, pair[2].text)} :
           pair \in {p \in candidates \X parts : p[1].fold = p[2].fold}}

\* The longest candidates, MaxCandidates of them.
Kept(candidates) ==
  IF Cardinality(candidates) <= MaxCandidates THEN candidates
  ELSE CHOOSE few \in SUBSET candidates :
         /\ Cardinality(few) = MaxCandidates
         /\ \A c \in few, d \in candidates \ few : Len(c.text) >= Len(d.text)

\* alternation_literal_parts: branch after branch, what they share.
AltParts(subs, parts) ==
  IF Len(subs) = 1 THEN parts[subs[1]]
  ELSE SetToSeq(FoldLeft(LAMBDA acc, s : Kept(Common(acc, Range(parts[s]))),
                         Range(parts[subs[1]]), Tail(subs)))

\* required_literal_parts.
PartsWith(pat, fold, units) ==
  LET of(n, done) ==
        CASE n.op = "class"  -> SetToSeq(ClassPart(Matched(n, fold)))
          [] n.op = "empty"  -> <<>>
          [] n.op = "repeat" -> IF n.min = 0 THEN <<>>
                                ELSE IF units[n.sub] # {}
                                THEN <<Repeated(CHOOSE u \in units[n.sub] : TRUE, n.min)>>
                                ELSE done[n.sub]
          [] n.op = "group"  -> done[n.sub]
          [] n.op = "concat" -> ConcatParts(n.subs, units, done)
          [] n.op = "alt"    -> AltParts(n.subs, done)
  IN  Last(Bottom(pat, of))

RequiredParts(pat, fold) == PartsWith(pat, fold, UnitsOf(pat, fold))

-----------------------------------------------------------------------------
(* Which matcher a pattern gets, and what is looked for in a file before   *)
(* it is searched: need.frags, words of need.len characters; with          *)
(* need.fold they are compared in lower case; when need.single is set a    *)
(* file that matches has them all.                                         *)

\* literal_bytes, as_exact_alternation: the pattern is one text, or one of a
\* few.  Texts are those of units that are compared exactly.
Root(pat) == FoldLeft(LAMBDA i, k : IF pat[i].op = "group" THEN pat[i].sub ELSE i, Len(pat), pat)
TextsOf(units) == {u.text : u \in {u \in units : ~ u.fold}}

ExactlyFrom(pat, root, units) ==
  IF TextsOf(units[Len(pat)]) # {}
  THEN [count |-> 1, one |-> TRUE, texts |-> TextsOf(units[Len(pat)])]
  ELSE IF root.op = "alt" /\ \A s \in Range(root.subs) : TextsOf(units[s]) # {}
  THEN [count |-> Len(root.subs), one |-> FALSE,
        texts |-> UNION {TextsOf(units[s]) : s \in Range(root.subs)}]
  ELSE [count |-> 0, one |-> FALSE, texts |-> {}]

Exactly(pat) == ExactlyFrom(pat, pat[Root(pat)], UnitsOf(pat, FALSE))

\* Matcher::new.
Kind(exact, ignoreCase, word) ==
  IF \/ word \/ exact.texts = {} \/ exact.count > MaxPatterns
     \/ ignoreCase /\ \E text \in exact.texts : ~ IsAscii(text)
  THEN "regex"
  ELSE IF exact.one /\ ~ ignoreCase THEN "literal" ELSE "multi"

Words(text, len) == {SubSeq(text, p, p + len - 1) : p \in 1..(Len(text) + 1 - len)}

\* select_fragment_len: the fragments are no longer than the shortest text, and
\* there are none when that is too short to tell files apart.
Need(texts, fold, single) ==
  LET shortest == CHOOSE n \in {Len(t) : t \in texts} : \A t \in texts : n <= Len(t)
      len      == IF shortest < MaxFrag THEN shortest ELSE MaxFrag
  IN  IF texts = {} \/ shortest < MinFrag
      THEN [frags |-> {}, len |-> MaxFrag, fold |-> fold, single |-> TRUE]
      ELSE [frags |-> UNION {Words(t, len) : t \in texts}, len |-> len,
            fold |-> fold, single |-> single]

\* extract_regex_literals: too short parts are dropped.
RegexNeed(parts, ignoreCase) ==
  LET fold == \E k \in DOMAIN parts : parts[k].fold
      long == SelectSeq(parts, LAMBDA p : Len(p.text) >= MinFrag)
  IN  IF long = <<>> THEN Need({}, ignoreCase, TRUE)
      ELSE Need({IF fold THEN Lowered(p.text) ELSE p.text : p \in Range(long)},
                fold, Len(long) = 1)

\* extract_fragment_hashes.
NeedOf(pat, kind, exact, ignoreCase) ==
  IF kind = "regex" THEN RegexNeed(RequiredParts(pat, ignoreCase), ignoreCase)
  ELSE Need({IF ignoreCase THEN Lowered(t) ELSE t : t \in exact.texts},
            ignoreCase, kind = "literal")

\* A pattern as it is searched for.
Forms(c, kind, ignoreCase) ==
  IF ~ ignoreCase THEN {c} ELSE IF kind = "regex" THEN Orbit(c) ELSE Cases(c)

CompiledAs(pat, kind, exact, ignoreCase, word) ==
  [kind |-> kind,
   find |-> [words |-> Language(pat, LAMBDA c : Forms(c, kind, ignoreCase)), whole |-> word],
   need |-> NeedOf(pat, kind, exact, ignoreCase)]

Compiled(pat, ignoreCase, word) ==
  LET exact == Exactly(pat)
  IN  CompiledAs(pat, Kind(exact, ignoreCase, word), exact, ignoreCase, word)
=============================================================================
