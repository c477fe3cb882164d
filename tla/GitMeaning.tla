----------------------------- MODULE GitMeaning -----------------------------
(***************************************************************************)
(* What a .gitignore line means, said without an algorithm: the reference  *)
(* the matcher of Gitignore is compared with.  Lines, paths and names are  *)
(* sequences of characters, as there.                                      *)
(***************************************************************************)
EXTENDS Naturals, Sequences

Slash == "/"
Stars == <<"*", "*">>

SlashIn(s) == \E p \in DOMAIN s : s[p] = Slash

\* A component "**" that starts at i.
WholeStars(pat, i) == /\ i < Len(pat) /\ SubSeq(pat, i, i + 1) = Stars
                      /\ i = 1 \/ pat[i - 1] = Slash
                      /\ i + 1 = Len(pat) \/ pat[i + 2] = Slash

\* "**/" stands for any number of directories, "**" at the end for whatever
\* is inside; any other star and "?" stay inside a component.
Fnmatch(pat, text) ==
  LET m[i \in Nat, j \in Nat] ==
        IF i > Len(pat) THEN j > Len(text)
        ELSE IF WholeStars(pat, i)
        THEN \/ i + 1 = Len(pat)
             \/ m[i + 3, j]
             \/ \E q \in j..Len(text) : text[q] = Slash /\ m[i + 3, q + 1]
        ELSE IF pat[i] = "*"
        THEN \E k \in j..(Len(text) + 1) : ~ SlashIn(SubSeq(text, j, k - 1)) /\ m[i + 1, k]
        ELSE /\ j <= Len(text)
             /\ pat[i] = text[j] \/ (pat[i] = "?" /\ text[j] # Slash)
             /\ m[i + 1, j + 1]
  IN  m[1, 1]

\* The parts of a line: whether it negates, whether it is for directories
\* only, its pattern, and whether a slash ties it to its own directory.
Negates(line) == line # <<>> /\ line[1] = "!"
Positive(line) == IF Negates(line) THEN Tail(line) ELSE line
ForDirs(line) == Positive(line) # <<>> /\ Positive(line)[Len(Positive(line))] = Slash

Pattern(line) ==
  LET body == Positive(line)
      keep == {p \in DOMAIN body : body[p] # Slash} \cup {0}
  IN  SubSeq(body, 1, CHOOSE p \in keep : \A q \in keep : q <= p)

Tied(line) == SlashIn(Pattern(line))

BaseName(path) ==
  LET cut == {p \in DOMAIN path : path[p] = Slash} \cup {0}
  IN  SubSeq(path, (CHOOSE p \in cut : \A q \in cut : q <= p) + 1, Len(path))

LineMatches(line, path, isDir) ==
  LET pat == Pattern(line)
  IN  /\ pat # <<>>
      /\ ForDirs(line) => isDir
      /\ IF ~ Tied(line) THEN Fnmatch(pat, BaseName(path))
         ELSE Fnmatch(IF pat[1] = Slash THEN Tail(pat) ELSE pat, path)

(***************************************************************************)
(* ignores is the sequence of .gitignore files from the root down, each    *)
(* with the length of its directory's path and its lines.  The last line   *)
(* that matches decides.                                                   *)
(***************************************************************************)
Below(path, prefix) == IF prefix = 0 THEN path ELSE SubSeq(path, prefix + 2, Len(path))

GitIgnored(ignores, path, isDir) ==
  LET hits == UNION {{<<f, l>> : l \in {k \in DOMAIN ignores[f].lines :
                LineMatches(ignores[f].lines[k], Below(path, ignores[f].prefix), isDir)}} :
                f \in DOMAIN ignores}
      after(x, y) == x[1] > y[1] \/ (x[1] = y[1] /\ x[2] >= y[2])
      last == CHOOSE x \in hits : \A y \in hits : after(x, y)
  IN  hits # {} /\ ~ Negates(ignores[last[1]].lines[last[2]])
=============================================================================
