-------------------------------- MODULE Chars -------------------------------
(***************************************************************************)
(* The characters of a file that the search treats in a way of their own.  *)
(* A text is a sequence of characters: bytes, or, in a file that begins    *)
(* with a byte order mark, the code units of its encoding.                 *)
(***************************************************************************)
EXTENDS Naturals, Sequences

CONSTANTS NL,        \* the newline
          BOM,       \* a byte order mark
          Nul,       \* the zero byte, which makes a file binary
          WordChars, \* letters and digits, as \w has them
          LowerOf,   \* to every capital letter its small one
          Kin        \* to a character that is not ASCII the ASCII letter it folds to

ASSUME CharsAssumption == NL # BOM /\ BOM # Nul /\ Nul # NL

\* The first and the last n characters of a text, or all of it.
FirstOf(text, n) == SubSeq(text, 1, IF Len(text) <= n THEN Len(text) ELSE n)
LastOf(text, n) == SubSeq(text, IF Len(text) <= n THEN 1 ELSE Len(text) - n + 1, Len(text))

\* Case: to_ascii_lowercase, the two forms of an ASCII letter, and all forms
\* that Unicode's simple case folding takes for the same.
Lower(c) == IF c \in DOMAIN LowerOf THEN LowerOf[c] ELSE c
Lowered(text) == [k \in DOMAIN text |-> Lower(text[k])]
IsAscii(text) == \A k \in DOMAIN text : text[k] \notin DOMAIN Kin

Base(c) == IF c \in DOMAIN Kin THEN Kin[c] ELSE Lower(c)
Cases(c) == {c} \cup {d \in WordChars : Lower(d) = Lower(c)}
Orbit(c) == {c} \cup {d \in WordChars : Base(d) = Base(c)}
=============================================================================
