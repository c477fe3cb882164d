------------------------------ MODULE Presence ------------------------------
(***************************************************************************)
(* Which fragments of the search pattern a file contains: need is what     *)
(* PatternLiterals makes of the pattern, and a row of the cache is the set *)
(* of fragments found.  A file that is never whole in memory is scanned    *)
(* piece by piece, with a seam: the last need.len - 1 characters scanned   *)
(* so far.                                                                 *)
(***************************************************************************)
EXTENDS PatternLiterals

CONSTANT Span   \* DECODE_SPAN, in characters

ASSUME SpanAssumption == Span \in Nat

\* scan_fragments: what one call finds in a piece.
Scan(text, need) ==
  Words(IF need.fold THEN Lowered(text) ELSE text, need.len) \cap need.frags

\* Mutant: a short piece is added to the seam without cutting it.
NewSeamUncut(seam, piece, keep) ==
  IF Len(piece) >= keep THEN LastOf(piece, keep) ELSE seam \o piece

\* The seam after a piece.
NewSeam(seam, piece, keep) ==
  IF Len(piece) >= keep THEN LastOf(piece, keep) ELSE LastOf(seam \o piece, keep)

\* Mutant: the join of seam and piece is not scanned.
FeedPieceOnly(acc, piece, need) ==
  [row |-> acc.row \cup Scan(piece, need), seam |-> NewSeam(acc.seam, piece, need.len - 1)]

\* check_fragment_presence_in_seam: scan the piece, then the join of the seam
\* and the head of the piece.
Feed(acc, piece, need) ==
  IF piece = <<>> THEN acc
  ELSE [row  |-> acc.row \cup Scan(piece, need)
                   \cup (IF acc.seam # <<>>
                         THEN Scan(acc.seam \o FirstOf(piece, need.len - 1), need) ELSE {}),
        seam |-> NewSeam(acc.seam, piece, need.len - 1)]

\* presence_wide decodes a long text in spans that end at a newline.
SpanEnd(text, pos, nl) ==
  LET ends == {p \in DOMAIN text : p >= pos + Span /\ text[p] = nl} \cup {Len(text)}
  IN  IF Len(text) + 1 - pos <= Span THEN Len(text)
      ELSE CHOOSE p \in ends : \A q \in ends : p <= q

FeedWide(acc, text, nl, need) ==
  LET walk == FoldLeft(LAMBDA s, p :
                         IF p < s.pos THEN s
                         ELSE LET end == SpanEnd(text, p, nl)
                              IN  [pos |-> end + 1,
                                   acc |-> Feed(s.acc, SubSeq(text, p, end), need)],
                       [pos |-> 1, acc |-> acc], [p \in DOMAIN text |-> p])
  IN  walk.acc
=============================================================================
