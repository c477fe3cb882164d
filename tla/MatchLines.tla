----------------------------- MODULE MatchLines -----------------------------
(***************************************************************************)
(* Finding the lines that match.  A text is a sequence of characters, NL   *)
(* among them; what is looked for is find.words, non-empty sequences of    *)
(* characters without NL, with find.whole as whole words only.  A          *)
(* character is one code unit of the file's encoding, already decoded;     *)
(* what is printed of a line is its number and its text.                   *)
(*                                                                         *)
(* The code has two ways to find lines.  Text that needs no decoding is    *)
(* searched as a whole, and the lines around the matches are resolved      *)
(* afterwards (PrintRegion); text that has to be decoded is searched line  *)
(* by line (PrintByLine).                                                  *)
(***************************************************************************)
EXTENDS Chars, Naturals, FiniteSets, Sequences, SequencesExt

Newlines(text) == {p \in DOMAIN text : text[p] = NL}

\* One side of the place before p is a word, the other is not.
InWord(text, p) == p \in DOMAIN text /\ text[p] \in WordChars
Boundary(text, p) == InWord(text, p - 1) # InWord(text, p)

\* Offsets (from 1) at which a word occurs.  The matcher returns them sorted;
\* it leaves out overlapping ones, which are on a line that already counts.
Occurrences(text, find) ==
  {p \in DOMAIN text : \E w \in find.words :
     /\ IsPrefix(w, SubSeq(text, p, Len(text)))
     /\ find.whole => Boundary(text, p) /\ Boundary(text, p + Len(w))}

\* The last newline of a text, 0 when it has none.
LastNewline(text) == CHOOSE p \in Newlines(text) \cup {0} :
                       \A q \in Newlines(text) : q <= p

\* The first newline at or after p, one past the end when there is none.
NextNewline(text, p) ==
  LET ends == {q \in Newlines(text) : q >= p} \cup {Len(text) + 1}
  IN  CHOOSE q \in ends : \A r \in ends : q <= r

\* The start of the line of position m, looking back no further than scan.
LineStart(text, scan, m) ==
  scan + LastNewline(SubSeq(text, scan, m - 1))

-----------------------------------------------------------------------------
\* One round of the loop over the matches: matches before scan are on the
\* line printed last.
ResolveLine(text, acc, m) ==
  LET start == LineStart(text, acc.scan, m)
      end   == NextNewline(text, m)
      num   == acc.line + Cardinality(Newlines(SubSeq(text, acc.scan, start - 1)))
  IN  [scan |-> IF end < Len(text) THEN end + 1 ELSE Len(text) + 1,
       line |-> num + 1,
       out  |-> Append(acc.out, <<num, SubSeq(text, start, end - 1)>>)]

\* The numbers from 1 to n in turn.  A loop over some of them leaves out the others.
UpTo(n) == [p \in 1..n |-> p]

\* The lines of a text that is searched as a whole; line is the number the
\* text starts with, the result's line the one the loop ends with.
PrintRegion(text, find, line) ==
  LET matches == Occurrences(text, find)
  IN  FoldLeft(LAMBDA acc, m : IF m \notin matches \/ m < acc.scan THEN acc
                               ELSE ResolveLine(text, acc, m),
               [scan |-> 1, line |-> line, out |-> <<>>], UpTo(Len(text)))

\* The lines of a text that is decoded line by line.  What follows the last
\* newline is a line of its own unless it is empty.
LineAt(text, find, acc, end) ==
  LET body == SubSeq(text, acc.start, end - 1)
  IN  [start |-> end + 1,
       line  |-> IF end <= Len(text) THEN acc.line + 1 ELSE acc.line,
       out   |-> IF Occurrences(body, find) # {} THEN Append(acc.out, <<acc.line, body>>)
                 ELSE acc.out]

PrintByLine(text, find, line) ==
  LET ends == Newlines(text) \cup (IF LastNewline(text) < Len(text) THEN {Len(text) + 1} ELSE {})
  IN  FoldLeft(LAMBDA acc, end : IF end \notin ends THEN acc ELSE LineAt(text, find, acc, end),
               [start |-> 1, line |-> line, out |-> <<>>], UpTo(Len(text) + 1))

-----------------------------------------------------------------------------
(* Streaming: what a chunk leaves for the next one.                        *)

\* ChunkCarry.  consumed is the stretch of the data a wide chunk decoded.
NoCarry == [found |-> FALSE, line |-> 1, enc |-> "unknown", tail |-> <<>>,
            consumed |-> <<>>]

IsWide(text) == text # <<>> /\ Head(text) = BOM

\* The encoding is sniffed from the first data of the file and remembered.
Sniffed(carry, data) ==
  IF carry.enc # "unknown" THEN carry.enc ELSE IF IsWide(data) THEN "wide" ELSE "raw"

\* The mark is dropped from the data in which it was found.
AfterMark(carry, data) ==
  IF carry.enc = "unknown" /\ IsWide(data) THEN Tail(data) ELSE data

\* Mutant: the partial line at the end of a chunk is searched with it.
CutNothing(data, last) == Len(data)

\* How much of the data is searched now: complete lines, or all at the end.
Cut(data, last) == IF last THEN Len(data) ELSE LastNewline(data)

\* A region without a match moves the line number past all its newlines; one
\* with matches leaves it after the line that matched last.
PrintRaw(region, find, line) ==
  IF Occurrences(region, find) = {}
  THEN [line |-> line + Cardinality(Newlines(region)), out |-> <<>>]
  ELSE PrintRegion(region, find, line)

\* A region of complete lines has been searched; rest follows it.
AfterRegion(region, rest, carry, print) ==
  [carry |-> [carry EXCEPT !.found    = @ \/ print.out # <<>>,
                           !.line     = print.line,
                           !.tail     = rest,
                           !.consumed = IF carry.enc = "wide" THEN region ELSE <<>>],
   out   |-> print.out]

SearchRegion(region, rest, carry, find) ==
  IF region = <<>> THEN [carry |-> [carry EXCEPT !.tail = rest], out |-> <<>>]
  ELSE AfterRegion(region, rest, carry,
         IF carry.enc = "raw" THEN PrintRaw(region, find, carry.line)
                              ELSE PrintByLine(region, find, carry.line))

SearchBody(body, cut, carry, find) ==
  IF body = <<>> THEN [carry |-> carry, out |-> <<>>]
  ELSE SearchRegion(SubSeq(body, 1, cut), SubSeq(body, cut + 1, Len(body)), carry, find)

\* find_and_print_matches_in_chunk: the carry it leaves and what it prints.
InChunk(data, carry, last, find) ==
  LET body == AfterMark(carry, data)
  IN  IF data = <<>> THEN [carry |-> [carry EXCEPT !.consumed = <<>>], out |-> <<>>]
      ELSE SearchBody(body, Cut(body, last),
             [carry EXCEPT !.consumed = <<>>, !.enc = Sniffed(carry, data)], find)
=============================================================================
