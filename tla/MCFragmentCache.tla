--------------------------- MODULE MCFragmentCache ---------------------------
(* Instances of FragmentCache for TLC.                                     *)
EXTENDS FragmentCache, TLC

CONSTANTS n1, n2, f1, f2, a, b, c

\* two names of one file
MCLinked == (n1 :> f1) @@ (n2 :> f1)
MCLinkedSymmetry == Permutations({n1, n2})
\* two files
MCApart == (n1 :> f1) @@ (n2 :> f2)

\* no letter has a case
MCLower == [w \in Words |-> w]

Text(ws) == [words |-> ws, binary |-> FALSE]
MCContents == {Text({a}), [words |-> {b, c}, binary |-> TRUE]}

Pattern(bs) == [branches |-> bs, fold |-> FALSE, binary |-> FALSE]
\* Literals of one fragment and of two, which fit in the cache, and an
\* alternation of one fragment more than the cache has columns, searched for
\* with --binary.
MCQueries == {Pattern({{a}}), Pattern({{a, b}}),
              [Pattern({{a}, {b}, {c}}) EXCEPT !.binary = TRUE]}

MCTextContents == {Text({a}), Text({b})}
MCAlternation == {Pattern({{a}, {b}})}
=============================================================================
