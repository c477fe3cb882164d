------------------------------ MODULE FoldSteps -----------------------------
(***************************************************************************)
(* What FoldLeft computes, one step at a time.  A step is a constant       *)
(* operator of this module, and an instance gives it: so what a fold does  *)
(* can be proved by going through the values of its accumulator, with      *)
(* nothing but sets of numbers to do induction on.  A step also has an     *)
(* argument env for what its fold refers to from outside.                  *)
(*                                                                         *)
(* Every instance repeats what this module extends, which slows the        *)
(* provers down; so it extends little, and has the definition of FoldLeft  *)
(* written out.                                                            *)
(***************************************************************************)
EXTENDS Naturals, Sequences, WellFoundedInduction

CONSTANT step(_, _, _)

\* The fold of s from base: FoldLeft of SequencesExt, with the definitions it
\* refers to expanded.
Greatest(d) == CHOOSE x \in d : \A y \in d : x >= y
Fold(env, base, s) ==
  LET iter[d \in SUBSET DOMAIN s] ==
        IF d = {} THEN base
        ELSE LET x == Greatest(d) IN step(env, iter[d \ {x}], s[x])
  IN  iter[DOMAIN s]

\* h goes through the values of the fold.
IsFold(env, base, s, h) ==
  /\ h = [i \in 0..Len(s) |-> h[i]]
  /\ h[0] = base
  /\ \A i \in 1..Len(s) : h[i] = step(env, h[i - 1], s[i])

\* The largest element of a set of numbers up to one of them is that one.
LEMMA GreatestIs ==
  ASSUME NEW m \in Nat, NEW d \in SUBSET (1..m), m \in d
  PROVE  Greatest(d) = m
<1>1. \A y \in d : y \in Nat /\ m >= y
  OBVIOUS
<1>2. \A x \in d : (\A y \in d : x >= y) => x = m
  BY <1>1
<1> QED
  BY <1>1, <1>2 DEF Greatest

\* FoldIs: the fold is the last of the values that start from base and go on by
\* a step for each element.  FoldLeft chooses a function on sets of indices that
\* obeys its recursion; that there is one is shown by induction on the length.
THEOREM FoldIs ==
  ASSUME NEW env, NEW base, NEW s, Len(s) \in Nat, DOMAIN s = 1..Len(s)
  PROVE  \E h : IsFold(env, base, s, h) /\ Fold(env, base, s) = h[Len(s)]
<1> DEFINE n == Len(s)
           D == 1..n
           Iter(S, g) == g = [d \in SUBSET S |-> IF d = {} THEN base
                               ELSE step(env, g[d \ {Greatest(d)}], s[Greatest(d)])]
           it == CHOOSE g : Iter(D, g)
<1>1. Fold(env, base, s) = it[D]
  BY DEF Fold
<1> HIDE DEF n
<1>0. n \in Nat
  BY DEF n
<1> DEFINE T == {m \in 0..n : \E g : Iter(1..m, g)}
<1>2. 0 \in T
  <2> DEFINE g == [d \in SUBSET (1..0) |-> base]
  <2>1. \A d \in SUBSET (1..0) : d = {}
    OBVIOUS
  <2>2. Iter(1..0, g)
    BY <2>1
  <2> HIDE DEF g, Iter
  <2> QED
    BY <1>0, <2>2
<1>3. ASSUME NEW m \in 1..n, m - 1 \in T PROVE m \in T
  <2>1. PICK g : Iter(1..(m - 1), g)
    BY <1>3
  <2> DEFINE h == [d \in SUBSET (1..m) |-> IF m \in d THEN step(env, g[d \ {m}], s[m]) ELSE g[d]]
  <2>2. m \in Nat /\ \A d \in SUBSET (1..m) : (\A x \in d : x # m) => d \in SUBSET (1..(m - 1))
    BY <1>0
  <2>3. ASSUME NEW d \in SUBSET (1..m)
        PROVE  h[d] = IF d = {} THEN base ELSE step(env, h[d \ {Greatest(d)}], s[Greatest(d)])
    <3>1. CASE m \in d
      <4>1. Greatest(d) = m
        BY <2>2, <3>1, GreatestIs
      <4>2. d \ {m} \in SUBSET (1..m) /\ m \notin d \ {m}
        OBVIOUS
      <4>3. h[d \ {m}] = g[d \ {m}] /\ h[d] = step(env, g[d \ {m}], s[m])
        BY <3>1, <4>2
      <4> HIDE DEF h
      <4> QED
        BY <3>1, <4>1, <4>3
    <3>2. CASE m \notin d
      <4> DEFINE e == d \ {Greatest(d)}
      <4>1. d \in SUBSET (1..(m - 1)) /\ e \in SUBSET (1..m) /\ m \notin e
        BY <2>2, <3>2
      <4>2. h[d] = g[d] /\ h[e] = g[e]
        BY <3>2, <4>1
      <4>3. g[d] = IF d = {} THEN base ELSE step(env, g[e], s[Greatest(d)])
        BY <2>1, <4>1
      <4> HIDE DEF h
      <4> QED
        BY <4>2, <4>3
    <3> QED
      BY <3>1, <3>2
  <2>4. h = [d \in SUBSET (1..m) |-> h[d]]
    OBVIOUS
  <2> HIDE DEF h
  <2>5. Iter(1..m, h)
    BY <2>3, <2>4
  <2>6. m \in 0..n
    BY <1>0
  <2> HIDE DEF Iter
  <2> QED
    BY <2>5, <2>6
<1> HIDE DEF T
<1>4. n \in T
  <2> DEFINE missing == {i \in 0..n : i \notin T}
  <2>1. SUFFICES ASSUME missing # {} PROVE FALSE
    BY <1>0
  <2>2. PICK m \in missing : \A i \in missing : ~(i < m)
    <3>1. missing \in SUBSET Nat
      BY <1>0
    <3> HIDE DEF missing
    <3>2. PICK m \in missing : \A i \in missing : <<i, m>> \notin OpToRel(<, Nat)
      BY <2>1, <3>1, WFMin, NatLessThanWellFounded
    <3> QED
      BY <3>1, <3>2 DEF OpToRel
  <2>3. m \in 1..n /\ m - 1 \in 0..n /\ m - 1 < m
    BY <1>0, <1>2
  <2>4. m - 1 \in T
    BY <2>2, <2>3
  <2> QED
    BY <1>3, <2>3, <2>4
<1>5. Iter(D, it)
  <2>1. \E g : Iter(D, g)
    BY <1>4 DEF T
  <2> HIDE DEF Iter
  <2> QED
    BY <2>1
<1> DEFINE h == [i \in 0..n |-> it[1..i]]
<1>6. h[0] = base
  <2>1. 1..0 = {} /\ 1..0 \in SUBSET D /\ 0 \in 0..n
    BY <1>0
  <2>2. it[1..0] = base
    BY <1>5, <2>1
  <2> QED
    BY <2>1, <2>2
<1>7. ASSUME NEW i \in 1..n PROVE h[i] = step(env, h[i - 1], s[i])
  <2>1. /\ 1..i \in SUBSET D /\ 1..i # {} /\ i \in Nat /\ i \in 1..i
        /\ i \in 0..n /\ i - 1 \in 0..n
    BY <1>0
  <2>2. Greatest(1..i) = i
    BY <2>1, GreatestIs
  <2>3. (1..i) \ {i} = 1..(i - 1)
    BY <2>1
  <2>4. it[1..i] = step(env, it[(1..i) \ {i}], s[i])
    BY <1>5, <2>1, <2>2
  <2> HIDE DEF it
  <2> QED
    BY <2>1, <2>3, <2>4
<1>8. h[n] = it[D] /\ h = [i \in 0..n |-> h[i]]
  BY <1>0
<1> HIDE DEF h
<1> QED
  BY <1>1, <1>6, <1>7, <1>8 DEF n, IsFold
=============================================================================
