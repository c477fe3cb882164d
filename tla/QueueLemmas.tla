---------------------------- MODULE QueueLemmas ----------------------------
(***************************************************************************)
(* Facts about the queues of the worker pool and of the output path: what  *)
(* popping, batch stealing, reversing and concatenating do to the set of   *)
(* the elements of a sequence (ToSet) and to its being free of repetitions *)
(* (IsInjective); what flattening a sequence of sequences gives, and       *)
(* overwriting a part of one; and that a set of naturals has a least one.  *)
(***************************************************************************)
EXTENDS Naturals, Sequences, SequencesExt, SequenceTheorems, WellFoundedInduction,
        TLAPS

\* The elements of a concatenation are those of its parts, and it repeats
\* nothing when its parts repeat nothing and share nothing.
LEMMA ConcatElements ==
  ASSUME NEW S, NEW s \in Seq(S), NEW t \in Seq(S)
  PROVE  /\ s \o t \in Seq(S)
         /\ ToSet(s \o t) = ToSet(s) \union ToSet(t)
         /\ IsInjective(s) /\ IsInjective(t) /\ ToSet(s) \intersect ToSet(t) = {}
              => IsInjective(s \o t)
<1>1. /\ s \o t \in Seq(S)
      /\ DOMAIN (s \o t) = 1 .. Len(s) + Len(t)
      /\ \A i \in 1 .. Len(s) + Len(t) :
           (s \o t)[i] = IF i <= Len(s) THEN s[i] ELSE t[i - Len(s)]
  BY ConcatProperties, LenProperties
<1>2. /\ DOMAIN s = 1..Len(s) /\ Len(s) \in Nat
      /\ DOMAIN t = 1..Len(t) /\ Len(t) \in Nat
  BY LenProperties
<1>3. ToSet(s \o t) \subseteq ToSet(s) \union ToSet(t)
  BY <1>1, <1>2, SMT DEF ToSet
<1>4. ToSet(s) \subseteq ToSet(s \o t)
  BY <1>1, <1>2, SMT DEF ToSet
<1>5. ToSet(t) \subseteq ToSet(s \o t)
  <2>1. SUFFICES ASSUME NEW i \in 1..Len(t)
                 PROVE  t[i] \in ToSet(s \o t)
    BY <1>2 DEF ToSet
  <2>2. /\ i + Len(s) \in 1 .. Len(s) + Len(t)
        /\ (s \o t)[i + Len(s)] = t[i]
    BY <1>1, <1>2, SMT
  <2> QED
    BY <1>1, <2>2, Zenon DEF ToSet
<1>6. ASSUME IsInjective(s), IsInjective(t), ToSet(s) \intersect ToSet(t) = {}
      PROVE  IsInjective(s \o t)
  <2>1. \A i \in 1..Len(s), j \in 1..Len(t) : s[i] # t[j]
    BY <1>2, <1>6 DEF ToSet
  <2> QED
    BY <1>1, <1>2, <1>6, <2>1, SMT DEF IsInjective
<1> QED
  BY <1>1, <1>3, <1>4, <1>5, <1>6

\* Cutting a sequence without repetitions in two gives two such sequences that
\* share nothing and together hold its elements.
LEMMA CutElements ==
  ASSUME NEW S, NEW s \in Seq(S), NEW k \in 0..Len(s)
  PROVE  LET front == SubSeq(s, 1, k)
             back  == SubSeq(s, k + 1, Len(s))
         IN  /\ front \in Seq(S) /\ back \in Seq(S)
             /\ ToSet(s) = ToSet(front) \union ToSet(back)
             /\ IsInjective(s) => /\ IsInjective(front) /\ IsInjective(back)
                                  /\ ToSet(front) \intersect ToSet(back) = {}
<1> DEFINE front == SubSeq(s, 1, k)
           back  == SubSeq(s, k + 1, Len(s))
<1>1. /\ DOMAIN s = 1..Len(s) /\ Len(s) \in Nat
      /\ \A i \in 1..Len(s) : s[i] \in S
  BY LenProperties
<1>2. /\ front \in Seq(S) /\ Len(front) = k
      /\ \A i \in 1..k : front[i] = s[i]
  <2>1. \A i \in 1..k : s[i] \in S
    BY <1>1
  <2> QED
    BY <1>1, <2>1, SubSeqProperties, SMT
<1>3. /\ back \in Seq(S) /\ Len(back) = Len(s) - k
      /\ \A i \in 1..(Len(s) - k) : back[i] = s[k + i]
  <2>1. \A i \in k + 1 .. Len(s) : s[i] \in S
    BY <1>1
  <2>2. k + 1 \in Int /\ Len(s) \in Int
    BY <1>1
  <2>3. /\ back \in Seq(S)
        /\ Len(back) = IF k + 1 <= Len(s) THEN Len(s) - (k + 1) + 1 ELSE 0
        /\ \A i \in 1 .. Len(s) - (k + 1) + 1 : back[i] = s[(k + 1) + i - 1]
    BY <2>1, <2>2, SubSeqProperties
  <2>4. /\ Len(s) - (k + 1) + 1 = Len(s) - k
        /\ \A i \in 1 .. Len(s) - k : (k + 1) + i - 1 = k + i
    BY <1>1
  <2> HIDE DEF back
  <2>5. Len(back) = Len(s) - k
    <3>1. Len(s) \in Nat /\ k \in 0..Len(s)
      BY <1>1
    <3>2. Len(back) = IF k + 1 <= Len(s) THEN Len(s) - (k + 1) + 1 ELSE 0
      BY <2>3
    <3> QED
      BY <3>1, <3>2, SMT
  <2>6. ASSUME NEW i \in 1..(Len(s) - k)
        PROVE  back[i] = s[k + i]
    <3>1. i \in 1 .. Len(s) - (k + 1) + 1 /\ (k + 1) + i - 1 = k + i
      BY <1>1, <2>4
    <3> QED
      BY <2>3, <3>1
  <2> QED
    BY <2>3, <2>5, <2>6
<1>4. DOMAIN front = 1..k /\ DOMAIN back = 1..(Len(s) - k)
  BY <1>2, <1>3, LenProperties
<1> HIDE DEF front, back
<1> DEFINE n == Len(s) - k
<1>a. /\ n \in Nat
      /\ \A i \in 1..n : k + i \in 1..Len(s)
      /\ \A i \in 1..k : i \in 1..Len(s)
  BY <1>1
<1>b. /\ DOMAIN back = 1..n /\ \A i \in 1..n : back[i] = s[k + i]
  BY <1>3, <1>4
<1> HIDE DEF n
<1>5. ToSet(front) \subseteq ToSet(s) /\ ToSet(back) \subseteq ToSet(s)
  <2>1. ToSet(front) \subseteq ToSet(s)
    BY <1>1, <1>2, <1>4, <1>a DEF ToSet
  <2>2. ToSet(back) \subseteq ToSet(s)
    BY <1>1, <1>a, <1>b DEF ToSet
  <2> QED
    BY <2>1, <2>2
<1>6. ToSet(s) \subseteq ToSet(front) \union ToSet(back)
  <2>1. SUFFICES ASSUME NEW i \in 1..Len(s)
                 PROVE  s[i] \in ToSet(front) \union ToSet(back)
    BY <1>1 DEF ToSet
  <2>2. CASE i <= k
    <3>1. i \in DOMAIN front /\ front[i] = s[i]
      BY <1>1, <1>2, <1>4, <2>2, SMT
    <3> QED
      BY <3>1, Zenon DEF ToSet
  <2>3. CASE i > k
    <3>1. (i - k) \in DOMAIN back /\ back[i - k] = s[i]
      BY <1>1, <1>a, <1>3, <1>4, <2>3, SMT
    <3> QED
      BY <3>1, Zenon DEF ToSet
  <2> QED
    BY <1>1, <2>2, <2>3, SMT
<1>7. ASSUME IsInjective(s)
      PROVE  /\ IsInjective(front) /\ IsInjective(back)
             /\ ToSet(front) \intersect ToSet(back) = {}
  <2>1. IsInjective(front)
    BY <1>1, <1>2, <1>4, <1>7, <1>a DEF IsInjective
  <2>2. IsInjective(back)
    <3>1. \A i, j \in 1..n : k + i = k + j => i = j
      BY <1>a, <1>1
    <3> QED
      BY <1>1, <1>7, <1>a, <1>b, <3>1 DEF IsInjective
  <2>3. \A i \in 1..k, j \in 1..n : front[i] # back[j]
    <3>1. \A i \in 1..k, j \in 1..n : i # k + j
      BY <1>a, <1>1
    <3>2. \A i \in 1..k, j \in 1..n : s[i] # s[k + j]
      BY <1>1, <1>7, <1>a, <3>1, Zenon DEF IsInjective
    <3> QED
      BY <1>2, <1>b, <3>2, SMT
  <2> QED
    <3>1. ASSUME NEW x \in ToSet(front), NEW y \in ToSet(back) PROVE x # y
      <4>1. PICK i \in 1..k : x = front[i]
        BY <1>4 DEF ToSet
      <4>2. PICK j \in 1..n : y = back[j]
        BY <1>b DEF ToSet
      <4> QED
        BY <2>3, <4>1, <4>2
    <3> QED
      BY <2>1, <2>2, <3>1, Zenon
<1> QED
  BY <1>2, <1>3, <1>5, <1>6, <1>7 DEF front, back

\* Reversing changes neither the elements nor their being distinct.
LEMMA ReverseElements ==
  ASSUME NEW S, NEW s \in Seq(S)
  PROVE  /\ Reverse(s) \in Seq(S)
         /\ ToSet(Reverse(s)) = ToSet(s)
         /\ IsInjective(s) => IsInjective(Reverse(s))
<1>1. /\ DOMAIN s = 1..Len(s) /\ Len(s) \in Nat
      /\ \A i \in 1..Len(s) : s[i] \in S
  BY LenProperties
<1>2. \A i \in 1..Len(s) : (Len(s) - i) + 1 \in 1..Len(s)
  BY <1>1
<1>3. Reverse(s) \in [1..Len(s) -> S]
  BY <1>1, <1>2 DEF Reverse
<1>4. Reverse(s) \in Seq(S)
  BY <1>1, <1>3, SeqDef
<1>5. ToSet(Reverse(s)) \subseteq ToSet(s)
  BY <1>1, <1>2, <1>3 DEF ToSet, Reverse
<1>6. ToSet(s) \subseteq ToSet(Reverse(s))
  <2>1. SUFFICES ASSUME NEW i \in 1..Len(s)
                 PROVE  s[i] \in ToSet(Reverse(s))
    BY <1>1 DEF ToSet
  <2>2. (Len(s) - ((Len(s) - i) + 1)) + 1 = i
    BY <1>1, SMT
  <2>3. Reverse(s)[(Len(s) - i) + 1] = s[i]
    BY <1>1, <1>2, <2>2 DEF Reverse
  <2> QED
    BY <1>2, <1>3, <2>3 DEF ToSet
<1>7. IsInjective(s) => IsInjective(Reverse(s))
  BY <1>1, <1>2, SMT DEF IsInjective, Reverse
<1> QED
  BY <1>4, <1>5, <1>6, <1>7

\* The elements of the empty and of a one-element queue.
LEMMA SmallQueues ==
  ASSUME NEW S, NEW x \in S
  PROVE  /\ <<>> \in Seq(S) /\ ToSet(<<>>) = {} /\ IsInjective(<<>>)
         /\ <<x>> \in Seq(S) /\ ToSet(<<x>>) = {x} /\ IsInjective(<<x>>)
BY SMT DEF ToSet, IsInjective

\* A piece of a sequence: its elements are those at its positions.
LEMMA PieceElements ==
  ASSUME NEW S, NEW s \in Seq(S), NEW m \in 1..Len(s) + 1, NEW n \in 0..Len(s)
  PROVE  LET piece == SubSeq(s, m, n)
         IN  /\ piece \in Seq(S)
             /\ ToSet(piece) = {s[i] : i \in m..n}
             /\ IsInjective(s) => IsInjective(piece)
<1> DEFINE piece == SubSeq(s, m, n)
           size  == IF m <= n THEN n - m + 1 ELSE 0
<1>1. /\ DOMAIN s = 1..Len(s) /\ Len(s) \in Nat
      /\ \A i \in 1..Len(s) : s[i] \in S
  BY LenProperties
<1>2. /\ m \in Int /\ n \in Int /\ size \in Nat
      /\ \A i \in m..n : i \in 1..Len(s) /\ i - m + 1 \in 1..size
      /\ \A i \in 1..size : m + i - 1 \in m..n
      /\ 1..(n - m + 1) = 1..size
  BY <1>1
<1>3. \A i \in m..n : s[i] \in S
  BY <1>1, <1>2
<1>4. /\ piece \in Seq(S) /\ Len(piece) = size
      /\ \A i \in 1..size : piece[i] = s[m + i - 1]
  BY <1>2, <1>3, SubSeqProperties
<1>5. DOMAIN piece = 1..size
  BY <1>4, LenProperties
<1> HIDE DEF piece, size
<1>6. ToSet(piece) \subseteq {s[i] : i \in m..n}
  BY <1>2, <1>4, <1>5 DEF ToSet
<1>7. {s[i] : i \in m..n} \subseteq ToSet(piece)
  <2>1. SUFFICES ASSUME NEW i \in m..n
                 PROVE  s[i] \in ToSet(piece)
    OBVIOUS
  <2>2. i - m + 1 \in 1..size /\ m + (i - m + 1) - 1 = i
    BY <1>2
  <2> QED
    BY <1>4, <1>5, <2>2 DEF ToSet
<1>8. IsInjective(s) => IsInjective(piece)
  <2>1. \A i, j \in 1..size : m + i - 1 = m + j - 1 => i = j
    BY <1>2
  <2>2. SUFFICES ASSUME IsInjective(s), NEW i \in 1..size, NEW j \in 1..size,
                        piece[i] = piece[j]
                 PROVE  i = j
    BY <1>5 DEF IsInjective
  <2>3. /\ m + i - 1 \in DOMAIN s /\ m + j - 1 \in DOMAIN s
        /\ s[m + i - 1] = s[m + j - 1]
    BY <1>1, <1>2, <1>4, <2>2
  <2>4. m + i - 1 = m + j - 1
    BY <2>2, <2>3, Zenon DEF IsInjective
  <2> QED
    BY <2>1, <2>4
<1> QED
  BY <1>4, <1>6, <1>7, <1>8 DEF piece

\* What the owner of a LIFO deque does: pop the last element.
LEMMA PopLast ==
  ASSUME NEW S, NEW s \in Seq(S), s # <<>>
  PROVE  /\ Front(s) \in Seq(S) /\ Last(s) \in S
         /\ ToSet(s) = ToSet(Front(s)) \union {Last(s)}
         /\ IsInjective(s) => IsInjective(Front(s)) /\ Last(s) \notin ToSet(Front(s))
<1>1. /\ DOMAIN s = 1..Len(s) /\ Len(s) \in Nat \ {0}
      /\ \A i \in 1..Len(s) : s[i] \in S
  BY LenProperties, EmptySeq
<1>2. /\ Len(s) - 1 \in 0..Len(s) /\ 1 \in 1..Len(s) + 1
      /\ 1..Len(s) = (1..(Len(s) - 1)) \union {Len(s)}
      /\ Len(s) \notin 1..(Len(s) - 1)
  BY <1>1
<1>3. /\ Front(s) \in Seq(S)
      /\ ToSet(Front(s)) = {s[i] : i \in 1..(Len(s) - 1)}
      /\ IsInjective(s) => IsInjective(Front(s))
  BY <1>2, PieceElements DEF Front
<1>4. ToSet(s) = ToSet(Front(s)) \union {Last(s)}
  BY <1>1, <1>2, <1>3 DEF Last, ToSet
<1>5. ASSUME IsInjective(s)
      PROVE  Last(s) \notin ToSet(Front(s))
  <2>1. ASSUME NEW i \in 1..(Len(s) - 1)
        PROVE  s[i] # s[Len(s)]
    <3>1. i \in 1..Len(s) /\ Len(s) \in 1..Len(s) /\ i # Len(s)
      <4> DEFINE n == Len(s)
      <4>1. n \in Nat \ {0} /\ i \in 1..(n - 1)
        BY <1>1
      <4> HIDE DEF n
      <4>2. i \in 1..n /\ n \in 1..n /\ i # n
        BY <4>1
      <4> QED
        BY <4>2 DEF n
    <3> QED
      BY <1>1, <1>5, <3>1 DEF IsInjective
  <2>2. \A i \in 1..(Len(s) - 1) : s[i] # s[Len(s)]
    BY <2>1
  <2> QED
    BY <1>3, <2>2 DEF Last
<1> QED
  BY <1>1, <1>3, <1>4, <1>5 DEF Last

\* What a thief does: take the oldest k elements, the first of them for itself.
LEMMA TakeBatch ==
  ASSUME NEW S, NEW s \in Seq(S), NEW k \in 1..Len(s)
  PROVE  LET batch == SubSeq(s, 2, k)
             left  == SubSeq(s, k + 1, Len(s))
         IN  /\ s[1] \in S /\ batch \in Seq(S) /\ left \in Seq(S)
             /\ ToSet(s) = {s[1]} \union ToSet(batch) \union ToSet(left)
             /\ IsInjective(s) =>
                  /\ IsInjective(batch) /\ IsInjective(left)
                  /\ s[1] \notin ToSet(batch) \union ToSet(left)
                  /\ ToSet(batch) \intersect ToSet(left) = {}
<1> DEFINE batch == SubSeq(s, 2, k)
           left  == SubSeq(s, k + 1, Len(s))
<1>1. /\ DOMAIN s = 1..Len(s) /\ Len(s) \in Nat
      /\ \A i \in 1..Len(s) : s[i] \in S
  BY LenProperties
<1>2. /\ 1 \in 1..Len(s) /\ 2 \in 1..Len(s) + 1 /\ k + 1 \in 1..Len(s) + 1
      /\ k \in 0..Len(s) /\ Len(s) \in 0..Len(s)
      /\ 1..Len(s) = {1} \union (2..k) \union ((k + 1)..Len(s))
      /\ 1 \notin 2..k /\ 1 \notin (k + 1)..Len(s)
      /\ (2..k) \intersect ((k + 1)..Len(s)) = {}
  BY <1>1
<1>3. /\ batch \in Seq(S) /\ ToSet(batch) = {s[i] : i \in 2..k}
      /\ IsInjective(s) => IsInjective(batch)
  BY <1>2, PieceElements
<1>4. /\ left \in Seq(S) /\ ToSet(left) = {s[i] : i \in (k + 1)..Len(s)}
      /\ IsInjective(s) => IsInjective(left)
  BY <1>2, PieceElements
<1> HIDE DEF batch, left
<1>5. ToSet(s) = {s[1]} \union ToSet(batch) \union ToSet(left)
  BY <1>1, <1>2, <1>3, <1>4 DEF ToSet
<1>6. ASSUME IsInjective(s)
      PROVE  /\ s[1] \notin ToSet(batch) \union ToSet(left)
             /\ ToSet(batch) \intersect ToSet(left) = {}
  <2>1. \A i \in 2..k : i \in 1..Len(s) /\ i # 1
    BY <1>1
  <2>2. \A i \in (k + 1)..Len(s) : i \in 1..Len(s) /\ i # 1
    BY <1>1
  <2>3. \A i \in 2..k, j \in (k + 1)..Len(s) : i # j
    BY <1>1
  <2>4. s[1] \notin ToSet(batch)
    BY <1>1, <1>2, <1>3, <1>6, <2>1 DEF IsInjective
  <2>5. s[1] \notin ToSet(left)
    BY <1>1, <1>2, <1>4, <1>6, <2>2 DEF IsInjective
  <2>6. \A i \in 2..k, j \in (k + 1)..Len(s) : s[i] # s[j]
    BY <1>1, <1>6, <2>1, <2>2, <2>3 DEF IsInjective
  <2> QED
    BY <1>3, <1>4, <2>4, <2>5, <2>6
<1> QED
  BY <1>1, <1>2, <1>3, <1>4, <1>5, <1>6 DEF batch, left

\* Taking the first element off.
LEMMA PopHead ==
  ASSUME NEW S, NEW s \in Seq(S), s # <<>>
  PROVE  /\ Tail(s) \in Seq(S) /\ Head(s) \in S
         /\ ToSet(s) = ToSet(Tail(s)) \union {Head(s)}
         /\ IsInjective(s) => IsInjective(Tail(s)) /\ Head(s) \notin ToSet(Tail(s))
<1>1. Len(s) \in Nat \ {0} /\ 1 \in 1..Len(s)
  BY EmptySeq
<1>2. Tail(s) = SubSeq(s, 2, Len(s)) /\ Head(s) = s[1]
  BY <1>1, TailIsSubSeq
<1>3. SubSeq(s, 2, 1) = <<>>
  BY SubSeqEmpty
<1>4. ToSet(<<>>) = {}
  BY DEF ToSet
<1>5. SubSeq(s, 1 + 1, Len(s)) = Tail(s)
  BY <1>2
<1>6. LET batch == SubSeq(s, 2, 1)
          left  == SubSeq(s, 1 + 1, Len(s))
      IN  /\ s[1] \in S /\ batch \in Seq(S) /\ left \in Seq(S)
          /\ ToSet(s) = {s[1]} \union ToSet(batch) \union ToSet(left)
          /\ IsInjective(s) =>
               /\ IsInjective(batch) /\ IsInjective(left)
               /\ s[1] \notin ToSet(batch) \union ToSet(left)
               /\ ToSet(batch) \intersect ToSet(left) = {}
  BY <1>1, TakeBatch
<1>7. /\ s[1] \in S /\ Tail(s) \in Seq(S)
      /\ ToSet(s) = {s[1]} \union ToSet(Tail(s))
      /\ IsInjective(s) => IsInjective(Tail(s)) /\ s[1] \notin ToSet(Tail(s))
  BY <1>3, <1>4, <1>5, <1>6
<1> QED
  BY <1>2, <1>7

-----------------------------------------------------------------------------
(* Concatenations of many sequences.  An induction along a sequence is said  *)
(* here with a set of positions instead of a predicate.                      *)

\* A set of naturals has a least member.
LEMMA LeastNatural ==
  ASSUME NEW T \in SUBSET Nat, T # {}
  PROVE  \E m \in T : \A n \in T : m <= n
<1>1. PICK m \in T : \A n \in T : <<n, m>> \notin OpToRel(<, Nat)
  BY WFMin, NatLessThanWellFounded
<1>2. \A n \in T : ~(n < m)
  BY <1>1, Zenon DEF OpToRel
<1>3. \A n \in T : m <= n
  BY <1>2
<1> QED
  BY <1>3

\* What holds of 0 and is handed on upwards holds up to n.
LEMMA Upwards ==
  ASSUME NEW n \in Nat, NEW T, 0 \in T, \A i \in 1..n : i - 1 \in T => i \in T
  PROVE  \A i \in 0..n : i \in T
<1> DEFINE missing == {i \in 0..n : i \notin T}
<1>1. SUFFICES ASSUME missing # {} PROVE FALSE
  OBVIOUS
<1>2. PICK m \in missing : \A i \in missing : m <= i
  <2>1. missing \in SUBSET Nat
    OBVIOUS
  <2> HIDE DEF missing
  <2> QED
    BY <1>1, <2>1, LeastNatural
<1>3. m \in 1..n /\ m - 1 \in 0..n /\ ~(m <= m - 1)
  BY <1>2
<1>4. m - 1 \in T
  BY <1>2, <1>3
<1> QED
  BY <1>2, <1>3, <1>4

\* g holds the concatenations of the first sequences of s.
IsFlattening(S, s, g) ==
  /\ g \in [0..Len(s) -> Seq(S)]
  /\ g[0] = <<>>
  /\ \A i \in 1..Len(s) : g[i] = g[i - 1] \o s[i]

\* The concatenations of the first sequences exist.
LEMMA FlatteningExists ==
  ASSUME NEW S, NEW s \in Seq(Seq(S))
  PROVE  \E g : IsFlattening(S, s, g)
<1> DEFINE n == Len(s)
           T == {m \in 0..n : \E g \in [0..m -> Seq(S)] :
                   g[0] = <<>> /\ \A i \in 1..m : g[i] = g[i - 1] \o s[i]}
<1>0. n \in Nat /\ \A i \in 1..n : s[i] \in Seq(S)
  BY LenProperties, ElementOfSeq
<1>1. 0 \in T
  <2> DEFINE g == [i \in 0..0 |-> <<>>]
  <2>1. g \in [0..0 -> Seq(S)] /\ g[0] = <<>> /\ \A i \in 1..0 : g[i] = g[i - 1] \o s[i]
    BY EmptySeq
  <2>2. 0 \in 0..n
    BY <1>0
  <2> HIDE DEF g
  <2> QED
    BY <2>1, <2>2
<1>2. ASSUME NEW m \in 1..n, m - 1 \in T PROVE m \in T
  <2>1. PICK g \in [0..(m - 1) -> Seq(S)] :
          g[0] = <<>> /\ \A i \in 1..(m - 1) : g[i] = g[i - 1] \o s[i]
    BY <1>2
  <2> DEFINE h == [i \in 0..m |-> IF i = m THEN g[m - 1] \o s[m] ELSE g[i]]
  <2>2. /\ m \in Nat /\ m - 1 \in 0..(m - 1) /\ m # 0 /\ m \in 0..m /\ 0 \in 0..m
        /\ \A i \in 0..m : i # m => i \in 0..(m - 1)
        /\ \A i \in 1..m : i # m => i \in 1..(m - 1)
        /\ \A i \in 1..m : i - 1 \in 0..m /\ i - 1 # m
    BY <1>0
  <2>3. g[m - 1] \o s[m] \in Seq(S)
    BY <1>0, <2>2, ConcatProperties
  <2>4. h \in [0..m -> Seq(S)]
    BY <2>2, <2>3
  <2>5. h[0] = <<>>
    BY <2>1, <2>2
  <2>6. ASSUME NEW i \in 1..m PROVE h[i] = h[i - 1] \o s[i]
    <3>1. h[i - 1] = g[i - 1] /\ i \in 0..m
      BY <2>2
    <3>2. CASE i = m
      BY <3>1, <3>2
    <3>3. CASE i # m
      BY <2>1, <2>2, <3>1, <3>3
    <3> QED
      BY <3>2, <3>3
  <2> HIDE DEF h
  <2>7. m \in 0..n
    BY <1>0
  <2> QED
    BY <2>4, <2>5, <2>6, <2>7
<1>3. n \in T
  <2> HIDE DEF T
  <2>1. \A i \in 0..n : i \in T
    BY <1>0, <1>1, <1>2, Upwards
  <2> QED
    BY <1>0, <2>1
<1> QED
  BY <1>3 DEF IsFlattening

\* FlattenSeq is the last of them.
LEMMA FlatteningIs ==
  ASSUME NEW S, NEW s \in Seq(Seq(S)), NEW g, IsFlattening(S, s, g)
  PROVE  FlattenSeq(s) = g[Len(s)]
<1> DEFINE n == Len(s)
           F == CHOOSE f : f = [i \in 1..n |-> IF i = 1 THEN s[i] ELSE f[i - 1] \o s[i]]
<1>0. n \in Nat /\ \A i \in 1..n : s[i] \in Seq(S)
  BY LenProperties, ElementOfSeq
<1>1. CASE n = 0
  BY <1>1, EmptySeq DEF FlattenSeq, IsFlattening
<1>2. CASE n # 0
  <2>0. ASSUME NEW i \in 1..n
        PROVE  /\ g[i] = g[i - 1] \o s[i]
               /\ i = 1 => g[i] = s[i]
               /\ i # 1 => i - 1 \in 1..n
    <3>1. g[i] = g[i - 1] \o s[i] /\ g[0] = <<>>
      BY DEF IsFlattening
    <3>2. i = 1 => g[i - 1] = <<>>
      BY <3>1
    <3>3. <<>> \o s[i] = s[i]
      BY <1>0, ConcatEmptySeq
    <3>4. i # 1 => i - 1 \in 1..n
      BY <1>0
    <3> HIDE DEF n
    <3> QED
      BY <3>1, <3>2, <3>3, <3>4
  <2>1. F = [i \in 1..n |-> IF i = 1 THEN s[i] ELSE F[i - 1] \o s[i]]
    <3> DEFINE h == [i \in 1..n |-> g[i]]
    <3>1. ASSUME NEW i \in 1..n
          PROVE  h[i] = IF i = 1 THEN s[i] ELSE h[i - 1] \o s[i]
      BY <2>0
    <3>2. h = [i \in 1..n |-> IF i = 1 THEN s[i] ELSE h[i - 1] \o s[i]]
      BY <3>1
    <3> HIDE DEF h, n
    <3> QED
      BY <3>2
  <2>2. FlattenSeq(s) = F[n]
    BY <1>2 DEF FlattenSeq
  <2> DEFINE T == {j \in 0..n : j = 0 \/ F[j] = g[j]}
  <2> HIDE DEF F, n
  <2>3. 0 \in T
    BY <1>0
  <2>4. ASSUME NEW i \in 1..n, i - 1 \in T PROVE i \in T
    <3>1. F[i] = IF i = 1 THEN s[i] ELSE F[i - 1] \o s[i]
      BY <2>1
    <3>2. ASSUME i = 1 PROVE F[i] = g[i]
      BY <2>0, <3>1, <3>2
    <3>3. ASSUME i # 1 PROVE F[i] = g[i]
      <4>1. i - 1 # 0
        BY <1>0, <3>3
      <4>2. F[i - 1] = g[i - 1]
        BY <2>4, <4>1
      <4> QED
        BY <2>0, <3>1, <3>3, <4>2
    <3>4. F[i] = g[i] /\ i \in 0..n
      BY <1>0, <3>2, <3>3
    <3> QED
      BY <3>4
  <2> HIDE DEF T
  <2>5. \A i \in 0..n : i \in T
    BY <1>0, <2>3, <2>4, Upwards
  <2>6. n \in 0..n
    BY <1>0
  <2>7. F[n] = g[n]
    BY <1>2, <2>5, <2>6 DEF T
  <2> QED
    BY <2>2, <2>7 DEF n
<1> QED
  BY <1>1, <1>2

\* A concatenation of sequences is a sequence.
LEMMA FlattenType ==
  ASSUME NEW S, NEW s \in Seq(Seq(S))
  PROVE  FlattenSeq(s) \in Seq(S)
<1>1. PICK g : IsFlattening(S, s, g)
  BY FlatteningExists
<1>2. FlattenSeq(s) = g[Len(s)]
  BY <1>1, FlatteningIs
<1>3. Len(s) \in 0..Len(s)
  BY LenProperties
<1> QED
  BY <1>1, <1>2, <1>3 DEF IsFlattening

\* What is flattened in two parts is flattened.
LEMMA FlattenConcat ==
  ASSUME NEW S, NEW s \in Seq(Seq(S)), NEW t \in Seq(Seq(S))
  PROVE  /\ s \o t \in Seq(Seq(S))
         /\ FlattenSeq(s \o t) = FlattenSeq(s) \o FlattenSeq(t)
<1>1. PICK a : IsFlattening(S, s, a)
  BY FlatteningExists
<1>2. PICK b : IsFlattening(S, t, b)
  BY FlatteningExists
<1> DEFINE n == Len(s)
           m == Len(t)
           st == s \o t
           h == [i \in 0..(n + m) |-> IF i <= n THEN a[i] ELSE a[n] \o b[i - n]]
<1>3. /\ st \in Seq(Seq(S)) /\ Len(st) = n + m /\ n \in Nat /\ m \in Nat
      /\ \A i \in 1..n : st[i] = s[i]
      /\ \A i \in 1..m : st[n + i] = t[i] /\ t[i] \in Seq(S)
  BY ConcatProperties, LenProperties, ElementOfSeq
<1>4. /\ a \in [0..n -> Seq(S)] /\ a[0] = <<>>
      /\ b \in [0..m -> Seq(S)] /\ b[0] = <<>>
      /\ \A i \in 1..n : a[i] = a[i - 1] \o s[i]
      /\ \A i \in 1..m : b[i] = b[i - 1] \o t[i]
  BY <1>1, <1>2 DEF IsFlattening
<1> HIDE DEF n, m, st
<1>5. a[n] \in Seq(S) /\ a[n] \o b[0] = a[n]
  BY <1>3, <1>4, ConcatEmptySeq
<1>6. \A j \in 0..m : n + j \in 0..(n + m) /\ h[n + j] = a[n] \o b[j]
  <2> SUFFICES ASSUME NEW j \in 0..m
               PROVE  n + j \in 0..(n + m) /\ h[n + j] = a[n] \o b[j]
    OBVIOUS
  <2>1. n + j \in 0..(n + m) /\ (n + j) - n = j
    BY <1>3
  <2>2. ASSUME j = 0 PROVE h[n + j] = a[n] \o b[j]
    <3>1. n + j = n /\ n <= n /\ n \in 0..(n + m)
      BY <1>3, <2>2
    <3>2. h[n] = a[n]
      BY <3>1
    <3> HIDE DEF h
    <3> QED
      BY <1>5, <2>2, <3>1, <3>2
  <2>3. ASSUME j # 0 PROVE h[n + j] = a[n] \o b[j]
    <3>1. ~(n + j <= n)
      BY <1>3, <2>3
    <3> QED
      BY <2>1, <3>1
  <2> QED
    BY <2>1, <2>2, <2>3
<1>7. \A j \in 0..n : j \in 0..(n + m) /\ h[j] = a[j]
  BY <1>3
<1>8. h \in [0..(n + m) -> Seq(S)]
  <2> SUFFICES ASSUME NEW i \in 0..(n + m)
               PROVE  (IF i <= n THEN a[i] ELSE a[n] \o b[i - n]) \in Seq(S)
    OBVIOUS
  <2>1. ASSUME i <= n PROVE a[i] \in Seq(S)
    BY <1>3, <1>4, <2>1
  <2>2. ASSUME ~(i <= n) PROVE a[n] \o b[i - n] \in Seq(S)
    <3>1. i - n \in 0..m
      BY <1>3, <2>2
    <3>2. b[i - n] \in Seq(S)
      BY <1>4, <3>1
    <3> QED
      BY <1>5, <3>2, ConcatProperties
  <2> QED
    BY <2>1, <2>2
<1> HIDE DEF h
<1>9. ASSUME NEW i \in 1..(n + m) PROVE h[i] = h[i - 1] \o st[i]
  <2>1. ASSUME i <= n PROVE h[i] = h[i - 1] \o st[i]
    <3>1. i \in 1..n /\ i \in 0..n /\ i - 1 \in 0..n
      BY <1>3, <2>1
    <3> QED
      BY <1>3, <1>4, <1>7, <3>1
  <2>2. ASSUME ~(i <= n) PROVE h[i] = h[i - 1] \o st[i]
    <3>1. PICK j \in 1..m : i = n + j
      <4>1. i - n \in 1..m /\ i = n + (i - n)
        BY <1>3, <2>2
      <4> QED
        BY <4>1
    <3>2. j \in 0..m /\ j - 1 \in 0..m /\ i - 1 = n + (j - 1)
      BY <1>3, <3>1
    <3>3. h[i] = a[n] \o b[j] /\ h[i - 1] = a[n] \o b[j - 1]
      BY <1>6, <3>1, <3>2
    <3>4. b[j] = b[j - 1] \o t[j] /\ st[i] = t[j]
      BY <1>3, <1>4, <3>1
    <3>5. b[j - 1] \in Seq(S) /\ t[j] \in Seq(S)
      BY <1>3, <1>4, <3>2
    <3>6. a[n] \o (b[j - 1] \o t[j]) = (a[n] \o b[j - 1]) \o t[j]
      <4> DEFINE x == a[n]
                 y == b[j - 1]
                 z == t[j]
      <4>1. x \in Seq(S) /\ y \in Seq(S) /\ z \in Seq(S)
        BY <1>5, <3>5
      <4> HIDE DEF x, y, z
      <4>2. x \o (y \o z) = (x \o y) \o z
        BY ONLY <4>1, SMTT(20)
      <4> QED
        BY <4>2 DEF x, y, z
    <3> QED
      BY <3>3, <3>4, <3>6
  <2> QED
    BY <2>1, <2>2
<1>10. h[0] = <<>>
  BY <1>3, <1>4, <1>7, SMTT(20)
<1>11. IsFlattening(S, st, h)
  BY <1>3, <1>8, <1>9, <1>10 DEF IsFlattening
<1>12. FlattenSeq(st) = h[n + m]
  BY <1>3, <1>11, FlatteningIs
<1>13. h[n + m] = a[n] \o b[m]
  <2>1. m \in 0..m
    BY <1>3
  <2> QED
    BY <1>6, <2>1
<1>14. FlattenSeq(s) = a[n] /\ FlattenSeq(t) = b[m]
  BY <1>1, <1>2, FlatteningIs DEF n, m
<1> QED
  BY <1>3, <1>12, <1>13, <1>14 DEF st

\* Nothing, and one sequence, flattened.
LEMMA FlattenSmall ==
  /\ FlattenSeq(<<>>) = <<>>
  /\ \A S : \A x \in Seq(S) : <<x>> \in Seq(Seq(S)) /\ FlattenSeq(<<x>>) = x
<1>1. FlattenSeq(<<>>) = <<>>
  BY EmptySeq DEF FlattenSeq
<1>2. ASSUME NEW S, NEW x \in Seq(S)
      PROVE  <<x>> \in Seq(Seq(S)) /\ FlattenSeq(<<x>>) = x
  <2>1. <<x>> \in Seq(Seq(S)) /\ Len(<<x>>) = 1 /\ <<x>>[1] = x
    OBVIOUS
  <2>2. PICK g : IsFlattening(S, <<x>>, g)
    BY <2>1, FlatteningExists
  <2>3. FlattenSeq(<<x>>) = g[1]
    BY <2>1, <2>2, FlatteningIs
  <2>4. g[1] = g[1 - 1] \o x /\ g[0] = <<>>
    <3>1. \A i \in 1..1 : g[i] = g[i - 1] \o <<x>>[i]
      BY <2>1, <2>2 DEF IsFlattening
    <3>2. 1 \in 1..1
      OBVIOUS
    <3> QED
      BY <2>1, <2>2, <3>1, <3>2 DEF IsFlattening
  <2>5. g[1] = <<>> \o x
    BY <2>4
  <2> QED
    BY <2>1, <2>3, <2>5, ConcatEmptySeq
<1> QED
  BY <1>1, <1>2

\* The front of a concatenation.
LEMMA FrontOfConcat ==
  ASSUME NEW S, NEW s \in Seq(S), NEW t \in Seq(S)
  PROVE  SubSeq(s \o t, 1, Len(s)) = s
<1> DEFINE n == Len(s)
           st == s \o t
           front == SubSeq(st, 1, n)
<1>1. /\ st \in Seq(S) /\ Len(st) = n + Len(t) /\ n \in Nat /\ Len(t) \in Nat
      /\ \A i \in 1..n : st[i] = s[i]
  BY ConcatProperties, LenProperties
<1> HIDE DEF n, st
<1>2. \A i \in 1..n : st[i] \in S
  <2>1. \A i \in 1..Len(st) : st[i] \in S
    BY <1>1, ElementOfSeq
  <2> QED
    BY <1>1, <2>1
<1>3. front \in Seq(S) /\ Len(front) = n /\ \A i \in 1..n : front[i] = st[i]
  <2>1. /\ front \in Seq(S) /\ Len(front) = IF 1 <= n THEN n - 1 + 1 ELSE 0
        /\ \A i \in 1..(n - 1 + 1) : front[i] = st[1 + i - 1]
    BY <1>1, <1>2, SubSeqProperties
  <2>2. \A i \in 1..n : i \in 1..(n - 1 + 1) /\ 1 + i - 1 = i
    BY <1>1
  <2> HIDE DEF front
  <2> QED
    BY <1>1, <2>1, <2>2
<1> HIDE DEF front
<1>4. front = s
  BY <1>1, <1>3, SeqEqual DEF n
<1> QED
  BY <1>4 DEF front, n, st

\* Writing t over a sequence after its first k elements.
LEMMA OverwritePart ==
  ASSUME NEW S, NEW s \in Seq(S), NEW t \in Seq(S), NEW k \in 0..Len(s)
  PROVE  LET over == SubSeq(s, 1, k) \o t \o SubSeq(s, k + Len(t) + 1, Len(s))
         IN  /\ over \in Seq(S) /\ Len(over) >= Len(s) /\ Len(over) >= k + Len(t)
             /\ SubSeq(s, 1, k) \in Seq(S)
             /\ SubSeq(over, 1, k + Len(t)) = SubSeq(s, 1, k) \o t
<1> DEFINE front == SubSeq(s, 1, k)
           m == k + Len(t)
           back == SubSeq(s, m + 1, Len(s))
           start == front \o t
           over == start \o back
<1>1. /\ Len(s) \in Nat /\ Len(t) \in Nat /\ k \in Nat /\ k <= Len(s)
      /\ \A i \in 1..Len(s) : s[i] \in S
  BY LenProperties, ElementOfSeq
<1>2. front \in Seq(S) /\ Len(front) = k
  <2>1. \A i \in 1..k : s[i] \in S
    BY <1>1
  <2>2. front \in Seq(S) /\ Len(front) = IF 1 <= k THEN k - 1 + 1 ELSE 0
    BY <1>1, <2>1, SubSeqProperties
  <2> HIDE DEF front
  <2> QED
    BY <1>1, <2>2
<1>3. back \in Seq(S) /\ Len(back) \in Nat /\ Len(back) >= Len(s) - m
  <2>1. \A i \in (m + 1)..Len(s) : s[i] \in S
    BY <1>1
  <2>2. m + 1 \in Int /\ Len(s) \in Int
    BY <1>1
  <2>3. back \in Seq(S) /\ Len(back) = IF m + 1 <= Len(s) THEN Len(s) - (m + 1) + 1 ELSE 0
    <3> HIDE DEF m
    <3> QED
      BY <2>1, <2>2, SubSeqProperties
  <2> HIDE DEF back
  <2> QED
    BY <1>1, <2>3
<1> HIDE DEF front, back
<1>4. start \in Seq(S) /\ Len(start) = m
  BY <1>2, ConcatProperties
<1> HIDE DEF start
<1>5. over \in Seq(S) /\ Len(over) = m + Len(back)
  BY <1>3, <1>4, ConcatProperties
<1>6. SubSeq(over, 1, m) = start
  BY <1>3, <1>4, FrontOfConcat
<1>7. Len(over) >= Len(s) /\ Len(over) >= m
  <2> HIDE DEF over
  <2> QED
    BY <1>1, <1>3, <1>5
<1> QED
  BY <1>2, <1>5, <1>6, <1>7 DEF start, front, back

\* A sequence flattened out of its own elements, one by one.
LEMMA FlattenOnes ==
  ASSUME NEW S, NEW s \in Seq(S)
  PROVE  FlattenSeq([i \in 1..Len(s) |-> <<s[i]>>]) = s
<1> DEFINE n == Len(s)
           ones == [i \in 1..n |-> <<s[i]>>]
           g == [i \in 0..n |-> SubSeq(s, 1, i)]
<1>1. n \in Nat /\ \A i \in 1..n : s[i] \in S
  BY LenProperties, ElementOfSeq
<1>2. \A i \in 1..n : <<s[i]>> \in Seq(S)
  BY <1>1
<1>3. ones \in Seq(Seq(S)) /\ Len(ones) = n /\ \A i \in 1..n : ones[i] = <<s[i]>>
  BY <1>1, <1>2
<1>4. ASSUME NEW i \in 0..n PROVE SubSeq(s, 1, i) \in Seq(S)
  <2>1. i \in Int /\ \A j \in 1..i : s[j] \in S
    BY <1>1
  <2> QED
    BY <2>1, SubSeqProperties
<1>5. g \in [0..n -> Seq(S)]
  BY <1>4
<1>6. g[0] = <<>>
  <2>1. SubSeq(s, 1, 0) = <<>>
    BY SubSeqEmpty
  <2>2. 0 \in 0..n
    BY <1>1
  <2> QED
    BY <2>1, <2>2
<1>7. ASSUME NEW i \in 1..n PROVE g[i] = g[i - 1] \o ones[i]
  <2>1. i \in 0..n /\ i - 1 \in 0..n /\ i \in 1..i /\ 1 \in 1..n /\ i \in 1..n
    BY <1>1
  <2>2. SubSeq(s, 1, i) = SubSeq(s, 1, i - 1) \o <<s[i]>>
    BY <1>1, <2>1, SubSeqRecursiveSecond
  <2>3. g[i] = SubSeq(s, 1, i) /\ g[i - 1] = SubSeq(s, 1, i - 1)
    BY <2>1
  <2> HIDE DEF g, ones, n
  <2> QED
    BY <1>3, <2>2, <2>3
<1>8. g[n] = s
  <2>1. n \in 0..n
    BY <1>1
  <2> QED
    BY <2>1, SubSeqFull
<1> HIDE DEF g, ones
<1>9. IsFlattening(S, ones, g)
  BY <1>3, <1>5, <1>6, <1>7 DEF IsFlattening
<1>10. FlattenSeq(ones) = g[n]
  BY <1>3, <1>9, FlatteningIs
<1> QED
  BY <1>8, <1>10 DEF ones

\* However many empty sequences, they flatten to nothing.
LEMMA FlattenNothing ==
  ASSUME NEW n \in Nat
  PROVE  FlattenSeq([i \in 1..n |-> <<>>]) = <<>>
<1> DEFINE S == {}
           nones == [i \in 1..n |-> <<>>]
           g == [i \in 0..n |-> <<>>]
<1>1. <<>> \in Seq(S) /\ <<>> \o <<>> = <<>>
  BY EmptySeq, ConcatEmptySeq
<1> HIDE DEF S
<1>2. nones \in Seq(Seq(S)) /\ Len(nones) = n /\ \A i \in 1..n : nones[i] = <<>>
  BY <1>1
<1>3. g \in [0..n -> Seq(S)] /\ \A i \in 0..n : g[i] = <<>>
  BY <1>1
<1>4. 0 \in 0..n /\ n \in 0..n /\ \A i \in 1..n : i \in 0..n /\ i - 1 \in 0..n
  OBVIOUS
<1> HIDE DEF g, nones
<1>5. IsFlattening(S, nones, g)
  BY <1>1, <1>2, <1>3, <1>4 DEF IsFlattening
<1> QED
  BY <1>2, <1>3, <1>4, <1>5, FlatteningIs DEF nones

\* A sequence is its head and its tail.
LEMMA HeadAndTail ==
  ASSUME NEW S, NEW s \in Seq(S), s # <<>>
  PROVE  s = <<Head(s)>> \o Tail(s)
<1>1. Len(s) \in Nat \ {0}
  BY EmptySeq
<1>2. 1 \in 1..Len(s) /\ Len(s) \in 1..Len(s)
  BY <1>1
<1>3. SubSeq(s, 1, Len(s)) = <<s[1]>> \o SubSeq(s, 1 + 1, Len(s))
  BY <1>2, SubSeqRecursiveFirst
<1>4. SubSeq(s, 1, Len(s)) = s /\ Tail(s) = SubSeq(s, 2, Len(s)) /\ Head(s) = s[1] /\ 1 + 1 = 2
  BY SubSeqFull, TailIsSubSeq
<1> QED
  BY <1>3, <1>4

\* What is left of a concatenation after its first n elements, if those do not
\* reach into its second part.
LEMMA RestOfConcat ==
  ASSUME NEW S, NEW s \in Seq(S), NEW t \in Seq(S), NEW n \in 0..Len(s)
  PROVE  SubSeq(s \o t, n + 1, Len(s \o t)) = SubSeq(s, n + 1, Len(s)) \o t
<1> DEFINE k == Len(s)
           l == Len(t)
           st == s \o t
<1>1. /\ st \in Seq(S) /\ Len(st) = k + l /\ k \in Nat /\ l \in Nat
      /\ n \in Nat /\ n <= k
  BY ConcatProperties, LenProperties
<1>2. SubSeq(st, n + 1, k) = SubSeq(s, n + 1, k)
  <2>1. CASE n = k
    <3>1. n + 1 \in Int /\ k \in Int /\ k < n + 1
      BY <1>1, <2>1
    <3> HIDE DEF st, k
    <3> QED
      BY <3>1, SubSeqEmpty
  <2>2. CASE n # k
    <3>1. n + 1 \in 1..Len(s) /\ k \in 1..Len(s)
      BY <1>1, <2>2
    <3> DEFINE m == n + 1
    <3> HIDE DEF k, m
    <3>2. SubSeq(s \o t, m, k) = SubSeq(s, m, k)
      BY <3>1, SubSeqOfConcat1 DEF m
    <3> QED
      BY <3>2 DEF m, st
  <2> QED
    BY <2>1, <2>2
<1>3. SubSeq(st, k + 1, k + l) = t
  <2>1. CASE l = 0
    <3>1. t = <<>>
      BY <2>1, EmptySeq
    <3>2. k + 1 \in Int /\ k + l \in Int /\ k + l < k + 1
      BY <1>1, <2>1
    <3> HIDE DEF st, k, l
    <3> QED
      BY <3>1, <3>2, SubSeqEmpty
  <2>2. CASE l # 0
    <3> DEFINE m == k + 1
               j == k + l
    <3>1. m \in Len(s) + 1..Len(s) + Len(t) /\ j \in Len(s) + 1..Len(s) + Len(t)
      BY <1>1, <2>2
    <3>2. m - Len(s) = 1 /\ j - Len(s) = Len(t)
      BY <1>1
    <3> HIDE DEF m, j
    <3>3. SubSeq(s \o t, m, j) = SubSeq(t, m - Len(s), j - Len(s))
      BY <3>1, SubSeqOfConcat2
    <3>4. SubSeq(t, 1, Len(t)) = t
      BY SubSeqFull
    <3> QED
      BY <3>2, <3>3, <3>4 DEF m, j
  <2> QED
    BY <2>1, <2>2
<1>4. SubSeq(st, n + 1, k) \o SubSeq(st, k + 1, k + l) = SubSeq(st, n + 1, k + l)
  <2> DEFINE m == n + 1
             j == k + l
  <2>1. m \in 1..Len(st) + 1 /\ k \in m - 1..Len(st) /\ j \in k..Len(st)
    BY <1>1
  <2> HIDE DEF m, j, st, k
  <2>2. SubSeq(st, m, k) \o SubSeq(st, k + 1, j) = SubSeq(st, m, j)
    BY <1>1, <2>1, ConcatAdjacentSubSeq
  <2> QED
    BY <2>2 DEF m, j
<1> HIDE DEF st
<1> QED
  BY <1>1, <1>2, <1>3, <1>4 DEF st
=============================================================================
