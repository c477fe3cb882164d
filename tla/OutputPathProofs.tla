-------------------------- MODULE OutputPathProofs --------------------------
(***************************************************************************)
(* Theorems about OutputPath, for every set of workers, every number and   *)
(* capacity of slots, every overflow budget and all sizes of records.  The *)
(* inductive invariant is what the properties say themselves - who holds a *)
(* slot, and what overflow_used counts - with two things they rest on: a   *)
(* message never names more of its slot than was written there, and the    *)
(* output worker ends only after a failed write.                           *)
(***************************************************************************)
EXTENDS OutputPath, QueueLemmas, FiniteSetTheorems, TLAPS

-----------------------------------------------------------------------------
(* The inductive invariant.                                                *)

\* A slab buffer says no more of its slot than has been written there.
InSlab(b) == IsSlab(b) => b.len <= Len(mem[b.slot])

Filled ==
  /\ \A w \in Workers : InSlab(buf[w])
  /\ \A i \in 1..Len(chan) : InSlab(chan[i])
  /\ \A i \in 1..Len(batch) : InSlab(batch[i])

EndsByFailure == writer \in {"last", "dead"} => failed

IInv == TypeOK /\ SlotOwnership /\ PoolConserved /\ Filled /\ EndsByFailure

-----------------------------------------------------------------------------
(* Overflow budget, counted.                                               *)

\* The units of budget of the buffers at some places of bufs.
Units(D, bufs) == UNION {{i} \X (1..BudgetOf(bufs[i])) : i \in D}

\* A unit of budget is a place and a number.
LEMMA UnitsAre ==
  ASSUME NEW D, NEW bufs, \A i \in D : BudgetOf(bufs[i]) \in Nat
  PROVE  \A u : u \in Units(D, bufs) <=>
           \E i \in D, k \in Nat :
             1 <= k /\ k <= BudgetOf(bufs[i]) /\ u = <<i, k>>
BY DEF Units

\* The units of finitely many buffers are finitely many.
LEMMA UnitsFinite ==
  ASSUME NEW D, IsFiniteSet(D), NEW bufs, \A i \in D : BudgetOf(bufs[i]) \in Nat
  PROVE  IsFiniteSet(Units(D, bufs))
<1> DEFINE Of1(i) == {i} \X (1..BudgetOf(bufs[i]))
           U == {Of1(i) : i \in D}
           f == [i \in D |-> Of1(i)]
<1>1. f \in Surjection(D, U)
  BY DEF Surjection
<1>2. IsFiniteSet(U)
  BY <1>1, FS_Surjection
<1>3. ASSUME NEW i \in D PROVE IsFiniteSet(Of1(i))
  <2>1. IsFiniteSet({i})
    BY FS_Singleton
  <2>2. IsFiniteSet(1..BudgetOf(bufs[i]))
    BY FS_Interval
  <2> QED
    BY <2>1, <2>2, FS_Product
<1>4. \A T \in U : IsFiniteSet(T)
  BY <1>3
<1>5. IsFiniteSet(UNION U)
  BY <1>2, <1>4, FS_UNION
<1> QED
  BY <1>5 DEF Units

\* One place more counts for what the buffer there has.
LEMMA UnitsAdd ==
  ASSUME NEW D, IsFiniteSet(D), NEW d, d \notin D, NEW bufs,
         \A i \in D \union {d} : BudgetOf(bufs[i]) \in Nat
  PROVE  Cardinality(Units(D \union {d}, bufs)) =
           Cardinality(Units(D, bufs)) + BudgetOf(bufs[d])
<1> DEFINE A == Units(D, bufs)
           B == {d} \X (1..BudgetOf(bufs[d]))
<1>1. IsFiniteSet(A)
  BY UnitsFinite
<1>2. IsFiniteSet(B) /\ Cardinality(B) = BudgetOf(bufs[d])
  <2>1. IsFiniteSet({d}) /\ Cardinality({d}) = 1
    BY FS_Singleton
  <2>2. /\ IsFiniteSet(1..BudgetOf(bufs[d]))
        /\ Cardinality(1..BudgetOf(bufs[d])) = BudgetOf(bufs[d])
    BY FS_Interval
  <2>3. /\ IsFiniteSet(B)
        /\ Cardinality(B) = Cardinality({d}) * Cardinality(1..BudgetOf(bufs[d]))
    BY <2>1, <2>2, FS_Product
  <2> QED
    BY <2>1, <2>2, <2>3
<1>3. Units(D \union {d}, bufs) = A \union B
  BY DEF Units
<1>4. A \intersect B = {}
  <2> SUFFICES ASSUME NEW u \in A, u \in B PROVE FALSE
    OBVIOUS
  <2>1. PICK i \in D, k \in Nat :
            1 <= k /\ k <= BudgetOf(bufs[i]) /\ u = <<i, k>>
    BY UnitsAre
  <2>2. u[1] = d
    OBVIOUS
  <2> QED
    BY <2>1, <2>2
<1>5. Cardinality(A \intersect B) = 0
  BY <1>4, FS_EmptySet
<1>6. Cardinality(A \union B) = Cardinality(A) + Cardinality(B) - Cardinality(A \intersect B)
  BY <1>1, <1>2, FS_Union
<1>7. Cardinality(A) \in Nat /\ BudgetOf(bufs[d]) \in Nat
  BY <1>1, FS_CardinalityType
<1>8. Cardinality(Units(D \union {d}, bufs)) = Cardinality(A \union B)
  BY <1>3, Zenon
<1> HIDE DEF A, B
<1>9. Cardinality(A \union B) = Cardinality(A) + BudgetOf(bufs[d])
  BY <1>2, <1>5, <1>6, <1>7
<1> QED
  BY <1>8, <1>9, Zenon DEF A

\* Buffers of the same budget at the same places have the same units.
LEMMA UnitsSame ==
  ASSUME NEW D, NEW a, NEW b, \A i \in D : BudgetOf(a[i]) = BudgetOf(b[i])
  PROVE  Units(D, a) = Units(D, b)
BY DEF Units


\* Budget counts the units of all places.
LEMMA BudgetIsUnits ==
  ASSUME NEW bufs
  PROVE  Budget(bufs) = Cardinality(Units(DOMAIN bufs, bufs))
BY DEF Budget, Units

\* Another buffer at one place.
LEMMA BudgetExchange ==
  ASSUME NEW D, IsFiniteSet(D), NEW d \in D, NEW a, NEW b,
         DOMAIN a = D, DOMAIN b = D,
         \A i \in D : BudgetOf(a[i]) \in Nat /\ BudgetOf(b[i]) \in Nat,
         \A i \in D \ {d} : b[i] = a[i]
  PROVE  /\ Budget(a) \in Nat /\ Budget(b) \in Nat
         /\ Budget(a) + BudgetOf(b[d]) = Budget(b) + BudgetOf(a[d])
         /\ Budget(a) >= BudgetOf(a[d])
<1> DEFINE E == D \ {d}
<1>1. IsFiniteSet(E) /\ d \notin E /\ E \union {d} = D
  BY FS_RemoveElement
<1>2. Units(E, a) = Units(E, b)
  BY UnitsSame
<1>3. /\ Cardinality(Units(E \union {d}, a)) = Cardinality(Units(E, a)) + BudgetOf(a[d])
      /\ Cardinality(Units(E \union {d}, b)) = Cardinality(Units(E, b)) + BudgetOf(b[d])
  <2> HIDE DEF E
  <2> QED
    BY <1>1, UnitsAdd
<1>4. Cardinality(Units(E, a)) \in Nat
  <2>1. IsFiniteSet(Units(E, a))
    BY <1>1, UnitsFinite
  <2> QED
    BY <2>1, FS_CardinalityType
<1>5. /\ Budget(a) = Cardinality(Units(E, a)) + BudgetOf(a[d])
      /\ Budget(b) = Cardinality(Units(E, a)) + BudgetOf(b[d])
  BY <1>1, <1>2, <1>3, BudgetIsUnits
<1>6. BudgetOf(a[d]) \in Nat /\ BudgetOf(b[d]) \in Nat
  OBVIOUS
<1> HIDE DEF E
<1> QED
  BY <1>4, <1>5, <1>6

\* No buffers, and one more at the end.
LEMMA BudgetAppend ==
  ASSUME NEW S, NEW bufs \in Seq(S), NEW b \in S, \A c \in S : BudgetOf(c) \in Nat
  PROVE  /\ Budget(<<>>) = 0
         /\ Budget(bufs) \in Nat
         /\ Budget(Append(bufs, b)) = Budget(bufs) + BudgetOf(b)
<1> DEFINE n == Len(bufs)
           more == Append(bufs, b)
<1>1. /\ n \in Nat /\ DOMAIN bufs = 1..n /\ DOMAIN more = (1..n) \union {n + 1}
      /\ more[n + 1] = b /\ \A i \in 1..n : more[i] = bufs[i] /\ bufs[i] \in S
  <2>1. /\ more \in Seq(S) /\ Len(more) = n + 1 /\ more[n + 1] = b
        /\ \A i \in 1..n : more[i] = bufs[i]
    BY AppendProperties
  <2>2. n \in Nat /\ DOMAIN bufs = 1..n /\ DOMAIN more = 1..(n + 1)
    BY <2>1, LenProperties
  <2>3. 1..(n + 1) = (1..n) \union {n + 1}
    BY <2>2
  <2>4. \A i \in 1..n : bufs[i] \in S
    BY ElementOfSeq
  <2> QED
    BY <2>1, <2>2, <2>3, <2>4
<1> HIDE DEF n, more
<1>2. IsFiniteSet(1..n) /\ n + 1 \notin 1..n
  BY <1>1, FS_Interval
<1>3. \A i \in (1..n) \union {n + 1} : BudgetOf(more[i]) \in Nat
  BY <1>1
<1>4. Cardinality(Units((1..n) \union {n + 1}, more)) =
        Cardinality(Units(1..n, more)) + BudgetOf(more[n + 1])
  BY <1>2, <1>3, UnitsAdd
<1>5. Units(1..n, more) = Units(1..n, bufs)
  BY <1>1, UnitsSame
<1>6. Budget(more) = Budget(bufs) + BudgetOf(b)
  BY <1>1, <1>4, <1>5, BudgetIsUnits
<1>7. Budget(bufs) \in Nat
  <2>1. IsFiniteSet(Units(1..n, bufs))
    BY <1>1, <1>2, UnitsFinite
  <2> QED
    BY <1>1, <2>1, FS_CardinalityType, BudgetIsUnits
<1>8. Budget(<<>>) = 0
  <2>1. Units(DOMAIN <<>>, <<>>) = {}
    BY DEF Units
  <2> QED
    BY <2>1, BudgetIsUnits, FS_EmptySet
<1> QED
  BY <1>6, <1>7, <1>8 DEF more

\* One less at the front.
LEMMA BudgetTail ==
  ASSUME NEW S, NEW bufs \in Seq(S), bufs # <<>>, \A c \in S : BudgetOf(c) \in Nat
  PROVE  /\ Budget(Tail(bufs)) \in Nat
         /\ Budget(bufs) = BudgetOf(Head(bufs)) + Budget(Tail(bufs))
<1> DEFINE n == Len(bufs)
           rest == Tail(bufs)
           A == Units(2..n, bufs)
           B == Units(1..(n - 1), rest)
           f == [u \in A |-> <<u[1] - 1, u[2]>>]
<1>1. /\ n \in Nat \ {0} /\ DOMAIN bufs = (2..n) \union {1} /\ DOMAIN rest = 1..(n - 1)
      /\ bufs[1] = Head(bufs) /\ \A i \in 1..(n - 1) : rest[i] = bufs[i + 1]
      /\ \A i \in 1..n : bufs[i] \in S
  <2>1. /\ rest \in Seq(S) /\ Len(rest) = n - 1 /\ bufs[1] = Head(bufs)
        /\ \A i \in 1..(n - 1) : rest[i] = bufs[i + 1]
    BY HeadTailProperties
  <2>2. n \in Nat /\ n # 0 /\ DOMAIN bufs = 1..n /\ DOMAIN rest = 1..(n - 1)
    BY <2>1, LenProperties, EmptySeq
  <2>3. 1..n = (2..n) \union {1}
    BY <2>2
  <2>4. \A i \in 1..n : bufs[i] \in S
    BY ElementOfSeq
  <2> QED
    BY <2>1, <2>2, <2>3, <2>4
<1> HIDE DEF n, rest
<1>2. IsFiniteSet(2..n) /\ 1 \notin 2..n
  BY <1>1, FS_Interval
<1>3. \A i \in (2..n) \union {1} : BudgetOf(bufs[i]) \in Nat
  BY <1>1
<1>4. Cardinality(Units((2..n) \union {1}, bufs)) = Cardinality(A) + BudgetOf(bufs[1])
  BY <1>2, <1>3, UnitsAdd
<1>5. IsFiniteSet(A)
  BY <1>2, <1>3, UnitsFinite
<1>6. f \in Bijection(A, B)
  <2>1. \A u : u \in A <=> \E i \in 2..n, k \in Nat :
                            1 <= k /\ k <= BudgetOf(bufs[i]) /\ u = <<i, k>>
    <3>1. \A i \in 2..n : BudgetOf(bufs[i]) \in Nat
      BY <1>3
    <3> QED
      BY <3>1 DEF Units
  <2>2. \A u : u \in B <=> \E i \in 1..(n - 1), k \in Nat :
                            1 <= k /\ k <= BudgetOf(rest[i]) /\ u = <<i, k>>
    <3>1. \A i \in 1..(n - 1) : BudgetOf(rest[i]) \in Nat
      BY <1>1
    <3> QED
      BY <3>1 DEF Units
  <2> HIDE DEF A, B
  <2>3. ASSUME NEW u \in A PROVE f[u] \in B
    <3>1. PICK i \in 2..n, k \in Nat :
            1 <= k /\ k <= BudgetOf(bufs[i]) /\ u = <<i, k>>
      BY <2>1
    <3>2. i - 1 \in 1..(n - 1) /\ rest[i - 1] = bufs[i]
      BY <1>1
    <3>3. f[u] = <<i - 1, k>>
      BY <3>1
    <3> HIDE DEF f
    <3> QED
      BY <2>2, <3>1, <3>2, <3>3
  <2>4. ASSUME NEW u \in A, NEW v \in A, f[u] = f[v] PROVE u = v
    <3>1. PICK i \in 2..n, k \in Nat :
            1 <= k /\ k <= BudgetOf(bufs[i]) /\ u = <<i, k>>
      BY <2>1
    <3>2. PICK j \in 2..n, l \in Nat :
            1 <= l /\ l <= BudgetOf(bufs[j]) /\ v = <<j, l>>
      BY <2>1
    <3>3. i - 1 = j - 1 /\ k = l
      BY <2>4, <3>1, <3>2
    <3>4. i = j
      BY <1>1, <3>3
    <3> QED
      BY <3>1, <3>2, <3>3, <3>4
  <2>5. ASSUME NEW v \in B PROVE \E u \in A : f[u] = v
    <3>1. PICK j \in 1..(n - 1), l \in Nat :
            1 <= l /\ l <= BudgetOf(rest[j]) /\ v = <<j, l>>
      BY <2>2
    <3>2. j + 1 \in 2..n /\ rest[j] = bufs[j + 1] /\ (j + 1) - 1 = j
      BY <1>1
    <3>3. <<j + 1, l>> \in A
      BY <2>1, <3>1, <3>2
    <3>4. f[<<j + 1, l>>] = <<(j + 1) - 1, l>>
      BY <3>3
    <3> HIDE DEF f
    <3> QED
      BY <3>1, <3>2, <3>3, <3>4
  <2>6. f \in [A -> B]
    BY <2>3
  <2> HIDE DEF f
  <2> QED
    BY <2>4, <2>5, <2>6 DEF Bijection, Injection, Surjection, IsInjective
<1>7. Cardinality(B) = Cardinality(A)
  <2> HIDE DEF A, B, f
  <2> QED
    BY <1>5, <1>6, FS_Bijection DEF ExistsBijection
<1>8. Cardinality(A) \in Nat
  BY <1>5, FS_CardinalityType
<1>9. Budget(bufs) = Cardinality(A) + BudgetOf(bufs[1]) /\ Budget(rest) = Cardinality(B)
  BY <1>1, <1>4, BudgetIsUnits
<1>10. BudgetOf(bufs[1]) \in Nat
  BY <1>1, <1>3
<1> HIDE DEF A, B
<1> QED
  BY <1>1, <1>7, <1>8, <1>9, <1>10 DEF rest

-----------------------------------------------------------------------------
(* Buffers, and the slots that a sequence of them holds.                   *)

Messages == Buffers \union {FlushReq}

\* The slot a buffer holds, if it holds one.
One(b) == IF IsSlab(b) THEN {b.slot} ELSE {}

\* A buffer in a slot.
LEMMA SlabFacts ==
  ASSUME NEW b \in Buffers, IsSlab(b)
  PROVE  b \in SlabBuffers /\ b.slot \in SlotIds /\ b.len \in Nat /\ BufLen(b) = b.len
BY DEF Buffers, SlabBuffers, OwnedBuffers, IsSlab, BufLen

\* A buffer of its own.
LEMMA OwnedFacts ==
  ASSUME NEW b \in Buffers, ~IsSlab(b)
  PROVE  /\ b \in OwnedBuffers /\ b.kind = "owned"
         /\ b.data \in Seq(Cells) /\ b.reserved \in Nat /\ BufLen(b) = Len(b.data)
BY DEF Buffers, SlabBuffers, OwnedBuffers, IsSlab, BufLen

\* What the two kinds of buffer and the request to flush hold of the pool.
LEMMA BufferFacts ==
  ASSUME NEW b \in Messages
  PROVE  /\ BudgetOf(b) \in Nat
         /\ b \in Buffers => BufLen(b) \in Nat
         /\ IsSlab(b) => b \in Buffers /\ BudgetOf(b) = 0
         /\ b.kind = "flush" => BudgetOf(b) = 0
         /\ b.kind # "flush" => b \in Buffers
<1>1. CASE b \in Buffers
  <2>1. CASE IsSlab(b)
    <3>1. b.len \in Nat /\ BufLen(b) = b.len /\ b.kind = "slab"
      BY <2>1, <1>1, SlabFacts DEF IsSlab
    <3> QED
      BY <3>1, <1>1 DEF BudgetOf
  <2>2. CASE ~IsSlab(b)
    <3>1. b.reserved \in Nat /\ b.kind = "owned" /\ BufLen(b) = Len(b.data) /\ b.data \in Seq(Cells)
      BY <2>2, <1>1, OwnedFacts
    <3>2. BufLen(b) \in Nat
      BY <3>1, LenProperties
    <3> QED
      BY <3>1, <3>2, <1>1, <2>2 DEF BudgetOf
  <2> QED
    BY <2>1, <2>2
<1>2. CASE b = FlushReq
  <2>1. b.kind = "flush" /\ b \notin Buffers
    BY <1>2 DEF FlushReq, Buffers, SlabBuffers, OwnedBuffers
  <2> QED
    BY <2>1 DEF IsSlab, BudgetOf
<1> QED
  BY <1>1, <1>2 DEF Messages

\* What it is for a slot to be in a sequence of buffers.
LEMMA SlotsAre ==
  ASSUME NEW S, NEW bufs \in Seq(S)
  PROVE  \A x : x \in SlotsIn(bufs) <=>
           \E i \in 1..Len(bufs) : IsSlab(bufs[i]) /\ x = bufs[i].slot
<1>1. DOMAIN bufs = 1..Len(bufs)
  BY LenProperties
<1>2. \A c : c \in ToSet(bufs) <=> \E i \in 1..Len(bufs) : c = bufs[i]
  BY <1>1 DEF ToSet
<1>3. \A x : x \in SlotsIn(bufs) <=> \E c \in ToSet(bufs) : c.kind = "slab" /\ x = c.slot
  BY Zenon DEF SlotsIn
<1>4. ASSUME NEW x \in SlotsIn(bufs)
      PROVE  \E i \in 1..Len(bufs) : IsSlab(bufs[i]) /\ x = bufs[i].slot
  <2>1. PICK c \in ToSet(bufs) : c.kind = "slab" /\ x = c.slot
    BY <1>3
  <2>2. PICK i \in 1..Len(bufs) : c = bufs[i]
    BY <1>2
  <2> QED
    BY <2>1, <2>2 DEF IsSlab
<1>5. ASSUME NEW i \in 1..Len(bufs), IsSlab(bufs[i]) PROVE bufs[i].slot \in SlotsIn(bufs)
  <2>1. bufs[i] \in ToSet(bufs) /\ bufs[i].kind = "slab"
    BY <1>2, <1>5 DEF IsSlab
  <2> QED
    BY <1>3, <2>1
<1> QED
  BY <1>4, <1>5

\* No buffer, and one buffer.
LEMMA SlotsSmall ==
  /\ SlotsIn(<<>>) = {} /\ Distinct(<<>>)
  /\ \A S : \A b \in S : SlotsIn(<<b>>) = One(b)
<1>1. SlotsIn(<<>>) = {}
  BY DEF SlotsIn, ToSet
<1>2. Distinct(<<>>)
  BY DEF Distinct
<1>3. ASSUME NEW S, NEW b \in S PROVE SlotsIn(<<b>>) = One(b)
  <2> DEFINE s == <<b>>
  <2>1. s \in Seq(S) /\ Len(s) = 1 /\ s[1] = b
    OBVIOUS
  <2>2. \A x : x \in SlotsIn(s) <=> \E i \in 1..Len(s) : IsSlab(s[i]) /\ x = s[i].slot
    BY <2>1, SlotsAre
  <2> HIDE DEF s
  <2>3. 1 \in 1..Len(s) /\ \A i \in 1..Len(s) : i = 1
    BY <2>1
  <2>4. \A x : (\E i \in 1..Len(s) : IsSlab(s[i]) /\ x = s[i].slot) <=>
               IsSlab(b) /\ x = b.slot
    BY <2>1, <2>3
  <2>5. \A x : x \in SlotsIn(s) <=> IsSlab(b) /\ x = b.slot
    BY <2>2, <2>4
  <2>6. SlotsIn(s) = One(b)
    BY <2>5, Zenon DEF One
  <2> QED
    BY <2>6 DEF s
<1> QED
  BY <1>1, <1>2, <1>3

\* One more at the end.
LEMMA SlotsAppend ==
  ASSUME NEW S, NEW bufs \in Seq(S), NEW b \in S
  PROVE  /\ SlotsIn(Append(bufs, b)) = SlotsIn(bufs) \union One(b)
         /\ Distinct(bufs) /\ One(b) \intersect SlotsIn(bufs) = {}
              => Distinct(Append(bufs, b))
<1> DEFINE more == Append(bufs, b)
           n == Len(bufs)
<1>1. /\ more \in Seq(S) /\ Len(more) = n + 1 /\ more[n + 1] = b /\ n \in Nat
      /\ \A i \in 1..n : more[i] = bufs[i] /\ i \in 1..(n + 1)
      /\ \A i \in 1..(n + 1) : i \in 1..n \/ i = n + 1
      /\ n + 1 \in 1..(n + 1)
  BY AppendProperties, LenProperties
<1>4. /\ \A x : x \in SlotsIn(bufs) <=>
               \E i \in 1..n : IsSlab(bufs[i]) /\ x = bufs[i].slot
      /\ \A x : x \in SlotsIn(more) <=>
               \E i \in 1..(n + 1) : IsSlab(more[i]) /\ x = more[i].slot
  <2>1. \A x : x \in SlotsIn(more) <=>
               \E i \in 1..Len(more) : IsSlab(more[i]) /\ x = more[i].slot
    BY <1>1, SlotsAre
  <2>2. \A x : x \in SlotsIn(bufs) <=>
               \E i \in 1..n : IsSlab(bufs[i]) /\ x = bufs[i].slot
    BY SlotsAre
  <2>3. 1..Len(more) = 1..(n + 1)
    BY <1>1
  <2> HIDE DEF more, n
  <2> QED
    BY <2>1, <2>2, <2>3
<1>5. \A x : x \in One(b) <=> IsSlab(b) /\ x = b.slot
  BY DEF One
<1> HIDE DEF more, n
<1>6. SlotsIn(more) = SlotsIn(bufs) \union One(b)
  <2>1. \A x : x \in SlotsIn(more) <=> x \in SlotsIn(bufs) \/ x \in One(b)
    BY <1>1, <1>4, <1>5
  <2> QED
    BY <2>1
<1>7. ASSUME Distinct(bufs), One(b) \intersect SlotsIn(bufs) = {}
      PROVE  Distinct(more)
  <2>1. \A i, j \in 1..n :
          i # j /\ IsSlab(bufs[i]) /\ IsSlab(bufs[j]) => bufs[i].slot # bufs[j].slot
    BY <1>7 DEF Distinct, n
  <2>2. \A i \in 1..n : IsSlab(bufs[i]) /\ IsSlab(b) => bufs[i].slot # b.slot
    <3>1. \A x : x \in One(b) => x \notin SlotsIn(bufs)
      BY <1>7
    <3> QED
      BY <1>4, <1>5, <3>1
  <2>3. \A i, j \in 1..(n + 1) :
          i # j /\ IsSlab(more[i]) /\ IsSlab(more[j]) => more[i].slot # more[j].slot
    BY <1>1, <2>1, <2>2
  <2> QED
    BY <1>1, <2>3 DEF Distinct
<1> QED
  BY <1>6, <1>7 DEF more

\* One less at the front.
LEMMA SlotsTail ==
  ASSUME NEW S, NEW bufs \in Seq(S), bufs # <<>>
  PROVE  /\ SlotsIn(bufs) = One(Head(bufs)) \union SlotsIn(Tail(bufs))
         /\ Distinct(bufs) => /\ Distinct(Tail(bufs))
                              /\ One(Head(bufs)) \intersect SlotsIn(Tail(bufs)) = {}
<1> DEFINE rest == Tail(bufs)
           n == Len(bufs)
           b == Head(bufs)
<1>1. /\ rest \in Seq(S) /\ Len(rest) = n - 1 /\ n \in Nat \ {0} /\ bufs[1] = b
      /\ \A i \in 1..(n - 1) : rest[i] = bufs[i + 1]
  BY HeadTailProperties, LenProperties, EmptySeq
<1>2. /\ \A x : x \in SlotsIn(bufs) <=>
               \E i \in 1..n : IsSlab(bufs[i]) /\ x = bufs[i].slot
      /\ \A x : x \in SlotsIn(rest) <=>
               \E i \in 1..(n - 1) : IsSlab(rest[i]) /\ x = rest[i].slot
  <2>1. \A x : x \in SlotsIn(rest) <=>
               \E i \in 1..Len(rest) : IsSlab(rest[i]) /\ x = rest[i].slot
    BY <1>1, SlotsAre
  <2>2. \A x : x \in SlotsIn(bufs) <=>
               \E i \in 1..n : IsSlab(bufs[i]) /\ x = bufs[i].slot
    BY SlotsAre
  <2>3. 1..Len(rest) = 1..(n - 1)
    BY <1>1
  <2> HIDE DEF rest, n
  <2> QED
    BY <2>1, <2>2, <2>3
<1>3. \A x : x \in One(b) <=> IsSlab(b) /\ x = b.slot
  BY DEF One
<1>4. Distinct(bufs) <=>
        \A i, j \in 1..n :
          i # j /\ IsSlab(bufs[i]) /\ IsSlab(bufs[j]) => bufs[i].slot # bufs[j].slot
  BY DEF Distinct
<1> HIDE DEF rest, n, b
<1>5. /\ \A i \in 1..(n - 1) : i + 1 \in 1..n /\ i + 1 # 1
      /\ 1 \in 1..n
      /\ \A i \in 1..n : i = 1 \/ (i - 1 \in 1..(n - 1) /\ (i - 1) + 1 = i)
      /\ \A i, j \in 1..(n - 1) : i # j => i + 1 # j + 1
  BY <1>1
<1>6. SlotsIn(bufs) = One(b) \union SlotsIn(rest)
  <2>1. ASSUME NEW x \in SlotsIn(bufs) PROVE x \in One(b) \/ x \in SlotsIn(rest)
    <3>1. PICK i \in 1..n : IsSlab(bufs[i]) /\ x = bufs[i].slot
      BY <1>2
    <3>2. i = 1 \/ (i - 1 \in 1..(n - 1) /\ rest[i - 1] = bufs[i])
      BY <1>1, <1>5
    <3> QED
      BY <1>1, <1>2, <1>3, <3>1, <3>2
  <2>2. \A x \in One(b) : x \in SlotsIn(bufs)
    BY <1>1, <1>2, <1>3, <1>5
  <2>3. ASSUME NEW x \in SlotsIn(rest) PROVE x \in SlotsIn(bufs)
    <3>1. PICK i \in 1..(n - 1) : IsSlab(rest[i]) /\ x = rest[i].slot
      BY <1>2
    <3>2. i + 1 \in 1..n /\ rest[i] = bufs[i + 1]
      BY <1>1, <1>5
    <3> QED
      BY <1>2, <3>1, <3>2
  <2> QED
    BY <2>1, <2>2, <2>3
<1>7. ASSUME Distinct(bufs) PROVE Distinct(rest) /\ One(b) \intersect SlotsIn(rest) = {}
  <2>1. One(b) \intersect SlotsIn(rest) = {}
    <3>1. \A x : ~(x \in One(b) /\ x \in SlotsIn(rest))
      BY <1>1, <1>2, <1>3, <1>4, <1>5, <1>7, SMTT(20)
    <3> QED
      BY <3>1
  <2>2. ASSUME NEW i \in 1..(n - 1), NEW j \in 1..(n - 1),
               i # j, IsSlab(rest[i]), IsSlab(rest[j])
        PROVE  rest[i].slot # rest[j].slot
    <3>1. /\ i + 1 \in 1..n /\ j + 1 \in 1..n /\ i + 1 # j + 1
          /\ rest[i] = bufs[i + 1] /\ rest[j] = bufs[j + 1]
      BY <1>1, <1>5, <2>2
    <3> QED
      BY <1>4, <1>7, <2>2, <3>1
  <2> QED
    BY <1>1, <2>1, <2>2 DEF Distinct
<1> QED
  BY <1>6, <1>7 DEF rest, b

-----------------------------------------------------------------------------
(* What writing into a buffer, and exchanging a worker's buffer, do.       *)

\* The buffer keeps its slot or its reservation, and what is in the slots only
\* gets more.
LEMMA PutInStep ==
  ASSUME TypeOK, NEW w \in Workers, NEW b \in Buffers, InSlab(b),
         NEW cells \in Seq(Cells), PutIn(w, b, cells)
  PROVE  /\ mem' \in [SlotIds -> Seq(Cells)]
         /\ \A s \in SlotIds : Len(mem'[s]) >= Len(mem[s])
         /\ stream' \in [Workers -> Seq(Cells)]
         /\ \E c \in Buffers :
              /\ buf' = [buf EXCEPT ![w] = c]
              /\ One(c) = One(b) /\ BudgetOf(c) = BudgetOf(b)
              /\ IsSlab(c) <=> IsSlab(b)
              /\ IsSlab(c) => c.slot = b.slot /\ c.len <= Len(mem'[c.slot])
<1>0. /\ mem \in [SlotIds -> Seq(Cells)] /\ buf \in [Workers -> Buffers]
      /\ stream \in [Workers -> Seq(Cells)]
      /\ Len(cells) \in Nat
      /\ \A s \in SlotIds : Len(mem[s]) \in Nat
  BY LenProperties DEF TypeOK
<1>1. stream' \in [Workers -> Seq(Cells)]
  <2>1. stream[w] \o cells \in Seq(Cells)
    BY <1>0, ConcatProperties
  <2>2. stream' = [stream EXCEPT ![w] = stream[w] \o cells]
    BY DEF PutIn
  <2> QED
    BY <1>0, <2>1, <2>2
<1>2. CASE IsSlab(b)
  <2> DEFINE over == SubSeq(mem[b.slot], 1, b.len) \o cells
                       \o SubSeq(mem[b.slot], b.len + Len(cells) + 1, Len(mem[b.slot]))
             c == [b EXCEPT !.len = b.len + Len(cells)]
  <2>1. /\ b \in SlabBuffers /\ b.slot \in SlotIds /\ b.len \in Nat /\ b.kind = "slab"
        /\ b.len \in 0..Len(mem[b.slot]) /\ mem[b.slot] \in Seq(Cells)
    <3>1. b.slot \in SlotIds /\ b.len \in Nat /\ b \in SlabBuffers
      BY <1>2, SlabFacts
    <3>2. b.len <= Len(mem[b.slot])
      BY <1>2 DEF InSlab
    <3>3. Len(mem[b.slot]) \in Nat /\ mem[b.slot] \in Seq(Cells)
      BY <1>0, <3>1
    <3> QED
      BY <1>2, <3>1, <3>2, <3>3 DEF IsSlab
  <2>2. over \in Seq(Cells) /\ Len(over) >= Len(mem[b.slot]) /\ Len(over) >= b.len + Len(cells)
    BY <2>1, OverwritePart
  <2>3. mem' = [mem EXCEPT ![b.slot] = over] /\ buf' = [buf EXCEPT ![w] = c]
    BY <2>1 DEF PutIn
  <2>4. /\ c \in SlabBuffers /\ c.slot = b.slot /\ c.kind = "slab"
        /\ c.len = b.len + Len(cells)
    <3> DEFINE l == b.len + Len(cells)
    <3>1. l \in Nat
      BY <1>0, <2>1
    <3> HIDE DEF l
    <3>2. [b EXCEPT !.len = l] = [kind |-> "slab", slot |-> b.slot, len |-> l]
      BY <2>1 DEF SlabBuffers
    <3>3. [kind |-> "slab", slot |-> b.slot, len |-> l] \in SlabBuffers
      BY <2>1, <3>1 DEF SlabBuffers
    <3> QED
      BY <3>2, <3>3 DEF l
  <2> HIDE DEF over, c
  <2>5. /\ mem' \in [SlotIds -> Seq(Cells)]
        /\ \A s \in SlotIds : Len(mem'[s]) >= Len(mem[s])
        /\ mem'[b.slot] = over
    <3>1. mem' \in [SlotIds -> Seq(Cells)]
      BY <1>0, <2>2, <2>3
    <3>2. \A s \in SlotIds : mem'[s] = IF s = b.slot THEN over ELSE mem[s]
      BY <1>0, <2>3
    <3>3. ASSUME NEW s \in SlotIds PROVE Len(mem'[s]) >= Len(mem[s])
      <4>1. CASE s = b.slot
        BY <2>2, <3>2, <4>1
      <4>2. CASE s # b.slot
        BY <1>0, <3>2, <4>2
      <4> QED
        BY <4>1, <4>2
    <3> QED
      BY <2>1, <3>1, <3>2, <3>3
  <2>6. /\ c \in Buffers /\ One(c) = One(b) /\ BudgetOf(c) = BudgetOf(b)
        /\ IsSlab(c) /\ c.len <= Len(mem'[c.slot])
    <3>1. c \in Buffers /\ IsSlab(c)
      BY <2>4 DEF Buffers, IsSlab
    <3>2. One(c) = One(b)
      BY <1>2, <2>4, <3>1 DEF One
    <3>3. BudgetOf(c) = BudgetOf(b)
      BY <2>1, <2>4 DEF BudgetOf
    <3>4. c.len <= Len(mem'[c.slot])
      BY <2>2, <2>4, <2>5
    <3> QED
      BY <3>1, <3>2, <3>3, <3>4
  <2> QED
    BY <1>1, <1>2, <2>3, <2>4, <2>5, <2>6
<1>3. CASE ~IsSlab(b)
  <2> DEFINE c == [b EXCEPT !.data = b.data \o cells]
  <2>1. b \in OwnedBuffers /\ b.kind = "owned" /\ b.data \in Seq(Cells)
    BY <1>3, OwnedFacts
  <2>2. b.data \o cells \in Seq(Cells)
    BY <2>1, ConcatProperties
  <2>3. mem' = mem /\ buf' = [buf EXCEPT ![w] = c]
    BY <2>1 DEF PutIn
  <2>4. c \in OwnedBuffers /\ c.kind = "owned" /\ c.reserved = b.reserved
    BY <2>1, <2>2 DEF OwnedBuffers
  <2> HIDE DEF c
  <2>5. c \in Buffers /\ ~IsSlab(c)
    BY <2>4 DEF Buffers, IsSlab
  <2>6. One(c) = One(b) /\ BudgetOf(c) = BudgetOf(b)
    BY <1>3, <2>1, <2>4, <2>5 DEF One, BudgetOf
  <2>7. \A s \in SlotIds : Len(mem'[s]) >= Len(mem[s])
    BY <1>0, <2>3
  <2> QED
    BY <1>0, <1>1, <1>3, <2>3, <2>5, <2>6, <2>7
<1> QED
  BY <1>2, <1>3

\* Only w's place changes hands, since a worker holds slots of its own.
LEMMA ExchangeStep ==
  ASSUME TypeOK, \A v \in Workers : IsSlab(buf[v]) => buf[v].slot[1] = v,
         NEW w \in Workers, NEW c \in Buffers, IsSlab(c) => c.slot[1] = w,
         buf' = [buf EXCEPT ![w] = c]
  PROVE  /\ buf' \in [Workers -> Buffers]
         /\ buf'[w] = c /\ \A v \in Workers \ {w} : buf'[v] = buf[v]
         /\ \A v \in Workers : IsSlab(buf'[v]) => buf'[v].slot[1] = v
         /\ One(buf[w]) \subseteq HeldSlots
         /\ HeldSlots' = (HeldSlots \ One(buf[w])) \union One(c)
         /\ Budget(buf) \in Nat /\ Budget(buf') \in Nat
         /\ BudgetOf(c) \in Nat /\ BudgetOf(buf[w]) \in Nat
         /\ Budget(buf) + BudgetOf(c) = Budget(buf') + BudgetOf(buf[w])
         /\ Budget(buf) >= BudgetOf(buf[w])
<1>1. buf \in [Workers -> Buffers] /\ IsFiniteSet(Workers)
  BY OutputAssumption DEF TypeOK
<1>2. /\ buf' \in [Workers -> Buffers]
      /\ buf'[w] = c /\ \A v \in Workers \ {w} : buf'[v] = buf[v]
  BY <1>1
<1>3. \A v \in Workers : IsSlab(buf'[v]) => buf'[v].slot[1] = v
  BY <1>2
<1>4. /\ \A x : x \in HeldSlots <=> \E v \in Workers : IsSlab(buf[v]) /\ x = buf[v].slot
      /\ \A x : x \in HeldSlots' <=> \E v \in Workers : IsSlab(buf'[v]) /\ x = buf'[v].slot
  BY DEF HeldSlots, IsSlab
<1>5. /\ \A x : x \in One(buf[w]) <=> IsSlab(buf[w]) /\ x = buf[w].slot
      /\ \A x : x \in One(c) <=> IsSlab(c) /\ x = c.slot
  BY DEF One
<1>6. One(buf[w]) \subseteq HeldSlots
  BY <1>4, <1>5
<1>7. HeldSlots' = (HeldSlots \ One(buf[w])) \union One(c)
  <2>1. ASSUME NEW x \in HeldSlots' PROVE x \in (HeldSlots \ One(buf[w])) \union One(c)
    <3>1. PICK v \in Workers : IsSlab(buf'[v]) /\ x = buf'[v].slot
      BY <1>4
    <3>2. CASE v = w
      BY <1>2, <1>5, <3>1, <3>2
    <3>3. CASE v # w
      <4>1. IsSlab(buf[v]) /\ x = buf[v].slot /\ x[1] = v
        BY <1>2, <3>1, <3>3
      <4>2. x \notin One(buf[w])
        BY <1>5, <3>3, <4>1
      <4> QED
        BY <1>4, <4>1, <4>2
    <3> QED
      BY <3>2, <3>3
  <2>2. ASSUME NEW x \in HeldSlots, x \notin One(buf[w]) PROVE x \in HeldSlots'
    <3>1. PICK v \in Workers : IsSlab(buf[v]) /\ x = buf[v].slot
      BY <1>4
    <3>2. v # w
      BY <1>5, <2>2, <3>1
    <3> QED
      BY <1>2, <1>4, <3>1, <3>2
  <2>3. ASSUME NEW x \in One(c) PROVE x \in HeldSlots'
    BY <1>2, <1>4, <1>5
  <2> QED
    BY <2>1, <2>2, <2>3
<1>8. \A v \in Workers : BudgetOf(buf[v]) \in Nat /\ BudgetOf(buf'[v]) \in Nat
  BY <1>1, <1>2, BufferFacts DEF Messages
<1>9. /\ Budget(buf) \in Nat /\ Budget(buf') \in Nat
      /\ Budget(buf) + BudgetOf(buf'[w]) = Budget(buf') + BudgetOf(buf[w])
      /\ Budget(buf) >= BudgetOf(buf[w])
  <2> DEFINE a == buf
             b == buf'
  <2>1. /\ DOMAIN a = Workers /\ DOMAIN b = Workers
        /\ \A v \in Workers : BudgetOf(a[v]) \in Nat /\ BudgetOf(b[v]) \in Nat
        /\ \A v \in Workers \ {w} : b[v] = a[v]
    BY <1>1, <1>2, <1>8
  <2> HIDE DEF a, b
  <2>2. /\ Budget(a) \in Nat /\ Budget(b) \in Nat
        /\ Budget(a) + BudgetOf(b[w]) = Budget(b) + BudgetOf(a[w])
        /\ Budget(a) >= BudgetOf(a[w])
    BY <1>1, <2>1, BudgetExchange
  <2> QED
    BY <2>2 DEF a, b
<1> QED
  BY <1>2, <1>3, <1>6, <1>7, <1>8, <1>9

\* An empty queue holds nothing.
LEMMA Nothing == Budget(<<>>) = 0 /\ SlotsIn(<<>>) = {} /\ Distinct(<<>>)
<1>1. <<>> \in Seq(Messages) /\ FlushReq \in Messages
  BY DEF Messages
<1>2. \A b \in Messages : BudgetOf(b) \in Nat
  BY BufferFacts
<1>3. Budget(<<>>) = 0
  BY <1>1, <1>2, BudgetAppend
<1>4. SlotsIn(<<>>) = {} /\ Distinct(<<>>)
  BY SlotsSmall
<1> QED
  BY <1>3, <1>4

\* What the channel and the batch are made of.
LEMMA QueueTypes ==
  ASSUME TypeOK
  PROVE  /\ chan \in Seq(Messages) /\ batch \in Seq(Messages)
         /\ \A i \in 1..Len(chan) : chan[i] \in Messages
         /\ \A i \in 1..Len(batch) : batch[i] \in Messages
         /\ \A b \in Messages : BudgetOf(b) \in Nat
<1>1. chan \in Seq(Messages) /\ batch \in Seq(Buffers)
  BY DEF TypeOK, Messages
<1>2. batch \in Seq(Messages)
  <2>1. \A i \in 1..Len(batch) : batch[i] \in Messages
    BY <1>1, ElementOfSeq DEF Messages
  <2>2. Len(batch) \in Nat /\ batch = [i \in 1..Len(batch) |-> batch[i]]
    BY <1>1, LenProperties
  <2> QED
    BY <2>1, <2>2
<1> QED
  BY <1>1, <1>2, ElementOfSeq, BufferFacts

\* What was written of a slot stays written.
LEMMA Grown ==
  ASSUME \A s \in SlotIds : Len(mem'[s]) >= Len(mem[s]),
         mem \in [SlotIds -> Seq(Cells)], mem' \in [SlotIds -> Seq(Cells)]
  PROVE  \A b \in Messages : InSlab(b) => (IsSlab(b) => b.len <= Len(mem'[b.slot]))
<1> SUFFICES ASSUME NEW b \in Messages, InSlab(b), IsSlab(b)
             PROVE  b.len <= Len(mem'[b.slot])
  OBVIOUS
<1>1. b.slot \in SlotIds /\ b.len \in Nat
  BY BufferFacts, SlabFacts
<1>2. b.len <= Len(mem[b.slot])
  BY DEF InSlab
<1>3. Len(mem[b.slot]) \in Nat /\ Len(mem'[b.slot]) \in Nat
  BY <1>1, LenProperties
<1> QED
  BY <1>1, <1>2, <1>3

\* The invariant holds when the pool is new.
LEMMA InitInvariant == Init => IInv
<1> SUFFICES ASSUME Init PROVE IInv
  OBVIOUS
<1>1. /\ SlotsPerWorker \in Nat \ {0} /\ OverflowCap \in Nat /\ IsFiniteSet(Workers)
      /\ \A w \in Workers : <<w, 1>> \in SlotIds
  BY OutputAssumption DEF SlotIds
<1>2. \A w \in Workers : Slab(<<w, 1>>) \in SlabBuffers
  BY <1>1 DEF Slab, SlabBuffers
<1>3. buf \in [Workers -> Buffers]
  BY <1>2 DEF Init, Buffers
<1>4. TypeOK
  <2>1. /\ mem \in [SlotIds -> Seq(Cells)] /\ stream \in [Workers -> Seq(Cells)]
        /\ written \in Seq(Cells) /\ batch \in Seq(Buffers)
        /\ chan \in Seq(Buffers \union {FlushReq})
    BY DEF Init
  <2>2. /\ free \subseteq SlotIds /\ used \in Nat /\ sent \in Nat /\ searches \in Nat
        /\ size \in [Workers -> Nat] /\ \A w \in Workers : size[w] \in Sizes[w] \union {0}
    BY DEF Init
  <2>3. /\ pc \in [Workers -> {"ready", "rotate", "overflow", "big", "done"}]
        /\ resume \in [Workers -> {"ready", "place", "done"}]
        /\ records \in [Workers -> Nat]
        /\ writer \in {"recv", "drain", "write", "ack", "last", "dead", "absent"}
        /\ afterwards \in {"recv", "drain", "ack"} /\ failed \in BOOLEAN
        /\ phase \in {"searching", "waiting", "returned"}
    BY DEF Init
  <2> QED
    BY <1>3, <2>1, <2>2, <2>3 DEF TypeOK
<1>5. \A w \in Workers : IsSlab(buf[w]) /\ buf[w].slot = <<w, 1>> /\ buf[w].len = 0
  BY DEF Init, Slab, IsSlab
<1>6. \A x : x \in HeldSlots <=> \E w \in Workers : x = <<w, 1>>
  BY <1>5 DEF HeldSlots
<1>7. SlotOwnership
  <2>1. free \intersect HeldSlots = {}
    BY <1>6 DEF Init
  <2> QED
    BY <1>5, <2>1, Nothing DEF Init, SlotOwnership
<1>8. PoolConserved
  <2>1. Budget(buf) = 0
    <3>1. \A w \in Workers : BudgetOf(buf[w]) = 0
      BY <1>5 DEF BudgetOf, IsSlab
    <3>2. Units(DOMAIN buf, buf) = {}
      <4>1. DOMAIN buf = Workers
        BY <1>3
      <4>2. \A w \in Workers : {w} \X (1..BudgetOf(buf[w])) = {}
        BY <3>1
      <4> QED
        BY <4>1, <4>2 DEF Units
    <3> QED
      BY <3>2, BudgetIsUnits, FS_EmptySet
  <2>2. free \union HeldSlots = SlotIds
    <3>1. ASSUME NEW s \in SlotIds PROVE s \in free \union HeldSlots
      <4>1. s[1] \in Workers /\ s = <<s[1], s[2]>>
        BY DEF SlotIds
      <4>2. CASE s[2] = 1
        BY <1>6, <4>1, <4>2
      <4>3. CASE s[2] # 1
        BY <4>3 DEF Init
      <4> QED
        BY <4>2, <4>3
    <3>2. HeldSlots \subseteq SlotIds
      BY <1>1, <1>6
    <3> QED
      BY <1>4, <3>1, <3>2 DEF TypeOK
  <2>3. used = 0 /\ chan = <<>> /\ batch = <<>>
    BY DEF Init
  <2>4. used = Budget(buf) + Budget(chan) + Budget(batch)
    BY <2>1, <2>3, Nothing
  <2>5. free \union HeldSlots \union SlotsIn(chan) \union SlotsIn(batch) = SlotIds
    BY <2>2, <2>3, Nothing
  <2> QED
    BY <1>1, <2>3, <2>4, <2>5 DEF PoolConserved
<1>9. Filled
  <2>1. \A w \in Workers : InSlab(buf[w])
    <3>1. \A w \in Workers : mem[<<w, 1>>] = <<>>
      BY <1>1 DEF Init
    <3> QED
      BY <1>5, <3>1 DEF InSlab
  <2> QED
    BY <2>1 DEF Init, Filled
<1>10. EndsByFailure
  BY DEF Init, EndsByFailure
<1> QED
  BY <1>4, <1>7, <1>8, <1>9, <1>10 DEF IInv

-----------------------------------------------------------------------------
(* The workers' steps.                                                     *)

\* What a worker has reserved for a buffer is part of overflow_used.
LEMMA UsedCovers ==
  ASSUME TypeOK, PoolConserved
  PROVE  /\ Budget(buf) \in Nat /\ Budget(chan) \in Nat /\ Budget(batch) \in Nat
         /\ used = Budget(buf) + Budget(chan) + Budget(batch) /\ used <= OverflowCap
<1>1. Budget(chan) \in Nat /\ Budget(batch) \in Nat
  <2>1. FlushReq \in Messages
    BY DEF Messages
  <2> QED
    BY <2>1, QueueTypes, BudgetAppend
<1>2. Budget(buf) \in Nat
  <2>1. buf \in [Workers -> Buffers] /\ IsFiniteSet(Workers) /\ DOMAIN buf = Workers
    BY OutputAssumption DEF TypeOK
  <2>2. \A w \in Workers : BudgetOf(buf[w]) \in Nat
    BY <2>1, BufferFacts DEF Messages
  <2>3. IsFiniteSet(Units(Workers, buf))
    BY <2>1, <2>2, UnitsFinite
  <2> QED
    BY <2>1, <2>3, FS_CardinalityType, BudgetIsUnits
<1> QED
  BY <1>1, <1>2 DEF PoolConserved

\* The queues' buffers stay within what was written of their slots.
LEMMA QueuesFilled ==
  ASSUME IInv, mem' \in [SlotIds -> Seq(Cells)],
         \A s \in SlotIds : Len(mem'[s]) >= Len(mem[s])
  PROVE  /\ \A i \in 1..Len(chan) : IsSlab(chan[i]) => chan[i].len <= Len(mem'[chan[i].slot])
         /\ \A i \in 1..Len(batch) : IsSlab(batch[i]) => batch[i].len <= Len(mem'[batch[i].slot])
         /\ \A w \in Workers : IsSlab(buf[w]) => buf[w].len <= Len(mem'[buf[w].slot])
<1>1. /\ TypeOK /\ mem \in [SlotIds -> Seq(Cells)] /\ buf \in [Workers -> Buffers]
      /\ \A i \in 1..Len(chan) : InSlab(chan[i])
      /\ \A i \in 1..Len(batch) : InSlab(batch[i])
      /\ \A w \in Workers : InSlab(buf[w])
  BY DEF IInv, Filled, TypeOK
<1>2. \A b \in Messages : InSlab(b) => (IsSlab(b) => b.len <= Len(mem'[b.slot]))
  BY <1>1, Grown
<1>3. /\ \A i \in 1..Len(chan) : chan[i] \in Messages
      /\ \A i \in 1..Len(batch) : batch[i] \in Messages
      /\ \A w \in Workers : buf[w] \in Messages
  BY <1>1, QueueTypes DEF Messages
<1> QED
  BY <1>1, <1>2, <1>3

\* A worker that writes into its buffer, or clears it, keeps what it holds.
LEMMA ContentStep ==
  ASSUME IInv, NEW w \in Workers, NEW c \in Buffers,
         buf' = [buf EXCEPT ![w] = c],
         One(c) = One(buf[w]), BudgetOf(c) = BudgetOf(buf[w]), IsSlab(c) <=> IsSlab(buf[w]),
         IsSlab(c) => c.slot = buf[w].slot /\ c.len <= Len(mem'[c.slot]),
         mem' \in [SlotIds -> Seq(Cells)],
         \A s \in SlotIds : Len(mem'[s]) >= Len(mem[s]),
         UNCHANGED <<free, used, chan, batch, writer, failed>>
  PROVE  /\ buf' \in [Workers -> Buffers]
         /\ SlotOwnership' /\ PoolConserved' /\ Filled' /\ EndsByFailure'
<1>1. /\ TypeOK /\ SlotOwnership /\ PoolConserved /\ EndsByFailure
      /\ \A v \in Workers : IsSlab(buf[v]) => buf[v].slot[1] = v
  BY DEF IInv, SlotOwnership
<1>2. /\ buf' \in [Workers -> Buffers]
      /\ buf'[w] = c /\ \A v \in Workers \ {w} : buf'[v] = buf[v]
      /\ \A v \in Workers : IsSlab(buf'[v]) => buf'[v].slot[1] = v
      /\ One(buf[w]) \subseteq HeldSlots
      /\ HeldSlots' = (HeldSlots \ One(buf[w])) \union One(c)
      /\ Budget(buf) \in Nat /\ Budget(buf') \in Nat
      /\ BudgetOf(c) \in Nat
      /\ Budget(buf) + BudgetOf(c) = Budget(buf') + BudgetOf(buf[w])
  BY <1>1, ExchangeStep
<1>3. HeldSlots' = HeldSlots
  BY <1>2
<1>4. Budget(buf') = Budget(buf)
  BY <1>2
<1>5. SlotOwnership'
  <2>1. SlotsIn(chan') = SlotsIn(chan) /\ SlotsIn(batch') = SlotsIn(batch) /\ free' = free
    OBVIOUS
  <2>2. Distinct(chan') /\ Distinct(batch')
    BY <1>1 DEF SlotOwnership
  <2>3. /\ free' \intersect HeldSlots' = {}
        /\ (SlotsIn(chan') \union SlotsIn(batch')) \intersect (free' \union HeldSlots') = {}
        /\ SlotsIn(chan') \intersect SlotsIn(batch') = {}
    BY <1>1, <1>3, <2>1 DEF SlotOwnership
  <2> QED
    BY <1>2, <2>2, <2>3 DEF SlotOwnership, Distinct, SlotsIn, HeldSlots
<1>6. PoolConserved'
  BY <1>1, <1>3, <1>4 DEF PoolConserved
<1>7. Filled'
  BY <1>2, QueuesFilled DEF Filled, InSlab
<1>8. EndsByFailure'
  BY <1>1 DEF EndsByFailure
<1> QED
  BY <1>2, <1>5, <1>6, <1>7, <1>8

\* A worker that gets a fresh buffer ships the one it had, gives it back, or
\* drops it for want of a receiver.
LEMMA HandoverStep ==
  ASSUME IInv, NEW w \in Workers, NEW c \in Buffers,
         buf' = [buf EXCEPT ![w] = c],
         IsSlab(c) => c.slot[1] = w /\ c.len <= Len(mem'[c.slot]),
         mem' \in [SlotIds -> Seq(Cells)],
         \A s \in SlotIds : Len(mem'[s]) >= Len(mem[s]),
         One(c) \subseteq free, used + BudgetOf(c) <= OverflowCap,
         \/ /\ chan' = chan /\ used' = (used + BudgetOf(c)) - BudgetOf(buf[w])
            /\ \/ free' = (free \ One(c)) \union One(buf[w])
               \/ free' = free \ One(c) /\ ~Alive
         \/ /\ chan' = Append(chan, buf[w]) /\ used' = used + BudgetOf(c)
            /\ free' = free \ One(c),
         UNCHANGED <<batch, writer, failed>>
  PROVE  /\ buf' \in [Workers -> Buffers] /\ free' \subseteq SlotIds /\ used' \in Nat
         /\ chan' \in Seq(Buffers \union {FlushReq})
         /\ SlotOwnership' /\ PoolConserved' /\ Filled' /\ EndsByFailure'
<1>0. OverflowCap \in Nat
  BY OutputAssumption
<1>1. /\ TypeOK /\ SlotOwnership /\ PoolConserved /\ EndsByFailure
      /\ \A v \in Workers : IsSlab(buf[v]) => buf[v].slot[1] = v
      /\ buf[w] \in Messages /\ buf[w] \in Buffers /\ chan \in Seq(Messages)
      /\ free \subseteq SlotIds /\ used \in Nat
  BY DEF IInv, SlotOwnership, TypeOK, Messages
<1>2. /\ buf' \in [Workers -> Buffers]
      /\ buf'[w] = c /\ \A v \in Workers \ {w} : buf'[v] = buf[v]
      /\ \A v \in Workers : IsSlab(buf'[v]) => buf'[v].slot[1] = v
      /\ One(buf[w]) \subseteq HeldSlots
      /\ HeldSlots' = (HeldSlots \ One(buf[w])) \union One(c)
      /\ Budget(buf) \in Nat /\ Budget(buf') \in Nat
      /\ BudgetOf(c) \in Nat /\ BudgetOf(buf[w]) \in Nat
      /\ Budget(buf) + BudgetOf(c) = Budget(buf') + BudgetOf(buf[w])
      /\ Budget(buf) >= BudgetOf(buf[w])
  BY <1>1, ExchangeStep
<1>3. /\ Budget(chan) \in Nat /\ Budget(batch) \in Nat
      /\ used = Budget(buf) + Budget(chan) + Budget(batch)
  BY <1>1, UsedCovers
<1>4. \A b \in Messages : BudgetOf(b) \in Nat
  BY BufferFacts
<1>5. /\ SlotsIn(Append(chan, buf[w])) = SlotsIn(chan) \union One(buf[w])
      /\ Distinct(chan) /\ One(buf[w]) \intersect SlotsIn(chan) = {}
           => Distinct(Append(chan, buf[w]))
      /\ Budget(Append(chan, buf[w])) = Budget(chan) + BudgetOf(buf[w])
      /\ Append(chan, buf[w]) \in Seq(Messages)
      /\ Len(Append(chan, buf[w])) = Len(chan) + 1
      /\ Append(chan, buf[w])[Len(chan) + 1] = buf[w]
      /\ \A i \in 1..Len(chan) : Append(chan, buf[w])[i] = chan[i]
  <2>1. /\ SlotsIn(Append(chan, buf[w])) = SlotsIn(chan) \union One(buf[w])
        /\ Distinct(chan) /\ One(buf[w]) \intersect SlotsIn(chan) = {}
             => Distinct(Append(chan, buf[w]))
    <3> DEFINE b == buf[w]
    <3>1. b \in Messages
      BY <1>1
    <3> HIDE DEF b
    <3>2. /\ SlotsIn(Append(chan, b)) = SlotsIn(chan) \union One(b)
          /\ Distinct(chan) /\ One(b) \intersect SlotsIn(chan) = {}
               => Distinct(Append(chan, b))
      BY ONLY <1>1, <3>1, SlotsAppend
    <3> QED
      BY <3>2 DEF b
  <2>2. Budget(Append(chan, buf[w])) = Budget(chan) + BudgetOf(buf[w])
    BY <1>1, <1>4, BudgetAppend
  <2> QED
    BY <1>1, <2>1, <2>2, AppendProperties
<1>6. /\ Distinct(chan) /\ Distinct(batch)
      /\ free \intersect HeldSlots = {}
      /\ (SlotsIn(chan) \union SlotsIn(batch)) \intersect (free \union HeldSlots) = {}
      /\ SlotsIn(chan) \intersect SlotsIn(batch) = {}
  BY <1>1 DEF SlotOwnership
<1>7. \/ chan' = chan
      \/ chan' = Append(chan, buf[w])
  OBVIOUS
<1>8. One(buf[w]) \subseteq SlotIds /\ One(c) \subseteq SlotIds
  BY <1>1, SlabFacts DEF One
<1>9. Distinct(chan') /\ Distinct(batch') /\ SlotsIn(batch') = SlotsIn(batch)
  BY <1>2, <1>5, <1>6, <1>7
<1>10. \/ SlotsIn(chan') = SlotsIn(chan) /\ free' \subseteq (free \ One(c)) \union One(buf[w])
       \/ SlotsIn(chan') = SlotsIn(chan) \union One(buf[w]) /\ free' = free \ One(c)
  BY <1>5
<1>11. /\ free' \intersect HeldSlots' = {}
       /\ (SlotsIn(chan') \union SlotsIn(batch')) \intersect (free' \union HeldSlots') = {}
       /\ SlotsIn(chan') \intersect SlotsIn(batch') = {}
  <2> DEFINE C == SlotsIn(chan)
             B == SlotsIn(batch)
             C2 == SlotsIn(chan')
             B2 == SlotsIn(batch')
             H == HeldSlots
             H2 == HeldSlots'
             O == One(buf[w])
             N == One(c)
             F2 == free'
  <2>1. /\ free \intersect H = {} /\ (C \union B) \intersect (free \union H) = {}
        /\ C \intersect B = {} /\ O \subseteq H /\ N \subseteq free
        /\ H2 = (H \ O) \union N /\ B2 = B
        /\ \/ C2 = C /\ F2 \subseteq (free \ N) \union O
           \/ C2 = C \union O /\ F2 = free \ N
    BY <1>2, <1>6, <1>9, <1>10
  <2> HIDE DEF C, B, C2, B2, H, H2, O, N, F2
  <2>2. F2 \intersect H2 = {}
    BY <2>1
  <2>3. (C2 \union B2) \intersect (F2 \union H2) = {}
    BY <2>1
  <2>4. C2 \intersect B2 = {}
    BY <2>1
  <2> QED
    BY <2>2, <2>3, <2>4 DEF C2, B2, H2, F2
<1>12. SlotOwnership'
  BY <1>2, <1>9, <1>11 DEF SlotOwnership, Distinct, SlotsIn, HeldSlots
<1>13. /\ used' = Budget(buf') + Budget(chan') + Budget(batch')
       /\ used' \in Nat /\ used' <= OverflowCap
  <2> DEFINE b1 == Budget(buf)
             b2 == Budget(buf')
             c1 == Budget(chan)
             c2 == Budget(chan')
             a1 == Budget(batch)
             a2 == Budget(batch')
             o == BudgetOf(buf[w])
             n == BudgetOf(c)
             u2 == used'
  <2>1. /\ b1 \in Nat /\ b2 \in Nat /\ c1 \in Nat /\ a1 \in Nat /\ o \in Nat /\ n \in Nat
        /\ used \in Nat
        /\ b1 + n = b2 + o /\ b1 >= o /\ used = b1 + c1 + a1 /\ a2 = a1
        /\ used + n <= OverflowCap
    BY <1>1, <1>2, <1>3
  <2>2. \/ c2 = c1 /\ u2 = (used + n) - o
        \/ c2 = c1 + o /\ u2 = used + n
    BY <1>5
  <2> HIDE DEF b1, b2, c1, c2, a1, a2, o, n, u2
  <2>3. u2 = b2 + c2 + a2 /\ u2 \in Nat /\ u2 <= OverflowCap
    BY ONLY <1>0, <2>1, <2>2, SMTT(20)
  <2> QED
    BY <2>3 DEF b2, c2, a2, u2
<1>14. ASSUME ~failed', writer' # "absent"
       PROVE  free' \union HeldSlots' \union SlotsIn(chan') \union SlotsIn(batch') = SlotIds
  <2>1. Alive
    BY <1>1, <1>14 DEF Alive, EndsByFailure
  <2>2. free \union HeldSlots \union SlotsIn(chan) \union SlotsIn(batch) = SlotIds
    BY <1>1, <1>14 DEF PoolConserved
  <2>3. \/ SlotsIn(chan') = SlotsIn(chan) /\ free' = (free \ One(c)) \union One(buf[w])
        \/ SlotsIn(chan') = SlotsIn(chan) \union One(buf[w]) /\ free' = free \ One(c)
    BY <1>5, <2>1
  <2>4. free' \union HeldSlots' \union SlotsIn(chan') \union SlotsIn(batch')
          = free \union HeldSlots \union SlotsIn(chan) \union SlotsIn(batch)
    BY <1>2, <1>9, <2>3
  <2> QED
    BY <2>2, <2>4
<1>15. PoolConserved'
  BY <1>13, <1>14 DEF PoolConserved
<1>16. Filled'
  <2>1. /\ \A i \in 1..Len(chan) : IsSlab(chan[i]) => chan[i].len <= Len(mem'[chan[i].slot])
        /\ \A i \in 1..Len(batch) : IsSlab(batch[i]) => batch[i].len <= Len(mem'[batch[i].slot])
        /\ \A v \in Workers : IsSlab(buf[v]) => buf[v].len <= Len(mem'[buf[v].slot])
    BY QueuesFilled
  <2>2. \A v \in Workers : InSlab(buf[v])'
    BY <1>2, <2>1 DEF InSlab
  <2>3. \A i \in 1..Len(batch') : InSlab(batch[i])'
    BY <2>1 DEF InSlab
  <2>4. \A i \in 1..Len(chan') : IsSlab(chan'[i]) => chan'[i].len <= Len(mem'[chan'[i].slot])
    <3>1. CASE chan' = chan
      BY <2>1, <3>1
    <3>2. CASE chan' = Append(chan, buf[w])
      <4>1. Len(chan) \in Nat
        BY <1>1, LenProperties
      <4>2. \A i \in 1..Len(chan') : i \in 1..Len(chan) \/ i = Len(chan) + 1
        BY <1>5, <3>2, <4>1
      <4> QED
        BY <1>5, <2>1, <3>2, <4>2
    <3> QED
      BY <1>7, <3>1, <3>2
  <2> QED
    BY <2>2, <2>3, <2>4 DEF Filled, InSlab
<1>17. EndsByFailure'
  BY <1>1 DEF EndsByFailure
<1>18. free' \subseteq SlotIds /\ chan' \in Seq(Buffers \union {FlushReq})
  BY <1>1, <1>5, <1>7, <1>8, <1>10 DEF Messages
<1> QED
  BY <1>2, <1>12, <1>13, <1>15, <1>16, <1>17, <1>18

\* A run of one value is a sequence.
LEMMA Run ==
  \A S : \A x \in S, n \in Nat :
    [i \in 1..n |-> x] \in Seq(S) /\ Len([i \in 1..n |-> x]) = n
OBVIOUS

\* Once a fresh buffer is there, rotating keeps the invariant.
LEMMA RotateStep ==
  ASSUME IInv, NEW w \in Workers, NEW fresh \in Buffers, InSlab(fresh),
         IsSlab(fresh) => fresh.slot[1] = w,
         One(fresh) \subseteq free, used + BudgetOf(fresh) <= OverflowCap,
         NEW STATE freeNow, freeNow = free \ One(fresh),
         NEW STATE usedNow, usedNow = used + BudgetOf(fresh),
         Rotate(w, fresh, freeNow, usedNow),
         UNCHANGED <<writerVars, mainVars>>
  PROVE  IInv'
<1> DEFINE places == resume[w] = "place" /\ size[w] <= SlotCap
           cells == IF places THEN NewCells(w, size[w]) ELSE <<>>
<1>0. TypeOK /\ PoolConserved
  BY DEF IInv
<1>1. /\ PutIn(w, fresh, cells)
      /\ size' = [size EXCEPT ![w] = IF places THEN 0 ELSE size[w]]
      /\ pc' = [pc EXCEPT ![w] = IF places THEN "ready"
                                 ELSE IF resume[w] = "place" THEN "big"
                                 ELSE resume[w]]
      /\ UNCHANGED <<resume, records>>
  BY DEF Rotate
<1>2. /\ size[w] \in Nat /\ records \in [Workers -> Nat] /\ resume \in [Workers -> {"ready", "place", "done"}]
      /\ pc \in [Workers -> {"ready", "rotate", "overflow", "big", "done"}]
      /\ size \in [Workers -> Nat] /\ \A v \in Workers : size[v] \in Sizes[v] \union {0}
      /\ buf[w] \in Buffers
  BY <1>0, OutputAssumption DEF TypeOK
<1>3. cells \in Seq(Cells)
  <2>1. <<w, records[w]>> \in Cells
    BY <1>2 DEF Cells
  <2>2. NewCells(w, size[w]) \in Seq(Cells)
    BY <1>2, <2>1, Run DEF NewCells
  <2> QED
    BY <2>2
<1> HIDE DEF cells, places
<1>4. /\ mem' \in [SlotIds -> Seq(Cells)]
      /\ \A s \in SlotIds : Len(mem'[s]) >= Len(mem[s])
      /\ stream' \in [Workers -> Seq(Cells)]
      /\ \E c \in Buffers :
           /\ buf' = [buf EXCEPT ![w] = c]
           /\ One(c) = One(fresh) /\ BudgetOf(c) = BudgetOf(fresh)
           /\ IsSlab(c) <=> IsSlab(fresh)
           /\ IsSlab(c) => c.slot = fresh.slot /\ c.len <= Len(mem'[c.slot])
  BY <1>0, <1>1, <1>3, PutInStep
<1>5. PICK c \in Buffers :
           /\ buf' = [buf EXCEPT ![w] = c]
           /\ One(c) = One(fresh) /\ BudgetOf(c) = BudgetOf(fresh)
           /\ IsSlab(c) <=> IsSlab(fresh)
           /\ IsSlab(c) => c.slot = fresh.slot /\ c.len <= Len(mem'[c.slot])
  BY <1>4
<1>6. \/ /\ chan' = chan /\ used' = (used + BudgetOf(c)) - BudgetOf(buf[w])
         /\ \/ free' = (free \ One(c)) \union One(buf[w])
            \/ free' = free \ One(c) /\ ~Alive
      \/ /\ chan' = Append(chan, buf[w]) /\ used' = used + BudgetOf(c)
         /\ free' = free \ One(c)
  <2> DEFINE empty == BufLen(buf[w]) = 0
             dropped == empty \/ ~Alive
  <2>1. /\ chan' = IF dropped THEN chan ELSE Append(chan, buf[w])
        /\ free' = IF empty /\ buf[w].kind = "slab" THEN freeNow \union {buf[w].slot}
                   ELSE freeNow
        /\ used' = IF dropped THEN usedNow - BudgetOf(buf[w]) ELSE usedNow
    BY DEF Rotate
  <2>2. freeNow = free \ One(c) /\ usedNow = used + BudgetOf(c)
    BY <1>5
  <2>3. One(buf[w]) = IF buf[w].kind = "slab" THEN {buf[w].slot} ELSE {}
    BY DEF One, IsSlab
  <2> HIDE DEF empty
  <2>4. CASE empty
    BY <2>1, <2>2, <2>3, <2>4
  <2>5. CASE ~empty
    BY <2>1, <2>2, <2>5
  <2> QED
    BY <2>4, <2>5
<1>7. /\ IsSlab(c) => c.slot[1] = w /\ c.len <= Len(mem'[c.slot])
      /\ One(c) \subseteq free /\ used + BudgetOf(c) <= OverflowCap
      /\ UNCHANGED <<batch, writer, failed>>
  BY <1>5 DEF writerVars
<1>8. /\ buf' \in [Workers -> Buffers] /\ free' \subseteq SlotIds /\ used' \in Nat
      /\ chan' \in Seq(Buffers \union {FlushReq})
      /\ SlotOwnership' /\ PoolConserved' /\ Filled' /\ EndsByFailure'
  BY <1>4, <1>5, <1>6, <1>7, HandoverStep
<1>9. TypeOK'
  <2>1. size' \in [Workers -> Nat] /\ \A v \in Workers : size'[v] \in Sizes[v] \union {0}
    BY <1>0, <1>1, <1>2 DEF TypeOK
  <2>2. pc' \in [Workers -> {"ready", "rotate", "overflow", "big", "done"}]
    BY <1>1, <1>2
  <2> QED
    BY <1>0, <1>1, <1>4, <1>8, <2>1, <2>2 DEF TypeOK, writerVars, mainVars
<1> QED
  BY <1>8, <1>9 DEF IInv

\* The slot that try_claim takes, the lowest set bit of a mask, is free.
LEMMA LowestFree ==
  ASSUME NEW w, FreeOf(w) # {}, free \subseteq SlotIds
  PROVE  LET slot == <<w, Min({s[2] : s \in FreeOf(w)})>>
         IN  slot \in free /\ slot \in SlotIds
<1> DEFINE T == {s[2] : s \in FreeOf(w)}
<1>1. T \in SUBSET Nat /\ T # {}
  <2>1. SlotsPerWorker \in Nat
    BY OutputAssumption
  <2>2. \A s \in FreeOf(w) : s[2] \in 1..SlotsPerWorker
    BY DEF FreeOf, SlotIds
  <2> QED
    BY <2>1, <2>2
<1> HIDE DEF T
<1>2. \E m \in T : \A n \in T : m <= n
  BY <1>1, LeastNatural
<1>3. Min(T) \in T
  BY <1>2 DEF Min
<1>4. PICK s \in FreeOf(w) : s[2] = Min(T)
  BY <1>3 DEF T
<1>5. s \in free /\ s[1] = w /\ s = <<s[1], s[2]>>
  BY DEF FreeOf, SlotIds
<1> QED
  BY <1>4, <1>5 DEF T

\* try_claim keeps the invariant.
LEMMA ClaimStep ==
  ASSUME IInv, NEW w \in Workers, Claim(w)
  PROVE  IInv'
<1> DEFINE slot == <<w, Min({s[2] : s \in FreeOf(w)})>>
<1>1. slot \in free /\ slot \in SlotIds /\ slot[1] = w
  BY LowestFree DEF Claim, IInv, TypeOK
<1>2. Rotate(w, Slab(slot), free \ {slot}, used) /\ UNCHANGED <<writerVars, mainVars>>
  BY DEF Claim
<1> HIDE DEF slot
<1> DEFINE b == Slab(slot)
           f == free \ {slot}
<1>3. b \in Buffers /\ IsSlab(b) /\ b.slot = slot /\ b.len = 0
  BY <1>1 DEF Slab, Buffers, SlabBuffers, IsSlab
<1>4. BudgetOf(b) = 0 /\ One(b) = {slot}
  BY <1>3 DEF BudgetOf, IsSlab, One
<1>5. InSlab(b)
  <2>1. Len(mem[slot]) \in Nat
    BY <1>1, LenProperties DEF IInv, TypeOK
  <2> QED
    BY <1>3, <2>1 DEF InSlab
<1>6. used \in Nat /\ used <= OverflowCap
  BY DEF IInv, TypeOK, PoolConserved
<1> HIDE DEF b
<1>7. f = free \ One(b) /\ used = used + BudgetOf(b) /\ used + BudgetOf(b) <= OverflowCap
  BY <1>4, <1>6
<1> HIDE DEF f
<1>8. Rotate(w, b, f, used)
  BY <1>2 DEF b, f
<1> QED
  BY <1>1, <1>2, <1>3, <1>4, <1>5, <1>7, <1>8, RotateStep

\* acquire_overflow keeps the invariant.
LEMMA ReserveFreshStep ==
  ASSUME IInv, NEW w \in Workers, ReserveFresh(w)
  PROVE  IInv'
<1> DEFINE b == Owned(SlotCap)
           u == used + SlotCap
<1>0. SlotCap \in Nat
  BY OutputAssumption
<1>1. Rotate(w, b, free, u) /\ UNCHANGED <<writerVars, mainVars>> /\ u <= OverflowCap
  BY DEF ReserveFresh, MayReserve
<1>2. b \in Buffers /\ ~IsSlab(b) /\ BudgetOf(b) = SlotCap
  BY <1>0 DEF Owned, Buffers, OwnedBuffers, IsSlab, BudgetOf
<1> HIDE DEF b
<1>3. InSlab(b) /\ One(b) = {} /\ u = used + BudgetOf(b)
  BY <1>2 DEF InSlab, One
<1>4. free = free \ One(b) /\ One(b) \subseteq free
  BY <1>3
<1> HIDE DEF u
<1> QED
  BY <1>1, <1>2, <1>3, <1>4, RotateStep

\* Reserving for a record bigger than a slot keeps the invariant.
LEMMA ReserveBigStep ==
  ASSUME IInv, NEW w \in Workers, ReserveBig(w)
  PROVE  IInv'
<1> DEFINE b == Owned(size[w])
           cells == NewCells(w, size[w])
<1>0. TypeOK /\ PoolConserved
  BY DEF IInv
<1>1. /\ size[w] \in Nat /\ records \in [Workers -> Nat] /\ buf[w] \in Messages
      /\ pc \in [Workers -> {"ready", "rotate", "overflow", "big", "done"}]
      /\ resume \in [Workers -> {"ready", "place", "done"}]
      /\ size \in [Workers -> Nat] /\ \A v \in Workers : size[v] \in Sizes[v] \union {0}
  BY <1>0, OutputAssumption DEF TypeOK, Messages
<1>2. /\ used' = used + size[w] - BudgetOf(buf[w]) /\ used + size[w] <= OverflowCap
      /\ free' = free \union SlotsIn(<<buf[w]>>)
      /\ PutIn(w, b, cells)
      /\ size' = [size EXCEPT ![w] = 0]
      /\ pc' = [pc EXCEPT ![w] = "rotate"]
      /\ resume' = [resume EXCEPT ![w] = "ready"]
      /\ UNCHANGED <<records, chan, writerVars, mainVars>>
  BY DEF ReserveBig, MayReserve
<1>3. cells \in Seq(Cells)
  <2>1. <<w, records[w]>> \in Cells
    BY <1>1 DEF Cells
  <2> QED
    BY <1>1, <2>1, Run DEF NewCells
<1>4. b \in Buffers /\ ~IsSlab(b) /\ BudgetOf(b) = size[w]
  BY <1>1 DEF Owned, Buffers, OwnedBuffers, IsSlab, BudgetOf
<1> HIDE DEF b, cells
<1>5. InSlab(b) /\ One(b) = {} /\ SlotsIn(<<buf[w]>>) = One(buf[w])
  <2>1. SlotsIn(<<buf[w]>>) = One(buf[w])
    BY <1>1, SlotsSmall
  <2> QED
    BY <1>4, <2>1 DEF InSlab, One
<1>6. /\ mem' \in [SlotIds -> Seq(Cells)]
      /\ \A s \in SlotIds : Len(mem'[s]) >= Len(mem[s])
      /\ stream' \in [Workers -> Seq(Cells)]
      /\ \E c \in Buffers :
           /\ buf' = [buf EXCEPT ![w] = c]
           /\ One(c) = One(b) /\ BudgetOf(c) = BudgetOf(b)
           /\ IsSlab(c) <=> IsSlab(b)
           /\ IsSlab(c) => c.slot = b.slot /\ c.len <= Len(mem'[c.slot])
  BY <1>0, <1>2, <1>3, <1>4, <1>5, PutInStep
<1>7. PICK c \in Buffers :
           /\ buf' = [buf EXCEPT ![w] = c]
           /\ One(c) = {} /\ BudgetOf(c) = size[w] /\ ~IsSlab(c)
  BY <1>4, <1>5, <1>6
<1>8. /\ chan' = chan /\ used' = (used + BudgetOf(c)) - BudgetOf(buf[w])
      /\ free' = (free \ One(c)) \union One(buf[w])
      /\ One(c) \subseteq free /\ used + BudgetOf(c) <= OverflowCap
      /\ UNCHANGED <<batch, writer, failed>>
  <2>1. free' = free \union One(buf[w])
    BY <1>2, <1>5, Zenon
  <2>2. free' = (free \ One(c)) \union One(buf[w]) /\ One(c) \subseteq free
    BY <1>7, <2>1
  <2>3. chan' = chan /\ UNCHANGED <<batch, writer, failed>>
    BY <1>2 DEF writerVars
  <2>4. used' = (used + BudgetOf(c)) - BudgetOf(buf[w]) /\ used + BudgetOf(c) <= OverflowCap
    <3>1. used \in Nat /\ size[w] \in Nat /\ BudgetOf(buf[w]) \in Nat
      BY <1>0, <1>1, BufferFacts DEF TypeOK
    <3> QED
      BY <1>2, <1>7, <3>1
  <2> QED
    BY <2>2, <2>3, <2>4
<1>9. /\ buf' \in [Workers -> Buffers] /\ free' \subseteq SlotIds /\ used' \in Nat
      /\ chan' \in Seq(Buffers \union {FlushReq})
      /\ SlotOwnership' /\ PoolConserved' /\ Filled' /\ EndsByFailure'
  BY <1>6, <1>7, <1>8, HandoverStep
<1>10. TypeOK'
  <2>1. size' \in [Workers -> Nat] /\ \A v \in Workers : size'[v] \in Sizes[v] \union {0}
    BY <1>0, <1>1, <1>2 DEF TypeOK
  <2>2. /\ pc' \in [Workers -> {"ready", "rotate", "overflow", "big", "done"}]
        /\ resume' \in [Workers -> {"ready", "place", "done"}]
    BY <1>1, <1>2
  <2> QED
    BY <1>0, <1>2, <1>6, <1>9, <2>1, <2>2 DEF TypeOK, writerVars, mainVars
<1> QED
  BY <1>9, <1>10 DEF IInv

\* Appending a record that fits keeps the invariant.
LEMMA WriteFitsStep ==
  ASSUME IInv, NEW w \in Workers, WriteFits(w)
  PROVE  IInv'
<1>0. /\ TypeOK /\ buf[w] \in Buffers /\ InSlab(buf[w])
      /\ records \in [Workers -> Nat] /\ Sizes[w] \subseteq Nat
  BY OutputAssumption DEF IInv, TypeOK, Filled
<1>1. PICK s \in Sizes[w] : PutIn(w, buf[w], [i \in 1..s |-> <<w, records[w] + 1>>])
  BY DEF WriteFits
<1> DEFINE cells == [i \in 1..s |-> <<w, records[w] + 1>>]
<1>2. cells \in Seq(Cells)
  <2>1. <<w, records[w] + 1>> \in Cells /\ s \in Nat
    BY <1>0 DEF Cells
  <2> QED
    BY <2>1, Run
<1> HIDE DEF cells
<1>3. PutIn(w, buf[w], cells)
  BY <1>1 DEF cells
<1>4. /\ mem' \in [SlotIds -> Seq(Cells)]
      /\ \A t \in SlotIds : Len(mem'[t]) >= Len(mem[t])
      /\ stream' \in [Workers -> Seq(Cells)]
      /\ \E c \in Buffers :
           /\ buf' = [buf EXCEPT ![w] = c]
           /\ One(c) = One(buf[w]) /\ BudgetOf(c) = BudgetOf(buf[w])
           /\ IsSlab(c) <=> IsSlab(buf[w])
           /\ IsSlab(c) => c.slot = buf[w].slot /\ c.len <= Len(mem'[c.slot])
  <2> DEFINE b == buf[w]
  <2>1. b \in Buffers /\ InSlab(b) /\ PutIn(w, b, cells)
    BY <1>0, <1>3
  <2> HIDE DEF b
  <2>2. /\ mem' \in [SlotIds -> Seq(Cells)]
        /\ \A t \in SlotIds : Len(mem'[t]) >= Len(mem[t])
        /\ stream' \in [Workers -> Seq(Cells)]
        /\ \E c \in Buffers :
             /\ buf' = [buf EXCEPT ![w] = c]
             /\ One(c) = One(b) /\ BudgetOf(c) = BudgetOf(b)
             /\ IsSlab(c) <=> IsSlab(b)
             /\ IsSlab(c) => c.slot = b.slot /\ c.len <= Len(mem'[c.slot])
    BY <1>0, <1>2, <2>1, PutInStep
  <2> QED
    BY <2>2 DEF b
<1>5. /\ UNCHANGED <<poolVars, pc, size, resume, chan, writerVars, mainVars>>
      /\ records' = [records EXCEPT ![w] = @ + 1]
  BY DEF WriteFits
<1>6. /\ buf' \in [Workers -> Buffers]
      /\ SlotOwnership' /\ PoolConserved' /\ Filled' /\ EndsByFailure'
  BY <1>4, <1>5, ContentStep DEF poolVars, writerVars
<1>7. TypeOK'
  <2>1. records' \in [Workers -> Nat]
    BY <1>0, <1>5
  <2>2. size' \in [Workers -> Nat] /\ \A v \in Workers : size'[v] \in Sizes[v] \union {0}
    BY <1>0, <1>5 DEF TypeOK
  <2> QED
    BY <1>0, <1>4, <1>5, <1>6, <2>1, <2>2 DEF TypeOK, poolVars, writerVars, mainVars
<1> QED
  BY <1>6, <1>7 DEF IInv

\* Clearing keeps the slot or the reservation.
LEMMA ClearedKeeps ==
  ASSUME NEW b \in Buffers, TypeOK
  PROVE  /\ Cleared(b) \in Buffers
         /\ One(Cleared(b)) = One(b) /\ BudgetOf(Cleared(b)) = BudgetOf(b)
         /\ IsSlab(Cleared(b)) <=> IsSlab(b)
         /\ IsSlab(b) => Cleared(b).slot = b.slot /\ Cleared(b).len <= Len(mem[b.slot])
<1> DEFINE c == Cleared(b)
<1>1. CASE IsSlab(b)
  <2>1. b \in SlabBuffers /\ b.kind = "slab" /\ b.slot \in SlotIds
    BY <1>1, SlabFacts DEF IsSlab
  <2>2. c = [kind |-> "slab", slot |-> b.slot, len |-> 0]
    BY <2>1 DEF Cleared, SlabBuffers
  <2>3. c \in Buffers /\ IsSlab(c) /\ c.slot = b.slot /\ c.len = 0 /\ c.kind = "slab"
    BY <2>1, <2>2 DEF Buffers, SlabBuffers, IsSlab
  <2>4. Len(mem[b.slot]) \in Nat
    BY <2>1, LenProperties DEF TypeOK
  <2> HIDE DEF c
  <2> QED
    BY <1>1, <2>1, <2>3, <2>4 DEF One, BudgetOf, c
<1>2. CASE ~IsSlab(b)
  <2>1. b \in OwnedBuffers /\ b.kind = "owned" /\ b.reserved \in Nat
    BY <1>2, OwnedFacts
  <2>2. c = [kind |-> "owned", data |-> <<>>, reserved |-> b.reserved]
    BY <2>1 DEF Cleared, OwnedBuffers
  <2>3. c \in Buffers /\ ~IsSlab(c) /\ c.reserved = b.reserved /\ c.kind = "owned"
    BY <2>1, <2>2 DEF Buffers, OwnedBuffers, IsSlab
  <2> HIDE DEF c
  <2> QED
    BY <1>2, <2>1, <2>3 DEF One, BudgetOf, c
<1> QED
  BY <1>1, <1>2

\* A worker moves on without touching the pool, the queues or the slots.
LEMMA ClearedStep ==
  ASSUME IInv, NEW w \in Workers, buf' = [buf EXCEPT ![w] = Cleared(buf[w])],
         UNCHANGED <<free, used, chan, batch, writer, failed, mem>>
  PROVE  /\ buf' \in [Workers -> Buffers]
         /\ SlotOwnership' /\ PoolConserved' /\ Filled' /\ EndsByFailure'
<1> DEFINE c == Cleared(buf[w])
<1>0. TypeOK /\ buf[w] \in Buffers /\ mem \in [SlotIds -> Seq(Cells)]
  BY DEF IInv, TypeOK
<1>1. /\ c \in Buffers /\ One(c) = One(buf[w]) /\ BudgetOf(c) = BudgetOf(buf[w])
      /\ IsSlab(c) <=> IsSlab(buf[w])
      /\ IsSlab(c) => c.slot = buf[w].slot /\ c.len <= Len(mem'[c.slot])
  BY <1>0, ClearedKeeps
<1>2. \A s \in SlotIds : Len(mem'[s]) >= Len(mem[s])
  BY <1>0, LenProperties
<1> HIDE DEF c
<1>3. buf' = [buf EXCEPT ![w] = c]
  BY DEF c
<1> QED
  BY <1>0, <1>1, <1>2, <1>3, ContentStep

\* What concerns neither the pool nor the slots nor the queues.
LEMMA PoolUntouched ==
  ASSUME IInv, UNCHANGED <<poolVars, buf, mem, chan, batch, writer, failed>>
  PROVE  SlotOwnership' /\ PoolConserved' /\ Filled' /\ EndsByFailure'
<1> USE DEF poolVars
<1>1. SlotOwnership'
  <2>1. SlotOwnership
    BY DEF IInv
  <2>2. HeldSlots' = HeldSlots
    BY DEF HeldSlots, IsSlab
  <2>3. /\ chan' = chan /\ batch' = batch /\ free' = free /\ buf' = buf
        /\ Distinct(chan') /\ Distinct(batch')
    BY <2>1 DEF SlotOwnership
  <2>4. /\ free' \intersect HeldSlots' = {}
        /\ (SlotsIn(chan') \union SlotsIn(batch')) \intersect (free' \union HeldSlots') = {}
        /\ SlotsIn(chan') \intersect SlotsIn(batch') = {}
    BY <2>1, <2>2, <2>3 DEF SlotOwnership
  <2>5. \A v \in Workers : IsSlab(buf'[v]) => buf'[v].slot[1] = v
    BY <2>1, <2>3 DEF SlotOwnership
  <2> QED
    BY <2>3, <2>4, <2>5 DEF SlotOwnership, Distinct, SlotsIn, HeldSlots
<1>2. PoolConserved'
  BY DEF IInv, PoolConserved, SlotsIn, HeldSlots, IsSlab
<1>3. Filled'
  BY DEF IInv, Filled, InSlab, IsSlab
<1>4. EndsByFailure'
  BY DEF IInv, EndsByFailure
<1> QED
  BY <1>1, <1>2, <1>3, <1>4

\* WriteOver, NoSlot and Flush only move the worker on; so does Finish when
\* there is nothing to clear.
LEMMA MoveOnStep ==
  ASSUME IInv, NEW w \in Workers, WriteOver(w) \/ NoSlot(w) \/ Flush(w)
  PROVE  IInv'
<1>0. /\ TypeOK /\ records \in [Workers -> Nat]
      /\ pc \in [Workers -> {"ready", "rotate", "overflow", "big", "done"}]
      /\ resume \in [Workers -> {"ready", "place", "done"}]
      /\ size \in [Workers -> Nat] /\ \A v \in Workers : size[v] \in Sizes[v] \union {0}
  BY DEF IInv, TypeOK
<1>1. /\ UNCHANGED <<poolVars, buf, stream, mem, chan, writerVars, mainVars>>
      /\ \/ UNCHANGED size
         \/ \E s \in Sizes[w] : size' = [size EXCEPT ![w] = s]
      /\ \/ UNCHANGED records
         \/ records' = [records EXCEPT ![w] = @ + 1]
      /\ \/ UNCHANGED resume
         \/ resume' = [resume EXCEPT ![w] = "place"]
         \/ resume' = [resume EXCEPT ![w] = "ready"]
      /\ \/ pc' = [pc EXCEPT ![w] = "rotate"]
         \/ pc' = [pc EXCEPT ![w] = "overflow"]
  BY DEF WriteOver, NoSlot, Flush
<1>2. SlotOwnership' /\ PoolConserved' /\ Filled' /\ EndsByFailure'
  BY <1>1, PoolUntouched DEF writerVars
<1>3. size' \in [Workers -> Nat] /\ \A v \in Workers : size'[v] \in Sizes[v] \union {0}
  <2>1. CASE UNCHANGED size
    BY <1>0, <2>1
  <2>2. CASE \E s \in Sizes[w] : size' = [size EXCEPT ![w] = s]
    <3>1. PICK s \in Sizes[w] : size' = [size EXCEPT ![w] = s]
      BY <2>2
    <3>2. s \in Nat
      BY OutputAssumption
    <3> QED
      BY <1>0, <3>1, <3>2
  <2> QED
    BY <1>1, <2>1, <2>2
<1>4. records' \in [Workers -> Nat]
  BY <1>0, <1>1
<1>5. resume' \in [Workers -> {"ready", "place", "done"}]
  BY <1>0, <1>1
<1>6. pc' \in [Workers -> {"ready", "rotate", "overflow", "big", "done"}]
  BY <1>0, <1>1
<1>7. TypeOK'
  BY <1>0, <1>1, <1>3, <1>4, <1>5, <1>6 DEF TypeOK, poolVars, writerVars, mainVars
<1> QED
  BY <1>2, <1>7 DEF IInv

\* Dropping output that goes nowhere keeps the invariant.
LEMMA ClearStep ==
  ASSUME IInv, NEW w \in Workers, Clear(w)
  PROVE  IInv'
<1>0. TypeOK
  BY DEF IInv
<1>1. /\ buf' = [buf EXCEPT ![w] = Cleared(buf[w])]
      /\ UNCHANGED <<poolVars, pc, size, resume, records, stream, mem, chan,
                     writerVars, mainVars>>
  BY DEF Clear
<1>2. /\ buf' \in [Workers -> Buffers]
      /\ SlotOwnership' /\ PoolConserved' /\ Filled' /\ EndsByFailure'
  BY <1>1, ClearedStep DEF poolVars, writerVars
<1>3. TypeOK'
  BY <1>0, <1>1, <1>2 DEF TypeOK, poolVars, writerVars, mainVars
<1> QED
  BY <1>2, <1>3 DEF IInv

\* The end of a worker's search keeps the invariant.
LEMMA FinishStep ==
  ASSUME IInv, NEW w \in Workers, Finish(w)
  PROVE  IInv'
<1>0. /\ TypeOK
      /\ pc \in [Workers -> {"ready", "rotate", "overflow", "big", "done"}]
      /\ resume \in [Workers -> {"ready", "place", "done"}]
  BY DEF IInv, TypeOK
<1>1. /\ UNCHANGED <<poolVars, size, records, stream, mem, chan, writerVars, mainVars>>
      /\ \/ UNCHANGED buf
         \/ buf' = [buf EXCEPT ![w] = Cleared(buf[w])]
      /\ \/ UNCHANGED resume
         \/ resume' = [resume EXCEPT ![w] = "done"]
      /\ \/ pc' = [pc EXCEPT ![w] = "rotate"]
         \/ pc' = [pc EXCEPT ![w] = "done"]
  BY DEF Finish
<1>2. /\ buf' \in [Workers -> Buffers]
      /\ SlotOwnership' /\ PoolConserved' /\ Filled' /\ EndsByFailure'
  <2>1. CASE UNCHANGED buf
    BY <1>0, <1>1, <2>1, PoolUntouched DEF writerVars, TypeOK
  <2>2. CASE buf' = [buf EXCEPT ![w] = Cleared(buf[w])]
    BY <1>1, <2>2, ClearedStep DEF poolVars, writerVars
  <2> QED
    BY <1>1, <2>1, <2>2
<1>3. /\ resume' \in [Workers -> {"ready", "place", "done"}]
      /\ pc' \in [Workers -> {"ready", "rotate", "overflow", "big", "done"}]
  BY <1>0, <1>1
<1>4. TypeOK'
  BY <1>0, <1>1, <1>2, <1>3 DEF TypeOK, poolVars, writerVars, mainVars
<1> QED
  BY <1>2, <1>4 DEF IInv

\* A worker's step keeps the invariant.
LEMMA WorkerInvariant ==
  ASSUME IInv, NEW w \in Workers, WorkerStep(w)
  PROVE  IInv'
BY WriteFitsStep, MoveOnStep, ClaimStep, ReserveFreshStep, ReserveBigStep,
   ClearStep, FinishStep DEF WorkerStep

-----------------------------------------------------------------------------
(* The output worker's steps, and those of the thread that waits.          *)

\* What a buffer contains is cells.
LEMMA ContentType ==
  ASSUME TypeOK, NEW b \in Messages, InSlab(b)
  PROVE  Content(b) \in Seq(Cells)
<1>1. CASE IsSlab(b)
  <2>1. b \in Buffers /\ b.slot \in SlotIds /\ b.len \in Nat /\ b.kind = "slab"
    BY <1>1, BufferFacts, SlabFacts DEF IsSlab
  <2>2. mem[b.slot] \in Seq(Cells) /\ b.len <= Len(mem[b.slot])
    BY <1>1, <2>1 DEF TypeOK, InSlab
  <2>3. \A i \in 1..b.len : mem[b.slot][i] \in Cells
    BY <2>1, <2>2, LenProperties, ElementOfSeq
  <2>4. SubSeq(mem[b.slot], 1, b.len) \in Seq(Cells)
    BY <2>1, <2>3, SubSeqProperties
  <2> QED
    BY <2>1, <2>4 DEF Content
<1>2. CASE ~IsSlab(b) /\ b \in Buffers
  <2>1. b.kind = "owned" /\ b.data \in Seq(Cells)
    BY <1>2, OwnedFacts
  <2> QED
    BY <2>1 DEF Content
<1>3. CASE b = FlushReq
  <2>1. b.kind = "flush"
    BY <1>3 DEF FlushReq
  <2> QED
    BY <2>1 DEF Content
<1> QED
  BY <1>1, <1>2, <1>3 DEF Messages

\* So are the contents of a sequence of buffers.
LEMMA ContentsType ==
  ASSUME TypeOK, NEW bufs \in Seq(Messages), \A i \in 1..Len(bufs) : InSlab(bufs[i])
  PROVE  /\ [i \in 1..Len(bufs) |-> Content(bufs[i])] \in Seq(Seq(Cells))
         /\ Flat(bufs) \in Seq(Cells)
<1> DEFINE contents == [i \in 1..Len(bufs) |-> Content(bufs[i])]
<1>1. Len(bufs) \in Nat /\ \A i \in 1..Len(bufs) : bufs[i] \in Messages
  BY LenProperties, ElementOfSeq
<1>2. \A i \in 1..Len(bufs) : Content(bufs[i]) \in Seq(Cells)
  BY <1>1, ContentType
<1>3. contents \in Seq(Seq(Cells))
  BY <1>1, <1>2, IsASeq
<1> HIDE DEF contents
<1>4. FlattenSeq(contents) \in Seq(Cells)
  BY <1>3, FlattenType
<1> QED
  BY <1>3, <1>4 DEF Flat, contents

\* Taking a message into the batch, or a request to flush, keeps it.
LEMMA AbsorbStep ==
  ASSUME IInv, Absorb
  PROVE  IInv'
<1> DEFINE msg == Head(chan)
           rest == Tail(chan)
<1>0. /\ TypeOK /\ SlotOwnership /\ PoolConserved /\ Filled /\ EndsByFailure
      /\ chan # <<>> /\ chan' = rest
      /\ UNCHANGED <<poolVars, workerVars, sent, failed, written, mainVars>>
      /\ writer \in {"recv", "drain"} /\ writer' \in {"write", "drain"}
      /\ afterwards' \in {"ack", "drain"}
      /\ \/ msg.kind = "flush" /\ batch' = batch
         \/ msg.kind # "flush" /\ batch' = Append(batch, msg)
  BY DEF Absorb, IInv
<1>1. /\ chan \in Seq(Messages) /\ batch \in Seq(Messages)
      /\ \A b \in Messages : BudgetOf(b) \in Nat
      /\ batch \in Seq(Buffers) /\ Seq(Messages) = Seq(Buffers \union {FlushReq})
  BY <1>0, QueueTypes DEF TypeOK, Messages
<1>2. /\ msg \in Messages /\ rest \in Seq(Messages)
      /\ Len(chan) \in Nat \ {0} /\ Len(rest) = Len(chan) - 1
      /\ chan[1] = msg /\ \A i \in 1..Len(rest) : rest[i] = chan[i + 1]
  BY <1>0, <1>1, HeadTailProperties, LenProperties, EmptySeq
<1>3. /\ SlotsIn(chan) = One(msg) \union SlotsIn(rest)
      /\ Distinct(chan) => Distinct(rest) /\ One(msg) \intersect SlotsIn(rest) = {}
      /\ Budget(rest) \in Nat /\ Budget(chan) = BudgetOf(msg) + Budget(rest)
  BY <1>0, <1>1, SlotsTail, BudgetTail
<1>4. /\ SlotsIn(Append(batch, msg)) = SlotsIn(batch) \union One(msg)
      /\ Distinct(batch) /\ One(msg) \intersect SlotsIn(batch) = {}
           => Distinct(Append(batch, msg))
  <2>1. batch \in Seq(Messages) /\ msg \in Messages
    BY <1>1, <1>2
  <2> HIDE DEF msg
  <2> QED
    BY ONLY <2>1, SlotsAppend
<1>5. Budget(batch) \in Nat /\ Budget(Append(batch, msg)) = Budget(batch) + BudgetOf(msg)
  <2> HIDE DEF msg
  <2> QED
    BY <1>1, <1>2, BudgetAppend
<1>6. /\ msg.kind = "flush" => One(msg) = {} /\ BudgetOf(msg) = 0
      /\ msg.kind # "flush" => msg \in Buffers
      /\ BudgetOf(msg) \in Nat
  <2> HIDE DEF msg
  <2> QED
    BY <1>2, BufferFacts DEF One, IsSlab
<1>7. /\ Distinct(chan) /\ Distinct(batch)
      /\ free \intersect HeldSlots = {}
      /\ (SlotsIn(chan) \union SlotsIn(batch)) \intersect (free \union HeldSlots) = {}
      /\ SlotsIn(chan) \intersect SlotsIn(batch) = {}
      /\ \A v \in Workers : IsSlab(buf[v]) => buf[v].slot[1] = v
  BY <1>0 DEF SlotOwnership
<1> HIDE DEF msg, rest
<1>8. HeldSlots' = HeldSlots /\ free' = free /\ used' = used /\ buf' = buf /\ mem' = mem
  BY <1>0 DEF HeldSlots, IsSlab, poolVars, workerVars
<1>9. SlotsIn(batch') = SlotsIn(batch) \union One(msg) /\ Distinct(batch')
  <2>1. CASE msg.kind = "flush" /\ batch' = batch
    BY <1>6, <1>7, <2>1
  <2>2. CASE msg.kind # "flush" /\ batch' = Append(batch, msg)
    <3>1. One(msg) \intersect SlotsIn(batch) = {}
      BY <1>3, <1>7
    <3> QED
      BY <1>4, <1>7, <2>2, <3>1
  <2> QED
    BY <1>0, <2>1, <2>2
<1>10. SlotOwnership'
  <2>1. Distinct(chan') /\ SlotsIn(chan') = SlotsIn(rest)
    BY <1>0, <1>3, <1>7
  <2>2. /\ free' \intersect HeldSlots' = {}
        /\ (SlotsIn(chan') \union SlotsIn(batch')) \intersect (free' \union HeldSlots') = {}
        /\ SlotsIn(chan') \intersect SlotsIn(batch') = {}
    BY <1>3, <1>7, <1>8, <1>9, <2>1
  <2> QED
    BY <1>7, <1>8, <1>9, <2>1, <2>2 DEF SlotOwnership, Distinct, SlotsIn, HeldSlots
<1>11. PoolConserved'
  <2>1. used = Budget(buf) + Budget(chan) + Budget(batch) /\ Budget(buf) \in Nat /\ used <= OverflowCap
    BY <1>0, UsedCovers
  <2>2. Budget(batch') = Budget(batch) + BudgetOf(msg)
    <3>1. CASE msg.kind = "flush" /\ batch' = batch
      BY <1>5, <1>6, <3>1
    <3>2. CASE msg.kind # "flush" /\ batch' = Append(batch, msg)
      BY <1>5, <3>2
    <3> QED
      BY <1>0, <3>1, <3>2
  <2>3. Budget(chan') = Budget(rest) /\ Budget(buf') = Budget(buf)
    BY <1>0, <1>8
  <2>4. used' = Budget(buf') + Budget(chan') + Budget(batch') /\ used' <= OverflowCap
    BY <1>3, <1>5, <1>6, <1>8, <2>1, <2>2, <2>3
  <2>5. free' \union HeldSlots' \union SlotsIn(chan') \union SlotsIn(batch')
          = free \union HeldSlots \union SlotsIn(chan) \union SlotsIn(batch)
    BY <1>0, <1>3, <1>8, <1>9
  <2>6. ~failed' /\ writer' # "absent" => ~failed /\ writer # "absent"
    BY <1>0
  <2> QED
    BY <1>0, <2>4, <2>5, <2>6 DEF PoolConserved
<1>12. Filled'
  <2>1. /\ \A v \in Workers : InSlab(buf[v])
        /\ \A i \in 1..Len(chan) : InSlab(chan[i])
        /\ \A i \in 1..Len(batch) : InSlab(batch[i])
    BY <1>0 DEF Filled
  <2>2. \A i \in 1..Len(rest) : InSlab(rest[i])
    BY <1>2, <2>1
  <2>3. InSlab(msg)
    BY <1>2, <2>1
  <2>4. \A i \in 1..Len(batch') : IsSlab(batch'[i]) => batch'[i].len <= Len(mem[batch'[i].slot])
    <3>1. CASE batch' = batch
      BY <2>1, <3>1 DEF InSlab
    <3>2. CASE batch' = Append(batch, msg)
      <4>1. /\ Len(batch') = Len(batch) + 1 /\ batch'[Len(batch) + 1] = msg
            /\ \A i \in 1..Len(batch) : batch'[i] = batch[i]
            /\ Len(batch) \in Nat
        BY <1>1, <1>2, <3>2, AppendProperties, LenProperties
      <4>2. \A i \in 1..Len(batch') : i \in 1..Len(batch) \/ i = Len(batch) + 1
        BY <4>1
      <4> QED
        BY <2>1, <2>3, <4>1, <4>2 DEF InSlab
    <3> QED
      BY <1>0, <3>1, <3>2
  <2>5. /\ \A v \in Workers : InSlab(buf[v])'
        /\ \A i \in 1..Len(chan') : IsSlab(chan'[i]) => chan'[i].len <= Len(mem'[chan'[i].slot])
    BY <1>0, <1>8, <2>1, <2>2 DEF InSlab
  <2> QED
    BY <1>8, <2>4, <2>5 DEF Filled, InSlab
<1>13. EndsByFailure'
  BY <1>0 DEF EndsByFailure
<1>14. TypeOK'
  <2>1. batch' \in Seq(Buffers)
    <3>1. CASE batch' = batch
      BY <1>1, <3>1
    <3>2. CASE msg.kind # "flush" /\ batch' = Append(batch, msg)
      BY <1>1, <1>6, <3>2, AppendProperties
    <3> QED
      BY <1>0, <3>1, <3>2
  <2>2. chan' \in Seq(Buffers \union {FlushReq})
    BY <1>0, <1>1, <1>2
  <2>3. /\ writer' \in {"recv", "drain", "write", "ack", "last", "dead", "absent"}
        /\ afterwards' \in {"recv", "drain", "ack"}
    BY <1>0
  <2> QED
    BY <1>0, <2>1, <2>2, <2>3 DEF TypeOK, poolVars, workerVars, mainVars
<1> QED
  BY <1>10, <1>11, <1>12, <1>13, <1>14 DEF IInv

\* A write, whole or partial, keeps it.
LEMMA WriteSomeStep ==
  ASSUME IInv, WriteSome
  PROVE  IInv'
<1>0. /\ TypeOK /\ written \in Seq(Cells) /\ sent \in Nat
      /\ UNCHANGED <<poolVars, workerVars, chan, writer, afterwards, batch, failed, mainVars>>
  BY DEF IInv, TypeOK, WriteSome
<1>1. BatchCells \in Seq(Cells)
  BY <1>0, QueueTypes, ContentsType DEF IInv, Filled, BatchCells
<1>2. PICK n \in 1..(Len(BatchCells) - sent) :
        /\ written' = written \o SubSeq(BatchCells, sent + 1, sent + n)
        /\ sent' = sent + n
  BY DEF WriteSome
<1>3. Len(BatchCells) \in Nat /\ \A i \in 1..Len(BatchCells) : BatchCells[i] \in Cells
  BY <1>1, LenProperties, ElementOfSeq
<1> DEFINE part == SubSeq(BatchCells, sent + 1, sent + n)
<1>4. part \in Seq(Cells)
  <2>1. \A i \in (sent + 1)..(sent + n) : BatchCells[i] \in Cells
    BY <1>0, <1>3
  <2>2. sent + 1 \in Int /\ sent + n \in Int
    BY <1>0
  <2> QED
    BY <2>1, <2>2, SubSeqProperties
<1> HIDE DEF part
<1>5. written \o part \in Seq(Cells)
  BY <1>0, <1>4, ConcatProperties
<1>6. written' \in Seq(Cells) /\ sent' \in Nat
  BY <1>0, <1>2, <1>5 DEF part
<1>7. SlotOwnership' /\ PoolConserved' /\ Filled' /\ EndsByFailure'
  BY <1>0, PoolUntouched DEF workerVars
<1>8. TypeOK'
  BY <1>0, <1>6 DEF TypeOK, poolVars, workerVars, mainVars
<1> QED
  BY <1>7, <1>8 DEF IInv

\* The writer or the waiting thread moves on.
LEMMA WriterMovesStep ==
  ASSUME IInv, Drained \/ Ack \/ Fail \/ WaitGivesUp \/ SearchAgain \/ Idle
  PROVE  IInv'
<1>0. TypeOK /\ EndsByFailure
  BY DEF IInv
<1>1. /\ UNCHANGED <<poolVars, buf, size, resume, records, stream, mem, chan, batch, written>>
      /\ \/ writer' = writer /\ failed' = failed
         \/ /\ failed' = failed /\ writer \notin {"absent", "last", "dead"}
            /\ writer' \in {"write", "drain"}
         \/ failed' = TRUE /\ writer' = "last"
      /\ afterwards' \in {afterwards, "recv"}
      /\ sent' \in {sent, 0}
      /\ phase' \in {"searching", "waiting", "returned"}
      /\ searches' \in {searches, searches + 1}
      /\ pc' \in {pc, [w \in Workers |-> "ready"]}
  BY <1>0 DEF Drained, Ack, Fail, WaitGivesUp, SearchAgain, Idle, poolVars, workerVars,
              writerVars, mainVars, vars, TypeOK
<1>2. TypeOK'
  <2>1. /\ writer' \in {"recv", "drain", "write", "ack", "last", "dead", "absent"}
        /\ failed' \in BOOLEAN /\ afterwards' \in {"recv", "drain", "ack"}
        /\ sent' \in Nat /\ searches' \in Nat
    <3>1. /\ writer \in {"recv", "drain", "write", "ack", "last", "dead", "absent"}
          /\ failed \in BOOLEAN /\ afterwards \in {"recv", "drain", "ack"}
          /\ sent \in Nat /\ searches \in Nat
      BY <1>0 DEF TypeOK
    <3>2. searches + 1 \in Nat
      BY <3>1
    <3>3. writer' \in {"recv", "drain", "write", "ack", "last", "dead", "absent"}
      BY <1>1, <3>1
    <3>4. failed' \in BOOLEAN
      BY <1>1, <3>1
    <3>5. afterwards' \in {"recv", "drain", "ack"}
      BY <1>1, <3>1
    <3>6. sent' \in Nat /\ searches' \in Nat
      BY <1>1, <3>1, <3>2
    <3> QED
      BY <3>3, <3>4, <3>5, <3>6
  <2>2. pc' \in [Workers -> {"ready", "rotate", "overflow", "big", "done"}]
    BY <1>0, <1>1 DEF TypeOK
  <2> QED
    BY <1>0, <1>1, <2>1, <2>2 DEF TypeOK, poolVars
<1>3. SlotOwnership' /\ PoolConserved' /\ Filled'
  <2>1. \/ ~failed' /\ writer' # "absent" => ~failed /\ writer # "absent"
    BY <1>0, <1>1 DEF TypeOK
  <2>2. SlotOwnership'
    <3>1. HeldSlots' = HeldSlots /\ free' = free /\ chan' = chan /\ batch' = batch /\ buf' = buf
      BY <1>1 DEF HeldSlots, IsSlab, poolVars
    <3>2. SlotOwnership
      BY DEF IInv
    <3>3. /\ Distinct(chan') /\ Distinct(batch')
          /\ free' \intersect HeldSlots' = {}
          /\ (SlotsIn(chan') \union SlotsIn(batch')) \intersect (free' \union HeldSlots') = {}
          /\ SlotsIn(chan') \intersect SlotsIn(batch') = {}
          /\ \A v \in Workers : IsSlab(buf'[v]) => buf'[v].slot[1] = v
      BY <3>1, <3>2 DEF SlotOwnership
    <3> QED
      BY <3>3 DEF SlotOwnership, Distinct, SlotsIn, HeldSlots
  <2>3. PoolConserved'
    BY <1>1, <2>1 DEF IInv, PoolConserved, SlotsIn, HeldSlots, IsSlab, poolVars
  <2>4. Filled'
    BY <1>1 DEF IInv, Filled, InSlab, IsSlab
  <2> QED
    BY <2>2, <2>3, <2>4
<1>4. EndsByFailure'
  BY <1>0, <1>1 DEF EndsByFailure
<1> QED
  BY <1>2, <1>3, <1>4 DEF IInv

\* Sending the request to flush keeps it.
LEMMA WaitFlushStep ==
  ASSUME IInv, WaitFlush
  PROVE  IInv'
<1>0. /\ TypeOK /\ SlotOwnership /\ PoolConserved /\ Filled /\ EndsByFailure
      /\ UNCHANGED <<poolVars, workerVars, writerVars, searches>>
      /\ phase' = "waiting"
      /\ chan' = chan \/ chan' = Append(chan, FlushReq)
  BY DEF WaitFlush, IInv
<1>1. /\ chan \in Seq(Messages) /\ FlushReq \in Messages /\ Messages = Buffers \union {FlushReq}
      /\ \A b \in Messages : BudgetOf(b) \in Nat
  BY <1>0, QueueTypes DEF Messages
<1>2. ~IsSlab(FlushReq) /\ BudgetOf(FlushReq) = 0 /\ One(FlushReq) = {}
  BY DEF FlushReq, IsSlab, BudgetOf, One
<1>3. /\ SlotsIn(Append(chan, FlushReq)) = SlotsIn(chan) \union One(FlushReq)
      /\ Distinct(chan) /\ One(FlushReq) \intersect SlotsIn(chan) = {}
           => Distinct(Append(chan, FlushReq))
  <2> DEFINE m == FlushReq
  <2>1. chan \in Seq(Messages) /\ m \in Messages
    BY <1>1
  <2> HIDE DEF m
  <2>2. /\ SlotsIn(Append(chan, m)) = SlotsIn(chan) \union One(m)
        /\ Distinct(chan) /\ One(m) \intersect SlotsIn(chan) = {}
             => Distinct(Append(chan, m))
    BY ONLY <2>1, SlotsAppend
  <2> QED
    BY <2>2 DEF m
<1>4. Budget(chan) \in Nat /\ Budget(Append(chan, FlushReq)) = Budget(chan) + BudgetOf(FlushReq)
  BY <1>1, BudgetAppend
<1>5. /\ Append(chan, FlushReq) \in Seq(Messages)
      /\ Len(Append(chan, FlushReq)) = Len(chan) + 1 /\ Len(chan) \in Nat
      /\ Append(chan, FlushReq)[Len(chan) + 1] = FlushReq
      /\ \A i \in 1..Len(chan) : Append(chan, FlushReq)[i] = chan[i]
  BY <1>1, AppendProperties, LenProperties
<1>6. /\ SlotsIn(chan') = SlotsIn(chan) /\ Budget(chan') = Budget(chan)
      /\ Distinct(chan')
  <2>1. CASE chan' = chan
    BY <1>0, <2>1 DEF SlotOwnership
  <2>2. CASE chan' = Append(chan, FlushReq)
    <3>1. SlotsIn(chan') = SlotsIn(chan)
      BY <1>2, <1>3, <2>2
    <3>2. Distinct(chan')
      BY <1>0, <1>2, <1>3, <2>2 DEF SlotOwnership
    <3>3. Budget(chan') = Budget(chan)
      BY <1>2, <1>4, <2>2
    <3> QED
      BY <3>1, <3>2, <3>3
  <2> QED
    BY <1>0, <2>1, <2>2
<1>7. /\ HeldSlots' = HeldSlots /\ free' = free /\ used' = used /\ buf' = buf
      /\ mem' = mem /\ batch' = batch /\ writer' = writer /\ failed' = failed
  BY <1>0 DEF HeldSlots, IsSlab, poolVars, workerVars, writerVars
<1>8. SlotOwnership'
  <2>1. /\ Distinct(batch')
        /\ free' \intersect HeldSlots' = {}
        /\ (SlotsIn(chan') \union SlotsIn(batch')) \intersect (free' \union HeldSlots') = {}
        /\ SlotsIn(chan') \intersect SlotsIn(batch') = {}
        /\ \A v \in Workers : IsSlab(buf'[v]) => buf'[v].slot[1] = v
    BY <1>0, <1>6, <1>7 DEF SlotOwnership
  <2> QED
    BY <1>6, <2>1 DEF SlotOwnership, Distinct, SlotsIn, HeldSlots
<1>9. PoolConserved'
  BY <1>0, <1>6, <1>7 DEF PoolConserved
<1>10. Filled'
  <2>1. \A i \in 1..Len(chan') : IsSlab(chan'[i]) => chan'[i].len <= Len(mem[chan'[i].slot])
    <3>1. CASE chan' = chan
      BY <1>0, <3>1 DEF Filled, InSlab
    <3>2. CASE chan' = Append(chan, FlushReq)
      <4>1. \A i \in 1..Len(chan') : i \in 1..Len(chan) \/ i = Len(chan) + 1
        BY <1>5, <3>2
      <4> QED
        BY <1>0, <1>2, <1>5, <3>2, <4>1 DEF Filled, InSlab
    <3> QED
      BY <1>0, <3>1, <3>2
  <2> QED
    BY <1>0, <1>7, <2>1 DEF Filled, InSlab, IsSlab
<1>11. EndsByFailure'
  BY <1>0, <1>7 DEF EndsByFailure
<1>12. TypeOK'
  <2>1. chan' \in Seq(Buffers \union {FlushReq})
    BY <1>0, <1>1, <1>5
  <2> QED
    BY <1>0, <2>1 DEF TypeOK, poolVars, workerVars, writerVars
<1> QED
  BY <1>8, <1>9, <1>10, <1>11, <1>12 DEF IInv

\* The batch goes away: Written and Die.
LEMMA BatchDoneStep ==
  ASSUME IInv, Written \/ Die
  PROVE  IInv'
<1>0. /\ TypeOK /\ SlotOwnership /\ PoolConserved /\ Filled /\ EndsByFailure
      /\ UNCHANGED <<workerVars, failed, written, mainVars>> /\ afterwards' = afterwards
      /\ batch' = <<>> /\ sent' = 0
      /\ \/ writer = "write" /\ writer' = afterwards /\ chan' = chan
         \/ writer = "last" /\ writer' = "dead" /\ chan' = <<>>
  BY DEF Written, Die, IInv
<1>1. /\ writer = "write" => /\ free' = free \union SlotsIn(batch)
                             /\ used' = used - Budget(batch)
      /\ writer = "last" => /\ free' \in {free, free \union SlotsIn(batch)}
                            /\ used' = used - Budget(batch) - Budget(chan)
  BY DEF Written, Die
<1>2. /\ Budget(buf) \in Nat /\ Budget(chan) \in Nat /\ Budget(batch) \in Nat
      /\ used = Budget(buf) + Budget(chan) + Budget(batch) /\ used <= OverflowCap
      /\ OverflowCap \in Nat
  BY <1>0, UsedCovers, OutputAssumption
<1>3. /\ Distinct(chan) /\ Distinct(batch)
      /\ free \intersect HeldSlots = {}
      /\ (SlotsIn(chan) \union SlotsIn(batch)) \intersect (free \union HeldSlots) = {}
      /\ SlotsIn(chan) \intersect SlotsIn(batch) = {}
      /\ \A v \in Workers : IsSlab(buf[v]) => buf[v].slot[1] = v
  BY <1>0 DEF SlotOwnership
<1>4. /\ HeldSlots' = HeldSlots /\ buf' = buf /\ mem' = mem
      /\ SlotsIn(batch') = {} /\ Distinct(batch') /\ Budget(batch') = 0
  BY <1>0, Nothing DEF HeldSlots, IsSlab, workerVars
<1>5. /\ \/ chan' = chan \/ chan' = <<>>
      /\ SlotsIn(chan') \subseteq SlotsIn(chan) /\ Distinct(chan')
  BY <1>0, <1>3, Nothing
<1>6. free \subseteq free' /\ free' \subseteq free \union SlotsIn(batch)
  BY <1>0, <1>1
<1>7. SlotOwnership'
  <2>1. /\ free' \intersect HeldSlots' = {}
        /\ (SlotsIn(chan') \union SlotsIn(batch')) \intersect (free' \union HeldSlots') = {}
        /\ SlotsIn(chan') \intersect SlotsIn(batch') = {}
    BY <1>3, <1>4, <1>5, <1>6
  <2> QED
    BY <1>3, <1>4, <1>5, <2>1 DEF SlotOwnership, Distinct, SlotsIn, HeldSlots
<1>8. /\ used' = Budget(buf') + Budget(chan') + Budget(batch')
      /\ used' \in Nat /\ used' <= OverflowCap
  <2>1. Budget(buf') = Budget(buf)
    BY <1>4
  <2>2. CASE writer = "write"
    <3>1. used' = used - Budget(batch) /\ Budget(chan') = Budget(chan)
      BY <1>0, <1>1, <2>2
    <3> QED
      BY <1>2, <1>4, <2>1, <3>1
  <2>3. CASE writer = "last"
    <3>1. used' = used - Budget(batch) - Budget(chan) /\ Budget(chan') = 0
      BY <1>0, <1>1, <2>3, Nothing
    <3> QED
      BY <1>2, <1>4, <2>1, <3>1
  <2> QED
    BY <1>0, <2>2, <2>3
<1>9. ASSUME ~failed', writer' # "absent"
      PROVE  free' \union HeldSlots' \union SlotsIn(chan') \union SlotsIn(batch') = SlotIds
  <2>1. writer = "write" /\ ~failed
    BY <1>0, <1>9 DEF EndsByFailure
  <2>2. free \union HeldSlots \union SlotsIn(chan) \union SlotsIn(batch) = SlotIds
    BY <1>0, <2>1 DEF PoolConserved
  <2>3. free' = free \union SlotsIn(batch) /\ chan' = chan
    BY <1>0, <1>1, <2>1
  <2>4. SlotsIn(chan') = SlotsIn(chan)
    BY <2>3
  <2> QED
    BY <1>4, <2>2, <2>3, <2>4
<1>10. PoolConserved'
  BY <1>8, <1>9 DEF PoolConserved
<1>11. Filled'
  <2>1. \A i \in 1..Len(chan') : IsSlab(chan'[i]) => chan'[i].len <= Len(mem[chan'[i].slot])
    <3>1. CASE chan' = chan
      BY <1>0, <3>1 DEF Filled, InSlab
    <3>2. CASE chan' = <<>>
      BY <3>2
    <3> QED
      BY <1>5, <3>1, <3>2
  <2>2. \A i \in 1..Len(batch') : InSlab(batch[i])'
    BY <1>0
  <2> QED
    BY <1>0, <1>4, <2>1, <2>2 DEF Filled, InSlab, IsSlab
<1>12. EndsByFailure'
  BY <1>0 DEF EndsByFailure, TypeOK
<1>13. TypeOK'
  <2>1. free' \subseteq SlotIds
    <3>1. SlotsIn(batch) \subseteq SlotIds
      <4>1. \A i \in 1..Len(batch) : batch[i] \in Messages
        BY <1>0, QueueTypes
      <4>2. \A x : x \in SlotsIn(batch) <=>
                 \E i \in 1..Len(batch) : IsSlab(batch[i]) /\ x = batch[i].slot
        BY <1>0, QueueTypes, SlotsAre
      <4>3. \A b \in Messages : IsSlab(b) => b.slot \in SlotIds
        BY BufferFacts, SlabFacts
      <4> QED
        BY <4>1, <4>2, <4>3
    <3> QED
      BY <1>0, <1>6, <3>1 DEF TypeOK
  <2>2. chan' \in Seq(Buffers \union {FlushReq}) /\ batch' \in Seq(Buffers)
    <3>1. chan \in Seq(Buffers \union {FlushReq})
      BY <1>0 DEF TypeOK
    <3>2. <<>> \in Seq(Buffers) /\ <<>> \in Seq(Buffers \union {FlushReq})
      OBVIOUS
    <3>3. chan' \in Seq(Buffers \union {FlushReq})
      BY <1>5, <3>1, <3>2
    <3> QED
      BY <1>0, <3>2, <3>3
  <2>3. writer' \in {"recv", "drain", "write", "ack", "last", "dead", "absent"}
    BY <1>0 DEF TypeOK
  <2>4. sent' \in Nat
    BY <1>0
  <2> QED
    BY <1>0, <1>8, <2>1, <2>2, <2>3, <2>4 DEF TypeOK, workerVars, mainVars
<1> QED
  BY <1>7, <1>10, <1>11, <1>12, <1>13 DEF IInv

-----------------------------------------------------------------------------
(* The invariant.                                                          *)

\* Every step keeps the invariant.
LEMMA StepInvariant == IInv /\ [Next]_vars => IInv'
<1> SUFFICES ASSUME IInv, [Next]_vars PROVE IInv'
  OBVIOUS
<1>1. ASSUME NEW w \in Workers, WorkerStep(w) PROVE IInv'
  BY <1>1, WorkerInvariant
<1>2. CASE WriterStep
  BY <1>2, AbsorbStep, WriterMovesStep, WriteSomeStep, BatchDoneStep DEF WriterStep
<1>3. CASE MainStep
  BY <1>3, WaitFlushStep, WriterMovesStep DEF MainStep
<1>4. CASE Fail \/ Idle
  BY <1>4, WriterMovesStep
<1>5. CASE UNCHANGED vars
  <2>1. SlotOwnership' /\ PoolConserved' /\ Filled' /\ EndsByFailure'
    BY <1>5, PoolUntouched DEF vars, poolVars
  <2>2. TypeOK'
    BY <1>5 DEF vars, IInv, TypeOK
  <2> QED
    BY <2>1, <2>2 DEF IInv
<1> QED
  BY <1>1, <1>2, <1>3, <1>4, <1>5 DEF Next

\* The invariant holds in every state, whatever the workers, the output worker
\* and the thread that waits do, and in whatever order.
THEOREM Invariance == Spec => []IInv
<1>1. Init => IInv
  BY InitInvariant
<1>2. IInv /\ [Next]_vars => IInv'
  BY StepInvariant
<1> QED
  BY <1>1, <1>2, PTL DEF Spec

\* The types of the state, the sizes of pending records among them; that the
\* subtractions from overflow_used never go below zero is part of it.
THEOREM TypeCorrect == Spec => []TypeOK
<1>1. IInv => TypeOK
  BY DEF IInv
<1> QED
  BY <1>1, Invariance, PTL

\* A slot is free, or its own worker's, or in flight to the output worker, and
\* never two of these at once, however rotations, shipments, failed writes and
\* further searches interleave.
THEOREM SlotOwnershipCorrect == Spec => []SlotOwnership
<1>1. IInv => SlotOwnership
  BY DEF IInv
<1> QED
  BY <1>1, Invariance, PTL

\* overflow_used is what the overflow buffers that exist have reserved, within
\* the budget; and until a write fails no slot is lost.
THEOREM PoolConservedCorrect == Spec => []PoolConserved
<1>1. IInv => PoolConserved
  BY DEF IInv
<1> QED
  BY <1>1, Invariance, PTL

(***************************************************************************)
(* What stdout receives: in each worker's order, without tearing a record, *)
(* and all of it when wait returns.  The argument follows a record from    *)
(* its worker's buffer through the channel and the batch, with the slots   *)
(* read when they are written out; that no slot is overwritten meanwhile   *)
(* is SlotOwnership.                                                       *)
(***************************************************************************)

-----------------------------------------------------------------------------
(* What buffers contain, in a given memory.                                *)

Memories == [SlotIds -> Seq(Cells)]

FitsIn(m, b) == IsSlab(b) => b.len <= Len(m[b.slot])

ContentIn(m, b) == CASE b.kind = "slab"  -> SubSeq(m[b.slot], 1, b.len)
                     [] b.kind = "owned" -> b.data
                     [] OTHER            -> <<>>

ContentsIn(m, bufs) == [i \in 1..Len(bufs) |-> ContentIn(m, bufs[i])]
FlatIn(m, bufs) == FlattenSeq(ContentsIn(m, bufs))

\* What a buffer holds is a sequence of cells.
LEMMA ContentInType ==
  ASSUME NEW m \in Memories, NEW b \in Messages, FitsIn(m, b)
  PROVE  /\ ContentIn(m, b) \in Seq(Cells)
         /\ b \in Buffers /\ BufLen(b) = 0 => ContentIn(m, b) = <<>>
         /\ b.kind = "flush" => ContentIn(m, b) = <<>>
<1>1. CASE IsSlab(b)
  <2>1. /\ b \in Buffers /\ b.slot \in SlotIds /\ b.len \in Nat /\ b.kind = "slab"
        /\ BufLen(b) = b.len
    BY <1>1, BufferFacts, SlabFacts DEF IsSlab
  <2>2. m[b.slot] \in Seq(Cells) /\ b.len <= Len(m[b.slot])
    BY <1>1, <2>1 DEF FitsIn, Memories
  <2>3. \A i \in 1..b.len : m[b.slot][i] \in Cells
    BY <2>1, <2>2, LenProperties, ElementOfSeq
  <2>4. SubSeq(m[b.slot], 1, b.len) \in Seq(Cells)
    BY <2>1, <2>3, SubSeqProperties
  <2>5. b.len = 0 => SubSeq(m[b.slot], 1, b.len) = <<>>
    BY <2>1, SubSeqEmpty
  <2>6. ContentIn(m, b) = SubSeq(m[b.slot], 1, b.len)
    BY <2>1 DEF ContentIn
  <2> QED
    BY <2>1, <2>4, <2>5, <2>6
<1>2. CASE ~IsSlab(b) /\ b \in Buffers
  <2>1. b.kind = "owned" /\ b.data \in Seq(Cells) /\ BufLen(b) = Len(b.data)
    BY <1>2, OwnedFacts
  <2>2. Len(b.data) = 0 => b.data = <<>>
    BY <2>1, EmptySeq
  <2> QED
    BY <2>1, <2>2 DEF ContentIn
<1>3. CASE b = FlushReq
  <2>1. b.kind = "flush"
    BY <1>3 DEF FlushReq
  <2>2. ContentIn(m, b) = <<>>
    BY <2>1 DEF ContentIn
  <2> QED
    BY <2>2
<1> QED
  BY <1>1, <1>2, <1>3 DEF Messages

\* So is what a sequence of buffers holds.
LEMMA FlatInType ==
  ASSUME NEW m \in Memories, NEW bufs \in Seq(Messages),
         \A i \in 1..Len(bufs) : FitsIn(m, bufs[i])
  PROVE  /\ ContentsIn(m, bufs) \in Seq(Seq(Cells))
         /\ Len(ContentsIn(m, bufs)) = Len(bufs)
         /\ FlatIn(m, bufs) \in Seq(Cells)
<1>1. Len(bufs) \in Nat /\ \A i \in 1..Len(bufs) : bufs[i] \in Messages
  BY LenProperties, ElementOfSeq
<1>2. \A i \in 1..Len(bufs) : ContentIn(m, bufs[i]) \in Seq(Cells)
  BY <1>1, ContentInType
<1>3. ContentsIn(m, bufs) \in Seq(Seq(Cells)) /\ Len(ContentsIn(m, bufs)) = Len(bufs)
  BY <1>1, <1>2 DEF ContentsIn
<1> QED
  BY <1>3, FlattenType DEF FlatIn

\* The contents of two queues put together.
LEMMA FlatInConcat ==
  ASSUME NEW m \in Memories, NEW s \in Seq(Messages), NEW t \in Seq(Messages),
         \A i \in 1..Len(s) : FitsIn(m, s[i]),
         \A i \in 1..Len(t) : FitsIn(m, t[i])
  PROVE  FlatIn(m, s \o t) = FlatIn(m, s) \o FlatIn(m, t)
<1> DEFINE st == s \o t
           a == ContentsIn(m, s)
           b == ContentsIn(m, t)
           ab == ContentsIn(m, st)
           k == Len(s)
           n == Len(t)
<1>1. /\ st \in Seq(Messages) /\ Len(st) = k + n /\ k \in Nat /\ n \in Nat
      /\ \A i \in 1..k + n : st[i] = IF i <= k THEN s[i] ELSE t[i - k]
  BY ConcatProperties, LenProperties
<1>2. /\ a \in Seq(Seq(Cells)) /\ Len(a) = k /\ \A i \in 1..k : a[i] = ContentIn(m, s[i])
      /\ b \in Seq(Seq(Cells)) /\ Len(b) = n /\ \A i \in 1..n : b[i] = ContentIn(m, t[i])
  BY FlatInType DEF ContentsIn
<1>3. \A i \in 1..k + n : ab[i] = ContentIn(m, st[i])
  BY <1>1 DEF ContentsIn
<1>4. \A i \in 1..Len(st) : FitsIn(m, st[i])
  <2> HIDE DEF st, k, n
  <2> SUFFICES ASSUME NEW i \in 1..Len(st) PROVE FitsIn(m, st[i])
    OBVIOUS
  <2>1. CASE i <= k
    BY <1>1, <2>1 DEF k
  <2>2. CASE ~(i <= k)
    <3>1. i - k \in 1..n /\ st[i] = t[i - k]
      BY <1>1, <2>2
    <3> QED
      BY <3>1 DEF n
  <2> QED
    BY <2>1, <2>2
<1>5. ab \in Seq(Seq(Cells)) /\ Len(ab) = k + n
  BY <1>1, <1>4, FlatInType
<1> HIDE DEF st, a, b, ab, k, n
<1>6. /\ a \o b \in Seq(Seq(Cells)) /\ Len(a \o b) = k + n
      /\ \A i \in 1..k + n : (a \o b)[i] = IF i <= k THEN a[i] ELSE b[i - k]
  BY <1>2, ConcatProperties
<1>7. \A i \in 1..k + n : ab[i] = (a \o b)[i]
  <2> SUFFICES ASSUME NEW i \in 1..k + n PROVE ab[i] = (a \o b)[i]
    OBVIOUS
  <2>1. CASE i <= k
    <3>1. i \in 1..k
      BY <1>1, <2>1
    <3>2. st[i] = s[i] /\ (a \o b)[i] = a[i]
      BY <1>1, <1>6, <2>1
    <3>3. ab[i] = ContentIn(m, st[i]) /\ a[i] = ContentIn(m, s[i])
      BY <1>2, <1>3, <3>1
    <3> QED
      BY <3>2, <3>3
  <2>2. CASE ~(i <= k)
    <3>1. i - k \in 1..n
      BY <1>1, <2>2
    <3>2. st[i] = t[i - k] /\ (a \o b)[i] = b[i - k]
      BY <1>1, <1>6, <2>2
    <3>3. ab[i] = ContentIn(m, st[i]) /\ b[i - k] = ContentIn(m, t[i - k])
      BY <1>2, <1>3, <3>1
    <3> QED
      BY <3>2, <3>3
  <2> QED
    BY <2>1, <2>2
<1>8. ab = a \o b
  BY <1>5, <1>6, <1>7, SeqEqual
<1>9. FlattenSeq(a \o b) = FlattenSeq(a) \o FlattenSeq(b)
  BY <1>2, FlattenConcat
<1> QED
  BY <1>8, <1>9 DEF FlatIn, st, a, b, ab

\* Of no buffer and of one.
LEMMA FlatInSmall ==
  ASSUME NEW m \in Memories
  PROVE  /\ FlatIn(m, <<>>) = <<>>
         /\ \A b \in Messages : FitsIn(m, b) => FlatIn(m, <<b>>) = ContentIn(m, b)
<1>1. FlatIn(m, <<>>) = <<>>
  <2>1. ContentsIn(m, <<>>) = <<>>
    BY DEF ContentsIn
  <2> QED
    BY <2>1, FlattenSmall DEF FlatIn
<1>2. ASSUME NEW b \in Messages, FitsIn(m, b)
      PROVE  FlatIn(m, <<b>>) = ContentIn(m, b)
  <2> DEFINE c == ContentIn(m, b)
             bs == <<b>>
  <2>1. bs \in Seq(Messages) /\ Len(bs) = 1 /\ \A i \in 1..1 : bs[i] = b
    OBVIOUS
  <2>2. c \in Seq(Cells)
    BY <1>2, ContentInType
  <2> HIDE DEF bs
  <2>3. ContentsIn(m, bs) = [i \in 1..1 |-> ContentIn(m, bs[i])]
    BY <2>1 DEF ContentsIn
  <2>4. \A i \in 1..1 : ContentIn(m, bs[i]) = c
    BY <2>1
  <2> HIDE DEF c
  <2>5. ContentsIn(m, bs) = [i \in 1..1 |-> c]
    BY <2>3, <2>4
  <2>6. [i \in 1..1 |-> c] = <<c>>
    OBVIOUS
  <2>7. FlattenSeq(<<c>>) = c
    BY <2>2, FlattenSmall
  <2> QED
    BY <2>5, <2>6, <2>7 DEF FlatIn, c, bs
<1> QED
  BY <1>1, <1>2

\* A message is sent, and taken.
LEMMA FlatInAppend ==
  ASSUME NEW m \in Memories, NEW bufs \in Seq(Messages), NEW b \in Messages,
         \A i \in 1..Len(bufs) : FitsIn(m, bufs[i]), FitsIn(m, b)
  PROVE  FlatIn(m, Append(bufs, b)) = FlatIn(m, bufs) \o ContentIn(m, b)
<1> DEFINE bs == <<b>>
<1>1. bs \in Seq(Messages) /\ Len(bs) = 1 /\ \A i \in 1..1 : bs[i] = b
  OBVIOUS
<1>2. Append(bufs, b) = bufs \o bs
  BY AppendIsConcat
<1>3. FlatIn(m, bs) = ContentIn(m, b)
  BY FlatInSmall
<1>4. \A i \in 1..Len(bs) : FitsIn(m, bs[i])
  BY <1>1
<1> HIDE DEF bs
<1>5. FlatIn(m, bufs \o bs) = FlatIn(m, bufs) \o FlatIn(m, bs)
  BY <1>1, <1>4, FlatInConcat
<1> QED
  BY <1>2, <1>3, <1>5

\* Of a first buffer and the others.
LEMMA FlatInTail ==
  ASSUME NEW m \in Memories, NEW bufs \in Seq(Messages), bufs # <<>>,
         \A i \in 1..Len(bufs) : FitsIn(m, bufs[i])
  PROVE  /\ FlatIn(m, bufs) = ContentIn(m, Head(bufs)) \o FlatIn(m, Tail(bufs))
         /\ FitsIn(m, Head(bufs)) /\ Head(bufs) \in Messages
         /\ Tail(bufs) \in Seq(Messages)
         /\ \A i \in 1..Len(Tail(bufs)) : FitsIn(m, Tail(bufs)[i])
<1> DEFINE b == Head(bufs)
           t == Tail(bufs)
           bs == <<b>>
<1>1. /\ b \in Messages /\ t \in Seq(Messages) /\ Len(t) = Len(bufs) - 1
      /\ \A i \in 1..Len(t) : t[i] = bufs[i + 1]
      /\ Len(bufs) \in Nat \ {0} /\ b = bufs[1]
  BY HeadTailProperties, EmptySeq
<1>2. bufs = bs \o t
  BY HeadAndTail
<1> HIDE DEF b, t
<1>3. FitsIn(m, b) /\ \A i \in 1..Len(t) : FitsIn(m, t[i])
  BY <1>1
<1>4. bs \in Seq(Messages) /\ Len(bs) = 1 /\ \A i \in 1..1 : bs[i] = b
  BY <1>1
<1>5. FlatIn(m, bs) = ContentIn(m, b)
  BY <1>1, <1>3, FlatInSmall
<1>6. \A i \in 1..Len(bs) : FitsIn(m, bs[i])
  BY <1>3, <1>4
<1> HIDE DEF bs
<1>7. FlatIn(m, bs \o t) = FlatIn(m, bs) \o FlatIn(m, t)
  BY <1>1, <1>3, <1>4, <1>6, FlatInConcat
<1> QED
  BY <1>1, <1>2, <1>3, <1>5, <1>7 DEF b, t

\* What buffers contain changes only with the slots they name.
LEMMA FlatInSame ==
  ASSUME NEW l, NEW m, NEW bufs,
         \A i \in 1..Len(bufs) : IsSlab(bufs[i]) => m[bufs[i].slot] = l[bufs[i].slot]
  PROVE  FlatIn(m, bufs) = FlatIn(l, bufs)
<1>1. \A i \in 1..Len(bufs) : ContentIn(m, bufs[i]) = ContentIn(l, bufs[i])
  BY DEF ContentIn, IsSlab
<1>2. ContentsIn(m, bufs) = ContentsIn(l, bufs)
  BY <1>1 DEF ContentsIn
<1> QED
  BY <1>2 DEF FlatIn

\* Concatenation is associative.
LEMMA Regroup ==
  \A x, y, z \in Seq(Cells) : (x \o y) \o z = x \o (y \o z)
BY ConcatAssociative

-----------------------------------------------------------------------------
(* One worker's cells among others.                                        *)

OwnCells(w) == {w} \X Nat

\* One worker's cells are a sequence of cells.
LEMMA OfType ==
  ASSUME NEW w, NEW s \in Seq(Cells)
  PROVE  /\ [i \in 1..Len(s) |-> IF s[i][1] = w THEN <<s[i]>> ELSE <<>>] \in Seq(Seq(Cells))
         /\ Of(w, s) \in Seq(Cells)
<1> DEFINE p == [i \in 1..Len(s) |-> IF s[i][1] = w THEN <<s[i]>> ELSE <<>>]
<1>1. Len(s) \in Nat /\ \A i \in 1..Len(s) : s[i] \in Cells
  BY LenProperties, ElementOfSeq
<1>2. \A i \in 1..Len(s) : (IF s[i][1] = w THEN <<s[i]>> ELSE <<>>) \in Seq(Cells)
  BY <1>1
<1>3. p \in Seq(Seq(Cells))
  BY <1>1, <1>2
<1> HIDE DEF p
<1>4. FlattenSeq(p) \in Seq(Cells)
  BY <1>3, FlattenType
<1> QED
  BY <1>3, <1>4 DEF Of, p

\* One worker's cells in a concatenation are those in its parts.
LEMMA OfConcat ==
  ASSUME NEW w, NEW s \in Seq(Cells), NEW t \in Seq(Cells)
  PROVE  Of(w, s \o t) = Of(w, s) \o Of(w, t)
<1> DEFINE One1(c) == IF c[1] = w THEN <<c>> ELSE <<>>
           Picked(r) == [i \in 1..Len(r) |-> One1(r[i])]
           st == s \o t
           a == Picked(s)
           b == Picked(t)
           ab == Picked(st)
           k == Len(s)
           n == Len(t)
<1>1. /\ st \in Seq(Cells) /\ Len(st) = k + n /\ k \in Nat /\ n \in Nat
      /\ \A i \in 1..k + n : st[i] = IF i <= k THEN s[i] ELSE t[i - k]
  BY ConcatProperties, LenProperties
<1>2. a \in Seq(Seq(Cells)) /\ b \in Seq(Seq(Cells)) /\ ab \in Seq(Seq(Cells))
  <2>1. a \in Seq(Seq(Cells)) /\ b \in Seq(Seq(Cells))
    BY OfType
  <2> HIDE DEF st
  <2>2. ab \in Seq(Seq(Cells))
    BY <1>1, OfType
  <2> QED
    BY <2>1, <2>2
<1>3. /\ Len(a) = k /\ Len(b) = n /\ Len(ab) = k + n
      /\ \A i \in 1..k : a[i] = One1(s[i])
      /\ \A i \in 1..n : b[i] = One1(t[i])
      /\ \A i \in 1..k + n : ab[i] = One1(st[i])
  <2> HIDE DEF One1, st, k, n
  <2>1. Len(a) = k /\ \A i \in 1..k : a[i] = One1(s[i])
    BY <1>1 DEF k
  <2>2. Len(b) = n /\ \A i \in 1..n : b[i] = One1(t[i])
    BY <1>1 DEF n
  <2>3. Len(ab) = k + n /\ \A i \in 1..k + n : ab[i] = One1(st[i])
    BY <1>1
  <2> QED
    BY <2>1, <2>2, <2>3
<1> HIDE DEF One1, Picked, st, a, b, ab, k, n
<1>4. /\ a \o b \in Seq(Seq(Cells)) /\ Len(a \o b) = k + n
      /\ \A i \in 1..k + n : (a \o b)[i] = IF i <= k THEN a[i] ELSE b[i - k]
  <2>1. a \in Seq(Seq(Cells)) /\ b \in Seq(Seq(Cells)) /\ Len(a) = k /\ Len(b) = n
    BY <1>2, <1>3
  <2> QED
    BY ONLY <2>1, ConcatProperties
<1>5. \A i \in 1..k + n : ab[i] = (a \o b)[i]
  <2> SUFFICES ASSUME NEW i \in 1..k + n PROVE ab[i] = (a \o b)[i]
    OBVIOUS
  <2>1. CASE i <= k
    <3>1. i \in 1..k
      BY <1>1, <2>1
    <3>2. st[i] = s[i] /\ (a \o b)[i] = a[i]
      BY <1>1, <1>4, <2>1
    <3> QED
      BY <1>3, <3>1, <3>2
  <2>2. CASE ~(i <= k)
    <3>1. i - k \in 1..n
      BY <1>1, <2>2
    <3>2. st[i] = t[i - k] /\ (a \o b)[i] = b[i - k]
      BY <1>1, <1>4, <2>2
    <3> QED
      BY <1>3, <3>1, <3>2
  <2> QED
    BY <2>1, <2>2
<1>6. ab = a \o b
  BY <1>2, <1>3, <1>4, <1>5, SeqEqual
<1>7. FlattenSeq(a \o b) = FlattenSeq(a) \o FlattenSeq(b)
  BY <1>2, FlattenConcat
<1> QED
  BY <1>6, <1>7 DEF Of, One1, Picked, st, a, b, ab

\* A worker's own cells are all picked, and none for another.
LEMMA OfOwn ==
  ASSUME NEW w \in Workers, NEW s \in Seq(OwnCells(w))
  PROVE  /\ s \in Seq(Cells)
         /\ Of(w, s) = s
         /\ \A v \in Workers \ {w} : Of(v, s) = <<>>
<1>1. Len(s) \in Nat /\ \A i \in 1..Len(s) : s[i] \in OwnCells(w)
  BY LenProperties, ElementOfSeq
<1>2. \A i \in 1..Len(s) : s[i][1] = w
  BY <1>1 DEF OwnCells
<1>3. OwnCells(w) \subseteq Cells
  BY DEF OwnCells, Cells
<1>4. s \in Seq(Cells)
  BY <1>3, SeqMonotonic
<1>5. Of(w, s) = s
  <2>1. [i \in 1..Len(s) |-> IF s[i][1] = w THEN <<s[i]>> ELSE <<>>] = [i \in 1..Len(s) |-> <<s[i]>>]
    BY <1>2
  <2> QED
    BY <2>1, FlattenOnes DEF Of
<1>6. ASSUME NEW v \in Workers \ {w} PROVE Of(v, s) = <<>>
  <2>1. [i \in 1..Len(s) |-> IF s[i][1] = v THEN <<s[i]>> ELSE <<>>] = [i \in 1..Len(s) |-> <<>>]
    BY <1>2
  <2> QED
    BY <1>1, <2>1, FlattenNothing DEF Of
<1> QED
  BY <1>4, <1>5, <1>6

-----------------------------------------------------------------------------
(* The invariant.  Nothing is said of stdout once a write has failed or    *)
(* when nobody writes: then buffers are dropped, or written twice.         *)

\* What is left of the batch, and all that has left the workers.
Rest == SubSeq(BatchCells, sent + 1, Len(BatchCells))
Shipped == written \o Rest \o Flat(chan)

\* What each worker still buffers.
Buffered == [w \in Workers |-> Content(buf[w])]

\* No cell of a record comes between two cells of another.
Whole(s) ==
  \A i, k \in 1..Len(s) : i < k /\ s[i] = s[k] => \A j \in i..k : s[j] = s[i]

\* The cells of w in s bear numbers of records it has written, and are not of
\* the one that it has yet to place.
Numbered(w, s, rec, sz) ==
  \A c \in ToSet(s) : c[1] = w => c[2] <= rec[w] /\ (sz[w] # 0 => c[2] < rec[w])

\* Each worker's cells, shipped and then held, are what it has written; and
\* records are whole wherever they are.
Tidy(shipped, held, str, rec, sz) ==
  /\ Whole(shipped)
  /\ \A w \in Workers :
       /\ str[w] = Of(w, shipped) \o held[w]
       /\ Whole(held[w])
       /\ ToSet(shipped) \intersect ToSet(held[w]) = {}
       /\ Numbered(w, shipped, rec, sz) /\ Numbered(w, held[w], rec, sz)

OwnContents == \A w \in Workers : Content(buf[w]) \in Seq(OwnCells(w))

SentWithin == sent <= Len(BatchCells)

\* A worker has a record to place only while it rotates for it, and its buffer
\* is empty when it asks for room for a big one and when it is done.
Pending ==
  \A w \in Workers :
    /\ pc[w] \in {"big", "done"} => Content(buf[w]) = <<>>
    /\ size[w] # 0 => \/ pc[w] = "big"
                      \/ pc[w] \in {"rotate", "overflow"} /\ resume[w] = "place"

AllDone == phase # "searching" => \A w \in Workers : pc[w] = "done"

\* The output worker has taken the request to flush and not answered it yet.
Asked == writer = "ack" \/ (writer = "write" /\ afterwards = "ack")

\* The request to flush is behind everything else, is answered when everything
\* before it is written, and nothing follows until the next search.
FlushLast ==
  /\ \A i \in 1..Len(chan) : chan[i].kind = "flush" => phase = "waiting" /\ i = Len(chan)
  /\ Asked => phase = "waiting" /\ chan = <<>>
  /\ writer = "ack" => batch = <<>>
  /\ phase = "returned" => chan = <<>> /\ batch = <<>>

OrderInv ==
  /\ IInv /\ OwnContents /\ SentWithin /\ Pending /\ AllDone
  /\ Delivering => FlushLast /\ Tidy(Shipped, Buffered, stream, records, size)

-----------------------------------------------------------------------------
(* Records stay whole.                                                     *)

\* Sequences of whole records that share none are whole together.
LEMMA WholeConcat ==
  ASSUME NEW s \in Seq(Cells), NEW t \in Seq(Cells),
         Whole(s), Whole(t), ToSet(s) \intersect ToSet(t) = {}
  PROVE  Whole(s \o t)
<1> DEFINE n == Len(s)
           m == Len(t)
           st == s \o t
<1>1. /\ Len(st) = n + m /\ n \in Nat /\ m \in Nat
      /\ \A i \in 1..n + m : st[i] = IF i <= n THEN s[i] ELSE t[i - n]
      /\ DOMAIN s = 1..n /\ DOMAIN t = 1..m
  BY ConcatProperties, LenProperties
<1>2. /\ \A i, k \in 1..n : i < k /\ s[i] = s[k] => \A j \in i..k : s[j] = s[i]
      /\ \A i, k \in 1..m : i < k /\ t[i] = t[k] => \A j \in i..k : t[j] = t[i]
  BY DEF Whole
<1>3. \A i \in 1..n, k \in 1..m : s[i] # t[k]
  BY <1>1, Zenon DEF ToSet
<1> HIDE DEF st, n, m
<1>4. SUFFICES ASSUME NEW i \in 1..n + m, NEW k \in 1..n + m, i < k, st[i] = st[k],
                      NEW j \in i..k
               PROVE  st[j] = st[i]
  BY <1>1 DEF Whole, st
<1>5. j \in 1..n + m /\ i <= j /\ j <= k /\ i \in Nat /\ j \in Nat /\ k \in Nat
  BY <1>1
<1>6. CASE k <= n
  <2>1. i \in 1..n /\ k \in 1..n /\ j \in i..k /\ i <= n /\ j <= n
    BY <1>1, <1>5, <1>6
  <2>2. st[i] = s[i] /\ st[k] = s[k] /\ st[j] = s[j]
    BY <1>1, <1>5, <1>6, <2>1
  <2> QED
    BY <1>2, <1>4, <2>1, <2>2
<1>7. CASE ~(i <= n)
  <2>1. /\ i - n \in 1..m /\ k - n \in 1..m /\ j - n \in (i - n)..(k - n) /\ i - n < k - n
        /\ ~(j <= n) /\ ~(k <= n)
    BY <1>1, <1>4, <1>5, <1>7
  <2>2. st[i] = t[i - n] /\ st[k] = t[k - n] /\ st[j] = t[j - n]
    BY <1>1, <1>5, <1>7, <2>1
  <2> QED
    BY <1>2, <1>4, <2>1, <2>2
<1>8. CASE i <= n /\ ~(k <= n)
  <2>1. i \in 1..n /\ k - n \in 1..m
    BY <1>1, <1>5, <1>8
  <2>2. st[i] = s[i] /\ st[k] = t[k - n]
    BY <1>1, <1>8
  <2> QED
    BY <1>3, <1>4, <2>1, <2>2
<1> QED
  BY <1>1, <1>5, <1>6, <1>7, <1>8

\* The beginning of what is whole.
LEMMA WholeFront ==
  ASSUME NEW s \in Seq(Cells), NEW t \in Seq(Cells), Whole(s \o t)
  PROVE  Whole(s)
<1> DEFINE n == Len(s)
           st == s \o t
<1>1. /\ Len(st) = n + Len(t) /\ n \in Nat /\ Len(t) \in Nat
      /\ \A i \in 1..n + Len(t) : st[i] = IF i <= n THEN s[i] ELSE t[i - n]
  BY ConcatProperties, LenProperties
<1>2. \A i, k \in 1..Len(st) : i < k /\ st[i] = st[k] => \A j \in i..k : st[j] = st[i]
  BY DEF Whole
<1> HIDE DEF st, n
<1>3. \A i \in 1..n : i \in 1..Len(st) /\ st[i] = s[i]
  BY <1>1
<1>4. SUFFICES ASSUME NEW i \in 1..n, NEW k \in 1..n, i < k, s[i] = s[k], NEW j \in i..k
               PROVE  s[j] = s[i]
  BY DEF Whole, n
<1>5. j \in 1..n
  BY <1>1
<1> QED
  BY <1>2, <1>3, <1>4, <1>5

\* The cells of one record.
LEMMA RecordIs ==
  ASSUME NEW w \in Workers, NEW k \in Nat, NEW n \in Nat,
         NEW cells \in [1..k -> {<<w, n>>}]
  PROVE  /\ cells \in Seq(OwnCells(w)) /\ cells \in Seq(Cells)
         /\ Whole(cells)
         /\ ToSet(cells) = IF k = 0 THEN {} ELSE {<<w, n>>}
         /\ k = 0 => cells = <<>>
<1>1. <<w, n>> \in OwnCells(w) /\ <<w, n>> \in Cells
  BY DEF OwnCells, Cells
<1>2. cells \in Seq(OwnCells(w)) /\ cells \in Seq(Cells) /\ Len(cells) = k
  BY <1>1, SMTT(20)
<1>3. \A i \in 1..k : cells[i] = <<w, n>>
  OBVIOUS
<1>4. DOMAIN cells = 1..k
  OBVIOUS
<1>5. k = 0 => cells = <<>>
  BY <1>2, EmptySeq
<1>6. Whole(cells)
  <2>1. SUFFICES ASSUME NEW i \in 1..k, NEW l \in 1..k, NEW j \in i..l
                 PROVE  cells[j] = cells[i]
    BY <1>2 DEF Whole
  <2>2. j \in 1..k
    OBVIOUS
  <2> QED
    BY <1>3, <2>2
<1>7. ToSet(cells) = IF k = 0 THEN {} ELSE {<<w, n>>}
  <2>1. CASE k = 0
    BY <1>4, <2>1 DEF ToSet
  <2>2. CASE k # 0
    <3>1. 1 \in 1..k
      BY <2>2
    <3> QED
      BY <1>3, <1>4, <2>2, <3>1 DEF ToSet
  <2> QED
    BY <2>1, <2>2
<1> QED
  BY <1>2, <1>5, <1>6, <1>7

-----------------------------------------------------------------------------
(* What a worker does, seen from stdout.                                   *)

\* A worker puts cells into its buffer, of a record later than all it wrote
\* (or none, when only its counters move on).
Puts(w, cells, held, str, rec, sz, held2, str2, rec2, sz2) ==
  /\ \A v \in Workers : held[v] \in Seq(OwnCells(v))
  /\ rec \in [Workers -> Nat] /\ sz \in [Workers -> Nat]
  /\ rec2 \in [Workers -> Nat] /\ sz2 \in [Workers -> Nat]
  /\ cells \in Seq(OwnCells(w)) /\ Whole(cells)
  /\ \A v \in Workers \ {w} : /\ held2[v] = held[v] /\ str2[v] = str[v]
                              /\ rec2[v] = rec[v] /\ sz2[v] = sz[v]
  /\ held2[w] = held[w] \o cells /\ str2[w] = str[w] \o cells
  /\ \A c \in ToSet(cells) : /\ c[2] <= rec2[w] /\ sz2[w] = 0
                             /\ rec[w] < c[2] \/ (sz[w] # 0 /\ rec[w] <= c[2])
  /\ rec[w] <= rec2[w]
  /\ sz2[w] # 0 => rec[w] < rec2[w] \/ (sz2[w] = sz[w] /\ rec2[w] = rec[w])

\* A record put behind what a worker holds keeps everything tidy.
LEMMA TidyPut ==
  ASSUME NEW shipped \in Seq(Cells), NEW w \in Workers, NEW cells,
         NEW held, NEW str, NEW rec, NEW sz, NEW held2, NEW str2, NEW rec2, NEW sz2,
         Tidy(shipped, held, str, rec, sz),
         Puts(w, cells, held, str, rec, sz, held2, str2, rec2, sz2)
  PROVE  /\ Tidy(shipped, held2, str2, rec2, sz2)
         /\ \A v \in Workers : held2[v] \in Seq(OwnCells(v))
<1> USE DEF Puts
<1>1. /\ cells \in Seq(OwnCells(w)) /\ cells \in Seq(Cells) /\ Whole(cells)
      /\ \A c \in ToSet(cells) : c[1] = w /\ c[2] \in Nat
  <2>1. ToSet(cells) \subseteq OwnCells(w)
    BY LenProperties, ElementOfSeq DEF ToSet
  <2> QED
    BY <2>1, OfOwn DEF OwnCells
<1>2. held2[w] = held[w] \o cells /\ str2[w] = str[w] \o cells
  OBVIOUS
<1>3. held[w] \in Seq(OwnCells(w)) /\ held[w] \in Seq(Cells)
  BY OfOwn
<1>4. \A v \in Workers : held2[v] \in Seq(OwnCells(v))
  <2>1. held2[w] \in Seq(OwnCells(w))
    BY <1>1, <1>2, <1>3, ConcatProperties
  <2> QED
    BY <2>1
<1>5. /\ Whole(shipped)
      /\ \A v \in Workers :
           /\ str[v] = Of(v, shipped) \o held[v]
           /\ Whole(held[v])
           /\ ToSet(shipped) \intersect ToSet(held[v]) = {}
           /\ Numbered(v, shipped, rec, sz) /\ Numbered(v, held[v], rec, sz)
  BY DEF Tidy
<1>6. ToSet(held2[w]) = ToSet(held[w]) \union ToSet(cells)
  <2> DEFINE y == held[w]
  <2>1. y \in Seq(Cells)
    BY <1>3
  <2> HIDE DEF y
  <2>2. ToSet(y \o cells) = ToSet(y) \union ToSet(cells)
    BY <1>1, <2>1, ConcatElements
  <2> QED
    BY <1>2, <2>2 DEF y
\* The new cells are nobody's yet.
<1>7. /\ ToSet(shipped) \intersect ToSet(cells) = {}
      /\ ToSet(held[w]) \intersect ToSet(cells) = {}
  <2>1. ASSUME NEW s, Numbered(w, s, rec, sz) PROVE ToSet(s) \intersect ToSet(cells) = {}
    <3>1. SUFFICES ASSUME NEW c \in ToSet(cells), c \in ToSet(s) PROVE FALSE
      OBVIOUS
    <3>2. rec[w] < c[2] \/ (sz[w] # 0 /\ rec[w] <= c[2])
      BY <3>1
    <3>3. c[2] <= rec[w] /\ (sz[w] # 0 => c[2] < rec[w])
      BY <1>1, <2>1, <3>1 DEF Numbered
    <3>4. rec[w] \in Nat /\ c[2] \in Nat
      BY <1>1
    <3> QED
      BY <3>2, <3>3, <3>4
  <2> QED
    BY <1>5, <2>1
<1>8. str2[w] = Of(w, shipped) \o held2[w]
  <2> DEFINE x == Of(w, shipped)
             y == held[w]
  <2>1. x \in Seq(Cells) /\ y \in Seq(Cells)
    BY <1>3, OfType
  <2>2. str[w] = x \o y
    BY <1>5
  <2> HIDE DEF x, y
  <2>3. (x \o y) \o cells = x \o (y \o cells)
    <3>1. cells \in Seq(Cells)
      BY <1>1
    <3> QED
      BY <2>1, <3>1, Regroup
  <2> QED
    BY <1>2, <2>2, <2>3 DEF x, y
<1>9. Whole(held2[w]) /\ ToSet(shipped) \intersect ToSet(held2[w]) = {}
  <2>1. Whole(held[w]) /\ ToSet(shipped) \intersect ToSet(held[w]) = {}
    BY <1>5
  <2>2. Whole(held[w] \o cells)
    BY <1>1, <1>3, <1>7, <2>1, WholeConcat
  <2> QED
    BY <1>2, <1>6, <1>7, <2>1, <2>2
<1>10. ASSUME NEW s \in Seq(Cells), Numbered(w, s, rec, sz)
       PROVE  Numbered(w, s, rec2, sz2)
  <2>1. SUFFICES ASSUME NEW c \in ToSet(s), c[1] = w
                 PROVE  c[2] <= rec2[w] /\ (sz2[w] # 0 => c[2] < rec2[w])
    BY DEF Numbered
  <2>2. c[2] \in Nat
    <3>1. ToSet(s) \subseteq Cells
      BY LenProperties, ElementOfSeq DEF ToSet
    <3> QED
      BY <3>1 DEF Cells
  <2>3. c[2] <= rec[w] /\ (sz[w] # 0 => c[2] < rec[w])
    BY <1>10, <2>1 DEF Numbered
  <2>4. rec[w] \in Nat /\ rec2[w] \in Nat
    OBVIOUS
  <2>5. rec[w] <= rec2[w]
    OBVIOUS
  <2>6. sz2[w] # 0 => rec[w] < rec2[w] \/ (sz2[w] = sz[w] /\ rec2[w] = rec[w])
    OBVIOUS
  <2> QED
    BY ONLY <2>2, <2>3, <2>4, <2>5, <2>6
\* The record's number.
<1>11. Numbered(w, held2[w], rec2, sz2)
  <2>1. Numbered(w, held[w], rec2, sz2)
    BY <1>3, <1>5, <1>10
  <2>2. Numbered(w, cells, rec2, sz2)
    <3>1. \A c \in ToSet(cells) : c[2] <= rec2[w] /\ sz2[w] = 0
      OBVIOUS
    <3> QED
      BY <3>1 DEF Numbered
  <2> QED
    BY <1>6, <2>1, <2>2 DEF Numbered
<1>12. Tidy(shipped, held2, str2, rec2, sz2)
  <2>1. ASSUME NEW v \in Workers
        PROVE  /\ str2[v] = Of(v, shipped) \o held2[v]
               /\ Whole(held2[v])
               /\ ToSet(shipped) \intersect ToSet(held2[v]) = {}
               /\ Numbered(v, shipped, rec2, sz2) /\ Numbered(v, held2[v], rec2, sz2)
    <3>1. CASE v = w
      BY <1>5, <1>8, <1>9, <1>10, <1>11, <3>1
    <3>2. CASE v # w
      <4>1. held2[v] = held[v] /\ str2[v] = str[v] /\ rec2[v] = rec[v] /\ sz2[v] = sz[v]
        BY <3>2
      <4>2. \A s : Numbered(v, s, rec, sz) => Numbered(v, s, rec2, sz2)
        BY <4>1 DEF Numbered
      <4> QED
        BY <1>5, <4>1, <4>2
    <3> QED
      BY <3>1, <3>2
  <2> QED
    BY <1>5, <2>1 DEF Tidy
<1> QED
  BY <1>4, <1>12

\* A worker's buffer is shipped.
LEMMA TidyShip ==
  ASSUME NEW shipped \in Seq(Cells), NEW held, \A v \in Workers : held[v] \in Seq(OwnCells(v)),
         NEW str, NEW rec, NEW sz, Tidy(shipped, held, str, rec, sz),
         NEW w \in Workers, NEW held2,
         \A v \in Workers \ {w} : held2[v] = held[v], held2[w] = <<>>
  PROVE  /\ shipped \o held[w] \in Seq(Cells)
         /\ Tidy(shipped \o held[w], held2, str, rec, sz)
         /\ \A v \in Workers : held2[v] \in Seq(OwnCells(v))
<1> DEFINE y == held[w]
           all == shipped \o y
<1>1. /\ y \in Seq(OwnCells(w)) /\ y \in Seq(Cells) /\ Of(w, y) = y
      /\ \A v \in Workers \ {w} : Of(v, y) = <<>>
  <2>1. y \in Seq(OwnCells(w))
    OBVIOUS
  <2> HIDE DEF y
  <2> QED
    BY <2>1, OfOwn
<1>2. /\ Whole(shipped)
      /\ \A v \in Workers :
           /\ str[v] = Of(v, shipped) \o held[v]
           /\ Whole(held[v])
           /\ ToSet(shipped) \intersect ToSet(held[v]) = {}
           /\ Numbered(v, shipped, rec, sz) /\ Numbered(v, held[v], rec, sz)
  BY DEF Tidy
<1>3. /\ Whole(y) /\ ToSet(shipped) \intersect ToSet(y) = {}
      /\ Numbered(w, y, rec, sz) /\ str[w] = Of(w, shipped) \o y
  BY <1>2
<1>4. \A v \in Workers \ {w} : held2[v] = held[v]
  OBVIOUS
<1>5. <<>> \in Seq(OwnCells(w)) /\ <<>> \in Seq(Cells) /\ ToSet(<<>>) = {} /\ Whole(<<>>)
  <2>1. Len(<<>>) = 0 /\ ToSet(<<>>) = {}
    BY SmallQueues, EmptySeq
  <2>2. Whole(<<>>)
    BY <2>1 DEF Whole
  <2> QED
    BY <2>1, <2>2, EmptySeq
<1> HIDE DEF y
<1>6. /\ all \in Seq(Cells) /\ ToSet(all) = ToSet(shipped) \union ToSet(y)
      /\ \A v \in Workers : Of(v, all) = Of(v, shipped) \o Of(v, y)
  BY <1>1, ConcatElements, OfConcat
<1>7. Whole(all)
  BY <1>1, <1>2, <1>3, WholeConcat
\* Its cells are no other worker's.
<1>8. \A v \in Workers \ {w} : \A c \in ToSet(y) : c[1] # v /\ c \notin ToSet(held[v])
  <2>1. \A c \in ToSet(y) : c[1] = w
    <3>1. Len(y) \in Nat /\ DOMAIN y = 1..Len(y) /\ \A i \in 1..Len(y) : y[i] \in OwnCells(w)
      BY <1>1, LenProperties, ElementOfSeq
    <3> QED
      BY <3>1 DEF ToSet, OwnCells
  <2>2. ASSUME NEW v \in Workers \ {w}, NEW c \in ToSet(held[v]) PROVE c[1] = v
    <3> DEFINE z == held[v]
    <3>1. z \in Seq(OwnCells(v))
      OBVIOUS
    <3> HIDE DEF z
    <3>2. Len(z) \in Nat /\ DOMAIN z = 1..Len(z) /\ \A i \in 1..Len(z) : z[i] \in OwnCells(v)
      BY <3>1, LenProperties, ElementOfSeq
    <3>3. \A d \in ToSet(z) : d[1] = v
      BY <3>2 DEF ToSet, OwnCells
    <3> QED
      BY <3>3 DEF z
  <2> QED
    BY <2>1, <2>2
<1> HIDE DEF all
<1>9. ASSUME NEW v \in Workers
      PROVE  /\ str[v] = Of(v, all) \o held2[v]
             /\ Whole(held2[v])
             /\ ToSet(all) \intersect ToSet(held2[v]) = {}
             /\ Numbered(v, all, rec, sz) /\ Numbered(v, held2[v], rec, sz)
  <2>1. CASE v = w
    <3>1. held2[v] = <<>> /\ Of(v, all) = Of(v, shipped) \o y
      BY <1>1, <1>6, <2>1
    <3>2. Of(v, all) \o <<>> = Of(v, all)
      BY <1>6, OfType, ConcatEmptySeq
    <3>3. Numbered(v, all, rec, sz) /\ Numbered(v, <<>>, rec, sz)
      BY <1>2, <1>3, <1>5, <1>6, <2>1 DEF Numbered
    <3> QED
      BY <1>3, <1>5, <2>1, <3>1, <3>2, <3>3
  <2>2. CASE v # w
    <3>1. held2[v] = held[v] /\ Of(v, y) = <<>>
      BY <1>1, <1>4, <2>2
    <3>2. Of(v, shipped) \o <<>> = Of(v, shipped)
      BY OfType, ConcatEmptySeq
    <3>3. Of(v, all) = Of(v, shipped)
      BY <1>6, <3>1, <3>2
    <3>4. Numbered(v, all, rec, sz)
      BY <1>2, <1>6, <1>8, <2>2 DEF Numbered
    <3>5. ToSet(all) \intersect ToSet(held2[v]) = {}
      BY <1>2, <1>6, <1>8, <2>2, <3>1
    <3> QED
      BY <1>2, <3>1, <3>3, <3>4, <3>5
  <2> QED
    BY <2>1, <2>2
<1>10. Tidy(all, held2, str, rec, sz)
  BY <1>7, <1>9 DEF Tidy
<1>11. \A v \in Workers : held2[v] \in Seq(OwnCells(v))
  BY <1>4, <1>5
<1> QED
  BY <1>6, <1>10, <1>11 DEF all, y

-----------------------------------------------------------------------------
(* The contents of the buffers, from one state to the next.                *)

\* The state's memory is the one that contents are read in.
LEMMA InMemory ==
  /\ Flat(chan) = FlatIn(mem, chan) /\ Flat(chan)' = FlatIn(mem', chan')
  /\ BatchCells = FlatIn(mem, batch) /\ BatchCells' = FlatIn(mem', batch')
  /\ \A w \in Workers : /\ Content(buf[w]) = ContentIn(mem, buf[w])
                        /\ Buffered[w] = ContentIn(mem, buf[w])
                        /\ Content(buf[w])' = ContentIn(mem', buf'[w])
                        /\ Buffered'[w] = ContentIn(mem', buf'[w])
BY DEF Flat, FlatIn, ContentsIn, Content, ContentIn, BatchCells, Buffered

\* What the first invariant says of the types.
LEMMA StateFacts ==
  ASSUME IInv
  PROVE  /\ TypeOK /\ mem \in Memories
         /\ chan \in Seq(Messages) /\ \A i \in 1..Len(chan) : FitsIn(mem, chan[i])
         /\ batch \in Seq(Messages) /\ \A i \in 1..Len(batch) : FitsIn(mem, batch[i])
         /\ \A w \in Workers : buf[w] \in Buffers /\ buf[w] \in Messages /\ FitsIn(mem, buf[w])
         /\ FlatIn(mem, chan) \in Seq(Cells) /\ FlatIn(mem, batch) \in Seq(Cells)
<1>1. TypeOK /\ Filled
  BY DEF IInv
<1>2. /\ mem \in Memories /\ chan \in Seq(Messages) /\ batch \in Seq(Messages)
      /\ \A w \in Workers : buf[w] \in Buffers /\ buf[w] \in Messages
  BY <1>1, QueueTypes DEF TypeOK, Memories, Messages
<1>3. /\ \A i \in 1..Len(chan) : FitsIn(mem, chan[i])
      /\ \A i \in 1..Len(batch) : FitsIn(mem, batch[i])
      /\ \A w \in Workers : FitsIn(mem, buf[w])
  BY <1>1 DEF Filled, InSlab, FitsIn
<1>4. FlatIn(mem, chan) \in Seq(Cells) /\ FlatIn(mem, batch) \in Seq(Cells)
  BY <1>2, <1>3, FlatInType
<1> QED
  BY <1>1, <1>2, <1>3, <1>4

\* Only one slot is written, and nothing in flight and no other worker names
\* it: the buffer grows by the cells and all other contents stay.
LEMMA PutInOrder ==
  ASSUME IInv, NEW w \in Workers, NEW b \in Buffers, InSlab(b),
         NEW cells \in Seq(Cells), PutIn(w, b, cells),
         IsSlab(b) => b.slot[1] = w /\ b.slot \notin SlotsIn(chan) \union SlotsIn(batch)
  PROVE  /\ mem' \in Memories
         /\ ContentIn(mem', buf'[w]) = ContentIn(mem, b) \o cells
         /\ \A v \in Workers \ {w} : ContentIn(mem', buf'[v]) = ContentIn(mem, buf[v])
         /\ FlatIn(mem', chan) = FlatIn(mem, chan) /\ FlatIn(mem', batch) = FlatIn(mem, batch)
         /\ \A c \in Messages :
              /\ One(c) \intersect One(b) = {} => ContentIn(mem', c) = ContentIn(mem, c)
              /\ FitsIn(mem, c) => FitsIn(mem', c)
         /\ stream' \in [Workers -> Seq(Cells)] /\ stream'[w] = stream[w] \o cells
         /\ \A v \in Workers \ {w} : stream'[v] = stream[v]
<1>0. /\ TypeOK /\ mem \in [SlotIds -> Seq(Cells)] /\ buf \in [Workers -> Buffers]
      /\ stream \in [Workers -> Seq(Cells)]
      /\ chan \in Seq(Messages) /\ batch \in Seq(Messages)
      /\ \A v \in Workers : IsSlab(buf[v]) => buf[v].slot[1] = v
  BY StateFacts DEF IInv, TypeOK, SlotOwnership
<1>1. /\ mem' \in [SlotIds -> Seq(Cells)] /\ stream' \in [Workers -> Seq(Cells)]
      /\ \A s \in SlotIds : Len(mem'[s]) >= Len(mem[s])
  BY <1>0, PutInStep
<1>2. stream'[w] = stream[w] \o cells /\ \A v \in Workers \ {w} : stream'[v] = stream[v]
  <2>1. stream' = [stream EXCEPT ![w] = stream[w] \o cells]
    BY DEF PutIn
  <2> QED
    BY <1>0, <2>1
<1>3. \A v \in Workers \ {w} : buf'[v] = buf[v]
  <2>1. \E c : buf' = [buf EXCEPT ![w] = c]
    BY DEF PutIn
  <2> QED
    BY <1>0, <2>1
\* Which slots change.
<1>4. \A s \in SlotIds : s \notin One(b) => mem'[s] = mem[s]
  <2>1. CASE IsSlab(b)
    <3>1. \E x : mem' = [mem EXCEPT ![b.slot] = x]
      BY <2>1 DEF PutIn, IsSlab
    <3>2. One(b) = {b.slot}
      BY <2>1 DEF One
    <3> QED
      BY <1>0, <3>1, <3>2
  <2>2. CASE ~IsSlab(b)
    BY <2>2 DEF PutIn, IsSlab
  <2> QED
    BY <2>1, <2>2
<1>5. ContentIn(mem', buf'[w]) = ContentIn(mem, b) \o cells
  <2>1. CASE IsSlab(b)
    <3> DEFINE old == mem[b.slot]
               over == SubSeq(old, 1, b.len) \o cells \o SubSeq(old, b.len + Len(cells) + 1, Len(old))
               c == [b EXCEPT !.len = b.len + Len(cells)]
    <3>1. /\ b \in SlabBuffers /\ b.slot \in SlotIds /\ b.len \in 0..Len(old) /\ b.kind = "slab"
          /\ old \in Seq(Cells)
      <4>1. b.slot \in SlotIds /\ b.len \in Nat /\ b \in SlabBuffers
        BY <2>1, SlabFacts
      <4>2. b.len <= Len(old)
        BY <2>1 DEF InSlab
      <4>3. Len(old) \in Nat /\ old \in Seq(Cells)
        BY <1>0, <4>1, LenProperties
      <4> QED
        BY <2>1, <4>1, <4>2, <4>3 DEF IsSlab
    <3>2. SubSeq(over, 1, b.len + Len(cells)) = SubSeq(old, 1, b.len) \o cells
      <4> DEFINE k == b.len
      <4>1. old \in Seq(Cells) /\ k \in 0..Len(old) /\ cells \in Seq(Cells)
        BY <3>1
      <4> HIDE DEF old, k
      <4>2. SubSeq(SubSeq(old, 1, k) \o cells \o SubSeq(old, k + Len(cells) + 1, Len(old)),
                   1, k + Len(cells))
              = SubSeq(old, 1, k) \o cells
        BY ONLY <4>1, OverwritePart
      <4> QED
        BY <4>2 DEF k
    <3>3. mem' = [mem EXCEPT ![b.slot] = over] /\ buf' = [buf EXCEPT ![w] = c]
      BY <3>1 DEF PutIn
    <3>4. c.kind = "slab" /\ c.slot = b.slot /\ c.len = b.len + Len(cells)
      BY <3>1 DEF SlabBuffers
    <3> HIDE DEF over, c, old
    <3>5. mem'[b.slot] = over /\ buf'[w] = c
      BY <1>0, <3>1, <3>3
    <3>6. ContentIn(mem', c) = SubSeq(over, 1, b.len + Len(cells))
      BY <3>4, <3>5 DEF ContentIn
    <3>7. ContentIn(mem, b) = SubSeq(old, 1, b.len)
      BY <3>1 DEF ContentIn, old
    <3> QED
      BY <3>2, <3>5, <3>6, <3>7
  <2>2. CASE ~IsSlab(b)
    <3> DEFINE c == [b EXCEPT !.data = b.data \o cells]
    <3>1. b \in OwnedBuffers /\ b.kind = "owned"
      BY <2>2, OwnedFacts
    <3>2. buf' = [buf EXCEPT ![w] = c]
      BY <3>1 DEF PutIn
    <3>3. c.kind = "owned" /\ c.data = b.data \o cells
      BY <3>1 DEF OwnedBuffers
    <3> HIDE DEF c
    <3>4. buf'[w] = c
      BY <1>0, <3>2
    <3>5. ContentIn(mem', c) = b.data \o cells /\ ContentIn(mem, b) = b.data
      BY <3>1, <3>3 DEF ContentIn
    <3> QED
      BY <3>4, <3>5
  <2> QED
    BY <2>1, <2>2
<1>6. ASSUME NEW c \in Messages
      PROVE  /\ One(c) \intersect One(b) = {} => ContentIn(mem', c) = ContentIn(mem, c)
             /\ FitsIn(mem, c) => FitsIn(mem', c)
  <2>1. CASE IsSlab(c)
    <3>1. c.slot \in SlotIds /\ c.len \in Nat /\ One(c) = {c.slot} /\ c.kind = "slab"
      BY <2>1, BufferFacts, SlabFacts DEF One, IsSlab
    <3>2. Len(mem[c.slot]) \in Nat /\ Len(mem'[c.slot]) \in Nat /\ Len(mem'[c.slot]) >= Len(mem[c.slot])
      BY <1>0, <1>1, <3>1, LenProperties
    <3>3. FitsIn(mem, c) => FitsIn(mem', c)
      BY <3>1, <3>2 DEF FitsIn
    <3>4. ASSUME One(c) \intersect One(b) = {} PROVE ContentIn(mem', c) = ContentIn(mem, c)
      <4>1. mem'[c.slot] = mem[c.slot]
        BY <1>4, <3>1, <3>4
      <4> QED
        BY <3>1, <4>1 DEF ContentIn
    <3> QED
      BY <3>3, <3>4
  <2>2. CASE ~IsSlab(c)
    BY <2>2 DEF ContentIn, FitsIn, IsSlab
  <2> QED
    BY <2>1, <2>2
<1>7. ASSUME NEW v \in Workers \ {w} PROVE ContentIn(mem', buf'[v]) = ContentIn(mem, buf[v])
  <2>1. One(buf[v]) \intersect One(b) = {}
    BY <1>0 DEF One
  <2>2. buf[v] \in Messages
    BY <1>0 DEF Messages
  <2> QED
    BY <1>3, <1>6, <2>1, <2>2
<1>8. FlatIn(mem', chan) = FlatIn(mem, chan) /\ FlatIn(mem', batch) = FlatIn(mem, batch)
  <2>1. /\ \A x : x \in SlotsIn(chan) <=> \E i \in 1..Len(chan) : IsSlab(chan[i]) /\ x = chan[i].slot
        /\ \A x : x \in SlotsIn(batch) <=> \E i \in 1..Len(batch) : IsSlab(batch[i]) /\ x = batch[i].slot
    BY <1>0, SlotsAre
  <2>2. /\ \A i \in 1..Len(chan) : IsSlab(chan[i]) => chan[i].slot \in SlotIds
        /\ \A i \in 1..Len(batch) : IsSlab(batch[i]) => batch[i].slot \in SlotIds
    <3>1. \A c \in Messages : IsSlab(c) => c.slot \in SlotIds
      BY BufferFacts, SlabFacts
    <3> QED
      BY <1>0, <3>1, ElementOfSeq
  <2>3. /\ \A i \in 1..Len(chan) : IsSlab(chan[i]) => mem'[chan[i].slot] = mem[chan[i].slot]
        /\ \A i \in 1..Len(batch) : IsSlab(batch[i]) => mem'[batch[i].slot] = mem[batch[i].slot]
    BY <1>4, <2>1, <2>2 DEF One
  <2>4. FlatIn(mem', chan) = FlatIn(mem, chan)
    BY <2>3, FlatInSame
  <2>5. FlatIn(mem', batch) = FlatIn(mem, batch)
    BY <2>3, FlatInSame
  <2> QED
    BY <2>4, <2>5
<1> QED
  BY <1>1, <1>2, <1>5, <1>6, <1>7, <1>8 DEF Memories

-----------------------------------------------------------------------------
(* The workers' steps.                                                     *)

\* What was shipped is a sequence of cells.
LEMMA ShippedType ==
  ASSUME IInv, sent <= Len(BatchCells)
  PROVE  /\ written \in Seq(Cells) /\ Rest \in Seq(Cells) /\ Flat(chan) \in Seq(Cells)
         /\ BatchCells \in Seq(Cells) /\ sent \in Nat
         /\ Shipped \in Seq(Cells)
<1>1. written \in Seq(Cells) /\ sent \in Nat
  BY DEF IInv, TypeOK
<1>2. Flat(chan) \in Seq(Cells) /\ BatchCells \in Seq(Cells)
  BY InMemory, StateFacts
<1>3. Rest \in Seq(Cells)
  <2>1. Len(BatchCells) \in Nat /\ \A i \in 1..Len(BatchCells) : BatchCells[i] \in Cells
    BY <1>2, LenProperties, ElementOfSeq
  <2>2. sent + 1 \in Int /\ \A i \in (sent + 1)..Len(BatchCells) : BatchCells[i] \in Cells
    BY <1>1, <2>1
  <2> QED
    BY <2>1, <2>2, SubSeqProperties DEF Rest
<1>4. Shipped \in Seq(Cells)
  BY <1>1, <1>2, <1>3, ConcatProperties DEF Shipped
<1> QED
  BY <1>1, <1>2, <1>3, <1>4

\* What a worker's step leaves alone while the output worker and the thread
\* that waits stand still.
LEMMA WorkerOrder ==
  ASSUME OrderInv, IInv', NEW w \in Workers, pc[w] # "done",
         UNCHANGED <<writerVars, mainVars>>, BatchCells' = BatchCells,
         chan' = chan \/ chan' = Append(chan, buf[w]),
         \A v \in Workers \ {w} : /\ pc'[v] = pc[v] /\ size'[v] = size[v] /\ resume'[v] = resume[v]
                                  /\ Content(buf[v])' = Content(buf[v]),
         pc'[w] \in {"big", "done"} => Content(buf[w])' = <<>>,
         size'[w] # 0 => \/ pc'[w] = "big"
                         \/ pc'[w] \in {"rotate", "overflow"} /\ resume'[w] = "place",
         \A v \in Workers : Buffered'[v] \in Seq(OwnCells(v)),
         Delivering => Tidy(Shipped', Buffered', stream', records', size')
  PROVE  OrderInv'
<1>0. /\ IInv /\ SentWithin /\ Pending /\ AllDone /\ (Delivering => FlushLast)
      /\ chan \in Seq(Messages) /\ buf[w] \in Buffers
  BY StateFacts DEF OrderInv
<1>1. OwnContents'
  BY InMemory DEF OwnContents
<1>2. SentWithin'
  BY <1>0 DEF SentWithin, writerVars
<1>3. Pending'
  <2>1. ASSUME NEW v \in Workers
        PROVE  /\ pc'[v] \in {"big", "done"} => Content(buf[v])' = <<>>
               /\ size'[v] # 0 => \/ pc'[v] = "big"
                                  \/ pc'[v] \in {"rotate", "overflow"} /\ resume'[v] = "place"
    <3>1. CASE v = w
      BY <3>1
    <3>2. CASE v # w
      <4>1. /\ pc'[v] = pc[v] /\ size'[v] = size[v] /\ resume'[v] = resume[v]
            /\ Content(buf[v])' = Content(buf[v])
        BY <3>2
      <4>2. /\ pc[v] \in {"big", "done"} => Content(buf[v]) = <<>>
            /\ size[v] # 0 => \/ pc[v] = "big"
                              \/ pc[v] \in {"rotate", "overflow"} /\ resume[v] = "place"
        BY <1>0 DEF Pending
      <4> QED
        BY <4>1, <4>2
    <3> QED
      BY <3>1, <3>2
  <2> QED
    BY <2>1 DEF Pending
<1>4. phase = "searching" /\ AllDone'
  <2>1. phase = "searching"
    BY <1>0 DEF AllDone
  <2> QED
    BY <2>1 DEF AllDone, mainVars
<1>5. Delivering' = Delivering
  BY DEF Delivering, writerVars
<1>6. ASSUME Delivering PROVE FlushLast'
  <2>1. /\ \A i \in 1..Len(chan) : chan[i].kind # "flush"
        /\ ~Asked /\ writer # "ack"
    BY <1>0, <1>4, <1>6 DEF FlushLast, Asked
  <2>2. ~Asked' /\ writer' # "ack" /\ phase' = "searching"
    BY <1>4, <2>1 DEF Asked, writerVars, mainVars
  <2>3. \A i \in 1..Len(chan') : chan'[i].kind # "flush"
    <3>1. CASE chan' = chan
      BY <2>1, <3>1
    <3>2. CASE chan' = Append(chan, buf[w])
      <4>1. buf[w].kind # "flush" /\ buf[w] \in Messages
        BY <1>0 DEF Buffers, SlabBuffers, OwnedBuffers, Messages
      <4>2. /\ Len(chan') = Len(chan) + 1 /\ chan'[Len(chan) + 1] = buf[w] /\ Len(chan) \in Nat
            /\ \A i \in 1..Len(chan) : chan'[i] = chan[i]
        BY <1>0, <3>2, <4>1, AppendProperties, LenProperties
      <4>3. \A i \in 1..Len(chan') : i \in 1..Len(chan) \/ i = Len(chan) + 1
        BY <4>2
      <4> QED
        BY <2>1, <4>1, <4>2, <4>3
    <3> QED
      BY <3>1, <3>2
  <2> QED
    BY <2>2, <2>3 DEF FlushLast
<1> QED
  BY <1>1, <1>2, <1>3, <1>4, <1>5, <1>6 DEF OrderInv

\* A worker writes k cells of its record n: in place, or into a fresh buffer
\* after shipping the one it had.
PutsOne(w, b, k, n) ==
  /\ InSlab(b) /\ PutIn(w, b, [i \in 1..k |-> <<w, n>>])
  /\ pc[w] # "done"
  /\ IsSlab(b) => b.slot[1] = w /\ b.slot \notin SlotsIn(chan) \union SlotsIn(batch)
  /\ UNCHANGED <<writerVars, mainVars>>
  /\ \A v \in Workers \ {w} : /\ pc'[v] = pc[v] /\ size'[v] = size[v] /\ resume'[v] = resume[v]
                              /\ records'[v] = records[v]
  /\ pc'[w] \in {"big", "done"} => k = 0 /\ ContentIn(mem, b) = <<>>
  /\ size'[w] # 0 => \/ pc'[w] = "big"
                     \/ pc'[w] \in {"rotate", "overflow"} /\ resume'[w] = "place"
  /\ k # 0 => /\ n <= records'[w] /\ size'[w] = 0
              /\ records[w] < n \/ (size[w] # 0 /\ records[w] <= n)
  /\ records[w] <= records'[w]
  /\ size'[w] # 0 => records[w] < records'[w] \/ (size'[w] = size[w] /\ records'[w] = records[w])
  /\ \/ b = buf[w] /\ chan' = chan
     \/ /\ ContentIn(mem, b) = <<>>
        /\ \/ One(b) \intersect One(buf[w]) = {} /\ chan' = Append(chan, buf[w])
           \/ chan' = chan /\ (Delivering => Content(buf[w]) = <<>>)

\* Putting cells into a buffer of one's own keeps the order.
LEMMA PutOrder ==
  ASSUME OrderInv, IInv', NEW w \in Workers, NEW b \in Buffers, NEW k \in Nat, NEW n \in Nat,
         PutsOne(w, b, k, n)
  PROVE  OrderInv'
<1> USE DEF PutsOne
<1> DEFINE cells == [i \in 1..k |-> <<w, n>>]
<1>0. /\ IInv /\ OwnContents /\ SentWithin
      /\ records \in [Workers -> Nat] /\ size \in [Workers -> Nat]
      /\ records' \in [Workers -> Nat] /\ size' \in [Workers -> Nat]
      /\ chan \in Seq(Messages) /\ \A i \in 1..Len(chan) : FitsIn(mem, chan[i])
      /\ buf[w] \in Messages /\ FitsIn(mem, buf[w])
      /\ \A v \in Workers : Buffered[v] \in Seq(OwnCells(v))
  <2>1. IInv /\ OwnContents /\ SentWithin
    BY DEF OrderInv
  <2>2. /\ records \in [Workers -> Nat] /\ size \in [Workers -> Nat]
        /\ records' \in [Workers -> Nat] /\ size' \in [Workers -> Nat]
    BY <2>1 DEF IInv, TypeOK
  <2>3. /\ chan \in Seq(Messages) /\ \A i \in 1..Len(chan) : FitsIn(mem, chan[i])
        /\ buf[w] \in Messages /\ FitsIn(mem, buf[w])
    BY <2>1, StateFacts
  <2>4. \A v \in Workers : Buffered[v] \in Seq(OwnCells(v))
    BY <2>1, InMemory DEF OwnContents
  <2> QED
    BY <2>1, <2>2, <2>3, <2>4
<1>1. /\ cells \in Seq(OwnCells(w)) /\ cells \in Seq(Cells) /\ Whole(cells)
      /\ ToSet(cells) = IF k = 0 THEN {} ELSE {<<w, n>>}
      /\ k = 0 => cells = <<>>
  <2> DEFINE c == cells
  <2>1. c \in [1..k -> {<<w, n>>}]
    OBVIOUS
  <2> HIDE DEF c
  <2>2. /\ c \in Seq(OwnCells(w)) /\ c \in Seq(Cells) /\ Whole(c)
        /\ ToSet(c) = IF k = 0 THEN {} ELSE {<<w, n>>}
        /\ k = 0 => c = <<>>
    <3>1. w \in Workers /\ k \in Nat /\ n \in Nat
      OBVIOUS
    <3> QED
      BY ONLY <2>1, <3>1, RecordIs
  <2> QED
    BY <2>2 DEF c
<1>2. PutIn(w, b, cells)
  OBVIOUS
<1> HIDE DEF cells
<1>3. /\ mem' \in Memories
      /\ ContentIn(mem', buf'[w]) = ContentIn(mem, b) \o cells
      /\ \A v \in Workers \ {w} : ContentIn(mem', buf'[v]) = ContentIn(mem, buf[v])
      /\ FlatIn(mem', chan) = FlatIn(mem, chan) /\ FlatIn(mem', batch) = FlatIn(mem, batch)
      /\ \A c \in Messages :
           /\ One(c) \intersect One(b) = {} => ContentIn(mem', c) = ContentIn(mem, c)
           /\ FitsIn(mem, c) => FitsIn(mem', c)
      /\ stream'[w] = stream[w] \o cells
      /\ \A v \in Workers \ {w} : stream'[v] = stream[v]
  <2>1. /\ IInv /\ w \in Workers /\ b \in Buffers /\ InSlab(b) /\ cells \in Seq(Cells)
        /\ PutIn(w, b, cells)
        /\ IsSlab(b) => b.slot[1] = w /\ b.slot \notin SlotsIn(chan) \union SlotsIn(batch)
    BY <1>0, <1>1, <1>2
  <2> QED
    BY ONLY <2>1, PutInOrder
<1>4. BatchCells' = BatchCells /\ written' = written /\ Rest' = Rest
  <2>1. BatchCells' = BatchCells
    BY <1>3, InMemory DEF writerVars
  <2> QED
    BY <2>1 DEF Rest, writerVars
<1>5. /\ Shipped \in Seq(Cells) /\ written \o Rest \in Seq(Cells) /\ Flat(chan) \in Seq(Cells)
      /\ Shipped = (written \o Rest) \o Flat(chan)
      /\ Shipped' = (written \o Rest) \o FlatIn(mem', chan')
      /\ Flat(chan) = FlatIn(mem, chan)
  BY <1>0, <1>4, ShippedType, ConcatProperties, InMemory DEF Shipped, SentWithin
<1>6. /\ \A v \in Workers : Buffered[v] = ContentIn(mem, buf[v])
      /\ Buffered'[w] = ContentIn(mem, b) \o cells
      /\ \A v \in Workers \ {w} : Buffered'[v] = Buffered[v]
  BY <1>3, InMemory, SMTT(20)
\* The cells are put on what the worker holds.
<1>p. ASSUME NEW shipped \in Seq(Cells), NEW held,
             \A v \in Workers : held[v] \in Seq(OwnCells(v)),
             Tidy(shipped, held, stream, records, size),
             Buffered'[w] = held[w] \o cells,
             \A v \in Workers \ {w} : Buffered'[v] = held[v]
      PROVE  Tidy(shipped, Buffered', stream', records', size')
  <2> DEFINE held2 == Buffered'
             str == stream
             str2 == stream'
             rec == records
             rec2 == records'
             sz == size
             sz2 == size'
  <2>1. /\ shipped \in Seq(Cells) /\ \A v \in Workers : held[v] \in Seq(OwnCells(v))
        /\ w \in Workers /\ cells \in Seq(OwnCells(w)) /\ Whole(cells)
        /\ Tidy(shipped, held, str, rec, sz)
    BY <1>1, <1>p
  <2>2. /\ rec \in [Workers -> Nat] /\ sz \in [Workers -> Nat]
        /\ rec2 \in [Workers -> Nat] /\ sz2 \in [Workers -> Nat]
    BY <1>0
  <2>3. \A v \in Workers \ {w} : /\ held2[v] = held[v] /\ str2[v] = str[v]
                                 /\ rec2[v] = rec[v] /\ sz2[v] = sz[v]
    BY <1>3, <1>p
  <2>4. /\ held2[w] = held[w] \o cells /\ str2[w] = str[w] \o cells
        /\ \A c \in ToSet(cells) : /\ c[2] <= rec2[w] /\ sz2[w] = 0
                                   /\ rec[w] < c[2] \/ (sz[w] # 0 /\ rec[w] <= c[2])
    BY <1>1, <1>3, <1>p
  <2>5. /\ rec[w] <= rec2[w]
        /\ sz2[w] # 0 => rec[w] < rec2[w] \/ (sz2[w] = sz[w] /\ rec2[w] = rec[w])
    OBVIOUS
  <2> HIDE DEF held2, str, str2, rec, rec2, sz, sz2
  <2>6. Puts(w, cells, held, str, rec, sz, held2, str2, rec2, sz2)
    BY <2>1, <2>2, <2>3, <2>4, <2>5 DEF Puts
  <2>7. Tidy(shipped, held2, str2, rec2, sz2)
    BY <2>1, <2>6, TidyPut
  <2> QED
    BY <2>7 DEF held2, str2, rec2, sz2
<1>7. ASSUME b = buf[w], chan' = chan
      PROVE  /\ \A v \in Workers : Buffered'[v] \in Seq(OwnCells(v))
             /\ Delivering => Tidy(Shipped', Buffered', stream', records', size')
  <2>1. Buffered'[w] = Buffered[w] \o cells
    BY <1>6, <1>7
  <2>2. Shipped' = Shipped
    BY <1>3, <1>5, <1>7
  <2>3. \A v \in Workers : Buffered'[v] \in Seq(OwnCells(v))
    <3>1. Buffered[w] \o cells \in Seq(OwnCells(w))
      BY <1>0, <1>1, ConcatProperties
    <3> QED
      BY <1>0, <1>6, <2>1, <3>1
  <2>4. ASSUME Delivering PROVE Tidy(Shipped, Buffered', stream', records', size')
    <3>1. Tidy(Shipped, Buffered, stream, records, size)
      BY <2>4 DEF OrderInv
    <3> QED
      BY <1>0, <1>5, <1>6, <1>p, <2>1, <3>1
  <2> QED
    BY <2>2, <2>3, <2>4
<1>8. ASSUME ContentIn(mem, b) = <<>>,
             \/ One(b) \intersect One(buf[w]) = {} /\ chan' = Append(chan, buf[w])
             \/ chan' = chan /\ (Delivering => Content(buf[w]) = <<>>)
      PROVE  /\ \A v \in Workers : Buffered'[v] \in Seq(OwnCells(v))
             /\ Delivering => Tidy(Shipped', Buffered', stream', records', size')
  <2> DEFINE held == [Buffered EXCEPT ![w] = <<>>]
  <2>1. Buffered'[w] = cells /\ <<>> \o cells = cells
    BY <1>1, <1>6, <1>8, ConcatEmptySeq
  <2>2. \A v \in Workers : Buffered'[v] \in Seq(OwnCells(v))
    BY <1>0, <1>1, <1>6, <2>1
  <2>3. ASSUME Delivering PROVE Shipped' = Shipped \o Buffered[w]
    <3>1. ASSUME One(b) \intersect One(buf[w]) = {}, chan' = Append(chan, buf[w])
          PROVE  Shipped' = Shipped \o Buffered[w]
      <4>1. ContentIn(mem', buf[w]) = Buffered[w]
        <5>1. One(buf[w]) \intersect One(b) = {}
          BY <3>1
        <5> QED
          BY <1>0, <1>3, <1>6, <5>1
      <4>2. FlatIn(mem', Append(chan, buf[w])) = FlatIn(mem', chan) \o ContentIn(mem', buf[w])
        <5> DEFINE c == buf[w]
        <5>1. /\ c \in Messages /\ FitsIn(mem', c) /\ mem' \in Memories /\ chan \in Seq(Messages)
              /\ \A i \in 1..Len(chan) : FitsIn(mem', chan[i])
          <6>1. \A i \in 1..Len(chan) : chan[i] \in Messages
            BY <1>0, ElementOfSeq
          <6> QED
            BY <1>0, <1>3, <6>1
        <5> HIDE DEF c
        <5>2. FlatIn(mem', Append(chan, c)) = FlatIn(mem', chan) \o ContentIn(mem', c)
          BY ONLY <5>1, FlatInAppend
        <5> QED
          BY <5>2 DEF c
      <4>3. Shipped' = (written \o Rest) \o (Flat(chan) \o Buffered[w])
        BY <1>3, <1>5, <3>1, <4>1, <4>2
      <4> DEFINE x == written \o Rest
                 y == Flat(chan)
                 z == Buffered[w]
      <4>4. x \in Seq(Cells) /\ y \in Seq(Cells) /\ z \in Seq(Cells)
        BY <1>0, <1>5, OfOwn
      <4>5. Shipped' = x \o (y \o z) /\ Shipped = x \o y
        BY <1>5, <4>3
      <4> HIDE DEF x, y, z
      <4>6. Shipped' = Shipped \o z
        BY <4>4, <4>5, Regroup
      <4> QED
        BY <4>6 DEF z
    <3>2. ASSUME chan' = chan, Content(buf[w]) = <<>>
          PROVE  Shipped' = Shipped \o Buffered[w]
      <4>1. Shipped' = Shipped /\ Buffered[w] = <<>>
        BY <1>3, <1>5, <3>2, InMemory
      <4>2. Shipped \o <<>> = Shipped
        BY <1>5, ConcatEmptySeq
      <4> QED
        BY <4>1, <4>2
    <3> QED
      BY <1>8, <2>3, <3>1, <3>2
  <2>4. held[w] = <<>> /\ \A v \in Workers \ {w} : held[v] = Buffered[v]
    BY DEF Buffered
  <2> HIDE DEF held
  <2>5. ASSUME Delivering PROVE Tidy(Shipped', Buffered', stream', records', size')
    <3> DEFINE all == Shipped \o Buffered[w]
    <3>1. Tidy(Shipped, Buffered, stream, records, size)
      BY <2>5 DEF OrderInv
    <3>2. /\ all \in Seq(Cells) /\ Tidy(all, held, stream, records, size)
          /\ \A v \in Workers : held[v] \in Seq(OwnCells(v))
      <4> DEFINE shipped == Shipped
                 held1 == Buffered
                 str == stream
                 rec == records
                 sz == size
      <4>1. /\ shipped \in Seq(Cells) /\ \A v \in Workers : held1[v] \in Seq(OwnCells(v))
            /\ Tidy(shipped, held1, str, rec, sz) /\ w \in Workers
            /\ held[w] = <<>> /\ \A v \in Workers \ {w} : held[v] = held1[v]
        BY <1>0, <1>5, <2>4, <3>1
      <4> HIDE DEF shipped, held1, str, rec, sz
      <4>2. /\ shipped \o held1[w] \in Seq(Cells)
            /\ Tidy(shipped \o held1[w], held, str, rec, sz)
            /\ \A v \in Workers : held[v] \in Seq(OwnCells(v))
        BY ONLY <4>1, TidyShip
      <4> QED
        BY <4>2 DEF shipped, held1, str, rec, sz
    <3> HIDE DEF all
    <3>3. /\ Buffered'[w] = held[w] \o cells
          /\ \A v \in Workers \ {w} : Buffered'[v] = held[v]
      BY <1>6, <2>1, <2>4
    <3>4. Tidy(all, Buffered', stream', records', size')
      BY <1>p, <3>2, <3>3
    <3> QED
      BY <2>3, <2>5, <3>4 DEF all
  <2> QED
    BY <2>2, <2>5
<1>9. /\ \A v \in Workers : Buffered'[v] \in Seq(OwnCells(v))
      /\ Delivering => Tidy(Shipped', Buffered', stream', records', size')
  BY <1>7, <1>8
<1>10. \A v \in Workers \ {w} : Content(buf[v])' = Content(buf[v])
  BY <1>3, InMemory
<1>11. pc'[w] \in {"big", "done"} => Content(buf[w])' = <<>>
  <2>1. SUFFICES ASSUME pc'[w] \in {"big", "done"} PROVE Content(buf[w])' = <<>>
    OBVIOUS
  <2>2. k = 0 /\ ContentIn(mem, b) = <<>>
    BY <2>1
  <2>3. cells = <<>>
    BY <1>1, <1>2, <2>2
  <2>4. <<>> \o <<>> = <<>>
    BY EmptySeq, ConcatEmptySeq
  <2> QED
    BY <1>3, <2>2, <2>3, <2>4, InMemory
<1>12. chan' = chan \/ chan' = Append(chan, buf[w])
  OBVIOUS
<1> QED
  BY <1>4, <1>9, <1>10, <1>11, <1>12, WorkerOrder

\* write_record, when the record fits.
LEMMA WriteFitsOrder ==
  ASSUME OrderInv, IInv', NEW w \in Workers, WriteFits(w)
  PROVE  OrderInv'
<1>0. /\ IInv /\ Pending /\ SlotOwnership /\ TypeOK
      /\ buf[w] \in Buffers /\ InSlab(buf[w]) /\ records \in [Workers -> Nat]
      /\ buf \in [Workers -> Buffers] /\ chan \in Seq(Messages)
      /\ Sizes[w] \subseteq Nat
  BY OutputAssumption, StateFacts DEF OrderInv, IInv, Filled, TypeOK
<1>1. PICK k \in Sizes[w] : PutIn(w, buf[w], [i \in 1..k |-> <<w, records[w] + 1>>])
  BY DEF WriteFits
<1> DEFINE n == records[w] + 1
           b == buf[w]
<1>2. /\ k \in Nat /\ n \in Nat /\ b \in Buffers /\ InSlab(b) /\ b = buf[w]
      /\ PutIn(w, b, [i \in 1..k |-> <<w, n>>])
  BY <1>0, <1>1
<1>3. /\ pc[w] = "ready" /\ size[w] = 0
      /\ records' = [records EXCEPT ![w] = n]
      /\ pc' = pc /\ size' = size /\ resume' = resume /\ chan' = chan
      /\ UNCHANGED <<writerVars, mainVars>>
  BY <1>0 DEF WriteFits, Pending
<1>4. IsSlab(b) => b.slot[1] = w /\ b.slot \notin SlotsIn(chan) \union SlotsIn(batch)
  <2>1. IsSlab(buf[w]) => buf[w].slot \in HeldSlots
    BY DEF HeldSlots, IsSlab
  <2> QED
    BY <1>0, <2>1 DEF SlotOwnership
<1>5. /\ records'[w] = n /\ records[w] < n /\ records[w] <= records'[w]
      /\ \A v \in Workers \ {w} : records'[v] = records[v]
  BY <1>0, <1>3
<1> HIDE DEF n, b
<1>6. PutsOne(w, b, k, n)
  BY <1>2, <1>3, <1>4, <1>5 DEF PutsOne
<1> QED
  BY <1>2, <1>6, PutOrder

\* Shipping a buffer and going on with a fresh one.
LEMMA RotateOrder ==
  ASSUME OrderInv, IInv', NEW w \in Workers, NEW fresh \in Buffers, InSlab(fresh),
         ContentIn(mem, fresh) = <<>>,
         IsSlab(fresh) => fresh.slot[1] = w /\ fresh.slot \in free,
         pc[w] \in {"rotate", "overflow"},
         NEW STATE freeNow, NEW STATE usedNow, Rotate(w, fresh, freeNow, usedNow),
         UNCHANGED <<writerVars, mainVars>>
  PROVE  OrderInv'
<1> DEFINE places == resume[w] = "place" /\ size[w] <= SlotCap
           k == IF places THEN size[w] ELSE 0
           n == records[w]
<1>0. /\ IInv /\ Pending /\ SlotOwnership /\ EndsByFailure /\ TypeOK
      /\ size \in [Workers -> Nat] /\ records \in [Workers -> Nat]
      /\ pc \in [Workers -> {"ready", "rotate", "overflow", "big", "done"}]
      /\ buf[w] \in Messages /\ FitsIn(mem, buf[w]) /\ buf[w] \in Buffers /\ mem \in Memories
  BY StateFacts DEF OrderInv, IInv, TypeOK
<1>1. /\ PutIn(w, fresh, IF places THEN NewCells(w, size[w]) ELSE <<>>)
      /\ size' = [size EXCEPT ![w] = IF places THEN 0 ELSE size[w]]
      /\ pc' = [pc EXCEPT ![w] = IF places THEN "ready"
                                 ELSE IF resume[w] = "place" THEN "big"
                                 ELSE resume[w]]
      /\ UNCHANGED <<resume, records>>
  BY DEF Rotate
<1>2. k \in Nat /\ n \in Nat /\ PutIn(w, fresh, [i \in 1..k |-> <<w, n>>])
  <2>1. (IF places THEN NewCells(w, size[w]) ELSE <<>>) = [i \in 1..k |-> <<w, n>>]
    <3>1. CASE places
      BY <3>1 DEF NewCells
    <3>2. CASE ~places
      <4>1. k = 0 /\ [i \in 1..0 |-> <<w, n>>] = <<>>
        BY <3>2
      <4> QED
        BY <3>2, <4>1
    <3> QED
      BY <3>1, <3>2
  <2> QED
    BY <1>0, <1>1, <2>1
<1>3. /\ IsSlab(fresh) => fresh.slot[1] = w /\ fresh.slot \notin SlotsIn(chan) \union SlotsIn(batch)
      /\ One(fresh) \intersect One(buf[w]) = {}
  <2>1. IsSlab(buf[w]) => buf[w].slot \in HeldSlots
    BY DEF HeldSlots, IsSlab
  <2> QED
    BY <1>0, <2>1 DEF SlotOwnership, One
<1>4. /\ size[w] # 0 => resume[w] = "place"
      /\ k # 0 => size'[w] = 0 /\ size[w] # 0
      /\ size'[w] # 0 => ~places /\ size'[w] = size[w]
      /\ pc'[w] \in {"big", "done"} => k = 0
      /\ size'[w] # 0 => pc'[w] = "big"
  <2>1. size[w] # 0 => resume[w] = "place"
    BY <1>0 DEF Pending
  <2>2. CASE places
    <3>1. size'[w] = 0 /\ pc'[w] = "ready" /\ k = size[w]
      BY <1>0, <1>1, <2>2
    <3> HIDE DEF places, k
    <3> QED
      BY <2>1, <3>1
  <2>3. CASE ~places
    <3>1. size'[w] = size[w] /\ k = 0 /\ (resume[w] = "place" => pc'[w] = "big")
      BY <1>0, <1>1, <2>3
    <3> HIDE DEF places, k
    <3> QED
      BY <2>1, <2>3, <3>1
  <2> QED
    BY <2>2, <2>3
<1>5. \A v \in Workers \ {w} : /\ pc'[v] = pc[v] /\ size'[v] = size[v] /\ resume'[v] = resume[v]
                               /\ records'[v] = records[v]
  BY <1>0, <1>1
<1>6. /\ k # 0 => n <= records'[w] /\ size[w] # 0 /\ records[w] <= n
      /\ records'[w] = records[w] /\ records[w] <= records'[w]
  BY <1>0, <1>1, <1>4
<1>7. \/ chan' = Append(chan, buf[w])
      \/ chan' = chan /\ (Delivering => Content(buf[w]) = <<>>)
  <2>1. chan' = IF BufLen(buf[w]) = 0 \/ ~Alive THEN chan ELSE Append(chan, buf[w])
    BY DEF Rotate
  <2>2. Delivering => Alive
    BY <1>0 DEF Delivering, Alive, EndsByFailure
  <2>3. BufLen(buf[w]) = 0 => Content(buf[w]) = <<>>
    BY <1>0, InMemory, ContentInType
  <2> QED
    BY <2>1, <2>2, <2>3
<1> HIDE DEF places, k, n
<1>8. pc[w] # "done" /\ UNCHANGED <<writerVars, mainVars>>
  OBVIOUS
<1>9. PutsOne(w, fresh, k, n)
  BY <1>2, <1>3, <1>4, <1>5, <1>6, <1>7, <1>8 DEF PutsOne
<1> QED
  BY <1>2, <1>9, PutOrder

\* The two ways to a fresh buffer.
LEMMA ClaimOrder ==
  ASSUME OrderInv, IInv', NEW w \in Workers, Claim(w) \/ ReserveFresh(w)
  PROVE  OrderInv'
<1>0. /\ IInv /\ free \subseteq SlotIds /\ mem \in [SlotIds -> Seq(Cells)] /\ SlotCap \in Nat
  BY OutputAssumption DEF OrderInv, IInv, TypeOK
<1>1. CASE Claim(w)
  <2> DEFINE slot == <<w, Min({s[2] : s \in FreeOf(w)})>>
             b == Slab(slot)
  <2>1. slot \in free /\ slot \in SlotIds /\ slot[1] = w
    BY <1>0, <1>1, LowestFree DEF Claim
  <2>2. Rotate(w, b, free \ {slot}, used) /\ UNCHANGED <<writerVars, mainVars>> /\ pc[w] = "rotate"
    BY <1>1 DEF Claim
  <2> HIDE DEF slot
  <2>3. /\ b \in Buffers /\ IsSlab(b) /\ b.slot = slot /\ b.len = 0
        /\ b.kind = "slab"
    BY <2>1 DEF Slab, Buffers, SlabBuffers, IsSlab
  <2>4. ContentIn(mem, b) = <<>>
    <3>1. SubSeq(mem[slot], 1, 0) = <<>>
      BY SubSeqEmpty
    <3> QED
      BY <2>3, <3>1 DEF ContentIn
  <2>5. InSlab(b)
    <3>1. Len(mem[slot]) \in Nat
      BY <1>0, <2>1, LenProperties
    <3> QED
      BY <2>3, <3>1 DEF InSlab
  <2> HIDE DEF b
  <2> QED
    BY <2>1, <2>2, <2>3, <2>4, <2>5, RotateOrder
<1>2. CASE ReserveFresh(w)
  <2> DEFINE b == Owned(SlotCap)
  <2>1. /\ Rotate(w, b, free, used + SlotCap) /\ UNCHANGED <<writerVars, mainVars>>
        /\ pc[w] = "overflow"
    BY <1>2 DEF ReserveFresh
  <2>2. b \in Buffers /\ ~IsSlab(b) /\ b.kind = "owned" /\ b.data = <<>>
    BY <1>0 DEF Owned, Buffers, OwnedBuffers, IsSlab
  <2> HIDE DEF b
  <2>3. InSlab(b) /\ ContentIn(mem, b) = <<>>
    BY <2>2 DEF InSlab, ContentIn
  <2> QED
    BY <2>1, <2>2, <2>3, RotateOrder
<1> QED
  BY <1>1, <1>2

\* A record bigger than a slot gets a buffer of its own, which is shipped.
LEMMA ReserveBigOrder ==
  ASSUME OrderInv, IInv', NEW w \in Workers, ReserveBig(w)
  PROVE  OrderInv'
<1> DEFINE b == Owned(size[w])
           k == size[w]
           n == records[w]
<1>0. /\ IInv /\ Pending /\ TypeOK
      /\ size \in [Workers -> Nat] /\ records \in [Workers -> Nat] /\ k \in Nat /\ n \in Nat
      /\ pc \in [Workers -> {"ready", "rotate", "overflow", "big", "done"}]
      /\ resume \in [Workers -> {"ready", "place", "done"}]
  BY DEF OrderInv, IInv, TypeOK
<1>1. /\ PutIn(w, b, [i \in 1..k |-> <<w, n>>])
      /\ size' = [size EXCEPT ![w] = 0]
      /\ pc' = [pc EXCEPT ![w] = "rotate"]
      /\ resume' = [resume EXCEPT ![w] = "ready"]
      /\ UNCHANGED <<records, chan, writerVars, mainVars>>
      /\ pc[w] = "big"
  BY DEF ReserveBig, NewCells
<1>2. b \in Buffers /\ ~IsSlab(b) /\ b.kind = "owned" /\ b.data = <<>>
  BY <1>0 DEF Owned, Buffers, OwnedBuffers, IsSlab
<1> HIDE DEF b
<1>3. InSlab(b) /\ ContentIn(mem, b) = <<>>
  BY <1>2 DEF InSlab, ContentIn
<1>4. Content(buf[w]) = <<>>
  BY <1>0, <1>1 DEF Pending
<1>5. /\ \A v \in Workers \ {w} : /\ pc'[v] = pc[v] /\ size'[v] = size[v] /\ resume'[v] = resume[v]
                                  /\ records'[v] = records[v]
      /\ pc'[w] = "rotate" /\ size'[w] = 0 /\ records'[w] = records[w]
      /\ records[w] <= records'[w]
      /\ k # 0 => n <= records'[w] /\ size'[w] = 0 /\ size[w] # 0 /\ records[w] <= n
      /\ chan' = chan
  BY <1>0, <1>1
<1> HIDE DEF k, n
<1>6. pc[w] # "done" /\ UNCHANGED <<writerVars, mainVars>>
  BY <1>1
<1>7. PutsOne(w, b, k, n)
  <2>1. One(b) \intersect One(buf[w]) = {}
    BY <1>2 DEF One
  <2> QED
    BY <1>1, <1>2, <1>3, <1>4, <1>5, <1>6, <2>1 DEF PutsOne
<1> QED
  BY <1>0, <1>2, <1>7, PutOrder

\* A worker only moves on, perhaps with a record that it has yet to place.
MovesOn(w) ==
  /\ pc[w] # "done"
  /\ UNCHANGED <<buf, mem, stream, chan, writerVars, mainVars>>
  /\ \A v \in Workers \ {w} : /\ pc'[v] = pc[v] /\ size'[v] = size[v] /\ resume'[v] = resume[v]
                              /\ records'[v] = records[v]
  /\ pc'[w] \in {"big", "done"} => Content(buf[w]) = <<>>
  /\ size'[w] # 0 => \/ pc'[w] = "big"
                     \/ pc'[w] \in {"rotate", "overflow"} /\ resume'[w] = "place"
  /\ records[w] <= records'[w]
  /\ size'[w] # 0 => records[w] < records'[w] \/ (size'[w] = size[w] /\ records'[w] = records[w])

\* A step that touches no buffer keeps the order.
LEMMA MoveOnOrder ==
  ASSUME OrderInv, IInv', NEW w \in Workers, MovesOn(w)
  PROVE  OrderInv'
<1>0. /\ IInv /\ OwnContents /\ SentWithin
      /\ records \in [Workers -> Nat] /\ size \in [Workers -> Nat]
      /\ records' \in [Workers -> Nat] /\ size' \in [Workers -> Nat]
      /\ \A v \in Workers : Buffered[v] \in Seq(OwnCells(v))
      /\ Shipped \in Seq(Cells)
  <2>1. IInv /\ OwnContents /\ SentWithin
    BY DEF OrderInv
  <2>2. \A v \in Workers : Buffered[v] \in Seq(OwnCells(v))
    BY <2>1, InMemory DEF OwnContents
  <2>3. /\ records \in [Workers -> Nat] /\ size \in [Workers -> Nat]
        /\ records' \in [Workers -> Nat] /\ size' \in [Workers -> Nat]
    BY <2>1 DEF IInv, TypeOK
  <2> QED
    BY <2>1, <2>2, <2>3, ShippedType DEF SentWithin
<1>1. /\ pc[w] # "done" /\ UNCHANGED <<writerVars, mainVars>>
      /\ buf' = buf /\ mem' = mem /\ stream' = stream /\ chan' = chan
      /\ batch' = batch /\ written' = written /\ sent' = sent
  BY DEF MovesOn, writerVars
<1>2. BatchCells' = BatchCells /\ Flat(chan)' = Flat(chan)
  BY <1>1, InMemory
<1>3. Shipped' = Shipped
  BY <1>1, <1>2 DEF Shipped, Rest
<1>4. \A v \in Workers : Content(buf[v])' = Content(buf[v]) /\ Buffered'[v] = Buffered[v]
  BY <1>1, InMemory
<1>5. ASSUME Delivering PROVE Tidy(Shipped', Buffered', stream', records', size')
  <2> DEFINE shipped == Shipped
             cells == <<>>
             held == Buffered
             held2 == Buffered'
             str == stream
             str2 == stream'
             rec == records
             rec2 == records'
             sz == size
             sz2 == size'
  <2>1. /\ shipped \in Seq(Cells) /\ Tidy(shipped, held, str, rec, sz)
        /\ \A v \in Workers : held[v] \in Seq(OwnCells(v))
    BY <1>0, <1>5 DEF OrderInv
  <2>2. cells \in Seq(OwnCells(w)) /\ Whole(cells) /\ ToSet(cells) = {}
    <3>1. Len(<<>>) = 0 /\ ToSet(<<>>) = {} /\ <<>> \in Seq(OwnCells(w))
      BY SmallQueues, EmptySeq
    <3> QED
      BY <3>1 DEF Whole
  <2>3. held2[w] = held[w] \o cells /\ str2[w] = str[w] \o cells
    <3>1. Buffered[w] \o <<>> = Buffered[w]
      BY <1>0, ConcatEmptySeq
    <3>2. stream[w] \o <<>> = stream[w]
      <4>1. stream[w] \in Seq(Cells)
        BY <1>0 DEF IInv, TypeOK
      <4> QED
        BY <4>1, ConcatEmptySeq
    <3> QED
      BY <1>1, <1>4, <3>1, <3>2
  <2>4. \A v \in Workers \ {w} : /\ held2[v] = held[v] /\ str2[v] = str[v]
                                 /\ rec2[v] = rec[v] /\ sz2[v] = sz[v]
    BY <1>1, <1>4 DEF MovesOn
  <2>5. /\ rec \in [Workers -> Nat] /\ sz \in [Workers -> Nat]
        /\ rec2 \in [Workers -> Nat] /\ sz2 \in [Workers -> Nat]
        /\ rec[w] <= rec2[w]
        /\ sz2[w] # 0 => rec[w] < rec2[w] \/ (sz2[w] = sz[w] /\ rec2[w] = rec[w])
    BY <1>0 DEF MovesOn
  <2> HIDE DEF shipped, cells, held, held2, str, str2, rec, rec2, sz, sz2
  <2>6. Puts(w, cells, held, str, rec, sz, held2, str2, rec2, sz2)
    BY <2>1, <2>2, <2>3, <2>4, <2>5 DEF Puts
  <2>7. Tidy(shipped, held2, str2, rec2, sz2)
    BY <2>1, <2>6, TidyPut
  <2> QED
    BY <1>3, <2>7 DEF shipped, held2, str2, rec2, sz2
<1>6. \A v \in Workers : Buffered'[v] \in Seq(OwnCells(v))
  BY <1>0, <1>4
<1>7. /\ pc'[w] \in {"big", "done"} => Content(buf[w])' = <<>>
      /\ size'[w] # 0 => \/ pc'[w] = "big"
                         \/ pc'[w] \in {"rotate", "overflow"} /\ resume'[w] = "place"
  BY <1>4 DEF MovesOn
<1>8. \A v \in Workers \ {w} : /\ pc'[v] = pc[v] /\ size'[v] = size[v] /\ resume'[v] = resume[v]
                               /\ Content(buf[v])' = Content(buf[v])
  BY <1>4 DEF MovesOn
<1> QED
  BY <1>1, <1>2, <1>5, <1>6, <1>7, <1>8, WorkerOrder

\* The buffer that is cleared instead of shipped goes to nobody.
LEMMA ClearOrder ==
  ASSUME OrderInv, IInv', NEW w \in Workers, pc[w] = "ready", writer = "absent",
         buf' = [buf EXCEPT ![w] = Cleared(@)],
         \/ pc' = pc
         \/ pc' = [pc EXCEPT ![w] = "done"],
         UNCHANGED <<mem, size, resume, records, stream, chan, writerVars, mainVars>>
  PROVE  OrderInv'
<1>0. /\ IInv /\ OwnContents /\ SentWithin /\ Pending /\ AllDone
      /\ buf \in [Workers -> Buffers] /\ mem \in Memories /\ buf[w] \in Buffers
      /\ pc \in [Workers -> {"ready", "rotate", "overflow", "big", "done"}]
  BY StateFacts DEF OrderInv, IInv, TypeOK
<1>1. Content(buf[w])' = <<>>
  <2>1. CASE IsSlab(buf[w])
    <3>1. buf[w] \in SlabBuffers /\ buf[w].kind = "slab" /\ buf[w].slot \in SlotIds
      BY <1>0, <2>1, SlabFacts DEF IsSlab
    <3>2. buf'[w].kind = "slab" /\ buf'[w].len = 0
      BY <1>0, <3>1 DEF Cleared, SlabBuffers
    <3>3. ContentIn(mem', buf'[w]) = SubSeq(mem'[buf'[w].slot], 1, 0)
      BY <3>2 DEF ContentIn
    <3>4. ContentIn(mem', buf'[w]) = <<>>
      BY <3>3, SubSeqEmpty
    <3> QED
      BY <3>4, InMemory
  <2>2. CASE ~IsSlab(buf[w])
    <3>1. buf[w] \in OwnedBuffers /\ buf[w].kind = "owned"
      BY <1>0, <2>2, OwnedFacts
    <3>2. buf'[w].kind = "owned" /\ buf'[w].data = <<>>
      BY <1>0, <3>1 DEF Cleared, OwnedBuffers
    <3> QED
      BY <3>2, InMemory DEF ContentIn
  <2> QED
    BY <2>1, <2>2
<1>2. \A v \in Workers \ {w} : Content(buf[v])' = Content(buf[v]) /\ pc'[v] = pc[v]
  BY <1>0, InMemory
<1>3. /\ batch' = batch /\ sent' = sent /\ BatchCells' = BatchCells
  BY InMemory DEF writerVars
<1>4. \A v \in Workers : Buffered'[v] \in Seq(OwnCells(v))
  <2>1. <<>> \in Seq(OwnCells(w))
    BY EmptySeq
  <2>2. \A v \in Workers : Buffered'[v] = Content(buf[v])'
    BY InMemory
  <2>3. \A v \in Workers \ {w} : Content(buf[v])' \in Seq(OwnCells(v))
    BY <1>0, <1>2 DEF OwnContents
  <2> QED
    BY <1>1, <2>1, <2>2, <2>3
<1>5. ~Delivering
  BY DEF Delivering
<1>6. /\ pc[w] # "done" /\ size'[w] = 0
      /\ chan' = chan /\ UNCHANGED <<writerVars, mainVars>>
  BY <1>0 DEF Pending
<1>7. \A v \in Workers \ {w} : /\ pc'[v] = pc[v] /\ size'[v] = size[v] /\ resume'[v] = resume[v]
                               /\ Content(buf[v])' = Content(buf[v])
  BY <1>2
<1> QED
  BY <1>1, <1>3, <1>4, <1>5, <1>6, <1>7, WorkerOrder

\* A worker's step keeps the order.
LEMMA WorkerKeepsOrder ==
  ASSUME OrderInv, IInv', NEW w \in Workers, WorkerStep(w)
  PROVE  OrderInv'
<1>0. /\ IInv /\ Pending /\ SentWithin
      /\ buf \in [Workers -> Buffers] /\ mem \in Memories /\ buf[w] \in Messages
      /\ FitsIn(mem, buf[w]) /\ buf[w] \in Buffers
      /\ pc \in [Workers -> {"ready", "rotate", "overflow", "big", "done"}]
      /\ resume \in [Workers -> {"ready", "place", "done"}]
      /\ records \in [Workers -> Nat] /\ size \in [Workers -> Nat]
      /\ Sizes[w] \subseteq Nat
  BY OutputAssumption, StateFacts DEF OrderInv, IInv, TypeOK
<1>1. CASE WriteOver(w)
  <2>1. PICK s \in Sizes[w] : size' = [size EXCEPT ![w] = s]
    BY <1>1 DEF WriteOver
  <2>2. /\ pc[w] = "ready" /\ records' = [records EXCEPT ![w] = records[w] + 1]
        /\ pc' = [pc EXCEPT ![w] = "rotate"] /\ resume' = [resume EXCEPT ![w] = "place"]
        /\ UNCHANGED <<buf, mem, stream, chan, writerVars, mainVars>>
    BY <1>1 DEF WriteOver
  <2>3. /\ pc'[w] = "rotate" /\ resume'[w] = "place" /\ records'[w] = records[w] + 1
        /\ records[w] \in Nat
    BY <1>0, <2>2
  <2>4. \A v \in Workers \ {w} : /\ pc'[v] = pc[v] /\ size'[v] = size[v] /\ resume'[v] = resume[v]
                                 /\ records'[v] = records[v]
    BY <1>0, <2>1, <2>2
  <2>5. MovesOn(w)
    BY <2>2, <2>3, <2>4 DEF MovesOn
  <2> QED
    BY <2>5, MoveOnOrder
<1>2. CASE NoSlot(w)
  <2>1. /\ pc[w] = "rotate" /\ pc' = [pc EXCEPT ![w] = "overflow"]
        /\ UNCHANGED <<size, resume, records>>
        /\ UNCHANGED <<buf, mem, stream, chan, writerVars, mainVars>>
    BY <1>2 DEF NoSlot
  <2>2. pc'[w] = "overflow" /\ (size'[w] # 0 => resume'[w] = "place") /\ records[w] \in Nat
    BY <1>0, <2>1 DEF Pending
  <2>3. \A v \in Workers \ {w} : /\ pc'[v] = pc[v] /\ size'[v] = size[v] /\ resume'[v] = resume[v]
                                 /\ records'[v] = records[v]
    BY <1>0, <2>1
  <2>4. MovesOn(w)
    BY <2>1, <2>2, <2>3 DEF MovesOn
  <2> QED
    BY <2>4, MoveOnOrder
\* Flushing, for good or not: an empty buffer, or one to be shipped.
<1>3. ASSUME pc[w] = "ready",
             \/ /\ BufLen(buf[w]) = 0
                /\ pc' = [pc EXCEPT ![w] = "done"] /\ resume' = resume
             \/ /\ pc' = [pc EXCEPT ![w] = "rotate"]
                /\ resume' = [resume EXCEPT ![w] = resume'[w]],
             UNCHANGED <<size, records, buf, mem, stream, chan, writerVars, mainVars>>
      PROVE  OrderInv'
  <2>1. size'[w] = 0 /\ records'[w] = records[w] /\ records[w] \in Nat
    BY <1>0, <1>3 DEF Pending
  <2>2. BufLen(buf[w]) = 0 => Content(buf[w]) = <<>>
    BY <1>0, InMemory, ContentInType
  <2>3. pc'[w] \in {"big", "done"} => Content(buf[w]) = <<>>
    BY <1>0, <1>3, <2>2
  <2>4. \A v \in Workers \ {w} : /\ pc'[v] = pc[v] /\ size'[v] = size[v] /\ resume'[v] = resume[v]
                                 /\ records'[v] = records[v]
    BY <1>0, <1>3
  <2>5. MovesOn(w)
    BY <1>3, <2>1, <2>3, <2>4 DEF MovesOn
  <2> QED
    BY <2>5, MoveOnOrder
<1>4. CASE Flush(w)
  <2>1. resume' = [resume EXCEPT ![w] = resume'[w]]
    BY <1>0, <1>4 DEF Flush
  <2> QED
    BY <1>3, <1>4, <2>1 DEF Flush
<1>5. CASE Clear(w)
  BY <1>5, ClearOrder DEF Clear
<1>6. CASE Finish(w)
  <2>1. CASE BufLen(buf[w]) = 0
    BY <1>3, <1>6, <2>1 DEF Finish
  <2>2. CASE BufLen(buf[w]) # 0 /\ writer = "absent"
    BY <1>6, <2>2, ClearOrder DEF Finish
  <2>3. CASE BufLen(buf[w]) # 0 /\ writer # "absent"
    <3>1. /\ pc[w] = "ready" /\ pc' = [pc EXCEPT ![w] = "rotate"]
          /\ resume' = [resume EXCEPT ![w] = "done"]
          /\ UNCHANGED <<size, records, buf, mem, stream, chan, writerVars, mainVars>>
      BY <1>6, <2>3 DEF Finish
    <3>2. resume' = [resume EXCEPT ![w] = resume'[w]]
      BY <1>0, <3>1
    <3> QED
      BY <1>3, <3>1, <3>2
  <2> QED
    BY <2>1, <2>2, <2>3
<1> QED
  BY <1>1, <1>2, <1>4, <1>5, <1>6, WriteFitsOrder, ClaimOrder, ReserveBigOrder DEF WorkerStep

-----------------------------------------------------------------------------
(* The steps of the output worker and of the thread that waits.            *)

\* What all of them leave alone.
LEMMA OthersOrder ==
  ASSUME OrderInv, IInv', UNCHANGED <<buf, mem, size, resume, records, stream>>,
         SentWithin', Pending', AllDone',
         Delivering' => Delivering /\ FlushLast' /\ Shipped' = Shipped
  PROVE  OrderInv'
<1>1. OwnContents'
  <2>1. \A w \in Workers : Content(buf[w])' = Content(buf[w])
    BY InMemory
  <2> QED
    BY <2>1 DEF OrderInv, OwnContents
<1>2. Buffered' = Buffered
  BY DEF Buffered, Content
<1>3. ASSUME Delivering' PROVE FlushLast' /\ Tidy(Shipped, Buffered, stream, records, size)'
  <2>1. FlushLast' /\ Shipped' = Shipped /\ Tidy(Shipped, Buffered, stream, records, size)
    BY <1>3 DEF OrderInv
  <2>2. stream' = stream /\ records' = records /\ size' = size
    OBVIOUS
  <2> QED
    BY <1>2, <2>1, <2>2
<1> QED
  BY <1>1, <1>3 DEF OrderInv

\* A step of others leaves what a worker has yet to place.
LEMMA WaitKeepsPending ==
  ASSUME Pending, UNCHANGED <<buf, mem, pc, size, resume>>
  PROVE  Pending'
<1>1. \A w \in Workers : Content(buf[w])' = Content(buf[w])
  BY InMemory
<1> QED
  BY <1>1 DEF Pending

\* A message that goes from the channel to the batch keeps its place.
LEMMA AbsorbOrder ==
  ASSUME OrderInv, IInv', Absorb
  PROVE  OrderInv'
<1> DEFINE msg == Head(chan)
           t == Tail(chan)
           c == ContentIn(mem, msg)
<1>0. /\ IInv /\ SentWithin /\ Pending /\ AllDone /\ mem \in Memories
      /\ chan \in Seq(Messages) /\ \A i \in 1..Len(chan) : FitsIn(mem, chan[i])
      /\ batch \in Seq(Messages) /\ \A i \in 1..Len(batch) : FitsIn(mem, batch[i])
      /\ written \in Seq(Cells) /\ BatchCells \in Seq(Cells) /\ sent \in Nat
      /\ Rest \in Seq(Cells)
  BY StateFacts, ShippedType DEF OrderInv, SentWithin
<1>1. /\ chan # <<>> /\ chan' = t /\ UNCHANGED <<workerVars, sent, failed, written, mainVars>>
      /\ writer \in {"recv", "drain"}
      /\ \/ /\ msg.kind = "flush" /\ writer' = "write" /\ afterwards' = "ack" /\ batch' = batch
         \/ /\ msg.kind # "flush" /\ batch' = Append(batch, msg)
            /\ afterwards' = "drain" /\ writer' \in {"write", "drain"}
  BY DEF Absorb
<1>2. /\ UNCHANGED <<buf, mem, size, resume, records, stream, pc>>
      /\ sent' = sent /\ written' = written /\ phase' = phase /\ failed' = failed
  BY <1>1 DEF workerVars, mainVars
<1>3. /\ msg \in Messages /\ FitsIn(mem, msg) /\ c \in Seq(Cells)
      /\ (msg.kind = "flush" => c = <<>>)
      /\ FlatIn(mem, chan) = c \o FlatIn(mem, t)
      /\ FlatIn(mem, t) \in Seq(Cells)
  <2>1. /\ FlatIn(mem, chan) = c \o FlatIn(mem, t)
        /\ FitsIn(mem, msg) /\ msg \in Messages /\ t \in Seq(Messages)
        /\ \A i \in 1..Len(t) : FitsIn(mem, t[i])
    BY <1>0, <1>1, FlatInTail
  <2>2. c \in Seq(Cells) /\ (msg.kind = "flush" => c = <<>>)
    BY <1>0, <2>1, ContentInType
  <2> HIDE DEF t
  <2>3. FlatIn(mem, t) \in Seq(Cells)
    BY <1>0, <2>1, FlatInType
  <2> QED
    BY <2>1, <2>2, <2>3
<1>4. /\ t \in Seq(Messages) /\ Len(chan) \in Nat /\ Len(t) = Len(chan) - 1
      /\ \A i \in 1..Len(t) : t[i] = chan[i + 1] /\ i + 1 \in 1..Len(chan)
      /\ Len(chan) >= 1 /\ msg = chan[1]
  BY <1>0, <1>1, HeadTailProperties, EmptySeq
<1>5. /\ Flat(chan) = FlatIn(mem, chan) /\ Flat(chan)' = FlatIn(mem, t)
      /\ BatchCells = FlatIn(mem, batch) /\ BatchCells' = FlatIn(mem, batch')
  BY <1>1, <1>2, InMemory
<1>6. Delivering' => Delivering
  BY <1>1, <1>2 DEF Delivering
<1>7. Pending' /\ AllDone'
  <2>1. Pending'
    BY <1>0, <1>2, WaitKeepsPending
  <2> QED
    BY <1>0, <1>2, <2>1 DEF AllDone
<1> HIDE DEF t, c
\* The request to flush: everything else is in the batch.
<1>8. CASE msg.kind = "flush"
  <2>1. batch' = batch /\ writer' = "write" /\ afterwards' = "ack"
    BY <1>1, <1>8
  <2>2. BatchCells' = BatchCells /\ Rest' = Rest
    BY <1>2, <1>5, <2>1 DEF Rest
  <2>3. SentWithin'
    BY <1>0, <1>2, <2>2 DEF SentWithin
  <2>4. Flat(chan)' = Flat(chan)
    <3>1. <<>> \o FlatIn(mem, t) = FlatIn(mem, t)
      BY <1>3, ConcatEmptySeq
    <3> QED
      BY <1>3, <1>5, <1>8, <3>1
  <2>5. Shipped' = Shipped
    BY <1>2, <2>2, <2>4 DEF Shipped
  <2>6. ASSUME Delivering PROVE FlushLast'
    <3>1. phase = "waiting" /\ 1 = Len(chan)
      <4>1. 1 \in 1..Len(chan) /\ chan[1].kind = "flush"
        BY <1>4, <1>8
      <4> QED
        BY <2>6, <4>1 DEF OrderInv, FlushLast
    <3>2. chan' = <<>> /\ Len(chan') = 0
      <4>1. Len(t) = 0
        <5>1. Len(t) = Len(chan) - 1
          BY <1>4
        <5> QED
          BY ONLY <3>1, <5>1
      <4> QED
        BY <1>1, <1>4, <4>1, EmptySeq
    <3>3. \A i \in 1..Len(chan') : FALSE
      BY <3>2
    <3> QED
      BY <1>2, <2>1, <3>1, <3>2, <3>3 DEF FlushLast
  <2> QED
    BY <1>2, <1>6, <1>7, <2>3, <2>5, <2>6, OthersOrder
\* Any other message: what is left of the batch grows by its content.
<1>9. CASE msg.kind # "flush"
  <2>1. batch' = Append(batch, msg) /\ afterwards' = "drain" /\ writer' \in {"write", "drain"}
    BY <1>1, <1>9
  <2>2. BatchCells' = BatchCells \o c
    <3> HIDE DEF msg
    <3>1. FlatIn(mem, Append(batch, msg)) = FlatIn(mem, batch) \o ContentIn(mem, msg)
      BY <1>0, <1>3, FlatInAppend
    <3> QED
      BY <1>5, <2>1, <3>1 DEF c
  <2>3. /\ Len(BatchCells') = Len(BatchCells) + Len(c) /\ Len(BatchCells) \in Nat /\ Len(c) \in Nat
        /\ sent \in 0..Len(BatchCells)
    <3>1. Len(BatchCells \o c) = Len(BatchCells) + Len(c) /\ Len(BatchCells) \in Nat /\ Len(c) \in Nat
      BY <1>0, <1>3, ConcatProperties, LenProperties
    <3> QED
      BY <1>0, <2>2, <3>1 DEF SentWithin
  <2>4. SentWithin'
    BY <1>0, <1>2, <2>3 DEF SentWithin
  <2>5. Rest' = Rest \o c
    <3> DEFINE a == BatchCells
    <3>1. Rest' = SubSeq(a \o c, sent + 1, Len(a \o c))
      BY <1>2, <2>2 DEF Rest
    <3>2. a \in Seq(Cells) /\ c \in Seq(Cells) /\ sent \in 0..Len(a)
      BY <1>0, <1>3, <2>3
    <3> HIDE DEF a
    <3>3. SubSeq(a \o c, sent + 1, Len(a \o c)) = SubSeq(a, sent + 1, Len(a)) \o c
      BY <3>2, RestOfConcat
    <3> QED
      BY <3>1, <3>3 DEF Rest, a
  <2>6. Shipped' = Shipped
    <3> DEFINE x == written
               y == Rest
               z == FlatIn(mem, t)
    <3>1. x \in Seq(Cells) /\ y \in Seq(Cells) /\ z \in Seq(Cells) /\ c \in Seq(Cells)
      BY <1>0, <1>3
    <3>2. Shipped = (x \o y) \o (c \o z) /\ Shipped' = (x \o (y \o c)) \o z
      BY <1>2, <1>3, <1>5, <2>5 DEF Shipped
    <3> HIDE DEF x, y, z
    <3>3. x \o y \in Seq(Cells)
      BY <3>1, ConcatProperties
    <3>4. (x \o y) \o c = x \o (y \o c)
      BY <3>1, Regroup
    <3>5. ((x \o y) \o c) \o z = (x \o y) \o (c \o z)
      BY <3>1, <3>3, Regroup
    <3> QED
      BY <3>2, <3>4, <3>5
  <2>7. ASSUME Delivering PROVE FlushLast'
    <3>1. /\ \A i \in 1..Len(chan) : chan[i].kind = "flush" => phase = "waiting" /\ i = Len(chan)
          /\ phase # "returned"
      BY <1>1, <2>7 DEF OrderInv, FlushLast
    <3>2. \A i \in 1..Len(chan') : chan'[i].kind = "flush" => phase = "waiting" /\ i = Len(chan')
      <4>1. \A i \in 1..Len(t) : t[i].kind = "flush" => phase = "waiting" /\ i + 1 = Len(chan)
        BY <1>4, <3>1
      <4>2. \A i \in 1..Len(t) : i + 1 = Len(chan) => i = Len(t)
        BY <1>4
      <4> QED
        BY <1>1, <4>1, <4>2
    <3> QED
      BY <1>2, <2>1, <3>1, <3>2 DEF FlushLast, Asked
  <2> QED
    BY <1>2, <1>6, <1>7, <2>4, <2>6, <2>7, OthersOrder
<1> QED
  BY <1>8, <1>9

\* What is written was next.
LEMMA WriteSomeOrder ==
  ASSUME OrderInv, IInv', WriteSome
  PROVE  OrderInv'
<1>0. /\ IInv /\ SentWithin /\ Pending /\ AllDone
      /\ written \in Seq(Cells) /\ BatchCells \in Seq(Cells) /\ sent \in Nat
      /\ Flat(chan) \in Seq(Cells) /\ Len(BatchCells) \in Nat /\ sent <= Len(BatchCells)
  BY StateFacts, ShippedType, LenProperties DEF OrderInv, SentWithin
<1>1. PICK n \in 1..(Len(BatchCells) - sent) :
        /\ written' = written \o SubSeq(BatchCells, sent + 1, sent + n)
        /\ sent' = sent + n
  BY DEF WriteSome
<1>2. /\ UNCHANGED <<buf, mem, size, resume, records, stream, pc>>
      /\ UNCHANGED <<chan, writer, afterwards, batch, failed, phase>>
  BY DEF WriteSome, workerVars, mainVars
<1>3. BatchCells' = BatchCells /\ Flat(chan)' = Flat(chan)
  BY <1>2, InMemory
<1>4. SentWithin' /\ Pending' /\ AllDone'
  <2>1. SentWithin'
    BY <1>0, <1>1, <1>3 DEF SentWithin
  <2>2. Pending'
    BY <1>0, <1>2, WaitKeepsPending
  <2> QED
    BY <1>0, <1>2, <2>1, <2>2 DEF AllDone
<1>5. Shipped' = Shipped
  <2> DEFINE a == BatchCells
             m == sent + 1
             k == sent + n
             x == written
             y == SubSeq(a, m, k)
             z == SubSeq(a, k + 1, Len(a))
  <2>1. /\ m \in 1..Len(a) + 1 /\ k \in m - 1..Len(a) /\ Len(a) \in k..Len(a)
        /\ a \in Seq(Cells) /\ x \in Seq(Cells)
    BY <1>0
  <2>2. /\ Rest = SubSeq(a, m, Len(a)) /\ Rest' = z
        /\ Shipped = (x \o Rest) \o Flat(chan) /\ Shipped' = ((x \o y) \o Rest') \o Flat(chan)
    BY <1>1, <1>3 DEF Rest, Shipped
  <2>3. m \in Int /\ k \in Int /\ k + 1 \in Int /\ Len(a) \in Int
    BY <1>0
  <2>4. \A i \in m..Len(a) : a[i] \in Cells
    BY <1>0, ElementOfSeq
  <2>5. (\A i \in m..k : a[i] \in Cells) /\ \A i \in k + 1..Len(a) : a[i] \in Cells
    BY <1>0, <2>4
  <2> HIDE DEF a, m, k
  <2>6. y \o z = SubSeq(a, m, Len(a))
    BY <2>1, ConcatAdjacentSubSeq
  <2>7. y \in Seq(Cells) /\ z \in Seq(Cells)
    BY <2>3, <2>5, SubSeqProperties
  <2> HIDE DEF x, y, z
  <2>8. (x \o y) \o z = x \o (y \o z)
    BY <2>1, <2>7, Regroup
  <2> QED
    BY <2>2, <2>6, <2>8
<1>6. Delivering' => Delivering /\ FlushLast'
  BY <1>2 DEF OrderInv, Delivering, FlushLast, Asked
<1> QED
  BY <1>2, <1>4, <1>5, <1>6, OthersOrder

\* The batch is written: nothing is left of it, nor of the next one.
LEMMA WrittenOrder ==
  ASSUME OrderInv, IInv', Written
  PROVE  OrderInv'
<1>0. /\ IInv /\ Pending /\ AllDone /\ BatchCells \in Seq(Cells) /\ sent \in Nat
      /\ Len(BatchCells) \in Nat
  BY ShippedType, LenProperties DEF OrderInv, SentWithin
<1>1. /\ UNCHANGED <<buf, mem, size, resume, records, stream, pc>>
      /\ UNCHANGED <<chan, afterwards, failed, phase, written>>
      /\ sent = Len(BatchCells) /\ sent' = 0 /\ batch' = <<>>
      /\ writer = "write" /\ writer' = afterwards
  BY DEF Written, workerVars, mainVars
<1>2. Rest = <<>>
  <2> DEFINE k == sent
             m == sent + 1
  <2>1. m \in Int /\ k \in Int /\ k < m
    BY <1>0
  <2>2. Rest = SubSeq(BatchCells, m, k)
    BY <1>1 DEF Rest
  <2> HIDE DEF m, k
  <2> QED
    BY <2>1, <2>2, SubSeqEmpty
<1>3. BatchCells' = <<>> /\ Len(BatchCells') = 0 /\ Rest' = <<>>
  <2>1. mem' \in Memories
    BY <1>0, <1>1, StateFacts
  <2>2. BatchCells' = <<>>
    BY <1>1, <2>1, InMemory, FlatInSmall
  <2>3. Len(BatchCells') = 0
    BY <2>2, EmptySeq
  <2>4. SubSeq(<<>>, 1, 0) = <<>>
    BY SubSeqEmpty
  <2>5. Rest' = SubSeq(BatchCells', 0 + 1, Len(BatchCells'))
    BY <1>1 DEF Rest
  <2> QED
    BY <2>2, <2>3, <2>4, <2>5
<1>4. Shipped' = Shipped
  BY <1>1, <1>2, <1>3, InMemory DEF Shipped
<1>5. SentWithin' /\ Pending' /\ AllDone'
  <2>1. Pending'
    BY <1>0, <1>1, WaitKeepsPending
  <2> QED
    BY <1>0, <1>1, <1>3, <2>1 DEF AllDone, SentWithin
<1>6. ASSUME Delivering' PROVE Delivering /\ FlushLast'
  <2>1. Delivering
    BY <1>1, <1>6 DEF Delivering
  <2>2. FlushLast
    BY <2>1 DEF OrderInv
  <2> QED
    BY <1>1, <2>1, <2>2 DEF FlushLast, Asked
<1> QED
  BY <1>1, <1>4, <1>5, <1>6, OthersOrder

\* A failure ends what is promised.
LEMMA FailureOrder ==
  ASSUME OrderInv, IInv', Fail \/ Die
  PROVE  OrderInv'
<1>0. /\ IInv /\ Pending /\ AllDone /\ EndsByFailure
      /\ batch' \in Seq(Messages) /\ BatchCells' \in Seq(Cells)
  <2>1. IInv /\ Pending /\ AllDone /\ EndsByFailure
    BY DEF OrderInv, IInv
  <2>2. BatchCells' \in Seq(Cells)
    <3>1. \A i \in 1..Len(batch') : FitsIn(mem', batch'[i])
      BY DEF IInv, Filled, InSlab, FitsIn
    <3>2. mem' \in Memories /\ batch' \in Seq(Messages)
      <4>1. TypeOK'
        BY DEF IInv
      <4>2. batch' \in Seq(Buffers) /\ Buffers \subseteq Messages
        BY <4>1 DEF TypeOK, Messages
      <4> QED
        BY <4>1, <4>2, SeqMonotonic DEF TypeOK, Memories
    <3> QED
      BY <3>1, <3>2, InMemory, FlatInType
  <2>3. batch' \in Seq(Messages)
    <3>1. batch' \in Seq(Buffers) /\ Buffers \subseteq Messages
      BY DEF IInv, TypeOK, Messages
    <3> QED
      BY <3>1, SeqMonotonic
  <2> QED
    BY <2>1, <2>2, <2>3
<1>1. /\ UNCHANGED <<buf, mem, size, resume, records, stream, pc, phase>>
      /\ sent' = 0 /\ failed'
  BY <1>0 DEF Fail, Die, workerVars, mainVars, EndsByFailure
<1>2. SentWithin'
  <2>1. Len(BatchCells') \in Nat
    BY <1>0, LenProperties
  <2> QED
    BY <1>1, <2>1 DEF SentWithin
<1>3. Pending' /\ AllDone' /\ ~Delivering'
  <2>1. Pending'
    BY <1>0, <1>1, WaitKeepsPending
  <2> QED
    BY <1>0, <1>1, <2>1 DEF AllDone, Delivering
<1> QED
  BY <1>1, <1>2, <1>3, OthersOrder

\* Steps that move neither cells nor messages.
LEMMA QuietOrder ==
  ASSUME OrderInv, IInv', Drained \/ Ack \/ WaitGivesUp \/ SearchAgain
  PROVE  OrderInv'
<1>0. IInv /\ SentWithin /\ Pending /\ AllDone /\ EndsByFailure
  BY DEF OrderInv, IInv
<1>1. /\ UNCHANGED <<buf, mem, size, resume, records, stream>>
      /\ UNCHANGED <<chan, batch, sent, failed, written>>
      /\ writer = "absent" <=> writer' = "absent"
  BY DEF Drained, Ack, WaitGivesUp, SearchAgain, workerVars, writerVars, mainVars, poolVars
<1>2. BatchCells' = BatchCells /\ Flat(chan)' = Flat(chan)
  BY <1>1, InMemory
<1>3. SentWithin' /\ Shipped' = Shipped
  BY <1>0, <1>1, <1>2 DEF SentWithin, Shipped, Rest
<1>4. Pending'
  <2>1. CASE pc' = pc
    BY <1>0, <1>1, <2>1, WaitKeepsPending
  <2>2. CASE SearchAgain
    <3>1. \A w \in Workers : size[w] = 0
      BY <1>0, <2>2 DEF Pending, AllDone, SearchAgain
    <3>2. \A w \in Workers : pc'[w] = "ready" /\ size'[w] = 0
      BY <2>2, <3>1 DEF SearchAgain
    <3> QED
      BY <3>2 DEF Pending
  <2> QED
    BY <2>1, <2>2 DEF Drained, Ack, WaitGivesUp, workerVars
<1>5. AllDone'
  BY <1>0 DEF AllDone, Drained, Ack, WaitGivesUp, SearchAgain, workerVars, mainVars
<1>6. ASSUME Delivering' PROVE Delivering /\ FlushLast'
  <2>1. Delivering /\ FlushLast
    BY <1>1, <1>6 DEF OrderInv, Delivering
  <2>2. CASE Drained
    BY <1>1, <2>1, <2>2 DEF Drained, FlushLast, Asked, mainVars
  <2>3. CASE Ack
    <3>1. chan = <<>> /\ batch = <<>>
      BY <2>1, <2>3 DEF Ack, FlushLast, Asked
    <3>2. Len(chan') = 0
      BY <1>1, <3>1, EmptySeq
    <3>3. \A i \in 1..Len(chan') : FALSE
      BY <3>2
    <3> QED
      BY <1>1, <2>1, <2>3, <3>1, <3>3 DEF Ack, FlushLast, Asked
  <2>4. CASE WaitGivesUp
    BY <1>0, <2>1, <2>4 DEF WaitGivesUp, Delivering, Alive, EndsByFailure
  <2>5. CASE SearchAgain
    <3>1. chan = <<>> /\ batch = <<>> /\ ~Asked /\ writer # "ack"
      BY <2>1, <2>5 DEF SearchAgain, FlushLast, Asked
    <3>2. Len(chan') = 0
      BY <1>1, <3>1, EmptySeq
    <3>3. \A i \in 1..Len(chan') : FALSE
      BY <3>2
    <3>4. ~Asked' /\ writer' # "ack" /\ phase' # "returned"
      BY <2>5, <3>1 DEF SearchAgain, Asked, writerVars
    <3>5. \A i \in 1..Len(chan') :
            chan'[i].kind = "flush" => phase' = "waiting" /\ i = Len(chan')
      BY <3>3
    <3> QED
      BY <2>1, <3>4, <3>5 DEF FlushLast
  <2> QED
    BY <2>1, <2>2, <2>3, <2>4, <2>5
<1> QED
  BY <1>1, <1>3, <1>4, <1>5, <1>6, OthersOrder

\* The request to flush is sent when every worker has finished.
LEMMA WaitFlushOrder ==
  ASSUME OrderInv, IInv', WaitFlush
  PROVE  OrderInv'
<1>0. /\ IInv /\ SentWithin /\ Pending /\ EndsByFailure /\ mem \in Memories
      /\ chan \in Seq(Messages) /\ \A i \in 1..Len(chan) : FitsIn(mem, chan[i])
      /\ FlatIn(mem, chan) \in Seq(Cells)
  BY StateFacts DEF OrderInv, IInv
<1>1. /\ UNCHANGED <<buf, mem, size, resume, records, stream, pc>>
      /\ UNCHANGED <<batch, sent, failed, written, writer, afterwards>>
      /\ phase = "searching" /\ phase' = "waiting"
      /\ \A w \in Workers : pc[w] = "done"
      /\ chan' = IF Alive THEN Append(chan, FlushReq) ELSE chan
  BY DEF WaitFlush, workerVars, writerVars
<1>2. BatchCells' = BatchCells
  BY <1>1, InMemory
<1>3. SentWithin' /\ Rest' = Rest /\ AllDone' /\ Pending'
  <2>1. Pending'
    BY <1>0, <1>1, WaitKeepsPending
  <2> QED
    BY <1>0, <1>1, <1>2, <2>1 DEF SentWithin, Rest, AllDone
<1>4. ASSUME Delivering' PROVE Delivering /\ FlushLast' /\ Shipped' = Shipped
  <2>1. Delivering /\ FlushLast /\ chan' = Append(chan, FlushReq)
    BY <1>0, <1>1, <1>4 DEF OrderInv, Delivering, Alive, EndsByFailure
  <2>2. FlushReq \in Messages /\ FlushReq.kind = "flush"
    BY DEF Messages, FlushReq
  <2>3. /\ Len(chan') = Len(chan) + 1 /\ Len(chan) \in Nat
        /\ \A i \in 1..Len(chan) : chan'[i] = chan[i]
    BY <1>0, <2>1, <2>2, AppendProperties, LenProperties
  <2>4. FlushLast'
    <3>1. \A i \in 1..Len(chan) : chan[i].kind # "flush"
      BY <1>1, <2>1 DEF FlushLast
    <3>2. \A i \in 1..Len(chan') : i \in 1..Len(chan) \/ i = Len(chan')
      BY <2>3
    <3>3. \A i \in 1..Len(chan') : chan'[i].kind = "flush" => i = Len(chan')
      BY <2>3, <3>1, <3>2
    <3>4. ~Asked /\ writer # "ack"
      BY <1>1, <2>1 DEF FlushLast, Asked
    <3>5. ~Asked' /\ writer' # "ack"
      BY <1>1, <3>4 DEF Asked
    <3> QED
      BY <1>1, <3>3, <3>5 DEF FlushLast
  <2>5. Flat(chan)' = Flat(chan)
    <3> DEFINE r == FlushReq
    <3>1. r \in Messages /\ r.kind = "flush" /\ FitsIn(mem, r)
      BY <2>2 DEF FitsIn, IsSlab
    <3> HIDE DEF r
    <3>2. FlatIn(mem, Append(chan, r)) = FlatIn(mem, chan) \o ContentIn(mem, r)
      BY <1>0, <3>1, FlatInAppend
    <3>3. ContentIn(mem, r) = <<>>
      BY <1>0, <3>1, ContentInType
    <3>4. FlatIn(mem, chan) \o <<>> = FlatIn(mem, chan)
      BY <1>0, ConcatEmptySeq
    <3> QED
      BY <1>1, <2>1, <3>2, <3>3, <3>4, InMemory DEF r
  <2> QED
    BY <1>1, <1>3, <2>1, <2>4, <2>5 DEF Shipped
<1> QED
  BY <1>1, <1>3, <1>4, OthersOrder

-----------------------------------------------------------------------------
(* The theorems.                                                           *)

\* The order holds when the pool is new.
LEMMA InitOrder == Init => OrderInv
<1> SUFFICES ASSUME Init PROVE OrderInv
  OBVIOUS
<1>0. /\ IInv /\ mem \in Memories /\ chan = <<>> /\ batch = <<>> /\ sent = 0 /\ written = <<>>
      /\ phase = "searching" /\ writer \in {"recv", "absent"}
      /\ \A w \in Workers : /\ pc[w] = "ready" /\ size[w] = 0 /\ records[w] = 0
                            /\ stream[w] = <<>> /\ buf[w] = Slab(<<w, 1>>)
  BY InitInvariant, StateFacts DEF Init
<1>1. \A w \in Workers : Content(buf[w]) = <<>> /\ Buffered[w] = <<>>
  <2>1. \A x : SubSeq(x, 1, 0) = <<>>
    BY SubSeqEmpty
  <2>2. ASSUME NEW w \in Workers PROVE buf[w].kind = "slab" /\ buf[w].len = 0
    <3>1. buf[w] = Slab(<<w, 1>>)
      BY <1>0
    <3> QED
      BY <3>1 DEF Slab
  <2>3. \A w \in Workers : ContentIn(mem, buf[w]) = <<>>
    BY <2>1, <2>2 DEF ContentIn
  <2> QED
    BY <2>3, InMemory
<1>2. BatchCells = <<>> /\ Flat(chan) = <<>> /\ Len(BatchCells) = 0
  <2>1. BatchCells = <<>> /\ Flat(chan) = <<>>
    BY <1>0, InMemory, FlatInSmall
  <2> QED
    BY <2>1, EmptySeq
<1>3. <<>> \in Seq(Cells) /\ Len(<<>>) = 0 /\ ToSet(<<>>) = {} /\ <<>> \o <<>> = <<>>
  BY SmallQueues, EmptySeq, ConcatEmptySeq
<1>4. Shipped = <<>>
  <2>1. SubSeq(<<>>, 1, 0) = <<>>
    BY SubSeqEmpty
  <2>2. Rest = SubSeq(BatchCells, 0 + 1, Len(BatchCells))
    BY <1>0 DEF Rest
  <2>3. Rest = <<>>
    BY <1>2, <2>1, <2>2
  <2> QED
    BY <1>0, <1>2, <1>3, <2>3 DEF Shipped
<1>5. OwnContents /\ SentWithin /\ Pending /\ AllDone
  <2>1. OwnContents
    <3>1. \A w \in Workers : <<>> \in Seq(OwnCells(w))
      BY EmptySeq
    <3> QED
      BY <1>1, <3>1 DEF OwnContents
  <2>2. SentWithin
    BY <1>0, <1>2 DEF SentWithin
  <2> QED
    BY <1>0, <1>1, <2>1, <2>2 DEF Pending, AllDone
<1>6. FlushLast
  <2>1. \A i \in 1..Len(chan) : FALSE
    BY <1>0, <1>3
  <2> QED
    BY <1>0, <2>1 DEF FlushLast, Asked
<1>7. Tidy(Shipped, Buffered, stream, records, size)
  <2>1. Whole(<<>>)
    BY <1>3 DEF Whole
  <2>2. \A w \in Workers : Of(w, <<>>) = <<>>
    <3>1. \A w : [i \in 1..0 |-> IF <<>>[i][1] = w THEN <<<<>>[i]>> ELSE <<>>] = <<>>
      OBVIOUS
    <3> QED
      BY <1>3, <3>1, FlattenSmall DEF Of
  <2>3. \A w \in Workers : Numbered(w, <<>>, records, size)
    BY <1>3 DEF Numbered
  <2> QED
    BY <1>0, <1>1, <1>3, <1>4, <2>1, <2>2, <2>3 DEF Tidy
<1> QED
  BY <1>0, <1>5, <1>6, <1>7 DEF OrderInv

\* Every step keeps the order.
LEMMA StepOrder == OrderInv /\ [Next]_vars => OrderInv'
<1> SUFFICES ASSUME OrderInv, [Next]_vars PROVE OrderInv'
  OBVIOUS
<1>0. IInv'
  BY StepInvariant DEF OrderInv
<1>1. CASE UNCHANGED vars
  <2>1. /\ UNCHANGED <<buf, mem, size, resume, records, stream, pc>>
        /\ UNCHANGED <<chan, batch, sent, failed, written, writer, afterwards, phase>>
    BY <1>1 DEF vars
  <2>2. BatchCells' = BatchCells /\ Flat(chan)' = Flat(chan)
    BY <2>1, InMemory
  <2>3. Pending'
    BY <2>1, WaitKeepsPending DEF OrderInv
  <2>4. SentWithin' /\ AllDone'
    BY <2>1, <2>2 DEF OrderInv, SentWithin, AllDone
  <2>5. Delivering' => Delivering /\ FlushLast' /\ Shipped' = Shipped
    BY <2>1, <2>2 DEF OrderInv, Delivering, FlushLast, Asked, Shipped, Rest
  <2> QED
    BY <1>0, <2>1, <2>3, <2>4, <2>5, OthersOrder
<1>2. CASE Idle
  BY <1>1, <1>2 DEF Idle
<1>3. CASE Fail \/ Die
  BY <1>0, <1>3, FailureOrder
<1>4. CASE Drained \/ Ack \/ WaitGivesUp \/ SearchAgain
  BY <1>0, <1>4, QuietOrder
<1>5. CASE Absorb
  BY <1>0, <1>5, AbsorbOrder
<1>6. CASE WriteSome
  BY <1>0, <1>6, WriteSomeOrder
<1>7. CASE Written
  BY <1>0, <1>7, WrittenOrder
<1>8. CASE WaitFlush
  BY <1>0, <1>8, WaitFlushOrder
<1>9. CASE \E w \in Workers : WorkerStep(w)
  BY <1>0, <1>9, WorkerKeepsOrder
<1> QED
  BY <1>1, <1>2, <1>3, <1>4, <1>5, <1>6, <1>7, <1>8, <1>9 DEF Next, WriterStep, MainStep

\* The inductive invariant: a record that has left its worker's buffer is
\* whole and in its worker's order in all that was shipped (written, batched
\* or in the channel), and the request to flush comes last.
THEOREM OrderInvariance == Spec => []OrderInv
<1>1. Init => OrderInv
  BY InitOrder
<1>2. OrderInv /\ [Next]_vars => OrderInv'
  BY StepOrder
<1> QED
  BY <1>1, <1>2, PTL DEF Spec

\* Until a write fails nothing is lost, repeated or reordered between a worker
\* and stdout (OutputSlotWriter, the channel, OutputWorker::flush_batch).
THEOREM InOrderCorrect == Spec => []InOrder
<1>1. OrderInv => InOrder
  <2> SUFFICES ASSUME OrderInv, Delivering, NEW w \in Workers
               PROVE  stream[w] = Of(w, written \o SubSeq(BatchCells, sent + 1, Len(BatchCells))
                                          \o Flat(chan) \o Content(buf[w]))
    BY DEF InOrder
  <2>1. Shipped \in Seq(Cells) /\ Content(buf[w]) \in Seq(OwnCells(w))
    BY ShippedType DEF OrderInv, SentWithin, OwnContents
  <2>2. stream[w] = Of(w, Shipped) \o Content(buf[w])
    BY DEF OrderInv, Tidy, Buffered
  <2> DEFINE c == Content(buf[w])
  <2>3. c \in Seq(OwnCells(w))
    BY <2>1
  <2> HIDE DEF c
  <2>4. c \in Seq(Cells) /\ Of(w, c) = c
    BY <2>3, OfOwn
  <2>5. Of(w, Shipped \o c) = Of(w, Shipped) \o Of(w, c)
    BY <2>1, <2>4, OfConcat
  <2> QED
    BY <2>2, <2>4, <2>5 DEF c, Shipped, Rest
<1> QED
  BY <1>1, OrderInvariance, PTL

\* No record is torn on stdout: write_record never splits one across two
\* messages, and messages are written one after the other.
THEOREM RecordsWholeCorrect == Spec => []RecordsWhole
<1>1. OrderInv => RecordsWhole
  <2> SUFFICES ASSUME OrderInv, Delivering PROVE Whole(written)
    BY DEF RecordsWhole, Whole
  <2> DEFINE x == written
             y == Rest
             z == Flat(chan)
  <2>1. x \in Seq(Cells) /\ y \in Seq(Cells) /\ z \in Seq(Cells) /\ Shipped = (x \o y) \o z
    BY ShippedType DEF OrderInv, SentWithin, Shipped
  <2>2. Whole(Shipped)
    BY DEF OrderInv, Tidy
  <2> HIDE DEF x, y, z
  <2>3. x \o y \in Seq(Cells)
    BY <2>1, ConcatProperties
  <2>4. Whole(x \o y)
    BY <2>1, <2>2, <2>3, WholeFront
  <2>5. Whole(x)
    BY <2>1, <2>4, WholeFront
  <2> QED
    BY <2>5 DEF x
<1> QED
  BY <1>1, OrderInvariance, PTL

\* When RawGrepCtx::wait returns, stdout has every record of the search: the
\* workers flushed before job_done counted them out, and the request to flush
\* is acknowledged behind all of their messages.
THEOREM FlushedOnReturnCorrect == Spec => []FlushedOnReturn
<1>1. OrderInv => FlushedOnReturn
  <2> SUFFICES ASSUME OrderInv, phase = "returned", Delivering, NEW w \in Workers
               PROVE  Of(w, written) = stream[w]
    BY DEF FlushedOnReturn
  <2>1. chan = <<>> /\ batch = <<>> /\ Content(buf[w]) = <<>>
    BY DEF OrderInv, FlushLast, AllDone, Pending
  <2>2. /\ written \in Seq(Cells) /\ sent \in Nat /\ mem \in Memories
        /\ sent <= Len(BatchCells)
    BY ShippedType, StateFacts DEF OrderInv, SentWithin
  <2>3. BatchCells = <<>> /\ Flat(chan) = <<>>
    BY <2>1, <2>2, InMemory, FlatInSmall
  <2>4. Rest = <<>>
    <3>1. Len(BatchCells) = 0 /\ sent + 1 \in Int /\ 0 < sent + 1
      BY <2>2, <2>3, EmptySeq
    <3> DEFINE m == sent + 1
    <3>2. m \in Int /\ 0 < m /\ Rest = SubSeq(BatchCells, m, 0)
      BY <3>1 DEF Rest
    <3> HIDE DEF m
    <3> QED
      BY <3>2, SubSeqEmpty
  <2>5. Shipped = written
    <3>1. written \o <<>> = written
      BY <2>2, ConcatEmptySeq
    <3> QED
      BY <2>3, <2>4, <3>1 DEF Shipped
  <2>6. stream[w] = Of(w, written) \o <<>>
    BY <2>1, <2>5 DEF OrderInv, Tidy, Buffered
  <2>7. Of(w, written) \o <<>> = Of(w, written)
    BY <2>2, OfType, ConcatEmptySeq
  <2> QED
    BY <2>6, <2>7
<1> QED
  BY <1>1, OrderInvariance, PTL
=============================================================================
