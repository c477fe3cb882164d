------------------------- MODULE WorkStealingProofs -------------------------
(***************************************************************************)
(* Theorems about WorkStealing, for every set of workers and every tree.   *)
(***************************************************************************)
EXTENDS WorkStealing, QueueLemmas, FiniteSetTheorems, TLAPS

\* The steps that touch neither a queue nor a call stack.
Quiet(w) ==
  \/ Leave(w) \/ LocalEmpty(w) \/ InjectorEmpty(w) \/ NothingFound(w)
  \/ (\E v \in Workers : VictimEmpty(w, v))
  \/ SeeQuiescence(w) \/ SpinAgain(w) \/ Declare(w)
  \/ BeginDispatch(w) \/ EndDispatch(w)

\* A quiet step moves no item.
LEMMA QuietSteps ==
  ASSUME NEW w \in Workers, Quiet(w)
  PROVE  UNCHANGED <<injector, local, hand, searched, team, cancelled>>
BY DEF Quiet, Leave, LocalEmpty, InjectorEmpty, NothingFound, VictimEmpty,
       SeeQuiescence, SpinAgain, Declare, BeginDispatch, EndDispatch

-----------------------------------------------------------------------------
(* Type correctness.  active_workers stays a natural number only because   *)
(* it is the number of busy workers, so the two are one induction.         *)

Busy == {w \in Workers : pc[w] = "busy"}

CountedType == TypeOK /\ ActiveCounts

\* The item a thief keeps, the rest of its batch, and what it leaves.
LEMMA BatchParts ==
  ASSUME NEW q \in Seq(Dirs), NEW k \in BatchSizes(q)
  PROVE  /\ k \in 1..Len(q) /\ q # <<>>
         /\ q[1] \in Dirs
         /\ SubSeq(q, 2, k) \in Seq(Dirs)
         /\ SubSeq(q, k + 1, Len(q)) \in Seq(Dirs)
<1>1. Len(q) \in Nat /\ k \in 1..Len(q)
  BY LenProperties, SMT DEF BatchSizes
<1>2. q # <<>> /\ q[1] \in Dirs
  BY <1>1, EmptySeq, ElementOfSeq
<1>3. \A i \in 1..Len(q) : q[i] \in Dirs
  BY ElementOfSeq
<1>4. SubSeq(q, 2, k) \in Seq(Dirs)
  <2>1. \A i \in 2..k : q[i] \in Dirs
    BY <1>1, <1>3
  <2> QED
    BY <1>1, <2>1, SubSeqProperties
<1>5. SubSeq(q, k + 1, Len(q)) \in Seq(Dirs)
  BY <1>1, CutElements
<1> QED
  BY <1>1, <1>2, <1>4, <1>5

\* The part of a directory's list that the recursion keeps is a part of it.
LEMMA KeepLocalRange ==
  ASSUME TypeOK, NEW d \in Dirs
  PROVE  KeepLocal(d) \in 0..Len(Subdirs[d])
<1>1. Len(Subdirs[d]) \in Nat /\ Depth[d] \in Nat
  BY TreeAssumption, LenProperties
<1>2. Cardinality(team) \in Nat
  BY WorkersAssumption, FS_Subset, FS_CardinalityType DEF TypeOK
<1>3. (Cardinality(team) + 1) \div 2 \in Nat /\ Depth[d] \div 2 \in Nat
  BY <1>1, <1>2, SMT
<1> QED
  BY <1>1, <1>3, SMT DEF KeepLocal, AtMost, AtLeast

\* The head and the tail of a directory's subdirectories.
LEMMA SplitSubdirs ==
  ASSUME NEW d \in Dirs, NEW keep \in 0..Len(Subdirs[d])
  PROVE  LET head == SubSeq(Subdirs[d], 1, keep)
             tail == QueuedTail(d, keep)
         IN  /\ head \in Seq(Dirs) /\ tail \in Seq(Dirs)
             /\ IsInjective(head) /\ IsInjective(tail)
             /\ ToSet(head) \intersect ToSet(tail) = {}
             /\ ToSet(head) \union ToSet(tail) = SubdirsOf(d)
<1> DEFINE head == SubSeq(Subdirs[d], 1, keep)
           rest == SubSeq(Subdirs[d], keep + 1, Len(Subdirs[d]))
<1>1. Subdirs[d] \in Seq(Dirs) /\ IsInjective(Subdirs[d])
  BY TreeAssumption
<1>2. /\ head \in Seq(Dirs) /\ rest \in Seq(Dirs)
      /\ ToSet(Subdirs[d]) = ToSet(head) \union ToSet(rest)
      /\ IsInjective(head) /\ IsInjective(rest)
      /\ ToSet(head) \intersect ToSet(rest) = {}
  BY <1>1, CutElements
<1>3. /\ Reverse(rest) \in Seq(Dirs) /\ IsInjective(Reverse(rest))
      /\ ToSet(Reverse(rest)) = ToSet(rest)
  BY <1>2, ReverseElements
<1> HIDE DEF head, rest
<1> QED
  BY <1>2, <1>3 DEF QueuedTail, SubdirsOf, head, rest

\* The types, over a step of a worker.
LEMMA TypeStep ==
  ASSUME CountedType, NEW w \in Workers, WorkerStep(w)
  PROVE  TypeOK'
<1> USE DEF CountedType
<1>1. CASE Leave(w)
  BY <1>1 DEF TypeOK, Leave, Goto, PC
<1>2. CASE PopLocal(w)
  <2>1. local[w] \in Seq(Dirs) /\ local[w] # <<>>
    BY <1>2 DEF PopLocal, TypeOK
  <2>2. Len(local[w]) \in Nat \ {0} /\ Last(local[w]) \in Dirs
    BY <2>1, EmptySeq, ElementOfSeq, SMT DEF Last
  <2>3. Front(local[w]) \in Seq(Dirs)
    <3>1. Len(local[w]) - 1 \in 0..Len(local[w])
      BY <2>2
    <3> QED
      BY <2>1, <3>1, CutElements DEF Front
  <2>4. <<Last(local[w])>> \in Seq(Dirs)
    BY <2>2, SmallQueues
  <2> QED
    BY <1>2, <2>3, <2>4 DEF TypeOK, PopLocal, Goto, PC
<1>3. CASE LocalEmpty(w)
  BY <1>3 DEF TypeOK, LocalEmpty, Goto, PC
<1>4. CASE TakeInjected(w)
  <2>1. PICK k \in BatchSizes(injector) :
          /\ hand' = [hand EXCEPT ![w] = <<injector[1]>>]
          /\ local' = [local EXCEPT ![w] = @ \o SubSeq(injector, 2, k)]
          /\ injector' = SubSeq(injector, k + 1, Len(injector))
    BY <1>4 DEF TakeInjected
  <2>2. /\ SubSeq(injector, 2, k) \in Seq(Dirs)
        /\ SubSeq(injector, k + 1, Len(injector)) \in Seq(Dirs)
        /\ <<injector[1]>> \in Seq(Dirs)
    BY <2>1, BatchParts, SmallQueues DEF TypeOK
  <2>3. local[w] \o SubSeq(injector, 2, k) \in Seq(Dirs)
    BY <2>2, ConcatProperties DEF TypeOK
  <2> QED
    BY <1>4, <2>1, <2>2, <2>3 DEF TypeOK, TakeInjected, Goto, PC
<1>5. CASE InjectorEmpty(w)
  BY <1>5 DEF TypeOK, InjectorEmpty, Goto, PC
<1>6. ASSUME NEW v \in Workers, StealFrom(w, v)
      PROVE  TypeOK'
  <2>1. PICK k \in BatchSizes(local[v]) :
          /\ hand' = [hand EXCEPT ![w] = <<local[v][1]>>]
          /\ local' = [local EXCEPT ![w] = @ \o SubSeq(local[v], 2, k),
                                    ![v] = SubSeq(@, k + 1, Len(@))]
    BY <1>6 DEF StealFrom
  <2>2. local[v] \in Seq(Dirs) /\ local[w] \in Seq(Dirs)
    BY DEF TypeOK
  <2>3. /\ SubSeq(local[v], 2, k) \in Seq(Dirs)
        /\ SubSeq(local[v], k + 1, Len(local[v])) \in Seq(Dirs)
        /\ <<local[v][1]>> \in Seq(Dirs)
    BY <2>1, <2>2, BatchParts, SmallQueues
  <2>4. local[w] \o SubSeq(local[v], 2, k) \in Seq(Dirs)
    BY <2>2, <2>3, ConcatProperties
  <2>5. v # w
    BY <1>6 DEF StealFrom, TypeOK
  <2>6. local' \in [Workers -> Seq(Dirs)]
    BY <2>1, <2>3, <2>4, <2>5 DEF TypeOK
  <2> QED
    BY <1>6, <2>1, <2>3, <2>6 DEF TypeOK, StealFrom, Goto, PC
<1>7. ASSUME NEW v \in Workers, VictimEmpty(w, v)
      PROVE  TypeOK'
  BY <1>7 DEF TypeOK, VictimEmpty
<1>8. CASE NothingFound(w)
  BY <1>8 DEF TypeOK, NothingFound, Goto, PC
<1>9. CASE SeeQuiescence(w)
  BY <1>9 DEF TypeOK, SeeQuiescence, Goto, PC
<1>10. CASE SpinAgain(w)
  BY <1>10 DEF TypeOK, SpinAgain, Goto, PC
<1>11. CASE Declare(w)
  BY <1>11 DEF TypeOK, Declare, Goto, PC
<1>12. CASE BeginDispatch(w)
  BY <1>12 DEF TypeOK, BeginDispatch, Goto, PC
<1>13. CASE SearchDir(w)
  <2> DEFINE d == Head(hand[w])
  <2>1. hand[w] \in Seq(Dirs) /\ hand[w] # <<>>
    BY <1>13 DEF TypeOK, SearchDir
  <2>2. d \in Dirs /\ Tail(hand[w]) \in Seq(Dirs)
    BY <2>1, HeadTailProperties
  <2> HIDE DEF d
  <2>3. /\ SubSeq(Subdirs[d], 1, KeepLocal(d)) \in Seq(Dirs)
        /\ QueuedTail(d, KeepLocal(d)) \in Seq(Dirs)
    BY <2>2, KeepLocalRange, SplitSubdirs
  <2>4. /\ local[w] \o QueuedTail(d, KeepLocal(d)) \in Seq(Dirs)
        /\ SubSeq(Subdirs[d], 1, KeepLocal(d)) \o Tail(hand[w]) \in Seq(Dirs)
    BY <2>2, <2>3, ConcatProperties DEF TypeOK
  <2>5. /\ searched' = searched \union {d}
        /\ local' = [local EXCEPT ![w] = @ \o QueuedTail(d, KeepLocal(d))]
        /\ hand' = [hand EXCEPT ![w] = SubSeq(Subdirs[d], 1, KeepLocal(d)) \o Tail(@)]
        /\ UNCHANGED <<team, running, cancelled, active, injector, pc, victims>>
    BY <1>13 DEF SearchDir, d
  <2> QED
    BY <2>2, <2>4, <2>5 DEF TypeOK
<1>14. CASE EndDispatch(w)
  <2>1. w \in Busy
    BY <1>14 DEF EndDispatch, Busy
  <2>2. IsFiniteSet(Busy)
    BY WorkersAssumption, FS_Subset DEF Busy
  <2>3. Cardinality(Busy) \in Nat /\ Cardinality(Busy) # 0
    BY <2>1, <2>2, FS_CardinalityType, FS_EmptySet
  <2>4. active - 1 \in Nat
    BY <2>3, SMT DEF ActiveCounts, Busy
  <2> QED
    BY <1>14, <2>4 DEF TypeOK, EndDispatch, Goto, PC
<1> QED
  BY <1>1, <1>2, <1>3, <1>4, <1>5, <1>6, <1>7, <1>8, <1>9, <1>10, <1>11,
     <1>12, <1>13, <1>14 DEF WorkerStep

\* active_workers goes up and down with the dispatches.
LEMMA CountStep ==
  ASSUME CountedType, NEW w \in Workers, WorkerStep(w)
  PROVE  ActiveCounts'
<1> USE DEF CountedType
<1>1. IsFiniteSet(Busy) /\ active = Cardinality(Busy)
  BY WorkersAssumption, FS_Subset DEF Busy, ActiveCounts
<1>2. CASE BeginDispatch(w)
  <2>1. Busy' = Busy \union {w} /\ w \notin Busy
    BY <1>2 DEF BeginDispatch, Goto, Busy, TypeOK
  <2> QED
    BY <1>1, <1>2, <2>1, FS_AddElement DEF BeginDispatch, ActiveCounts, Busy
<1>3. CASE EndDispatch(w)
  <2>1. Busy' = Busy \ {w} /\ w \in Busy
    BY <1>3 DEF EndDispatch, Goto, Busy, TypeOK
  <2> QED
    BY <1>1, <1>3, <2>1, FS_RemoveElement DEF EndDispatch, ActiveCounts, Busy
<1>4. ASSUME ~BeginDispatch(w), ~EndDispatch(w)
      PROVE  Busy' = Busy /\ active' = active
  BY <1>4 DEF WorkerStep, Leave, PopLocal, LocalEmpty, TakeInjected,
     InjectorEmpty, StealFrom, VictimEmpty, NothingFound, SeeQuiescence,
     SpinAgain, Declare, SearchDir, Goto, Busy, TypeOK
<1> QED
  BY <1>1, <1>2, <1>3, <1>4 DEF ActiveCounts, Busy

\* Types and counter at the start.
LEMMA CountedTypeInit == Init => CountedType
<1> SUFFICES ASSUME Init PROVE CountedType
  OBVIOUS
<1>1. TypeOK
  BY TreeAssumption, SmallQueues DEF Init, TypeOK, PC
<1>2. {w \in Workers : pc[w] = "busy"} = {}
  BY DEF Init
<1> QED
  BY <1>1, <1>2, FS_EmptySet DEF CountedType, ActiveCounts, Init

\* Types and counter, over any step.
LEMMA CountedTypeNext == CountedType /\ [Next]_vars => CountedType'
<1> SUFFICES ASSUME CountedType, [Next]_vars PROVE CountedType'
  OBVIOUS
<1>1. ASSUME NEW w \in Workers, WorkerStep(w) PROVE CountedType'
  BY <1>1, TypeStep, CountStep DEF CountedType
<1>2. CASE Cancel
  BY <1>2 DEF Cancel, CountedType, TypeOK, ActiveCounts
<1>3. CASE UNCHANGED vars
  BY <1>3 DEF vars, CountedType, TypeOK, ActiveCounts
<1> QED
  BY <1>1, <1>2, <1>3 DEF Next, Finished

\* The variables keep their types in every pool on every tree, and
\* active_workers is the number of workers inside a dispatch: fetch_sub never
\* wraps below zero.
THEOREM CountedTypeCorrect == Spec => [](TypeOK /\ ActiveCounts)
<1>1. Init => CountedType
  BY CountedTypeInit
<1>2. CountedType /\ [Next]_vars => CountedType'
  BY CountedTypeNext
<1> QED
  BY <1>1, <1>2, PTL DEF Spec, CountedType

\* The queues, call stacks and flags keep their types in every pool.
THEOREM TypeCorrect == Spec => []TypeOK
BY CountedTypeCorrect, PTL

-----------------------------------------------------------------------------
(* Where a directory is.  A popped item replaces the worker's call stack,   *)
(* so nothing is lost only because that stack is empty by then; and the     *)
(* subdirectories a read adds are new only because a directory is found     *)
(* after its parent is searched, and is searched once.                      *)

HandsEmpty ==
  \A w \in Workers : pc[w] \notin {"got", "busy"} => hand[w] = <<>>

Located == Queued \union Held \union searched

ParentsFirst ==
  \A d \in Dirs : SubdirsOf(d) \intersect Located # {} => d \in searched

Placement == HandsEmpty /\ PlacedOnce /\ ParentsFirst

\* The three ways a worker takes an item say the same thing of a directory: it
\* leaves the queues for the worker's hands, the others stay queued.
Moved(d, w) ==
  /\ d \in Queued
  /\ hand[w] = <<>>
  /\ hand' = [hand EXCEPT ![w] = <<d>>]
  /\ Queued' = Queued \ {d}
  /\ searched' = searched

\* PlacedOnce, said of the queues alone.
QueuesOnce ==
  /\ IsInjective(injector)
  /\ \A w \in Workers : /\ IsInjective(local[w])
                         /\ ToSet(injector) \intersect ToSet(local[w]) = {}
  /\ \A v, w \in Workers : v # w => ToSet(local[v]) \intersect ToSet(local[w]) = {}

\* The three ways to take an item have one conclusion.
LEMMA TakingStep ==
  ASSUME CountedType, HandsEmpty, QueuesOnce, NEW w \in Workers,
         PopLocal(w) \/ TakeInjected(w) \/ \E v \in Workers : StealFrom(w, v)
  PROVE  /\ QueuesOnce'
         /\ \E d \in Dirs : Moved(d, w)
<1>0. /\ injector \in Seq(Dirs) /\ hand \in [Workers -> Seq(Dirs)]
      /\ local \in [Workers -> Seq(Dirs)]
  BY DEF CountedType, TypeOK
<1>1. CASE PopLocal(w)
  <2> DEFINE d == Last(local[w])
             rest == Front(local[w])
  <2>1. /\ d \in Dirs /\ rest \in Seq(Dirs)
        /\ ToSet(local[w]) = ToSet(rest) \union {d}
        /\ IsInjective(rest) /\ d \notin ToSet(rest)
    BY <1>0, <1>1, PopLast DEF PopLocal, QueuesOnce
  <2>2. /\ hand[w] = <<>> /\ hand' = [hand EXCEPT ![w] = <<d>>]
        /\ local' = [local EXCEPT ![w] = rest]
        /\ injector' = injector /\ searched' = searched
    BY <1>1 DEF PopLocal, HandsEmpty
  <2> HIDE DEF d, rest
  <2>3. \A v \in Workers : local'[v] = IF v = w THEN rest ELSE local[v]
    BY <1>0, <2>2
  <2>4. QueuesOnce'
    BY <2>1, <2>2, <2>3, ZenonT(60) DEF QueuesOnce
  <2>5. Queued' = Queued \ {d} /\ d \in Queued
    <3>1. d \in Queued
      BY <2>1, Zenon DEF Queued
    <3>2. ASSUME NEW x \in Queued' PROVE x \in Queued /\ x # d
      BY <2>1, <2>2, <2>3, <3>2, SMT DEF QueuesOnce, Queued
    <3>3. ASSUME NEW x \in Queued, x # d PROVE x \in Queued'
      BY <2>1, <2>2, <2>3, <3>3, SMT DEF Queued
    <3> QED
      BY <3>1, <3>2, <3>3, Zenon
  <2> QED
    BY <2>1, <2>2, <2>4, <2>5 DEF Moved
<1>2. CASE TakeInjected(w)
  <2>1. PICK k \in BatchSizes(injector) :
          /\ hand' = [hand EXCEPT ![w] = <<injector[1]>>]
          /\ local' = [local EXCEPT ![w] = @ \o SubSeq(injector, 2, k)]
          /\ injector' = SubSeq(injector, k + 1, Len(injector))
    BY <1>2 DEF TakeInjected
  <2> DEFINE d == injector[1]
             batch == SubSeq(injector, 2, k)
             left == SubSeq(injector, k + 1, Len(injector))
             mine == local[w] \o batch
  <2>2. k \in 1..Len(injector)
    BY <1>0, <2>1, BatchParts
  <2>3. /\ d \in Dirs /\ batch \in Seq(Dirs) /\ left \in Seq(Dirs)
        /\ ToSet(injector) = {d} \union ToSet(batch) \union ToSet(left)
        /\ IsInjective(batch) /\ IsInjective(left)
        /\ d \notin ToSet(batch) \union ToSet(left)
        /\ ToSet(batch) \intersect ToSet(left) = {}
    BY <1>0, <2>2, TakeBatch DEF QueuesOnce
  <2>4. /\ ToSet(mine) = ToSet(local[w]) \union ToSet(batch)
        /\ IsInjective(mine)
    <3>1. ToSet(local[w]) \intersect ToSet(batch) = {}
      BY <2>3 DEF QueuesOnce
    <3>2. local[w] \in Seq(Dirs) /\ IsInjective(local[w])
      BY <1>0 DEF QueuesOnce
    <3> HIDE DEF batch, left, d
    <3> QED
      BY <2>3, <3>1, <3>2, ConcatElements
  <2>5. /\ hand[w] = <<>> /\ hand' = [hand EXCEPT ![w] = <<d>>]
        /\ injector' = left /\ searched' = searched
        /\ \A v \in Workers : local'[v] = IF v = w THEN mine ELSE local[v]
    BY <1>0, <1>2, <2>1 DEF TakeInjected, HandsEmpty
  <2> HIDE DEF d, batch, left, mine
  <2>6. QueuesOnce'
    BY <2>3, <2>4, <2>5, ZenonT(60) DEF QueuesOnce
  <2>7. Queued' = Queued \ {d} /\ d \in Queued
    <3>1. d \in Queued
      BY <2>3, Zenon DEF Queued
    <3>2. ASSUME NEW x \in Queued' PROVE x \in Queued /\ x # d
      BY <2>3, <2>4, <2>5, <3>2, SMT DEF QueuesOnce, Queued
    <3>3. ASSUME NEW x \in Queued, x # d PROVE x \in Queued'
      BY <2>3, <2>4, <2>5, <3>3, SMT DEF Queued
    <3> QED
      BY <3>1, <3>2, <3>3, Zenon
  <2> QED
    BY <2>3, <2>5, <2>6, <2>7 DEF Moved
<1>3. ASSUME NEW v \in Workers, StealFrom(w, v)
      PROVE  QueuesOnce' /\ \E d \in Dirs : Moved(d, w)
  <2>1. PICK k \in BatchSizes(local[v]) :
          /\ hand' = [hand EXCEPT ![w] = <<local[v][1]>>]
          /\ local' = [local EXCEPT ![w] = @ \o SubSeq(local[v], 2, k),
                                    ![v] = SubSeq(@, k + 1, Len(@))]
    BY <1>3 DEF StealFrom
  <2> DEFINE d == local[v][1]
             batch == SubSeq(local[v], 2, k)
             left == SubSeq(local[v], k + 1, Len(local[v]))
             mine == local[w] \o batch
  <2>2. k \in 1..Len(local[v]) /\ v # w
    BY <1>0, <1>3, <2>1, BatchParts DEF StealFrom, CountedType, TypeOK
  <2>3. /\ d \in Dirs /\ batch \in Seq(Dirs) /\ left \in Seq(Dirs)
        /\ ToSet(local[v]) = {d} \union ToSet(batch) \union ToSet(left)
        /\ IsInjective(batch) /\ IsInjective(left)
        /\ d \notin ToSet(batch) \union ToSet(left)
        /\ ToSet(batch) \intersect ToSet(left) = {}
    BY <1>0, <2>2, TakeBatch DEF QueuesOnce
  <2>4. /\ ToSet(mine) = ToSet(local[w]) \union ToSet(batch)
        /\ IsInjective(mine)
    <3>1. ToSet(local[w]) \intersect ToSet(batch) = {}
      BY <2>2, <2>3 DEF QueuesOnce
    <3>2. local[w] \in Seq(Dirs) /\ IsInjective(local[w])
      BY <1>0 DEF QueuesOnce
    <3> HIDE DEF batch, left, d
    <3> QED
      BY <2>3, <3>1, <3>2, ConcatElements
  <2>5. /\ hand[w] = <<>> /\ hand' = [hand EXCEPT ![w] = <<d>>]
        /\ injector' = injector /\ searched' = searched
        /\ \A u \in Workers : local'[u] = IF u = w THEN mine
                                           ELSE IF u = v THEN left ELSE local[u]
    BY <1>0, <1>3, <2>1, <2>2 DEF StealFrom, HandsEmpty
  <2> HIDE DEF d, batch, left, mine
  <2>6. QueuesOnce'
    BY <2>2, <2>3, <2>4, <2>5, ZenonT(60) DEF QueuesOnce
  <2>7. Queued' = Queued \ {d} /\ d \in Queued
    <3>1. d \in Queued
      BY <2>3, Zenon DEF Queued
    <3>2. ASSUME NEW x \in Queued' PROVE x \in Queued /\ x # d
      <4>1. CASE x \in ToSet(injector')
        BY <2>3, <2>5, <4>1 DEF QueuesOnce, Queued
      <4>2. ASSUME NEW u \in Workers, x \in ToSet(local'[u])
            PROVE  x \in Queued /\ x # d
        <5>1. x \in ToSet(local[u]) \/ x \in ToSet(local[v])
          BY <2>2, <2>3, <2>4, <2>5, <4>2, SMT
        <5>2. x # d
          <6>1. d \in ToSet(local[v])
            BY <2>3
          <6>2. \A t \in Workers \ {v} : d \notin ToSet(local[t])
            BY <6>1 DEF QueuesOnce
          <6> QED
            BY <2>2, <2>3, <2>4, <2>5, <4>2, <6>2, SMT
        <5> QED
          BY <5>1, <5>2 DEF Queued
      <4> QED
        BY <3>2, <4>1, <4>2 DEF Queued
    <3>3. ASSUME NEW x \in Queued, x # d PROVE x \in Queued'
      BY <2>2, <2>3, <2>4, <2>5, <3>3, SMT DEF Queued
    <3> QED
      BY <3>1, <3>2, <3>3, Zenon
  <2> QED
    BY <2>3, <2>5, <2>6, <2>7 DEF Moved
<1> QED
  BY <1>1, <1>2, <1>3

\* PlacedOnce, said of the call stacks alone.
HandsOnce ==
  /\ \A w \in Workers : IsInjective(hand[w])
  /\ \A v, w \in Workers : v # w => ToSet(hand[v]) \intersect ToSet(hand[w]) = {}

\* PlacedOnce, taken apart: queues, hands, and the searched directories.
LEMMA PlacedOnceParts ==
  PlacedOnce <=> /\ QueuesOnce /\ HandsOnce
                 /\ Queued \intersect Held = {}
                 /\ (Queued \union Held) \intersect searched = {}
BY DEF PlacedOnce, QueuesOnce, HandsOnce

\* What a directory that leaves the queues for a hand does to both.
LEMMA MovedStep ==
  ASSUME CountedType, Placement, NEW w \in Workers, NEW d \in Dirs, Moved(d, w)
  PROVE  /\ HandsOnce' /\ Held' = Held \union {d} /\ d \in Queued
         /\ Queued' = Queued \ {d}
         /\ searched' = searched
<1>1. /\ hand \in [Workers -> Seq(Dirs)] /\ hand[w] = <<>>
      /\ hand' = [hand EXCEPT ![w] = <<d>>]
      /\ d \in Queued /\ Queued \intersect Held = {} /\ HandsOnce
  BY PlacedOnceParts DEF CountedType, TypeOK, Moved, Placement
<1>2. \A v \in Workers : hand'[v] = IF v = w THEN <<d>> ELSE hand[v]
  BY <1>1
<1>3. /\ ToSet(<<d>>) = {d} /\ IsInjective(<<d>>)
      /\ ToSet(hand[w]) = {}
  BY <1>1, SmallQueues
<1>4. \A v \in Workers : d \notin ToSet(hand[v])
  BY <1>1 DEF Held
<1>5. HandsOnce'
  BY <1>1, <1>2, <1>3, <1>4, SMT DEF HandsOnce
<1>6. Held' = Held \union {d}
  <2>1. ASSUME NEW x \in Held' PROVE x \in Held \/ x = d
    BY <1>2, <1>3, <2>1 DEF Held
  <2>2. ASSUME NEW x \in Held PROVE x \in Held'
    BY <1>2, <1>3, <2>2 DEF Held
  <2>3. d \in Held'
    BY <1>2, <1>3 DEF Held
  <2> QED
    BY <2>1, <2>2, <2>3, Zenon
<1> QED
  BY <1>5, <1>6 DEF Moved

\* What a search of a directory adds was nowhere before.
LEMMA SearchingStep ==
  ASSUME CountedType, Placement, NEW w \in Workers, SearchDir(w)
  PROVE  \E d \in Dirs :
           /\ d \in Held
           /\ SubdirsOf(d) \intersect Located = {}
           /\ QueuesOnce' /\ HandsOnce'
           /\ Queued' \intersect Held' = {}
           /\ Queued' \union Held' =
                ((Queued \union Held) \ {d}) \union SubdirsOf(d)
           /\ searched' = searched \union {d}
<1>1. /\ hand \in [Workers -> Seq(Dirs)] /\ local \in [Workers -> Seq(Dirs)]
      /\ TypeOK /\ hand[w] # <<>> /\ QueuesOnce /\ HandsOnce
      /\ Queued \intersect Held = {} /\ (Queued \union Held) \intersect searched = {}
  BY PlacedOnceParts DEF CountedType, TypeOK, SearchDir, Placement
<1> DEFINE d == Head(hand[w])
           others == Tail(hand[w])
           head == SubSeq(Subdirs[d], 1, KeepLocal(d))
           tail == QueuedTail(d, KeepLocal(d))
           mine == local[w] \o tail
           stack == head \o others
<1>2. /\ d \in Dirs /\ others \in Seq(Dirs) /\ IsInjective(others)
      /\ ToSet(hand[w]) = ToSet(others) \union {d} /\ d \notin ToSet(others)
  BY <1>1, PopHead DEF HandsOnce
<1>3. /\ searched' = searched \union {d} /\ injector' = injector
      /\ local' = [local EXCEPT ![w] = mine]
      /\ hand' = [hand EXCEPT ![w] = stack]
  BY DEF SearchDir
<1> HIDE DEF d, others
<1>4. /\ head \in Seq(Dirs) /\ tail \in Seq(Dirs)
      /\ IsInjective(head) /\ IsInjective(tail)
      /\ ToSet(head) \intersect ToSet(tail) = {}
      /\ ToSet(head) \union ToSet(tail) = SubdirsOf(d)
  BY <1>1, <1>2, KeepLocalRange, SplitSubdirs
<1> HIDE DEF head, tail
<1>5. d \in Held /\ d \notin searched
  BY <1>1, <1>2 DEF Held
<1>6. SubdirsOf(d) \intersect Located = {}
  BY <1>2, <1>5 DEF Placement, ParentsFirst
<1>7. \A x \in SubdirsOf(d) :
         /\ x \notin ToSet(injector)
         /\ \A v \in Workers : x \notin ToSet(local[v]) /\ x \notin ToSet(hand[v])
  BY <1>6 DEF Located, Queued, Held
<1>8. ToSet(mine) = ToSet(local[w]) \union ToSet(tail) /\ IsInjective(mine)
  <2>1. ToSet(local[w]) \intersect ToSet(tail) = {} /\ local[w] \in Seq(Dirs)
        /\ IsInjective(local[w])
    BY <1>1, <1>4, <1>7 DEF QueuesOnce
  <2> QED
    BY <1>4, <2>1, ConcatElements
<1>9. ToSet(stack) = ToSet(head) \union ToSet(others) /\ IsInjective(stack)
  <2>1. ToSet(head) \intersect ToSet(others) = {}
    BY <1>2, <1>4, <1>7
  <2> QED
    BY <1>2, <1>4, <2>1, ConcatElements
<1> HIDE DEF mine, stack
<1>10. /\ \A v \in Workers : local'[v] = IF v = w THEN mine ELSE local[v]
       /\ \A v \in Workers : hand'[v] = IF v = w THEN stack ELSE hand[v]
  BY <1>1, <1>3
<1>11. QueuesOnce'
  <2>1. \A v \in Workers : ToSet(local[v]) \intersect ToSet(tail) = {}
    BY <1>4, <1>7
  <2>2. ToSet(injector) \intersect ToSet(tail) = {}
    BY <1>4, <1>7
  <2> QED
    BY <1>1, <1>3, <1>8, <1>10, <2>1, <2>2, ZenonT(60) DEF QueuesOnce
<1>12. HandsOnce'
  <2>1. \A v \in Workers : ToSet(hand[v]) \intersect ToSet(head) = {}
    BY <1>4, <1>7
  <2>2. ToSet(others) \subseteq ToSet(hand[w])
    BY <1>2
  <2> QED
    BY <1>1, <1>9, <1>10, <2>1, <2>2, Zenon DEF HandsOnce
<1>13. Queued' = Queued \union ToSet(tail)
  BY <1>3, <1>8, <1>10, SMT DEF Queued
<1>14. Held' = (Held \ {d}) \union ToSet(head)
  <2>1. \A v \in Workers : v # w => d \notin ToSet(hand[v])
    BY <1>1, <1>2 DEF HandsOnce
  <2>2. ASSUME NEW x \in Held' PROVE x \in ToSet(head) \/ (x \in Held /\ x # d)
    BY <1>2, <1>9, <1>10, <2>1, <2>2, SMT DEF Held
  <2>3. ASSUME NEW x \in Held, x # d PROVE x \in Held'
    BY <1>2, <1>9, <1>10, <2>3, SMT DEF Held
  <2>4. ToSet(head) \subseteq Held'
    BY <1>9, <1>10, SMT DEF Held
  <2>5. d \notin ToSet(head)
    BY <1>4, <1>5, <1>6 DEF Located
  <2> QED
    BY <2>2, <2>3, <2>4, <2>5, Zenon
<1>15. Queued' \intersect Held' = {}
  BY <1>1, <1>4, <1>6, <1>13, <1>14 DEF Located
<1>16. Queued' \union Held' = ((Queued \union Held) \ {d}) \union SubdirsOf(d)
  BY <1>1, <1>4, <1>5, <1>13, <1>14
<1> QED
  BY <1>2, <1>3, <1>5, <1>6, <1>11, <1>12, <1>15, <1>16

\* A worker's step takes an item, searches a directory, or moves none.
LEMMA StepKinds ==
  ASSUME NEW w \in Workers, WorkerStep(w)
  PROVE  \/ PopLocal(w) \/ TakeInjected(w) \/ \E v \in Workers : StealFrom(w, v)
         \/ SearchDir(w)
         \/ Quiet(w)
BY DEF WorkerStep, Quiet

\* What any step of the pool does to the places of the directories.
LEMMA PlaceStep ==
  ASSUME CountedType, Placement, [Next]_vars
  PROVE  \/ /\ QueuesOnce' /\ HandsOnce' /\ Queued' \intersect Held' = {}
            /\ Queued' \union Held' = Queued \union Held
            /\ searched' = searched
         \/ \E d \in Dirs :
              /\ d \in Held
              /\ SubdirsOf(d) \intersect Located = {}
              /\ QueuesOnce' /\ HandsOnce' /\ Queued' \intersect Held' = {}
              /\ Queued' \union Held' =
                   ((Queued \union Held) \ {d}) \union SubdirsOf(d)
              /\ searched' = searched \union {d}
<1> DEFINE Still == /\ QueuesOnce' /\ HandsOnce' /\ Queued' \intersect Held' = {}
                    /\ Queued' \union Held' = Queued \union Held
                    /\ searched' = searched
<1>0. QueuesOnce /\ HandsOnce /\ Queued \intersect Held = {} /\ HandsEmpty
  BY PlacedOnceParts DEF Placement
<1>1. ASSUME UNCHANGED <<injector, local, hand, searched>> PROVE Still
  <2>1. QueuesOnce' /\ HandsOnce'
    BY <1>0, <1>1 DEF QueuesOnce, HandsOnce
  <2>2. Queued' = Queued /\ Held' = Held
    BY <1>1 DEF Queued, Held
  <2> QED
    BY <1>0, <1>1, <2>1, <2>2
<1>2. ASSUME NEW w \in Workers,
             PopLocal(w) \/ TakeInjected(w) \/ \E v \in Workers : StealFrom(w, v)
      PROVE  Still
  <2>1. PICK d \in Dirs : Moved(d, w)
    BY <1>0, <1>2, TakingStep
  <2>2. QueuesOnce'
    BY <1>0, <1>2, TakingStep
  <2>3. /\ HandsOnce' /\ Held' = Held \union {d} /\ d \in Queued
        /\ Queued' = Queued \ {d} /\ searched' = searched
    BY <2>1, MovedStep
  <2> QED
    BY <1>0, <2>2, <2>3
<1>3. ASSUME NEW w \in Workers, Quiet(w) PROVE Still
  BY <1>1, <1>3, QuietSteps
<1>4. CASE Cancel
  BY <1>1, <1>4 DEF Cancel
<1>5. CASE UNCHANGED vars
  BY <1>1, <1>5 DEF vars
<1> QED
  BY <1>2, <1>3, <1>4, <1>5, StepKinds, SearchingStep DEF Next, Finished

\* Only a thread that has an item has anything in its hands.
LEMMA HandsEmptyStep ==
  ASSUME CountedType, HandsEmpty, [Next]_vars
  PROVE  HandsEmpty'
<1> USE DEF HandsEmpty, CountedType, TypeOK
<1>1. ASSUME NEW w \in Workers, WorkerStep(w) PROVE HandsEmpty'
  BY <1>1 DEF WorkerStep, Leave, PopLocal, LocalEmpty, TakeInjected,
     InjectorEmpty, StealFrom, VictimEmpty, NothingFound, SeeQuiescence,
     SpinAgain, Declare, BeginDispatch, SearchDir, EndDispatch, Goto, PC
<1>2. CASE Cancel
  BY <1>2 DEF Cancel
<1>3. CASE UNCHANGED vars
  BY <1>3 DEF vars
<1> QED
  BY <1>1, <1>2, <1>3 DEF Next, Finished

\* The root alone is queued at the start.
LEMMA PlacementInit == Init => Placement
<1> SUFFICES ASSUME Init PROVE Placement
  OBVIOUS
<1>1. /\ injector = <<Root>> /\ searched = {}
      /\ \A w \in Workers : local[w] = <<>> /\ hand[w] = <<>>
  BY DEF Init
<1>2. /\ ToSet(<<>>) = {} /\ IsInjective(<<>>)
      /\ ToSet(<<Root>>) = {Root} /\ IsInjective(<<Root>>)
  BY TreeAssumption, SmallQueues
<1>3. Queued = {Root} /\ Held = {}
  BY <1>1, <1>2 DEF Queued, Held
<1>4. PlacedOnce
  BY <1>1, <1>2, <1>3 DEF PlacedOnce
<1>5. ParentsFirst
  BY <1>1, <1>3, TreeAssumption DEF ParentsFirst, Located
<1> QED
  BY <1>1, <1>4, <1>5 DEF Placement, HandsEmpty

\* Every step keeps the placement.
LEMMA PlacementNext == CountedType /\ Placement /\ [Next]_vars => Placement'
<1> SUFFICES ASSUME CountedType, Placement, [Next]_vars PROVE Placement'
  OBVIOUS
<1>0. HandsEmpty' /\ ParentsFirst /\ (Queued \union Held) \intersect searched = {}
  BY HandsEmptyStep, PlacedOnceParts DEF Placement
<1>1. CASE /\ QueuesOnce' /\ HandsOnce' /\ Queued' \intersect Held' = {}
           /\ Queued' \union Held' = Queued \union Held
           /\ searched' = searched
  <2>1. PlacedOnce'
    BY <1>0, <1>1, PlacedOnceParts, Zenon DEF PlacedOnce, QueuesOnce, HandsOnce
  <2>2. Located' = Located
    BY <1>1 DEF Located
  <2>3. ParentsFirst'
    BY <1>0, <1>1, <2>2 DEF ParentsFirst
  <2> QED
    BY <1>0, <2>1, <2>3 DEF Placement
<1>2. ASSUME NEW d \in Dirs,
             d \in Held, SubdirsOf(d) \intersect Located = {},
             QueuesOnce', HandsOnce', Queued' \intersect Held' = {},
             Queued' \union Held' =
               ((Queued \union Held) \ {d}) \union SubdirsOf(d),
             searched' = searched \union {d}
      PROVE  Placement'
  <2>1. (Queued' \union Held') \intersect searched' = {}
    <3>1. d \notin SubdirsOf(d) /\ SubdirsOf(d) \intersect searched = {}
      BY <1>2 DEF Located
    <3> QED
      BY <1>0, <1>2, <3>1
  <2>2. PlacedOnce'
    BY <1>2, <2>1, Zenon DEF PlacedOnce, QueuesOnce, HandsOnce
  <2>3. Located' = Located \union SubdirsOf(d)
    BY <1>2 DEF Located
  <2>4. \A e \in Dirs : e # d => SubdirsOf(e) \intersect SubdirsOf(d) = {}
    BY TreeAssumption
  <2>5. ParentsFirst'
    BY <1>0, <1>2, <2>3, <2>4 DEF ParentsFirst
  <2> QED
    BY <1>0, <2>2, <2>5 DEF Placement
<1> QED
  BY <1>1, <1>2, PlaceStep

\* No interleaving of pops, batch steals and pushes puts a directory in two
\* places or brings back one that was searched, whatever the tree and the pool:
\* every directory is searched at most once.
THEOREM PlacedOnceCorrect == Spec => []PlacedOnce
<1>1. Init => CountedType /\ Placement
  BY CountedTypeInit, PlacementInit
<1>2. (CountedType /\ Placement) /\ [Next]_vars => (CountedType /\ Placement)'
  BY CountedTypeNext, PlacementNext
<1>3. CountedType /\ Placement => PlacedOnce
  BY DEF Placement
<1> QED
  BY <1>1, <1>2, <1>3, PTL DEF Spec

\* The pool implements the abstract walk: a step either leaves the known and
\* the searched directories alone or searches one known directory and makes
\* its subdirectories known.
THEOREM WalkImplemented == Spec => ImplementsWalk
<1>1. Init => CountedType /\ Placement
  BY CountedTypeInit, PlacementInit
<1>2. (CountedType /\ Placement) /\ [Next]_vars => (CountedType /\ Placement)'
  BY CountedTypeNext, PlacementNext
<1>3. Init => Walk!WalkInit
  <2> SUFFICES ASSUME Init PROVE Queued = {Root} /\ Held = {} /\ searched = {}
    BY DEF Walk!WalkInit
  <2>2. /\ injector = <<Root>> /\ searched = {}
        /\ \A w \in Workers : local[w] = <<>> /\ hand[w] = <<>>
    BY DEF Init
  <2>3. ToSet(<<>>) = {} /\ ToSet(<<Root>>) = {Root}
    BY TreeAssumption, SmallQueues
  <2> QED
    BY <2>2, <2>3 DEF Queued, Held
<1>4. CountedType /\ Placement /\ [Next]_vars => [Walk!WalkNext]_(Walk!walkVars)
  <2> SUFFICES ASSUME CountedType, Placement, [Next]_vars
               PROVE  [Walk!WalkNext]_(Walk!walkVars)
    OBVIOUS
  <2>1. CASE /\ Queued' \union Held' = Queued \union Held
             /\ searched' = searched
    BY <2>1 DEF Walk!walkVars
  <2>2. ASSUME NEW d \in Dirs, d \in Held,
               Queued' \union Held' =
                 ((Queued \union Held) \ {d}) \union SubdirsOf(d),
               searched' = searched \union {d}
        PROVE  Walk!WalkNext
    <3>1. Walk!SubdirSet(d) = SubdirsOf(d)
      BY DEF Walk!SubdirSet, Walk!ToSet, SubdirsOf, ToSet
    <3>2. Walk!WalkSearch(d)
      BY <2>2, <3>1 DEF Walk!WalkSearch
    <3> QED
      BY <3>2 DEF Walk!WalkNext
  <2> QED
    BY <2>1, <2>2, PlaceStep
<1> QED
  BY <1>1, <1>2, <1>3, <1>4, PTL DEF Spec, ImplementsWalk, Walk!WalkSpec

-----------------------------------------------------------------------------
(* How a search ends.  The injector holds the root and then nothing; the   *)
(* root stays in sight until it is searched; and what is found below a     *)
(* searched directory is somewhere.  A pool of one declares quiescence only *)
(* with its own deque empty, which is then the last place left.            *)

Ending ==
  /\ \A w \in Workers \ team : pc[w] = "done" /\ local[w] = <<>>
  /\ \A w \in Workers : pc[w] = "declare" => injector = <<>>
  /\ cancelled \/ running \/ injector = <<>>
  /\ \A w \in team : pc[w] = "done" => cancelled \/ ~running
  /\ team # {}

RootFirst ==
  /\ injector \in {<<>>, <<Root>>}
  /\ \A w \in Workers : Root \notin ToSet(local[w])
  /\ Root \in Located

ChildrenKnown == \A d \in searched : SubdirsOf(d) \subseteq Located

SoloEnd ==
  \A w \in Workers : team = {w} /\ ~cancelled =>
    /\ pc[w] \in {"declare", "done"} => local[w] = <<>>
    /\ ~running => pc[w] = "done"

EndInv == Ending /\ RootFirst /\ ChildrenKnown /\ SoloEnd

\* A batch of an empty queue does not exist, and one of a single item is that.
LEMMA SmallBatches ==
  /\ BatchSizes(<<>>) = {}
  /\ \A x \in Dirs : \A k \in BatchSizes(<<x>>) :
       SubSeq(<<x>>, 2, k) = <<>> /\ SubSeq(<<x>>, k + 1, Len(<<x>>)) = <<>>
<1>1. Len(<<>>) = 0 /\ (0 + 1) \div 2 = 0
  BY SMT
<1>2. BatchSizes(<<>>) = {}
  BY <1>1, SMT DEF BatchSizes
<1>3. ASSUME NEW x \in Dirs, NEW k \in BatchSizes(<<x>>)
      PROVE  SubSeq(<<x>>, 2, k) = <<>> /\ SubSeq(<<x>>, k + 1, Len(<<x>>)) = <<>>
  <2>1. Len(<<x>>) = 1 /\ (1 + 1) \div 2 = 1 /\ <<x>> \in Seq(Dirs)
    BY SMT
  <2>2. k = 1
    BY <2>1, SMT DEF BatchSizes
  <2>3. SubSeq(<<x>>, 2, 1) = <<>>
    BY <2>1, SubSeqProperties
  <2> QED
    BY <2>1, <2>2, <2>3
<1> QED
  BY <1>2, <1>3

\* Only the pool's workers move anything, and nothing is injected again.
LEMMA QueuesOfTheTeam ==
  ASSUME CountedType, Ending, NEW w \in Workers, WorkerStep(w)
  PROVE  /\ w \in team /\ team' = team /\ cancelled' = cancelled
         /\ \A v \in Workers \ team : local'[v] = <<>>
         /\ injector = <<>> => injector' = <<>>
<1>0. /\ local \in [Workers -> Seq(Dirs)] /\ victims \in [Workers -> SUBSET team]
      /\ \A v \in Workers \ team : pc[v] = "done" /\ local[v] = <<>>
  BY DEF CountedType, TypeOK, Ending
<1>1. w \in team
  BY <1>0 DEF WorkerStep, Leave, PopLocal, LocalEmpty, TakeInjected,
     InjectorEmpty, StealFrom, VictimEmpty, NothingFound, SeeQuiescence,
     SpinAgain, Declare, BeginDispatch, SearchDir, EndDispatch
<1>2. CASE PopLocal(w)
  BY <1>0, <1>1, <1>2 DEF PopLocal
<1>3. CASE TakeInjected(w)
  BY <1>0, <1>1, <1>3, SmallBatches DEF TakeInjected
<1>4. ASSUME NEW v \in Workers, StealFrom(w, v)
      PROVE  /\ w \in team /\ team' = team /\ cancelled' = cancelled
             /\ \A u \in Workers \ team : local'[u] = <<>>
             /\ injector = <<>> => injector' = <<>>
  <2>1. v \in team
    BY <1>0, <1>4 DEF StealFrom
  <2> QED
    BY <1>0, <1>1, <1>4, <2>1 DEF StealFrom
<1>5. CASE SearchDir(w)
  BY <1>0, <1>1, <1>5 DEF SearchDir
<1>6. CASE Quiet(w)
  BY <1>0, <1>1, <1>6, QuietSteps
<1> QED
  BY <1>2, <1>3, <1>4, <1>5, <1>6, StepKinds

\* Quiescence is declared with the injector empty, and it stays empty.
LEMMA EndingStep ==
  ASSUME CountedType, Ending, [Next]_vars
  PROVE  Ending'
<1>0. pc \in [Workers -> PC]
  BY DEF CountedType, TypeOK
<1>1. ASSUME NEW w \in Workers, WorkerStep(w) PROVE Ending'
  <2>1. /\ w \in team /\ team' = team /\ cancelled' = cancelled
        /\ \A v \in Workers \ team : local'[v] = <<>>
        /\ injector = <<>> => injector' = <<>>
    BY <1>1, QueuesOfTheTeam
  <2>2. \A v \in Workers \ {w} : pc'[v] = pc[v]
    BY <1>0, <1>1 DEF WorkerStep, Leave, PopLocal, LocalEmpty, TakeInjected,
       InjectorEmpty, StealFrom, VictimEmpty, NothingFound, SeeQuiescence,
       SpinAgain, Declare, BeginDispatch, SearchDir, EndDispatch, Goto
  <2>3. running' = IF Declare(w) THEN FALSE ELSE running
    BY <1>1 DEF WorkerStep, Leave, PopLocal, LocalEmpty, TakeInjected,
       InjectorEmpty, StealFrom, VictimEmpty, NothingFound, SeeQuiescence,
       SpinAgain, Declare, BeginDispatch, SearchDir, EndDispatch
  <2>4. pc'[w] = "declare" => injector = <<>>
    BY <1>0, <1>1 DEF WorkerStep, Leave, PopLocal, LocalEmpty, TakeInjected,
       InjectorEmpty, StealFrom, VictimEmpty, NothingFound, SeeQuiescence,
       SpinAgain, Declare, BeginDispatch, SearchDir, EndDispatch, Goto,
       LooksQuiescent, Ending
  <2>5. pc'[w] = "done" => ~running'
    BY <1>0, <1>1 DEF WorkerStep, Leave, PopLocal, LocalEmpty, TakeInjected,
       InjectorEmpty, StealFrom, VictimEmpty, NothingFound, SeeQuiescence,
       SpinAgain, Declare, BeginDispatch, SearchDir, EndDispatch, Goto
  <2>6. Declare(w) => injector = <<>>
    BY <1>1 DEF Declare, Ending
  <2>7. \A v \in Workers \ team' : pc'[v] = "done" /\ local'[v] = <<>>
    BY <2>1, <2>2 DEF Ending
  <2>8. \A v \in Workers : pc'[v] = "declare" => injector' = <<>>
    BY <2>1, <2>2, <2>4 DEF Ending
  <2>9. cancelled' \/ running' \/ injector' = <<>>
    BY <2>1, <2>3, <2>6 DEF Ending
  <2>10. \A v \in team' : pc'[v] = "done" => cancelled' \/ ~running'
    <3>1. team \subseteq Workers
      BY DEF CountedType, TypeOK
    <3> QED
      BY <2>1, <2>2, <2>3, <2>5, <3>1 DEF Ending
  <2> QED
    BY <2>1, <2>7, <2>8, <2>9, <2>10 DEF Ending
<1>2. CASE Cancel
  BY <1>2 DEF Cancel, Ending
<1>3. CASE UNCHANGED vars
  BY <1>3 DEF vars, Ending
<1> QED
  BY <1>1, <1>2, <1>3 DEF Next, Finished

\* What a worker queues on its own deque is never the root.
LEMMA RootNotQueued ==
  ASSUME CountedType, RootFirst, NEW w \in Workers, WorkerStep(w)
  PROVE  /\ injector' \in {<<>>, <<Root>>}
         /\ \A v \in Workers : Root \notin ToSet(local'[v])
<1>0. /\ local \in [Workers -> Seq(Dirs)] /\ Root \in Dirs
      /\ injector \in {<<>>, <<Root>>} /\ \A v \in Workers : Root \notin ToSet(local[v])
      /\ \A v \in Workers : local[v] \in Seq(Dirs)
  BY TreeAssumption DEF CountedType, TypeOK, RootFirst
<1>1. CASE PopLocal(w)
  <2>1. Root \notin ToSet(Front(local[w]))
    <3>1. local[w] \in Seq(Dirs) /\ local[w] # <<>>
      BY <1>0, <1>1 DEF PopLocal
    <3>2. ToSet(local[w]) = ToSet(Front(local[w])) \union {Last(local[w])}
      BY <3>1, PopLast
    <3> QED
      BY <1>0, <3>2
  <2>2. local' = [local EXCEPT ![w] = Front(@)] /\ injector' = injector
    BY <1>1 DEF PopLocal
  <2>3. \A v \in Workers : local'[v] = IF v = w THEN Front(local[w]) ELSE local[v]
    BY <1>0, <2>2
  <2> QED
    BY <1>0, <2>1, <2>2, <2>3, Zenon
<1>2. CASE TakeInjected(w)
  <2>1. PICK k \in BatchSizes(injector) :
          /\ local' = [local EXCEPT ![w] = @ \o SubSeq(injector, 2, k)]
          /\ injector' = SubSeq(injector, k + 1, Len(injector))
    BY <1>2 DEF TakeInjected
  <2>2. injector = <<Root>>
    BY <1>0, <2>1, SmallBatches
  <2>3. SubSeq(injector, 2, k) = <<>> /\ injector' = <<>>
    BY <1>0, <2>1, <2>2, SmallBatches
  <2>4. <<>> \in Seq(Dirs) /\ ToSet(<<>>) = {}
    BY <1>0, SmallQueues
  <2>5. Root \notin ToSet(local[w] \o <<>>)
    BY <1>0, <2>4, ConcatElements
  <2> QED
    BY <1>0, <2>1, <2>3, <2>5
<1>3. ASSUME NEW v \in Workers, StealFrom(w, v)
      PROVE  injector' = injector /\ \A u \in Workers : Root \notin ToSet(local'[u])
  <2>1. PICK k \in BatchSizes(local[v]) :
          local' = [local EXCEPT ![w] = @ \o SubSeq(local[v], 2, k),
                                 ![v] = SubSeq(@, k + 1, Len(@))]
    BY <1>3 DEF StealFrom
  <2>2. v # w /\ injector' = injector
    BY <1>3 DEF StealFrom, CountedType, TypeOK
  <2>3. /\ SubSeq(local[v], 2, k) \in Seq(Dirs)
        /\ Root \notin ToSet(SubSeq(local[v], 2, k))
        /\ Root \notin ToSet(SubSeq(local[v], k + 1, Len(local[v])))
    <3>1. local[v] \in Seq(Dirs) /\ k \in 1..Len(local[v])
      BY <1>0, <2>1, BatchParts
    <3>2. /\ SubSeq(local[v], 2, k) \in Seq(Dirs)
          /\ ToSet(local[v]) = {local[v][1]} \union ToSet(SubSeq(local[v], 2, k))
                                \union ToSet(SubSeq(local[v], k + 1, Len(local[v])))
      BY <3>1, TakeBatch
    <3> QED
      BY <1>0, <3>2, Zenon
  <2>4. Root \notin ToSet(local[w] \o SubSeq(local[v], 2, k))
    <3> DEFINE batch == SubSeq(local[v], 2, k)
    <3>1. local[w] \in Seq(Dirs) /\ batch \in Seq(Dirs) /\ Root \notin ToSet(batch)
      BY <1>0, <2>3
    <3> HIDE DEF batch
    <3>2. ToSet(local[w] \o batch) = ToSet(local[w]) \union ToSet(batch)
      BY <3>1, ConcatElements
    <3> QED
      BY <1>0, <3>1, <3>2, Zenon DEF batch
  <2>5. \A u \in Workers :
           local'[u] = IF u = w THEN local[w] \o SubSeq(local[v], 2, k)
                       ELSE IF u = v THEN SubSeq(local[v], k + 1, Len(local[v]))
                       ELSE local[u]
    BY <1>0, <2>1, <2>2
  <2> QED
    BY <1>0, <2>2, <2>3, <2>4, <2>5, Zenon
<1>4. CASE SearchDir(w)
  <2> DEFINE d == Head(hand[w])
             tail == QueuedTail(d, KeepLocal(d))
  <2>1. d \in Dirs
    BY <1>4, PopHead DEF SearchDir, CountedType, TypeOK
  <2> HIDE DEF d
  <2>2. tail \in Seq(Dirs) /\ ToSet(tail) \subseteq SubdirsOf(d)
    BY <2>1, KeepLocalRange, SplitSubdirs DEF CountedType
  <2> HIDE DEF tail
  <2>3. Root \notin ToSet(local[w] \o tail)
    BY <1>0, <2>1, <2>2, ConcatElements, TreeAssumption
  <2>4. local' = [local EXCEPT ![w] = @ \o tail] /\ injector' = injector
    BY <1>4 DEF SearchDir, d, tail
  <2> QED
    BY <1>0, <2>3, <2>4
<1>5. CASE Quiet(w)
  BY <1>0, <1>5, QuietSteps
<1> QED
  BY <1>0, <1>1, <1>2, <1>3, <1>4, <1>5, StepKinds

\* A directory that was located stays so, and brings its subdirectories.
LEMMA LocatedStep ==
  ASSUME CountedType, Placement, ChildrenKnown, [Next]_vars
  PROVE  Located \subseteq Located' /\ ChildrenKnown'
<1>1. CASE /\ Queued' \union Held' = Queued \union Held
           /\ searched' = searched
  BY <1>1 DEF Located, ChildrenKnown
<1>2. ASSUME NEW d \in Dirs, d \in Held,
             Queued' \union Held' =
               ((Queued \union Held) \ {d}) \union SubdirsOf(d),
             searched' = searched \union {d}
      PROVE  Located \subseteq Located' /\ ChildrenKnown'
  <2>1. Located' = Located \union SubdirsOf(d)
    BY <1>2 DEF Located
  <2> QED
    BY <1>2, <2>1 DEF ChildrenKnown
<1> QED
  BY <1>1, <1>2, PlaceStep

\* The root goes from the injector to a hand and is searched.
LEMMA RootStep ==
  ASSUME CountedType, Placement, RootFirst, ChildrenKnown, [Next]_vars
  PROVE  RootFirst'
<1>1. Root \in Located'
  BY LocatedStep DEF RootFirst
<1>2. ASSUME NEW w \in Workers, WorkerStep(w) PROVE RootFirst'
  BY <1>1, <1>2, RootNotQueued DEF RootFirst
<1>3. CASE Cancel \/ UNCHANGED vars
  BY <1>1, <1>3 DEF Cancel, vars, RootFirst
<1> QED
  BY <1>2, <1>3 DEF Next, Finished

\* A pool of one ends with its deque empty.
LEMMA SoloStep ==
  ASSUME CountedType, Ending, SoloEnd, [Next]_vars
  PROVE  SoloEnd'
<1>0. pc \in [Workers -> PC] /\ local \in [Workers -> Seq(Dirs)]
  BY DEF CountedType, TypeOK
<1>1. ASSUME NEW w \in Workers, WorkerStep(w), team = {w}, ~cancelled
      PROVE  /\ pc'[w] \in {"declare", "done"} => local'[w] = <<>>
             /\ ~running' => pc'[w] = "done"
  <2>0. /\ pc[w] \in {"declare", "done"} => local[w] = <<>>
        /\ ~running => pc[w] = "done"
        /\ victims[w] = {}
    BY <1>1 DEF SoloEnd, CountedType, TypeOK
  <2> QED
    BY <1>0, <1>1, <2>0 DEF WorkerStep, Leave, PopLocal, LocalEmpty, TakeInjected,
       InjectorEmpty, StealFrom, VictimEmpty, NothingFound, SeeQuiescence,
       SpinAgain, Declare, BeginDispatch, SearchDir, EndDispatch, Goto,
       LooksQuiescent
<1>2. ASSUME NEW w \in Workers, WorkerStep(w) PROVE SoloEnd'
  <2>1. w \in team /\ team' = team /\ cancelled' = cancelled
    BY <1>2, QueuesOfTheTeam
  <2> QED
    BY <1>1, <1>2, <2>1 DEF SoloEnd
<1>3. CASE Cancel \/ UNCHANGED vars
  BY <1>3 DEF Cancel, vars, SoloEnd
<1> QED
  BY <1>2, <1>3 DEF Next, Finished

\* The invariant of the end, at the start.
LEMMA EndInvInit == Init => EndInv
<1> SUFFICES ASSUME Init PROVE EndInv
  OBVIOUS
<1>1. /\ injector = <<Root>> /\ searched = {} /\ running = TRUE /\ cancelled = FALSE
      /\ team \in (SUBSET Workers) \ {{}}
      /\ pc = [w \in Workers |-> IF w \in team THEN "top" ELSE "done"]
      /\ \A w \in Workers : local[w] = <<>>
  BY DEF Init
<1>2. ToSet(<<>>) = {} /\ ToSet(<<Root>>) = {Root}
  BY TreeAssumption, SmallQueues
<1>3. Ending /\ SoloEnd
  BY <1>1 DEF Ending, SoloEnd
<1>4. RootFirst
  BY <1>1, <1>2 DEF RootFirst, Located, Queued
<1> QED
  BY <1>1, <1>3, <1>4 DEF EndInv, ChildrenKnown

\* The invariants hold in every state.
LEMMA EndInvCorrect == Spec => [](CountedType /\ Placement /\ EndInv)
<1>1. Init => CountedType /\ Placement /\ EndInv
  BY CountedTypeInit, PlacementInit, EndInvInit
<1>2. (CountedType /\ Placement /\ EndInv) /\ [Next]_vars
        => (CountedType /\ Placement /\ EndInv)'
  BY CountedTypeNext, PlacementNext, EndingStep, RootStep, LocatedStep, SoloStep
     DEF EndInv
<1> QED
  BY <1>1, <1>2, PTL DEF Spec

\* What the end of a search nobody cancelled looks like in any pool: the
\* injector and every call stack are empty.
LEMMA NothingHeldAtTheEnd ==
  ASSUME CountedType, Placement, EndInv, AllDone, ~cancelled
  PROVE  Held = {} /\ injector = <<>>
<1>1. \A w \in Workers : hand[w] = <<>>
  BY DEF AllDone, Placement, HandsEmpty
<1>2. ToSet(<<>>) = {}
  BY TreeAssumption, SmallQueues
<1>3. Held = {}
  BY <1>1, <1>2 DEF Held
<1>4. PICK w \in team : pc[w] = "done"
  BY DEF AllDone, EndInv, Ending, CountedType, TypeOK
<1>5. injector = <<>>
  BY <1>4 DEF EndInv, Ending
<1> QED
  BY <1>3, <1>5

\* A worker leaves its loop with empty hands whoever clears running and when,
\* and a search nobody cancels has searched its root and emptied the injector
\* once every worker is through.
THEOREM TakenIsDispatchedCorrect == Spec => []TakenIsDispatched
<1>1. CountedType /\ Placement /\ EndInv => TakenIsDispatched
  <2> SUFFICES ASSUME CountedType, Placement, EndInv PROVE TakenIsDispatched
    OBVIOUS
  <2>1. \A w \in Workers : pc[w] \in {"top", "injector", "steal", "idle",
                                      "declare", "done"} => hand[w] = <<>>
    BY DEF Placement, HandsEmpty
  <2>2. ASSUME AllDone, ~cancelled PROVE Root \in searched /\ injector = <<>>
    <3>1. Held = {} /\ injector = <<>> /\ ToSet(<<>>) = {}
      BY <2>2, NothingHeldAtTheEnd, TreeAssumption, SmallQueues
    <3>2. Root \notin Queued
      BY <3>1 DEF Queued, EndInv, RootFirst
    <3> QED
      BY <3>1, <3>2 DEF EndInv, RootFirst, Located
  <2> QED
    BY <2>1, <2>2 DEF TakenIsDispatched
<1> QED
  BY <1>1, EndInvCorrect, PTL

\* A pool of one searches every directory of the tree, whatever its shape: it
\* declares quiescence with its own deque empty and nobody else has one.
THEOREM SoloCompleteCorrect == Spec => []SoloComplete
<1>1. CountedType /\ Placement /\ EndInv => SoloComplete
  <2> SUFFICES ASSUME CountedType, Placement, EndInv, NEW w \in Workers,
                      team = {w}, AllDone, ~cancelled
               PROVE  WholeTree
    BY DEF SoloComplete
  <2>1. Held = {} /\ injector = <<>> /\ ToSet(<<>>) = {}
    BY NothingHeldAtTheEnd, TreeAssumption, SmallQueues
  <2>2. \A v \in Workers : local[v] = <<>>
    BY DEF EndInv, Ending, SoloEnd, AllDone
  <2>3. Located = searched
    BY <2>1, <2>2 DEF Located, Queued
  <2> QED
    BY <2>3 DEF WholeTree, EndInv, RootFirst, ChildrenKnown
<1> QED
  BY <1>1, EndInvCorrect, PTL
=============================================================================
