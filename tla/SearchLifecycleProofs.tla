------------------------ MODULE SearchLifecycleProofs ------------------------
(***************************************************************************)
(* Theorems about SearchLifecycle, for every number of workers, searches   *)
(* and items.  The inductive invariant says where a worker is in its       *)
(* rounds, which job it holds meanwhile, and what the two counters count.  *)
(***************************************************************************)
EXTENDS SearchLifecycle, QueueLemmas, FiniteSetTheorems, TLAPS

-----------------------------------------------------------------------------
(* The inductive invariant.                                                *)

\* The worker has woken up for the current generation and owes its finish.
InRound(w) == pc[w] \notin {"asleep", "dropping"}

\* search has swapped the job and not bumped the generation yet.
Refilling == caller \in {"pushing", "starting", "waking"}

\* Nobody owes anything: the counter was armed, or wait has returned.
NoneOwed == Arming \/ broken \/ caller \in {"waited", "saved"}

\* A worker has finished every generation it has woken for, but the one it is
\* in; that one is the current one, and one that sleeps is at most one behind.
\* Once the counter is armed nobody is behind, which is why a failed setup
\* leaves the caller where only a wait for ever can follow.
Rounded ==
  /\ gen <= asked
  /\ caller = "stopping" \/ Arming => gen < asked
  /\ broken => caller \in {"idle", "stopping", "waiting"}
  /\ \A w \in Workers :
       IF InRound(w) THEN lastGen[w] = gen /\ finishes[w] + 1 = gen
                     ELSE finishes[w] = lastGen[w] /\ gen \in finishes[w]..(finishes[w] + 1)
  /\ NoneOwed => \A w \in Workers : finishes[w] = gen

\* The job a worker holds in its round is the current one, and the current one
\* has the deposit of everybody that has finished its generation.
JobHeld ==
  /\ IF Refilling THEN job # NoJob ELSE (job # NoJob <=> gen > 0)
  /\ caller \in {"waiting", "waited", "saved"} => job # NoJob
  /\ \A w \in Workers : InRound(w) /\ pc[w] # "fetch" => arc[w] = job
  /\ \A w \in Workers : pc[w] = "counting" => <<job, w>> \in deposits
  /\ ~Refilling /\ gen > 0 =>
       \A w \in Workers : finishes[w] = gen => <<job, w>> \in deposits

\* active_workers is the number of workers inside a dispatch.
Busy == {w \in Workers : pc[w] = "busy"}
ActiveCounts == active = Cardinality(Busy)

HandHeld == \A w \in Workers : pc[w] \in {"got", "busy"} => hand[w] \in Searches

IInv == TypeOK /\ Rounded /\ OwedFinishes /\ JobHeld /\ ActiveCounts /\ HandHeld

-----------------------------------------------------------------------------
(* Lemmas about the two counters.                                          *)

Owing == {w \in Workers : finishes[w] < gen}

\* The two counters count within the workers, of which there is one at least.
LEMMA Counters ==
  /\ WorkerCount \in Nat \ {0}
  /\ IsFiniteSet(Busy) /\ Cardinality(Busy) \in 0..WorkerCount
  /\ IsFiniteSet(Owing) /\ Cardinality(Owing) \in 0..WorkerCount
<1>1. IsFiniteSet(Workers) /\ Workers # {}
  BY LifecycleAssumption
<1>2. WorkerCount \in Nat \ {0}
  BY <1>1, FS_CardinalityType, FS_EmptySet DEF WorkerCount
<1>3. ASSUME NEW S \in SUBSET Workers
      PROVE  IsFiniteSet(S) /\ Cardinality(S) \in 0..WorkerCount
  BY <1>1, <1>2, FS_Subset, FS_CardinalityType DEF WorkerCount
<1> QED
  BY <1>2, <1>3 DEF Busy, Owing

\* What the counter at zero means to the caller that waits for it.
LEMMA ZeroMeansNobodyOwes ==
  ASSUME IInv, remaining = 0
  PROVE  ~broken /\ \A w \in Workers : finishes[w] = gen
<1>1. ~Arming /\ ~broken /\ Cardinality(Owing) = 0
  BY Counters DEF IInv, OwedFinishes, Owing
<1>2. Owing = {}
  BY <1>1, Counters, FS_EmptySet
<1>3. \A w \in Workers : finishes[w] \in Nat /\ finishes[w] <= gen /\ gen \in Nat
  BY DEF IInv, TypeOK, Rounded
<1> QED
  BY <1>1, <1>2, <1>3 DEF Owing

-----------------------------------------------------------------------------
(* The caller's steps.                                                     *)

CallerActs ==
  CallSearch \/ CallWait \/ Cancel \/ CallerStep

\* The types, over a step of the thread that uses the context.
LEMMA CallerTypes ==
  ASSUME IInv, CallerActs
  PROVE  TypeOK'
<1> USE DEF IInv, Become, CallerPC, callerVars, workerVars
<1>0. /\ MaxSearches \in Nat /\ WorkerCount \in Nat \ {0}
      /\ 1 \in Searches /\ <<>> \in Seq(Searches)
  BY LifecycleAssumption, Counters DEF Searches
<1>1. CASE CallSearch
  <2>1. asked + 1 \in 0..MaxSearches
    BY <1>0, <1>1 DEF CallSearch, TypeOK
  <2> QED
    BY <1>1, <2>1 DEF CallSearch, TypeOK
<1>2. CASE CallWait
  BY <1>2 DEF CallWait, TypeOK
<1>3. CASE Cancel
  BY <1>3 DEF Cancel, TypeOK
<1>4. CASE Arm
  BY <1>0, <1>4 DEF Arm, TypeOK
<1>5. CASE SetupFails
  BY <1>5 DEF SetupFails, TypeOK
<1>6. CASE SwapJob
  <2>1. asked \in Searches
    BY <1>0, <1>6 DEF SwapJob, Rounded, Arming, TypeOK, Searches
  <2> QED
    BY <1>6, <2>1 DEF SwapJob, TypeOK
<1>7. CASE PushRoot
  <2>1. job \in Searches
    BY <1>7 DEF PushRoot, JobHeld, Refilling, TypeOK
  <2>2. Append(injector, job) \in Seq(Searches)
    BY <2>1, AppendProperties DEF TypeOK
  <2> QED
    BY <1>7, <2>2 DEF PushRoot, TypeOK
<1>8. CASE SetRunning
  BY <1>8 DEF SetRunning, TypeOK
<1>9. CASE Wake
  <2>1. gen + 1 \in 0..MaxSearches
    BY <1>0, <1>9 DEF Wake, Rounded, Arming, TypeOK
  <2> QED
    BY <1>9, <2>1 DEF Wake, TypeOK
<1>10. CASE WaitReturn
  BY <1>10 DEF WaitReturn, TypeOK
<1>11. CASE SaveCache
  <2>1. job \in Searches
    BY <1>11 DEF SaveCache, JobHeld, Refilling, TypeOK
  <2> QED
    BY <1>11, <2>1 DEF SaveCache, TypeOK
<1>12. CASE GoOn
  BY <1>12 DEF GoOn, TypeOK
<1> QED
  BY <1>1, <1>2, <1>3, <1>4, <1>5, <1>6, <1>7, <1>8, <1>9, <1>10, <1>11, <1>12
     DEF CallerActs, CallerStep

\* The counter is armed, and wait returns, only when nobody owes anything; and
\* the generation is bumped only then.
LEMMA CallerRounds ==
  ASSUME IInv, CallerActs
  PROVE  Rounded' /\ OwedFinishes'
<1> USE DEF Become, callerVars, workerVars
<1>0. /\ Rounded /\ OwedFinishes
      /\ gen \in Nat /\ asked \in Nat /\ broken \in BOOLEAN
      /\ \A w \in Workers : finishes[w] \in Nat /\ lastGen[w] \in Nat
  BY DEF IInv, TypeOK
<1> USE DEF Rounded, OwedFinishes, NoneOwed, Arming, InRound
<1>1. CASE CallSearch
  BY <1>0, <1>1 DEF CallSearch
<1>2. CASE CallWait
  BY <1>0, <1>2 DEF CallWait
<1>3. CASE Cancel
  BY <1>0, <1>3 DEF Cancel
<1>4. CASE Arm
  <2>1. ~broken /\ \A w \in Workers : finishes[w] = gen
    BY <1>4, ZeroMeansNobodyOwes DEF Arm
  <2> QED
    BY <1>0, <1>4, <2>1 DEF Arm
<1>5. CASE SetupFails
  BY <1>0, <1>5 DEF SetupFails
<1>6. CASE SwapJob
  BY <1>0, <1>6 DEF SwapJob
<1>7. CASE PushRoot
  BY <1>0, <1>7 DEF PushRoot
<1>8. CASE SetRunning
  BY <1>0, <1>8 DEF SetRunning
<1>9. CASE Wake
  <2>1. ~broken /\ \A w \in Workers : finishes[w] = gen
    BY <1>0, <1>9 DEF Wake
  <2>2. \A w \in Workers : ~InRound(w)
    BY <1>0, <2>1
  <2>3. {w \in Workers : finishes'[w] < gen'} = Workers
    BY <1>0, <1>9, <2>1 DEF Wake
  <2>4. OwedFinishes'
    BY <1>0, <1>9, <2>1, <2>3 DEF Wake, WorkerCount
  <2> QED
    BY <1>0, <1>9, <2>1, <2>2, <2>4 DEF Wake
<1>10. CASE WaitReturn
  <2>1. ~broken /\ \A w \in Workers : finishes[w] = gen
    BY <1>10, ZeroMeansNobodyOwes DEF WaitReturn
  <2> QED
    BY <1>0, <1>10, <2>1 DEF WaitReturn
<1>11. CASE SaveCache
  BY <1>0, <1>11 DEF SaveCache
<1>12. CASE GoOn
  BY <1>0, <1>12 DEF GoOn
<1> QED
  BY <1>1, <1>2, <1>3, <1>4, <1>5, <1>6, <1>7, <1>8, <1>9, <1>10, <1>11, <1>12
     DEF CallerActs, CallerStep

\* The job changes only while nobody is in a round.
LEMMA CallerJob ==
  ASSUME IInv, CallerActs
  PROVE  JobHeld'
<1> USE DEF Become, callerVars, workerVars
<1>0. /\ JobHeld /\ Rounded
      /\ gen \in Nat /\ asked \in Nat /\ broken \in BOOLEAN
      /\ \A w \in Workers : finishes[w] \in Nat
  BY DEF IInv, TypeOK
<1>1. CASE SwapJob
  <2>1. \A w \in Workers : ~InRound(w)
    BY <1>0, <1>1 DEF SwapJob, Rounded, NoneOwed, Arming
  <2> QED
    BY <1>0, <1>1, <2>1 DEF SwapJob, JobHeld, Refilling, InRound, Rounded, Arming, NoJob
<1>2. CASE Wake
  <2>1. \A w \in Workers : finishes[w] = gen
    BY <1>0, <1>2 DEF Wake, Rounded, NoneOwed, Arming
  <2> QED
    BY <1>0, <1>2, <2>1 DEF Wake, JobHeld, Refilling, InRound
<1> USE DEF JobHeld, Refilling, InRound, Rounded, Arming
<1>3. CASE CallSearch
  BY <1>0, <1>3 DEF CallSearch
<1>4. CASE CallWait
  BY <1>0, <1>4 DEF CallWait
<1>5. CASE Cancel
  BY <1>0, <1>5 DEF Cancel
<1>6. CASE Arm
  BY <1>0, <1>6 DEF Arm
<1>7. CASE SetupFails
  BY <1>0, <1>7 DEF SetupFails
<1>8. CASE PushRoot
  BY <1>0, <1>8 DEF PushRoot
<1>9. CASE SetRunning
  BY <1>0, <1>9 DEF SetRunning
<1>10. CASE WaitReturn
  BY <1>0, <1>10 DEF WaitReturn
<1>11. CASE SaveCache
  BY <1>0, <1>11 DEF SaveCache
<1>12. CASE GoOn
  BY <1>0, <1>12 DEF GoOn
<1> QED
  BY <1>1, <1>2, <1>3, <1>4, <1>5, <1>6, <1>7, <1>8, <1>9, <1>10, <1>11, <1>12
     DEF CallerActs, CallerStep

\* A step of the thread that uses the context keeps the invariant.
LEMMA CallerKeeps ==
  ASSUME IInv, CallerActs
  PROVE  IInv'
<1>1. UNCHANGED <<pc, hand, active>>
  BY DEF CallerActs, CallerStep, CallSearch, CallWait, Cancel, Arm, SetupFails,
     SwapJob, PushRoot, SetRunning, Wake, WaitReturn, SaveCache, GoOn, workerVars
<1>2. ActiveCounts' /\ HandHeld'
  BY <1>1 DEF IInv, ActiveCounts, HandHeld, Busy
<1> QED
  BY <1>2, CallerTypes, CallerRounds, CallerJob DEF IInv

-----------------------------------------------------------------------------
(* A worker's steps.                                                       *)

\* find_work hands its worker an item of some search and nobody else anything.
LEMMA TakenItem ==
  ASSUME TypeOK, NEW w \in Workers, FindWork(w)
  PROVE  /\ hand' \in [Workers -> Searches \union {NoJob}] /\ hand'[w] \in Searches
         /\ \A v \in Workers \ {w} : hand'[v] = hand[v]
         /\ local' \in [Workers -> Seq(Searches)] /\ injector' \in Seq(Searches)
<1>0. /\ hand \in [Workers -> Searches \union {NoJob}]
      /\ local \in [Workers -> Seq(Searches)] /\ injector \in Seq(Searches)
  BY DEF TypeOK
<1>1. CASE /\ local[w] # <<>>
           /\ hand' = [hand EXCEPT ![w] = Last(local[w])]
           /\ local' = [local EXCEPT ![w] = Front(@)]
           /\ UNCHANGED injector
  <2>1. Last(local[w]) \in Searches /\ Front(local[w]) \in Seq(Searches)
    BY <1>0, <1>1, PopLast
  <2> QED
    BY <1>0, <1>1, <2>1
<1>2. CASE /\ injector # <<>>
           /\ hand' = [hand EXCEPT ![w] = Head(injector)]
           /\ injector' = Tail(injector)
           /\ UNCHANGED local
  <2>1. Head(injector) \in Searches /\ Tail(injector) \in Seq(Searches)
    BY <1>0, <1>2, PopHead
  <2> QED
    BY <1>0, <1>2, <2>1
<1>3. ASSUME NEW v \in Workers,
             local[v] # <<>>,
             hand' = [hand EXCEPT ![w] = Head(local[v])],
             local' = [local EXCEPT ![v] = Tail(@)],
             UNCHANGED injector
      PROVE  /\ hand' \in [Workers -> Searches \union {NoJob}] /\ hand'[w] \in Searches
             /\ \A u \in Workers \ {w} : hand'[u] = hand[u]
             /\ local' \in [Workers -> Seq(Searches)] /\ injector' \in Seq(Searches)
  <2>1. Head(local[v]) \in Searches /\ Tail(local[v]) \in Seq(Searches)
    BY <1>0, <1>3, PopHead
  <2> QED
    BY <1>0, <1>3, <2>1
<1> QED
  BY <1>1, <1>2, <1>3 DEF FindWork

\* What a worker adds to its own deque is of the job it holds.
LEMMA QueuedItems ==
  ASSUME TypeOK, NEW w \in Workers, EndDispatch(w), arc[w] \in Searches
  PROVE  local' \in [Workers -> Seq(Searches)] /\ queued' \in [Searches -> 0..MaxItems]
<1>0. /\ local \in [Workers -> Seq(Searches)] /\ queued \in [Searches -> 0..MaxItems]
      /\ MaxItems \in Nat /\ queued[arc[w]] \in 0..MaxItems
  BY LifecycleAssumption DEF TypeOK
<1>1. PICK n \in 0..(MaxItems - queued[arc[w]]) :
        /\ queued' = [queued EXCEPT ![arc[w]] = @ + n]
        /\ local' = [local EXCEPT ![w] = @ \o [i \in 1..n |-> arc[w]]]
  BY DEF EndDispatch
<1>2. n \in Nat /\ queued[arc[w]] + n \in 0..MaxItems
  BY <1>0
<1>3. [i \in 1..n |-> arc[w]] \in Seq(Searches)
  BY <1>2
<1>4. local[w] \o [i \in 1..n |-> arc[w]] \in Seq(Searches)
  BY <1>0, <1>3, ConcatProperties
<1> QED
  BY <1>0, <1>1, <1>2, <1>4

\* active_workers, by the three kinds of step.
LEMMA ActiveStep ==
  ASSUME IInv, NEW w \in Workers, WorkerStep(w)
  PROVE  ActiveCounts' /\ active' \in 0..WorkerCount
<1>0. pc \in [Workers -> WorkerPC] /\ active = Cardinality(Busy)
  BY DEF IInv, TypeOK, ActiveCounts
<1>1. ActiveCounts'
  <2>1. CASE BeginDispatch(w)
    <3>1. Busy' = Busy \union {w} /\ w \notin Busy
      BY <1>0, <2>1 DEF BeginDispatch, Goto, Busy
    <3> QED
      BY <1>0, <2>1, <3>1, Counters, FS_AddElement DEF BeginDispatch, ActiveCounts
  <2>2. CASE EndDispatch(w)
    <3>1. Busy' = Busy \ {w} /\ w \in Busy
      BY <1>0, <2>2 DEF EndDispatch, Goto, Busy
    <3> QED
      BY <1>0, <2>2, <3>1, Counters, FS_RemoveElement DEF EndDispatch, ActiveCounts
  <2>3. CASE ~BeginDispatch(w) /\ ~EndDispatch(w)
    <3>1. Busy' = Busy /\ active' = active
      BY <1>0, <2>3 DEF WorkerStep, WakeUp, Fetch, Leave, FindWork, FindNothing,
         Declare, LookAgain, Deposit, CountOut, DropJob, Goto, Busy
    <3> QED
      BY <1>0, <3>1 DEF ActiveCounts
  <2> QED
    BY <2>1, <2>2, <2>3
<1>2. Cardinality(Busy') \in 0..WorkerCount
  <2>1. Busy' \in SUBSET Workers /\ IsFiniteSet(Workers)
    BY LifecycleAssumption DEF Busy
  <2> QED
    BY <2>1, FS_Subset, FS_CardinalityType DEF WorkerCount
<1> QED
  BY <1>1, <1>2 DEF ActiveCounts

\* remaining goes down exactly when one more worker owes nothing.
LEMMA WorkerRounds ==
  ASSUME IInv, NEW w \in Workers, WorkerStep(w)
  PROVE  /\ Rounded' /\ OwedFinishes'
         /\ remaining' \in 0..WorkerCount
         /\ finishes' \in [Workers -> 0..MaxSearches]
<1>0. /\ Rounded /\ OwedFinishes /\ MaxSearches \in Nat
      /\ gen \in 0..MaxSearches /\ asked \in Nat /\ broken \in BOOLEAN
      /\ remaining \in 0..WorkerCount /\ WorkerCount \in Nat
      /\ pc \in [Workers -> WorkerPC] /\ lastGen \in [Workers -> 0..MaxSearches]
      /\ finishes \in [Workers -> 0..MaxSearches]
  BY LifecycleAssumption, Counters DEF IInv, TypeOK
<1> USE DEF Goto, callerVars
<1>1. CASE WakeUp(w)
  <2>1. Rounded'
    BY <1>0, <1>1 DEF WakeUp, Rounded, NoneOwed, Arming, InRound
  <2> QED
    BY <1>0, <1>1, <2>1 DEF WakeUp, OwedFinishes, Arming
<1>2. CASE CountOut(w)
  <2>1. /\ pc[w] = "counting" /\ finishes[w] + 1 = gen /\ lastGen[w] = gen
        /\ finishes' = [finishes EXCEPT ![w] = @ + 1]
        /\ pc' = [pc EXCEPT ![w] = "dropping"] /\ remaining' = remaining - 1
        /\ UNCHANGED <<caller, asked, broken, gen, lastGen>>
    BY <1>0, <1>2 DEF CountOut, Rounded, InRound
  <2>2. ~NoneOwed
    BY <1>0, <2>1 DEF Rounded
  <2>3. finishes' \in [Workers -> 0..MaxSearches] /\ finishes'[w] = gen
    BY <1>0, <2>1
  <2>4. Rounded'
    BY <1>0, <2>1, <2>2, <2>3 DEF Rounded, NoneOwed, Arming, InRound
  <2>5. Owing' = Owing \ {w} /\ w \in Owing
    BY <1>0, <2>1 DEF Owing
  <2>6. Cardinality(Owing') = Cardinality(Owing) - 1
    BY <2>5, Counters, FS_RemoveElement
  <2>7. remaining = Cardinality(Owing) /\ ~(Arming \/ broken)'
    BY <1>0, <2>1, <2>2 DEF OwedFinishes, Owing, NoneOwed, Arming
  <2>8. OwedFinishes'
    BY <2>1, <2>6, <2>7 DEF OwedFinishes, Owing
  <2>9. remaining' \in 0..WorkerCount
    <3>1. Owing # {}
      BY <2>5
    <3>2. Cardinality(Owing) \in 1..WorkerCount
      BY <3>1, Counters, FS_EmptySet
    <3> QED
      BY <1>0, <2>1, <2>7, <3>2
  <2> QED
    BY <2>3, <2>4, <2>8, <2>9
<1>3. CASE ~WakeUp(w) /\ ~CountOut(w)
  <2>1. UNCHANGED <<caller, asked, broken, gen, lastGen, finishes, remaining>>
    BY <1>3 DEF WorkerStep, Fetch, Leave, FindWork, FindNothing, Declare,
       LookAgain, BeginDispatch, EndDispatch, Deposit, DropJob
  <2>2. \A v \in Workers : InRound(v)' <=> InRound(v)
    BY <1>0, <1>3 DEF WorkerStep, Fetch, Leave, FindWork, FindNothing, Declare,
       LookAgain, BeginDispatch, EndDispatch, Deposit, DropJob, InRound
  <2>3. Rounded'
    BY <1>0, <2>1, <2>2 DEF Rounded, NoneOwed, Arming
  <2> QED
    BY <1>0, <2>1, <2>3 DEF OwedFinishes, Arming
<1> QED
  BY <1>1, <1>2, <1>3

\* A worker takes the current job and deposits for it before it counts out.
LEMMA WorkerJob ==
  ASSUME IInv, NEW w \in Workers, WorkerStep(w)
  PROVE  JobHeld' /\ HandHeld'
<1>0. /\ JobHeld /\ HandHeld /\ Rounded /\ TypeOK
      /\ gen \in Nat /\ pc \in [Workers -> WorkerPC]
      /\ arc \in [Workers -> Searches \union {NoJob}]
      /\ \A v \in Workers : finishes[v] \in Nat
  <2>1. JobHeld /\ HandHeld /\ Rounded /\ TypeOK
    BY DEF IInv
  <2> QED
    BY <2>1, LifecycleAssumption, SMTT(20) DEF TypeOK
<1> USE DEF Goto, callerVars
<1>1. CASE CountOut(w)
  <2>1. finishes[w] + 1 = gen
    BY <1>0, <1>1 DEF CountOut, Rounded, InRound
  <2> QED
    BY <1>0, <1>1, <2>1 DEF CountOut, JobHeld, HandHeld, Refilling, InRound
<1>2. CASE FindWork(w)
  BY <1>0, <1>2, TakenItem DEF FindWork, JobHeld, HandHeld, Refilling, InRound
<1> USE DEF JobHeld, HandHeld, Refilling, InRound
<1>3. CASE WakeUp(w)
  BY <1>0, <1>3 DEF WakeUp
<1>4. CASE Fetch(w)
  BY <1>0, <1>4 DEF Fetch
<1>5. CASE Leave(w)
  BY <1>0, <1>5 DEF Leave
<1>6. CASE FindNothing(w)
  BY <1>0, <1>6 DEF FindNothing
<1>7. CASE Declare(w)
  BY <1>0, <1>7 DEF Declare
<1>8. CASE LookAgain(w)
  BY <1>0, <1>8 DEF LookAgain
<1>9. CASE BeginDispatch(w)
  BY <1>0, <1>9 DEF BeginDispatch
<1>10. CASE EndDispatch(w)
  BY <1>0, <1>10 DEF EndDispatch, TypeOK
<1>11. CASE Deposit(w)
  BY <1>0, <1>11 DEF Deposit
<1>12. CASE DropJob(w)
  BY <1>0, <1>12 DEF DropJob
<1> QED
  BY <1>1, <1>2, <1>3, <1>4, <1>5, <1>6, <1>7, <1>8, <1>9, <1>10, <1>11, <1>12
     DEF WorkerStep

\* The types, over a step of a worker thread.
LEMMA WorkerTypes ==
  ASSUME IInv, NEW w \in Workers, WorkerStep(w)
  PROVE  TypeOK'
<1>0. /\ TypeOK
      /\ active' \in 0..WorkerCount /\ remaining' \in 0..WorkerCount
      /\ finishes' \in [Workers -> 0..MaxSearches]
  BY ActiveStep, WorkerRounds DEF IInv
<1>1. InRound(w) /\ pc[w] # "fetch" => arc[w] \in Searches
  BY DEF IInv, TypeOK, Rounded, JobHeld, Refilling, InRound, NoneOwed, Arming
<1> USE DEF Goto, callerVars, WorkerPC
<1>2. CASE FindWork(w)
  BY <1>0, <1>2, TakenItem DEF FindWork, TypeOK
<1>3. CASE EndDispatch(w)
  <2>1. arc[w] \in Searches /\ hand[w] \in Searches
    BY <1>1, <1>3 DEF EndDispatch, InRound, IInv, HandHeld
  <2>2. ran' \subseteq Searches \X Searches
    BY <1>0, <1>3, <2>1 DEF EndDispatch, TypeOK
  <2>3. local' \in [Workers -> Seq(Searches)] /\ queued' \in [Searches -> 0..MaxItems]
    BY <1>0, <1>3, <2>1, QueuedItems
  <2>4. /\ pc' = [pc EXCEPT ![w] = "loop"] /\ hand' = [hand EXCEPT ![w] = NoJob]
        /\ UNCHANGED <<caller, asked, broken, running, gen, remaining, job,
                       injector, lastGen, arc, deposits, finishes, saved>>
    BY <1>3 DEF EndDispatch
  <2> QED
    BY <1>0, <2>2, <2>3, <2>4 DEF TypeOK
<1>4. CASE Deposit(w)
  <2>1. arc[w] \in Searches
    BY <1>1, <1>4 DEF Deposit, InRound
  <2>2. <<arc[w], w>> \in Searches \X Workers
    BY <2>1
  <2>3. deposits' \subseteq Searches \X Workers
    BY <1>0, <1>4, <2>2 DEF Deposit, TypeOK
  <2> QED
    BY <1>0, <1>4, <2>3 DEF Deposit, TypeOK
<1>5. CASE CountOut(w)
  BY <1>0, <1>5 DEF CountOut, TypeOK
<1>6. CASE BeginDispatch(w)
  BY <1>0, <1>6 DEF BeginDispatch, TypeOK
<1>7. CASE WakeUp(w)
  BY <1>0, <1>7 DEF WakeUp, TypeOK
<1>8. CASE Fetch(w)
  BY <1>0, <1>8 DEF Fetch, TypeOK
<1>9. CASE Leave(w)
  BY <1>0, <1>9 DEF Leave, TypeOK
<1>10. CASE FindNothing(w)
  BY <1>0, <1>10 DEF FindNothing, TypeOK
<1>11. CASE Declare(w)
  BY <1>0, <1>11 DEF Declare, TypeOK
<1>12. CASE LookAgain(w)
  BY <1>0, <1>12 DEF LookAgain, TypeOK
<1>13. CASE DropJob(w)
  BY <1>0, <1>13 DEF DropJob, TypeOK
<1> QED
  BY <1>2, <1>3, <1>4, <1>5, <1>6, <1>7, <1>8, <1>9, <1>10, <1>11, <1>12, <1>13
     DEF WorkerStep

-----------------------------------------------------------------------------
(* The invariant is inductive.                                             *)

\* The invariant holds in both constructors' states.
LEMMA IInvInit == Init => IInv
<1> SUFFICES ASSUME Init PROVE IInv
  OBVIOUS
<1>0. /\ WorkerCount \in Nat \ {0} /\ MaxSearches \in Nat \ {0} /\ MaxItems \in Nat
      /\ Workers # {}
  BY LifecycleAssumption, Counters
<1>1. PICK single \in {0, 1} :
        /\ caller = IF single = 1 THEN "single" ELSE "idle"
        /\ asked = single /\ gen = single /\ job = single
        /\ remaining = single * WorkerCount
        /\ injector = IF single = 1 THEN <<1>> ELSE <<>>
        /\ running \in {b \in BOOLEAN : single = 1 => b}
  BY DEF Init
<1>2. /\ broken = FALSE /\ active = 0 /\ ran = {} /\ deposits = {} /\ saved = {}
      /\ pc = [w \in Workers |-> "asleep"] /\ lastGen = [w \in Workers |-> 0]
      /\ finishes = [w \in Workers |-> 0] /\ arc = [w \in Workers |-> NoJob]
      /\ hand = [w \in Workers |-> NoJob] /\ local = [w \in Workers |-> <<>>]
      /\ queued = [j \in Searches |-> 0]
  BY DEF Init
<1>3. remaining = IF single = 1 THEN WorkerCount ELSE 0
  BY <1>0, <1>1
<1>4. TypeOK
  <2>1. 1 \in Searches /\ <<1>> \in Seq(Searches) /\ <<>> \in Seq(Searches)
    BY <1>0, SmallQueues DEF Searches
  <2>2. injector \in Seq(Searches) /\ running \in BOOLEAN /\ caller \in CallerPC
    BY <1>1, <2>1 DEF CallerPC
  <2>3. /\ asked \in 0..MaxSearches /\ gen \in 0..MaxSearches
        /\ remaining \in 0..WorkerCount /\ job \in Searches \union {NoJob}
    BY <1>0, <1>1, <1>3, <2>1 DEF NoJob
  <2>4. /\ pc \in [Workers -> WorkerPC] /\ local \in [Workers -> Seq(Searches)]
        /\ lastGen \in [Workers -> 0..MaxSearches]
        /\ finishes \in [Workers -> 0..MaxSearches]
        /\ arc \in [Workers -> Searches \union {NoJob}]
        /\ hand \in [Workers -> Searches \union {NoJob}]
        /\ queued \in [Searches -> 0..MaxItems]
    BY <1>0, <1>2, <2>1 DEF WorkerPC
  <2>5. broken \in BOOLEAN
    BY <1>2, Zenon
  <2>6. /\ ran \subseteq Searches \X Searches
        /\ deposits \subseteq Searches \X Workers
        /\ saved \subseteq Searches
    BY <1>2, Zenon
  <2>7. active = 0 /\ 0 \in 0..WorkerCount
    BY <1>0, <1>2, SMT
  <2> QED
    BY <2>2, <2>3, <2>4, <2>5, <2>6, <2>7 DEF TypeOK
<1>5. Rounded
  BY <1>0, <1>1, <1>2 DEF Rounded, NoneOwed, Arming, InRound
<1>6. OwedFinishes
  <2>1. Owing = IF single = 1 THEN Workers ELSE {}
    BY <1>0, <1>1, <1>2 DEF Owing
  <2>2. Cardinality(Owing) = remaining
    BY <1>1, <1>3, <2>1, FS_EmptySet DEF WorkerCount
  <2> QED
    BY <1>1, <1>2, <2>2 DEF OwedFinishes, Owing, Arming
<1>7. JobHeld
  BY <1>0, <1>1, <1>2 DEF JobHeld, Refilling, InRound, NoJob
<1>8. ActiveCounts /\ HandHeld
  <2>1. Busy = {}
    BY <1>2 DEF Busy
  <2> QED
    BY <1>2, <2>1, FS_EmptySet DEF ActiveCounts, HandHeld
<1> QED
  BY <1>4, <1>5, <1>6, <1>7, <1>8 DEF IInv

\* Every step keeps the invariant.
LEMMA IInvNext == IInv /\ [Next]_vars => IInv'
<1> SUFFICES ASSUME IInv, [Next]_vars PROVE IInv'
  OBVIOUS
<1>1. CASE CallerActs
  BY <1>1, CallerKeeps
<1>2. ASSUME NEW w \in Workers, WorkerStep(w) PROVE IInv'
  BY <1>2, WorkerTypes, ActiveStep, WorkerRounds, WorkerJob DEF IInv
<1>3. CASE UNCHANGED vars
  BY <1>3 DEF vars, IInv, TypeOK, Rounded, OwedFinishes, JobHeld, ActiveCounts,
     HandHeld, NoneOwed, Arming, Refilling, InRound, Busy
<1> QED
  BY <1>1, <1>2, <1>3 DEF Next, CallerActs

\* The invariant holds in every state.
LEMMA IInvCorrect == Spec => []IInv
BY IInvInit, IInvNext, PTL DEF Spec

-----------------------------------------------------------------------------
(* Theorems.                                                               *)

\* The variables keep their types for every number of workers, searches and
\* items; in particular job_done and active_workers never wrap below zero.
THEOREM TypeCorrect == Spec => []TypeOK
BY IInvCorrect, PTL DEF IInv

\* job_done counts the workers that still owe a finish of the generation the
\* caller started last, so a caller that finds it at zero finds every worker
\* through; a search that failed in its setup leaves it armed for nobody.
THEOREM OwedFinishesCorrect == Spec => []OwedFinishes
BY IInvCorrect, PTL DEF IInv

\* While search swaps the job and refills the injector no worker is between
\* its wake-up and its count-out, and a worker in there holds the current job.
THEOREM StoppedBeforeSwapCorrect == Spec => []StoppedBeforeSwap
<1>1. IInv => StoppedBeforeSwap
  <2> SUFFICES ASSUME IInv, NEW w \in Workers, InRound(w)
               PROVE  ~Arming /\ (pc[w] # "fetch" => arc[w] = job)
    BY DEF StoppedBeforeSwap, InRound
  <2>1. finishes[w] + 1 = gen /\ finishes[w] \in Nat
    BY DEF IInv, TypeOK, Rounded
  <2>2. ~Arming
    BY <2>1 DEF IInv, Rounded, NoneOwed
  <2> QED
    BY <2>2 DEF IInv, JobHeld
<1> QED
  BY <1>1, IInvCorrect, PTL

\* When wait has returned, every worker has deposited its statistics and cache
\* data for that very job and nobody dispatches anything, whatever was
\* cancelled or restarted before.
THEOREM ResultsCompleteCorrect == Spec => []ResultsComplete
<1>1. IInv => ResultsComplete
  <2> SUFFICES ASSUME IInv, caller \in {"waited", "saved"}
               PROVE  (\A w \in Workers : <<job, w>> \in deposits) /\ active = 0
    BY DEF ResultsComplete
  <2>1. /\ \A w \in Workers : finishes[w] = gen /\ finishes[w] \in Nat
        /\ gen > 0 /\ ~Refilling
    BY DEF IInv, TypeOK, Rounded, NoneOwed, JobHeld, Refilling
  <2>2. \A w \in Workers : <<job, w>> \in deposits
    BY <2>1 DEF IInv, JobHeld
  <2>3. Busy = {}
    BY <2>1 DEF IInv, Rounded, InRound, Busy
  <2> QED
    BY <2>2, <2>3, FS_EmptySet DEF IInv, ActiveCounts
<1> QED
  BY <1>1, IInvCorrect, PTL

\* The pool implements rounds: a wake-up starts a round that nobody owes a
\* finish of, a count-out finishes it for one worker, and every other step of
\* the caller or of a worker is a stutter.
THEOREM RoundsImplemented == Spec => ImplementsRounds
<1>1. Init => Rounds!RoundsInit
  BY DEF Init, Rounds!RoundsInit
<1>2. IInv /\ [Next]_vars => [Rounds!RoundsNext]_(Rounds!roundVars)
  <2> SUFFICES ASSUME IInv, [Next]_vars
               PROVE  [Rounds!RoundsNext]_(Rounds!roundVars)
    OBVIOUS
  <2>1. CASE Wake
    <3>1. \A w \in Workers : finishes[w] = gen
      BY <2>1 DEF Wake, IInv, Rounded, NoneOwed, Arming
    <3>2. Rounds!StartRound
      BY <2>1, <3>1 DEF Wake, workerVars, Rounds!StartRound
    <3> QED
      BY <3>2 DEF Rounds!RoundsNext
  <2>2. ASSUME NEW w \in Workers, CountOut(w)
        PROVE  Rounds!RoundsNext
    <3>1. finishes[w] + 1 = gen
      BY <2>2 DEF CountOut, IInv, Rounded, InRound
    <3>2. Rounds!FinishRound(w)
      BY <2>2, <3>1 DEF CountOut, Rounds!FinishRound
    <3> QED
      BY <3>2 DEF Rounds!RoundsNext
  <2>3. CASE ~Wake /\ \A w \in Workers : ~CountOut(w)
    <3>1. UNCHANGED <<gen, finishes>>
      <4>1. CASE CallerActs
        BY <2>3, <4>1 DEF CallerActs, CallerStep, CallSearch, CallWait, Cancel,
           Arm, SetupFails, SwapJob, PushRoot, SetRunning, WaitReturn,
           SaveCache, GoOn, workerVars
      <4>2. ASSUME NEW w \in Workers, WorkerStep(w)
            PROVE  UNCHANGED <<gen, finishes>>
        BY <2>3, <4>2 DEF WorkerStep, WakeUp, Fetch, Leave, FindWork, FindNothing,
           Declare, LookAgain, BeginDispatch, EndDispatch, Deposit, DropJob
      <4>3. CASE UNCHANGED vars
        BY <4>3 DEF vars
      <4> QED
        BY <4>1, <4>2, <4>3 DEF Next, CallerActs
    <3> QED
      BY <3>1 DEF Rounds!roundVars
  <2> QED
    BY <2>1, <2>2, <2>3
<1> QED
  BY <1>1, <1>2, IInvCorrect, PTL DEF Spec, ImplementsRounds, Rounds!RoundsSpec
=============================================================================
