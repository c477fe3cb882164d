--------------------------- MODULE KeptStateProofs ---------------------------
(* Theorems about KeptState, for any processes, workers, files and limits.    *)
EXTENDS KeptState, FiniteSetTheorems, TLAPS

(* Arithmetic on the halves of a slot.                                        *)
LEMMA DivBelow ==
    ASSUME NEW x \in Nat, NEW d \in Nat, d >= 1
    PROVE  x \div d \in 0 .. x
<1> DEFINE q == x \div d
<1>1. q \in Int /\ d * q <= x /\ x < d * q + d
  BY SMT
<1>2. q >= 0
  <2>1. SUFFICES ASSUME q <= -1
                 PROVE  FALSE
    BY <1>1, SMT
  <2> HIDE DEF q
  <2>2. d * q <= d * (-1)
    BY <1>1, <2>1, SMT
  <2> QED
    BY <1>1, <2>2, SMT
<1>3. q <= x
  <2> HIDE DEF q
  <2>1. d * q >= q
    BY <1>1, <1>2, SMT
  <2> QED
    BY <1>1, <2>1, SMT
<1> QED
  BY <1>1, <1>2, <1>3

\* An addition stays in its half (it is modulo the word).
LEMMA AddType ==
    ASSUME NEW s \in Slots, NEW rejected \in BOOLEAN
    PROVE  Add(s, rejected) \in Slots
<1>1. /\ s.binary \in 0 .. Word - 1 /\ s.text \in 0 .. Word - 1
      /\ Word \in Nat /\ Word >= 1
  BY VerdictAssumption, SMT DEF Slots
<1>2. (s.binary + 1) % Word \in 0 .. Word - 1 /\ (s.text + 1) % Word \in 0 .. Word - 1
  BY <1>1, SMT
<1> QED
  BY <1>1, <1>2 DEF Add, Slots

\* Ageing leaves each half at most half of its range.
LEMMA AgedType ==
    ASSUME NEW s \in Slots
    PROVE  /\ Aged(s) \in Slots
           /\ Aged(s).binary <= (Word - 1) \div 2 /\ Aged(s).text <= (Word - 1) \div 2
BY VerdictAssumption, SMT DEF Aged, Slots

\* Scaling down leaves a slot.
LEMMA ScaledType ==
    ASSUME NEW s \in Slots
    PROVE  Scaled(s) \in Slots
<1>1. s.binary \in 0 .. Word - 1 /\ s.text \in 0 .. Word - 1 /\ Word \in Nat
  BY VerdictAssumption DEF Slots
<1>2. Scale(s) \in Nat /\ Scale(s) >= 1
  <2> DEFINE d == 2 * SettledAt
             n == s.binary + s.text
  <2>1. d \in Nat /\ d >= 1 /\ n \in Nat
    BY <1>1, VerdictAssumption, SMT
  <2>2. n \div d \in 0 .. n
    BY <2>1, DivBelow
  <2> QED
    BY <2>1, <2>2, SMT DEF Scale
<1>3. s.binary \div Scale(s) \in 0 .. s.binary /\ s.text \div Scale(s) \in 0 .. s.text
  BY <1>1, <1>2, DivBelow
<1> QED
  BY <1>1, <1>3, SMT DEF Scaled, Slots

(* The bucket index finds no file that is not kept.                           *)
LEMMA FoundIsKnown ==
    ASSUME NEW kept, NEW f, Find(kept, f)
    PROVE  f \in kept
BY DEF Find

-----------------------------------------------------------------------------
(* Type correctness.                                                          *)
Work == [at : {"idle", "age", "add", "out"}, rejected : BOOLEAN, seen : Slots,
         pending : SUBSET Files]

\* The counters and the work of a process that has just begun.
LEMMA EmptyTypes == NoCounts \in Slots /\ NoWork \in Work
<1>1. NoCounts \in Slots
  BY VerdictAssumption, SMT DEF NoCounts, Slots
<1> QED
  BY <1>1 DEF NoWork, Work

(* Every inode that has a name or is open was created with its length.        *)
Contents == [Segments -> (SUBSET Files) \cup {Zero}]

Created ==
    /\ path # 0 => inode[path] \in Contents
    /\ tmp # 0 => inode[tmp] \in Contents
    /\ \A p \in Procs : /\ fd[p] # 0 => inode[fd[p]] \in Contents
                        /\ pc[p] = "write" => fd[p] # 0

Typed == TypeOK /\ Created

\* The types at the start.
LEMMA TypedInit == Start => Typed
<1> SUFFICES ASSUME Start
             PROVE  Typed
  OBVIOUS
<1>1. inode \in [Inodes -> {<<>>} \cup [Segments -> (SUBSET Files) \cup {Zero}]]
  BY DEF Start
<1>2. verdicts \in [state : {"none", "whole", "torn"}, known : SUBSET Files, slot : Slots]
  BY EmptyTypes DEF Start, NoVerdicts
<1>3. thread \in [Procs -> [Threads -> Work]] /\ slot \in [Procs -> Slots]
  BY EmptyTypes DEF Start
<1>4. searches \in 0 .. MaxSearches
  BY KeptAssumption DEF Start
<1>5. pc \in [Procs -> {"off", "verdicts", "search", "create", "write",
                        "rename", "keep", "done"}]
  BY DEF Start
<1>6. /\ mapped \in [Procs -> Inodes \cup {0}] /\ table \in [Procs -> SUBSET Files]
      /\ fd \in [Procs -> Inodes \cup {0}] /\ wrote \in [Procs -> 0 .. 5]
      /\ known \in [Procs -> SUBSET Files] /\ used \in [Procs -> SUBSET Files]
      /\ todo \in [Procs -> SUBSET Files] /\ acc \in [Procs -> SUBSET Files]
  BY DEF Start
<1>7. /\ synced \subseteq Inodes /\ path \in Inodes \cup {0} /\ tmp \in Inodes \cup {0}
      /\ overlapped \in BOOLEAN /\ told \subseteq Files
  BY DEF Start
<1>8. TypeOK
  BY <1>1, <1>2, <1>3, <1>4, <1>5, <1>6, <1>7 DEF TypeOK, Work
<1>9. Created
  BY DEF Start, Created
<1> QED
  BY <1>8, <1>9 DEF Typed

(* The steps on the disk.                                                     *)
LEMMA RowsType ==
    ASSUME NEW content
    PROVE  Rows(content) \subseteq Files
BY DEF Rows

\* The types, over the steps that load and merge the cache.
LEMMA LoadTypes ==
    ASSUME Typed, NEW p \in Procs, LoadCache(p) \/ LoadVerdicts(p) \/ MergeRows(p)
    PROVE  Typed'
<1> USE DEF Typed
<1>1. CASE LoadCache(p)
  <2>1. mapped' \in [Procs -> Inodes \cup {0}] /\ table' \in [Procs -> SUBSET Files]
    BY <1>1, RowsType DEF LoadCache, TypeOK
  <2>2. searches' \in 0 .. MaxSearches
    BY <1>1, KeptAssumption DEF LoadCache, TypeOK
  <2> QED
    BY <1>1, <2>1, <2>2 DEF LoadCache, TypeOK, disk, Created
<1>2. CASE LoadVerdicts(p)
  <2>1. slot' \in [Procs -> Slots]
    BY <1>2, ScaledType DEF LoadVerdicts, TypeOK
  <2>2. thread' \in [Procs -> [Threads -> Work]]
    BY <1>2, EmptyTypes DEF LoadVerdicts, TypeOK, Work
  <2>3. todo' \in [Procs -> SUBSET Files]
    BY <1>2, KeptAssumption DEF LoadVerdicts, TypeOK
  <2> QED
    BY <1>2, <2>1, <2>2, <2>3 DEF LoadVerdicts, TypeOK, disk, Work, Created
<1>3. CASE MergeRows(p)
  BY <1>3 DEF MergeRows, TypeOK, disk, Created
<1> QED
  BY <1>1, <1>2, <1>3

\* The inode a save writes into is one.
LEMMA OpenType ==
    ASSUME TypeOK, tmp # 0 \/ Unnamed # {}
    PROVE  Open \in Inodes /\ Open # 0
<1>1. Open \in Inodes
  BY DEF TypeOK, Open, NewInode, Unnamed
<1> QED
  BY <1>1, KeptAssumption

\* A cache file has five segments.
LEMMA SegmentCount == Cardinality(Segments) = 5
<1>1. 1 \in Int /\ 5 \in Int
  OBVIOUS
<1>2. Cardinality(1 .. 5) = IF 1 > 5 THEN 0 ELSE 5 - 1 + 1
  BY <1>1, FS_Interval, Zenon
<1> QED
  BY <1>2, SMT DEF Segments

\* The types, over the steps of a save.
LEMMA SaveTypes ==
    ASSUME Typed, NEW p \in Procs,
           CreateTmp(p) \/ Write(p) \/ SyncAll(p) \/ Rename(p) \/ SaveFails(p)
    PROVE  Typed'
<1> USE DEF Typed
<1>1. CASE CreateTmp(p)
  <2>1. Open \in Inodes /\ Open # 0
    BY <1>1, OpenType DEF CreateTmp
  <2>2. [s \in Segments |-> Zero] \in Contents
    BY DEF Contents
  <2>3. inode' \in [Inodes -> {<<>>} \cup Contents] /\ inode'[Open] \in Contents
    BY <1>1, <2>1, <2>2 DEF CreateTmp, TypeOK, Contents
  <2>4. Created'
    BY <1>1, <2>1, <2>2, <2>3 DEF CreateTmp, TypeOK, Created, Contents
  <2> QED
    BY <1>1, <2>1, <2>3, <2>4 DEF CreateTmp, TypeOK, memory, Contents
<1>2. CASE Write(p)
  <2> DEFINE new == [s \in Segments |-> IF s = wrote[p] + 1 THEN table[p]
                                        ELSE inode[fd[p]][s]]
  <2>1. inode' = [inode EXCEPT ![fd[p]] = new]
    BY <1>2 DEF Write
  <2>2. fd[p] # 0 => new \in Contents
    BY DEF TypeOK, Created, Contents
  <2>3. inode' \in [Inodes -> {<<>>} \cup Contents]
    <3> HIDE DEF new
    <3>1. CASE fd[p] # 0
      BY <2>1, <2>2, <3>1 DEF TypeOK, Contents
    <3>2. CASE fd[p] = 0
      <4>1. fd[p] \notin Inodes
        BY <3>2, KeptAssumption
      <4> QED
        BY <2>1, <4>1 DEF TypeOK, Contents
    <3> QED
      BY <3>1, <3>2
  <2>4. Created'
    <3> HIDE DEF new
    <3> QED
      BY <1>2, <2>1, <2>2 DEF Write, memory, TypeOK, Created
  <2>5. wrote' \in [Procs -> 0 .. 5]
    <3>1. wrote \in [Procs -> 0 .. 5] /\ wrote[p] < Cardinality(Segments)
          /\ wrote' = [wrote EXCEPT ![p] = @ + 1]
      BY <1>2 DEF Write, TypeOK
    <3> HIDE DEF Typed
    <3> QED
      BY <3>1, SegmentCount, SMT
  <2> QED
    BY <1>2, <2>3, <2>4, <2>5 DEF Write, TypeOK, memory, Contents
<1>3. CASE SyncAll(p)
  BY <1>3 DEF SyncAll, TypeOK, memory, Created
<1>4. CASE Rename(p)
  BY <1>4 DEF Rename, TypeOK, memory, Created
<1>5. CASE SaveFails(p)
  BY <1>5 DEF SaveFails, TypeOK, memory, disk, Created
<1> QED
  BY <1>1, <1>2, <1>3, <1>4, <1>5

\* What is left of processes that are gone.
LEMMA DroppedTypes ==
    ASSUME Typed, NEW ps, Dropped(ps)
    PROVE  /\ mapped' \in [Procs -> Inodes \cup {0}] /\ table' \in [Procs -> SUBSET Files]
           /\ fd' \in [Procs -> Inodes \cup {0}] /\ wrote' \in [Procs -> 0 .. 5]
           /\ known' \in [Procs -> SUBSET Files] /\ used' \in [Procs -> SUBSET Files]
           /\ todo' \in [Procs -> SUBSET Files] /\ acc' \in [Procs -> SUBSET Files]
           /\ thread' \in [Procs -> [Threads -> Work]]
           /\ \A p \in Procs : fd'[p] = IF p \in ps THEN 0 ELSE fd[p]
BY EmptyTypes DEF Dropped, Typed, TypeOK, Work

\* A merge makes no verdict up.
LEMMA MergeType ==
    ASSUME NEW kept, NEW hit, NEW fresh, NEW S,
           kept \subseteq S, hit \subseteq S, fresh \subseteq S
    PROVE  Merge(kept, hit, fresh) \subseteq S
BY DEF Merge

\* The types, over the end of a process and the loss of power.
LEMMA EndTypes ==
    ASSUME Typed, (\E p \in Procs : SaveVerdicts(p) \/ Die(p)) \/ PowerLoss
    PROVE  Typed'
<1> USE DEF Typed
<1>1. ASSUME NEW p \in Procs, SaveVerdicts(p)
      PROVE  Typed'
  <2> DEFINE fresh == {f \in acc[p] \cap Rejects : ~Find(known[p], f)}
  <2>1. Dropped({p}) /\ disk' = disk /\ slot' = slot
    BY <1>1 DEF SaveVerdicts
  <2>2. /\ verdicts' \in [state : {"none", "whole", "torn"}, known : SUBSET Files, slot : Slots]
        /\ told' \subseteq Files
    <3>1. fresh \subseteq Files /\ known[p] \subseteq Files /\ used[p] \subseteq Files
          /\ acc[p] \subseteq Files
      BY DEF TypeOK
    <3>2. Merge(known[p], used[p], fresh) \subseteq Files
      BY <3>1, MergeType
    <3> QED
      BY <1>1, <3>1, <3>2 DEF SaveVerdicts, TypeOK
  <2>3. Created'
    BY <1>1, <2>1, DroppedTypes DEF SaveVerdicts, Created, disk, TypeOK
  <2> QED
    BY <1>1, <2>1, <2>2, <2>3, DroppedTypes DEF SaveVerdicts, TypeOK, disk, Work
<1>2. ASSUME NEW ps \in SUBSET Procs, Gone(ps)
      PROVE  /\ pc' \in [Procs -> {"off", "verdicts", "search", "create", "write",
                                   "rename", "keep", "done"}]
             /\ slot' \in [Procs -> Slots]
             /\ \A p \in Procs : pc'[p] = IF p \in ps THEN "off" ELSE pc[p]
             /\ searches' = searches /\ overlapped' = overlapped
             /\ Dropped(ps)
  BY <1>2, EmptyTypes DEF Gone, TypeOK
<1>3. ASSUME NEW p \in Procs, Die(p)
      PROVE  Typed'
  <2>1. Gone({p}) /\ UNCHANGED <<disk, verdicts, told>>
    BY <1>3 DEF Die
  <2> QED
    BY <2>1, <1>2, DroppedTypes DEF TypeOK, Created, disk, Work
<1>4. ASSUME PowerLoss
      PROVE  Typed'
  <2>1. Gone(Procs) /\ path' = path /\ tmp' = tmp /\ synced' = Inodes
    BY <1>4 DEF PowerLoss
  <2>2. /\ inode' \in [Inodes -> {<<>>} \cup Contents]
        /\ \A i \in Inodes : inode[i] \in Contents => inode'[i] \in Contents
    <3>1. CASE path \in synced \cup {0}
      BY <1>4, <3>1 DEF PowerLoss, TypeOK, Contents
    <3>2. CASE path \notin synced \cup {0}
      <4>1. PICK s \in Segments : inode' = [inode EXCEPT ![path][s] = Zero]
        BY <1>4, <3>2 DEF PowerLoss
      <4>2. [inode[path] EXCEPT ![s] = Zero] \in Contents
        BY <3>2 DEF Created, Contents
      <4> QED
        BY <4>1, <4>2 DEF TypeOK, Contents
    <3> QED
      BY <3>1, <3>2
  <2>3. Created'
    BY <2>1, <2>2, <1>2, DroppedTypes DEF Created, TypeOK
  <2>4. /\ verdicts' \in [state : {"none", "whole", "torn"}, known : SUBSET Files, slot : Slots]
        /\ told' \subseteq Files
    BY <1>4, EmptyTypes DEF PowerLoss, NoVerdicts, TypeOK
  <2> QED
    BY <2>1, <2>2, <2>3, <2>4, <1>2, DroppedTypes DEF TypeOK, Work, Contents
<1> QED
  BY <1>1, <1>3, <1>4

(* The steps of a worker.                                                     *)
Working(p, t) == (\E f \in Files : Take(p, t, f)) \/ Age(p, t) \/ Tally(p, t) \/ Deposit(p, t)

\* The types, over taking a file.
LEMMA TakeTypes ==
    ASSUME Typed, NEW p \in Procs, NEW t \in Threads, NEW f \in Files, Take(p, t, f)
    PROVE  Typed'
<1>1. todo' \in [Procs -> SUBSET Files] /\ used' \in [Procs -> SUBSET Files]
  BY DEF Take, Typed, TypeOK
<1>2. thread' \in [Procs -> [Threads -> Work]]
  <2>1. thread \in [Procs -> [Threads -> Work]] /\ slot[p] \in Slots
    BY DEF Typed, TypeOK, Work
  <2>2. thread[p][t] \in Work /\ thread[p][t].pending \cup {f} \in SUBSET Files
    BY <2>1 DEF Work
  <2>3. CASE thread' = thread
    BY <2>1, <2>3
  <2>4. CASE thread' = [thread EXCEPT ![p][t].pending = @ \cup {f}]
    <3>1. [thread[p][t] EXCEPT !.pending = @ \cup {f}] \in Work
      BY <2>2 DEF Work
    <3> QED
      BY <2>1, <2>4, <3>1
  <2> DEFINE at == IF Ages(slot[p], f \in Rejects) THEN "age" ELSE "add"
             job == [at |-> at, rejected |-> f \in Rejects, seen |-> slot[p],
                     pending |-> thread[p][t].pending \cup {f}]
  <2>5. CASE thread' = [thread EXCEPT ![p][t] = job]
    <3>1. at \in {"age", "add"} /\ (f \in Rejects) \in BOOLEAN
      OBVIOUS
    <3>2. job \in Work
      <4> HIDE DEF at
      <4> QED
        BY <2>1, <2>2, <3>1 DEF Work
    <3> HIDE DEF job
    <3> QED
      BY <2>1, <2>5, <3>2
  <2>6. \/ thread' = thread
        \/ thread' = [thread EXCEPT ![p][t].pending = @ \cup {f}]
        \/ thread' = [thread EXCEPT ![p][t] = job]
    BY DEF Take
  <2> HIDE DEF job
  <2> QED
    BY <2>3, <2>4, <2>5, <2>6
<1> QED
  BY <1>1, <1>2 DEF Take, Typed, TypeOK, Work, Created, disk, saving

\* The types, over a step of a worker.
LEMMA WorkTypes ==
    ASSUME Typed, NEW p \in Procs, NEW t \in Threads, Working(p, t)
    PROVE  Typed'
<1>1. /\ thread \in [Procs -> [Threads -> Work]] /\ thread[p][t] \in Work
      /\ slot \in [Procs -> Slots] /\ acc \in [Procs -> SUBSET Files]
  BY DEF Typed, TypeOK, Work
<1>2. CASE \E f \in Files : Take(p, t, f)
  BY <1>2, TakeTypes
<1>3. CASE Age(p, t)
  <2>1. Aged(thread[p][t].seen) \in Slots
    BY <1>1, AgedType DEF Work
  <2>2. slot' \in [Procs -> Slots] /\ thread' \in [Procs -> [Threads -> Work]]
    BY <1>1, <1>3, <2>1 DEF Age, Work
  <2> QED
    BY <1>3, <2>2 DEF Age, Typed, TypeOK, Work, Created, disk, saving
<1>4. CASE Tally(p, t)
  <2>1. Add(slot[p], thread[p][t].rejected) \in Slots
    BY <1>1, AddType DEF Work
  <2>2. [NoWork EXCEPT !.pending = thread[p][t].pending] \in Work
    BY <1>1, EmptyTypes DEF Work
  <2>3. slot' \in [Procs -> Slots] /\ thread' \in [Procs -> [Threads -> Work]]
    BY <1>1, <1>4, <2>1, <2>2 DEF Tally
  <2> QED
    BY <1>4, <2>3 DEF Tally, Typed, TypeOK, Work, Created, disk, saving
<1>5. CASE Deposit(p, t)
  <2>1. [NoWork EXCEPT !.at = "out"] \in Work
    BY EmptyTypes DEF Work
  <2>2. acc' \in [Procs -> SUBSET Files] /\ thread' \in [Procs -> [Threads -> Work]]
    BY <1>1, <1>5, <2>1 DEF Deposit, Work
  <2> QED
    BY <1>5, <2>2 DEF Deposit, Typed, TypeOK, Work, Created, disk, saving
<1> QED
  BY <1>2, <1>3, <1>4, <1>5 DEF Working

\* Every step keeps the types.
LEMMA TypedStep ==
    ASSUME Typed, [Next]_vars
    PROVE  Typed'
<1>1. CASE UNCHANGED vars
  BY <1>1 DEF vars, disk, saving, memory, Typed, TypeOK, Created
<1>2. CASE Next
  BY <1>2, LoadTypes, SaveTypes, EndTypes, WorkTypes DEF Next, Working
<1> QED
  BY <1>1, <1>2

(* Type correctness: what the cache, the verdicts and the memory of each      *)
(* process hold is of the shape the code declares, a saved slot included.     *)
THEOREM TypeCorrect == Spec => []TypeOK
<1>1. Typed => TypeOK
  BY DEF Typed
<1> QED
  BY <1>1, TypedInit, TypedStep, PTL DEF Spec

-----------------------------------------------------------------------------
(* The counters.  Every worker that has decided to add counts in advance.     *)
LEMMA AddersFinite ==
    ASSUME NEW p, NEW rejected
    PROVE  /\ IsFiniteSet(Adders(p, rejected)) /\ Cardinality(Adders(p, rejected)) \in Nat
           /\ Cardinality(Threads) \in Nat
           /\ Cardinality(Adders(p, rejected)) <= Cardinality(Threads)
<1>1. IsFiniteSet(Threads) /\ Adders(p, rejected) \subseteq Threads
  BY KeptAssumption DEF Adders
<1> QED
  BY <1>1, FS_Subset, FS_CardinalityType

Fits(p, rejected) == Count(slot[p], rejected) + Cardinality(Adders(p, rejected)) < Word

\* A half of a slot is less than the word.
LEMMA CountType ==
    ASSUME NEW s \in Slots, NEW rejected \in BOOLEAN
    PROVE  Count(s, rejected) \in 0 .. Word - 1
BY DEF Count, Slots

(* A process that does nothing, and one whose workers start afresh.           *)
LEMMA FitsUnmoved ==
    ASSUME NEW p, NEW rejected, Fits(p, rejected),
           slot'[p] = slot[p],
           \A t \in Threads : /\ thread'[p][t].at = thread[p][t].at
                              /\ thread'[p][t].rejected = thread[p][t].rejected
    PROVE  Fits(p, rejected)'
<1>1. Adders(p, rejected)' = Adders(p, rejected)
  BY DEF Adders
<1> QED
  BY <1>1 DEF Fits

\* Without pending additions there is room.
LEMMA FitsAfresh ==
    ASSUME NEW p, NEW rejected \in BOOLEAN, slot'[p] \in Slots,
           \A t \in Threads : thread'[p][t].at # "add"
    PROVE  Fits(p, rejected)'
<1>1. Adders(p, rejected)' = {}
  BY DEF Adders
<1>2. Cardinality(Adders(p, rejected)') = 0
  BY <1>1, FS_EmptySet
<1> QED
  BY <1>2, CountType, VerdictAssumption DEF Fits

(* A half of a slot that leaves room for every worker.                        *)
LEMMA FitsAll ==
    ASSUME NEW p, NEW rejected \in BOOLEAN, slot'[p] \in Slots,
           Count(slot'[p], rejected) < Cap \/ Count(slot'[p], rejected) <= (Word - 1) \div 2
    PROVE  Fits(p, rejected)'
<1>1. /\ Cardinality(Adders(p, rejected)') \in Nat /\ Cardinality(Threads) \in Nat
      /\ Cardinality(Adders(p, rejected)') <= Cardinality(Threads)
  <2>1. IsFiniteSet(Threads) /\ Adders(p, rejected)' \subseteq Threads
    BY KeptAssumption DEF Adders
  <2> QED
    BY <2>1, FS_Subset, FS_CardinalityType
<1>2. Count(slot'[p], rejected) \in Nat /\ Cap \in Nat /\ Word \in Nat
  BY CountType, VerdictAssumption
<1>3. Cap + Cardinality(Threads) <= Word /\ 2 * Cardinality(Threads) <= Word
  BY KeptAssumption
<1> HIDE DEF Adders
<1>4. Count(slot'[p], rejected) + Cardinality(Adders(p, rejected)') < Word
  BY <1>1, <1>2, <1>3, SMT
<1> QED
  BY <1>4 DEF Fits

(* A worker's addition takes the place of the one that was counted for it.    *)
LEMMA AddFits ==
    ASSUME NEW s \in Slots, NEW half \in BOOLEAN, NEW rejected \in BOOLEAN,
           Count(s, half) + 1 < Word
    PROVE  Count(Add(s, half), rejected)
             = IF rejected = half THEN Count(s, rejected) + 1 ELSE Count(s, rejected)
<1>1. s.binary \in Nat /\ s.text \in Nat /\ Word \in Nat /\ s.binary < Word /\ s.text < Word
  BY VerdictAssumption DEF Slots
<1>2. CASE half = TRUE
  <2>1. s.binary + 1 < Word /\ (s.binary + 1) % Word = s.binary + 1
    BY <1>1, <1>2, SMT DEF Count
  <2> QED
    BY <1>2, <2>1 DEF Add, Count, Slots
<1>3. CASE half = FALSE
  <2>1. s.text + 1 < Word /\ (s.text + 1) % Word = s.text + 1 /\ s.text # Word - 1
    BY <1>1, <1>3, SMT DEF Count
  <2> QED
    BY <1>3, <2>1 DEF Add, Count, Slots
<1> QED
  BY <1>2, <1>3

\* A worker's addition uses the room that was kept for it.
LEMMA TallyFits ==
    ASSUME Typed, NoCarry, NEW p \in Procs, NEW t \in Threads, Tally(p, t),
           NEW rejected \in BOOLEAN
    PROVE  Fits(p, rejected)'
<1> DEFINE half == thread[p][t].rejected
<1>1. /\ half \in BOOLEAN /\ slot[p] \in Slots /\ Word \in Nat
      /\ thread \in [Procs -> [Threads -> Work]]
  BY VerdictAssumption DEF Typed, TypeOK, Work
<1>2. /\ slot'[p] = Add(slot[p], half)
      /\ thread[p][t].at = "add" /\ thread'[p][t].at = "idle"
      /\ \A u \in Threads \ {t} : thread'[p][u] = thread[p][u]
  BY <1>1 DEF Tally, Typed, TypeOK, NoWork
<1>3. t \in Adders(p, half)
  BY <1>2 DEF Adders
<1>4. \A r \in BOOLEAN : /\ Count(slot[p], r) \in Nat
                         /\ Cardinality(Adders(p, r)) \in Nat
                         /\ Count(slot[p], r) + Cardinality(Adders(p, r)) < Word
  BY <1>1, CountType, AddersFinite DEF NoCarry
<1>5. /\ Cardinality(Adders(p, half) \ {t}) = Cardinality(Adders(p, half)) - 1
      /\ Cardinality(Adders(p, half) \ {t}) \in Nat
  <2>1. IsFiniteSet(Adders(p, half))
    BY AddersFinite
  <2>2. IsFiniteSet(Adders(p, half) \ {t})
    BY <2>1, FS_Subset
  <2> QED
    BY <1>3, <2>1, <2>2, FS_RemoveElement, FS_CardinalityType
<1>6. Count(slot[p], half) + 1 < Word
  BY <1>1, <1>4, <1>5, SMT
<1>7. CASE rejected = half
  <2>1. Adders(p, rejected)' = Adders(p, half) \ {t}
    BY <1>2, <1>7 DEF Adders
  <2>2. Count(slot'[p], rejected) = Count(slot[p], half) + 1
    BY <1>1, <1>2, <1>6, <1>7, AddFits
  <2> QED
    BY <1>1, <1>4, <1>5, <2>1, <2>2 DEF Fits
<1>8. CASE rejected # half
  <2>1. Adders(p, rejected)' = Adders(p, rejected)
    BY <1>2, <1>8 DEF Adders
  <2>2. Count(slot'[p], rejected) = Count(slot[p], rejected)
    BY <1>1, <1>2, <1>6, <1>8, AddFits
  <2> QED
    BY <1>1, <1>4, <2>1, <2>2 DEF Fits
<1> QED
  BY <1>7, <1>8

\* A worker decides to add only below the cap.
LEMMA TakeFits ==
    ASSUME Typed, NoCarry, NEW p \in Procs, NEW t \in Threads, NEW f \in Files, Take(p, t, f),
           NEW rejected \in BOOLEAN
    PROVE  Fits(p, rejected)'
<1>1. /\ slot' = slot /\ slot[p] \in Slots /\ thread \in [Procs -> [Threads -> Work]]
      /\ thread[p][t].at = "idle" /\ Cap \in Nat /\ Fits(p, rejected)
  BY VerdictAssumption DEF Take, Typed, TypeOK, Work, NoCarry, Fits
<1>2. CASE thread' = thread
  BY <1>1, <1>2, FitsUnmoved
<1>3. CASE thread' = [thread EXCEPT ![p][t].pending = @ \cup {f}]
  BY <1>1, <1>3, FitsUnmoved DEF Work
<1> DEFINE at == IF Ages(slot[p], f \in Rejects) THEN "age" ELSE "add"
           job == [at |-> at, rejected |-> f \in Rejects, seen |-> slot[p],
                   pending |-> thread[p][t].pending \cup {f}]
<1>4. CASE thread' = [thread EXCEPT ![p][t] = job]
  <2>1. /\ thread'[p][t].at = at /\ thread'[p][t].rejected = (f \in Rejects)
        /\ \A u \in Threads \ {t} : thread'[p][u] = thread[p][u]
    BY <1>1, <1>4
  <2>2. CASE ~Ages(slot[p], f \in Rejects) /\ rejected = (f \in Rejects)
    <3>1. Count(slot'[p], rejected) < Cap
      <4>1. Count(slot[p], rejected) \in Nat
        BY <1>1, CountType, VerdictAssumption
      <4> QED
        BY <1>1, <2>2, <4>1 DEF Ages
    <3> QED
      BY <1>1, <3>1, FitsAll
  <2>3. CASE Ages(slot[p], f \in Rejects) \/ rejected # (f \in Rejects)
    <3>1. Adders(p, rejected)' = Adders(p, rejected)
      BY <1>1, <2>1, <2>3 DEF Adders
    <3> QED
      BY <1>1, <3>1 DEF Fits
  <2> QED
    BY <2>2, <2>3
<1>5. \/ thread' = thread
      \/ thread' = [thread EXCEPT ![p][t].pending = @ \cup {f}]
      \/ thread' = [thread EXCEPT ![p][t] = job]
  BY DEF Take
<1> HIDE DEF job
<1> QED
  BY <1>2, <1>3, <1>4, <1>5

\* A step of a worker leaves room for the additions that are pending.
LEMMA WorkFits ==
    ASSUME Typed, NoCarry, NEW p \in Procs, NEW t \in Threads, Working(p, t),
           NEW q \in Procs, NEW rejected \in BOOLEAN
    PROVE  Fits(q, rejected)'
<1>1. /\ slot \in [Procs -> Slots] /\ slot' \in [Procs -> Slots]
      /\ thread \in [Procs -> [Threads -> Work]] /\ Fits(q, rejected)
  <2>1. Typed'
    BY WorkTypes
  <2> QED
    BY <2>1 DEF Typed, TypeOK, Work, NoCarry, Fits
<1>2. CASE q # p
  BY <1>1, <1>2, FitsUnmoved DEF Working, Take, Age, Tally, Deposit
<1>3. CASE q = p /\ \E f \in Files : Take(p, t, f)
  BY <1>3, TakeFits
<1>4. CASE q = p /\ Age(p, t)
  <2>1. thread[p][t].seen \in Slots /\ slot'[p] = Aged(thread[p][t].seen)
    BY <1>1, <1>4 DEF Age, Work
  <2>2. Count(slot'[p], rejected) <= (Word - 1) \div 2
    BY <2>1, AgedType DEF Count
  <2> QED
    BY <1>1, <1>4, <2>2, FitsAll
<1>5. CASE q = p /\ Tally(p, t)
  BY <1>5, TallyFits
<1>6. CASE q = p /\ Deposit(p, t)
  <2>1. /\ slot'[p] = slot[p] /\ thread[p][t].at = "idle" /\ thread'[p][t].at = "out"
        /\ \A u \in Threads \ {t} : thread'[p][u] = thread[p][u]
    BY <1>1, <1>6 DEF Deposit, NoWork
  <2>2. Adders(p, rejected)' = Adders(p, rejected)
    BY <2>1 DEF Adders
  <2> QED
    BY <1>1, <1>6, <2>1, <2>2 DEF Fits
<1> QED
  BY <1>2, <1>3, <1>4, <1>5, <1>6 DEF Working

(* The steps that are no worker's leave a process's workers and counters      *)
(* alone, or its workers start afresh.                                        *)
LEMMA OtherFits ==
    ASSUME Typed, NoCarry, NEW q \in Procs, NEW rejected \in BOOLEAN,
           \/ \E p \in Procs : \/ LoadCache(p) \/ LoadVerdicts(p) \/ MergeRows(p)
                               \/ CreateTmp(p) \/ Write(p) \/ SyncAll(p) \/ Rename(p)
                               \/ SaveFails(p) \/ SaveVerdicts(p) \/ Die(p)
           \/ PowerLoss \/ UNCHANGED vars
    PROVE  Fits(q, rejected)'
<1>1. \/ slot'[q] = slot[q] /\ thread'[q] = thread[q]
      \/ slot'[q] \in Slots /\ \A t \in Threads : thread'[q][t] = NoWork
  <2>1. slot'[q] \in Slots
    <3>1. Typed'
      BY LoadTypes, SaveTypes, EndTypes, TypedStep DEF Next
    <3> QED
      BY <3>1 DEF Typed, TypeOK
  <2>2. ASSUME NEW p \in Procs, LoadVerdicts(p)
        PROVE  (thread'[q] = thread[q] /\ slot'[q] = slot[q]) \/ thread'[q] = [t \in Threads |-> NoWork]
    BY <2>2 DEF LoadVerdicts, Typed, TypeOK
  <2>3. ASSUME NEW ps, Dropped(ps)
        PROVE  thread'[q] = IF q \in ps THEN [t \in Threads |-> NoWork] ELSE thread[q]
    BY <2>3 DEF Dropped
  <2>4. ASSUME NEW p \in Procs, SaveVerdicts(p) \/ Die(p)
        PROVE  (slot'[q] = slot[q] /\ thread'[q] = thread[q]) \/ thread'[q] = [t \in Threads |-> NoWork]
    BY <2>3, <2>4 DEF SaveVerdicts, Die, Gone
  <2>5. ASSUME PowerLoss
        PROVE  thread'[q] = [t \in Threads |-> NoWork]
    BY <2>3, <2>5 DEF PowerLoss, Gone
  <2>6. ASSUME NEW p \in Procs,
               \/ LoadCache(p) \/ MergeRows(p) \/ CreateTmp(p) \/ Write(p)
               \/ SyncAll(p) \/ Rename(p) \/ SaveFails(p)
        PROVE  slot' = slot /\ thread' = thread
    BY <2>6 DEF LoadCache, MergeRows, CreateTmp, Write, SyncAll, Rename, SaveFails, memory
  <2>7. CASE UNCHANGED vars
    BY <2>7 DEF vars, memory
  <2> QED
    BY <2>1, <2>2, <2>4, <2>5, <2>6, <2>7
<1> QED
  BY <1>1, FitsUnmoved, FitsAfresh DEF NoCarry, Fits, NoWork

\* Every step leaves room for the additions that are pending.
LEMMA NoCarryStep ==
    ASSUME Typed, NoCarry, [Next]_vars
    PROVE  NoCarry'
<1> SUFFICES ASSUME NEW q \in Procs, NEW rejected \in BOOLEAN
             PROVE  Fits(q, rejected)'
  BY DEF NoCarry, Fits
<1>1. CASE \E p \in Procs, t \in Threads : Working(p, t)
  BY <1>1, WorkFits
<1>2. CASE ~ \E p \in Procs, t \in Threads : Working(p, t)
  BY <1>2, OtherFits DEF Next, Working
<1> QED
  BY <1>1, <1>2

(* NoCarry: no addition to a slot of the extension table carries out of its   *)
(* half, although each worker decides on a count it read before.  It holds    *)
(* for any number of workers that does not exceed the room above the cap.     *)
THEOREM NoCarryCorrect == Spec => []NoCarry
<1>1. Start => NoCarry
  <2> SUFFICES ASSUME Start, NEW p \in Procs, NEW rejected \in BOOLEAN
               PROVE  Count(slot[p], rejected) + Cardinality(Adders(p, rejected)) < Word
    BY DEF NoCarry
  <2>1. slot[p] = NoCounts /\ \A t \in Threads : thread[p][t] = NoWork
    BY DEF Start
  <2>2. Adders(p, rejected) = {} /\ Count(slot[p], rejected) = 0
    BY <2>1 DEF Adders, NoWork, NoCounts, Count
  <2>3. Cardinality(Adders(p, rejected)) = 0
    BY <2>2, FS_EmptySet
  <2> HIDE DEF Adders, Count
  <2> QED
    BY <2>2, <2>3, VerdictAssumption
<1> QED
  BY <1>1, TypedInit, TypedStep, NoCarryStep, PTL DEF Spec

-----------------------------------------------------------------------------
(* The verdicts.  What a search relied on it had loaded, and what it found it *)
(* had not: the two sets a merge unites.                                      *)
Kept(p) ==
    /\ known[p] \subseteq Rejects /\ used[p] \subseteq known[p]
    /\ \A f \in acc[p] : ~Find(known[p], f)
    /\ \A t \in Threads : \A f \in thread[p][t].pending : ~Find(known[p], f)

Verdicts ==
    /\ verdicts.known \subseteq Rejects
    /\ verdicts.state = "whole" => told \subseteq verdicts.known
    /\ \A p \in Procs : Kept(p)

(* A process that has dropped its job has nothing to keep.                    *)
LEMMA DroppedKept ==
    ASSUME Verdicts, NEW ps, Dropped(ps), NEW q \in Procs
    PROVE  Kept(q)'
<1>1. CASE q \in ps
  <2>1. /\ known'[q] = {} /\ used'[q] = {} /\ acc'[q] = {}
        /\ \A t \in Threads : thread'[q][t].pending = {}
    BY <1>1 DEF Dropped, NoWork
  <2> QED
    BY <2>1 DEF Kept
<1>2. CASE q \notin ps
  <2>1. known'[q] = known[q] /\ used'[q] = used[q] /\ acc'[q] = acc[q] /\ thread'[q] = thread[q]
    BY <1>2 DEF Dropped
  <2> QED
    BY <2>1 DEF Kept, Verdicts
<1> QED
  BY <1>1, <1>2

\* A save keeps the verdicts its search found or relied on.
LEMMA SaveKeeps ==
    ASSUME Verdicts, NEW p \in Procs, SaveVerdicts(p)
    PROVE  Verdicts'
<1> DEFINE fresh == {f \in acc[p] \cap Rejects : ~Find(known[p], f)}
<1>1. Dropped({p})
  BY DEF SaveVerdicts
<1>2. CASE UNCHANGED <<verdicts, told>>
  BY <1>1, <1>2, DroppedKept DEF Verdicts
<1>3. CASE /\ verdicts' = [state |-> "whole", slot |-> slot[p],
                           known |-> Merge(known[p], used[p], fresh)]
           /\ told' = (acc[p] \cap Rejects) \cup used[p]
  <2>1. /\ acc[p] \cap Rejects = fresh
        /\ known[p] \subseteq Rejects /\ used[p] \subseteq known[p]
    BY DEF Verdicts, Kept
  <2> HIDE DEF fresh
  <2>2. /\ fresh \cup used[p] \subseteq Merge(known[p], used[p], fresh)
        /\ Merge(known[p], used[p], fresh) \subseteq Rejects
    BY <2>1 DEF Merge
  <2>3. verdicts'.known \subseteq Rejects /\ told' \subseteq verdicts'.known
    BY <1>3, <2>1, <2>2
  <2> QED
    BY <1>1, <2>3, DroppedKept DEF Verdicts
<1> QED
  BY <1>2, <1>3 DEF SaveVerdicts

\* A worker's step keeps found and relied on apart.
LEMMA WorkKeeps ==
    ASSUME Typed, Verdicts, NEW p \in Procs, NEW t \in Threads, Working(p, t)
    PROVE  Verdicts'
<1>1. verdicts' = verdicts /\ told' = told /\ known' = known
  BY DEF Working, Take, Age, Tally, Deposit
<1>2. ASSUME NEW q \in Procs
      PROVE  Kept(q)'
  <2>1. /\ thread \in [Procs -> [Threads -> Work]] /\ used \in [Procs -> SUBSET Files]
        /\ acc \in [Procs -> SUBSET Files] /\ Kept(q)
    BY DEF Typed, TypeOK, Work, Verdicts
  <2>2. CASE q # p
    <3>1. used'[q] = used[q] /\ acc'[q] = acc[q] /\ thread'[q] = thread[q]
      BY <2>1, <2>2 DEF Working, Take, Age, Tally, Deposit
    <3> QED
      BY <1>1, <2>1, <3>1 DEF Kept
  <2>3. ASSUME q = p, NEW f \in Files, Take(p, t, f)
        PROVE  Kept(q)'
    <3>1. acc' = acc
      BY <2>3 DEF Take
    <3>2. CASE Find(known[p], f)
      <4>1. /\ used'[p] \subseteq used[p] \cup {f} /\ thread' = thread
        BY <2>1, <2>3, <3>2 DEF Take
      <4>2. f \in known[p]
        BY <3>2, FoundIsKnown
      <4> QED
        BY <1>1, <2>1, <2>3, <3>1, <4>1, <4>2 DEF Kept
    <3>3. CASE ~Find(known[p], f)
      <4>1. used' = used
        BY <2>3, <3>3 DEF Take
      <4>2. \A u \in Threads : thread'[p][u].pending \subseteq thread[p][u].pending \cup {f}
        BY <2>1, <2>3 DEF Take, Work
      <4> QED
        BY <1>1, <2>1, <2>3, <3>1, <3>3, <4>1, <4>2 DEF Kept
    <3> QED
      BY <3>2, <3>3
  <2>4. CASE q = p /\ (Age(p, t) \/ Tally(p, t))
    <3>1. /\ used' = used /\ acc' = acc
          /\ \A u \in Threads : thread'[p][u].pending = thread[p][u].pending
      <4>1. CASE Age(p, t)
        BY <2>1, <4>1 DEF Age, Work
      <4>2. CASE Tally(p, t)
        <5>1. [NoWork EXCEPT !.pending = thread[p][t].pending].pending = thread[p][t].pending
          BY DEF NoWork
        <5> QED
          BY <2>1, <4>2, <5>1 DEF Tally
      <4> QED
        BY <2>4, <4>1, <4>2
    <3> QED
      BY <1>1, <2>1, <2>4, <3>1 DEF Kept
  <2>5. CASE q = p /\ Deposit(p, t)
    <3>1. /\ used' = used /\ acc'[p] = acc[p] \cup thread[p][t].pending
          /\ \A u \in Threads : thread'[p][u].pending \subseteq thread[p][u].pending
      BY <2>1, <2>5 DEF Deposit, NoWork, Work
    <3> QED
      BY <1>1, <2>1, <2>5, <3>1 DEF Kept
  <2> QED
    BY <2>2, <2>3, <2>4, <2>5 DEF Working
<1> QED
  BY <1>1, <1>2 DEF Verdicts

\* The other steps touch no verdicts, or drop those of a process.
LEMMA OtherKeeps ==
    ASSUME Typed, Verdicts,
           \/ \E p \in Procs : \/ LoadCache(p) \/ LoadVerdicts(p) \/ MergeRows(p)
                               \/ CreateTmp(p) \/ Write(p) \/ SyncAll(p) \/ Rename(p)
                               \/ SaveFails(p) \/ Die(p)
           \/ PowerLoss \/ UNCHANGED vars
    PROVE  Verdicts'
<1>1. ASSUME UNCHANGED <<verdicts, told, known, used, acc, thread>>
      PROVE  Verdicts'
  BY <1>1 DEF Verdicts, Kept
<1>2. ASSUME NEW p \in Procs, LoadVerdicts(p)
      PROVE  Verdicts'
  <2>1. UNCHANGED <<verdicts, told>>
    BY <1>2 DEF LoadVerdicts
  <2>2. ASSUME NEW q \in Procs
        PROVE  Kept(q)'
    <3>1. CASE q = p
      <4>1. /\ known'[q] = verdicts.known /\ used'[q] = {} /\ acc'[q] = {}
            /\ \A t \in Threads : thread'[q][t].pending = {}
        BY <1>2, <3>1 DEF LoadVerdicts, Typed, TypeOK, NoWork
      <4> QED
        BY <4>1 DEF Kept, Verdicts
    <3>2. CASE q # p
      <4>1. /\ known'[q] = known[q] /\ used'[q] = used[q] /\ acc'[q] = acc[q]
            /\ thread'[q] = thread[q]
        BY <1>2, <3>2 DEF LoadVerdicts, Typed, TypeOK
      <4> QED
        BY <4>1 DEF Kept, Verdicts
    <3> QED
      BY <3>1, <3>2
  <2> QED
    BY <2>1, <2>2 DEF Verdicts
<1>3. ASSUME NEW p \in Procs, Die(p)
      PROVE  Verdicts'
  BY <1>3, DroppedKept DEF Die, Gone, Verdicts
<1>4. ASSUME PowerLoss
      PROVE  Verdicts'
  <2>1. Dropped(Procs)
    BY <1>4 DEF PowerLoss, Gone
  <2>2. verdicts'.known \subseteq Rejects /\ (verdicts'.state = "whole" => told' \subseteq verdicts'.known)
    BY <1>4 DEF PowerLoss, NoVerdicts, Verdicts
  <2> QED
    BY <2>1, <2>2, DroppedKept DEF Verdicts
<1>5. ASSUME NEW p \in Procs,
             \/ LoadCache(p) \/ MergeRows(p) \/ CreateTmp(p) \/ Write(p)
             \/ SyncAll(p) \/ Rename(p) \/ SaveFails(p)
      PROVE  UNCHANGED <<verdicts, told, known, used, acc, thread>>
  BY <1>5 DEF LoadCache, MergeRows, CreateTmp, Write, SyncAll, Rename, SaveFails, memory
<1>6. CASE UNCHANGED vars
  BY <1>1, <1>6 DEF vars, memory
<1> QED
  BY <1>1, <1>2, <1>3, <1>4, <1>5, <1>6

(* VerdictsKept: of the verdicts a search found or relied on, none is lost by *)
(* its save, whatever MAX_KEPT is, and only files the probe rejected have one.*)
THEOREM VerdictsKeptCorrect == Spec => []VerdictsKept
<1>1. Start => Verdicts
  <2> SUFFICES ASSUME Start
               PROVE  Verdicts
    OBVIOUS
  <2>1. verdicts.known = {} /\ told = {}
    BY DEF Start, NoVerdicts
  <2>2. ASSUME NEW p \in Procs
        PROVE  Kept(p)
    <3>1. /\ known[p] = {} /\ used[p] = {} /\ acc[p] = {}
          /\ \A t \in Threads : thread[p][t].pending = {}
      BY DEF Start, NoWork
    <3> QED
      BY <3>1 DEF Kept
  <2> QED
    BY <2>1, <2>2 DEF Verdicts
<1>2. Typed /\ Verdicts /\ [Next]_vars => Verdicts'
  BY SaveKeeps, WorkKeeps, OtherKeeps DEF Next, Working
<1>3. Verdicts => VerdictsKept
  BY DEF Verdicts, VerdictsKept
<1> QED
  BY <1>1, <1>2, <1>3, TypedInit, TypedStep, PTL DEF Spec

-----------------------------------------------------------------------------
(* The cache's file.  As long as no two saves shared the temporary file, it   *)
(* is written by one process at a time, which holds the inode it names, and   *)
(* it is neither the file that is found nor one that is mapped.               *)
Saving(p) == pc[p] \in {"write", "rename"}

Stored ==
    /\ \A p, q \in Procs : Saving(p) /\ Saving(q) => p = q
    /\ \A p \in Procs : pc[p] = "write" =>
           /\ tmp # 0 /\ fd[p] = tmp
           /\ \A s \in Segments : s <= wrote[p] => inode[tmp][s] = table[p]
    /\ \A p \in Procs : pc[p] = "rename" => tmp # 0 /\ Whole(inode[tmp]) /\ tmp \in synced
    /\ path # 0 => Whole(inode[path]) /\ path \in synced /\ path # tmp
    /\ \A p \in Procs : mapped[p] # 0 => Whole(inode[mapped[p]]) /\ mapped[p] # tmp

\* Contents of which every segment is of one table are whole.
LEMMA WholeWhenWritten ==
    ASSUME NEW content \in Contents, NEW rows \in SUBSET Files,
           \A s \in Segments : content[s] = rows
    PROVE  Whole(content)
<1>1. rows # Zero
  BY KeptAssumption
<1>2. 1 \in Segments /\ DOMAIN content = Segments
  BY DEF Segments, Contents
<1>3. content # <<>>
  <2>1. DOMAIN <<>> = {}
    OBVIOUS
  <2> QED
    BY <1>2, <2>1
<1> QED
  BY <1>1, <1>2, <1>3 DEF Whole

(* The steps that neither open nor write nor rename.                          *)
LEMMA StoredApart ==
    ASSUME Typed, Stored, UNCHANGED <<inode, synced, path, tmp>>,
           \A p \in Procs : Saving(p)' =>
               /\ pc'[p] = pc[p] /\ fd'[p] = fd[p]
               /\ wrote'[p] = wrote[p] /\ table'[p] = table[p],
           \A p \in Procs : mapped'[p] \in {mapped[p], path, 0}
    PROVE  Stored'
BY DEF Stored, Saving

\* A save begins with a temporary file of its own.
LEMMA CreateStored ==
    ASSUME Typed, Stored, NEW p \in Procs, CreateTmp(p), ~overlapped'
    PROVE  Stored'
<1>1. /\ Open \in Inodes /\ Open # 0 /\ tmp' = Open /\ path' = path /\ mapped' = mapped
      /\ synced' = synced \ {Open} /\ table' = table
      /\ pc' = [pc EXCEPT ![p] = "write"]
      /\ fd' = [fd EXCEPT ![p] = Open] /\ wrote' = [wrote EXCEPT ![p] = 0]
      /\ inode' = [inode EXCEPT ![Open] = [s \in Segments |-> Zero]]
  BY OpenType DEF CreateTmp, Typed, memory
<1>2. /\ inode \in [Inodes -> {<<>>} \cup Contents] /\ path \in Inodes \cup {0}
      /\ mapped \in [Procs -> Inodes \cup {0}] /\ fd \in [Procs -> Inodes \cup {0}]
      /\ wrote \in [Procs -> 0 .. 5] /\ pc \in [Procs -> {"off", "verdicts", "search",
                                  "create", "write", "rename", "keep", "done"}]
  BY DEF Typed, TypeOK, Contents
<1>3. path # 0 => path # Open
  BY <1>1 DEF Open, NewInode, Unnamed, CreateTmp, Stored
<1>4. ASSUME NEW q \in Procs, mapped[q] # 0
      PROVE  mapped[q] # Open
  BY <1>1, <1>4 DEF Open, NewInode, Unnamed, CreateTmp, Stored
<1>5. \A q \in Procs : ~Saving(q)
  BY DEF CreateTmp, Saving
<1>6. \A q \in Procs : Saving(q)' <=> q = p
  BY <1>1, <1>2, <1>5 DEF Saving
<1>7. pc'[p] = "write" /\ fd'[p] = tmp' /\ wrote'[p] = 0
  BY <1>1, <1>2
<1>8. \A i \in Inodes \ {Open} : inode'[i] = inode[i] /\ (i \in synced => i \in synced')
  BY <1>1, <1>2
<1>9. /\ path' # 0 => Whole(inode'[path']) /\ path' \in synced' /\ path' # tmp'
      /\ \A q \in Procs : mapped'[q] # 0 => Whole(inode'[mapped'[q]]) /\ mapped'[q] # tmp'
  BY <1>1, <1>2, <1>3, <1>4, <1>8 DEF Stored
<1>10. \A s \in Segments : ~(s <= wrote'[p])
  BY <1>7 DEF Segments
<1> QED
  BY <1>1, <1>6, <1>7, <1>9, <1>10 DEF Stored, Saving

\* A save writes into the temporary file only.
LEMMA WriteStored ==
    ASSUME Typed, Stored, NEW p \in Procs, Write(p)
    PROVE  Stored'
<1> DEFINE new == [s \in Segments |-> IF s = wrote[p] + 1 THEN table[p] ELSE inode[tmp][s]]
<1>1. /\ pc[p] = "write" /\ tmp # 0 /\ fd[p] = tmp
      /\ \A s \in Segments : s <= wrote[p] => inode[tmp][s] = table[p]
  BY DEF Write, Stored
<1>2. /\ UNCHANGED <<synced, path, tmp, pc, fd, mapped, table>>
      /\ inode' = [inode EXCEPT ![tmp] = new]
      /\ wrote' = [wrote EXCEPT ![p] = @ + 1]
  BY <1>1 DEF Write, memory
<1>3. /\ inode \in [Inodes -> {<<>>} \cup Contents] /\ tmp \in Inodes
      /\ path \in Inodes \cup {0} /\ mapped \in [Procs -> Inodes \cup {0}]
      /\ wrote \in [Procs -> 0 .. 5]
  BY <1>1 DEF Typed, TypeOK, Contents
<1>4. inode'[tmp] = new /\ wrote'[p] = wrote[p] + 1 /\ wrote[p] \in 0 .. 5
  <2> HIDE DEF new
  <2> QED
    BY <1>2, <1>3
<1>5. \A s \in Segments : s <= wrote'[p] => inode'[tmp][s] = table[p]
  BY <1>1, <1>4 DEF Segments
<1> HIDE DEF new
<1>6. \A i \in Inodes \ {tmp} : inode'[i] = inode[i]
  BY <1>2, <1>3
<1>7. \A q \in Procs : Saving(q) => q = p
  BY <1>1 DEF Stored, Saving
<1>8. /\ path' # 0 => Whole(inode'[path']) /\ path' \in synced' /\ path' # tmp'
      /\ \A q \in Procs : mapped'[q] # 0 => Whole(inode'[mapped'[q]]) /\ mapped'[q] # tmp'
  BY <1>2, <1>3, <1>6 DEF Stored
<1>9. \A q \in Procs : Saving(q)' <=> Saving(q)
  BY <1>2 DEF Saving
<1> QED
  BY <1>1, <1>2, <1>5, <1>7, <1>8, <1>9 DEF Stored, Saving

\* The temporary file reaches the device complete.
LEMMA SyncStored ==
    ASSUME Typed, Stored, NEW p \in Procs, SyncAll(p)
    PROVE  Stored'
<1>1. /\ pc[p] = "write" /\ tmp # 0 /\ fd[p] = tmp
      /\ \A s \in Segments : s <= wrote[p] => inode[tmp][s] = table[p]
      /\ wrote[p] = Cardinality(Segments)
  BY DEF SyncAll, Stored
<1>2. /\ UNCHANGED <<inode, path, tmp, wrote, mapped, table>>
      /\ synced' = synced \cup {tmp} /\ pc' = [pc EXCEPT ![p] = "rename"]
  BY <1>1 DEF SyncAll, memory
<1>3. Whole(inode[tmp])
  <2>1. \A s \in Segments : s <= wrote[p]
    BY <1>1, SegmentCount DEF Segments
  <2>2. inode[tmp] \in Contents /\ table[p] \in SUBSET Files
    BY <1>1 DEF Typed, Created, TypeOK
  <2> QED
    BY <1>1, <2>1, <2>2, WholeWhenWritten
<1>4. \A q \in Procs : Saving(q) => q = p
  BY <1>1 DEF Stored, Saving
<1>5. pc'[p] = "rename" /\ \A q \in Procs \ {p} : pc'[q] = pc[q]
  BY <1>2 DEF Typed, TypeOK
<1> QED
  BY <1>1, <1>2, <1>3, <1>4, <1>5 DEF Stored, Saving

\* The file that gets the name is complete and on the device.
LEMMA RenameStored ==
    ASSUME Typed, Stored, NEW p \in Procs, Rename(p)
    PROVE  Stored'
<1>1. pc[p] = "rename" /\ tmp # 0 /\ Whole(inode[tmp]) /\ tmp \in synced
  BY DEF Rename, Stored
<1>2. /\ UNCHANGED <<inode, synced, mapped>> /\ path' = tmp /\ tmp' = 0
      /\ pc' = [pc EXCEPT ![p] = "keep"]
  BY <1>1 DEF Rename, memory
<1>3. \A q \in Procs : ~Saving(q)'
  BY <1>1, <1>2 DEF Stored, Saving, Typed, TypeOK
<1> QED
  BY <1>1, <1>2, <1>3 DEF Stored, Saving

\* Every step keeps the files whole, unless two saves overlap.
LEMMA StoredStep ==
    ASSUME Typed, overlapped \/ Stored, [Next]_vars
    PROVE  (overlapped \/ Stored)'
<1>1. overlapped => overlapped'
  <2>1. ASSUME NEW p \in Procs, CreateTmp(p)
        PROVE  overlapped => overlapped'
    BY <2>1, Zenon DEF CreateTmp
  <2>2. ASSUME NEW p \in Procs,
               \/ LoadCache(p) \/ LoadVerdicts(p) \/ MergeRows(p) \/ Write(p) \/ SyncAll(p)
               \/ Rename(p) \/ SaveFails(p) \/ SaveVerdicts(p) \/ Die(p)
        PROVE  overlapped' = overlapped
    BY <2>2 DEF LoadCache, LoadVerdicts, MergeRows, Write, SyncAll, Rename, SaveFails,
                SaveVerdicts, Die, Gone
  <2>3. ASSUME NEW p \in Procs, NEW t \in Threads, Working(p, t)
        PROVE  overlapped' = overlapped
    BY <2>3 DEF Working, Take, Age, Tally, Deposit
  <2>4. CASE PowerLoss \/ UNCHANGED vars
    BY <2>4 DEF PowerLoss, Gone, vars
  <2> QED
    BY <2>1, <2>2, <2>3, <2>4 DEF Next, Working
<1> SUFFICES ASSUME Stored, ~overlapped'
             PROVE  Stored'
  BY <1>1
<1> USE DEF Typed
<1>2. ASSUME NEW p \in Procs, LoadCache(p) \/ LoadVerdicts(p) \/ MergeRows(p) \/ SaveFails(p)
      PROVE  Stored'
  <2>1. /\ UNCHANGED <<inode, synced, path, tmp>>
        /\ \A q \in Procs : Saving(q)' =>
               /\ pc'[q] = pc[q] /\ fd'[q] = fd[q]
               /\ wrote'[q] = wrote[q] /\ table'[q] = table[q]
        /\ \A q \in Procs : mapped'[q] \in {mapped[q], path, 0}
    BY <1>2 DEF LoadCache, LoadVerdicts, MergeRows, SaveFails, disk, memory, Saving, TypeOK
  <2> QED
    BY <2>1, StoredApart
<1>3. ASSUME NEW p \in Procs, NEW t \in Threads, Working(p, t)
      PROVE  Stored'
  <2>1. UNCHANGED <<inode, synced, path, tmp, pc, fd, wrote, table, mapped>>
    BY <1>3 DEF Working, Take, Age, Tally, Deposit, disk, saving
  <2> QED
    BY <2>1, StoredApart
<1>4. ASSUME NEW ps \in SUBSET Procs, Dropped(ps), UNCHANGED <<inode, path, tmp>>,
             synced' = synced \/ synced' = Inodes,
             \A q \in Procs : pc'[q] = pc[q] \/ pc'[q] \in {"off", "done"},
             \A q \in ps : pc'[q] \in {"off", "done"}
      PROVE  Stored'
  <2>1. ASSUME NEW q \in Procs
        PROVE  /\ Saving(q)' => /\ pc'[q] = pc[q] /\ fd'[q] = fd[q]
                                /\ wrote'[q] = wrote[q] /\ table'[q] = table[q]
               /\ mapped'[q] \in {mapped[q], 0}
    BY <1>4 DEF Dropped, Saving
  <2>2. synced \subseteq synced'
    BY <1>4 DEF TypeOK
  <2> QED
    BY <1>4, <2>1, <2>2 DEF Stored, Saving
<1>5. ASSUME NEW p \in Procs, SaveVerdicts(p)
      PROVE  Stored'
  <2>1. /\ Dropped({p}) /\ UNCHANGED <<inode, synced, path, tmp>>
        /\ pc' = [pc EXCEPT ![p] = "done"]
    BY <1>5 DEF SaveVerdicts, disk
  <2> QED
    BY <2>1, <1>4 DEF TypeOK
<1>6. ASSUME NEW p \in Procs, Die(p)
      PROVE  Stored'
  <2>1. /\ Dropped({p}) /\ UNCHANGED <<inode, synced, path, tmp>>
        /\ \A q \in Procs : pc'[q] = IF q = p THEN "off" ELSE pc[q]
    BY <1>6 DEF Die, Gone, disk
  <2> QED
    BY <2>1, <1>4
<1>7. ASSUME PowerLoss
      PROVE  Stored'
  <2>1. /\ Dropped(Procs) /\ UNCHANGED <<path, tmp>> /\ synced' = Inodes
        /\ \A q \in Procs : pc'[q] = "off"
    BY <1>7 DEF PowerLoss, Gone
  <2>2. path \in synced \cup {0}
    BY DEF Stored
  <2>3. inode' = inode
    BY <1>7, <2>2 DEF PowerLoss
  <2> QED
    BY <2>1, <2>3, <1>4
<1>8. ASSUME UNCHANGED vars
      PROVE  Stored'
  <2>1. UNCHANGED <<inode, synced, path, tmp, pc, fd, wrote, table, mapped>>
    BY <1>8 DEF vars, disk, saving, memory
  <2> QED
    BY <2>1, StoredApart
<1> QED
  BY <1>2, <1>3, <1>5, <1>6, <1>7, <1>8, CreateStored, WriteStored, SyncStored, RenameStored
     DEF Next, Working

(* LoadedWhole: whatever processes search and save, wherever one of them dies *)
(* and whenever the power goes, the cache that is found and every cache that  *)
(* is mapped is one that was saved to its end, unless two saves overlapped.   *)
THEOREM LoadedWholeCorrect == Spec => []LoadedWhole
<1>1. Start => Stored
  <2> SUFFICES ASSUME Start
               PROVE  Stored
    OBVIOUS
  <2>1. path = 0 /\ tmp = 0 /\ \A p \in Procs : pc[p] = "off" /\ mapped[p] = 0
    BY DEF Start
  <2> QED
    BY <2>1 DEF Stored, Saving
<1>2. overlapped \/ Stored => LoadedWhole
  <2> SUFFICES ASSUME Stored, NEW i \in ({path} \cup {mapped[p] : p \in Procs}) \ {0}
               PROVE  Whole(inode[i])
    BY DEF LoadedWhole
  <2> QED
    BY DEF Stored
<1> QED
  BY <1>1, <1>2, TypedInit, TypedStep, StoredStep, PTL DEF Spec
=============================================================================
