-------------------------- MODULE FileSearchProofs --------------------------
(***************************************************************************)
(* Theorems about FileSearch, for every directory, every length of the     *)
(* look-ahead and every ring that is longer than it, every file, every     *)
(* pattern, and every size of blocks, of chunks and of the probe.          *)
(***************************************************************************)
EXTENDS FileSearch, QueueLemmas, TLAPS

\* Two numbers that are less than r apart are in different slots of r.
LEMMA SlotsDiffer ==
  ASSUME NEW r \in Nat, NEW j \in Nat, NEW k \in Nat, j < k, k < j + r
  PROVE  j % r # k % r
<1> DEFINE q == (k \div r) - (j \div r)
<1>1. r > 0
  BY SMT
<1>2. /\ j \div r \in Int /\ k \div r \in Int
      /\ j = r * (j \div r) + (j % r) /\ k = r * (k \div r) + (k % r)
  BY <1>1, SMT
<1>3. SUFFICES ASSUME j % r = k % r
               PROVE  FALSE
  OBVIOUS
<1>4. j % r \in Int
  BY <1>1, SMT
<1>5. k - j = r * q
  BY <1>2, <1>3, <1>4, SMT
<1>6. q \in Int
  BY <1>2
<1>7. q >= 1 \/ q <= 0
  BY <1>6, SMT
<1>8. r * q >= r \/ r * q <= 0
  <2> HIDE DEF q
  <2>1. CASE q >= 1
    BY <2>1, <1>1, <1>6, SMT
  <2>2. CASE q <= 0
    BY <2>2, <1>1, <1>6, SMT
  <2> QED
    BY <2>1, <2>2, <1>7
<1> QED
  BY <1>1, <1>5, <1>8, SMT

\* What was found of a file ahead of its turn says what the options, the cache
\* and the verdicts say of it.
Suits(r, i) ==
  /\ r.of = {i}
  /\ r.skip # {} => (TRUE \in r.skip <=> UsesCache /\ entries[i].skip)
  /\ \A b \in r.binary : ~ SearchesBinary =>
       (b.known \/ entries[i].binaryExt <=> entries[i].verdict \/ entries[i].binaryExt)

\* The slots of the files between the one in turn and the end of the window
\* hold what was found of these files.
RingKept ==
  /\ node \in Nat /\ ahead \in Nat
  /\ pc = "list" => node = 0 /\ ahead = 0
  /\ ring = [s \in 0..(Ring - 1) |-> ring[s]]
  /\ \A j \in node..(ahead - 1) : Suits(ring[j % Ring], j + 1)

\* A directory's listing is finite.
Finite == Len(entries) \in Nat

\* The steps that look at no file to come: they keep the ring, and at most take
\* the next file.
Looking ==
  /\ ring' = ring /\ ahead' = ahead /\ node' \in {node, node + 1}
  /\ UNCHANGED <<entries, search, cli>>
  /\ pc' # "list"

\* Every step but the listing and the look-ahead keeps the ring and takes the next file at most.
LEMMA OtherSteps ==
  ASSUME \/ LeaveOut \/ SearchBuffered \/ StartStreaming \/ StreamChunk
         \/ FlushTail \/ EndStreaming \/ EndDirectory
  PROVE  Looking
<1>1. UNCHANGED <<entries, search, cli>>
  BY Zenon DEF LeaveOut, SearchBuffered, StartStreaming, StreamChunk, FlushTail, EndStreaming,
         EndDirectory, listing, input
<1>2. CASE LeaveOut
  BY <1>1, <1>2 DEF LeaveOut, Ready, Looking
<1>3. CASE SearchBuffered
  BY <1>1, <1>3, Zenon DEF SearchBuffered, Ready, GiveUp, Finish, Looking
<1>4. CASE StartStreaming
  BY <1>1, <1>4, Zenon DEF StartStreaming, Ready, GiveUp, Finish, Looking
<1>5. CASE StreamChunk
  BY <1>1, <1>5 DEF StreamChunk, Looking
<1>6. CASE FlushTail
  BY <1>1, <1>6 DEF FlushTail, Looking
<1>7. CASE EndStreaming
  BY <1>1, <1>7 DEF EndStreaming, Finish, Looking
<1>8. CASE EndDirectory
  BY <1>1, <1>8 DEF EndDirectory, Looking
<1> QED
  BY <1>2, <1>3, <1>4, <1>5, <1>6, <1>7, <1>8

\* Such a step keeps what the ring holds of the files to come.
LEMMA OtherStepsKeep ==
  ASSUME RingKept, Looking
  PROVE  RingKept'
<1>1. node' \in Nat /\ node' >= node /\ ahead' \in Nat /\ ahead' = ahead
  BY SMT DEF RingKept, Looking
<1>2. \A j \in node'..(ahead' - 1) : j \in node..(ahead - 1)
  BY <1>1, SMT DEF RingKept
<1>3. UNCHANGED <<UsesCache, SearchesBinary>>
  BY DEF UsesCache, SearchesBinary, need, Looking
<1>4. \A r, i : Suits(r, i)' <=> Suits(r, i)
  BY <1>3 DEF Suits, Looking
<1>5. \A j \in node'..(ahead' - 1) : Suits(ring[j % Ring], j + 1)'
  BY <1>2, <1>4 DEF RingKept, Looking
<1> QED
  BY <1>1, <1>5, Zenon DEF RingKept, Looking

\* lookahead_file: the result for a file suits it, whatever the file is.
LEMMA LookaheadSuits ==
  ASSUME NEW i PROVE Suits(Lookahead(i), i)
<1> DEFINE e == entries[i]
           n == nodes[i]
<1>1. CASE n = Poisoned \/ TooLarge(n)
  BY <1>1, Zenon DEF Lookahead, Nothing, Suits
<1>2. CASE ~ (n = Poisoned \/ TooLarge(n)) /\ ~ SearchesBinary /\ e.binaryExt
  <2>1. Lookahead(i) = [of |-> {i}, skip |-> {}, binary |-> {[known |-> TRUE, likely |-> TRUE]}]
    BY <1>2 DEF Lookahead
  <2> QED
    BY <1>2, <2>1 DEF Suits
<1>3. CASE /\ ~ (n = Poisoned \/ TooLarge(n)) /\ ~ (~ SearchesBinary /\ e.binaryExt)
           /\ UsesCache /\ e.skip
  <2>1. Lookahead(i) = [of |-> {i}, skip |-> {TRUE}, binary |-> {}]
    BY <1>3 DEF Lookahead
  <2> QED
    BY <1>3, <2>1 DEF Suits
<1>4. CASE /\ ~ (n = Poisoned \/ TooLarge(n)) /\ ~ (~ SearchesBinary /\ e.binaryExt)
           /\ ~ (UsesCache /\ e.skip)
  <2> DEFINE r == Lookahead(i)
  <2>1. /\ r.of = {i} /\ r.skip \in {{}, {FALSE}}
        /\ SearchesBinary \/ r.binary = {Hints(e)}
    BY <1>4, Zenon DEF Lookahead
  <2>2. Hints(e).known = e.verdict
    BY DEF Hints
  <2> HIDE DEF r
  <2> QED
    BY <1>4, <2>1, <2>2, Zenon DEF Suits, r
<1> QED
  BY <1>1, <1>2, <1>3, <1>4

\* A file that is looked at takes a slot of its own, for the window is shorter
\* than the ring.
LEMMA LookAheadKeeps ==
  ASSUME RingKept, Finite, LookAhead
  PROVE  RingKept'
<1> USE DEF RingKept
<1>1. /\ node \in Nat /\ ahead \in Nat /\ Ring \in Nat /\ Ring > 0
      /\ ahead < node + Ring
  <2>1. ahead < WindowEnd /\ node < Len(entries)
    BY DEF LookAhead
  <2> QED
    BY <2>1, RingAssumption, SMT DEF WindowEnd, Least, Finite
<1>2. /\ node' = node /\ ahead' = ahead + 1 /\ pc' = "files"
      /\ ring' = [ring EXCEPT ![ahead % Ring] = Lookahead(ahead + 1)]
      /\ UNCHANGED <<entries, search, cli>>
  BY DEF LookAhead, listing, input
<1>3. ahead % Ring \in 0..(Ring - 1)
  BY <1>1, SMT
<1>4. Suits(Lookahead(ahead + 1), ahead + 1)
  BY LookaheadSuits
<1>5. ring' = [s \in 0..(Ring - 1) |-> ring'[s]]
  BY <1>2, Zenon
<1>6. ASSUME NEW j \in node'..(ahead' - 1)
      PROVE  Suits(ring'[j % Ring], j + 1)
  <2>1. j \in Nat /\ node <= j /\ j <= ahead
    BY <1>1, <1>2, SMT
  <2>2. CASE j = ahead
    BY <2>2, <1>2, <1>3, <1>4
  <2>3. CASE j < ahead
    <3>1. j % Ring # ahead % Ring
      <4>1. ahead < j + Ring
        BY <1>1, <2>1, SMT
      <4> QED
        BY <1>1, <2>1, <2>3, <4>1, SlotsDiffer
    <3>2. j \in node..(ahead - 1)
      BY <1>1, <2>1, <2>3, SMT
    <3>3. j % Ring \in 0..(Ring - 1)
      BY <1>1, <2>1, SMT
    <3> QED
      BY <1>2, <3>1, <3>2, <3>3, Zenon
  <2> QED
    BY <1>1, <2>1, <2>2, <2>3, SMT
<1>7. node' \in Nat /\ ahead' \in Nat
  BY <1>1, <1>2, SMT
<1>8. \A r, i : Suits(r, i)' <=> Suits(r, i)
  BY <1>2 DEF Suits, UsesCache, SearchesBinary, need
<1>9. \A j \in node'..(ahead' - 1) : Suits(ring[j % Ring], j + 1)'
  BY <1>6, <1>8
<1> QED
  BY <1>2, <1>5, <1>7, <1>9

\* Looking ahead at a file overwrites the slot of none that is still to come.
LEMMA RingKeptStep ==
  ASSUME RingKept, Finite, [Next]_vars
  PROVE  RingKept'
<1>1. CASE LookAhead
  BY <1>1, LookAheadKeeps
<1>2. CASE ListDirectory
  <2>1. /\ pc = "list" /\ node' = node /\ ahead' = ahead /\ ring' = ring /\ pc' = "files"
    BY <1>2 DEF ListDirectory
  <2>2. node = 0 /\ ahead = 0 /\ \A j \in node'..(ahead' - 1) : FALSE
    BY <2>1, SMT DEF RingKept
  <2> QED
    BY <2>1, <2>2 DEF RingKept
<1>3. CASE UNCHANGED vars \/ Returned
  <2>1. UNCHANGED <<node, ahead, ring, pc, entries, search, cli>>
    BY <1>3 DEF vars, Returned, listing, input
  <2>2. \A r, i : Suits(r, i)' <=> Suits(r, i)
    BY <2>1 DEF Suits, UsesCache, SearchesBinary, need
  <2> QED
    BY <2>1, <2>2, Zenon DEF RingKept
<1>4. CASE \/ LeaveOut \/ SearchBuffered \/ StartStreaming \/ StreamChunk
           \/ FlushTail \/ EndStreaming \/ EndDirectory
  BY <1>4, OtherSteps, OtherStepsKeep
<1> QED
  BY <1>1, <1>2, <1>3, <1>4 DEF Next

\* The invariant of the ring, for every directory whose listing is finite.
LEMMA RingInvariance == Spec /\ []Finite => []RingKept
<1>1. Init => RingKept
  BY DEF Init, InitWorker, RingKept
<1>2. RingKept /\ Finite /\ [Next]_vars => RingKept'
  BY RingKeptStep
<1> QED
  BY <1>1, <1>2, PTL DEF Spec

\* The file in turn has been looked at.
LEMMA InWindow ==
  ASSUME RingKept, Finite, Ready
  PROVE  node \in node..(ahead - 1) /\ Suits(Pre, File)
<1>1. node \in node..(ahead - 1)
  BY RingAssumption, SMT DEF RingKept, Finite, Ready, WindowEnd, Least
<1> QED
  BY <1>1, Zenon DEF RingKept, Pre, File

\* RingOwn: when process_files hands a file to process_file, the slot of the
\* ring that it hands over was filled for this file, whatever FILE_PREFETCH_AHEAD
\* is below FILE_RING, and for a directory of any length.
THEOREM RingOwnCorrect == Spec /\ []Finite => []RingOwn
<1>1. RingKept /\ Finite => RingOwn
  BY InWindow DEF RingOwn, Suits
<1> QED
  BY <1>1, RingInvariance, PTL

-----------------------------------------------------------------------------
(* Which files are searched.                                               *)

Searched == {"buffered", "streamed", "rejected", "failed"}

\* The file has no reason of its own to be left out.
Permitted(i) ==
  LET n == nodes[i]
      e == entries[i]
  IN  /\ n # Poisoned
      /\ n.size <= MaxFile \/ IgnoresSizes \/ IgnoresAllFilters
      /\ ~ (e.skip /\ UsesCache)
      /\ ~ (e.verdict \/ e.binaryExt) \/ SearchesBinary
      /\ IgnoresGitignore \/ ~ (chain # <<>> /\ ChainIgnores(chain, Path(e), FALSE))

\* A directory's listing is finite, and an inode that could be read has a size.
Listing ==
  /\ Finite /\ Files = 1..Len(entries)
  /\ \A i \in Files : nodes[i] # Poisoned => nodes[i].size \in Nat

\* The search of the file in turn has ended the worker's round.
GivenUp ==
  /\ node < Len(entries) /\ File \in Files
  /\ outcome[File] = "failed" /\ nodes[File].kind = "damaged"

\* The files before the one in turn are decided, and what is decided of a file
\* is right; a file that is streamed was permitted, and the worker is done when
\* all are decided or it gave up.
Decisions ==
  /\ node \in Nat /\ node <= Len(entries)
  /\ pc \in {"list", "files", "chunks", "done"}
  /\ pc = "list" => entries = <<>>
  /\ pc # "list" => outcome = [i \in Files |-> outcome[i]]
  /\ \A i \in Files : i <= node => outcome[i] # "pending"
  /\ \A i \in Files : outcome[i] # "pending" => (outcome[i] \in Searched <=> Permitted(i))
  /\ pc = "chunks" => node < Len(entries) /\ Permitted(File)
  /\ pc = "done" => node = Len(entries) \/ GivenUp

\* What process_file decides from its own checks and from what was found ahead.
LEMMA FateRight ==
  ASSUME RingKept, Listing, Ready
  PROVE  /\ Fate \in {"poisoned", "large", "cached", "binary", "ignored", "buffered", "streamed"}
         /\ Fate \in {"buffered", "streamed"} <=> Permitted(File)
         /\ File \in Files
<1>1. Suits(Pre, File)
  BY InWindow DEF Listing
<1>2. File \in Files
  BY SMT DEF RingKept, Ready, File, Listing, Finite
<1>3. Inode # Poisoned => (TooLarge(Inode) <=> ~ (\/ Inode.size <= MaxFile
                                                 \/ IgnoresSizes \/ IgnoresAllFilters))
  <2>1. Inode # Poisoned => Inode.size \in Nat
    BY <1>2 DEF Listing, Inode
  <2>2. MaxFile \in Nat
    BY SizeAssumption
  <2> QED
    BY <2>1, <2>2 DEF TooLarge
<1>4. CacheSkips <=> UsesCache /\ Here.skip
  BY <1>1, Zenon DEF CacheSkips, Suits, Here
<1>5. KnownBinary <=> ~ SearchesBinary /\ (Here.verdict \/ Here.binaryExt)
  <2>1. CASE Pre.binary = {}
    <3>1. Binary = Hints(Here) /\ Hints(Here).known = Here.verdict
      BY <2>1 DEF Binary, Hints
    <3> QED
      BY <3>1 DEF KnownBinary
  <2>2. CASE Pre.binary # {}
    <3>1. Binary \in Pre.binary
      BY <2>2 DEF Binary
    <3>2. ~ SearchesBinary => (Binary.known \/ Here.binaryExt <=> Here.verdict \/ Here.binaryExt)
      BY <1>1, <3>1 DEF Suits, Here
    <3> QED
      BY <3>2 DEF KnownBinary
  <2> QED
    BY <2>1, <2>2
<1>6. Ignored <=> ~ (IgnoresGitignore \/ ~ (chain # <<>> /\ ChainIgnores(chain, Path(Here), FALSE)))
  BY Zenon DEF Ignored
<1>7. Permitted(File) <=> /\ Inode # Poisoned /\ ~ TooLarge(Inode)
                          /\ ~ CacheSkips /\ ~ KnownBinary /\ ~ Ignored
  BY <1>3, <1>4, <1>5, <1>6, Zenon DEF Permitted, Inode, Here
<1>8. /\ Fate \in {"poisoned", "large", "cached", "binary", "ignored", "buffered", "streamed"}
      /\ Fate \in {"buffered", "streamed"} <=> /\ Inode # Poisoned /\ ~ TooLarge(Inode)
                                               /\ ~ CacheSkips /\ ~ KnownBinary /\ ~ Ignored
  BY DEF Fate
<1> QED
  BY <1>2, <1>7, <1>8

\* The readers fail only on a run list that cannot be decoded.
LEMMA OnlyDamagedFails ==
  ASSUME NEW i, NEW n, NEW max, NEW check, NEW likely
  PROVE  /\ CollectChunks(i, n, max, check, likely).failed => n.kind = "damaged"
         /\ ReadFile(i, n, max, check, likely).failed => n.kind = "damaged"
<1>1. ~ NoPlan.failed /\ ~ Rejected.failed
  BY DEF NoPlan, Rejected
<1>2. \A h, c : ~ [NoPlan EXCEPT !.head = h, !.chunks = c].failed
  BY DEF NoPlan
<1>3. \A c : ~ [NoPlan EXCEPT !.chunks = c].failed
  BY DEF NoPlan
<1>4. \A text, p : Whole(text, p).failed = p.failed
  BY DEF Whole
<1>5. ~ Collect(i, n, max, check, likely).failed
  <2>1. \A all, heads : ~ Probed(n, all, max, heads).failed
    BY <1>1, <1>2, <1>3 DEF Probed
  <2> QED
    BY <1>1, <2>1 DEF Collect, CollectFrom
<1>6. CollectRuns(i, n, max, check).failed => n.kind = "damaged"
  <2>1. \A head, runs : ~ PlanAfter(head, runs, max).failed
    BY <1>1, <1>2 DEF PlanAfter
  <2> QED
    BY <1>1, <2>1 DEF CollectRuns
<1>7. \A text : ~ ReadInPlace(text, check).failed
  BY <1>1, <1>4 DEF ReadInPlace
<1>8. \A plan : ReadPlanned(i, plan, max).failed = plan.failed
  BY <1>4 DEF ReadPlanned
<1>9. CollectChunks(i, n, max, check, likely).failed => n.kind = "damaged"
  BY <1>5, <1>6 DEF CollectChunks
<1>10. ReadFile(i, n, max, check, likely).failed => n.kind = "damaged"
  BY <1>5, <1>6, <1>7, <1>8 DEF ReadFile, ReadExt4, ReadNtfs
<1> QED
  BY <1>9, <1>10

\* The options, the listing and the rules stay as they are once listed.
Settled == UNCHANGED <<img, ignores, parent, search, cli, entries, nodes, chain>>

\* What is permitted depends on the listing and the options only.
LEMMA PermittedSettled ==
  ASSUME Settled
  PROVE  /\ \A i : Permitted(i)' <=> Permitted(i)
         /\ Files' = Files
<1>1. \A e : Path(e)' = Path(e)
  BY DEF Path, Settled
<1>2. UNCHANGED <<IgnoresSizes, IgnoresAllFilters, UsesCache, SearchesBinary, IgnoresGitignore>>
  BY DEF IgnoresSizes, IgnoresAllFilters, UsesCache, SearchesBinary, IgnoresGitignore, need, Settled
<1> QED
  BY <1>1, <1>2, Zenon DEF Permitted, Files, Settled

\* The file in turn is decided, and the next one is in turn.
LEMMA DecideStep ==
  ASSUME Decisions, Listing, Settled, pc \in {"files", "chunks"}, node < Len(entries),
         NEW fate, fate # "pending", fate \in Searched <=> Permitted(File),
         outcome' = [outcome EXCEPT ![File] = fate],
         \/ node' = node + 1 /\ pc' = "files"
         \/ node' = node /\ pc' = "done" /\ fate = "failed" /\ nodes[File].kind = "damaged"
  PROVE  Decisions'
<1>1. /\ node \in Nat /\ Len(entries) \in Nat /\ Files = 1..Len(entries)
      /\ File = node + 1 /\ File \in Files
  BY DEF Decisions, Listing, Finite, File
<1>2. /\ Files' = Files /\ (\A i : Permitted(i)' <=> Permitted(i))
      /\ entries' = entries /\ nodes' = nodes
  BY PermittedSettled DEF Settled
<1>3. /\ outcome = [i \in Files |-> outcome[i]]
      /\ \A i \in Files : i <= node => outcome[i] # "pending"
      /\ \A i \in Files : outcome[i] # "pending" => (outcome[i] \in Searched <=> Permitted(i))
  BY DEF Decisions
<1>4. /\ outcome' = [i \in Files |-> outcome'[i]] /\ outcome'[File] = fate
      /\ \A i \in Files : i # File => outcome'[i] = outcome[i]
  BY <1>1, <1>3
<1>5. node' \in Nat /\ node' <= Len(entries') /\ node' <= node + 1
  BY <1>1, <1>2
<1>6. \A i \in Files : i <= node' => outcome'[i] # "pending"
  <2> SUFFICES ASSUME NEW i \in Files, i <= node' PROVE outcome'[i] # "pending"
    OBVIOUS
  <2>1. i = File \/ i <= node
    BY <1>1, <1>5
  <2> QED
    BY <1>3, <1>4, <2>1
<1>7. \A i \in Files : outcome'[i] # "pending" => (outcome'[i] \in Searched <=> Permitted(i))
  BY <1>3, <1>4
<1>8. ASSUME pc' = "done" PROVE GivenUp'
  <2>1. node' = node /\ fate = "failed" /\ nodes[File].kind = "damaged" /\ File' = File
    BY <1>8 DEF File
  <2> QED
    BY <1>1, <1>2, <1>4, <2>1 DEF GivenUp
<1>9. pc' \in {"files", "done"}
  OBVIOUS
<1> QED
  BY <1>2, <1>4, <1>5, <1>6, <1>7, <1>8, <1>9 DEF Decisions

\* The file in turn stays in turn.
LEMMA StayStep ==
  ASSUME Decisions, Listing, Settled, UNCHANGED <<node, outcome>>,
         \/ pc' = pc
         \/ pc' = "chunks" /\ node < Len(entries) /\ Permitted(File)
         \/ pc' = "done" /\ node = Len(entries),
         pc # "list"
  PROVE  Decisions'
<1>1. /\ Files' = Files /\ (\A i : Permitted(i)' <=> Permitted(i))
      /\ entries' = entries /\ nodes' = nodes /\ File' = File
  BY PermittedSettled DEF Settled, File
<1>2. GivenUp' <=> GivenUp
  BY <1>1 DEF GivenUp
<1> QED
  BY <1>1, <1>2 DEF Decisions

\* Each step decides the file in turn, if any, and decides it right.
LEMMA DecisionsStep ==
  ASSUME Decisions, RingKept, Listing, Listing', [Next]_vars
  PROVE  Decisions'
<1>1. CASE ListDirectory
  <2>1. /\ pc = "list" /\ pc' = "files" /\ node' = node
        /\ outcome' = [i \in DOMAIN entries' |-> "pending"]
    BY <1>1 DEF ListDirectory, ListEntries
  <2>2. node = 0 /\ Files' = DOMAIN entries' /\ Len(entries') \in Nat /\ Files' = 1..Len(entries')
    BY <2>1 DEF RingKept, Listing, Finite, Files
  <2>3. \A i \in Files' : outcome'[i] = "pending" /\ ~ (i <= node')
    BY <2>1, <2>2
  <2>4. node' \in Nat /\ node' <= Len(entries')
    BY <2>1, <2>2
  <2>5. outcome' = [i \in Files' |-> outcome'[i]]
    BY <2>1, <2>2
  <2> QED
    BY <2>1, <2>3, <2>4, <2>5 DEF Decisions
<1>2. CASE Returned \/ UNCHANGED vars
  <2>1. Settled /\ UNCHANGED <<node, outcome, pc>>
    BY <1>2 DEF Returned, vars, input, listing, Settled
  <2>2. CASE pc = "list"
    <3>1. /\ Files' = Files /\ (\A i : Permitted(i)' <=> Permitted(i))
          /\ entries' = entries
      BY <2>1, PermittedSettled DEF Settled
    <3> QED
      BY <2>1, <2>2, <3>1 DEF Decisions
  <2> QED
    BY <2>1, <2>2, StayStep
<1>3. CASE LookAhead \/ StreamChunk \/ FlushTail
  <2>1. Settled /\ UNCHANGED <<node, outcome, pc>> /\ pc # "list"
    BY <1>3, Zenon DEF LookAhead, StreamChunk, FlushTail, input, listing, Settled
  <2> QED
    BY <2>1, StayStep
<1>4. CASE EndDirectory
  <2>1. Settled /\ UNCHANGED <<node, outcome>> /\ pc = "files" /\ pc' = "done" /\ node = Len(entries)
    BY <1>4 DEF EndDirectory, input, listing, Settled
  <2> QED
    BY <2>1, StayStep
<1>5. CASE LeaveOut
  <2>1. Settled /\ pc' = pc /\ node' = node + 1 /\ Ready
    BY <1>5 DEF LeaveOut, input, listing, Settled
  <2>2. PICK fate \in {"poisoned", "large", "cached", "binary", "ignored"} :
          Fate = fate /\ outcome' = [outcome EXCEPT ![File] = fate]
    BY <1>5, Zenon DEF LeaveOut
  <2>3. fate # "pending" /\ (fate \in Searched <=> Permitted(File))
    BY <2>1, <2>2, FateRight DEF Searched
  <2>4. pc = "files" /\ node < Len(entries)
    BY <2>1 DEF Ready
  <2> QED
    BY <2>1, <2>2, <2>3, <2>4, DecideStep, Zenon
<1>6. CASE SearchBuffered
  <2>1. Settled /\ Ready /\ Fate = "buffered" /\ pc = "files" /\ node < Len(entries)
    BY <1>6 DEF SearchBuffered, input, listing, Settled, Ready
  <2>2. Permitted(File)
    BY <2>1, FateRight
  <2>3. PICK read \in {ReadFile(img, Inode, MaxSize(Inode), ~ SearchesBinary, Likely)} :
          \/ read.failed /\ GiveUp
          \/ /\ pc' = pc /\ node' = node + 1
             /\ outcome' = [outcome EXCEPT ![File] = IF read.rejected THEN "rejected" ELSE "buffered"]
    BY <1>6, Zenon DEF SearchBuffered, Finish
  <2>4. CASE read.failed /\ GiveUp
    <3>1. nodes[File].kind = "damaged"
      BY <2>3, <2>4, OnlyDamagedFails DEF Inode
    <3>2. outcome' = [outcome EXCEPT ![File] = "failed"] /\ pc' = "done" /\ node' = node
      BY <2>4 DEF GiveUp
    <3>3. "failed" \in Searched
      BY DEF Searched
    <3> QED
      BY <2>1, <2>2, <3>1, <3>2, <3>3, DecideStep, Zenon
  <2>5. CASE /\ pc' = pc /\ node' = node + 1
             /\ outcome' = [outcome EXCEPT ![File] = IF read.rejected THEN "rejected" ELSE "buffered"]
    <3> DEFINE fate == IF read.rejected THEN "rejected" ELSE "buffered"
    <3>1. fate \in Searched /\ fate # "pending" /\ outcome' = [outcome EXCEPT ![File] = fate]
      BY <2>5 DEF Searched
    <3> HIDE DEF fate
    <3> QED
      BY <2>1, <2>2, <2>5, <3>1, DecideStep, Zenon
  <2> QED
    BY <2>3, <2>4, <2>5
<1>7. CASE StartStreaming
  <2>1. Settled /\ Ready /\ Fate = "streamed" /\ pc = "files" /\ node < Len(entries)
    BY <1>7, Zenon DEF StartStreaming, input, listing, Settled, Ready
  <2>2. Permitted(File)
    BY <2>1, FateRight
  <2>3. PICK plan \in {CollectChunks(img, Inode, MaxSize(Inode), ~ SearchesBinary, Likely)} :
          \/ plan.failed /\ GiveUp
          \/ /\ pc' = pc /\ node' = node + 1
             /\ outcome' = [outcome EXCEPT ![File] = "rejected"]
          \/ pc' = "chunks" /\ UNCHANGED <<node, outcome>>
    BY <1>7, Zenon DEF StartStreaming, Finish
  <2>4. CASE plan.failed /\ GiveUp
    <3>1. nodes[File].kind = "damaged"
      BY <2>3, <2>4, OnlyDamagedFails DEF Inode
    <3>2. outcome' = [outcome EXCEPT ![File] = "failed"] /\ pc' = "done" /\ node' = node
      BY <2>4 DEF GiveUp
    <3>3. "failed" \in Searched
      BY DEF Searched
    <3> QED
      BY <2>1, <2>2, <3>1, <3>2, <3>3, DecideStep, Zenon
  <2>5. CASE pc' = pc /\ node' = node + 1 /\ outcome' = [outcome EXCEPT ![File] = "rejected"]
    <3>1. "rejected" \in Searched
      BY DEF Searched
    <3> QED
      BY <2>1, <2>2, <2>5, <3>1, DecideStep, Zenon
  <2>6. CASE pc' = "chunks" /\ UNCHANGED <<node, outcome>>
    BY <2>1, <2>2, <2>6, StayStep
  <2> QED
    BY <2>3, <2>4, <2>5, <2>6
<1>8. CASE EndStreaming
  <2>1. /\ Settled /\ pc = "chunks" /\ pc' = "files" /\ node' = node + 1
        /\ outcome' = [outcome EXCEPT ![File] = "streamed"]
    BY <1>8 DEF EndStreaming, Finish, input, listing, Settled
  <2>2. "streamed" \in Searched
    BY DEF Searched
  <2>3. node < Len(entries) /\ Permitted(File)
    BY <2>1 DEF Decisions
  <2> QED
    BY <2>1, <2>2, <2>3, DecideStep, Zenon
<1> QED
  BY <1>1, <1>2, <1>3, <1>4, <1>5, <1>6, <1>7, <1>8 DEF Next

\* At first nothing is listed, so nothing is decided.
LEMMA DecisionsStart ==
  ASSUME Init
  PROVE  Decisions
<1>1. entries = <<>> /\ node = 0 /\ pc = "list"
  BY DEF Init, InitWorker
<1>2. DOMAIN <<>> = {} /\ Len(<<>>) = 0
  OBVIOUS
<1>3. Files = {}
  BY <1>1, <1>2 DEF Files
<1> QED
  BY <1>1, <1>2, <1>3 DEF Decisions

\* SearchedUnlessLeftOut: process_files searches a file unless it has a reason
\* of its own to be left out (unreadable inode, size, cache, binary, ignored),
\* although part of that was found ahead of its turn and is read from a ring;
\* and only a damaged run list keeps the files behind it from being looked at.
THEOREM SearchedUnlessLeftOutCorrect == Spec /\ []Listing => []SearchedUnlessLeftOut
<1>1. Init => Decisions
  BY DecisionsStart
<1>2. Decisions /\ RingKept /\ Listing /\ Listing' /\ [Next]_vars => Decisions'
  BY DecisionsStep
<1>3. Decisions /\ Listing => SearchedUnlessLeftOut
  <2> SUFFICES ASSUME Decisions, Listing, NEW i \in Files
               PROVE  /\ outcome[i] = "pending" /\ pc = "done" =>
                           \E j \in 1..(i - 1) : outcome[j] = "failed" /\ nodes[j].kind = "damaged"
                      /\ outcome[i] # "pending" => (outcome[i] \in Searched <=> Permitted(i))
    BY Zenon DEF SearchedUnlessLeftOut, Permitted, Searched
  <2>1. ASSUME outcome[i] = "pending", pc = "done"
        PROVE  \E j \in 1..(i - 1) : outcome[j] = "failed" /\ nodes[j].kind = "damaged"
    <3>1. node \in Nat /\ Len(entries) \in Nat /\ i \in 1..Len(entries) /\ ~ (i <= node)
      BY <2>1 DEF Decisions, Listing, Finite
    <3>2. GivenUp
      BY <2>1, <3>1 DEF Decisions
    <3>3. File # i /\ File = node + 1 /\ outcome[File] = "failed" /\ nodes[File].kind = "damaged"
      BY <2>1, <3>2 DEF GivenUp, File
    <3>4. File \in 1..(i - 1)
      BY <3>1, <3>3
    <3> QED
      BY <3>3, <3>4
  <2> QED
    BY <2>1 DEF Decisions
<1>4. Listing => Finite
  BY DEF Listing
<1> QED
  BY <1>1, <1>2, <1>3, <1>4, RingInvariance, PTL DEF Spec

-----------------------------------------------------------------------------
(* What is found piece by piece is what the whole holds.                   *)

\* n, or all there are if these are fewer.
AtMost(l, n) == IF l <= n THEN l ELSE n

\* Where the windows of a text of N characters, of a piece of M behind it and of
\* the join of the text's last s and the piece's first h are in the whole, which
\* has no others.
WindowsPlaced(N, M, n, s, h) ==
  /\ \A p \in 1..(N + 1 - n) :
       p \in 1..(N + M + 1 - n) /\ \A i \in 1..n : p + i - 1 \in 1..N
  /\ \A p \in 1..(M + 1 - n) :
       p + N \in 1..(N + M + 1 - n) /\ \A i \in 1..n : p + i - 1 \in 1..M
  /\ \A p \in 1..(s + h + 1 - n) :
       p + N - s \in 1..(N + M + 1 - n) /\ \A i \in 1..n : p + i - 1 \in 1..(s + h)
  /\ \A p \in 1..(N + M + 1 - n) :
       \/ p \in 1..(N + 1 - n)
       \/ \E q \in 1..(M + 1 - n) : p = q + N
       \/ s # 0 /\ \E q \in 1..(s + h + 1 - n) : p = q + N - s

\* With one character less than a window on each side of the cut they are so.
LEMMA WindowPlaces ==
  ASSUME NEW N \in Nat, NEW M \in Nat, NEW n \in Nat \ {0}
  PROVE  WindowsPlaced(N, M, n, AtMost(N, n - 1), AtMost(M, n - 1))
<1> DEFINE k == n - 1
           s == AtMost(N, k)
           h == AtMost(M, k)
<1>0. k \in Nat /\ n = k + 1
  OBVIOUS
<1> HIDE DEF k
<1>1. /\ s \in Nat /\ h \in Nat /\ s <= N /\ s <= k /\ h <= M /\ h <= k
      /\ (s = N \/ s = k) /\ (h = M \/ h = k)
  BY <1>0 DEF AtMost
<1> HIDE DEF s, h
<1>2. \A p \in 1..(N + 1 - n) :
        p \in 1..(N + M + 1 - n) /\ \A i \in 1..n : p + i - 1 \in 1..N
  OBVIOUS
<1>3. \A p \in 1..(M + 1 - n) :
        p + N \in 1..(N + M + 1 - n) /\ \A i \in 1..n : p + i - 1 \in 1..M
  OBVIOUS
<1>4. \A p \in 1..(s + h + 1 - n) :
        p + N - s \in 1..(N + M + 1 - n) /\ \A i \in 1..n : p + i - 1 \in 1..(s + h)
  BY <1>0, <1>1
<1>5. ASSUME NEW p \in 1..(N + M + 1 - n)
      PROVE  \/ p \in 1..(N + 1 - n)
             \/ \E q \in 1..(M + 1 - n) : p = q + N
             \/ s # 0 /\ \E q \in 1..(s + h + 1 - n) : p = q + N - s
  <2>1. CASE p <= N + 1 - n
    BY <1>0, <2>1
  <2>2. CASE p > N
    <3>1. p - N \in 1..(M + 1 - n) /\ p = (p - N) + N
      BY <1>0, <2>2
    <3> QED
      BY <3>1
  <2>3. CASE p > N + 1 - n /\ p <= N
    <3>1. p - N + s \in 1..(s + h + 1 - n) /\ p = (p - N + s) + N - s /\ s # 0
      BY <1>0, <1>1, <2>3
    <3> QED
      BY <3>1
  <2> QED
    BY <2>1, <2>2, <2>3
<1> QED
  BY <1>2, <1>3, <1>4, <1>5 DEF WindowsPlaced, s, h, k

\* The characters of one text are those of another from behind the d-th on.
IsStretch(part, whole, d) == \A i \in 1..Len(part) : part[i] = whole[d + i]

\* A join of a text's end with a head of the piece is a stretch of the whole.
LEMMA JoinIs ==
  ASSUME NEW S, NEW text \in Seq(S), NEW piece \in Seq(S), NEW seam \in Seq(S), NEW head \in Seq(S),
         Len(seam) <= Len(text), Len(head) <= Len(piece),
         IsStretch(seam, text, Len(text) - Len(seam)), IsStretch(head, piece, 0)
  PROVE  /\ seam \o head \in Seq(S) /\ Len(seam \o head) = Len(seam) + Len(head)
         /\ IsStretch(seam \o head, text \o piece, Len(text) - Len(seam))
<1> DEFINE M == Len(piece)
           N == Len(text)
           s == Len(seam)
           h == Len(head)
           c == text \o piece
           j == seam \o head
<1>1. N \in Nat /\ M \in Nat /\ s \in Nat /\ h \in Nat
  BY LenProperties
<1>2. /\ c \in Seq(S) /\ Len(c) = N + M
      /\ \A i \in 1..(N + M) : c[i] = IF i <= N THEN text[i] ELSE piece[i - N]
  BY ConcatProperties
<1>3. /\ j \in Seq(S) /\ Len(j) = s + h
      /\ \A i \in 1..(s + h) : j[i] = IF i <= s THEN seam[i] ELSE head[i - s]
  BY ConcatProperties
<1>4. h <= M /\ s <= N
  OBVIOUS
<1>6. /\ \A i \in 1..s : seam[i] = text[N - s + i]
      /\ \A i \in 1..h : head[i] = piece[i]
  <2>1. \A i \in 1..h : head[i] = piece[0 + i] /\ 0 + i = i
    BY DEF IsStretch
  <2> QED
    BY <2>1 DEF IsStretch
<1> HIDE DEF c, j, M, N, s, h
<1>5. ASSUME NEW i \in 1..(s + h) PROVE j[i] = c[N - s + i]
  <2>1. N - s + i \in 1..(N + M)
    BY ONLY <1>1, <1>4, i \in 1..(s + h)
  <2>2. CASE i <= s
    <3>1. i \in 1..s /\ N - s + i <= N
      BY ONLY <1>1, <2>2, i \in 1..(s + h)
    <3> QED
      BY <1>2, <1>3, <1>6, <2>1, <2>2, <3>1
  <2>3. CASE ~(i <= s)
    <3>1. i - s \in 1..h /\ ~(N - s + i <= N) /\ N - s + i - N = i - s
      BY ONLY <1>1, <2>3, i \in 1..(s + h)
    <3>2. j[i] = head[i - s] /\ head[i - s] = piece[i - s]
      BY <1>3, <1>6, <2>3, <3>1
    <3>3. \A x \in 1..(N + M) : ~(x <= N) => c[x] = piece[x - N]
      BY <1>2
    <3>4. c[N - s + i] = piece[N - s + i - N]
      <4>1. PICK x \in 1..(N + M) : x = N - s + i
        BY <2>1
      <4>2. c[x] = piece[x - N]
        BY <3>1, <3>3, <4>1
      <4> QED
        BY <1>1, <4>1, <4>2
    <3>5. c[N - s + i] = piece[i - s]
      BY <1>1, <3>1, <3>4
    <3> QED
      BY <3>2, <3>5
  <2> QED
    BY <2>2, <2>3
<1> QED
  BY <1>3, <1>5 DEF c, j, N, s, h, IsStretch

\* The last n characters, at most.
LEMMA LastOfIs ==
  ASSUME NEW S, NEW text \in Seq(S), NEW n \in Nat, NEW l, l = Len(text),
         NEW m, m = AtMost(l, n)
  PROVE  /\ LastOf(text, n) \in Seq(S) /\ Len(LastOf(text, n)) = m /\ m \in Nat /\ m <= l
         /\ \A i \in 1..m : LastOf(text, n)[i] = text[l - m + i]
<1> DEFINE a == l - m + 1
           s == SubSeq(text, a, l)
<1>1. l \in Nat /\ \A i \in 1..l : text[i] \in S
  BY LenProperties, ElementOfSeq
<1>2. m \in Nat /\ m <= l
  BY <1>1 DEF AtMost
<1>3. LastOf(text, n) = s
  <2>1. a = IF l <= n THEN 1 ELSE l - n + 1
    BY <1>1 DEF AtMost
  <2> QED
    BY <2>1, Zenon DEF LastOf
<1>4. a \in Int /\ \A i \in a..l : i \in 1..l
  BY <1>1, <1>2
<1>5. l - a + 1 = m /\ (a <= l <=> m # 0) /\ \A i \in 1..m : a + i - 1 = l - m + i
  BY <1>1, <1>2
<1> HIDE DEF a
<1>6. /\ s \in Seq(S) /\ Len(s) = IF a <= l THEN l - a + 1 ELSE 0
      /\ \A i \in 1..(l - a + 1) : s[i] = text[a + i - 1]
  BY <1>1, <1>4, SubSeqProperties
<1> HIDE DEF s
<1>7. Len(s) = m
  BY <1>2, <1>5, <1>6
<1>8. \A i \in 1..m : s[i] = text[l - m + i]
  BY <1>5, <1>6
<1> QED
  BY <1>2, <1>3, <1>6, <1>7, <1>8

\* The first n characters, at most.
LEMMA FirstOfIs ==
  ASSUME NEW S, NEW text \in Seq(S), NEW n \in Nat, NEW m, m = AtMost(Len(text), n)
  PROVE  /\ FirstOf(text, n) \in Seq(S) /\ Len(FirstOf(text, n)) = m /\ m \in Nat
         /\ m <= Len(text)
         /\ \A i \in 1..m : FirstOf(text, n)[i] = text[i]
<1> DEFINE s == SubSeq(text, 1, m)
<1>1. Len(text) \in Nat /\ \A i \in 1..Len(text) : text[i] \in S
  BY LenProperties, ElementOfSeq
<1>2. m \in Nat /\ m <= Len(text)
  BY <1>1 DEF AtMost
<1>3. FirstOf(text, n) = s
  BY DEF FirstOf, AtMost
<1>4. /\ s \in Seq(S) /\ Len(s) = IF 1 <= m THEN m - 1 + 1 ELSE 0
      /\ \A i \in 1..(m - 1 + 1) : s[i] = text[1 + i - 1]
  BY <1>1, <1>2, SubSeqProperties
<1> HIDE DEF s
<1>5. Len(s) = m /\ \A i \in 1..m : s[i] = text[i]
  BY <1>2, <1>4
<1> QED
  BY <1>2, <1>3, <1>4, <1>5

\* The seam after a piece is the end of all that was scanned.
LEMMA SeamExact ==
  ASSUME NEW S, NEW text \in Seq(S), NEW piece \in Seq(S), NEW k \in Nat
  PROVE  NewSeam(LastOf(text, k), piece, k) = LastOf(text \o piece, k)
<1> DEFINE N == Len(text)
           M == Len(piece)
           c == text \o piece
           seam == LastOf(text, k)
           s == AtMost(N, k)
           m == AtMost(N + M, k)
           end == LastOf(c, k)
<1>1. /\ N \in Nat /\ M \in Nat /\ c \in Seq(S) /\ Len(c) = N + M
      /\ \A i \in 1..(N + M) : c[i] = IF i <= N THEN text[i] ELSE piece[i - N]
  BY LenProperties, ConcatProperties
<1>2. /\ seam \in Seq(S) /\ Len(seam) = s /\ s \in Nat /\ s <= N
      /\ \A i \in 1..s : seam[i] = text[N - s + i]
  BY LastOfIs
<1> HIDE DEF c
<1>3. /\ end \in Seq(S) /\ Len(end) = m /\ m \in Nat /\ m <= N + M
      /\ \A i \in 1..m : end[i] = c[N + M - m + i]
  <2> HIDE DEF m
  <2>1. m = AtMost(Len(c), k)
    BY <1>1 DEF m
  <2> QED
    BY <1>1, <2>1, LastOfIs
<1> HIDE DEF seam, end
<1>4. CASE M >= k
  <2> DEFINE e == LastOf(piece, k)
  <2> HIDE DEF N, s, m
  <2>1. k = AtMost(M, k) /\ m = k
    BY <1>1, <1>4 DEF AtMost, m
  <2>2. /\ e \in Seq(S) /\ Len(e) = k
        /\ \A i \in 1..k : e[i] = piece[M - k + i]
    BY <2>1, LastOfIs, SMTT(20)
  <2> HIDE DEF e, M
  <2>3. ASSUME NEW i \in 1..k PROVE e[i] = end[i]
    <3>1. e[i] = piece[M - k + i] /\ end[i] = c[N + M - k + i]
      BY <1>3, <2>1, <2>2
    <3>2. N + M - k + i \in 1..(N + M) /\ ~(N + M - k + i <= N) /\ N + M - k + i - N = M - k + i
      BY <1>1, <1>4
    <3> QED
      BY <1>1, <3>1, <3>2
  <2>4. e = end
    BY <1>3, <2>1, <2>2, <2>3, SeqEqual
  <2> QED
    BY <1>4, <2>4 DEF NewSeam, e, end, M, c
<1>5. CASE ~(M >= k)
  <2> DEFINE j == seam \o piece
             e == LastOf(j, k)
  <2> HIDE DEF N, m, s
  <2>1. /\ j \in Seq(S) /\ Len(j) = s + M
        /\ \A i \in 1..(s + M) : j[i] = c[N - s + i]
    <3>1. /\ text \in Seq(S) /\ piece \in Seq(S) /\ seam \in Seq(S)
          /\ Len(seam) <= Len(text) /\ Len(piece) <= Len(piece)
      BY <1>1, <1>2 DEF M, N
    <3>2. IsStretch(seam, text, Len(text) - Len(seam)) /\ IsStretch(piece, piece, 0)
      BY <1>2 DEF IsStretch, N
    <3>3. /\ seam \o piece \in Seq(S) /\ Len(seam \o piece) = Len(seam) + Len(piece)
          /\ IsStretch(seam \o piece, text \o piece, Len(text) - Len(seam))
      BY ONLY <3>1, <3>2, JoinIs
    <3> QED
      BY <1>2, <3>3 DEF c, M, N, IsStretch
  <2> HIDE DEF j, M
  <2>2. m = AtMost(s + M, k) /\ s + M = Len(j)
    BY <1>1, <2>1 DEF AtMost, m, s
  <2>3. /\ e \in Seq(S) /\ Len(e) = m /\ m <= s + M
        /\ \A i \in 1..m : e[i] = j[s + M - m + i]
    <3>1. /\ LastOf(j, k) \in Seq(S) /\ Len(LastOf(j, k)) = m /\ m <= Len(j)
          /\ \A i \in 1..m : LastOf(j, k)[i] = j[Len(j) - m + i]
      <4>1. m = AtMost(Len(j), k)
        BY <2>2
      <4> HIDE DEF e
      <4> QED
        BY <2>1, <4>1, LastOfIs
    <3>2. /\ e \in Seq(S) /\ Len(e) = m /\ m <= s + M
          /\ \A i \in 1..m : e[i] = j[Len(j) - m + i]
      BY <2>2, <3>1 DEF e
    <3>3. ASSUME NEW i \in 1..m PROVE e[i] = j[s + M - m + i]
      <4>1. e[i] = j[Len(j) - m + i]
        BY <3>2
      <4>2. Len(j) - m + i = s + M - m + i
        <5>1. s \in Nat /\ M \in Nat
          BY <1>1, <1>2
        <5>2. m \in Nat
          BY <1>3
        <5>3. i \in Int /\ Len(j) = s + M
          BY <2>2, <5>2
        <5> QED
          BY ONLY <5>1, <5>2, <5>3
      <4> QED
        BY ONLY <4>1, <4>2
    <3> QED
      BY <3>2, <3>3
  <2> HIDE DEF e
  <2>4. ASSUME NEW i \in 1..m PROVE e[i] = end[i]
    <3>1. e[i] = j[s + M - m + i] /\ end[i] = c[N + M - m + i]
      BY <1>3, <2>3
    <3>2. s + M - m + i \in 1..(s + M) /\ N - s + (s + M - m + i) = N + M - m + i
      BY <1>1, <1>2, <1>3, <2>3
    <3> QED
      BY <2>1, <3>1, <3>2
  <2>5. e = end
    BY <1>3, <2>3, <2>4, SeqEqual, Zenon
  <2> QED
    BY <1>5, <2>5 DEF NewSeam, e, end, M, j, seam, c
<1> QED
  BY <1>1, <1>4, <1>5

\* sought is a record as FileSearch's need: what a search tracks.
\* A character as scan_fragments compares it, and the n of them from p on.
Seen1(c, sought) == IF sought.fold THEN Lower(c) ELSE c
Window(text, p, sought) == [i \in 1..sought.len |-> Seen1(text[p + i - 1], sought)]

\* A scan finds the windows of the text that are fragments.
LEMMA ScanIs ==
  ASSUME NEW S, NEW text \in Seq(S), NEW sought, sought.len \in Nat \ {0}
  PROVE  Scan(text, sought) =
           {Window(text, p, sought) : p \in 1..(Len(text) + 1 - sought.len)} \cap sought.frags
<1> DEFINE n == sought.len
           R == {Seen1(x, sought) : x \in S}
           t == IF sought.fold THEN Lowered(text) ELSE text
<1>1. /\ Len(text) \in Nat /\ DOMAIN text = 1..Len(text) /\ n \in Nat \ {0}
      /\ \A i \in 1..Len(text) : text[i] \in S
  BY LenProperties, ElementOfSeq
<1>2. /\ t \in Seq(R) /\ Len(t) = Len(text)
      /\ \A i \in 1..Len(text) : t[i] = Seen1(text[i], sought)
  <2>1. CASE sought.fold
    <3>1. t = [i \in 1..Len(text) |-> Lower(text[i])]
      BY <1>1, <2>1 DEF Lowered
    <3>2. \A i \in 1..Len(text) : Lower(text[i]) \in R
      BY <1>1, <2>1 DEF Seen1
    <3> HIDE DEF R, t
    <3> QED
      BY <1>1, <2>1, <3>1, <3>2 DEF Seen1
  <2>2. CASE ~sought.fold
    BY <1>1, <2>2 DEF Seen1
  <2> QED
    BY <2>1, <2>2
<1>3. ASSUME NEW p \in 1..(Len(text) + 1 - n)
      PROVE  SubSeq(t, p, p + n - 1) = Window(text, p, sought)
  <2> DEFINE s == SubSeq(t, p, p + n - 1)
             u == Window(text, p, sought)
  <2> HIDE DEF n, R, t
  <2>1. p \in Int /\ p + n - 1 \in Int /\ p \in 1..Len(text)
        /\ \A i \in p..(p + n - 1) : i \in 1..Len(text)
    BY <1>1
  <2>2. \A i \in p..(p + n - 1) : t[i] \in R
    BY <1>2, <2>1, ElementOfSeq
  <2>3. /\ s \in Seq(R) /\ Len(s) = IF p <= p + n - 1 THEN (p + n - 1) - p + 1 ELSE 0
        /\ \A i \in 1..((p + n - 1) - p + 1) : s[i] = t[p + i - 1]
    BY <2>1, <2>2, SubSeqProperties
  <2>4. Len(s) = n /\ \A i \in 1..n : s[i] = t[p + i - 1]
    BY <2>3, <1>1
  <2>5. \A i \in 1..n : p + i - 1 \in 1..Len(text) /\ p + i - 1 \in p..(p + n - 1)
    BY <2>1, <1>1
  <2>6. u = [i \in 1..n |-> Seen1(text[p + i - 1], sought)]
    BY DEF Window, n
  <2> HIDE DEF s, u
  <2>7. \A i \in 1..n : u[i] = s[i] /\ u[i] \in R
    BY <1>2, <2>2, <2>4, <2>5, <2>6, Zenon
  <2>8. u \in Seq(R) /\ Len(u) = n
    <3>1. u \in [1..n -> R]
      BY <2>6, <2>7
    <3>2. n \in Nat
      BY <1>1
    <3> QED
      BY ONLY <3>1, <3>2
  <2> QED
    BY <2>3, <2>4, <2>7, <2>8, SeqEqual, Zenon DEF s, u
<1>4. Scan(text, sought) =
        {SubSeq(t, p, p + n - 1) : p \in 1..(Len(text) + 1 - n)} \cap sought.frags
  BY <1>2, Zenon DEF Scan, Words
<1> HIDE DEF t, R
<1> QED
  BY <1>3, <1>4, Zenon

\* Windows are of equal texts when their characters are.
LEMMA SameWindow ==
  ASSUME NEW a, NEW b, NEW p, NEW q, NEW sought,
         \A i \in 1..sought.len : a[p + i - 1] = b[q + i - 1]
  PROVE  Window(a, p, sought) = Window(b, q, sought)
BY DEF Window

\* A fragment is in the whole where it is in the text, in the piece, or across
\* the two.
LEMMA ScanAcross ==
  ASSUME NEW S, NEW text \in Seq(S), NEW piece \in Seq(S), NEW sought, sought.len \in Nat \ {0},
         NEW seam, seam = LastOf(text, sought.len - 1),
         NEW head, head = FirstOf(piece, sought.len - 1)
  PROVE  Scan(text \o piece, sought) =
           Scan(text, sought) \cup Scan(piece, sought)
             \cup (IF seam # <<>> THEN Scan(seam \o head, sought) ELSE {})
<1> DEFINE n == sought.len
           k == n - 1
           N == Len(text)
           M == Len(piece)
           c == text \o piece
           s == Len(seam)
           h == Len(head)
           j == seam \o head
<1>1. n \in Nat \ {0} /\ k \in Nat /\ n = k + 1 /\ N \in Nat /\ M \in Nat
  BY LenProperties
<1>2. /\ seam \in Seq(S) /\ s = AtMost(N, k) /\ s \in Nat /\ s <= N
      /\ \A i \in 1..s : seam[i] = text[N - s + i]
  <2> DEFINE m == AtMost(N, k)
  <2> HIDE DEF s, m
  <2>1. /\ seam \in Seq(S) /\ Len(seam) = m /\ m \in Nat /\ m <= N
        /\ \A i \in 1..m : seam[i] = text[N - m + i]
    BY <1>1, LastOfIs DEF m
  <2>2. s = m
    BY <2>1 DEF s
  <2> QED
    BY <2>1, <2>2 DEF m
<1>3. /\ head \in Seq(S) /\ h = AtMost(M, k) /\ h \in Nat /\ h <= M
      /\ \A i \in 1..h : head[i] = piece[i]
  BY <1>1, FirstOfIs
<1>4. /\ c \in Seq(S) /\ Len(c) = N + M
      /\ \A i \in 1..(N + M) : c[i] = IF i <= N THEN text[i] ELSE piece[i - N]
  BY ConcatProperties
<1>5. /\ j \in Seq(S) /\ Len(j) = s + h
      /\ \A i \in 1..(s + h) : j[i] = c[N - s + i]
  <2>1. Len(seam) <= Len(text) /\ Len(head) <= Len(piece)
    BY <1>2, <1>3
  <2>2. IsStretch(seam, text, Len(text) - Len(seam)) /\ IsStretch(head, piece, 0)
    BY <1>2, <1>3 DEF IsStretch
  <2>3. text \in Seq(S) /\ piece \in Seq(S) /\ seam \in Seq(S) /\ head \in Seq(S)
    BY <1>2, <1>3
  <2>4. /\ seam \o head \in Seq(S) /\ Len(seam \o head) = Len(seam) + Len(head)
        /\ IsStretch(seam \o head, text \o piece, Len(text) - Len(seam))
    BY ONLY <2>1, <2>2, <2>3, JoinIs
  <2> QED
    BY <2>4, Zenon DEF IsStretch
<1> DEFINE WT == {Window(text, p, sought) : p \in 1..(N + 1 - n)}
           WP == {Window(piece, p, sought) : p \in 1..(M + 1 - n)}
           WJ == {Window(j, p, sought) : p \in 1..(s + h + 1 - n)}
           WC == {Window(c, p, sought) : p \in 1..(N + M + 1 - n)}
<1>6. /\ Scan(text, sought) = WT \cap sought.frags /\ Scan(piece, sought) = WP \cap sought.frags
      /\ Scan(j, sought) = WJ \cap sought.frags /\ Scan(c, sought) = WC \cap sought.frags
  <2> HIDE DEF c, j
  <2>1. Scan(text, sought) = WT \cap sought.frags /\ Scan(piece, sought) = WP \cap sought.frags
    BY ScanIs
  <2>2. Scan(j, sought) =
          {Window(j, p, sought) : p \in 1..(Len(j) + 1 - sought.len)} \cap sought.frags
    BY <1>5, ScanIs
  <2>3. Scan(c, sought) =
          {Window(c, p, sought) : p \in 1..(Len(c) + 1 - sought.len)} \cap sought.frags
    BY <1>4, ScanIs
  <2> QED
    BY <1>4, <1>5, <2>1, <2>2, <2>3
<1>7. seam # <<>> <=> s # 0
  BY <1>2, EmptySeq
<1>8. n = sought.len
  OBVIOUS
<1> HIDE DEF n, k, N, M, c, s, h, j
<1>9. /\ \A p \in 1..(N + 1 - n) :
           p \in 1..(N + M + 1 - n) /\ \A i \in 1..n : p + i - 1 \in 1..N
      /\ \A p \in 1..(M + 1 - n) :
           p + N \in 1..(N + M + 1 - n) /\ \A i \in 1..n : p + i - 1 \in 1..M
      /\ \A p \in 1..(s + h + 1 - n) :
           p + N - s \in 1..(N + M + 1 - n) /\ \A i \in 1..n : p + i - 1 \in 1..(s + h)
      /\ \A p \in 1..(N + M + 1 - n) :
           \/ p \in 1..(N + 1 - n)
           \/ \E q \in 1..(M + 1 - n) : p = q + N
           \/ s # 0 /\ \E q \in 1..(s + h + 1 - n) : p = q + N - s
  <2>1. s = AtMost(N, n - 1) /\ h = AtMost(M, n - 1)
    BY <1>2, <1>3 DEF k
  <2>2. WindowsPlaced(N, M, n, s, h)
    BY <1>1, <2>1, WindowPlaces
  <2> QED
    BY <2>2 DEF WindowsPlaced
<1>10. ASSUME NEW p \in 1..(N + 1 - n)
       PROVE  Window(text, p, sought) = Window(c, p, sought)
  <2>1. ASSUME NEW i \in 1..n PROVE text[p + i - 1] = c[p + i - 1]
    <3>1. PICK x \in 1..N : x = p + i - 1
      BY <1>9
    <3>2. text[x] = c[x]
      BY <1>1, <1>4
    <3> QED
      BY <3>1, <3>2
  <2> QED
    BY ONLY <1>8, <2>1, SameWindow
<1>11. ASSUME NEW p \in 1..(M + 1 - n)
       PROVE  Window(piece, p, sought) = Window(c, p + N, sought)
  <2>1. ASSUME NEW i \in 1..n PROVE piece[p + i - 1] = c[p + N + i - 1]
    <3>1. PICK x \in 1..M : x = p + i - 1
      BY <1>9
    <3>2. PICK y \in 1..(N + M) : y = x + N
      BY <1>1
    <3>3. ~(y <= N) /\ y - N = x /\ y = p + N + i - 1
      <4>1. N \in Nat /\ M \in Nat /\ p \in Int /\ i \in Int
        BY <1>1
      <4> QED
        BY ONLY <3>1, <3>2, <4>1
    <3>4. c[y] = piece[x]
      BY <1>4, <3>3
    <3> QED
      BY <3>1, <3>3, <3>4
  <2> QED
    BY ONLY <1>8, <2>1, SameWindow
<1>12. ASSUME NEW p \in 1..(s + h + 1 - n)
       PROVE  Window(j, p, sought) = Window(c, p + N - s, sought)
  <2>1. ASSUME NEW i \in 1..n PROVE j[p + i - 1] = c[p + N - s + i - 1]
    <3>1. PICK x \in 1..(s + h) : x = p + i - 1
      BY <1>9
    <3>2. PICK y \in Int : y = N - s + x
      <4>1. N \in Nat /\ s \in Nat /\ x \in Int
        BY <1>1, <1>2, <1>3
      <4> QED
        BY ONLY <4>1
    <3>3. y = p + N - s + i - 1
      <4>1. N \in Nat /\ s \in Nat /\ h \in Nat /\ p \in Int /\ i \in Int
        BY <1>1, <1>2, <1>3
      <4> QED
        BY ONLY <3>1, <3>2, <4>1
    <3>4. j[x] = c[y]
      BY <1>5, <3>2
    <3> QED
      BY <3>1, <3>3, <3>4
  <2> QED
    BY ONLY <1>8, <2>1, SameWindow
<1>13. WT \subseteq WC /\ WP \subseteq WC /\ WJ \subseteq WC
  <2>1. WT \subseteq WC
    BY <1>9, <1>10
  <2>2. WP \subseteq WC
    BY <1>9, <1>11
  <2>3. WJ \subseteq WC
    BY <1>9, <1>12
  <2> QED
    BY <2>1, <2>2, <2>3, Zenon
<1>14. WC \subseteq WT \cup WP \cup (IF s # 0 THEN WJ ELSE {})
  <2> SUFFICES ASSUME NEW p \in 1..(N + M + 1 - n)
               PROVE  Window(c, p, sought) \in WT \cup WP \cup (IF s # 0 THEN WJ ELSE {})
    OBVIOUS
  <2>1. CASE p \in 1..(N + 1 - n)
    BY <1>10, <2>1
  <2>2. CASE \E q \in 1..(M + 1 - n) : p = q + N
    BY <1>11, <2>2
  <2>3. CASE s # 0 /\ \E q \in 1..(s + h + 1 - n) : p = q + N - s
    BY <1>12, <2>3
  <2> QED
    BY <1>9, <2>1, <2>2, <2>3
<1> HIDE DEF WT, WP, WJ, WC
<1>15. Scan(c, sought) = Scan(text, sought) \cup Scan(piece, sought)
                         \cup (IF seam # <<>> THEN Scan(j, sought) ELSE {})
  BY <1>6, <1>7, <1>13, <1>14
<1> QED
  BY <1>15 DEF c, j

\* FeedExact: a piece that is scanned together with the seam leaves the row and
\* the seam of the whole text so far, wherever the text was cut and however
\* short the piece (check_fragment_presence_in_seam and what the streaming
\* loop keeps behind it).
THEOREM FeedExact ==
  ASSUME NEW S, NEW text \in Seq(S), NEW piece \in Seq(S), NEW sought, sought.len \in Nat \ {0},
         NEW acc, acc = [row |-> Scan(text, sought), seam |-> LastOf(text, sought.len - 1)]
  PROVE  Feed(acc, piece, sought) = [row  |-> Scan(text \o piece, sought),
                                   seam |-> LastOf(text \o piece, sought.len - 1)]
<1>1. sought.len - 1 \in Nat
  OBVIOUS
<1>2. acc.row = Scan(text, sought) /\ acc.seam = LastOf(text, sought.len - 1)
  OBVIOUS
<1>3. CASE piece = <<>>
  BY <1>3, ConcatEmptySeq DEF Feed
<1>4. CASE piece # <<>>
  <2> DEFINE head == FirstOf(piece, sought.len - 1)
  <2>1. Scan(text \o piece, sought) =
          acc.row \cup Scan(piece, sought)
            \cup (IF acc.seam # <<>> THEN Scan(acc.seam \o head, sought) ELSE {})
    BY <1>2, ScanAcross
  <2>2. NewSeam(acc.seam, piece, sought.len - 1) = LastOf(text \o piece, sought.len - 1)
    BY <1>1, <1>2, SeamExact
  <2> HIDE <1>2
  <2> QED
    BY <1>4, <2>1, <2>2, Zenon DEF Feed
<1> QED
  BY <1>3, <1>4

\* PiecesExact: however a text is cut into pieces, feeding them one behind the
\* other from nothing finds the fragments that one scan of the text finds: the
\* fragments across the cuts are not lost, and the seams add none.
THEOREM PiecesExact ==
  ASSUME NEW S, NEW pieces \in Seq(Seq(S)), NEW sought, sought.len \in Nat \ {0},
         NEW h, h[0] = [row |-> {}, seam |-> <<>>],
         \A i \in 1..Len(pieces) : h[i] = Feed(h[i - 1], pieces[i], sought)
  PROVE  h[Len(pieces)].row = Scan(FlattenSeq(pieces), sought)
<1> DEFINE n == Len(pieces)
           After(text) == [row |-> Scan(text, sought), seam |-> LastOf(text, sought.len - 1)]
<1>1. n \in Nat /\ \A i \in 1..n : pieces[i] \in Seq(S)
  BY LenProperties, ElementOfSeq
<1>2. PICK g : IsFlattening(S, pieces, g)
  BY FlatteningExists
<1>3. /\ g \in [0..n -> Seq(S)] /\ g[0] = <<>>
      /\ \A i \in 1..n : g[i] = g[i - 1] \o pieces[i]
  BY <1>2, Zenon DEF IsFlattening
<1>4. h[0] = After(<<>>)
  <2>1. <<>> \in Seq(S) /\ Len(<<>>) = 0
    BY EmptySeq
  <2>2. Scan(<<>>, sought) =
          {Window(<<>>, p, sought) : p \in 1..(Len(<<>>) + 1 - sought.len)} \cap sought.frags
    BY <2>1, ScanIs, Zenon
  <2>3. 1..(Len(<<>>) + 1 - sought.len) = {}
    BY <2>1
  <2>4. Scan(<<>>, sought) = {}
    BY <2>2, <2>3
  <2>5. LastOf(<<>>, sought.len - 1) = <<>>
    <3> DEFINE k == sought.len - 1
    <3>1. k \in Nat /\ AtMost(0, k) = 0
      BY DEF AtMost
    <3> HIDE DEF k
    <3>2. ASSUME NEW e \in Seq(S), Len(e) = 0 PROVE LastOf(e, k) = <<>>
      <4> DEFINE l == Len(e)
                 m == AtMost(l, k)
      <4>1. m = 0
        BY <3>1, <3>2
      <4> HIDE DEF l, m
      <4>2. e \in Seq(S) /\ k \in Nat /\ l = Len(e) /\ m = AtMost(l, k)
        BY <3>1 DEF l, m
      <4>3. LastOf(e, k) \in Seq(S) /\ Len(LastOf(e, k)) = m
        BY ONLY <4>2, LastOfIs
      <4> QED
        BY <4>1, <4>3, EmptySeq
    <3> QED
      BY <2>1, <3>2, Zenon DEF k
  <2> QED
    BY <2>4, <2>5, Zenon
<1> DEFINE T == {i \in 0..n : h[i] = After(g[i])}
<1>5. 0 \in T
  BY <1>1, <1>3, <1>4
<1>6. ASSUME NEW i \in 1..n, i - 1 \in T PROVE i \in T
  <2>1. i \in 0..n /\ i - 1 \in 0..n /\ h[i - 1] = After(g[i - 1])
    BY <1>1, <1>6
  <2>2. g[i - 1] \in Seq(S) /\ pieces[i] \in Seq(S) /\ g[i] = g[i - 1] \o pieces[i]
    BY <1>1, <1>3, <2>1, Zenon
  <2>3. Feed(h[i - 1], pieces[i], sought) = After(g[i - 1] \o pieces[i])
    BY <2>1, <2>2, FeedExact
  <2>4. h[i] = After(g[i])
    BY <2>2, <2>3
  <2> QED
    BY <2>1, <2>4
<1> HIDE DEF T
<1>7. n \in 0..n /\ \A i \in 0..n : i \in T
  <2>1. n \in Nat /\ \A i \in 1..n : i - 1 \in T => i \in T
    BY <1>1, <1>6
  <2>2. \A i \in 0..n : i \in T
    BY ONLY <1>5, <2>1, Upwards, Zenon
  <2> QED
    BY <2>1, <2>2
<1>8. h[n] = After(g[n])
  BY <1>7 DEF T
<1>9. FlattenSeq(pieces) = g[n]
  BY <1>2, FlatteningIs
<1> QED
  BY <1>8, <1>9

(***************************************************************************)
(* What is read of a file: whatever pieces of the device it is in, the     *)
(* head that the probe has read and the chunks planned after it are the    *)
(* file, each byte once and in order.                                      *)
(***************************************************************************)

-----------------------------------------------------------------------------
(* The bytes that a list of chunks stands for.                             *)

\* A chunk that lies on the device.
ChunksOn(bytes) == {c \in [at : Nat, len : Nat \ {0}] : c.at + c.len <= Len(bytes)}

\* The bytes of one place of the device, of a list of chunks one by one, and of
\* all of them.
Extract(bytes, at, len) == SubSeq(bytes, at + 1, at + len)
Extracts(bytes, cs) == [i \in DOMAIN cs |-> SubSeq(bytes, cs[i].at + 1, cs[i].at + cs[i].len)]
BytesOf(bytes, cs) == FlattenSeq(Extracts(bytes, cs))

\* What lies in the device can be extracted, and two extracts that meet are one.
LEMMA ExtractIs ==
  ASSUME NEW B, NEW bytes \in Seq(B), NEW at \in Nat, NEW len \in Nat, at + len <= Len(bytes)
  PROVE  /\ Extract(bytes, at, len) \in Seq(B) /\ Len(Extract(bytes, at, len)) = len
         /\ \A i \in 1..len : Extract(bytes, at, len)[i] = bytes[at + i]
<1>1. Len(bytes) \in Nat /\ \A i \in 1..Len(bytes) : bytes[i] \in B
  BY LenProperties, ElementOfSeq
<1>2. /\ at + 1 \in Int /\ at + len \in Int /\ \A i \in (at + 1)..(at + len) : i \in 1..Len(bytes)
      /\ (at + len) - (at + 1) + 1 = len /\ (at + 1 <= at + len <=> len # 0)
      /\ \A i \in 1..len : at + 1 + i - 1 = at + i
  BY <1>1
<1> QED
  BY <1>1, <1>2, SubSeqProperties DEF Extract

\* Two extracts that meet are one.
LEMMA ExtractsMeet ==
  ASSUME NEW B, NEW bytes \in Seq(B), NEW at \in Nat, NEW m \in Nat, NEW n \in Nat,
         at + m + n <= Len(bytes)
  PROVE  Extract(bytes, at, m) \o Extract(bytes, at + m, n) = Extract(bytes, at, m + n)
<1>1. Len(bytes) \in Nat
  BY LenProperties
<1>2. /\ at + 1 \in 1..(Len(bytes) + 1) /\ at + m \in (at + 1 - 1)..Len(bytes)
      /\ at + m + n \in (at + m)..Len(bytes) /\ at + (m + n) = at + m + n
  BY <1>1
<1> QED
  BY <1>2, ConcatAdjacentSubSeq DEF Extract

\* The extracts of a list of chunks.
LEMMA ExtractsType ==
  ASSUME NEW B, NEW bytes \in Seq(B), NEW cs \in Seq(ChunksOn(bytes))
  PROVE  /\ Extracts(bytes, cs) \in Seq(Seq(B)) /\ Len(Extracts(bytes, cs)) = Len(cs)
         /\ BytesOf(bytes, cs) \in Seq(B)
         /\ \A i \in 1..Len(cs) : Extracts(bytes, cs)[i] = Extract(bytes, cs[i].at, cs[i].len)
<1> DEFINE es == Extracts(bytes, cs)
<1>1. Len(cs) \in Nat /\ DOMAIN cs = 1..Len(cs) /\ \A i \in 1..Len(cs) : cs[i] \in ChunksOn(bytes)
  BY LenProperties, ElementOfSeq
<1>2. \A i \in 1..Len(cs) : es[i] = Extract(bytes, cs[i].at, cs[i].len)
  BY <1>1, Zenon DEF Extracts, Extract
<1>3. ASSUME NEW i \in 1..Len(cs) PROVE es[i] \in Seq(B)
  <2>1. cs[i].at \in Nat /\ cs[i].len \in Nat /\ cs[i].at + cs[i].len <= Len(bytes)
    BY <1>1 DEF ChunksOn
  <2> HIDE DEF es
  <2>2. Extract(bytes, cs[i].at, cs[i].len) \in Seq(B)
    BY <2>1, ExtractIs
  <2> QED
    BY <1>2, <2>2
<1>4. es = [i \in 1..Len(cs) |-> es[i]]
  BY <1>1, Zenon DEF Extracts
<1> HIDE DEF es
<1>5. es \in [1..Len(cs) -> Seq(B)]
  BY <1>3, <1>4
<1>6. es \in Seq(Seq(B)) /\ Len(es) = Len(cs)
  BY <1>1, <1>5, SeqDef
<1> QED
  BY <1>2, <1>6, FlattenType DEF es, BytesOf

\* Concatenation is associative.
LEMMA Regrouped == \A S : \A x, y, z \in Seq(S) : (x \o y) \o z = x \o (y \o z)
BY ConcatAssociative

\* The bytes of two lists of chunks, one after the other.
LEMMA BytesOfConcat ==
  ASSUME NEW B, NEW bytes \in Seq(B), NEW cs \in Seq(ChunksOn(bytes)),
         NEW ds \in Seq(ChunksOn(bytes))
  PROVE  /\ cs \o ds \in Seq(ChunksOn(bytes))
         /\ BytesOf(bytes, cs \o ds) = BytesOf(bytes, cs) \o BytesOf(bytes, ds)
<1> DEFINE n == Len(cs)
           m == Len(ds)
           all == cs \o ds
           ec == Extracts(bytes, cs)
           ed == Extracts(bytes, ds)
           ea == Extracts(bytes, all)
<1>1. n \in Nat /\ m \in Nat
  BY LenProperties
<1>2. /\ all \in Seq(ChunksOn(bytes)) /\ Len(all) = n + m
      /\ \A i \in 1..(n + m) : all[i] = IF i <= n THEN cs[i] ELSE ds[i - n]
  BY ConcatProperties
<1>3. /\ ea \in Seq(Seq(B)) /\ Len(ea) = n + m
      /\ \A i \in 1..(n + m) : ea[i] = Extract(bytes, all[i].at, all[i].len)
  BY <1>2, ExtractsType, Zenon
<1>4. /\ ec \in Seq(Seq(B)) /\ Len(ec) = n
      /\ \A i \in 1..n : ec[i] = Extract(bytes, cs[i].at, cs[i].len)
  BY ExtractsType
<1>5. /\ ed \in Seq(Seq(B)) /\ Len(ed) = m
      /\ \A i \in 1..m : ed[i] = Extract(bytes, ds[i].at, ds[i].len)
  BY ExtractsType
<1> HIDE DEF n, m, all, ec, ed, ea
<1>6. /\ ec \o ed \in Seq(Seq(B)) /\ Len(ec \o ed) = n + m
      /\ \A i \in 1..(n + m) : (ec \o ed)[i] = IF i <= n THEN ec[i] ELSE ed[i - n]
  BY <1>4, <1>5, ConcatProperties, ZenonT(60)
<1>7. ASSUME NEW i \in 1..(n + m)
      PROVE  ea[i] = (ec \o ed)[i]
  <2>1. CASE i <= n
    <3>1. i \in 1..n
      BY <1>1, <2>1
    <3> QED
      BY <1>2, <1>3, <1>4, <1>6, <2>1, <3>1, ZenonT(60)
  <2>2. CASE ~(i <= n)
    <3>1. i - n \in 1..m
      BY <1>1, <2>2
    <3> QED
      BY <1>2, <1>3, <1>5, <1>6, <2>2, <3>1, Zenon
  <2> QED
    BY <2>1, <2>2, Zenon
<1>8. ea = ec \o ed
  BY <1>3, <1>6, <1>7, SeqEqual, Zenon
<1>9. FlattenSeq(ea) = FlattenSeq(ec) \o FlattenSeq(ed)
  BY <1>4, <1>5, <1>8, FlattenConcat
<1> QED
  BY <1>2, <1>9 DEF BytesOf, all, ec, ed, ea

\* A single chunk.
LEMMA OneChunk ==
  ASSUME NEW B, NEW bytes \in Seq(B), NEW c \in ChunksOn(bytes)
  PROVE  /\ <<c>> \in Seq(ChunksOn(bytes))
         /\ BytesOf(bytes, <<c>>) = Extract(bytes, c.at, c.len)
<1> DEFINE x == Extract(bytes, c.at, c.len)
<1>1. x \in Seq(B)
  <2>1. c.at \in Nat /\ c.len \in Nat /\ c.at + c.len <= Len(bytes)
    BY DEF ChunksOn
  <2> QED
    BY <2>1, ExtractIs
<1>2. Extracts(bytes, <<c>>) = <<x>>
  BY DEF Extracts, Extract
<1>3. FlattenSeq(<<x>>) = x
  BY <1>1, FlattenSmall
<1> QED
  BY <1>2, <1>3 DEF BytesOf

\* No chunk.
LEMMA NoChunk ==
  ASSUME NEW bytes
  PROVE  <<>> \in Seq(ChunksOn(bytes)) /\ BytesOf(bytes, <<>>) = <<>>
<1>1. Extracts(bytes, <<>>) = <<>>
  BY DEF Extracts
<1> QED
  BY <1>1, FlattenSmall DEF BytesOf

\* A chunk at the end of a list adds its bytes.
LEMMA OneMore ==
  ASSUME NEW B, NEW bytes \in Seq(B), NEW cs \in Seq(ChunksOn(bytes)), NEW c \in ChunksOn(bytes)
  PROVE  /\ Append(cs, c) \in Seq(ChunksOn(bytes))
         /\ BytesOf(bytes, Append(cs, c)) = BytesOf(bytes, cs) \o Extract(bytes, c.at, c.len)
<1>1. Append(cs, c) = cs \o <<c>>
  BY AppendIsConcat
<1>2. <<c>> \in Seq(ChunksOn(bytes)) /\ BytesOf(bytes, <<c>>) = Extract(bytes, c.at, c.len)
  BY OneChunk
<1> QED
  BY <1>1, <1>2, BytesOfConcat, Zenon

\* A chunk that continues the last one can be added to it.
LEMMA LastLonger ==
  ASSUME NEW B, NEW bytes \in Seq(B), NEW cs \in Seq(ChunksOn(bytes)), cs # <<>>,
         NEW len \in Nat \ {0}, Last(cs).at + Last(cs).len + len <= Len(bytes)
  PROVE  LET longer == [cs EXCEPT ![Len(cs)].len = @ + len]
         IN  /\ longer \in Seq(ChunksOn(bytes))
             /\ BytesOf(bytes, longer)
                  = BytesOf(bytes, cs) \o Extract(bytes, Last(cs).at + Last(cs).len, len)
<1> DEFINE n == Len(cs)
           l == cs[n]
           m == [at |-> l.at, len |-> l.len + len]
           f == SubSeq(cs, 1, n - 1)
           longer == [cs EXCEPT ![Len(cs)].len = @ + len]
<1>1. /\ n \in Nat \ {0} /\ DOMAIN cs = 1..n /\ n \in 1..n
      /\ \A i \in 1..n : cs[i] \in ChunksOn(bytes)
  BY LenProperties, ElementOfSeq, EmptySeq
<1>2. Last(cs) = l /\ l \in ChunksOn(bytes)
  BY <1>1 DEF Last
<1>3. l = [at |-> l.at, len |-> l.len] /\ l.at \in Nat /\ l.len \in Nat \ {0}
      /\ l.at + l.len + len <= Len(bytes)
  BY <1>2 DEF ChunksOn
<1>4. m \in ChunksOn(bytes)
  <2>1. l.len + len \in Nat \ {0} /\ l.at + (l.len + len) = l.at + l.len + len
    BY <1>3
  <2> QED
    BY <1>3, <2>1 DEF ChunksOn
<1>5. f \in Seq(ChunksOn(bytes)) /\ Len(f) = n - 1 /\ \A i \in 1..(n - 1) : f[i] = cs[i]
  <2>1. /\ 1 \in Int /\ n - 1 \in Int /\ \A i \in 1..(n - 1) : i \in 1..n /\ 1 + i - 1 = i
        /\ (n - 1) - 1 + 1 = n - 1 /\ (1 <= n - 1 <=> n - 1 # 0)
    BY <1>1
  <2>2. \A i \in 1..(n - 1) : cs[i] \in ChunksOn(bytes)
    BY <1>1, <2>1
  <2> HIDE DEF n
  <2> QED
    BY <2>1, <2>2, SubSeqProperties
<1>6. longer = [cs EXCEPT ![n] = m]
  <2>1. [l EXCEPT !.len = l.len + len] = m
    BY <1>3
  <2>2. longer = [cs EXCEPT ![n] = [l EXCEPT !.len = l.len + len]]
    OBVIOUS
  <2> QED
    BY <2>1, <2>2, Zenon
<1> HIDE DEF n, m, f, longer, l
<1>7. Append(f, l) = cs
  <2>1. /\ Append(f, l) \in Seq(ChunksOn(bytes)) /\ Len(Append(f, l)) = n
        /\ \A i \in 1..n : Append(f, l)[i] = cs[i]
    <3>1. /\ Append(f, l) \in Seq(ChunksOn(bytes)) /\ Len(Append(f, l)) = n - 1 + 1
          /\ \A i \in 1..(n - 1) : Append(f, l)[i] = f[i]
          /\ Append(f, l)[n - 1 + 1] = l
      <4>1. /\ Append(f, l) \in Seq(ChunksOn(bytes)) /\ Len(Append(f, l)) = Len(f) + 1
            /\ \A i \in 1..Len(f) : Append(f, l)[i] = f[i]
            /\ Append(f, l)[Len(f) + 1] = l
        <5>1. f \in Seq(ChunksOn(bytes)) /\ l \in ChunksOn(bytes)
          BY <1>2, <1>5
        <5>2. \A S : \A s \in Seq(S), e \in S :
                /\ Append(s, e) \in Seq(S) /\ Len(Append(s, e)) = Len(s) + 1
                /\ \A i \in 1..Len(s) : Append(s, e)[i] = s[i]
                /\ Append(s, e)[Len(s) + 1] = e
          BY AppendProperties
        <5> QED
          BY ONLY <5>1, <5>2
      <4> QED
        BY <1>5, <4>1
    <3>2. n - 1 + 1 = n /\ \A i \in 1..n : i = n \/ i \in 1..(n - 1)
      BY <1>1
    <3> QED
      BY <1>5, <3>1, <3>2 DEF l
  <2> QED
    BY <2>1, SeqEqual DEF n
<1>8. Append(f, m) = longer
  <2>1. /\ longer \in Seq(ChunksOn(bytes)) /\ Len(longer) = n
        /\ \A i \in 1..n : longer[i] = IF i = n THEN m ELSE cs[i]
    BY <1>1, <1>4, <1>6, ExceptSeq DEF n
  <2>2. /\ Append(f, m) \in Seq(ChunksOn(bytes)) /\ Len(Append(f, m)) = n - 1 + 1
        /\ \A i \in 1..(n - 1) : Append(f, m)[i] = f[i]
        /\ Append(f, m)[n - 1 + 1] = m
    <3>1. /\ Append(f, m) \in Seq(ChunksOn(bytes)) /\ Len(Append(f, m)) = Len(f) + 1
          /\ \A i \in 1..Len(f) : Append(f, m)[i] = f[i]
          /\ Append(f, m)[Len(f) + 1] = m
      <4>1. f \in Seq(ChunksOn(bytes)) /\ m \in ChunksOn(bytes)
        BY <1>4, <1>5
      <4> QED
        BY <4>1, AppendProperties
    <3> QED
      BY <1>5, <3>1
  <2>3. n - 1 + 1 = n /\ \A i \in 1..n : i = n \/ (i \in 1..(n - 1) /\ i # n)
    BY <1>1
  <2>4. \A i \in 1..n : longer[i] = Append(f, m)[i]
    BY <1>5, <2>1, <2>2, <2>3
  <2> QED
    BY <2>1, <2>2, <2>3, <2>4, SeqEqual
<1>9. /\ longer \in Seq(ChunksOn(bytes))
      /\ BytesOf(bytes, longer) = BytesOf(bytes, f) \o Extract(bytes, m.at, m.len)
  BY <1>4, <1>5, <1>8, OneMore, Zenon
<1>10. BytesOf(bytes, cs) = BytesOf(bytes, f) \o Extract(bytes, l.at, l.len)
  BY <1>2, <1>5, <1>7, OneMore, Zenon
<1>11. Extract(bytes, m.at, m.len) = Extract(bytes, l.at, l.len) \o Extract(bytes, l.at + l.len, len)
  <2>1. m.at = l.at /\ m.len = l.len + len
    BY DEF m
  <2>2. l.len \in Nat /\ len \in Nat
    BY <1>3
  <2>3. Extract(bytes, l.at, l.len) \o Extract(bytes, l.at + l.len, len) = Extract(bytes, l.at, l.len + len)
    BY <1>3, <2>2, ExtractsMeet, Zenon
  <2> QED
    BY <2>1, <2>3
<1>12. /\ BytesOf(bytes, f) \in Seq(B) /\ Extract(bytes, l.at, l.len) \in Seq(B)
       /\ Extract(bytes, l.at + l.len, len) \in Seq(B)
  <2>1. /\ l.at + l.len \in Nat /\ len \in Nat /\ l.at \in Nat /\ l.len \in Nat
        /\ l.at + l.len <= Len(bytes)
    BY <1>2, <1>3 DEF ChunksOn
  <2>2. Extract(bytes, l.at, l.len) \in Seq(B)
    BY <2>1, ExtractIs
  <2>3. Extract(bytes, l.at + l.len, len) \in Seq(B)
    BY <1>3, <2>1, ExtractIs
  <2>4. BytesOf(bytes, f) \in Seq(B)
    BY <1>5, ExtractsType
  <2> QED
    BY ONLY <2>2, <2>3, <2>4
<1>13. BytesOf(bytes, longer) = BytesOf(bytes, cs) \o Extract(bytes, l.at + l.len, len)
  <2> DEFINE x == BytesOf(bytes, f)
             y == Extract(bytes, l.at, l.len)
             z == Extract(bytes, l.at + l.len, len)
  <2>1. x \in Seq(B) /\ y \in Seq(B) /\ z \in Seq(B)
    BY <1>12
  <2>2. BytesOf(bytes, longer) = x \o (y \o z) /\ BytesOf(bytes, cs) = x \o y
    BY <1>9, <1>10, <1>11
  <2> HIDE DEF x, y, z
  <2>3. (x \o y) \o z = x \o (y \o z)
    BY ONLY <2>1, Regrouped
  <2> QED
    BY <2>2, <2>3 DEF z
<1> QED
  BY <1>2, <1>9, <1>13, Zenon DEF longer

\* The part of a text behind its first k elements.
RestFrom(t, k) == SubSeq(t, k + 1, Len(t))

\* What is left of a text after its first k elements.
LEMMA RestIs ==
  ASSUME NEW B, NEW t \in Seq(B), NEW k \in 0..Len(t)
  PROVE  /\ RestFrom(t, k) \in Seq(B) /\ Len(RestFrom(t, k)) = Len(t) - k
         /\ \A i \in 1..(Len(t) - k) : RestFrom(t, k)[i] = t[k + i]
<1>1. /\ Len(t) \in Nat /\ k \in Nat /\ Len(t) - k \in Nat /\ k + (Len(t) - k) = Len(t)
      /\ k + (Len(t) - k) <= Len(t)
  BY LenProperties
<1>2. RestFrom(t, k) = Extract(t, k, Len(t) - k)
  BY <1>1 DEF RestFrom, Extract
<1>3. /\ Extract(t, k, Len(t) - k) \in Seq(B) /\ Len(Extract(t, k, Len(t) - k)) = Len(t) - k
      /\ \A i \in 1..(Len(t) - k) : Extract(t, k, Len(t) - k)[i] = t[k + i]
  BY <1>1, ExtractIs, ZenonT(60)
<1> QED
  BY <1>2, <1>3

\* A later part of an extract is an extract.
LEMMA ExtractRest ==
  ASSUME NEW B, NEW bytes \in Seq(B), NEW at \in Nat, NEW len \in Nat, at + len <= Len(bytes),
         NEW k \in 0..len
  PROVE  RestFrom(Extract(bytes, at, len), k) = Extract(bytes, at + k, len - k)
<1> DEFINE e == Extract(bytes, at, len)
           r == RestFrom(e, k)
           f == Extract(bytes, at + k, len - k)
<1>1. e \in Seq(B) /\ Len(e) = len /\ \A i \in 1..len : e[i] = bytes[at + i]
  BY ExtractIs
<1>2. /\ k \in Nat /\ at + k \in Nat /\ len - k \in Nat /\ (at + k) + (len - k) <= Len(bytes)
      /\ Len(bytes) \in Nat
  BY LenProperties
<1>3. /\ f \in Seq(B) /\ Len(f) = len - k
      /\ \A i \in 1..(len - k) : f[i] = bytes[(at + k) + i]
  BY <1>2, ExtractIs
<1> HIDE DEF e, f
<1>4. r \in Seq(B) /\ Len(r) = len - k /\ \A i \in 1..(len - k) : r[i] = e[k + i]
  BY <1>1, RestIs, ZenonT(60)
<1> HIDE DEF r
<1>5. ASSUME NEW i \in 1..(len - k) PROVE r[i] = f[i]
  <2>1. k + i \in 1..len /\ at + (k + i) = (at + k) + i
    BY <1>2
  <2> QED
    BY <1>1, <1>3, <1>4, <2>1, Zenon
<1>6. r = f
  BY <1>3, <1>4, <1>5, SeqEqual
<1> QED
  BY <1>6 DEF r, e, f

\* Behind its end a text has no rest, and all of it is its rest from the start.
LEMMA RestSmall ==
  ASSUME NEW B, NEW t \in Seq(B), NEW k \in Nat
  PROVE  /\ RestFrom(t, k) \in Seq(B) /\ RestFrom(t, 0) = t
         /\ k >= Len(t) => RestFrom(t, k) = <<>>
<1>1. Len(t) \in Nat /\ \A i \in 1..Len(t) : t[i] \in B
  BY LenProperties, ElementOfSeq
<1>2. /\ k + 1 \in Int /\ Len(t) \in Int /\ \A i \in (k + 1)..Len(t) : i \in 1..Len(t)
      /\ 0 + 1 = 1 /\ (k >= Len(t) => Len(t) < k + 1)
  BY <1>1
<1>3. SubSeq(t, k + 1, Len(t)) \in Seq(B)
  BY <1>1, <1>2, SubSeqProperties
<1>4. SubSeq(t, 0 + 1, Len(t)) = t
  BY <1>2, SubSeqFull
<1>5. k >= Len(t) => SubSeq(t, k + 1, Len(t)) = <<>>
  BY <1>2, SubSeqEmpty
<1> QED
  BY <1>3, <1>4, <1>5 DEF RestFrom

\* Inside t, the rest of t and x ends with x; behind t, it is a rest of x.
LEMMA RestInside ==
  \A S : \A t, x \in Seq(S) : \A k \in 0..Len(t) : RestFrom(t \o x, k) = RestFrom(t, k) \o x
BY RestOfConcat, Zenon DEF RestFrom

\* What is left behind the first of two texts is left of the second.
LEMMA RestBehind ==
  ASSUME NEW B, NEW t \in Seq(B), NEW x \in Seq(B), NEW k \in Nat
  PROVE  RestFrom(t \o x, Len(t) + k) = RestFrom(x, k)
<1> DEFINE n == Len(t)
           m == Len(x)
           c == t \o x
           a == RestFrom(c, n + k)
           b == RestFrom(x, k)
<1>1. /\ n \in Nat /\ m \in Nat
      /\ c \in Seq(B) /\ Len(c) = n + m
      /\ \A i \in 1..(n + m) : c[i] = IF i <= n THEN t[i] ELSE x[i - n]
  BY LenProperties, ConcatProperties
<1>2. CASE k >= m
  <2>1. n + k >= n + m /\ n + k \in Nat
    BY <1>1, <1>2
  <2>2. a = <<>> /\ b = <<>>
    BY <1>1, <1>2, <2>1, RestSmall, ZenonT(60)
  <2> QED
    BY <2>2
<1>3. CASE k < m
  <2>1. /\ n + k \in 0..(n + m) /\ k \in 0..m /\ (n + m) - (n + k) = m - k
        /\ \A i \in 1..(m - k) : /\ (n + k) + i \in 1..(n + m) /\ ~((n + k) + i <= n)
                                 /\ (n + k) + i - n = k + i
    BY <1>1, <1>3
  <2> HIDE DEF c
  <2>2. /\ a \in Seq(B) /\ Len(a) = m - k
        /\ \A i \in 1..(m - k) : a[i] = c[(n + k) + i]
    <3>1. n + k \in 0..Len(c) /\ Len(c) - (n + k) = m - k
      BY <1>1, <2>1
    <3> HIDE DEF n, m
    <3> QED
      BY <1>1, <3>1, RestIs, ZenonT(60)
  <2>3. b \in Seq(B) /\ Len(b) = m - k /\ \A i \in 1..(m - k) : b[i] = x[k + i]
    BY <2>1, RestIs, Zenon
  <2> HIDE DEF a, b, n, m
  <2>4. ASSUME NEW i \in 1..(m - k) PROVE a[i] = b[i]
    <3>1. a[i] = c[(n + k) + i] /\ b[i] = x[k + i]
      BY <2>2, <2>3
    <3>2. c[(n + k) + i] = x[(n + k) + i - n]
      BY <1>1, <2>1
    <3> QED
      BY <2>1, <3>1, <3>2
  <2>5. a = b
    BY <2>2, <2>3, <2>4, SeqEqual
  <2> QED
    BY <2>5 DEF a, b, n, c
<1> QED
  BY <1>1, <1>2, <1>3

\* What the program takes of the next stretch of a file, of which the first
\* skip bytes in all are left out: over bytes at its start are still to be left
\* out.
LEMMA RestGrows ==
  ASSUME NEW B, NEW bytes \in Seq(B), NEW t \in Seq(B), NEW at \in Nat, NEW take \in Nat,
         at + take <= Len(bytes), NEW skip \in Nat
  PROVE  LET over == Least(skip - Least(skip, Len(t)), take)
         IN  /\ over \in 0..take
             /\ RestFrom(t \o Extract(bytes, at, take), skip)
                  = RestFrom(t, skip) \o Extract(bytes, at + over, take - over)
<1> DEFINE n == Len(t)
           x == Extract(bytes, at, take)
           over == Least(skip - Least(skip, n), take)
<1>1. n \in Nat /\ Len(bytes) \in Nat
  BY LenProperties
<1>2. x \in Seq(B) /\ Len(x) = take
  BY ExtractIs, Zenon
<1>3. CASE skip <= n
  <2>1. over = 0 /\ skip \in 0..n /\ at + 0 = at /\ take - 0 = take
    BY <1>1, <1>3 DEF Least
  <2>2. RestFrom(t \o x, skip) = RestFrom(t, skip) \o x
    <3>1. skip \in 0..Len(t)
      BY <2>1
    <3>2. \A k \in 0..Len(t) : RestFrom(t \o x, k) = RestFrom(t, k) \o x
      BY <1>2, RestInside, Zenon
    <3> QED
      BY <3>1, <3>2
  <2>3. Extract(bytes, at + over, take - over) = x /\ over \in 0..take
    BY <2>1
  <2> QED
    BY <2>2, <2>3
<1>4. CASE skip > n
  <2> DEFINE k == skip - n
  <2>1. /\ k \in Nat /\ n + k = skip /\ over = Least(k, take) /\ over \in 0..take
        /\ at + over \in Nat /\ take - over \in Nat
    BY <1>1, <1>4 DEF Least
  <2>2. RestFrom(t \o x, skip) = RestFrom(x, k)
    BY <1>2, <2>1, RestBehind
  <2>3. RestFrom(t, skip) = <<>>
    BY <1>1, <1>4, RestSmall
  <2>4. RestFrom(x, k) = Extract(bytes, at + over, take - over)
    <3>1. CASE k <= take
      <4>1. over = k /\ k \in 0..take
        BY <2>1, <3>1 DEF Least
      <4> QED
        BY <4>1, ExtractRest
    <3>2. CASE k > take
      <4>1. over = take /\ take - take = 0 /\ at + take + 1 > at + take + 0 /\ k >= Len(x)
        BY <1>2, <2>1, <3>2 DEF Least
      <4>2. RestFrom(x, k) = <<>>
        BY <1>2, <2>1, <4>1, RestSmall
      <4>3. Extract(bytes, at + take, 0) = <<>>
        BY <4>1, SubSeqEmpty DEF Extract
      <4> QED
        BY <4>1, <4>2, <4>3
    <3> QED
      BY <2>1, <3>1, <3>2
  <2>5. Extract(bytes, at + over, take - over) \in Seq(B)
    <3>1. (at + over) + (take - over) <= Len(bytes)
      BY <1>1, <2>1
    <3> QED
      BY <2>1, <3>1, ExtractIs
  <2> HIDE DEF k, over, x
  <2>6. RestFrom(t, skip) \o Extract(bytes, at + over, take - over)
          = Extract(bytes, at + over, take - over)
    BY <2>3, <2>5, ConcatEmptySeq
  <2> QED
    BY <2>1, <2>2, <2>4, <2>6, Zenon DEF over, x
<1> QED
  BY <1>1, <1>3, <1>4

-----------------------------------------------------------------------------
\* A piece added to a list, as a chunk of its own or at the end of the last one.
LEMMA AddChunkBytes ==
  ASSUME NEW B, NEW bytes \in Seq(B), NEW cs \in Seq(ChunksOn(bytes)), NEW at \in Nat,
         NEW len \in Nat, at + len <= Len(bytes)
  PROVE  /\ AddChunk(cs, at, len) \in Seq(ChunksOn(bytes))
         /\ BytesOf(bytes, AddChunk(cs, at, len)) = BytesOf(bytes, cs) \o Extract(bytes, at, len)
<1>1. CASE len = 0
  <2>1. Extract(bytes, at, 0) = <<>>
    <3>1. at + 1 \in Int /\ at + 0 \in Int /\ at + 0 < at + 1
      OBVIOUS
    <3> QED
      BY <3>1, SubSeqEmpty DEF Extract
  <2>2. BytesOf(bytes, cs) \o <<>> = BytesOf(bytes, cs)
    BY ExtractsType, ConcatEmptySeq
  <2> QED
    BY <1>1, <2>1, <2>2, Zenon DEF AddChunk
<1>2. CASE len # 0 /\ cs # <<>> /\ Last(cs).at + Last(cs).len = at
  <2>1. AddChunk(cs, at, len) = [cs EXCEPT ![Len(cs)].len = @ + len]
    BY <1>2 DEF AddChunk
  <2>2. len \in Nat \ {0} /\ Last(cs).at + Last(cs).len + len <= Len(bytes) /\ cs # <<>>
    BY <1>2
  <2>3. /\ [cs EXCEPT ![Len(cs)].len = @ + len] \in Seq(ChunksOn(bytes))
        /\ BytesOf(bytes, [cs EXCEPT ![Len(cs)].len = @ + len])
             = BytesOf(bytes, cs) \o Extract(bytes, Last(cs).at + Last(cs).len, len)
    BY <2>2, LastLonger, Zenon
  <2> QED
    BY <1>2, <2>1, <2>3, Zenon
<1>3. CASE len # 0 /\ ~(cs # <<>> /\ Last(cs).at + Last(cs).len = at)
  <2> DEFINE c == [at |-> at, len |-> len]
  <2>1. AddChunk(cs, at, len) = Append(cs, c)
    BY <1>3 DEF AddChunk
  <2>2. c \in ChunksOn(bytes) /\ c.at = at /\ c.len = len
    BY <1>3 DEF ChunksOn
  <2> HIDE DEF c
  <2> QED
    BY <2>1, <2>2, OneMore, Zenon
<1> QED
  BY <1>1, <1>2, <1>3

\* push_chunk: a chunk pushed onto a list adds its bytes, merged or not.
LEMMA PushChunkBytes ==
  ASSUME NEW B, NEW bytes \in Seq(B), NEW cs \in Seq(ChunksOn(bytes)), NEW c \in ChunksOn(bytes)
  PROVE  /\ PushChunk(cs, c) \in Seq(ChunksOn(bytes))
         /\ BytesOf(bytes, PushChunk(cs, c)) = BytesOf(bytes, cs) \o Extract(bytes, c.at, c.len)
<1>1. c.len \in Nat \ {0} /\ c.at \in Nat /\ c.at + c.len <= Len(bytes)
  BY DEF ChunksOn
<1>2. CASE /\ cs # <<>> /\ Last(cs).at + Last(cs).len = c.at
           /\ Last(cs).len + c.len <= ChunkSize
  <2>1. PushChunk(cs, c) = [cs EXCEPT ![Len(cs)].len = @ + c.len]
    BY <1>1, <1>2 DEF PushChunk
  <2>2. Last(cs).at + Last(cs).len + c.len <= Len(bytes) /\ cs # <<>>
    BY <1>1, <1>2
  <2>3. /\ [cs EXCEPT ![Len(cs)].len = @ + c.len] \in Seq(ChunksOn(bytes))
        /\ BytesOf(bytes, [cs EXCEPT ![Len(cs)].len = @ + c.len])
             = BytesOf(bytes, cs) \o Extract(bytes, Last(cs).at + Last(cs).len, c.len)
    BY <1>1, <2>2, LastLonger, Zenon
  <2> QED
    BY <1>2, <2>1, <2>3, Zenon
<1>3. CASE ~(/\ cs # <<>> /\ Last(cs).at + Last(cs).len = c.at
             /\ Last(cs).len + c.len <= ChunkSize)
  <2>1. PushChunk(cs, c) = Append(cs, c)
    BY <1>1, <1>3 DEF PushChunk
  <2> QED
    BY <2>1, OneMore
<1> QED
  BY <1>2, <1>3

-----------------------------------------------------------------------------
(* Cutting chunks into pieces.                                             *)

\* How many pieces a chunk has.
PieceCount(len) == (len + ChunkSize - 1) \div ChunkSize

\* As many pieces as it takes to hold len bytes, and no more.
LEMMA PieceCountIs ==
  ASSUME NEW len \in Nat \ {0}
  PROVE  /\ PieceCount(len) \in Nat \ {0}
         /\ PieceCount(len) * ChunkSize >= len /\ (PieceCount(len) - 1) * ChunkSize < len
<1> DEFINE a == len + ChunkSize - 1
           q == a \div ChunkSize
           r == a % ChunkSize
<1>1. ChunkSize \in Nat \ {0} /\ a \in Nat /\ a >= ChunkSize
  BY DeviceAssumption
<1> HIDE DEF a
<1>2. q \in Int /\ r \in 0..(ChunkSize - 1) /\ a = ChunkSize * q + r
  BY <1>1, SMT
<1> HIDE DEF q, r
<1>3. ChunkSize * q = q * ChunkSize /\ (q - 1) * ChunkSize = q * ChunkSize - ChunkSize
  BY <1>1, <1>2, SMT
<1>4. q * ChunkSize > a - ChunkSize /\ q * ChunkSize <= a
  BY <1>1, <1>2, <1>3, SMT
<1>5. q > 0
  <2>1. q * ChunkSize > 0
    BY <1>1, <1>2, <1>4, SMT
  <2> QED
    BY <1>1, <1>2, <2>1, SMT
<1>6. q * ChunkSize >= len /\ (q - 1) * ChunkSize < len
  <2>1. a = len + ChunkSize - 1
    BY DEF a
  <2>2. q * ChunkSize \in Int
    BY <1>1, <1>2
  <2> DEFINE m == q * ChunkSize
  <2>3. m \in Int /\ m > a - ChunkSize /\ m <= a /\ (q - 1) * ChunkSize = m - ChunkSize
    BY <1>3, <1>4, <2>2
  <2> HIDE DEF m
  <2>4. m >= len /\ m - ChunkSize < len
    BY <1>1, <2>1, <2>3
  <2> QED
    BY <2>3, <2>4 DEF m
<1> QED
  BY <1>2, <1>5, <1>6 DEF q, a, PieceCount

\* The pieces of a chunk are no longer than ChunkSize, and together its bytes.
LEMMA PiecesBytes ==
  ASSUME NEW B, NEW bytes \in Seq(B), NEW c \in ChunksOn(bytes)
  PROVE  /\ Pieces(c) \in Seq(ChunksOn(bytes)) /\ Pieces(c) # <<>>
         /\ Pieces(c)[1].at = c.at /\ Pieces(c)[1].len = Least(ChunkSize, c.len)
         /\ \A k \in 1..Len(Pieces(c)) : Pieces(c)[k].len \in 1..ChunkSize
         /\ BytesOf(bytes, Pieces(c)) = Extract(bytes, c.at, c.len)
<1> DEFINE ps == Pieces(c)
           n == PieceCount(c.len)
           C == ChunkSize
           at == c.at
           len == c.len
           EndOf(k) == Least(k * C, len)
<1>1. C \in Nat \ {0}
  BY DeviceAssumption
<1>2. at \in Nat /\ len \in Nat \ {0} /\ at + len <= Len(bytes) /\ Len(bytes) \in Nat
  BY LenProperties DEF ChunksOn
<1>3. n \in Nat \ {0} /\ n * C >= len /\ (n - 1) * C < len
  BY <1>2, PieceCountIs
<1>4. ps = [k \in 1..n |-> [at |-> at + (k - 1) * C, len |-> Least(C, len - (k - 1) * C)]]
  BY DEF Pieces, PieceCount
<1> HIDE DEF n, C, at, len, ps
<1>5. ASSUME NEW k \in 1..n
      PROVE  /\ (k - 1) * C \in Nat /\ k * C = (k - 1) * C + C /\ (k - 1) * C < len
             /\ (k - 1) * C <= (n - 1) * C
  <2>1. k * C = (k - 1) * C + C
    BY <1>1, <1>3, SMT
  <2>2. (k - 1) * C \in Nat
    BY <1>1, <1>3, SMT
  <2>3. (k - 1) * C <= (n - 1) * C
    <3>1. n - k \in Nat /\ (n - 1) * C = (k - 1) * C + (n - k) * C
      BY <1>1, <1>3, SMT
    <3>2. (n - k) * C \in Nat
      BY <1>1, <3>1, SMT
    <3> QED
      BY <2>2, <3>1, <3>2
  <2>4. (n - 1) * C \in Int
    BY <1>1, <1>3
  <2> QED
    BY <1>2, <1>3, <2>1, <2>2, <2>3, <2>4
<1>6. ASSUME NEW k \in 1..n
      PROVE  /\ ps[k].at = at + (k - 1) * C /\ ps[k].len = Least(C, len - (k - 1) * C)
             /\ ps[k].len \in 1..C /\ ps[k].at + ps[k].len <= at + len
             /\ ps[k] \in ChunksOn(bytes)
  <2>1. ps[k] = [at |-> at + (k - 1) * C, len |-> Least(C, len - (k - 1) * C)]
    BY <1>4
  <2> DEFINE m == (k - 1) * C
  <2>2. m \in Nat /\ m < len
    BY <1>5
  <2> HIDE DEF m
  <2>3. /\ Least(C, len - m) \in 1..C /\ Least(C, len - m) \in Nat \ {0}
        /\ at + m + Least(C, len - m) <= at + len /\ at + m \in Nat
        /\ at + m + Least(C, len - m) <= Len(bytes)
    BY <1>1, <1>2, <2>2 DEF Least
  <2>4. ps[k] = [at |-> at + m, len |-> Least(C, len - m)]
    BY <2>1 DEF m
  <2>5. ps[k] \in ChunksOn(bytes)
    BY <2>3, <2>4 DEF ChunksOn
  <2> QED
    BY <2>3, <2>4, <2>5 DEF m
<1>7. ps \in Seq(ChunksOn(bytes)) /\ Len(ps) = n /\ ps # <<>>
  <2>1. ps = [k \in 1..n |-> ps[k]]
    BY <1>4
  <2>2. ps \in [1..n -> ChunksOn(bytes)]
    BY <1>6, <2>1
  <2>3. ps \in Seq(ChunksOn(bytes)) /\ Len(ps) = n
    BY <1>3, <2>2, SeqDef
  <2> QED
    BY <1>3, <2>3, EmptySeq
<1> DEFINE es == Extracts(bytes, ps)
<1>8. /\ es \in Seq(Seq(B)) /\ Len(es) = n
      /\ \A k \in 1..n : es[k] = Extract(bytes, ps[k].at, ps[k].len)
  BY <1>7, ExtractsType
<1> HIDE DEF es
<1>9. PICK g : IsFlattening(B, es, g)
  BY <1>8, FlatteningExists
<1>10. FlattenSeq(es) = g[n]
  BY <1>8, <1>9, FlatteningIs
<1>11. g[0] = <<>> /\ \A k \in 1..n : g[k] = g[k - 1] \o es[k]
  BY <1>8, <1>9 DEF IsFlattening
<1> DEFINE T == {k \in 0..n : g[k] = Extract(bytes, at, EndOf(k))}
<1>12. 0 \in T
  <2>1. 0 * C = 0 /\ Least(0, len) = 0 /\ at + 1 \in Int /\ at + 0 \in Int /\ at + 0 < at + 1
    BY <1>1, <1>2 DEF Least
  <2>2. Extract(bytes, at, 0) = <<>>
    BY <2>1, SubSeqEmpty DEF Extract
  <2>3. EndOf(0) = 0
    BY <2>1
  <2> QED
    BY <1>3, <1>11, <2>2, <2>3
<1>13. ASSUME NEW k \in 1..n, k - 1 \in T PROVE k \in T
  <2> DEFINE m == (k - 1) * C
             l == Least(C, len - m)
  <2>1. m \in Nat /\ m < len /\ k * C = m + C
    BY <1>5
  <2>2. ps[k].at = at + m /\ ps[k].len = l
    BY <1>6
  <2>3. g[k - 1] = Extract(bytes, at, EndOf(k - 1))
    BY <1>13
  <2>4. EndOf(k - 1) = Least(m, len) /\ EndOf(k) = Least(k * C, len)
    OBVIOUS
  <2> HIDE DEF m, EndOf
  <2>5. Least(m, len) = m /\ Least(m + C, len) = m + l /\ l \in Nat /\ at + m + l <= Len(bytes)
    BY <1>1, <1>2, <2>1 DEF Least
  <2> HIDE DEF l
  <2>6. Extract(bytes, at, m) \o Extract(bytes, at + m, l) = Extract(bytes, at, m + l)
    <3>1. at \in Nat /\ m \in Nat /\ l \in Nat /\ at + m + l <= Len(bytes) /\ bytes \in Seq(B)
      BY <1>2, <2>1, <2>5
    <3> QED
      BY ONLY <3>1, ExtractsMeet
  <2>7. g[k] = Extract(bytes, at, m) \o Extract(bytes, at + m, l)
    BY <1>8, <1>11, <2>2, <2>3, <2>4, <2>5, Zenon
  <2>8. g[k] = Extract(bytes, at, EndOf(k))
    BY <2>1, <2>4, <2>5, <2>6, <2>7
  <2>9. k \in 0..n
    BY <1>3
  <2> QED
    BY <2>8, <2>9
<1>14. g[n] = Extract(bytes, at, EndOf(n)) /\ EndOf(n) = len
  <2> HIDE DEF T
  <2>1. \A k \in 0..n : k \in T
    BY <1>3, <1>12, <1>13, Upwards, Zenon
  <2>2. n \in T
    BY <1>3, <2>1
  <2>3. Least(n * C, len) = len
    <3>1. n * C \in Int
      BY <1>1, <1>3
    <3> QED
      BY <1>2, <1>3, <3>1 DEF Least
  <2> QED
    BY <2>2, <2>3 DEF T
<1>15. BytesOf(bytes, ps) = Extract(bytes, at, len)
  BY <1>10, <1>14 DEF BytesOf, es
<1>16. ps[1].at = at /\ ps[1].len = Least(C, len)
  <2>1. (1 - 1) * C = 0 /\ 1 \in 1..n /\ at + 0 = at /\ len - 0 = len
    BY <1>1, <1>2, <1>3
  <2> QED
    BY <1>6, <2>1
<1> QED
  BY <1>6, <1>7, <1>15, <1>16 DEF ps, at, len, C

\* A chunk that a chunk buffer holds.
ShortChunks(bytes) == {c \in ChunksOn(bytes) : c.len \in 1..ChunkSize}

\* SplitBytes: cut into pieces that fit the buffer, a list of chunks stands for
\* the same bytes.
THEOREM SplitBytes ==
  ASSUME NEW B, NEW bytes \in Seq(B), NEW cs \in Seq(ChunksOn(bytes))
  PROVE  /\ SplitChunks(cs) \in Seq(ShortChunks(bytes))
         /\ SplitChunks(cs) \in Seq(ChunksOn(bytes))
         /\ BytesOf(bytes, SplitChunks(cs)) = BytesOf(bytes, cs)
<1> DEFINE n == Len(cs)
           ps == [i \in DOMAIN cs |-> Pieces(cs[i])]
           es == Extracts(bytes, cs)
           CO == ChunksOn(bytes)
           SO == ShortChunks(bytes)
<1>1. n \in Nat /\ DOMAIN cs = 1..n /\ \A i \in 1..n : cs[i] \in CO
  BY LenProperties, ElementOfSeq
<1>2. ps = [i \in 1..n |-> Pieces(cs[i])]
  BY <1>1
<1> HIDE DEF ps, n
<1>3. ASSUME NEW i \in 1..n
      PROVE  /\ ps[i] \in Seq(CO) /\ ps[i] \in Seq(SO)
             /\ BytesOf(bytes, ps[i]) = Extract(bytes, cs[i].at, cs[i].len)
  <2>1. /\ ps[i] \in Seq(CO) /\ \A k \in 1..Len(ps[i]) : ps[i][k].len \in 1..ChunkSize
        /\ BytesOf(bytes, ps[i]) = Extract(bytes, cs[i].at, cs[i].len)
    BY <1>1, <1>2, PiecesBytes, Zenon
  <2>2. /\ Len(ps[i]) \in Nat /\ ps[i] \in [1..Len(ps[i]) -> CO]
        /\ \A k \in 1..Len(ps[i]) : ps[i][k] \in CO
    BY <2>1, LenProperties, ElementOfSeq
  <2>3. \A k \in 1..Len(ps[i]) : ps[i][k] \in SO
    BY <2>1, <2>2 DEF ShortChunks
  <2>4. ps[i] \in [1..Len(ps[i]) -> SO]
    BY <2>2, <2>3
  <2>5. ps[i] \in Seq(SO)
    BY <2>2, <2>4, SeqDef, Zenon
  <2> QED
    BY <2>1, <2>5
<1>4. ps \in Seq(Seq(CO)) /\ Len(ps) = n /\ ps \in Seq(Seq(SO))
  <2>1. ps \in [1..n -> Seq(CO)] /\ ps \in [1..n -> Seq(SO)]
    BY <1>2, <1>3
  <2>2. ps \in Seq(Seq(CO)) /\ Len(ps) = n
    BY <1>1, <2>1, SeqDef
  <2>3. ps \in Seq(Seq(SO))
    BY <1>1, <2>1, SeqDef
  <2> QED
    BY <2>2, <2>3
<1>5. SplitChunks(cs) = FlattenSeq(ps)
  BY DEF SplitChunks, ps
<1>6. /\ es \in Seq(Seq(B)) /\ Len(es) = n
      /\ \A i \in 1..n : es[i] = Extract(bytes, cs[i].at, cs[i].len)
  BY ExtractsType DEF n
<1> HIDE DEF es, CO
<1>7. PICK f : IsFlattening(B, es, f)
  BY <1>6, FlatteningExists
<1>8. PICK g : IsFlattening(CO, ps, g)
  BY <1>4, FlatteningExists
<1>9. FlattenSeq(es) = f[n] /\ FlattenSeq(ps) = g[n]
  BY <1>4, <1>6, <1>7, <1>8, FlatteningIs
<1>10. f[0] = <<>> /\ \A i \in 1..n : f[i] = f[i - 1] \o es[i]
  BY <1>6, <1>7 DEF IsFlattening
<1>11. /\ g[0] = <<>> /\ \A i \in 1..n : g[i] = g[i - 1] \o ps[i]
       /\ \A i \in 0..n : g[i] \in Seq(CO)
  BY <1>4, <1>8, Zenon DEF IsFlattening
<1> DEFINE T == {i \in 0..n : BytesOf(bytes, g[i]) = f[i]}
<1>12. 0 \in T
  <2>1. BytesOf(bytes, <<>>) = <<>>
    BY NoChunk
  <2> QED
    BY <1>1, <1>10, <1>11, <2>1
<1>13. ASSUME NEW i \in 1..n, i - 1 \in T PROVE i \in T
  <2>1. i \in 0..n /\ i - 1 \in 0..n /\ BytesOf(bytes, g[i - 1]) = f[i - 1]
    BY <1>1, <1>13
  <2>2. BytesOf(bytes, g[i - 1] \o ps[i]) = BytesOf(bytes, g[i - 1]) \o BytesOf(bytes, ps[i])
    <3>1. g[i - 1] \in Seq(CO) /\ ps[i] \in Seq(CO)
      BY <1>3, <1>11, <2>1
    <3> QED
      BY <3>1, BytesOfConcat, Zenon DEF CO
  <2>3. BytesOf(bytes, g[i]) = f[i]
    BY <1>3, <1>6, <1>10, <1>11, <2>1, <2>2, Zenon
  <2> QED
    BY <2>1, <2>3
<1>14. BytesOf(bytes, g[n]) = f[n]
  <2> HIDE DEF T
  <2>1. \A i \in 0..n : i \in T
    BY <1>1, <1>12, <1>13, Upwards
  <2>2. n \in T
    BY <1>1, <2>1
  <2> QED
    BY <2>2 DEF T
<1>15. FlattenSeq(ps) \in Seq(SO) /\ FlattenSeq(ps) \in Seq(CO)
  BY <1>4, FlattenType
<1> QED
  BY <1>5, <1>9, <1>14, <1>15 DEF BytesOf, es, CO

-----------------------------------------------------------------------------
\* A first chunk that begins later leaves out so many bytes.
Later(cs, skip) == [cs EXCEPT ![1].at = @ + skip, ![1].len = @ - skip]

\* A list of which the first chunk begins skip bytes later lacks these bytes.
LEMMA FirstLater ==
  ASSUME NEW B, NEW bytes \in Seq(B), NEW cs \in Seq(ChunksOn(bytes)), cs # <<>>,
         NEW skip \in Nat, skip < cs[1].len
  PROVE  /\ Later(cs, skip) \in Seq(ChunksOn(bytes))
         /\ BytesOf(bytes, Later(cs, skip)) = RestFrom(BytesOf(bytes, cs), skip)
<1> DEFINE n == Len(cs)
           c == cs[1]
           d == [at |-> c.at + skip, len |-> c.len - skip]
           later == [cs EXCEPT ![1].at = @ + skip, ![1].len = @ - skip]
           t == Tail(cs)
<1>1. /\ n \in Nat \ {0} /\ 1 \in 1..n /\ c \in ChunksOn(bytes) /\ DOMAIN cs = 1..n
  BY LenProperties, ElementOfSeq, EmptySeq
<1>2. /\ c = [at |-> c.at, len |-> c.len] /\ c.at \in Nat /\ c.len \in Nat \ {0}
      /\ c.at + c.len <= Len(bytes) /\ Len(bytes) \in Nat
  BY <1>1, LenProperties DEF ChunksOn
<1>3. d \in ChunksOn(bytes) /\ skip \in 0..c.len
  <2>1. c.at + skip \in Nat /\ c.len - skip \in Nat \ {0} /\ c.at + skip + (c.len - skip) <= Len(bytes)
    BY <1>2
  <2> QED
    BY <1>2, <2>1 DEF ChunksOn
<1>4. later = [cs EXCEPT ![1] = d]
  <2>1. later = [cs EXCEPT ![1] = [[c EXCEPT !.at = c.at + skip] EXCEPT !.len = c.len - skip]]
    BY <1>1, Zenon
  <2>2. \A a, l, x, y : /\ [[at |-> a, len |-> l] EXCEPT !.at = x] = [at |-> x, len |-> l]
                        /\ [[at |-> a, len |-> l] EXCEPT !.len = y] = [at |-> a, len |-> y]
    OBVIOUS
  <2>3. [[c EXCEPT !.at = c.at + skip] EXCEPT !.len = c.len - skip] = d
    <3> HIDE DEF c
    <3>1. c = [at |-> c.at, len |-> c.len]
      BY <1>2
    <3>2. [c EXCEPT !.at = c.at + skip] = [at |-> c.at + skip, len |-> c.len]
      BY ONLY <2>2, <3>1
    <3>3. [[at |-> c.at + skip, len |-> c.len] EXCEPT !.len = c.len - skip]
            = [at |-> c.at + skip, len |-> c.len - skip]
      BY ONLY <2>2
    <3> QED
      BY ONLY <3>2, <3>3, Zenon
  <2> QED
    BY <2>1, <2>3, Zenon
<1>5. t \in Seq(ChunksOn(bytes)) /\ Len(t) = n - 1 /\ \A i \in 1..(n - 1) : t[i] = cs[i + 1]
  BY HeadTailProperties
<1>6. Head(cs) = c
  BY <1>1
<1>7. cs = <<c>> \o t
  BY <1>6, HeadAndTail
<1> HIDE DEF n, c, d, later, t
<1>8. later = <<d>> \o t
  <2>1. /\ later \in Seq(ChunksOn(bytes)) /\ Len(later) = n
        /\ \A i \in 1..n : later[i] = IF i = 1 THEN d ELSE cs[i]
    BY <1>1, <1>3, <1>4, ExceptSeq DEF n
  <2>2. <<d>> \in Seq(ChunksOn(bytes)) /\ Len(<<d>>) = 1 /\ <<d>>[1] = d
    BY <1>3, SmallQueues
  <2>3. /\ <<d>> \o t \in Seq(ChunksOn(bytes)) /\ Len(<<d>> \o t) = 1 + (n - 1)
        /\ \A i \in 1..(1 + (n - 1)) : (<<d>> \o t)[i] = IF i <= 1 THEN <<d>>[i] ELSE t[i - 1]
    BY <1>5, <2>2, ConcatProperties
  <2>4. 1 + (n - 1) = n
    BY <1>1
  <2>5. ASSUME NEW i \in 1..n PROVE later[i] = (<<d>> \o t)[i]
    <3>1. CASE i = 1
      BY <2>1, <2>2, <2>3, <2>4, <3>1
    <3>2. CASE i # 1
      <4>1. ~(i <= 1) /\ i - 1 \in 1..(n - 1) /\ i - 1 + 1 = i
        BY <1>1, <3>2
      <4>2. later[i] = cs[i] /\ (<<d>> \o t)[i] = t[i - 1]
        BY <2>1, <2>3, <2>4, <3>2, <4>1
      <4>3. t[i - 1] = cs[i - 1 + 1]
        BY <1>5, <4>1
      <4> QED
        BY <4>1, <4>2, <4>3, Zenon
    <3> QED
      BY <3>1, <3>2, Zenon
  <2> QED
    BY <2>1, <2>3, <2>4, <2>5, SeqEqual
<1>9. /\ <<c>> \in Seq(ChunksOn(bytes)) /\ BytesOf(bytes, <<c>>) = Extract(bytes, c.at, c.len)
      /\ <<d>> \in Seq(ChunksOn(bytes)) /\ BytesOf(bytes, <<d>>) = Extract(bytes, d.at, d.len)
  BY <1>1, <1>3, OneChunk
<1>10. BytesOf(bytes, cs) = Extract(bytes, c.at, c.len) \o BytesOf(bytes, t)
  BY <1>5, <1>7, <1>9, BytesOfConcat, ZenonT(60)
<1>11. /\ later \in Seq(ChunksOn(bytes))
       /\ BytesOf(bytes, later) = Extract(bytes, d.at, d.len) \o BytesOf(bytes, t)
  BY <1>5, <1>8, <1>9, BytesOfConcat, Zenon
<1>12. Extract(bytes, d.at, d.len) = RestFrom(Extract(bytes, c.at, c.len), skip)
  <2>1. d.at = c.at + skip /\ d.len = c.len - skip
    BY DEF d
  <2>2. c.at \in Nat /\ c.len \in Nat /\ c.at + c.len <= Len(bytes) /\ skip \in 0..c.len
    BY <1>2, <1>3
  <2> QED
    BY <2>1, <2>2, ExtractRest
<1>13. RestFrom(BytesOf(bytes, cs), skip)
         = RestFrom(Extract(bytes, c.at, c.len), skip) \o BytesOf(bytes, t)
  <2>1. /\ Extract(bytes, c.at, c.len) \in Seq(B) /\ Len(Extract(bytes, c.at, c.len)) = c.len
    BY <1>2, ExtractIs
  <2>2. BytesOf(bytes, t) \in Seq(B)
    BY <1>5, ExtractsType
  <2> QED
    BY <1>3, <1>10, <2>1, <2>2, RestInside
<1> QED
  BY <1>11, <1>12, <1>13, Zenon DEF later, Later

\* The pieces of a run without the bytes that have been read, unless that is all
\* of it.
LEMMA RunPiecesBytes ==
  ASSUME NEW B, NEW bytes \in Seq(B), NEW at \in Nat, NEW take \in Nat, at + take <= Len(bytes),
         NEW skip \in Nat, skip <= Block, skip < take \/ (take = 0 /\ skip = 0)
  PROVE  /\ RunPieces(at, take, skip) \in Seq(ChunksOn(bytes))
         /\ BytesOf(bytes, RunPieces(at, take, skip)) = Extract(bytes, at + skip, take - skip)
<1>1. CASE take = 0
  <2>1. RunPieces(at, take, skip) = <<>> /\ take - skip = 0 /\ at + skip = at
    BY <1>1 DEF RunPieces
  <2>2. Extract(bytes, at, 0) = <<>>
    <3>1. at + 1 \in Int /\ at + 0 \in Int /\ at + 0 < at + 1
      OBVIOUS
    <3> QED
      BY <3>1, SubSeqEmpty DEF Extract
  <2> QED
    BY <2>1, <2>2, NoChunk
<1>2. CASE take # 0
  <2> DEFINE c == [at |-> at, len |-> take]
             ps == Pieces(c)
  <2>1. skip < take /\ skip # take /\ skip \in 0..take
    BY <1>2
  <2>2. c \in ChunksOn(bytes) /\ c.at = at /\ c.len = take
    BY <1>2 DEF ChunksOn
  <2>3. RunPieces(at, take, skip) = Later(ps, skip)
    BY <1>2, <2>1 DEF RunPieces, Later
  <2> HIDE DEF c
  <2>4. /\ ps \in Seq(ChunksOn(bytes)) /\ ps # <<>> /\ ps[1].len = Least(ChunkSize, take)
        /\ BytesOf(bytes, ps) = Extract(bytes, at, take)
    BY <2>2, PiecesBytes
  <2>5. skip < ps[1].len
    <3>1. skip < ChunkSize
      BY ClusterAssumption, DeviceAssumption
    <3> QED
      BY <2>1, <2>4, <3>1 DEF Least
  <2> HIDE DEF ps
  <2>6. /\ Later(ps, skip) \in Seq(ChunksOn(bytes))
        /\ BytesOf(bytes, Later(ps, skip)) = RestFrom(BytesOf(bytes, ps), skip)
    BY <2>4, <2>5, FirstLater
  <2>7. RestFrom(Extract(bytes, at, take), skip) = Extract(bytes, at + skip, take - skip)
    BY <2>1, ExtractRest
  <2> QED
    BY <2>3, <2>4, <2>6, <2>7
<1> QED
  BY <1>1, <1>2

-----------------------------------------------------------------------------
(* Pushing chunks, and the beginning of a text.                            *)

\* The fold of push_chunk over a list of chunks.
PushStep(none, cs, c) == PushChunk(cs, c)
Pushing == INSTANCE FoldSteps WITH step <- PushStep

\* Pushed one after the other, chunks add their bytes.
LEMMA PushedBytes ==
  ASSUME NEW B, NEW bytes \in Seq(B), NEW cs \in Seq(ChunksOn(bytes)),
         NEW ps \in Seq(ChunksOn(bytes))
  PROVE  /\ FoldLeft(PushChunk, cs, ps) \in Seq(ChunksOn(bytes))
         /\ BytesOf(bytes, FoldLeft(PushChunk, cs, ps)) = BytesOf(bytes, cs) \o BytesOf(bytes, ps)
<1> DEFINE n == Len(ps)
           CO == ChunksOn(bytes)
           es == Extracts(bytes, ps)
<1>1. n \in Nat /\ DOMAIN ps = 1..n /\ \A i \in 1..n : ps[i] \in CO
  BY LenProperties, ElementOfSeq
<1>2. FoldLeft(PushChunk, cs, ps) = Pushing!Fold({}, cs, ps)
  BY DEF Pushing!Fold, PushStep, FoldLeft, MapThenFoldSet, Max,
         Pushing!Greatest
<1>3. PICK h : Pushing!IsFold({}, cs, ps, h) /\ Pushing!Fold({}, cs, ps) = h[n]
  BY <1>1, Pushing!FoldIs, Zenon
<1>4. h[0] = cs /\ \A i \in 1..n : h[i] = PushChunk(h[i - 1], ps[i])
  BY <1>3, Zenon DEF Pushing!IsFold, PushStep
<1>5. /\ es \in Seq(Seq(B)) /\ Len(es) = n
      /\ \A i \in 1..n : es[i] = Extract(bytes, ps[i].at, ps[i].len)
  BY ExtractsType
<1> HIDE DEF n, es, CO
<1>6. PICK g : IsFlattening(B, es, g)
  BY <1>5, FlatteningExists
<1>7. FlattenSeq(es) = g[n]
  BY <1>5, <1>6, FlatteningIs
<1>8. /\ g[0] = <<>> /\ \A i \in 1..n : g[i] = g[i - 1] \o es[i]
      /\ \A i \in 0..n : g[i] \in Seq(B)
  BY <1>5, <1>6, Zenon DEF IsFlattening
<1> DEFINE a == BytesOf(bytes, cs)
           T == {i \in 0..n : h[i] \in Seq(CO) /\ BytesOf(bytes, h[i]) = a \o g[i]}
<1>9. a \in Seq(B)
  BY ExtractsType
<1> HIDE DEF a
<1>10. 0 \in T
  <2>1. a \o <<>> = a
    BY <1>9, ConcatEmptySeq
  <2>2. h[0] \in Seq(CO) /\ BytesOf(bytes, h[0]) = a
    BY <1>4 DEF a, CO
  <2>3. 0 \in 0..n
    BY <1>1
  <2> QED
    BY <1>8, <2>1, <2>2, <2>3, Zenon
<1>11. ASSUME NEW i \in 1..n, i - 1 \in T PROVE i \in T
  <2>1. /\ i \in 0..n /\ i - 1 \in 0..n /\ h[i - 1] \in Seq(CO) /\ ps[i] \in CO
        /\ BytesOf(bytes, h[i - 1]) = a \o g[i - 1]
    BY <1>1, <1>11
  <2> DEFINE x == Extract(bytes, ps[i].at, ps[i].len)
  <2>2. /\ PushChunk(h[i - 1], ps[i]) \in Seq(CO)
        /\ BytesOf(bytes, PushChunk(h[i - 1], ps[i])) = BytesOf(bytes, h[i - 1]) \o x
    BY <2>1, PushChunkBytes, Zenon DEF CO
  <2>3. x \in Seq(B) /\ g[i - 1] \in Seq(B)
    <3>1. ps[i].at \in Nat /\ ps[i].len \in Nat /\ ps[i].at + ps[i].len <= Len(bytes)
      BY <2>1 DEF CO, ChunksOn
    <3> QED
      BY <1>8, <2>1, <3>1, ExtractIs
  <2>4. g[i] = g[i - 1] \o x
    BY <1>5, <1>8, Zenon
  <2> HIDE DEF x
  <2>5. (a \o g[i - 1]) \o x = a \o (g[i - 1] \o x)
    <3> DEFINE y == g[i - 1]
    <3>1. a \in Seq(B) /\ y \in Seq(B) /\ x \in Seq(B)
      BY <1>9, <2>3
    <3> HIDE DEF y
    <3>2. (a \o y) \o x = a \o (y \o x)
      BY ONLY <3>1, Regrouped, SMTT(30)
    <3> QED
      BY <3>2 DEF y
  <2>6. h[i] \in Seq(CO) /\ BytesOf(bytes, h[i]) = a \o g[i]
    BY <1>4, <2>1, <2>2, <2>4, <2>5, Zenon
  <2> QED
    BY <2>1, <2>6
<1>12. h[n] \in Seq(CO) /\ BytesOf(bytes, h[n]) = a \o g[n]
  <2> HIDE DEF T
  <2>1. \A i \in 0..n : i \in T
    BY <1>1, <1>10, <1>11, Upwards, Zenon
  <2>2. n \in T
    BY <1>1, <2>1
  <2> QED
    BY <2>2 DEF T
<1> QED
  BY <1>2, <1>3, <1>7, <1>12 DEF a, CO, BytesOf, es

\* The first n elements of a text are its first min(length, n) elements.
LEMMA FirstIs ==
  ASSUME NEW B, NEW t \in Seq(B), NEW n \in Nat
  PROVE  /\ FirstOf(t, n) = Extract(t, 0, Least(Len(t), n))
         /\ FirstOf(t, n) \in Seq(B) /\ Len(FirstOf(t, n)) = Least(Len(t), n)
         /\ Least(Len(t), n) \in Nat /\ Least(Len(t), n) <= Len(t) /\ Least(Len(t), n) <= n
         /\ \A i \in 1..Least(Len(t), n) : FirstOf(t, n)[i] = t[i]
<1> DEFINE m == Least(Len(t), n)
<1>1. /\ Len(t) \in Nat /\ m \in Nat /\ 0 \in Nat /\ 0 + m <= Len(t) /\ m <= Len(t) /\ m <= n
      /\ 0 + 1 = 1 /\ 0 + m = m /\ \A i \in 1..m : 0 + i = i
  BY LenProperties DEF Least
<1>2. FirstOf(t, n) = Extract(t, 0, m)
  BY <1>1 DEF FirstOf, Extract, Least
<1> HIDE DEF m
<1>3. /\ Extract(t, 0, m) \in Seq(B) /\ Len(Extract(t, 0, m)) = m
      /\ \A i \in 1..m : Extract(t, 0, m)[i] = t[0 + i]
  BY <1>1, ExtractIs
<1> QED
  BY <1>1, <1>2, <1>3 DEF m

\* The same, of a text and a number that are known to be these.
Begins(x, m, f) == \A i \in 1..m : f[i] = x[i]

\* FirstIs with names for the length and the text, as its uses match it.
LEMMA FirstFacts ==
  ASSUME NEW B, NEW x \in Seq(B), NEW k \in Nat, NEW m, m = Least(Len(x), k),
         NEW f, f = FirstOf(x, k)
  PROVE  f \in Seq(B) /\ Len(f) = m /\ m \in Nat /\ Begins(x, m, f)
<1>1. FirstOf(x, k) \in Seq(B) /\ Len(FirstOf(x, k)) = Least(Len(x), k) /\ Least(Len(x), k) \in Nat
  BY FirstIs
<1>2. \A i \in 1..Least(Len(x), k) : FirstOf(x, k)[i] = x[i]
  BY FirstIs, Zenon
<1>3. Begins(x, Least(Len(x), k), FirstOf(x, k))
  BY <1>2 DEF Begins
<1> QED
  BY <1>1, <1>3

\* The beginning of a text that grows, grows by a beginning of what is added.
LEMMA FirstGrows ==
  ASSUME NEW B, NEW g \in Seq(B), NEW r \in Seq(B), NEW max \in Nat
  PROVE  /\ max - Len(FirstOf(g, max)) \in Nat
         /\ FirstOf(g \o r, max) = FirstOf(g, max) \o FirstOf(r, max - Len(FirstOf(g, max)))
<1> DEFINE G == Len(g)
           R == Len(r)
           t == FirstOf(g, max)
           T == Least(G, max)
           U == Least(R, max - T)
           u == FirstOf(r, max - T)
           c == g \o r
           C == Least(G + R, max)
           a == FirstOf(c, max)
           b == t \o u
<1>1. G \in Nat /\ R \in Nat
  BY LenProperties
<1>2. t \in Seq(B) /\ Len(t) = T /\ T \in Nat /\ \A i \in 1..T : t[i] = g[i]
  <2>1. T = Least(Len(g), max) /\ t = FirstOf(g, max)
    OBVIOUS
  <2> HIDE DEF t, T
  <2>2. t \in Seq(B) /\ Len(t) = T /\ T \in Nat /\ Begins(g, T, t)
    BY ONLY <2>1, g \in Seq(B), max \in Nat, FirstFacts
  <2> QED
    BY ONLY <2>2 DEF Begins
<1>3. max - T \in Nat /\ U \in Nat /\ C = T + U /\ T <= G /\ C <= G + R /\ U <= R
  <2> HIDE DEF G, R
  <2>1. T \in Nat /\ T <= G /\ T <= max /\ (T = G \/ T = max)
    BY <1>1 DEF Least
  <2> HIDE DEF T
  <2>2. max - T \in Nat /\ U \in Nat /\ U <= R
    BY <1>1, <2>1 DEF Least
  <2>3. C = T + U
    <3>1. CASE G <= max
      <4>1. T = G
        BY <1>1, <3>1 DEF T, Least
      <4> QED
        BY ONLY <1>1, <3>1, <4>1, max \in Nat DEF Least
    <3>2. CASE ~(G <= max)
      <4>1. T = max
        BY <1>1, <3>2 DEF T, Least
      <4> QED
        BY ONLY <1>1, <3>2, <4>1, max \in Nat DEF Least
    <3> QED
      BY <3>1, <3>2
  <2>4. C <= G + R
    BY <1>1 DEF Least
  <2> QED
    BY <2>1, <2>2, <2>3, <2>4
<1>4. u \in Seq(B) /\ Len(u) = U /\ \A i \in 1..U : u[i] = r[i]
  BY <1>3, FirstIs, Zenon
<1>5. /\ c \in Seq(B) /\ Len(c) = G + R
      /\ \A i \in 1..(G + R) : c[i] = IF i <= G THEN g[i] ELSE r[i - G]
  BY ConcatProperties
<1>6. a \in Seq(B) /\ Len(a) = C /\ \A i \in 1..C : a[i] = c[i]
  <2>1. c \in Seq(B) /\ Len(c) = G + R
    BY <1>5
  <2> HIDE DEF c
  <2>2. Len(a) = Least(Len(c), max) /\ \A i \in 1..Least(Len(c), max) : a[i] = c[i]
    BY ONLY <2>1, max \in Nat, FirstIs, Zenon
  <2>3. a \in Seq(B)
    BY ONLY <2>1, max \in Nat, FirstIs
  <2> QED
    BY <2>1, <2>2, <2>3
<1>7. U > 0 => T = G
  BY <1>1 DEF Least
<1> HIDE DEF t, u, c, a
<1>8. /\ b \in Seq(B) /\ Len(b) = T + U
      /\ \A i \in 1..(T + U) : b[i] = IF i <= T THEN t[i] ELSE u[i - T]
  <2> HIDE DEF T, U
  <2>1. t \in Seq(B) /\ u \in Seq(B) /\ Len(t) = T /\ Len(u) = U
    BY <1>2, <1>4
  <2> QED
    BY ONLY <2>1, ConcatProperties
<1> HIDE DEF b, G, R, T, U, C
<1>9. ASSUME NEW i \in 1..C PROVE a[i] = b[i]
  <2>1. CASE i <= T
    <3>1. i \in 1..T /\ i \in 1..(T + U) /\ i \in 1..(G + R) /\ i <= G
      BY <1>1, <1>2, <1>3, <2>1
    <3> QED
      BY <1>2, <1>5, <1>6, <1>8, <2>1, <3>1, Zenon
  <2>2. CASE ~(i <= T)
    <3>1. i - T \in 1..U /\ i \in 1..(T + U) /\ i \in 1..(G + R) /\ U > 0
      BY <1>1, <1>2, <1>3, <2>2
    <3>2. T = G /\ ~(i <= G) /\ i - G = i - T
      BY <1>7, <2>2, <3>1
    <3>3. a[i] = r[i - T]
      BY <1>5, <1>6, <3>1, <3>2
    <3>4. b[i] = r[i - T]
      BY <1>4, <1>8, <2>2, <3>1
    <3> QED
      BY <3>3, <3>4
  <2> QED
    BY <2>1, <2>2
<1>10. a = b
  <2>1. Len(a) = Len(b) /\ \A i \in 1..Len(a) : a[i] = b[i]
    BY <1>3, <1>6, <1>8, <1>9
  <2> QED
    BY <1>6, <1>8, <2>1, SeqEqual
<1> QED
  BY <1>2, <1>3, <1>10 DEF a, b, c, t, u

\* The beginning of an extract is an extract.
LEMMA FirstOfExtract ==
  ASSUME NEW B, NEW bytes \in Seq(B), NEW at \in Nat, NEW len \in Nat, at + len <= Len(bytes),
         NEW n \in Nat
  PROVE  /\ Least(len, n) \in Nat /\ at + Least(len, n) <= Len(bytes)
         /\ FirstOf(Extract(bytes, at, len), n) = Extract(bytes, at, Least(len, n))
<1> DEFINE e == Extract(bytes, at, len)
           m == Least(len, n)
           f == Extract(bytes, at, m)
<1>1. e \in Seq(B) /\ Len(e) = len /\ \A i \in 1..len : e[i] = bytes[at + i]
  BY ExtractIs
<1>2. m \in Nat /\ m <= len /\ at + m <= Len(bytes)
  BY LenProperties DEF Least
<1> HIDE DEF e, m
<1>3. f \in Seq(B) /\ Len(f) = m /\ \A i \in 1..m : f[i] = bytes[at + i]
  BY <1>2, ExtractIs
<1>4. FirstOf(e, n) \in Seq(B) /\ Len(FirstOf(e, n)) = m /\ \A i \in 1..m : FirstOf(e, n)[i] = e[i]
  BY <1>1, FirstIs, Zenon DEF m
<1> HIDE DEF f
<1>5. \A i \in 1..m : FirstOf(e, n)[i] = f[i]
  <2>1. \A i \in 1..m : i \in 1..len
    BY <1>2
  <2> QED
    BY <1>1, <1>3, <1>4, <2>1, Zenon
<1>6. FirstOf(e, n) = f
  BY <1>3, <1>4, <1>5, SeqEqual
<1> QED
  BY <1>2, <1>6 DEF e, f, m

\* A text without its first skip bytes grows by what is not skipped of an extract;
\* and how much of the skip is left after the text.
Grown(bytes, t, at, take, skip, over) ==
  RestFrom(t \o Extract(bytes, at, take), skip)
              = RestFrom(t, skip) \o Extract(bytes, at + over, take - over)
LeftOf(skip, t) == skip - Least(skip, Len(t))
\* RestGrows, for a number that is known to be the one that is cut.
LEMMA GrowsTo ==
  ASSUME NEW B, NEW bytes \in Seq(B), NEW t \in Seq(B), NEW at \in Nat, NEW take \in Nat,
         at + take <= Len(bytes), NEW skip \in Nat,
         NEW over, over = Least(LeftOf(skip, t), take)
  PROVE  /\ over \in 0..take
         /\ Grown(bytes, t, at, take, skip, over)
<1> DEFINE o == Least(skip - Least(skip, Len(t)), take)
<1>1. /\ o \in 0..take
      /\ RestFrom(t \o Extract(bytes, at, take), skip)
           = RestFrom(t, skip) \o Extract(bytes, at + o, take - o)
  BY RestGrows, SMTT(30)
<1>2. over = o
  BY DEF LeftOf
<1> HIDE DEF o
<1>3. Grown(bytes, t, at, take, skip, o)
  BY <1>1 DEF Grown
<1> QED
  BY <1>1, <1>2, <1>3

-----------------------------------------------------------------------------
(* The plan of an ext4 file.                                               *)

\* Extents that lie on the device.
ExtentsIn(bytes) ==
  {e \in [start : Nat, len : Nat] : (e.start + e.len) * Block <= Len(bytes)}

\* The bytes of the extents, each for itself.
ExtentBytes(bytes, exts) ==
  [i \in DOMAIN exts |-> Extract(bytes, exts[i].start * Block, exts[i].len * Block)]

\* Extents in whole blocks are extents in bytes.
LEMMA ExtentOnDevice ==
  ASSUME NEW bytes, NEW e \in ExtentsIn(bytes)
  PROVE  /\ e.start * Block \in Nat /\ e.len * Block \in Nat
         /\ e.start * Block + e.len * Block <= Len(bytes)
<1>1. /\ e.start \in Nat /\ e.len \in Nat /\ Block \in Nat
      /\ (e.start + e.len) * Block <= Len(bytes)
  BY DeviceAssumption DEF ExtentsIn
<1>2. /\ e.start * Block \in Nat /\ e.len * Block \in Nat
      /\ (e.start + e.len) * Block = e.start * Block + e.len * Block
  BY <1>1, SMT
<1> QED
  BY <1>1, <1>2

\* The bytes of each extent are bytes of the device.
LEMMA ExtentBytesType ==
  ASSUME NEW B, NEW bytes \in Seq(B), NEW exts \in Seq(ExtentsIn(bytes))
  PROVE  /\ ExtentBytes(bytes, exts) \in Seq(Seq(B)) /\ Len(ExtentBytes(bytes, exts)) = Len(exts)
         /\ \A i \in 1..Len(exts) : ExtentBytes(bytes, exts)[i]
              = Extract(bytes, exts[i].start * Block, exts[i].len * Block)
<1> DEFINE n == Len(exts)
           es == ExtentBytes(bytes, exts)
<1>1. n \in Nat /\ DOMAIN exts = 1..n /\ \A i \in 1..n : exts[i] \in ExtentsIn(bytes)
  BY LenProperties, ElementOfSeq
<1>2. es = [i \in 1..n |-> Extract(bytes, exts[i].start * Block, exts[i].len * Block)]
  BY <1>1 DEF ExtentBytes
<1> HIDE DEF n, es
<1>3. ASSUME NEW i \in 1..n PROVE es[i] \in Seq(B)
  <2>1. /\ exts[i].start * Block \in Nat /\ exts[i].len * Block \in Nat
        /\ exts[i].start * Block + exts[i].len * Block <= Len(bytes)
    BY <1>1, ExtentOnDevice
  <2>2. Extract(bytes, exts[i].start * Block, exts[i].len * Block) \in Seq(B)
    BY <2>1, ExtractIs
  <2> QED
    BY <1>2, <2>2
<1>4. es \in [1..n -> Seq(B)]
  BY <1>2, <1>3
<1>5. es \in Seq(Seq(B)) /\ Len(es) = n
  BY <1>1, <1>4, SeqDef
<1> QED
  BY <1>2, <1>5 DEF n, es

\* The fold of Plan.
PlanStep(max, acc, e) ==
  LET take == Least(e.len * Block, max - acc.total)
      over == Least(acc.skip, take)
  IN  [total  |-> acc.total + take,
       skip   |-> acc.skip - over,
       chunks |-> AddChunk(acc.chunks, e.start * Block + over, take - over)]
Planning == INSTANCE FoldSteps WITH step <- PlanStep

\* PlanBytes: the chunks planned for a file stand for the first max bytes of
\* its extents, in order and each once, without the skip bytes that the probe
\* has read; wherever the limit and the end of the probe fall in an extent, and
\* whichever pieces are merged (collect_file_chunks, collect_extent_chunks).
THEOREM PlanBytes ==
  ASSUME NEW B, NEW bytes \in Seq(B), NEW exts \in Seq(ExtentsIn(bytes)),
         NEW max \in Nat, NEW skip \in Nat
  PROVE  /\ Plan(exts, max, skip) \in Seq(ChunksOn(bytes))
         /\ BytesOf(bytes, Plan(exts, max, skip))
              = RestFrom(FirstOf(FlattenSeq(ExtentBytes(bytes, exts)), max), skip)
<1> DEFINE n == Len(exts)
           CO == ChunksOn(bytes)
           es == ExtentBytes(bytes, exts)
           b == [total |-> 0, skip |-> skip, chunks |-> <<>>]
<1>1. n \in Nat /\ DOMAIN exts = 1..n /\ \A i \in 1..n : exts[i] \in ExtentsIn(bytes)
  BY LenProperties, ElementOfSeq
<1>2. Plan(exts, max, skip) = Planning!Fold(max, b, exts).chunks
  BY DEF Plan, Planning!Fold, PlanStep, FoldLeft, MapThenFoldSet, Max,
         Planning!Greatest
<1> HIDE DEF b
<1>3. PICK h : Planning!IsFold(max, b, exts, h) /\ Planning!Fold(max, b, exts) = h[n]
  BY <1>1, Planning!FoldIs
<1>4. h[0] = b /\ \A i \in 1..n : h[i] = PlanStep(max, h[i - 1], exts[i])
  BY <1>3, Zenon DEF Planning!IsFold
<1>5. /\ es \in Seq(Seq(B)) /\ Len(es) = n
      /\ \A i \in 1..n : es[i] = Extract(bytes, exts[i].start * Block, exts[i].len * Block)
  BY ExtentBytesType
<1> HIDE DEF n, es, CO
<1>6. PICK g : IsFlattening(B, es, g)
  BY <1>5, FlatteningExists
<1>7. FlattenSeq(es) = g[n]
  BY <1>5, <1>6, FlatteningIs
<1>8. /\ g[0] = <<>> /\ \A i \in 1..n : g[i] = g[i - 1] \o es[i]
      /\ \A i \in 0..n : g[i] \in Seq(B)
  BY <1>5, <1>6, Zenon DEF IsFlattening
<1> DEFINE F(i) == FirstOf(g[i], max)
           Good(i) == /\ h[i].total = Len(F(i))
                      /\ h[i].skip = skip - Least(skip, Len(F(i)))
                      /\ h[i].chunks \in Seq(CO)
                      /\ BytesOf(bytes, h[i].chunks) = RestFrom(F(i), skip)
           T == {i \in 0..n : Good(i)}
<1>9. 0 \in T
  <2>1. F(0) = <<>>
    <3>1. g[0] = <<>> /\ Len(<<>>) = 0 /\ 0 <= max
      BY <1>8
    <3>2. SubSeq(<<>>, 1, 0) = <<>>
      BY SubSeqEmpty
    <3> QED
      BY <3>1, <3>2 DEF FirstOf
  <2>2. RestFrom(<<>>, skip) = <<>>
    <3>1. <<>> \in Seq(B) /\ skip >= Len(<<>>)
      BY EmptySeq
    <3> QED
      BY <3>1, RestSmall, Zenon
  <2>3. h[0].total = 0 /\ h[0].skip = skip /\ h[0].chunks = <<>>
    BY <1>4 DEF b
  <2>4. <<>> \in Seq(CO) /\ BytesOf(bytes, <<>>) = <<>>
    BY NoChunk DEF CO
  <2>5. skip - Least(skip, 0) = skip /\ Len(<<>>) = 0 /\ 0 \in 0..n
    BY <1>1 DEF Least
  <2> QED
    BY <2>1, <2>2, <2>3, <2>4, <2>5, Zenon
<1>10. ASSUME NEW i \in 1..n, i - 1 \in T PROVE i \in T
  <2>1. i \in 0..n /\ i - 1 \in 0..n /\ Good(i - 1)
    BY <1>1, <1>10
  <2> DEFINE at == exts[i].start * Block
             len == exts[i].len * Block
             acc == h[i - 1]
             t == F(i - 1)
             take == Least(len, max - acc.total)
             over == Least(acc.skip, take)
  <2>2. at \in Nat /\ len \in Nat /\ at + len <= Len(bytes)
    BY <1>1, ExtentOnDevice
  <2>3. h[i] = [total  |-> acc.total + take, skip |-> acc.skip - over,
                chunks |-> AddChunk(acc.chunks, at + over, take - over)]
    BY <1>4 DEF PlanStep
  <2>4. g[i - 1] \in Seq(B) /\ g[i] = g[i - 1] \o es[i] /\ es[i] = Extract(bytes, at, len)
    BY <1>5, <1>8, <2>1, Zenon
  <2>5. t \in Seq(B) /\ Len(t) \in Nat
    <3>1. t \in Seq(B)
      BY <2>4, FirstIs
    <3> HIDE DEF t
    <3> QED
      BY <3>1, LenProperties
  <2>6. /\ acc.total = Len(t) /\ acc.skip = skip - Least(skip, Len(t)) /\ acc.chunks \in Seq(CO)
        /\ BytesOf(bytes, acc.chunks) = RestFrom(t, skip)
    BY <2>1
  <2> HIDE DEF at, len, acc, T, Good
  <2>7. /\ max - Len(t) \in Nat
        /\ F(i) = t \o FirstOf(es[i], max - Len(t))
    <3>1. es[i] \in Seq(B)
      BY <2>2, <2>4, ExtractIs
    <3>2. /\ max - Len(FirstOf(g[i - 1], max)) \in Nat
          /\ FirstOf(g[i - 1] \o es[i], max)
               = FirstOf(g[i - 1], max) \o FirstOf(es[i], max - Len(FirstOf(g[i - 1], max)))
      <4> DEFINE y == g[i - 1]
                 r == es[i]
      <4>1. y \in Seq(B) /\ r \in Seq(B)
        BY <2>4, <3>1
      <4> HIDE DEF y, r
      <4>2. /\ max - Len(FirstOf(y, max)) \in Nat
            /\ FirstOf(y \o r, max) = FirstOf(y, max) \o FirstOf(r, max - Len(FirstOf(y, max)))
        BY <4>1, FirstGrows, ZenonT(60)
      <4> QED
        BY <4>2 DEF y, r
    <3> QED
      BY <2>4, <3>2
  <2>8. /\ take \in Nat /\ at + take <= Len(bytes)
        /\ FirstOf(es[i], max - Len(t)) = Extract(bytes, at, take)
    BY <2>2, <2>4, <2>6, <2>7, FirstOfExtract
  <2> DEFINE x == Extract(bytes, at, take)
  <2>9. F(i) = t \o x /\ Len(F(i)) = Len(t) + take
    <3>1. x \in Seq(B) /\ Len(x) = take
      BY <2>2, <2>8, ExtractIs
    <3> HIDE DEF x, t, take
    <3>2. Len(t \o x) = Len(t) + take
      BY <2>5, <3>1, ConcatProperties, Zenon
    <3> QED
      BY <2>7, <2>8, <3>2 DEF x
  <2>10. /\ over \in 0..take
         /\ RestFrom(t \o x, skip) = RestFrom(t, skip) \o Extract(bytes, at + over, take - over)
    <3>1. over = Least(skip - Least(skip, Len(t)), take)
      BY <2>6
    <3> HIDE DEF t, take, over, at
    <3>2. bytes \in Seq(B) /\ t \in Seq(B) /\ at \in Nat /\ take \in Nat /\ skip \in Nat
          /\ at + take <= Len(bytes)
      BY <2>2, <2>5, <2>8
    <3>3. over = Least(LeftOf(skip, t), take)
      BY <3>1 DEF LeftOf
    <3>4. over \in 0..take /\ Grown(bytes, t, at, take, skip, over)
      BY ONLY <3>2, <3>3, GrowsTo
    <3> QED
      BY ONLY <3>4 DEF Grown
  <2>11. /\ AddChunk(acc.chunks, at + over, take - over) \in Seq(CO)
         /\ BytesOf(bytes, AddChunk(acc.chunks, at + over, take - over))
              = BytesOf(bytes, acc.chunks) \o Extract(bytes, at + over, take - over)
    <3>1. at + over \in Nat /\ take - over \in Nat /\ (at + over) + (take - over) <= Len(bytes)
      <4> HIDE DEF take, over
      <4> QED
        BY <2>2, <2>8, <2>10, LenProperties
    <3> HIDE DEF take, over
    <3> QED
      BY <2>6, <3>1, AddChunkBytes, Zenon DEF CO
  <2>12. acc.skip - over = skip - Least(skip, Len(t) + take)
    <3> DEFINE l == Len(t)
    <3>1. l \in Nat /\ take \in Nat /\ skip \in Nat /\ acc.skip = skip - Least(skip, l)
      BY <2>5, <2>6, <2>8
    <3> HIDE DEF l, take
    <3>2. (skip - Least(skip, l)) - Least(skip - Least(skip, l), take) = skip - Least(skip, l + take)
      BY ONLY <3>1 DEF Least
    <3> QED
      BY <3>1, <3>2 DEF l
  <2>13. Good(i)
    <3> HIDE DEF t, take, over, x, F
    <3>1. /\ h[i].total = Len(t) + take /\ h[i].skip = skip - Least(skip, Len(t) + take)
          /\ h[i].chunks = AddChunk(acc.chunks, at + over, take - over)
      BY <2>3, <2>6, <2>12
    <3> QED
      BY <2>6, <2>9, <2>10, <2>11, <3>1 DEF Good
  <2> QED
    BY <2>1, <2>13 DEF T
<1>11. Good(n)
  <2> HIDE DEF T
  <2>1. \A i \in 0..n : i \in T
    BY <1>1, <1>9, <1>10, Upwards, Zenon
  <2>2. n \in T
    BY <1>1, <2>1
  <2> QED
    BY <2>2 DEF T
<1> QED
  BY <1>2, <1>3, <1>7, <1>11 DEF CO, es

-----------------------------------------------------------------------------
(* The bytes at a list of places.                                          *)

\* Places of the device, and the bytes at a list of places.
PlacesOn(bytes) == 1..Len(bytes)
Mapped(bytes, p) == [k \in DOMAIN p |-> bytes[p[k]]]

\* As many bytes as there are places, each the one at its place.
LEMMA MappedIs ==
  ASSUME NEW B, NEW bytes \in Seq(B), NEW p \in Seq(PlacesOn(bytes))
  PROVE  /\ Mapped(bytes, p) \in Seq(B) /\ Len(Mapped(bytes, p)) = Len(p)
         /\ \A k \in 1..Len(p) : Mapped(bytes, p)[k] = bytes[p[k]]
<1> DEFINE n == Len(p)
           m == Mapped(bytes, p)
<1>1. n \in Nat /\ DOMAIN p = 1..n /\ \A k \in 1..n : p[k] \in PlacesOn(bytes)
  BY LenProperties, ElementOfSeq
<1>2. m = [k \in 1..n |-> bytes[p[k]]]
  BY <1>1 DEF Mapped
<1> HIDE DEF n, m
<1>3. ASSUME NEW k \in 1..n PROVE bytes[p[k]] \in B
  <2>1. p[k] \in 1..Len(bytes)
    BY <1>1 DEF PlacesOn
  <2> QED
    BY <2>1, ElementOfSeq
<1>4. m \in [1..n -> B]
  BY <1>2, <1>3
<1>5. m \in Seq(B) /\ Len(m) = n
  BY <1>1, <1>4, SeqDef
<1> QED
  BY <1>2, <1>5 DEF n, m

\* The bytes of two lists of places, one after the other.
LEMMA MappedConcat ==
  ASSUME NEW B, NEW bytes \in Seq(B), NEW p \in Seq(PlacesOn(bytes)), NEW q \in Seq(PlacesOn(bytes))
  PROVE  /\ p \o q \in Seq(PlacesOn(bytes))
         /\ Mapped(bytes, p \o q) = Mapped(bytes, p) \o Mapped(bytes, q)
<1> DEFINE P == PlacesOn(bytes)
           n == Len(p)
           m == Len(q)
           c == p \o q
           a == Mapped(bytes, c)
           u == Mapped(bytes, p)
           v == Mapped(bytes, q)
           b == u \o v
<1>1. n \in Nat /\ m \in Nat
  BY LenProperties
<1>2. p \in Seq(P) /\ q \in Seq(P)
  OBVIOUS
<1> HIDE DEF P
<1>3. /\ c \in Seq(P) /\ Len(c) = n + m
      /\ \A i \in 1..(n + m) : c[i] = IF i <= n THEN p[i] ELSE q[i - n]
  BY <1>2, ConcatProperties
<1> HIDE DEF c, n, m
<1>4. a \in Seq(B) /\ Len(a) = n + m /\ \A i \in 1..(n + m) : a[i] = bytes[c[i]]
  <2>1. c \in Seq(PlacesOn(bytes))
    BY <1>3 DEF P
  <2>2. a \in Seq(B) /\ Len(a) = Len(c) /\ \A i \in 1..Len(c) : a[i] = bytes[c[i]]
    BY <2>1, MappedIs
  <2> QED
    BY <1>3, <2>2
<1>5. u \in Seq(B) /\ Len(u) = n /\ \A i \in 1..n : u[i] = bytes[p[i]]
  BY MappedIs DEF n
<1>6. v \in Seq(B) /\ Len(v) = m /\ \A i \in 1..m : v[i] = bytes[q[i]]
  BY MappedIs DEF m
<1> HIDE DEF a, u, v
<1>7. /\ b \in Seq(B) /\ Len(b) = n + m
      /\ \A i \in 1..(n + m) : b[i] = IF i <= n THEN u[i] ELSE v[i - n]
  <2>1. u \in Seq(B) /\ v \in Seq(B) /\ Len(u) = n /\ Len(v) = m
    BY <1>5, <1>6
  <2> QED
    BY ONLY <2>1, ConcatProperties, Zenon
<1> HIDE DEF b
<1>8. ASSUME NEW i \in 1..(n + m) PROVE a[i] = b[i]
  <2>1. CASE i <= n
    <3>1. i \in 1..n
      BY <1>1, <2>1
    <3> QED
      BY <1>3, <1>4, <1>5, <1>7, <2>1, <3>1, SMTT(30)
  <2>2. CASE ~(i <= n)
    <3>1. i - n \in 1..m
      BY <1>1, <2>2
    <3> QED
      BY <1>3, <1>4, <1>6, <1>7, <2>2, <3>1
  <2> QED
    BY <2>1, <2>2
<1>9. a = b
  BY <1>4, <1>7, <1>8, SeqEqual
<1> QED
  BY <1>3, <1>9 DEF P, a, b, c, u, v

\* The bytes of the first places are the first of the bytes.
LEMMA MappedFirst ==
  ASSUME NEW B, NEW bytes \in Seq(B), NEW p \in Seq(PlacesOn(bytes)), NEW n \in Nat
  PROVE  /\ FirstOf(p, n) \in Seq(PlacesOn(bytes))
         /\ Mapped(bytes, FirstOf(p, n)) = FirstOf(Mapped(bytes, p), n)
<1> DEFINE P == PlacesOn(bytes)
           f == FirstOf(p, n)
           u == Mapped(bytes, p)
           a == Mapped(bytes, f)
           b == FirstOf(u, n)
           l == Least(Len(p), n)
<1>1. /\ f \in Seq(P) /\ Len(f) = l /\ l \in Nat /\ Begins(p, l, f)
  BY FirstFacts
<1>2. l <= Len(p) /\ Len(p) \in Nat
  BY LenProperties, FirstIs
<1>3. u \in Seq(B) /\ Len(u) = Len(p) /\ \A k \in 1..Len(p) : u[k] = bytes[p[k]]
  BY MappedIs
<1> HIDE DEF f, u
<1>4. a \in Seq(B) /\ Len(a) = Len(f) /\ \A k \in 1..Len(f) : a[k] = bytes[f[k]]
  BY <1>1, MappedIs
<1>5. b \in Seq(B) /\ Len(b) = l /\ Begins(u, l, b)
  <2>1. l = Least(Len(u), n) /\ b = FirstOf(u, n) /\ u \in Seq(B)
    BY <1>3
  <2> HIDE DEF l, b
  <2> QED
    BY ONLY <2>1, n \in Nat, FirstFacts
<1> HIDE DEF a, b, l
<1>6. ASSUME NEW k \in 1..l PROVE a[k] = b[k]
  <2>1. k \in 1..Len(p) /\ k \in 1..Len(f)
    BY <1>1, <1>2
  <2>2. f[k] = p[k] /\ b[k] = u[k]
    BY <1>1, <1>5 DEF Begins
  <2> QED
    BY <1>3, <1>4, <2>1, <2>2
<1>7. a = b
  BY <1>1, <1>4, <1>5, <1>6, SeqEqual
<1> QED
  BY <1>1, <1>7 DEF f, a, b, u

\* es are the bytes at the lists of places ps.
EachMapped(bytes, ps, es) ==
  Len(es) = Len(ps) /\ \A i \in 1..Len(ps) : es[i] = Mapped(bytes, ps[i])

\* The bytes of several lists of places, one after the other.
LEMMA MappedFlatten ==
  ASSUME NEW B, NEW bytes \in Seq(B), NEW ps \in Seq(Seq(PlacesOn(bytes))),
         NEW es \in Seq(Seq(B)), EachMapped(bytes, ps, es)
  PROVE  /\ FlattenSeq(ps) \in Seq(PlacesOn(bytes))
         /\ Mapped(bytes, FlattenSeq(ps)) = FlattenSeq(es)
<1> DEFINE P == PlacesOn(bytes)
           n == Len(ps)
<1>0. Len(es) = n /\ \A i \in 1..n : es[i] = Mapped(bytes, ps[i])
  BY DEF EachMapped
<1>1. n \in Nat /\ \A i \in 1..n : ps[i] \in Seq(P)
  BY LenProperties, ElementOfSeq
<1>2. PICK g : IsFlattening(P, ps, g)
  BY FlatteningExists
<1>3. PICK h : IsFlattening(B, es, h)
  BY FlatteningExists
<1>4. FlattenSeq(ps) = g[n] /\ FlattenSeq(ps) \in Seq(P)
  BY <1>2, FlatteningIs, FlattenType
<1>5. FlattenSeq(es) = h[n]
  BY <1>0, <1>3, FlatteningIs
<1>6. /\ g[0] = <<>> /\ \A i \in 1..n : g[i] = g[i - 1] \o ps[i]
      /\ \A i \in 0..n : g[i] \in Seq(P)
  BY <1>2, Zenon DEF IsFlattening
<1>7. h[0] = <<>> /\ \A i \in 1..n : h[i] = h[i - 1] \o es[i]
  BY <1>0, <1>3, Zenon DEF IsFlattening
<1>8. \A i \in 1..n : es[i] = Mapped(bytes, ps[i])
  BY <1>0
<1> HIDE DEF n, P
<1> DEFINE T == {i \in 0..n : Mapped(bytes, g[i]) = h[i]}
<1>9. 0 \in T
  <2>1. Mapped(bytes, <<>>) = <<>>
    BY DEF Mapped
  <2> QED
    BY <1>1, <1>6, <1>7, <2>1
<1>10. ASSUME NEW i \in 1..n, i - 1 \in T PROVE i \in T
  <2>1. i \in 0..n /\ i - 1 \in 0..n /\ Mapped(bytes, g[i - 1]) = h[i - 1]
    BY <1>1, <1>10
  <2> DEFINE y == g[i - 1]
             r == ps[i]
  <2>2. y \in Seq(P) /\ r \in Seq(P) /\ g[i] = y \o r
    BY <1>1, <1>6, <2>1, Zenon
  <2>3. h[i] = Mapped(bytes, y) \o Mapped(bytes, r)
    BY <1>7, <1>8, <2>1, Zenon
  <2> HIDE DEF y, r
  <2>4. Mapped(bytes, y \o r) = Mapped(bytes, y) \o Mapped(bytes, r)
    BY <2>2, MappedConcat DEF P
  <2>5. Mapped(bytes, g[i]) = h[i]
    BY <2>2, <2>3, <2>4
  <2> QED
    BY <2>1, <2>5
<1>11. Mapped(bytes, g[n]) = h[n]
  <2> HIDE DEF T
  <2>1. \A i \in 0..n : i \in T
    BY <1>1, <1>9, <1>10, Upwards, Zenon
  <2>2. n \in T
    BY <1>1, <2>1
  <2> QED
    BY <2>2 DEF T
<1> QED
  BY <1>4, <1>5, <1>11 DEF P

\* The places of len blocks from start are those of an extract.
LEMMA StretchBytes ==
  ASSUME NEW B, NEW bytes \in Seq(B), NEW start \in Nat, NEW len \in Nat,
         (start + len) * Block <= Len(bytes)
  PROVE  /\ Stretch(start, len) \in Seq(PlacesOn(bytes)) /\ Len(Stretch(start, len)) = len * Block
         /\ start * Block \in Nat /\ len * Block \in Nat
         /\ start * Block + len * Block <= Len(bytes)
         /\ \A k \in 1..(len * Block) : Stretch(start, len)[k] = start * Block + k
         /\ Mapped(bytes, Stretch(start, len)) = Extract(bytes, start * Block, len * Block)
<1> DEFINE at == start * Block
           n == len * Block
           s == Stretch(start, len)
           a == Mapped(bytes, s)
           e == Extract(bytes, at, n)
<1>1. /\ at \in Nat /\ n \in Nat /\ (start + len) * Block = at + n
  <2>1. Block \in Nat
    BY DeviceAssumption
  <2> QED
    BY <2>1, SMT
<1>2. at + n <= Len(bytes) /\ Len(bytes) \in Nat
  BY <1>1, LenProperties
<1>3. s = [k \in 1..n |-> at + k]
  BY DEF Stretch
<1> HIDE DEF at, n, s
<1>4. s \in [1..n -> PlacesOn(bytes)]
  BY <1>1, <1>2, <1>3 DEF PlacesOn
<1>5. s \in Seq(PlacesOn(bytes)) /\ Len(s) = n
  BY <1>1, <1>4, SeqDef
<1>6. a \in Seq(B) /\ Len(a) = Len(s) /\ \A k \in 1..Len(s) : a[k] = bytes[s[k]]
  BY <1>5, MappedIs
<1>7. e \in Seq(B) /\ Len(e) = n /\ \A k \in 1..n : e[k] = bytes[at + k]
  BY <1>1, <1>2, ExtractIs
<1> HIDE DEF a, e
<1>8. a = e
  <2>1. \A k \in 1..n : a[k] = e[k]
    BY <1>3, <1>5, <1>6, <1>7
  <2> QED
    BY <1>5, <1>6, <1>7, <2>1, SeqEqual
<1> QED
  BY <1>1, <1>2, <1>3, <1>5, <1>8 DEF at, n, s, a, e

-----------------------------------------------------------------------------
(* The extents of a file.                                                  *)

\* Extents on the device that are not empty.
ValidExtents(bytes) == {e \in ExtentsIn(bytes) : e.len > 0}

\* A sequence of lists of at most one element flattens to a sequence of them.
LEMMA OnlyOrNothing ==
  ASSUME NEW S, NEW n \in Nat, NEW f, f = [i \in 1..n |-> f[i]],
         \A i \in 1..n : f[i] = <<>> \/ \E x \in S : f[i] = <<x>>
  PROVE  f \in Seq(Seq(S)) /\ FlattenSeq(f) \in Seq(S)
<1>1. ASSUME NEW i \in 1..n PROVE f[i] \in Seq(S)
  <2>1. <<>> \in Seq(S) /\ \A x \in S : <<x>> \in Seq(S)
    OBVIOUS
  <2> QED
    BY <2>1, Zenon
<1>2. f \in Seq(Seq(S))
  <2>1. f \in [1..n -> Seq(S)]
    BY <1>1
  <2> QED
    BY <2>1, SeqDef
<1> QED
  BY <1>2, FlattenType

\* The extents of a leaf are on the device, and none is empty.
LEMMA LeavesType ==
  ASSUME NEW t, t.depth = 0, NodeFormed(t)
  PROVE  Leaves(t) \in Seq(ValidExtents(img.bytes))
<1> DEFINE es == t.entries
           n == Len(es)
           f == [i \in DOMAIN es |-> IF es[i].len > 0 THEN <<es[i]>> ELSE <<>>]
           V == ValidExtents(img.bytes)
<1>1. /\ es \in Seq([start : Nat, len : Nat])
      /\ \A e \in Range(es) : e.len > 0 => (e.start + e.len) * Block <= Len(img.bytes)
  BY DEF NodeFormed
<1>2. n \in Nat /\ DOMAIN es = 1..n /\ \A i \in 1..n : es[i] \in [start : Nat, len : Nat]
  BY <1>1, LenProperties, ElementOfSeq, Zenon
<1>3. Leaves(t) = FlattenSeq(f)
  BY DEF Leaves
<1> HIDE DEF es, n
<1>4. ASSUME NEW i \in 1..n PROVE f[i] = <<>> \/ \E x \in V : f[i] = <<x>>
  <2>1. es[i] \in Range(es)
    BY <1>2 DEF Range
  <2>2. es[i].len > 0 => es[i] \in V
    BY <1>1, <1>2, <2>1 DEF ValidExtents, ExtentsIn
  <2> QED
    BY <1>2, <2>2
<1>5. f = [i \in 1..n |-> f[i]]
  BY <1>2
<1> HIDE DEF f, V
<1>6. FlattenSeq(f) \in Seq(V)
  BY <1>2, <1>4, <1>5, OnlyOrNothing, Zenon
<1> QED
  BY <1>3, <1>6 DEF V

-----------------------------------------------------------------------------
(* The extents in a tree.                                                  *)

\* w goes through the extents below every block of the tree, at every level.
Walks(w) ==
  w = [level \in Nat |->
        [b \in Nat |->
           IF b \notin DOMAIN img.tree \/ level > MaxDepth THEN <<>>
           ELSE IF img.tree[b].depth = 0 THEN Leaves(img.tree[b])
           ELSE FlattenSeq([i \in DOMAIN img.tree[b].entries |->
                              w[level + 1][img.tree[b].entries[i]]])]]

\* The walk of one level, given that of the level below.
WalkStep(tree, below, x) ==
  [b \in Nat |->
     IF b \notin DOMAIN tree THEN <<>>
     ELSE IF tree[b].depth = 0 THEN Leaves(tree[b])
     ELSE FlattenSeq([i \in DOMAIN tree[b].entries |-> below[tree[b].entries[i]]])]
Walking == INSTANCE FoldSteps WITH step <- WalkStep

\* There is a walk: it is built from the deepest level upwards.
LEMMA WalksExists == \E w : Walks(w)
<1> DEFINE n == MaxDepth + 1
           s == [i \in 1..n |-> 0]
           none == [b \in Nat |-> <<>>]
           tree == img.tree
<1>1. n \in Nat /\ MaxDepth \in Nat
  BY TableAssumption
<1>2. Len(s) = n /\ DOMAIN s = 1..n
  <2>1. s \in [1..n -> {0}]
    OBVIOUS
  <2>2. s \in Seq({0}) /\ Len(s) = n
    BY <1>1, <2>1, SeqDef
  <2> QED
    BY <2>2, Zenon
<1> HIDE DEF n, s, none, tree
<1>3. PICK h : Walking!IsFold(tree, none, s, h)
  BY <1>1, <1>2, Walking!FoldIs, Zenon
<1>4. h[0] = none /\ \A i \in 1..n : h[i] = WalkStep(tree, h[i - 1], s[i])
  BY <1>2, <1>3 DEF Walking!IsFold
<1> DEFINE w == [level \in Nat |-> IF level > MaxDepth THEN h[0] ELSE h[n - level]]
           at(level) ==
             [b \in Nat |->
               IF b \notin DOMAIN img.tree \/ level > MaxDepth THEN <<>>
               ELSE IF img.tree[b].depth = 0 THEN Leaves(img.tree[b])
               ELSE FlattenSeq([i \in DOMAIN img.tree[b].entries |->
                                  w[level + 1][img.tree[b].entries[i]]])]
<1>5. ASSUME NEW level \in Nat PROVE w[level] = at(level)
  <2>1. CASE level > MaxDepth
    <3>1. at(level) = none
      BY <2>1 DEF none
    <3> QED
      BY <1>4, <2>1, <3>1
  <2>2. CASE ~(level > MaxDepth)
    <3>1. /\ n - level \in 1..n /\ level + 1 \in Nat
          /\ n - level - 1 = n - (level + 1) /\ (level + 1 > MaxDepth => n - level - 1 = 0)
      BY <1>1, <2>2 DEF n
    <3>2. w[level + 1] = h[n - level - 1]
      BY <3>1
    <3>3. w[level] = WalkStep(tree, h[n - level - 1], s[n - level])
      BY <1>4, <2>2, <3>1
    <3> HIDE DEF w
    <3>4. w[level] = WalkStep(tree, w[level + 1], s[n - level])
      BY <3>2, <3>3
    <3> QED
      BY <2>2, <3>4 DEF WalkStep, tree
  <2> QED
    BY <2>1, <2>2
<1>6. w = [level \in Nat |-> w[level]]
  OBVIOUS
<1> HIDE DEF w
<1>7. w = [level \in Nat |-> at(level)]
  BY <1>5, <1>6, Zenon
<1>8. Walks(w)
  BY <1>7, Zenon DEF Walks
<1> QED
  BY <1>8

\* The walk of parse_extent_node_into.
Walk == CHOOSE w : Walks(w)

\* The walk obeys its own definition.
LEMMA WalkIs ==
  ASSUME NEW level \in Nat, NEW b \in Nat
  PROVE  Walk[level][b] =
           IF b \notin DOMAIN img.tree \/ level > MaxDepth THEN <<>>
           ELSE IF img.tree[b].depth = 0 THEN Leaves(img.tree[b])
           ELSE FlattenSeq([i \in DOMAIN img.tree[b].entries |->
                              Walk[level + 1][img.tree[b].entries[i]]])
<1>1. Walks(Walk)
  BY WalksExists DEF Walk
<1> DEFINE at(l) ==
             [c \in Nat |->
               IF c \notin DOMAIN img.tree \/ l > MaxDepth THEN <<>>
               ELSE IF img.tree[c].depth = 0 THEN Leaves(img.tree[c])
               ELSE FlattenSeq([i \in DOMAIN img.tree[c].entries |->
                                  Walk[l + 1][img.tree[c].entries[i]]])]
<1>2. Walk = [l \in Nat |-> at(l)]
  BY <1>1, Zenon DEF Walks
<1>3. Walk[level] = at(level)
  <2> HIDE DEF at
  <2> QED
    BY <1>2
<1>4. at(level)[b] =
           IF b \notin DOMAIN img.tree \/ level > MaxDepth THEN <<>>
           ELSE IF img.tree[b].depth = 0 THEN Leaves(img.tree[b])
           ELSE FlattenSeq([i \in DOMAIN img.tree[b].entries |->
                              Walk[level + 1][img.tree[b].entries[i]]])
  OBVIOUS
<1> HIDE DEF at
<1> QED
  BY <1>3, <1>4

\* ParseExtents is the walk from the level below the root.
LEMMA ParsedIs ==
  ASSUME NEW root
  PROVE  ParseExtents(img, root) =
           IF root.depth = 0 THEN Leaves(root)
           ELSE FlattenSeq([i \in DOMAIN root.entries |-> Walk[1][root.entries[i]]])
BY DEF ParseExtents, Walk, Walks

\* What is below the children of a node, when it is known of the children.
LEMMA Children ==
  ASSUME NEW t, t.depth # 0, NodeFormed(t), NEW V, NEW f,
         \A b \in Nat : f[b] \in Seq(V)
  PROVE  LET s == [i \in DOMAIN t.entries |-> f[t.entries[i]]]
         IN  s \in Seq(Seq(V)) /\ Len(s) = Len(t.entries) /\ FlattenSeq(s) \in Seq(V)
<1> DEFINE es == t.entries
           n == Len(es)
           s == [i \in DOMAIN es |-> f[es[i]]]
<1>1. es \in Seq(Nat)
  BY DEF NodeFormed
<1>2. n \in Nat /\ DOMAIN es = 1..n /\ \A i \in 1..n : es[i] \in Nat
  BY <1>1, LenProperties, ElementOfSeq
<1> HIDE DEF n, es
<1>3. s \in [1..n -> Seq(V)]
  BY <1>2
<1> HIDE DEF s
<1>4. s \in Seq(Seq(V)) /\ Len(s) = n
  BY <1>2, <1>3, SeqDef
<1>5. FlattenSeq(s) \in Seq(V)
  BY <1>4, FlattenType
<1> QED
  BY <1>4, <1>5 DEF s, n, es

\* What the walk finds below any block, at any level, is on the device.
LEMMA WalkType ==
  ASSUME DeviceFormed, ~ OnNtfs(img)
  PROVE  \A level \in 1..(MaxDepth + 1) : \A b \in Nat :
           Walk[level][b] \in Seq(ValidExtents(img.bytes))
<1> DEFINE n == MaxDepth
           V == ValidExtents(img.bytes)
           T == {k \in 0..n : \A b \in Nat : Walk[n + 1 - k][b] \in Seq(V)}
<1>1. n \in Nat
  BY TableAssumption
<1>2. 0 \in T
  <2>1. ASSUME NEW b \in Nat PROVE Walk[n + 1 - 0][b] \in Seq(V)
    <3>1. n + 1 - 0 \in Nat /\ n + 1 - 0 > MaxDepth
      BY <1>1
    <3>2. Walk[n + 1 - 0][b] = <<>>
      BY <3>1, WalkIs, Zenon
    <3> QED
      BY <3>2
  <2> QED
    BY <1>1, <2>1
<1>3. ASSUME NEW k \in 1..n, k - 1 \in T PROVE k \in T
  <2> DEFINE l == n + 1 - k
  <2>1. /\ k \in 0..n /\ l \in Nat /\ l + 1 = n + 1 - (k - 1) /\ ~(l > MaxDepth)
    BY <1>1
  <2>2. \A b \in Nat : Walk[l + 1][b] \in Seq(V)
    BY <1>3, <2>1, Zenon
  <2> HIDE DEF l
  <2>3. ASSUME NEW b \in Nat PROVE Walk[l][b] \in Seq(V)
    <3>1. CASE b \notin DOMAIN img.tree
      <4>1. Walk[l][b] = <<>>
        BY <2>1, <3>1, WalkIs, Zenon
      <4> QED
        BY <4>1
    <3>2. CASE b \in DOMAIN img.tree /\ img.tree[b].depth = 0
      <4>1. Walk[l][b] = Leaves(img.tree[b])
        BY <2>1, <3>2, WalkIs, Zenon
      <4>2. NodeFormed(img.tree[b])
        BY <3>2 DEF DeviceFormed
      <4> QED
        BY <3>2, <4>1, <4>2, LeavesType
    <3>3. CASE b \in DOMAIN img.tree /\ img.tree[b].depth # 0
      <4> DEFINE t == img.tree[b]
                 f == Walk[l + 1]
                 s == [i \in DOMAIN t.entries |-> f[t.entries[i]]]
      <4>1. Walk[l][b] = FlattenSeq(s)
        BY <2>1, <3>3, WalkIs
      <4>2. NodeFormed(t) /\ t.depth # 0
        BY <3>3 DEF DeviceFormed
      <4> HIDE DEF t, f, V
      <4>3. FlattenSeq(s) \in Seq(V)
        BY <2>2, <4>2, Children, Zenon DEF f
      <4> QED
        BY <4>1, <4>3
    <3> QED
      BY <3>1, <3>2, <3>3
  <2> QED
    BY <2>1, <2>3 DEF l
<1> HIDE DEF T, V
<1>4. \A k \in 0..n : k \in T
  <2> HIDE DEF n
  <2> QED
    BY <1>1, <1>2, <1>3, Upwards
<1>5. ASSUME NEW level \in 1..(n + 1), NEW b \in Nat PROVE Walk[level][b] \in Seq(V)
  <2>1. n + 1 - level \in 0..n /\ n + 1 - (n + 1 - level) = level
    BY <1>1
  <2>2. n + 1 - level \in T
    BY <1>4, <2>1
  <2> QED
    BY <2>1, <2>2 DEF T
<1> QED
  BY <1>5 DEF V

\* parse_extent_node_into: the extents found below a root are on the device.
LEMMA ParsedType ==
  ASSUME DeviceFormed, ~ OnNtfs(img), NEW root, NodeFormed(root)
  PROVE  ParseExtents(img, root) \in Seq(ValidExtents(img.bytes))
<1> DEFINE V == ValidExtents(img.bytes)
           f == Walk[1]
           s == [i \in DOMAIN root.entries |-> f[root.entries[i]]]
<1>1. CASE root.depth = 0
  BY <1>1, ParsedIs, LeavesType, Zenon
<1>2. CASE root.depth # 0
  <2>1. ParseExtents(img, root) = FlattenSeq(s)
    BY <1>2, ParsedIs
  <2>2. \A b \in Nat : f[b] \in Seq(V)
    <3>1. 1 \in 1..(MaxDepth + 1)
      BY TableAssumption
    <3> QED
      BY <3>1, WalkType
  <2> HIDE DEF V, f
  <2>3. FlattenSeq(s) \in Seq(V)
    BY <1>2, <2>2, Children, Zenon
  <2> QED
    BY <2>1, <2>3 DEF V
<1> QED
  BY <1>1, <1>2

-----------------------------------------------------------------------------
(* Where the first extent is.                                              *)

\* A concatenation begins as its first part does, when that is not empty.
LEMMA FlattenFirst ==
  ASSUME NEW S, NEW s \in Seq(Seq(S)), s # <<>>, s[1] # <<>>
  PROVE  FlattenSeq(s) # <<>> /\ FlattenSeq(s)[1] = s[1][1]
<1> DEFINE a == s[1]
           r == Tail(s)
           b == FlattenSeq(r)
<1>0. a \in Seq(S) /\ r \in Seq(Seq(S)) /\ s = <<a>> \o r
  BY HeadTailProperties, HeadAndTail, LenProperties, ElementOfSeq
<1>1. FlattenSeq(<<a>>) = a /\ <<a>> \in Seq(Seq(S))
  BY <1>0, FlattenSmall
<1> HIDE DEF a, r
<1>2. FlattenSeq(s) = a \o b
  BY <1>0, <1>1, FlattenConcat, Zenon
<1>3. b \in Seq(S)
  BY <1>0, FlattenType
<1> HIDE DEF b
<1>4. Len(a) \in Nat /\ Len(a) # 0
  BY <1>0, LenProperties, EmptySeq DEF a
<1>5. Len(b) \in Nat /\ Len(a \o b) = Len(a) + Len(b) /\ (a \o b)[1] = a[1]
  BY <1>0, <1>3, <1>4, ConcatProperties, LenProperties
<1>6. a \o b # <<>>
  BY <1>4, <1>5
<1> QED
  BY <1>2, <1>5, <1>6 DEF a

\* What the cheap way to the first extent may say of a list of extents.
Starts(found, exts) == found = {} \/ (exts # <<>> /\ found = {exts[1].start})

\* The start of the first extent of a leaf, if it has one.
FirstLeaf(t) == {e.start : e \in Range(FirstOf(Leaves(t), 1))}

\* The first extent of a leaf starts its extents.
LEMMA FirstLeafStarts ==
  ASSUME NEW V, NEW t, Leaves(t) \in Seq(V)
  PROVE  Starts(FirstLeaf(t), Leaves(t))
<1> DEFINE l == Leaves(t)
           f == FirstOf(l, 1)
<1>1. l \in Seq(V)
  OBVIOUS
<1> HIDE DEF l
<1>2. f \in Seq(V) /\ Len(f) = Least(Len(l), 1) /\ Begins(l, Least(Len(l), 1), f)
  BY <1>1, FirstFacts
<1>3. Len(l) \in Nat
  BY <1>1, LenProperties
<1> HIDE DEF f
<1>4. CASE l = <<>>
  <2>1. Len(f) = 0
    BY <1>2, <1>4 DEF Least
  <2>2. f = <<>>
    BY <1>2, <2>1, EmptySeq
  <2>3. Range(f) = {}
    BY <2>2 DEF Range
  <2> QED
    BY <2>3 DEF Starts, FirstLeaf, f, l
<1>5. CASE l # <<>>
  <2>1. Least(Len(l), 1) = 1
    <3>1. Len(l) # 0
      BY <1>1, <1>5, EmptySeq
    <3> DEFINE m == Len(l)
    <3>2. m \in Nat /\ m # 0
      BY <1>3, <3>1
    <3> HIDE DEF m
    <3>3. Least(m, 1) = 1
      BY <3>2 DEF Least
    <3> QED
      BY <3>3 DEF m
  <2>2. f[1] = l[1] /\ DOMAIN f = {1}
    <3>1. DOMAIN f = 1..1
      BY <1>2, <2>1, LenProperties
    <3>2. 1 \in 1..1 /\ 1..1 = {1}
      OBVIOUS
    <3> QED
      BY <1>2, <2>1, <3>1, <3>2 DEF Begins
  <2>3. Range(f) = {l[1]}
    BY <2>2 DEF Range
  <2>4. {e.start : e \in Range(f)} = {l[1].start}
    BY <2>3
  <2> QED
    BY <1>5, <2>4, Zenon DEF Starts, FirstLeaf, f, l
<1> QED
  BY <1>4, <1>5

\* w goes down the left of the tree as first_extent_start does.
Lefts(w) ==
  w = [level \in Nat |->
        [b \in Nat |->
           IF b \notin DOMAIN img.tree THEN {}
           ELSE IF img.tree[b].depth = 0 THEN FirstLeaf(img.tree[b])
           ELSE IF level >= MaxDepth \/ img.tree[b].entries = <<>> THEN {}
           ELSE w[level + 1][img.tree[b].entries[1]]]]

\* The way down the left from one level, given that from the level below.
LeftStep(tree, below, x) ==
  [b \in Nat |->
     IF b \notin DOMAIN tree THEN {}
     ELSE IF tree[b].depth = 0 THEN FirstLeaf(tree[b])
     ELSE IF tree[b].entries = <<>> THEN {}
     ELSE below[tree[b].entries[1]]]
GoingLeft == INSTANCE FoldSteps WITH step <- LeftStep

\* There is a way down the left: it is built from the deepest level upwards.
LEMMA LeftsExists == \E w : Lefts(w)
<1> DEFINE n == MaxDepth
           s == [i \in 1..n |-> 0]
           tree == img.tree
           none == [b \in Nat |-> IF b \notin DOMAIN tree THEN {}
                                  ELSE IF tree[b].depth = 0 THEN FirstLeaf(tree[b]) ELSE {}]
<1>1. n \in Nat /\ MaxDepth \in Nat
  BY TableAssumption
<1>2. Len(s) = n /\ DOMAIN s = 1..n
  <2>1. s \in [1..n -> {0}]
    OBVIOUS
  <2>2. s \in Seq({0}) /\ Len(s) = n
    BY <1>1, <2>1, SeqDef
  <2> QED
    BY <2>2, Zenon
<1> HIDE DEF n, s, none, tree
<1>3. PICK h : GoingLeft!IsFold(tree, none, s, h)
  BY <1>1, <1>2, GoingLeft!FoldIs
<1>4. h[0] = none /\ \A i \in 1..n : h[i] = LeftStep(tree, h[i - 1], s[i])
  BY <1>2, <1>3 DEF GoingLeft!IsFold
<1> DEFINE w == [level \in Nat |-> IF level >= MaxDepth THEN h[0] ELSE h[n - level]]
           at(level) ==
             [b \in Nat |->
               IF b \notin DOMAIN img.tree THEN {}
               ELSE IF img.tree[b].depth = 0 THEN FirstLeaf(img.tree[b])
               ELSE IF level >= MaxDepth \/ img.tree[b].entries = <<>> THEN {}
               ELSE w[level + 1][img.tree[b].entries[1]]]
<1>5. ASSUME NEW level \in Nat PROVE w[level] = at(level)
  <2>1. CASE level >= MaxDepth
    <3>1. at(level) = none
      BY <2>1 DEF none, tree
    <3> QED
      BY <1>4, <2>1, <3>1
  <2>2. CASE ~(level >= MaxDepth)
    <3>1. /\ n - level \in 1..n /\ level + 1 \in Nat
          /\ n - level - 1 = n - (level + 1) /\ (level + 1 >= MaxDepth => n - level - 1 = 0)
      BY <1>1, <2>2 DEF n
    <3>2. w[level + 1] = h[n - level - 1]
      BY <3>1
    <3>3. w[level] = LeftStep(tree, h[n - level - 1], s[n - level])
      BY <1>4, <2>2, <3>1
    <3> HIDE DEF w
    <3>4. w[level] = LeftStep(tree, w[level + 1], s[n - level])
      BY <3>2, <3>3
    <3> QED
      BY <2>2, <3>4 DEF LeftStep, tree
  <2> QED
    BY <2>1, <2>2
<1>6. w = [level \in Nat |-> w[level]]
  OBVIOUS
<1> HIDE DEF w
<1>7. w = [level \in Nat |-> at(level)]
  BY <1>5, <1>6, Zenon
<1>8. Lefts(w)
  BY <1>7, Zenon DEF Lefts
<1> QED
  BY <1>8

\* The way of first_extent_start.
Left == CHOOSE w : Lefts(w)

\* The way down the left obeys its own definition.
LEMMA LeftIs ==
  ASSUME NEW level \in Nat, NEW b \in Nat
  PROVE  Left[level][b] =
           IF b \notin DOMAIN img.tree THEN {}
           ELSE IF img.tree[b].depth = 0 THEN FirstLeaf(img.tree[b])
           ELSE IF level >= MaxDepth \/ img.tree[b].entries = <<>> THEN {}
           ELSE Left[level + 1][img.tree[b].entries[1]]
<1>1. Lefts(Left)
  BY LeftsExists DEF Left
<1> DEFINE at(l) ==
             [c \in Nat |->
               IF c \notin DOMAIN img.tree THEN {}
               ELSE IF img.tree[c].depth = 0 THEN FirstLeaf(img.tree[c])
               ELSE IF l >= MaxDepth \/ img.tree[c].entries = <<>> THEN {}
               ELSE Left[l + 1][img.tree[c].entries[1]]]
<1>2. Left = [l \in Nat |-> at(l)]
  BY <1>1, Zenon DEF Lefts
<1>3. Left[level] = at(level)
  <2> HIDE DEF at
  <2> QED
    BY <1>2
<1>4. at(level)[b] =
           IF b \notin DOMAIN img.tree THEN {}
           ELSE IF img.tree[b].depth = 0 THEN FirstLeaf(img.tree[b])
           ELSE IF level >= MaxDepth \/ img.tree[b].entries = <<>> THEN {}
           ELSE Left[level + 1][img.tree[b].entries[1]]
  OBVIOUS
<1> HIDE DEF at
<1> QED
  BY <1>3, <1>4

\* FirstExtent goes down the left from the level below the root.
LEMMA FirstExtentIs ==
  ASSUME NEW file
  PROVE  FirstExtent(img, file) =
           IF file.kind # "extents" THEN {}
           ELSE IF file.root.depth = 0 THEN FirstLeaf(file.root)
           ELSE IF MaxDepth = 0 \/ file.root.entries = <<>> THEN {}
           ELSE Left[1][file.root.entries[1]]
BY DEF FirstExtent, Left, Lefts, FirstLeaf

\* What starts the extents of the first child starts those of the node.
LEMMA FirstChild ==
  ASSUME NEW t, t.depth # 0, NodeFormed(t), t.entries # <<>>, NEW V, NEW f,
         \A b \in Nat : f[b] \in Seq(V),
         NEW found, Starts(found, f[t.entries[1]])
  PROVE  Starts(found, FlattenSeq([i \in DOMAIN t.entries |-> f[t.entries[i]]]))
<1> DEFINE es == t.entries
           s == [i \in DOMAIN es |-> f[es[i]]]
<1>1. es \in Seq(Nat)
  BY DEF NodeFormed
<1>2. 1 \in DOMAIN es
  BY <1>1, EmptySeq, LenProperties
<1>3. s \in Seq(Seq(V)) /\ Len(s) = Len(es)
  BY Children
<1>4. s[1] = f[es[1]] /\ s # <<>>
  <2>1. Len(es) # 0
    BY <1>1, EmptySeq
  <2> QED
    BY <1>2, <1>3, <2>1
<1> HIDE DEF s, es
<1>5. CASE found = {}
  BY <1>5 DEF Starts
<1>6. CASE found # {}
  <2>1. s[1] # <<>> /\ found = {s[1][1].start}
    BY <1>4, <1>6 DEF Starts, es
  <2>2. FlattenSeq(s) # <<>> /\ FlattenSeq(s)[1] = s[1][1]
    BY <1>3, <1>4, <2>1, FlattenFirst
  <2>3. Starts(found, FlattenSeq(s))
    BY <2>1, <2>2 DEF Starts
  <2> QED
    BY <2>3 DEF s, es
<1> QED
  BY <1>5, <1>6

\* At every level the way down the left finds where the walk starts, or nothing.
LEMMA LeftStarts ==
  ASSUME DeviceFormed, ~ OnNtfs(img)
  PROVE  \A level \in 1..MaxDepth : \A b \in Nat : Starts(Left[level][b], Walk[level][b])
<1> DEFINE m == MaxDepth
           V == ValidExtents(img.bytes)
           n == m - 1
           T == {k \in 0..n : \A b \in Nat : Starts(Left[m - k][b], Walk[m - k][b])}
<1>1. m \in Nat /\ m = MaxDepth
  BY TableAssumption
<1>2. ASSUME NEW l \in Nat, l \in 1..m, NEW b \in Nat,
             l < m => \A c \in Nat : Starts(Left[l + 1][c], Walk[l + 1][c])
      PROVE  Starts(Left[l][b], Walk[l][b])
  <2>1. ~(l > MaxDepth) /\ l + 1 \in 1..(MaxDepth + 1)
    BY <1>1, <1>2
  <2> HIDE DEF m
  <2>2. CASE b \notin DOMAIN img.tree
    <3>1. Left[l][b] = {}
      BY <2>2, LeftIs
    <3> QED
      BY <3>1 DEF Starts
  <2>3. CASE b \in DOMAIN img.tree /\ img.tree[b].depth = 0
    <3>1. Left[l][b] = FirstLeaf(img.tree[b])
      BY <2>3, LeftIs
    <3>2. Walk[l][b] = Leaves(img.tree[b])
      BY <2>1, <2>3, WalkIs, Zenon
    <3>3. Leaves(img.tree[b]) \in Seq(V)
      <4>1. NodeFormed(img.tree[b])
        BY <2>3 DEF DeviceFormed
      <4> QED
        BY <2>3, <4>1, LeavesType
    <3> QED
      BY <3>1, <3>2, <3>3, FirstLeafStarts
  <2>4. CASE b \in DOMAIN img.tree /\ img.tree[b].depth # 0
    <3>1. CASE l >= MaxDepth \/ img.tree[b].entries = <<>>
      <4>1. Left[l][b] = {}
        BY <2>4, <3>1, LeftIs
      <4> QED
        BY <4>1 DEF Starts
    <3>2. CASE ~(l >= MaxDepth \/ img.tree[b].entries = <<>>)
      <4> DEFINE t == img.tree[b]
                 f == Walk[l + 1]
                 found == Left[l + 1][t.entries[1]]
                 s == [i \in DOMAIN t.entries |-> f[t.entries[i]]]
      <4>1. Left[l][b] = found
        BY <2>4, <3>2, LeftIs
      <4>2. Walk[l][b] = FlattenSeq(s)
        BY <2>1, <2>4, WalkIs
      <4>3. NodeFormed(t) /\ t.depth # 0 /\ t.entries # <<>>
        BY <2>4, <3>2 DEF DeviceFormed
      <4>4. \A c \in Nat : f[c] \in Seq(V)
        BY <2>1, WalkType
      <4> HIDE DEF t, V
      <4>5. t.entries[1] \in Nat
        <5>1. t.entries \in Seq(Nat)
          BY <4>3 DEF NodeFormed
        <5>2. Len(t.entries) \in Nat /\ Len(t.entries) # 0
          BY <4>3, <5>1, EmptySeq, LenProperties
        <5>3. 1 \in 1..Len(t.entries)
          BY <5>2
        <5> QED
          BY <5>1, <5>3, ElementOfSeq
      <4>6. Starts(found, f[t.entries[1]])
        BY <1>1, <1>2, <3>2, <4>5 DEF t
      <4> HIDE DEF f, found
      <4>7. Starts(found, FlattenSeq(s))
        BY <4>3, <4>4, <4>6, FirstChild
      <4> QED
        BY <4>1, <4>2, <4>7
    <3> QED
      BY <3>1, <3>2
  <2> QED
    BY <2>2, <2>3, <2>4
<1>3. CASE m = 0
  BY <1>3
<1>4. CASE m # 0
  <2>0. n \in Nat
    BY <1>1, <1>4
  <2>1. 0 \in T
    <3> DEFINE l == m - 0
    <3>1. l \in Nat /\ l \in 1..m /\ ~(l < m)
      BY <1>1, <1>4
    <3> HIDE DEF l
    <3>2. \A b \in Nat : Starts(Left[l][b], Walk[l][b])
      BY <1>2, <3>1
    <3> QED
      BY <2>0, <3>2 DEF l
  <2>2. ASSUME NEW k \in 1..n, k - 1 \in T PROVE k \in T
    <3> DEFINE l == m - k
    <3>1. l \in Nat /\ l \in 1..m /\ l + 1 = m - (k - 1) /\ k \in 0..n
      BY <1>1, <1>4
    <3>2. \A c \in Nat : Starts(Left[l + 1][c], Walk[l + 1][c])
      BY <2>2, <3>1
    <3> HIDE DEF l
    <3>3. \A b \in Nat : Starts(Left[l][b], Walk[l][b])
      BY <1>2, <3>1, <3>2
    <3> QED
      BY <3>1, <3>3 DEF l
  <2> HIDE DEF T
  <2>3. \A k \in 0..n : k \in T
    <3> HIDE DEF n
    <3> QED
      BY <2>0, <2>1, <2>2, Upwards
  <2>4. ASSUME NEW level \in 1..m, NEW b \in Nat PROVE Starts(Left[level][b], Walk[level][b])
    <3>1. m - level \in 0..n /\ m - (m - level) = level
      BY <1>1
    <3>2. m - level \in T
      BY <2>3, <3>1
    <3> QED
      BY <3>1, <3>2 DEF T
  <2> QED
    BY <2>4
<1> QED
  BY <1>3, <1>4

\* first_extent_start is where the extents of the whole tree start, or nothing.
LEMMA FirstExtentStarts ==
  ASSUME DeviceFormed, ~ OnNtfs(img), NEW file, file.kind = "extents", NodeFormed(file.root)
  PROVE  Starts(FirstExtent(img, file), ParseExtents(img, file.root))
<1> DEFINE t == file.root
           V == ValidExtents(img.bytes)
<1>1. CASE t.depth = 0
  <2>1. FirstExtent(img, file) = FirstLeaf(t) /\ ParseExtents(img, t) = Leaves(t)
    BY <1>1, FirstExtentIs, ParsedIs, Zenon
  <2>2. Leaves(t) \in Seq(V)
    BY <1>1, LeavesType
  <2> QED
    BY <2>1, <2>2, FirstLeafStarts
<1>2. CASE t.depth # 0 /\ (MaxDepth = 0 \/ t.entries = <<>>)
  <2>1. FirstExtent(img, file) = {}
    BY <1>2, FirstExtentIs
  <2> QED
    BY <2>1 DEF Starts
<1>3. CASE t.depth # 0 /\ ~(MaxDepth = 0 \/ t.entries = <<>>)
  <2> DEFINE f == Walk[1]
             found == Left[1][t.entries[1]]
             s == [i \in DOMAIN t.entries |-> f[t.entries[i]]]
  <2>1. FirstExtent(img, file) = found /\ ParseExtents(img, t) = FlattenSeq(s)
    BY <1>3, FirstExtentIs, ParsedIs
  <2>2. 1 \in 1..MaxDepth /\ 1 \in 1..(MaxDepth + 1)
    BY <1>3, TableAssumption
  <2>3. \A c \in Nat : f[c] \in Seq(V)
    BY <2>2, WalkType
  <2>4. NodeFormed(t)
    OBVIOUS
  <2> HIDE DEF t, V
  <2>5. t.entries[1] \in Nat
    <3>1. t.entries \in Seq(Nat)
      BY <1>3, <2>4 DEF NodeFormed
    <3>2. Len(t.entries) \in Nat /\ Len(t.entries) # 0
      BY <1>3, <3>1, EmptySeq, LenProperties
    <3>3. 1 \in 1..Len(t.entries)
      BY <3>2
    <3> QED
      BY <3>1, <3>3, ElementOfSeq
  <2>6. Starts(found, f[t.entries[1]])
    BY <2>2, <2>5, LeftStarts
  <2> HIDE DEF f, found
  <2>7. Starts(found, FlattenSeq(s))
    BY <1>3, <2>3, <2>4, <2>6, FirstChild
  <2> QED
    BY <2>1, <2>7 DEF t
<1> QED
  BY <1>1, <1>2, <1>3

\* The extents of an ext4 file are valid and lie on the device.
LEMMA ExtentsOfType ==
  ASSUME DeviceFormed, ~ OnNtfs(img), NEW n, n.kind \in {"extents", "direct"}, FileFormed(n)
  PROVE  /\ ExtentsOf(img, n) \in Seq(ValidExtents(img.bytes))
         /\ Starts(FirstExtent(img, n), ExtentsOf(img, n))
<1> DEFINE V == ValidExtents(img.bytes)
<1>1. CASE n.kind = "extents"
  <2>1. ExtentsOf(img, n) = ParseExtents(img, n.root)
    BY <1>1 DEF ExtentsOf
  <2>2. NodeFormed(n.root)
    BY <1>1 DEF FileFormed
  <2> QED
    BY <1>1, <2>1, <2>2, ParsedType, FirstExtentStarts
<1>2. CASE n.kind = "direct"
  <2> DEFINE bs == n.blocks
             l == Len(bs)
             L == Len(img.bytes)
             f == [i \in DOMAIN bs |-> IF bs[i] # 0 /\ bs[i] * Block < L
                                       THEN <<[start |-> bs[i], len |-> 1]>> ELSE <<>>]
  <2>1. ExtentsOf(img, n) = FlattenSeq(f)
    BY <1>2 DEF ExtentsOf
  <2>2. bs \in Seq(Nat)
    BY <1>2 DEF FileFormed
  <2>3. l \in Nat /\ DOMAIN bs = 1..l /\ \A i \in 1..l : bs[i] \in Nat
    BY <2>2, LenProperties, ElementOfSeq
  <2>4. L \in Nat /\ L % Block = 0
    BY LenProperties DEF DeviceFormed
  <2> HIDE DEF bs, l
  <2>5. ASSUME NEW i \in 1..l PROVE f[i] = <<>> \/ \E x \in V : f[i] = <<x>>
    <3> DEFINE b == bs[i]
    <3>1. b \in Nat
      BY <2>3
    <3> HIDE DEF b
    <3>2. ASSUME b * Block < L PROVE [start |-> b, len |-> 1] \in V
      <4>1. Block \in Nat \ {0}
        BY DeviceAssumption
      <4>2. L = Block * (L \div Block) /\ L \div Block \in Nat
        <5> HIDE DEF L
        <5> QED
          BY ONLY <4>1, <2>4, SMT
      <4>3. b < L \div Block
        <5> DEFINE q == L \div Block
        <5>1. q \in Nat /\ b * Block < Block * q
          BY <3>2, <4>2
        <5> HIDE DEF q
        <5>2. b < q
          <6> SUFFICES ASSUME b >= q PROVE FALSE
            BY <3>1, <5>1
          <6>1. b * Block >= q * Block
            BY <3>1, <4>1, <5>1, SMT
          <6> QED
            BY <3>1, <4>1, <5>1, <6>1, SMT
        <5> QED
          BY <5>2 DEF q
      <4>4. (b + 1) * Block <= L
        <5> DEFINE q == L \div Block
        <5>1. q \in Nat /\ b + 1 <= q /\ L = Block * q
          BY <3>1, <4>2, <4>3
        <5> HIDE DEF q
        <5>2. (b + 1) * Block <= q * Block
          BY <3>1, <4>1, <5>1, SMT
        <5> QED
          BY <4>1, <5>1, <5>2, SMT
      <4>5. 1 \in Nat /\ 1 > 0 /\ L = Len(img.bytes)
        OBVIOUS
      <4> HIDE DEF L
      <4> QED
        BY <3>1, <4>4, <4>5 DEF ValidExtents, ExtentsIn
    <3> HIDE DEF V
    <3> QED
      BY <2>3, <3>2 DEF b
  <2>6. f = [i \in 1..l |-> f[i]]
    BY <2>3
  <2> HIDE DEF f, V
  <2>7. FlattenSeq(f) \in Seq(V)
    BY <2>3, <2>5, <2>6, OnlyOrNothing, Zenon
  <2>8. FirstExtent(img, n) = {}
    BY <1>2, FirstExtentIs
  <2> QED
    BY <2>1, <2>7, <2>8 DEF Starts, V
<1> QED
  BY <1>1, <1>2

-----------------------------------------------------------------------------
(* What the probe reads.                                                   *)

\* A text is its beginning and its rest.
LEMMA FirstAndRest ==
  ASSUME NEW B, NEW t \in Seq(B), NEW m \in 0..Len(t)
  PROVE  FirstOf(t, m) \o RestFrom(t, m) = t
<1> DEFINE n == Len(t)
           e == Extract(t, 0, n)
           f == FirstOf(t, m)
           r == RestFrom(t, m)
<1>1. /\ n \in Nat /\ m \in Nat /\ m <= n /\ 0 + n <= Len(t) /\ n - m \in Nat /\ m + (n - m) = n
      /\ 0 + m + (n - m) <= Len(t) /\ 0 + m = m /\ Least(n, m) = m
  BY LenProperties DEF Least
<1>2. e = t /\ 0 + 1 = 1 /\ 0 + n = n
  <2>1. SubSeq(t, 1, n) = t
    BY SubSeqFull
  <2> QED
    BY <1>1, <2>1 DEF Extract
<1>3. f = Extract(t, 0, m)
  <2>1. f = Extract(t, 0, Least(Len(t), m))
    BY <1>1, FirstIs
  <2> QED
    BY <1>1, <2>1
<1>4. r = Extract(t, m, n - m)
  <2>1. RestFrom(Extract(t, 0, n), m) = Extract(t, 0 + m, n - m)
    BY <1>1, ExtractRest
  <2> QED
    BY <1>1, <1>2, <2>1
<1>5. Extract(t, 0, m) \o Extract(t, 0 + m, n - m) = Extract(t, 0, m + (n - m))
  <2> DEFINE k == n - m
  <2>1. k \in Nat /\ 0 + m + k <= Len(t)
    BY <1>1
  <2> HIDE DEF k
  <2>2. Extract(t, 0, m) \o Extract(t, 0 + m, k) = Extract(t, 0, m + k)
    BY <1>1, <2>1, ExtractsMeet
  <2> QED
    BY <2>2 DEF k
<1> HIDE DEF f, r, e
<1> QED
  BY <1>1, <1>2, <1>3, <1>4, <1>5, Zenon DEF e, f, r

\* The beginning of a beginning.
LEMMA FirstOfFirst ==
  ASSUME NEW B, NEW t \in Seq(B), NEW n \in Nat, NEW m \in Nat, m <= n
  PROVE  FirstOf(FirstOf(t, n), m) = FirstOf(t, m)
<1> DEFINE l == Least(Len(t), n)
<1>1. /\ Len(t) \in Nat /\ l \in Nat /\ 0 + l <= Len(t) /\ Least(l, m) = Least(Len(t), m)
  BY LenProperties DEF Least
<1>2. FirstOf(t, n) = Extract(t, 0, l) /\ FirstOf(t, m) = Extract(t, 0, Least(Len(t), m))
  BY FirstIs, Zenon
<1> HIDE DEF l
<1>3. FirstOf(Extract(t, 0, l), m) = Extract(t, 0, Least(l, m))
  BY <1>1, FirstOfExtract
<1> QED
  BY <1>1, <1>2, <1>3

\* The beginning of a text that begins with an extract.
LEMMA FirstInExtract ==
  ASSUME NEW B, NEW bytes \in Seq(B), NEW at \in Nat, NEW len \in Nat, at + len <= Len(bytes),
         NEW r \in Seq(B), NEW m \in Nat, m <= len
  PROVE  FirstOf(Extract(bytes, at, len) \o r, m) = Extract(bytes, at, m)
<1> DEFINE e == Extract(bytes, at, len)
           f == FirstOf(e, m)
<1>1. e \in Seq(B) /\ Len(e) = len
  BY ExtractIs
<1>2. f = Extract(bytes, at, m)
  <2>1. Least(len, m) = m
    BY DEF Least
  <2>2. f = Extract(bytes, at, Least(len, m))
    BY FirstOfExtract
  <2> QED
    BY <2>1, <2>2
<1>3. f \in Seq(B) /\ Len(f) = m
  <2>1. at + m <= Len(bytes)
    BY LenProperties
  <2>2. Extract(bytes, at, m) \in Seq(B) /\ Len(Extract(bytes, at, m)) = m
    BY <2>1, ExtractIs
  <2> HIDE DEF f
  <2> QED
    BY <1>2, <2>2
<1> HIDE DEF e
<1>4. FirstOf(e \o r, m) = f \o FirstOf(r, m - Len(f))
  <2>1. /\ m - Len(FirstOf(e, m)) \in Nat
        /\ FirstOf(e \o r, m) = FirstOf(e, m) \o FirstOf(r, m - Len(FirstOf(e, m)))
    <3>1. e \in Seq(B)
      BY <1>1
    <3> QED
      BY ONLY <3>1, r \in Seq(B), m \in Nat, FirstGrows, ZenonT(60)
  <2> QED
    BY <2>1
<1> HIDE DEF f
<1>5. FirstOf(r, m - Len(f)) = <<>>
  <2>1. m - Len(f) = 0
    BY <1>3
  <2>2. FirstOf(r, 0) \in Seq(B) /\ Len(FirstOf(r, 0)) = 0
    <3>1. Least(Len(r), 0) = 0
      BY LenProperties DEF Least
    <3> QED
      BY <3>1, FirstIs
  <2> QED
    BY <2>1, <2>2, EmptySeq
<1>6. f \o <<>> = f
  BY <1>3, ConcatEmptySeq
<1> QED
  BY <1>2, <1>4, <1>5, <1>6, Zenon DEF e

\* A read inside a block that can be read gets all that is asked for.
LEMMA InBlock ==
  ASSUME NEW s \in Nat, NEW p \in Nat, s * Block <= p, p < s * Block + Block
  PROVE  BlockOf(p) = s
<1>1. Block \in Nat \ {0}
  BY DeviceAssumption
<1> DEFINE q == p \div Block
<1>2. q \in Nat /\ p >= Block * q /\ p < Block * q + Block
  BY ONLY <1>1, p \in Nat, SMT
<1> HIDE DEF q
<1>3. q <= s
  <2> SUFFICES ASSUME q >= s + 1 PROVE FALSE
    BY <1>2
  <2>1. q * Block >= (s + 1) * Block
    BY <1>1, <1>2, SMT
  <2>2. (s + 1) * Block = s * Block + Block /\ q * Block = Block * q
    BY <1>1, <1>2, SMT
  <2> DEFINE a == s * Block
             b == Block * q
  <2>3. a \in Nat /\ b \in Nat /\ b >= a + Block /\ p >= b /\ p < a + Block
    BY <1>1, <1>2, <2>1, <2>2, SMT
  <2> HIDE DEF a, b
  <2> QED
    BY <1>1, <2>3
<1>4. q >= s
  <2> SUFFICES ASSUME s >= q + 1 PROVE FALSE
    BY <1>2
  <2>1. s * Block >= (q + 1) * Block
    BY <1>1, <1>2, SMT
  <2>2. (q + 1) * Block = Block * q + Block
    BY <1>1, <1>2, SMT
  <2> DEFINE a == s * Block
             b == Block * q
  <2>3. a \in Nat /\ b \in Nat /\ a >= b + Block /\ p < b + Block /\ p >= a
    BY <1>1, <1>2, <2>1, <2>2, SMT
  <2> HIDE DEF a, b
  <2> QED
    BY <1>1, <2>3
<1> QED
  BY <1>2, <1>3, <1>4 DEF BlockOf, q

\* A read inside a block that can be read gets all that is asked for.
LEMMA ReadInBlock ==
  ASSUME NEW s \in Nat, NEW m \in Nat, m <= Block, s * Block + m <= Len(img.bytes),
         ~ Fails(img, s * Block), img.bytes \in Seq(Range(img.bytes))
  PROVE  ReadAt(img, s * Block, m) = Extract(img.bytes, s * Block, m)
<1> DEFINE at == s * Block
           upto == Least(at + m, Len(img.bytes))
           bads == {p \in at..(upto - 1) : BlockOf(p) \in img.bad}
<1>1. Block \in Nat \ {0} /\ at \in Nat /\ Len(img.bytes) \in Nat
  <2>1. Block \in Nat \ {0}
    BY DeviceAssumption
  <2> QED
    BY <2>1, LenProperties, SMT
<1>2. upto = at + m
  BY DEF Least
<1>3. BlockOf(at) = s
  BY <1>1, InBlock
<1>4. s \notin img.bad
  BY <1>3 DEF Fails
<1>5. bads = {}
  <2> SUFFICES ASSUME NEW p \in at..(upto - 1) PROVE BlockOf(p) \notin img.bad
    OBVIOUS
  <2>1. p \in Nat /\ at <= p /\ p < at + Block
    <3> HIDE DEF at, upto
    <3> QED
      BY <1>1, <1>2
  <2>2. BlockOf(p) = s
    BY <2>1, InBlock
  <2> QED
    BY <1>4, <2>2
<1>6. ReadEnd(img, at, m) = at + m
  BY <1>2, <1>5 DEF ReadEnd
<1> QED
  BY <1>6, Zenon DEF ReadAt, Extract

-----------------------------------------------------------------------------
(* A file on ext4.                                                         *)

\* The places of an ext4 file are those of its extents, and so are its bytes.
LEMMA ExtentPlacesIs ==
  ASSUME DeviceFormed, ~ OnNtfs(img), NEW n, n.kind \in {"extents", "direct"}, FileFormed(n),
         NEW B, NEW bytes \in Seq(B), Len(bytes) = Len(img.bytes)
  PROVE  LET all == ExtentsOf(img, n)
             C   == FlattenSeq(ExtentBytes(bytes, all))
         IN  /\ ExtentPlaces(n) \in Seq(PlacesOn(bytes))
             /\ Mapped(bytes, ExtentPlaces(n)) = C
             /\ C \in Seq(B) /\ all \in Seq(ExtentsIn(bytes))
             /\ all # <<>> => ExtentPlaces(n) # <<>> /\ ExtentPlaces(n)[1] = all[1].start * Block + 1
<1> DEFINE all == ExtentsOf(img, n)
           l == Len(all)
           es == ExtentBytes(bytes, all)
           ps == [i \in DOMAIN all |-> Stretch(all[i].start, all[i].len)]
           P == PlacesOn(bytes)
<1>1. bytes \in Seq(B) /\ ExtentPlaces(n) = FlattenSeq(ps)
  BY DEF ExtentPlaces
<1>2. all \in Seq(ValidExtents(bytes))
  <2>1. ValidExtents(bytes) = ValidExtents(img.bytes)
    BY Zenon DEF ValidExtents, ExtentsIn
  <2> QED
    BY <2>1, ExtentsOfType
<1> HIDE DEF all
<1>3. /\ l \in Nat /\ DOMAIN all = 1..l
      /\ \A i \in 1..l : all[i] \in ValidExtents(bytes)
      /\ \A i \in 1..l : all[i] \in ExtentsIn(bytes)
  <2>1. l \in Nat /\ DOMAIN all = 1..l /\ \A i \in 1..l : all[i] \in ValidExtents(bytes)
    BY <1>2, LenProperties, ElementOfSeq
  <2> QED
    BY <2>1 DEF ValidExtents
<1>4. all \in Seq(ExtentsIn(bytes))
  <2>1. all \in [1..l -> ExtentsIn(bytes)]
    <3>1. all = [i \in 1..l |-> all[i]]
      BY <1>2, <1>3
    <3> QED
      BY <1>3, <3>1
  <2> QED
    BY <1>3, <2>1, SeqDef
<1>5. /\ es \in Seq(Seq(B)) /\ Len(es) = l
      /\ \A i \in 1..l : es[i] = Extract(bytes, all[i].start * Block, all[i].len * Block)
  BY <1>1, <1>4, ExtentBytesType
<1> HIDE DEF es, l
<1>6. ASSUME NEW i \in 1..l
      PROVE  /\ ps[i] = Stretch(all[i].start, all[i].len)
             /\ ps[i] \in Seq(P) /\ es[i] = Mapped(bytes, ps[i])
             /\ Len(ps[i]) = all[i].len * Block
             /\ \A k \in 1..(all[i].len * Block) : ps[i][k] = all[i].start * Block + k
  <2>1. /\ all[i].start \in Nat /\ all[i].len \in Nat
        /\ (all[i].start + all[i].len) * Block <= Len(bytes)
    BY <1>3 DEF ExtentsIn
  <2>2. ps[i] = Stretch(all[i].start, all[i].len)
    BY <1>3
  <2> DEFINE x == all[i].start
             y == all[i].len
  <2>3. x \in Nat /\ y \in Nat /\ (x + y) * Block <= Len(bytes)
    BY <2>1
  <2>4. es[i] = Extract(bytes, x * Block, y * Block) /\ ps[i] = Stretch(x, y)
    BY <1>5, <2>2
  <2> HIDE DEF x, y, ps
  <2>5. /\ Stretch(x, y) \in Seq(PlacesOn(bytes)) /\ Len(Stretch(x, y)) = y * Block
        /\ \A k \in 1..(y * Block) : Stretch(x, y)[k] = x * Block + k
        /\ Mapped(bytes, Stretch(x, y)) = Extract(bytes, x * Block, y * Block)
    BY <1>1, <2>3, StretchBytes
  <2> QED
    BY <2>2, <2>4, <2>5 DEF x, y
<1>7. ps \in Seq(Seq(P)) /\ Len(ps) = l
  <2>1. ps = [i \in 1..l |-> ps[i]]
    BY <1>3
  <2> HIDE DEF ps
  <2>2. ps \in [1..l -> Seq(P)]
    BY <1>6, <2>1
  <2> QED
    BY <1>3, <2>2, SeqDef
<1> HIDE DEF ps
<1>8. FlattenSeq(ps) \in Seq(PlacesOn(bytes)) /\ Mapped(bytes, FlattenSeq(ps)) = FlattenSeq(es)
  <2>1. EachMapped(bytes, ps, es)
    BY <1>5, <1>6, <1>7 DEF EachMapped
  <2>2. ps \in Seq(Seq(PlacesOn(bytes)))
    BY <1>5, <1>7
  <2>3. bytes \in Seq(B) /\ es \in Seq(Seq(B))
    BY <1>1, <1>5
  <2> QED
    BY ONLY <2>1, <2>2, <2>3, MappedFlatten
<1>9. FlattenSeq(es) \in Seq(B)
  BY <1>5, FlattenType
<1>10. ASSUME all # <<>>
       PROVE  FlattenSeq(ps) # <<>> /\ FlattenSeq(ps)[1] = all[1].start * Block + 1
  <2>1. l # 0
    BY <1>2, <1>10, EmptySeq DEF l
  <2>2. 1 \in 1..l /\ ps # <<>>
    BY <1>3, <1>7, <2>1
  <2>3. all[1].len * Block \in Nat /\ all[1].len * Block # 0
    <3>1. all[1].len \in Nat \ {0} /\ Block \in Nat \ {0}
      BY <1>3, <2>2, DeviceAssumption DEF ValidExtents, ExtentsIn
    <3> QED
      BY <3>1, SMT
  <2>4. ps[1] # <<>> /\ ps[1][1] = all[1].start * Block + 1
    <3>1. Len(ps[1]) # 0 /\ 1 \in 1..(all[1].len * Block)
      BY <1>6, <2>2, <2>3
    <3> QED
      BY <1>6, <2>2, <3>1
  <2> QED
    BY <1>7, <2>2, <2>4, FlattenFirst
<1> QED
  BY <1>1, <1>4, <1>8, <1>9, <1>10 DEF all, es

\* So it is of the bytes of the device.
LEMMA Ext4Places ==
  ASSUME DeviceFormed, ~ OnNtfs(img), NEW n, n.kind \in {"extents", "direct"}, FileFormed(n)
  PROVE  LET all == ExtentsOf(img, n)
             C   == FlattenSeq(ExtentBytes(img.bytes, all))
         IN  /\ ExtentPlaces(n) \in Seq(PlacesOn(img.bytes))
             /\ Mapped(img.bytes, ExtentPlaces(n)) = C
             /\ C \in Seq(Range(img.bytes)) /\ all \in Seq(ExtentsIn(img.bytes))
             /\ all # <<>> => ExtentPlaces(n) # <<>> /\ ExtentPlaces(n)[1] = all[1].start * Block + 1
<1>1. img.bytes \in Seq(Range(img.bytes)) /\ Len(img.bytes) = Len(img.bytes)
  BY DEF DeviceFormed
<1> QED
  BY <1>1, ExtentPlacesIs

\* The content of an ext4 file is the beginning of the bytes of its extents.
LEMMA Ext4Content ==
  ASSUME DeviceFormed, ~ OnNtfs(img), NEW n, n.kind \in {"extents", "direct"}, FileFormed(n),
         NEW max \in Nat
  PROVE  ContentTo(n, max) = FirstOf(FlattenSeq(ExtentBytes(img.bytes, ExtentsOf(img, n))), max)
<1> DEFINE p == ExtentPlaces(n)
           C == FlattenSeq(ExtentBytes(img.bytes, ExtentsOf(img, n)))
<1>1. ContentTo(n, max) = Mapped(img.bytes, FirstOf(p, max))
  BY DEF ContentTo, Places, BytesAt, Mapped
<1>2. p \in Seq(PlacesOn(img.bytes)) /\ Mapped(img.bytes, p) = C
  BY Ext4Places
<1> HIDE DEF p, C
<1>3. Mapped(img.bytes, FirstOf(p, max)) = FirstOf(Mapped(img.bytes, p), max)
  <2>1. img.bytes \in Seq(Range(img.bytes))
    BY DEF DeviceFormed
  <2> QED
    BY <1>2, <2>1, MappedFirst
<1> QED
  BY <1>1, <1>2, <1>3 DEF C

\* When none of a file's bytes is bad, its first block can be read.
LEMMA FirstReadable ==
  ASSUME DeviceFormed, ~ OnNtfs(img), NEW n, n.kind \in {"extents", "direct"}, FileFormed(n),
         n.size >= 1, 1 \notin BadPlaces(n), ExtentsOf(img, n) # <<>>
  PROVE  ~ Fails(img, ExtentsOf(img, n)[1].start * Block)
<1> DEFINE p == ExtentPlaces(n)
           at == ExtentsOf(img, n)[1].start * Block
           f == FirstOf(p, n.size)
<1>1. p \in Seq(PlacesOn(img.bytes)) /\ p # <<>> /\ p[1] = at + 1
  BY Ext4Places
<1>2. n.size \in Nat
  BY DEF FileFormed
<1>3. Places(n, n.size) = f
  BY DEF Places
<1>4. at \in Nat
  <2> DEFINE all == ExtentsOf(img, n)
  <2>1. all \in Seq(ValidExtents(img.bytes)) /\ all # <<>>
    BY ExtentsOfType
  <2> HIDE DEF all
  <2>2. 1 \in 1..Len(all)
    <3>1. Len(all) \in Nat /\ Len(all) # 0
      BY <2>1, EmptySeq, LenProperties
    <3> QED
      BY <3>1
  <2>3. all[1] \in ExtentsIn(img.bytes)
    BY <2>1, <2>2, ElementOfSeq DEF ValidExtents
  <2>4. all[1].start * Block \in Nat
    BY <2>3, ExtentOnDevice
  <2> QED
    BY <2>4 DEF all
<1> HIDE DEF p, at
<1>5. DOMAIN f = 1..Len(f) /\ 1 \in DOMAIN f /\ f[1] = p[1]
  <2> DEFINE m == Least(Len(p), n.size)
  <2>1. /\ f \in Seq(PlacesOn(img.bytes)) /\ Len(f) = m /\ m \in Nat /\ Begins(p, m, f)
    BY <1>1, <1>2, FirstFacts, ZenonT(60)
  <2>2. m # 0
    <3> DEFINE k == Len(p)
               z == n.size
    <3>1. k \in Nat /\ k # 0 /\ z \in Nat /\ z >= 1
      BY <1>1, <1>2, EmptySeq, LenProperties
    <3> HIDE DEF k, z
    <3>2. Least(k, z) # 0
      BY <3>1 DEF Least
    <3> QED
      BY <3>2 DEF k, z
  <2> HIDE DEF m, f
  <2>3. 1 \in 1..m
    BY <2>1, <2>2
  <2> QED
    BY <2>1, <2>3, LenProperties DEF Begins
<1> HIDE DEF f
<1>6. BlockOf(f[1] - 1) \notin img.bad
  BY <1>3, <1>5 DEF BadPlaces, BadAmong
<1>7. f[1] - 1 = at
  BY <1>1, <1>4, <1>5
<1> QED
  BY <1>6, <1>7 DEF Fails, at

\* A head that is the beginning of the file, and the chunks planned after it.
LEMMA HeadAndPlan ==
  ASSUME NEW B, NEW bytes \in Seq(B), NEW exts \in Seq(ExtentsIn(bytes)), NEW max \in Nat,
         NEW head \in Seq(B), Len(head) <= max,
         head = FirstOf(FlattenSeq(ExtentBytes(bytes, exts)), Len(head))
  PROVE  /\ Plan(exts, max, Len(head)) \in Seq(ChunksOn(bytes))
         /\ head \o BytesOf(bytes, Plan(exts, max, Len(head)))
              = FirstOf(FlattenSeq(ExtentBytes(bytes, exts)), max)
<1> DEFINE C == FlattenSeq(ExtentBytes(bytes, exts))
           m == Len(head)
           t == FirstOf(C, max)
           cs == Plan(exts, max, m)
<1>1. m \in Nat /\ m <= max
  BY LenProperties
<1>2. C \in Seq(B)
  BY ExtentBytesType, FlattenType
<1> HIDE DEF C, m
<1>3. cs \in Seq(ChunksOn(bytes)) /\ BytesOf(bytes, cs) = RestFrom(t, m)
  BY <1>1, PlanBytes, Zenon DEF C
<1>4. head = FirstOf(C, m)
  BY DEF C, m
<1>5. t \in Seq(B) /\ FirstOf(t, m) = head
  BY <1>1, <1>2, <1>4, FirstIs, FirstOfFirst
<1>6. m \in 0..Len(t)
  <2>1. Len(t) \in Nat
    BY <1>5, LenProperties
  <2>2. Len(FirstOf(t, m)) = Least(Len(t), m)
    BY <1>1, <1>5, FirstIs
  <2> DEFINE k == Len(t)
  <2>3. m = Least(k, m) /\ k \in Nat
    BY <1>5, <2>1, <2>2 DEF m
  <2> HIDE DEF k, t
  <2>4. m <= k
    BY <1>1, <2>3 DEF Least
  <2> QED
    BY <1>1, <2>4 DEF k
<1> HIDE DEF t
<1>7. FirstOf(t, m) \o RestFrom(t, m) = t
  BY <1>5, <1>6, FirstAndRest, Zenon
<1> HIDE DEF cs
<1> QED
  BY <1>3, <1>5, <1>7 DEF C, m, t, cs

\* What the probe reads is the beginning of the file.
LEMMA ProbedHead ==
  ASSUME DeviceFormed, ~ OnNtfs(img), NEW n, n.kind \in {"extents", "direct"}, FileFormed(n),
         NEW max \in 1..n.size, NEW likely, 1 \notin BadPlaces(n)
  PROVE  \E head \in Seq(Range(img.bytes)) :
           /\ ProbeHead(img, ProbeStart(ExtentsOf(img, n), FirstExtent(img, n)), max, likely) = {head}
           /\ Len(head) <= max
           /\ head = FirstOf(FlattenSeq(ExtentBytes(img.bytes, ExtentsOf(img, n))), Len(head))
<1> DEFINE bytes == img.bytes
           B == Range(bytes)
           all == ExtentsOf(img, n)
           es == ExtentBytes(bytes, all)
           C == FlattenSeq(es)
           start == ProbeStart(all, FirstExtent(img, n))
           m == Least(max, IF likely THEN Probe ELSE Block)
<1>1. bytes \in Seq(B)
  BY DEF DeviceFormed
<1>2. all \in Seq(ValidExtents(bytes)) /\ Starts(FirstExtent(img, n), all)
  BY ExtentsOfType
<1>3. C \in Seq(B)
  BY Ext4Places
<1>4. m \in Nat /\ m <= max /\ m <= Block /\ max \in Nat /\ Block \in Nat \ {0}
  <2>1. n.size \in Nat
    BY DEF FileFormed
  <2>2. max \in Nat
    BY <2>1
  <2> QED
    BY <2>2, DeviceAssumption, ProbeAssumption DEF Least
<1>5. CASE all = <<>>
  <2>1. start = {}
    BY <1>2, <1>5 DEF Starts, ProbeStart
  <2>2. ProbeHead(img, start, max, likely) = {<<>>}
    BY <2>1 DEF ProbeHead
  <2>3. <<>> \in Seq(B) /\ Len(<<>>) = 0
    BY EmptySeq
  <2>4. <<>> = FirstOf(C, 0)
    <3> HIDE DEF C
    <3>1. Least(Len(C), 0) = 0
      BY <1>3, LenProperties DEF Least
    <3>2. FirstOf(C, 0) \in Seq(B) /\ Len(FirstOf(C, 0)) = 0
      BY <1>3, <3>1, FirstIs
    <3> QED
      BY <3>2, EmptySeq
  <2> HIDE DEF C, start
  <2>5. /\ <<>> \in Seq(B) /\ ProbeHead(img, start, max, likely) = {<<>>} /\ Len(<<>>) <= max
        /\ <<>> = FirstOf(C, Len(<<>>))
    BY <1>4, <2>2, <2>3, <2>4
  <2> HIDE DEF m, es, all
  <2> QED
    BY <2>5, Zenon DEF start, C, es, all
<1>6. CASE all # <<>>
  <2> DEFINE s == all[1].start
             len == all[1].len
             h == Extract(bytes, s * Block, m)
  <2>1. start = {s}
    BY <1>2, <1>6 DEF Starts, ProbeStart
  <2>2. ~ Fails(img, s * Block)
    <3>1. n.size >= 1
      BY DEF FileFormed
    <3> QED
      BY <1>6, <3>1, FirstReadable
  <2> HIDE DEF all, start
  <2>3. all[1] \in ValidExtents(bytes) /\ all[1] \in ExtentsIn(bytes) /\ 1 \in 1..Len(all)
    <3>1. Len(all) \in Nat /\ Len(all) # 0
      BY <1>2, <1>6, EmptySeq, LenProperties
    <3>2. 1 \in 1..Len(all)
      BY <3>1
    <3>3. all[1] \in ValidExtents(bytes)
      BY <1>2, <3>2, ElementOfSeq
    <3> QED
      BY <3>2, <3>3 DEF ValidExtents
  <2>4. /\ s \in Nat /\ len \in Nat /\ len > 0
        /\ s * Block \in Nat /\ len * Block \in Nat
        /\ s * Block + len * Block <= Len(bytes)
    <3>1. s \in Nat /\ len \in Nat /\ len > 0
      BY <2>3 DEF ValidExtents, ExtentsIn
    <3>2. /\ s * Block \in Nat /\ len * Block \in Nat
          /\ s * Block + len * Block <= Len(bytes)
      BY <2>3, ExtentOnDevice
    <3> QED
      BY <3>1, <3>2
  <2>5. Block <= len * Block
    <3> HIDE DEF len
    <3>1. len >= 1
      BY <2>4
    <3> QED
      BY <1>4, <2>4, <3>1, SMT
  <2>6. m <= len * Block /\ s * Block + m <= Len(bytes)
    <3> DEFINE x == s * Block
               y == len * Block
    <3>1. x \in Nat /\ y \in Nat /\ x + y <= Len(bytes) /\ Block <= y
      BY <2>4, <2>5
    <3> HIDE DEF x, y, m
    <3>2. m <= y /\ x + m <= Len(bytes)
      BY <1>1, <1>4, <3>1, LenProperties
    <3> QED
      BY <3>2 DEF x, y
  <2>7. ReadAt(img, s * Block, m) = h
    <3> HIDE DEF m, s
    <3> QED
      BY <1>1, <1>4, <2>2, <2>4, <2>6, ReadInBlock
  <2>8. ProbeHead(img, start, max, likely) = {h}
    <3>1. start # {} /\ {z \in start : ~ Fails(img, z * Block)} = {s}
      BY <2>1, <2>2
    <3>2. ProbeHead(img, start, max, likely) = {ReadAt(img, s * Block, m)}
      BY <3>1 DEF ProbeHead
    <3> QED
      BY <2>7, <3>2
  <2> HIDE DEF m, s, len
  <2>9. h \in Seq(B) /\ Len(h) = m
    BY <1>1, <1>4, <2>4, <2>6, ExtractIs
  <2>10. h = FirstOf(C, m)
    <3>1. all \in Seq(ExtentsIn(bytes))
      <4>1. Len(all) \in Nat /\ DOMAIN all = 1..Len(all) /\ all = [i \in 1..Len(all) |-> all[i]]
        BY <1>2, LenProperties
      <4>2. \A i \in 1..Len(all) : all[i] \in ExtentsIn(bytes)
        BY <1>2, ElementOfSeq DEF ValidExtents
      <4>3. all \in [1..Len(all) -> ExtentsIn(bytes)]
        BY <4>1, <4>2
      <4> QED
        BY <4>1, <4>3, SeqDef
    <3>2. /\ es \in Seq(Seq(B)) /\ es # <<>>
          /\ es[1] = Extract(bytes, s * Block, len * Block)
      <4>1. /\ es \in Seq(Seq(B)) /\ Len(es) = Len(all)
            /\ \A i \in 1..Len(all) : es[i] = Extract(bytes, all[i].start * Block, all[i].len * Block)
        BY <1>1, <3>1, ExtentBytesType
      <4> HIDE DEF es
      <4>2. es # <<>>
        BY <2>3, <4>1
      <4> QED
        BY <2>3, <4>1, <4>2 DEF s, len
    <3> DEFINE a == es[1]
               r == FlattenSeq(Tail(es))
    <3> HIDE DEF es
    <3>3. C = a \o r /\ r \in Seq(B)
      <4> DEFINE tl == Tail(es)
      <4>1. a \in Seq(B) /\ tl \in Seq(Seq(B)) /\ es = <<a>> \o tl
        BY <3>2, HeadTailProperties, HeadAndTail, LenProperties, ElementOfSeq
      <4>2. FlattenSeq(<<a>>) = a /\ <<a>> \in Seq(Seq(B))
        BY <4>1, FlattenSmall
      <4> HIDE DEF a, tl
      <4>3. FlattenSeq(es) = a \o FlattenSeq(tl)
        BY <4>1, <4>2, FlattenConcat, Zenon
      <4>4. FlattenSeq(tl) \in Seq(B)
        BY <4>1, FlattenType
      <4> QED
        BY <4>3, <4>4 DEF tl
    <3> HIDE DEF r, a, C
    <3>4. a = Extract(bytes, s * Block, len * Block)
      BY <3>2 DEF a
    <3> DEFINE x == s * Block
               y == len * Block
    <3>5. x \in Nat /\ y \in Nat /\ x + y <= Len(bytes) /\ m \in Nat /\ m <= y
      BY <1>4, <2>4, <2>6
    <3>6. C = Extract(bytes, x, y) \o r /\ h = Extract(bytes, x, m)
      BY <3>3, <3>4
    <3> HIDE DEF x, y, h
    <3>7. FirstOf(Extract(bytes, x, y) \o r, m) = Extract(bytes, x, m)
      BY <1>1, <3>3, <3>5, FirstInExtract
    <3> QED
      BY <3>6, <3>7
  <2> HIDE DEF h, C
  <2>11. h \in Seq(B) /\ ProbeHead(img, start, max, likely) = {h} /\ Len(h) <= max /\ h = FirstOf(C, Len(h))
    BY <1>4, <2>8, <2>9, <2>10
  <2> QED
    BY <2>11 DEF start, C, es, all
<1> QED
  BY <1>5, <1>6

\* What a plan reads is the file, up to max bytes.
Covers(plan, n, max) ==
  /\ plan.head \in Seq(Range(img.bytes)) /\ plan.chunks \in Seq(ChunksOn(img.bytes))
  /\ plan.head \o BytesOf(img.bytes, plan.chunks) = ContentTo(n, max)

\* Ext4Covers: on ext4 the head that the probe has read and the chunks planned
\* after it are the file, each byte once and in order, up to the limit.
THEOREM Ext4Covers ==
  ASSUME DeviceFormed, ~ OnNtfs(img), NEW n, n.kind \in {"extents", "direct"}, FileFormed(n),
         NEW max \in 1..n.size, NEW check \in BOOLEAN, NEW likely, 1 \notin BadPlaces(n),
         ~ CollectChunks(img, n, max, check, likely).rejected
  PROVE  Covers(CollectChunks(img, n, max, check, likely), n, max)
<1> DEFINE bytes == img.bytes
           B == Range(bytes)
           all == ExtentsOf(img, n)
           C == FlattenSeq(ExtentBytes(bytes, all))
           heads == IF check THEN ProbeHead(img, ProbeStart(all, FirstExtent(img, n)), max, likely)
                    ELSE {<<>>}
           plan == CollectChunks(img, n, max, check, likely)
<1>1. bytes \in Seq(B) /\ max \in Nat
  <2>1. n.size \in Nat
    BY DEF FileFormed
  <2> QED
    BY <2>1 DEF DeviceFormed
<1>2. plan = Probed(n, all, max, heads)
  BY DEF CollectChunks, Collect, CollectFrom
<1>3. all \in Seq(ExtentsIn(bytes))
  <2>1. all \in Seq(ValidExtents(bytes))
    BY ExtentsOfType
  <2> HIDE DEF all
  <2>2. Len(all) \in Nat /\ DOMAIN all = 1..Len(all) /\ all = [i \in 1..Len(all) |-> all[i]]
    BY <2>1, LenProperties
  <2>3. \A i \in 1..Len(all) : all[i] \in ExtentsIn(bytes)
    BY <2>1, ElementOfSeq DEF ValidExtents
  <2>4. all \in [1..Len(all) -> ExtentsIn(bytes)]
    BY <2>2, <2>3
  <2> QED
    BY <2>2, <2>4, SeqDef
<1>4. \E head \in Seq(B) : heads = {head} /\ Len(head) <= max /\ head = FirstOf(C, Len(head))
  <2>1. CASE check
    BY <2>1, ProbedHead
  <2>2. CASE ~ check
    <3>1. <<>> \in Seq(B) /\ Len(<<>>) = 0 /\ 0 <= max
      BY <1>1, EmptySeq
    <3>2. C \in Seq(B)
      BY Ext4Places
    <3> HIDE DEF C
    <3>3. FirstOf(C, 0) = <<>>
      <4>1. Least(Len(C), 0) = 0
        BY <3>2, LenProperties DEF Least
      <4>2. FirstOf(C, 0) \in Seq(B) /\ Len(FirstOf(C, 0)) = 0
        BY <3>2, <4>1, FirstIs
      <4> QED
        BY <4>2, EmptySeq
    <3> QED
      BY <2>2, <3>1, <3>3, Zenon
  <2> QED
    BY <2>1, <2>2
<1>5. PICK head \in Seq(B) : heads = {head} /\ Len(head) <= max /\ head = FirstOf(C, Len(head))
  BY <1>4
<1>6. ContentTo(n, max) = FirstOf(C, max)
  BY <1>1, Ext4Content
<1> DEFINE cs == Plan(all, max, Len(head))
<1>7. cs \in Seq(ChunksOn(bytes)) /\ head \o BytesOf(bytes, cs) = FirstOf(C, max)
  <2>1. /\ bytes \in Seq(B) /\ all \in Seq(ExtentsIn(bytes)) /\ max \in Nat /\ head \in Seq(B)
        /\ Len(head) <= max /\ head = FirstOf(FlattenSeq(ExtentBytes(bytes, all)), Len(head))
    BY <1>1, <1>3, <1>5
  <2> HIDE DEF all, bytes, B
  <2> QED
    BY ONLY <2>1, HeadAndPlan, Zenon
<1>8. ~ plan.rejected
  OBVIOUS
<1> HIDE DEF heads, plan, all, C
<1>9. plan = IF IsBinary(head) THEN Rejected ELSE [NoPlan EXCEPT !.head = head, !.chunks = cs]
  <2>1. (CHOOSE h \in heads : TRUE) = head /\ heads # {}
    BY <1>5
  <2> QED
    BY <1>2, <2>1, Zenon DEF Probed
<1>10. ~ IsBinary(head)
  BY <1>8, <1>9 DEF Rejected, NoPlan
<1> HIDE DEF cs
<1>11. plan.head = head /\ plan.chunks = cs
  BY <1>9, <1>10 DEF NoPlan
<1> QED
  BY <1>5, <1>6, <1>7, <1>11 DEF plan, Covers

-----------------------------------------------------------------------------
(* The runs of an NTFS file.                                               *)

\* Runs of which all that are no holes lie on the device.
RunsOn(bytes) ==
  {r \in [vcn : Nat, len : Nat, lcn : SUBSET Int] :
     \A l \in r.lcn : l \in Nat /\ (l + r.len) * Block <= Len(bytes)}

\* v tells where in the file each run begins: where the one before it ends.
InTurn(runs, v) ==
  /\ v[0] = 0 /\ \A i \in 0..Len(runs) : v[i] \in Nat
  /\ \A i \in 1..Len(runs) : runs[i].vcn = v[i - 1] /\ v[i] = v[i - 1] + runs[i].len

\* The fold of DecodeRuns.
DecodeStep(none, acc, r) ==
  [vcn  |-> acc.vcn + r.len,
   lcn  |-> IF r.step = {} THEN acc.lcn ELSE acc.lcn + (CHOOSE d \in r.step : TRUE),
   runs |-> Append(acc.runs, [vcn |-> acc.vcn, len |-> r.len,
                              lcn |-> {acc.lcn + d : d \in r.step}])]
Decoding == INSTANCE FoldSteps WITH step <- DecodeStep

\* Runs, wherever they are.
AnyRun == [vcn : Nat, len : Nat, lcn : SUBSET Int]

\* decode_runlist: each run begins in the file where the one before it ends.
LEMMA DecodedIs ==
  ASSUME NEW list \in Seq([len : Nat, step : SUBSET Int])
  PROVE  DecodeRuns(list) \in Seq(AnyRun) /\ \E v : InTurn(DecodeRuns(list), v)
<1> DEFINE n == Len(list)
           b == [vcn |-> 0, lcn |-> 0, runs |-> <<>>]
           X == [len : Nat, step : SUBSET Int]
<1>1. n \in Nat /\ DOMAIN list = 1..n /\ \A i \in 1..n : list[i] \in X
  BY LenProperties, ElementOfSeq, Zenon
<1>2. DecodeRuns(list) = Decoding!Fold({}, b, list).runs
  BY DEF DecodeRuns, Decoding!Fold, DecodeStep, FoldLeft, MapThenFoldSet, Max,
         Decoding!Greatest
<1> HIDE DEF n, b, X
<1>3. PICK h : Decoding!IsFold({}, b, list, h) /\ Decoding!Fold({}, b, list) = h[n]
  <2>1. Len(list) \in Nat /\ DOMAIN list = 1..Len(list)
    BY <1>1 DEF n
  <2> QED
    BY <2>1, Decoding!FoldIs DEF n
<1>4. h[0] = b /\ \A i \in 1..n : h[i] = DecodeStep({}, h[i - 1], list[i])
  BY <1>3, Zenon DEF Decoding!IsFold, n
<1> DEFINE R(i) == h[i].runs
           Good(i) == /\ h[i].vcn \in Nat /\ h[i].lcn \in Int
                      /\ R(i) \in Seq(AnyRun) /\ Len(R(i)) = i
                      /\ \A j \in 1..i : /\ R(i)[j].vcn = h[j - 1].vcn
                                         /\ h[j].vcn = h[j - 1].vcn + R(i)[j].len
                                         /\ h[j].vcn \in Nat
           T == {i \in 0..n : Good(i)}
<1>5. 0 \in T
  <2>1. h[0].vcn = 0 /\ h[0].lcn = 0 /\ R(0) = <<>>
    BY <1>4 DEF b
  <2>2. <<>> \in Seq(AnyRun) /\ Len(<<>>) = 0 /\ 1..0 = {} /\ 0 \in 0..n
    BY <1>1, EmptySeq
  <2>3. h[0].vcn \in Nat /\ h[0].lcn \in Int
    BY <1>4 DEF b
  <2> HIDE DEF R
  <2>4. R(0) \in Seq(AnyRun) /\ Len(R(0)) = 0
    BY <2>1, <2>2, Zenon
  <2>5. \A j \in 1..0 : /\ R(0)[j].vcn = h[j - 1].vcn
                        /\ h[j].vcn = h[j - 1].vcn + R(0)[j].len
                        /\ h[j].vcn \in Nat
    BY <2>2
  <2> HIDE DEF Good
  <2>6. Good(0)
    BY <2>3, <2>4, <2>5 DEF Good
  <2> QED
    BY <2>2, <2>6
<1>6. ASSUME NEW i \in 1..n, i - 1 \in T PROVE i \in T
  <2> DEFINE k == i - 1
             acc == h[k]
             r == list[i]
             one == [vcn |-> acc.vcn, len |-> r.len, lcn |-> {acc.lcn + d : d \in r.step}]
  <2>1. i \in 0..n /\ k \in Nat /\ k + 1 = i /\ Good(k)
    <3>1. i \in 0..n /\ k \in Nat /\ k + 1 = i
      BY <1>1
    <3> HIDE DEF Good
    <3>2. Good(i - 1)
      BY <1>6
    <3> QED
      BY <3>1, <3>2
  <2>2. r.len \in Nat /\ r.step \in SUBSET Int
    BY <1>1 DEF X
  <2>3. /\ h[i].vcn = acc.vcn + r.len /\ R(i) = Append(acc.runs, one)
        /\ h[i].lcn = IF r.step = {} THEN acc.lcn ELSE acc.lcn + (CHOOSE d \in r.step : TRUE)
    <3>1. h[i] = DecodeStep({}, acc, r)
      BY <1>4
    <3> HIDE DEF acc, r
    <3>2. h[i] = [vcn  |-> acc.vcn + r.len,
                  lcn  |-> IF r.step = {} THEN acc.lcn
                           ELSE acc.lcn + (CHOOSE d \in r.step : TRUE),
                  runs |-> Append(acc.runs, one)]
      BY <3>1, Zenon DEF DecodeStep
    <3> HIDE DEF one
    <3> QED
      BY <3>2
  <2> HIDE DEF acc, r, R
  <2>4. /\ acc.vcn \in Nat /\ acc.lcn \in Int /\ acc.runs \in Seq(AnyRun) /\ Len(acc.runs) = k
        /\ \A j \in 1..k : /\ acc.runs[j].vcn = h[j - 1].vcn
                           /\ h[j].vcn = h[j - 1].vcn + acc.runs[j].len
                           /\ h[j].vcn \in Nat
    BY <2>1 DEF acc, R
  <2>5. one \in AnyRun
    BY <2>2, <2>4 DEF AnyRun
  <2>6. h[i].lcn \in Int /\ h[i].vcn \in Nat
    <3>1. r.step # {} => (CHOOSE d \in r.step : TRUE) \in Int
      BY <2>2
    <3> QED
      BY <2>2, <2>3, <2>4, <3>1
  <2> DEFINE rs == acc.runs
  <2>7. rs \in Seq(AnyRun) /\ Len(rs) = k
    BY <2>4
  <2> HIDE DEF one, rs, k
  <2>8. /\ Append(rs, one) \in Seq(AnyRun) /\ Len(Append(rs, one)) = k + 1
        /\ \A j \in 1..k : Append(rs, one)[j] = rs[j]
        /\ Append(rs, one)[k + 1] = one
    BY <2>1, <2>5, <2>7, AppendProperties
  <2>9. R(i) \in Seq(AnyRun) /\ Len(R(i)) = i /\ R(i)[i] = one /\ \A j \in 1..k : R(i)[j] = rs[j]
    BY <2>1, <2>3, <2>8 DEF rs
  <2>10. ASSUME NEW j \in 1..i
         PROVE  /\ R(i)[j].vcn = h[j - 1].vcn /\ h[j].vcn = h[j - 1].vcn + R(i)[j].len
                /\ h[j].vcn \in Nat
    <3>1. CASE j = i
      <4>1. R(i)[j].vcn = acc.vcn /\ R(i)[j].len = r.len /\ h[j - 1] = acc
        BY <2>9, <3>1 DEF one, acc, k
      <4> QED
        BY <2>3, <2>6, <3>1, <4>1
    <3>2. CASE j # i
      <4>1. j \in 1..k
        BY <2>1, <3>2
      <4> QED
        BY <2>4, <2>9, <4>1 DEF rs
    <3> QED
      BY <3>1, <3>2
  <2> QED
    BY <2>1, <2>6, <2>9, <2>10
<1>7. Good(n)
  <2> HIDE DEF T
  <2>1. \A i \in 0..n : i \in T
    BY <1>1, <1>5, <1>6, Upwards, Zenon
  <2>2. n \in T
    BY <1>1, <2>1
  <2> QED
    BY <2>2 DEF T
<1> DEFINE v == [i \in 0..n |-> h[i].vcn]
           D == DecodeRuns(list)
<1>8. D \in Seq(AnyRun) /\ Len(D) = n
  BY <1>2, <1>3, <1>7
<1>9. InTurn(D, v)
  <2>1. D = R(n)
    BY <1>2, <1>3
  <2>2. v[0] = 0 /\ v[0] \in Nat
    BY <1>1, <1>4 DEF b
  <2>3. ASSUME NEW i \in 1..n
        PROVE  v[i] \in Nat /\ D[i].vcn = v[i - 1] /\ v[i] = v[i - 1] + D[i].len
    <3>1. i \in 0..n /\ i - 1 \in 0..n
      BY <1>1
    <3>2. v[i] = h[i].vcn /\ v[i - 1] = h[i - 1].vcn
      BY <3>1
    <3> HIDE DEF D, v, R
    <3> QED
      BY <1>7, <2>1, <3>2
  <2> HIDE DEF D, v
  <2>4. \A i \in 0..n : v[i] \in Nat
    <3>1. \A i \in 0..n : i = 0 \/ i \in 1..n
      BY <1>1
    <3> QED
      BY <2>2, <2>3, <3>1
  <2> QED
    BY <1>8, <2>2, <2>3, <2>4 DEF InTurn
<1> QED
  BY <1>8, <1>9

\* What the runs hold up to max bytes, each for itself.
RunBytes(bytes, runs, max) ==
  [i \in DOMAIN runs |->
     IF runs[i].lcn = {} \/ runs[i].vcn * Block >= max THEN <<>>
     ELSE Extract(bytes, (CHOOSE l \in runs[i].lcn : TRUE) * Block,
                  Least(runs[i].len * Block, max - runs[i].vcn * Block))]

\* Runs in whole clusters are runs in bytes.
LEMMA RunOnDevice ==
  ASSUME NEW bytes, NEW r \in RunsOn(bytes), r.lcn # {}
  PROVE  LET l == CHOOSE l \in r.lcn : TRUE
         IN  /\ l \in Nat /\ (l + r.len) * Block <= Len(bytes)
             /\ l * Block \in Nat /\ r.len * Block \in Nat
             /\ l * Block + r.len * Block <= Len(bytes)
<1> DEFINE l == CHOOSE l \in r.lcn : TRUE
           k == r.len
<1>1. l \in r.lcn
  OBVIOUS
<1>2. l \in Nat /\ k \in Nat /\ (l + k) * Block <= Len(bytes) /\ Block \in Nat
  BY <1>1, DeviceAssumption DEF RunsOn
<1> HIDE DEF l, k
<1>3. l * Block \in Nat /\ k * Block \in Nat /\ (l + k) * Block = l * Block + k * Block
  BY <1>2, SMT
<1> QED
  BY <1>2, <1>3 DEF l, k

-----------------------------------------------------------------------------
(* The plan of a file of runs.                                             *)

\* The fold of RunPlan.
RunStep(max, acc, r) ==
  LET take == Least(r.len * Block, max - acc.total)
      over == Least(acc.skip, take)
  IN  IF r.lcn = {} THEN [acc EXCEPT !.total = @ + take]
      ELSE [total  |-> acc.total + take,
            skip   |-> acc.skip - over,
            chunks |-> FoldLeft(PushChunk, acc.chunks,
                         RunPieces((CHOOSE l \in r.lcn : TRUE) * Block, take, over))]
Running == INSTANCE FoldSteps WITH step <- RunStep

\* What one run holds up to max bytes of the file.
RunPart(bytes, r, max) ==
  IF r.lcn = {} \/ r.vcn * Block >= max THEN <<>>
  ELSE Extract(bytes, (CHOOSE l \in r.lcn : TRUE) * Block,
               Least(r.len * Block, max - r.vcn * Block))

\* A plan gains the take bytes at at, of which over have been read.
Gains(bytes, acc, new, part, at, take, over) ==
  /\ at \in Nat /\ take \in Nat /\ at + take <= Len(bytes) /\ over \in 0..take
  /\ over = Least(acc.skip, take)
  /\ part = Extract(bytes, at, take)
  /\ new.skip = acc.skip - over
  /\ new.chunks \in Seq(ChunksOn(bytes))
  /\ BytesOf(bytes, new.chunks)
       = BytesOf(bytes, acc.chunks) \o Extract(bytes, at + over, take - over)

\* An extract of no bytes.
LEMMA NoExtract ==
  ASSUME NEW B, NEW bytes \in Seq(B), NEW at \in Nat, at <= Len(bytes)
  PROVE  Extract(bytes, at, 0) = <<>>
<1>1. at + 0 <= Len(bytes) /\ 0 \in Nat
  BY LenProperties
<1>2. Extract(bytes, at, 0) \in Seq(B) /\ Len(Extract(bytes, at, 0)) = 0
  BY <1>1, ExtractIs
<1> HIDE DEF Extract
<1> QED
  BY <1>2, EmptySeq

\* One run extends a plan by what the run holds, without what has been read.
LEMMA OneRun ==
  ASSUME NEW B, NEW bytes \in Seq(B), NEW r \in RunsOn(bytes), NEW max \in Nat,
         NEW acc \in [total : Nat, skip : Nat, chunks : Seq(ChunksOn(bytes))],
         acc.total = Least(r.vcn * Block, max), acc.skip <= Block,
         acc.skip # 0 /\ r.lcn # {} => acc.skip < Least(r.len * Block, max - r.vcn * Block),
         NEW new, new = RunStep(max, acc, r)
  PROVE  /\ new.total = Least(r.vcn * Block + r.len * Block, max)
         /\ new \in [total : Nat, skip : Nat, chunks : Seq(ChunksOn(bytes))]
         /\ new.skip <= acc.skip /\ (new.skip = 0 \/ r.lcn = {})
         /\ \E at, take, over : Gains(bytes, acc, new, RunPart(bytes, r, max), at, take, over)
<1> DEFINE CO == ChunksOn(bytes)
           cs == acc.chunks
           V == r.vcn * Block
           L == r.len * Block
           take == Least(L, max - acc.total)
           over == Least(acc.skip, take)
<1>1. V \in Nat /\ L \in Nat
  <2> DEFINE a == r.vcn
             b == r.len
  <2>1. a \in Nat /\ b \in Nat /\ Block \in Nat
    BY DeviceAssumption DEF RunsOn
  <2> HIDE DEF a, b
  <2>2. a * Block \in Nat /\ b * Block \in Nat
    BY <2>1, SMT
  <2> QED
    BY <2>2 DEF a, b
<1>2. /\ acc.total \in Nat /\ acc.skip \in Nat /\ cs \in Seq(CO) /\ Block \in Nat
      /\ acc.total = Least(V, max) /\ acc.skip <= Block
      /\ acc.skip # 0 /\ r.lcn # {} => acc.skip < Least(L, max - V)
  BY DeviceAssumption
<1>3. acc = [total |-> acc.total, skip |-> acc.skip, chunks |-> cs]
  OBVIOUS
<1>4. new = IF r.lcn = {} THEN [acc EXCEPT !.total = @ + take]
            ELSE [total  |-> acc.total + take, skip |-> acc.skip - over,
                  chunks |-> FoldLeft(PushChunk, cs,
                               RunPieces((CHOOSE l \in r.lcn : TRUE) * Block, take, over))]
  BY DEF RunStep
<1>5. RunPart(bytes, r, max) = IF r.lcn = {} \/ V >= max THEN <<>>
         ELSE Extract(bytes, (CHOOSE l \in r.lcn : TRUE) * Block, Least(L, max - V))
  BY DEF RunPart
<1> HIDE DEF V, L, CO, cs
<1>6. /\ take \in Nat /\ acc.total + take = Least(V + L, max) /\ acc.total + take \in Nat
      /\ over \in 0..take /\ over <= acc.skip /\ take <= L
      /\ V >= max => take = 0
      /\ V < max => take = Least(L, max - V)
      /\ r.lcn # {} => over = acc.skip /\ (over < take \/ (take = 0 /\ over = 0))
  <2> DEFINE p == acc.total
             s == acc.skip
  <2>1. /\ p \in Nat /\ s \in Nat /\ p = Least(V, max) /\ V \in Nat /\ L \in Nat /\ max \in Nat
        /\ s # 0 /\ r.lcn # {} => s < Least(L, max - V)
        /\ take = Least(L, max - p) /\ over = Least(s, take)
    BY <1>1, <1>2
  <2> HIDE DEF p, s, take, over
  <2>2. /\ p = (IF V <= max THEN V ELSE max) /\ p <= max
        /\ take = (IF L <= max - p THEN L ELSE max - p)
    BY ONLY <2>1 DEF Least
  <2>3. take \in Nat /\ take <= L /\ (V >= max => take = 0)
        /\ (V < max => take = Least(L, max - V)) /\ p + take = Least(V + L, max)
    BY ONLY <2>1, <2>2 DEF Least
  <2>4. over \in 0..take /\ over <= s
    BY ONLY <2>1, <2>3 DEF Least
  <2>5. ASSUME r.lcn # {} PROVE over = s /\ (over < take \/ (take = 0 /\ over = 0))
    <3>1. s = 0 \/ s < Least(L, max - V)
      BY <2>1, <2>5
    <3>2. s = 0 \/ s < take
      BY ONLY <2>1, <2>3, <3>1 DEF Least
    <3>3. over = IF s <= take THEN s ELSE take
      BY ONLY <2>1 DEF Least
    <3>4. s \in Nat /\ take \in Nat
      BY ONLY <2>1, <2>3
    <3> QED
      BY ONLY <3>2, <3>3, <3>4
  <2> QED
    BY <2>1, <2>3, <2>4, <2>5 DEF p, s
<1> HIDE DEF take, over
<1>7. CASE r.lcn = {}
  <2>1. new = [total |-> acc.total + take, skip |-> acc.skip, chunks |-> cs]
    BY <1>3, <1>4, <1>7
  <2>2. RunPart(bytes, r, max) = <<>>
    BY <1>5, <1>7
  <2>3. Extract(bytes, 0, 0) = <<>> /\ Len(bytes) \in Nat
    BY NoExtract, LenProperties
  <2>4. BytesOf(bytes, cs) \o <<>> = BytesOf(bytes, cs)
    <3>1. BytesOf(bytes, cs) \in Seq(B)
      BY <1>2, ExtractsType DEF CO
    <3> QED
      BY <3>1, ConcatEmptySeq
  <2>5. Gains(bytes, acc, new, RunPart(bytes, r, max), 0, 0, 0)
    <3>1. 0 + 0 = 0 /\ 0 - 0 = 0 /\ 0 \in 0..0 /\ 0 <= Len(bytes) /\ Least(acc.skip, 0) = 0
          /\ acc.skip - 0 = acc.skip
      BY <1>2, <2>3 DEF Least
    <3>2. new.skip = acc.skip /\ new.chunks = cs /\ cs = acc.chunks
      BY <2>1 DEF cs
    <3>3. Extract(bytes, 0 + 0, 0 - 0) = <<>>
      BY <2>3, <3>1
    <3> QED
      BY <1>2, <2>2, <2>3, <2>4, <3>1, <3>2, <3>3, Zenon DEF Gains, CO
  <2> QED
    BY <1>2, <1>6, <1>7, <2>1, <2>5 DEF V, L, CO
<1>8. CASE r.lcn # {}
  <2> DEFINE at == (CHOOSE l \in r.lcn : TRUE) * Block
             ps == RunPieces(at, take, over)
             ds == FoldLeft(PushChunk, cs, ps)
  <2>1. at \in Nat /\ at + L <= Len(bytes)
    BY <1>8, RunOnDevice, Zenon DEF L
  <2>2. new = [total |-> acc.total + take, skip |-> acc.skip - over, chunks |-> ds]
    BY <1>4, <1>8
  <2>3. V >= max => RunPart(bytes, r, max) = <<>>
    BY <1>5
  <2>4. V < max => RunPart(bytes, r, max) = Extract(bytes, at, take)
    <3>1. ASSUME V < max PROVE ~ V >= max
      BY <1>1, <1>2, <3>1
    <3>2. ASSUME V < max PROVE RunPart(bytes, r, max) = Extract(bytes, at, Least(L, max - V))
      BY <1>5, <1>8, <3>1, <3>2
    <3> QED
      BY <1>6, <3>2
  <2> HIDE DEF at, ps, ds
  <2>5. at + take <= Len(bytes) /\ at <= Len(bytes) /\ Len(bytes) \in Nat
    BY <1>1, <1>6, <2>1, LenProperties
  <2>6. RunPart(bytes, r, max) = Extract(bytes, at, take)
    <3>1. V >= max => take = 0 /\ Extract(bytes, at, 0) = <<>>
      BY <1>6, <2>1, <2>5, NoExtract
    <3>2. V >= max \/ V < max
      BY <1>1
    <3> QED
      BY <2>3, <2>4, <3>1, <3>2
  <2>7. /\ ps \in Seq(CO)
        /\ BytesOf(bytes, ps) = Extract(bytes, at + over, take - over)
    <3>1. over \in Nat /\ over <= Block /\ (over < take \/ (take = 0 /\ over = 0))
      BY <1>2, <1>6, <1>8
    <3> QED
      BY <1>6, <2>1, <2>5, <3>1, RunPiecesBytes DEF ps, CO
  <2>8. ds \in Seq(CO) /\ BytesOf(bytes, ds) = BytesOf(bytes, cs) \o BytesOf(bytes, ps)
    BY <1>2, <2>7, PushedBytes, Zenon DEF ds, CO
  <2>9. /\ new.total = acc.total + take /\ new.skip = acc.skip - over /\ new.chunks = ds
        /\ acc.skip - over = 0
    BY <1>2, <1>6, <1>8, <2>2
  <2>10. Gains(bytes, acc, new, RunPart(bytes, r, max), at, take, over)
    BY <1>6, <2>1, <2>5, <2>6, <2>7, <2>8, <2>9 DEF Gains, CO, cs, over
  <2>11. new \in [total : Nat, skip : Nat, chunks : Seq(CO)]
    BY <1>6, <2>2, <2>8, <2>9
  <2> QED
    BY <1>2, <1>6, <1>8, <2>9, <2>10, <2>11 DEF V, L, CO
<1> QED
  BY <1>7, <1>8

\* What a run holds are bytes of the device.
LEMMA RunPartIn ==
  ASSUME NEW B, NEW bytes \in Seq(B), NEW r \in RunsOn(bytes), NEW max \in Nat
  PROVE  RunPart(bytes, r, max) \in Seq(B)
<1> DEFINE V == r.vcn * Block
           L == r.len * Block
           l == CHOOSE l \in r.lcn : TRUE
<1>1. V \in Nat
  <2> DEFINE a == r.vcn
  <2>1. a \in Nat /\ Block \in Nat
    BY DeviceAssumption DEF RunsOn
  <2> HIDE DEF a
  <2>2. a * Block \in Nat
    BY <2>1, SMT
  <2> QED
    BY <2>2 DEF a
<1>2. CASE r.lcn = {} \/ V >= max
  BY <1>2, EmptySeq DEF RunPart
<1>3. CASE r.lcn # {} /\ ~ V >= max
  <2>1. RunPart(bytes, r, max) = Extract(bytes, l * Block, Least(L, max - V))
    BY <1>3 DEF RunPart
  <2>2. l * Block \in Nat /\ L \in Nat /\ l * Block + L <= Len(bytes)
    BY <1>3, RunOnDevice, Zenon
  <2> DEFINE at == l * Block
             m == Least(L, max - V)
  <2> HIDE DEF L, V, at
  <2>3. m \in Nat /\ at + m <= Len(bytes)
    BY <1>1, <1>3, <2>2, LenProperties DEF Least, at
  <2> HIDE DEF m
  <2> QED
    BY <2>1, <2>2, <2>3, ExtractIs DEF at, m
<1> QED
  BY <1>2, <1>3

\* What the runs hold, one by one.
LEMMA RunBytesType ==
  ASSUME NEW B, NEW bytes \in Seq(B), NEW runs \in Seq(RunsOn(bytes)), NEW max \in Nat
  PROVE  /\ RunBytes(bytes, runs, max) \in Seq(Seq(B))
         /\ Len(RunBytes(bytes, runs, max)) = Len(runs)
         /\ \A i \in 1..Len(runs) : RunBytes(bytes, runs, max)[i] = RunPart(bytes, runs[i], max)
<1> DEFINE n == Len(runs)
           es == RunBytes(bytes, runs, max)
<1>1. n \in Nat /\ DOMAIN runs = 1..n /\ \A i \in 1..n : runs[i] \in RunsOn(bytes)
  BY LenProperties, ElementOfSeq
<1>2. es = [i \in 1..n |-> RunPart(bytes, runs[i], max)]
  BY <1>1 DEF RunBytes, RunPart
<1> HIDE DEF n, es
<1>3. \A i \in 1..n : RunPart(bytes, runs[i], max) \in Seq(B)
  BY <1>1, RunPartIn
<1>4. es \in [1..n -> Seq(B)]
  BY <1>2, <1>3
<1>5. es \in Seq(Seq(B)) /\ Len(es) = n
  BY <1>1, <1>4, SeqDef
<1> QED
  BY <1>2, <1>5 DEF n, es

\* The first run that is no hole holds more than skip bytes.
ReadBefore(runs, max, skip) ==
  \A k \in 1..Len(runs) :
    /\ runs[k].lcn # {} /\ (\A j \in 1..(k - 1) : runs[j].lcn = {})
    /\ skip # 0
    => skip < Least(runs[k].len * Block, max - runs[k].vcn * Block)

\* After a step, the total of the plan is that of the text.
LEMMA StepGrows ==
  ASSUME NEW B, NEW bytes \in Seq(B), NEW t \in Seq(B), NEW skip \in Nat,
         NEW acc, NEW new, NEW part, NEW at, NEW take, NEW over,
         Gains(bytes, acc, new, part, at, take, over), acc.skip = LeftOf(skip, t),
         BytesOf(bytes, acc.chunks) = RestFrom(t, skip)
  PROVE  /\ new.skip = LeftOf(skip, t \o part)
         /\ BytesOf(bytes, new.chunks) = RestFrom(t \o part, skip)
<1>1. /\ at \in Nat /\ take \in Nat /\ at + take <= Len(bytes)
      /\ over = Least(LeftOf(skip, t), take) /\ part = Extract(bytes, at, take)
      /\ new.skip = LeftOf(skip, t) - over
  BY DEF Gains
<1>2. /\ BytesOf(bytes, new.chunks)
           = BytesOf(bytes, acc.chunks) \o Extract(bytes, at + over, take - over)
  BY DEF Gains
<1>3. Grown(bytes, t, at, take, skip, over)
  BY ONLY bytes \in Seq(B), t \in Seq(B), skip \in Nat, <1>1, GrowsTo
<1>4. BytesOf(bytes, new.chunks) = RestFrom(t \o part, skip)
  BY <1>1, <1>2, <1>3 DEF Grown
<1>5. part \in Seq(B) /\ Len(part) = take
  BY <1>1, ExtractIs
<1>6. Len(t) \in Nat /\ Len(t \o part) = Len(t) + take
  BY <1>5, ConcatProperties, LenProperties, Zenon
<1> DEFINE l == Len(t)
<1>7. l \in Nat /\ take \in Nat /\ skip \in Nat /\ over = Least(skip - Least(skip, l), take)
      /\ new.skip = (skip - Least(skip, l)) - over
  BY <1>1, <1>6 DEF LeftOf
<1> HIDE DEF l
<1>8. new.skip = skip - Least(skip, l + take)
  BY ONLY <1>7 DEF Least
<1> QED
  BY <1>4, <1>6, <1>8 DEF LeftOf, l

\* RunPlanBytes: the chunks planned for a file of runs stand for what its runs
\* hold up to max bytes of the file, in order and each once, without the skip
\* bytes that the probe has read; when these are less than what the first run
\* that is no hole holds (collect_file_chunks).
THEOREM RunPlanBytes ==
  ASSUME NEW B, NEW bytes \in Seq(B), NEW runs \in Seq(RunsOn(bytes)), NEW v,
         InTurn(runs, v), NEW max \in Nat, NEW skip \in Nat, skip <= Block,
         ReadBefore(runs, max, skip)
  PROVE  /\ RunPlan(runs, max, skip) \in Seq(ChunksOn(bytes))
         /\ BytesOf(bytes, RunPlan(runs, max, skip))
              = RestFrom(FlattenSeq(RunBytes(bytes, runs, max)), skip)
<1> DEFINE n == Len(runs)
           CO == ChunksOn(bytes)
           es == RunBytes(bytes, runs, max)
           b == [total |-> 0, skip |-> skip, chunks |-> <<>>]
<1>1. n \in Nat /\ DOMAIN runs = 1..n /\ \A i \in 1..n : runs[i] \in RunsOn(bytes)
  BY LenProperties, ElementOfSeq
<1>2. RunPlan(runs, max, skip) = Running!Fold(max, b, runs).chunks
  BY DEF RunPlan, Running!Fold, RunStep, FoldLeft, MapThenFoldSet, Max,
         Running!Greatest
<1> HIDE DEF b
<1>3. PICK h : Running!IsFold(max, b, runs, h) /\ Running!Fold(max, b, runs) = h[n]
  BY <1>1, Running!FoldIs
<1>4. h[0] = b /\ \A i \in 1..n : h[i] = RunStep(max, h[i - 1], runs[i])
  BY <1>3, Zenon DEF Running!IsFold
<1>5. /\ es \in Seq(Seq(B)) /\ Len(es) = n
      /\ \A i \in 1..n : es[i] = RunPart(bytes, runs[i], max)
  BY RunBytesType
<1> HIDE DEF es, CO
<1>6. PICK g : IsFlattening(B, es, g)
  BY <1>5, FlatteningExists
<1>7. FlattenSeq(es) = g[n]
  BY <1>5, <1>6, FlatteningIs
<1>8. /\ g[0] = <<>> /\ \A i \in 1..n : g[i] = g[i - 1] \o es[i]
      /\ \A i \in 0..n : g[i] \in Seq(B)
  BY <1>5, <1>6 DEF IsFlattening
<1> DEFINE Holes(i) == \A j \in 1..i : runs[j].lcn = {}
           Good(i) == /\ h[i] \in [total : Nat, skip : Nat, chunks : Seq(CO)]
                      /\ h[i].total = Least(v[i] * Block, max)
                      /\ h[i].skip = LeftOf(skip, g[i]) /\ h[i].skip <= skip
                      /\ BytesOf(bytes, h[i].chunks) = RestFrom(g[i], skip)

                      /\ h[i].skip # 0 => Holes(i)
           T == {i \in 0..n : Good(i)}
<1>9. 0 \in T
  <2>1. h[0].total = 0 /\ h[0].skip = skip /\ h[0].chunks = <<>>
    BY <1>4 DEF b
  <2>2. <<>> \in Seq(CO) /\ BytesOf(bytes, <<>>) = <<>>
    BY NoChunk DEF CO
  <2>3. h[0] \in [total : Nat, skip : Nat, chunks : Seq(CO)]
    BY <1>4, <2>2 DEF b
  <2>4. RestFrom(<<>>, skip) = <<>>
    <3>1. <<>> \in Seq(B) /\ skip >= Len(<<>>)
      BY EmptySeq
    <3> QED
      BY <3>1, RestSmall, Zenon
  <2>5. LeftOf(skip, <<>>) = skip
    BY EmptySeq DEF LeftOf, Least
  <2>6. v[0] * Block = 0 /\ Least(0, max) = 0
    BY DeviceAssumption DEF InTurn, Least
  <2>7. Holes(0) /\ 0 \in 0..n /\ skip <= skip
    BY <1>1
  <2> HIDE DEF Holes
  <2> QED
    BY <1>8, <2>1, <2>2, <2>3, <2>4, <2>5, <2>6, <2>7
<1>10. ASSUME NEW i \in 1..n, i - 1 \in T PROVE i \in T
  <2>1. i \in 0..n /\ i - 1 \in 0..n
    BY <1>1
  <2> HIDE DEF Good
  <2>2. Good(i - 1)
    BY <1>10
  <2> DEFINE acc == h[i - 1]
             new == h[i]
             r == runs[i]
             t == g[i - 1]
             part == RunPart(bytes, r, max)
  <2>3. /\ r \in RunsOn(bytes) /\ r.vcn = v[i - 1] /\ v[i] = v[i - 1] + r.len
        /\ r.vcn \in Nat /\ r.len \in Nat
    BY <1>1 DEF InTurn, RunsOn
  <2>4. /\ acc \in [total : Nat, skip : Nat, chunks : Seq(CO)]
        /\ acc.total = Least(r.vcn * Block, max)
        /\ acc.skip = LeftOf(skip, t) /\ acc.skip <= skip
        /\ BytesOf(bytes, acc.chunks) = RestFrom(t, skip)
        /\ acc.skip # 0 => Holes(i - 1)
    BY <2>2, <2>3 DEF Good
  <2>5. new = RunStep(max, acc, r)
    BY <1>4
  <2>6. t \in Seq(B) /\ g[i] = t \o part
    BY <1>5, <1>8, <2>1, Zenon
  <2>7. acc.skip # 0 /\ r.lcn # {} => acc.skip < Least(r.len * Block, max - r.vcn * Block)
    <3> DEFINE m == Least(r.len * Block, max - r.vcn * Block)
    <3>1. SUFFICES ASSUME acc.skip # 0, r.lcn # {} PROVE acc.skip < m
      OBVIOUS
    <3>2. Holes(i - 1) /\ acc.skip \in Nat /\ acc.skip <= skip
      BY <2>4, <3>1
    <3>3. skip # 0
      BY <3>1, <3>2
    <3>4. skip < m
      BY <1>1, <3>1, <3>2, <3>3 DEF ReadBefore
    <3>5. m \in Int
      BY <2>3, DeviceAssumption DEF Least
    <3> HIDE DEF m, acc
    <3> QED
      BY <3>2, <3>4, <3>5
  <2> HIDE DEF acc, new, r, t, part
  <2>8. acc.skip \in Nat /\ acc.skip <= Block
    BY <2>4, DeviceAssumption
  <2>9. /\ new.total = Least(r.vcn * Block + r.len * Block, max)
        /\ new \in [total : Nat, skip : Nat, chunks : Seq(CO)]
        /\ new.skip <= acc.skip /\ (new.skip = 0 \/ r.lcn = {})
        /\ \E at, take, over : Gains(bytes, acc, new, RunPart(bytes, r, max), at, take, over)
    <3>1. /\ acc \in [total : Nat, skip : Nat, chunks : Seq(ChunksOn(bytes))]
          /\ acc.total = Least(r.vcn * Block, max) /\ acc.skip <= Block
          /\ r \in RunsOn(bytes)
      BY <2>3, <2>4, <2>8 DEF CO
    <3>2. /\ bytes \in Seq(B) /\ max \in Nat
          /\ acc.skip # 0 /\ r.lcn # {} => acc.skip < Least(r.len * Block, max - r.vcn * Block)
      BY <2>7
    <3> QED
      BY ONLY <2>5, <3>1, <3>2, OneRun DEF CO
  <2>10. PICK at, take, over : Gains(bytes, acc, new, part, at, take, over)
    BY <2>9 DEF part
  <2>11. /\ new.skip = LeftOf(skip, g[i])
         /\ BytesOf(bytes, new.chunks) = RestFrom(g[i], skip)
    BY <2>4, <2>6, <2>10, StepGrows
  <2>12. r.vcn * Block + r.len * Block = v[i] * Block
    <3> DEFINE a == r.vcn
               c == r.len
    <3>1. a \in Nat /\ c \in Nat /\ v[i] = a + c /\ Block \in Nat
      BY <2>3, DeviceAssumption
    <3> HIDE DEF a, c
    <3>2. a * Block + c * Block = (a + c) * Block
      BY <3>1, SMT
    <3> QED
      BY <3>1, <3>2 DEF a, c
  <2>13. new.skip <= skip
    <3>1. new.skip \in Nat /\ new.skip <= acc.skip /\ acc.skip \in Nat /\ acc.skip <= skip
      BY <2>4, <2>8, <2>9
    <3> QED
      BY <3>1
  <2>14. new.skip # 0 => Holes(i)
    <3>1. SUFFICES ASSUME new.skip # 0 PROVE Holes(i)
      OBVIOUS
    <3>2. r.lcn = {} /\ acc.skip # 0
      BY <2>4, <2>9, <3>1
    <3>3. Holes(i - 1)
      BY <2>4, <3>2
    <3>4. \A j \in 1..i : j = i \/ j \in 1..(i - 1)
      BY <2>1
    <3> QED
      BY <3>2, <3>3, <3>4 DEF r
  <2>15. Good(i)
    <3> HIDE DEF Holes
    <3> QED
      BY <2>9, <2>11, <2>12, <2>13, <2>14 DEF Good, new
  <2> QED
    BY <2>1, <2>15
<1>11. Good(n)
  <2> HIDE DEF T
  <2>1. \A i \in 0..n : i \in T
    BY <1>1, <1>9, <1>10, Upwards, Zenon
  <2>2. n \in T
    BY <1>1, <2>1
  <2> QED
    BY <2>2 DEF T
<1> QED
  BY <1>2, <1>3, <1>7, <1>11 DEF CO, es

-----------------------------------------------------------------------------
(* A file on NTFS.                                                         *)

\* Where a run is, up to max bytes of the file.
RunPlace(r, max) ==
  IF r.lcn = {} \/ r.vcn * Block >= max THEN <<>>
  ELSE FirstOf(Stretch(CHOOSE l \in r.lcn : TRUE, r.len), max - r.vcn * Block)

\* What a run holds are the bytes at its places.
LEMMA RunPlaceIs ==
  ASSUME NEW B, NEW bytes \in Seq(B), NEW r \in RunsOn(bytes), NEW max \in Nat
  PROVE  /\ RunPlace(r, max) \in Seq(PlacesOn(bytes))
         /\ RunPart(bytes, r, max) = Mapped(bytes, RunPlace(r, max))
<1> DEFINE V == r.vcn * Block
           l == CHOOSE l \in r.lcn : TRUE
           len == r.len
           rest == max - V
<1>1. V \in Nat /\ len \in Nat
  <2> DEFINE a == r.vcn
  <2>1. a \in Nat /\ len \in Nat /\ Block \in Nat
    BY DeviceAssumption DEF RunsOn
  <2> HIDE DEF a
  <2>2. a * Block \in Nat
    BY <2>1, SMT
  <2> QED
    BY <2>1, <2>2 DEF a
<1>2. CASE r.lcn = {} \/ V >= max
  <2>1. RunPlace(r, max) = <<>> /\ RunPart(bytes, r, max) = <<>>
    BY <1>2 DEF RunPlace, RunPart
  <2>2. Mapped(bytes, <<>>) = <<>>
    BY DEF Mapped
  <2> QED
    BY <2>1, <2>2, EmptySeq
<1>3. CASE r.lcn # {} /\ ~ V >= max
  <2>1. /\ RunPlace(r, max) = FirstOf(Stretch(l, len), rest)
        /\ RunPart(bytes, r, max) = Extract(bytes, l * Block, Least(len * Block, rest))
    BY <1>3 DEF RunPlace, RunPart
  <2>2. l \in Nat /\ (l + len) * Block <= Len(bytes)
    BY <1>3, RunOnDevice
  <2>3. rest \in Nat
    BY <1>1, <1>3
  <2> HIDE DEF l, len, rest
  <2>4. /\ Stretch(l, len) \in Seq(PlacesOn(bytes))
        /\ l * Block \in Nat /\ len * Block \in Nat /\ l * Block + len * Block <= Len(bytes)
        /\ Mapped(bytes, Stretch(l, len)) = Extract(bytes, l * Block, len * Block)
    BY <1>1, <2>2, StretchBytes
  <2> DEFINE s == Stretch(l, len)
             x == l * Block
             y == len * Block
  <2>5. s \in Seq(PlacesOn(bytes)) /\ x \in Nat /\ y \in Nat /\ x + y <= Len(bytes)
        /\ Mapped(bytes, s) = Extract(bytes, x, y)
    BY <2>4
  <2> HIDE DEF s, x, y
  <2>6. FirstOf(s, rest) \in Seq(PlacesOn(bytes))
        /\ Mapped(bytes, FirstOf(s, rest)) = FirstOf(Mapped(bytes, s), rest)
    BY <2>3, <2>5, MappedFirst, Zenon
  <2>7. FirstOf(Extract(bytes, x, y), rest) = Extract(bytes, x, Least(y, rest))
    BY <2>3, <2>5, FirstOfExtract
  <2> QED
    BY <2>1, <2>5, <2>6, <2>7 DEF s, x, y
<1> QED
  BY <1>2, <1>3

\* The places of a file of runs are those of its runs, and so are its bytes.
LEMMA RunPlacesBytes ==
  ASSUME NEW B, NEW bytes \in Seq(B), NEW runs \in Seq(RunsOn(bytes)), NEW max \in Nat
  PROVE  /\ RunPlaces(runs, max) \in Seq(PlacesOn(bytes))
         /\ Mapped(bytes, RunPlaces(runs, max)) = FlattenSeq(RunBytes(bytes, runs, max))
<1> DEFINE n == Len(runs)
           es == RunBytes(bytes, runs, max)
           ps == [i \in DOMAIN runs |-> RunPlace(runs[i], max)]
           P == PlacesOn(bytes)
<1>1. n \in Nat /\ DOMAIN runs = 1..n /\ \A i \in 1..n : runs[i] \in RunsOn(bytes)
  BY LenProperties, ElementOfSeq
<1>2. RunPlaces(runs, max) = FlattenSeq(ps)
  BY DEF RunPlaces, RunPlace
<1>3. /\ es \in Seq(Seq(B)) /\ Len(es) = n
      /\ \A i \in 1..n : es[i] = RunPart(bytes, runs[i], max)
  BY RunBytesType
<1> HIDE DEF n, es, P
<1>4. ps = [i \in 1..n |-> RunPlace(runs[i], max)]
  BY <1>1
<1>5. \A i \in 1..n : /\ RunPlace(runs[i], max) \in Seq(P)
                      /\ RunPart(bytes, runs[i], max) = Mapped(bytes, RunPlace(runs[i], max))
  BY <1>1, RunPlaceIs DEF P
<1> HIDE DEF ps
<1>6. ps \in [1..n -> Seq(P)]
  BY <1>4, <1>5
<1>7. ps \in Seq(Seq(P)) /\ Len(ps) = n
  BY <1>1, <1>6, SeqDef
<1>8. EachMapped(bytes, ps, es)
  BY <1>3, <1>4, <1>5, <1>7 DEF EachMapped
<1>9. ps \in Seq(Seq(PlacesOn(bytes))) /\ bytes \in Seq(B) /\ es \in Seq(Seq(B))
  BY <1>3, <1>7 DEF P
<1>10. /\ FlattenSeq(ps) \in Seq(PlacesOn(bytes))
       /\ Mapped(bytes, FlattenSeq(ps)) = FlattenSeq(es)
  BY ONLY <1>8, <1>9, MappedFlatten
<1> QED
  BY <1>2, <1>10 DEF es

\* The runs of a file that is formed lie on the device, one after the other.
LEMMA FormedRuns ==
  ASSUME NEW n, n.kind = "runs", FileFormed(n)
  PROVE  /\ DecodeRuns(n.runs) \in Seq(RunsOn(img.bytes))
         /\ \E v : InTurn(DecodeRuns(n.runs), v)
<1> DEFINE D == DecodeRuns(n.runs)
           l == Len(D)
<1>1. /\ n.runs \in Seq([len : Nat, step : SUBSET Int])
      /\ \A r \in Range(D) : \A c \in r.lcn : c \in Nat /\ (c + r.len) * Block <= Len(img.bytes)
  BY DEF FileFormed
<1>2. D \in Seq(AnyRun) /\ \E v : InTurn(D, v)
  BY <1>1, DecodedIs
<1> HIDE DEF D
<1>3. l \in Nat /\ DOMAIN D = 1..l /\ D = [i \in 1..l |-> D[i]] /\ \A i \in 1..l : D[i] \in AnyRun
  BY <1>2, LenProperties, ElementOfSeq
<1>4. ASSUME NEW i \in 1..l PROVE D[i] \in RunsOn(img.bytes)
  <2>1. D[i] \in Range(D) /\ D[i] \in AnyRun
    BY <1>3 DEF Range
  <2> QED
    BY <1>1, <2>1 DEF AnyRun, RunsOn
<1>5. D \in [1..l -> RunsOn(img.bytes)]
  BY <1>3, <1>4
<1>6. D \in Seq(RunsOn(img.bytes))
  BY <1>3, <1>5, SeqDef
<1> QED
  BY <1>2, <1>6 DEF D

\* The content of a file of runs.
LEMMA NtfsContent ==
  ASSUME DeviceFormed, NEW n, n.kind = "runs", FileFormed(n), NEW max \in Nat
  PROVE  ContentTo(n, max) = FlattenSeq(RunBytes(img.bytes, DecodeRuns(n.runs), max))
<1> DEFINE D == DecodeRuns(n.runs)
<1>1. ContentTo(n, max) = Mapped(img.bytes, RunPlaces(D, max))
  BY DEF ContentTo, Places, BytesAt, Mapped
<1>2. D \in Seq(RunsOn(img.bytes)) /\ img.bytes \in Seq(Range(img.bytes))
  BY FormedRuns DEF DeviceFormed
<1> HIDE DEF D
<1>3. Mapped(img.bytes, RunPlaces(D, max)) = FlattenSeq(RunBytes(img.bytes, D, max))
  BY <1>2, RunPlacesBytes
<1> QED
  BY <1>1, <1>3 DEF D

\* Concatenation is associative for texts that begin with e.
Regroups(B, e) == \A y, z \in Seq(B) : (e \o y) \o z = e \o (y \o z)

\* Concatenation is associative for every text.
LEMMA AllRegroup == ASSUME NEW B, NEW e \in Seq(B) PROVE Regroups(B, e)
BY Regrouped DEF Regroups

\* Texts before the k-th that are empty add nothing: what begins the k-th begins
\* all of them.
LEMMA FlattenFrom ==
  ASSUME NEW B, NEW es \in Seq(Seq(B)), NEW k \in 1..Len(es),
         \A j \in 1..(k - 1) : es[j] = <<>>
  PROVE  \E r \in Seq(B) : FlattenSeq(es) = es[k] \o r
<1> DEFINE n == Len(es)
           e == es[k]
<1>1. n \in Nat /\ k \in 1..n /\ \A i \in 1..n : es[i] \in Seq(B)
  BY LenProperties, ElementOfSeq
<1>2. PICK g : IsFlattening(B, es, g)
  BY FlatteningExists
<1>3. FlattenSeq(es) = g[n]
  BY <1>2, FlatteningIs
<1>4. /\ g[0] = <<>> /\ \A i \in 1..n : g[i] = g[i - 1] \o es[i]
      /\ \A i \in 0..n : g[i] \in Seq(B)
  BY <1>2, Zenon DEF IsFlattening
<1>5. e \in Seq(B)
  BY <1>1
<1> HIDE DEF n, e
<1>5a. \A y, z \in Seq(B) : (e \o y) \o z = e \o (y \o z)
  <2>1. Regroups(B, e)
    BY ONLY <1>5, AllRegroup
  <2> QED
    BY <2>1, Zenon DEF Regroups
<1> DEFINE Good(i) == IF i < k THEN g[i] = <<>> ELSE \E r \in Seq(B) : g[i] = e \o r
           T == {i \in 0..n : Good(i)}
<1>6. 0 \in T
  BY <1>1, <1>4
<1>7. ASSUME NEW i \in 1..n, i - 1 \in T PROVE i \in T
  <2>0. i \in 0..n /\ i \in Nat /\ k \in Nat /\ i - 1 \in Nat
    BY <1>1
  <2>1. /\ i \in 0..n /\ i \in Nat /\ k \in Nat /\ i - 1 \in Nat
        /\ i - 1 < k => g[i - 1] = <<>>
        /\ ~ i - 1 < k => \E r \in Seq(B) : g[i - 1] = e \o r
    <3> HIDE DEF Good
    <3>1. Good(i - 1)
      BY <1>7
    <3> QED
      BY <2>0, <3>1, Zenon DEF Good
  <2>2. g[i] = g[i - 1] \o es[i] /\ es[i] \in Seq(B)
    BY <1>1, <1>4, Zenon
  <2>3. CASE i < k
    <3>1. i \in 1..(k - 1) /\ i - 1 < k
      BY <2>1, <2>3
    <3>2. es[i] = <<>> /\ g[i - 1] = <<>>
      BY <2>1, <3>1
    <3>3. g[i] = <<>>
      BY <2>2, <3>2, ConcatEmptySeq, EmptySeq
    <3> QED
      BY <2>1, <2>3, <3>3
  <2>4. CASE i = k
    <3>1. g[i - 1] = <<>> /\ es[i] = e
      BY <2>1, <2>4 DEF e
    <3>2. g[i] = e /\ e = e \o <<>> /\ <<>> \in Seq(B)
      BY <1>5, <2>2, <3>1, ConcatEmptySeq, EmptySeq
    <3>3. ~ i < k
      BY <2>1, <2>4
    <3>4. Good(i)
      BY <3>2, <3>3, Zenon
    <3> QED
      BY <2>1, <3>4, Zenon
  <2>5. CASE i > k
    <3>1. ~ i < k /\ ~ i - 1 < k
      BY <2>1, <2>5
    <3>2. PICK r \in Seq(B) : g[i - 1] = e \o r
      BY <2>1, <3>1, Zenon
    <3> DEFINE x == es[i]
    <3>3. x \in Seq(B) /\ g[i] = (e \o r) \o x
      BY <2>2, <3>2
    <3> HIDE DEF x
    <3>4. r \o x \in Seq(B)
      BY <3>3, ConcatProperties
    <3>5. (e \o r) \o x = e \o (r \o x)
      <4>1. e \in Seq(B) /\ r \in Seq(B) /\ x \in Seq(B)
        BY <1>5, <3>2, <3>3
      <4> QED
        BY <1>5a, <4>1, Zenon
    <3>6. Good(i)
      BY <3>1, <3>3, <3>4, <3>5, Zenon
    <3> QED
      BY <2>1, <3>6, Zenon
  <2>6. i < k \/ i = k \/ i > k
    BY <2>0
  <2> HIDE DEF T
  <2> QED
    BY <2>3, <2>4, <2>5, <2>6
<1>8. Good(n)
  <2> HIDE DEF T
  <2>1. \A i \in 0..n : i \in T
    BY <1>1, <1>6, <1>7, Upwards, Zenon
  <2>2. n \in T
    BY <1>1, <2>1
  <2> QED
    BY <2>2, Zenon DEF T
<1>9. ~ n < k
  BY <1>1
<1> QED
  BY <1>3, <1>8, <1>9 DEF e

\* The head of a file of runs: the probe read nothing, or the beginning of the
\* first run that is no hole.
RunHeadGood(runs, max, head) ==
  /\ head \in Seq(Range(img.bytes)) /\ Len(head) <= Block
  /\ ReadBefore(runs, max, Len(head))
  /\ head = FirstOf(FlattenSeq(RunBytes(img.bytes, runs, max)), Len(head))

\* A head that is the beginning of the file, and the chunks planned after it.
LEMMA HeadAndRuns ==
  ASSUME img.bytes \in Seq(Range(img.bytes)), NEW runs \in Seq(RunsOn(img.bytes)),
         \E v : InTurn(runs, v), NEW max \in Nat, NEW head, RunHeadGood(runs, max, head)
  PROVE  /\ RunPlan(runs, max, Len(head)) \in Seq(ChunksOn(img.bytes))
         /\ head \o BytesOf(img.bytes, RunPlan(runs, max, Len(head)))
              = FlattenSeq(RunBytes(img.bytes, runs, max))
<1> DEFINE bytes == img.bytes
           B == Range(bytes)
           m == Len(head)
           C == FlattenSeq(RunBytes(bytes, runs, max))
           cs == RunPlan(runs, max, m)
<1>1. PICK v : InTurn(runs, v)
  OBVIOUS
<1>2. /\ head \in Seq(B) /\ m <= Block /\ ReadBefore(runs, max, m) /\ head = FirstOf(C, m)
      /\ m \in Nat
  BY LenProperties DEF RunHeadGood
<1>3. C \in Seq(B)
  BY RunBytesType, FlattenType
<1> HIDE DEF m
<1>4. cs \in Seq(ChunksOn(bytes)) /\ BytesOf(bytes, cs) = RestFrom(C, m)
  BY <1>1, <1>2, RunPlanBytes
<1> HIDE DEF cs, C
<1>5. m \in 0..Len(C)
  <2>1. Len(C) \in Nat /\ m = Least(Len(C), m)
    BY <1>2, <1>3, LenProperties, FirstIs DEF m
  <2> DEFINE k == Len(C)
  <2> HIDE DEF k
  <2>2. k \in Nat /\ m = Least(k, m)
    BY <2>1 DEF k
  <2>3. m \in 0..k
    BY <1>2, <2>2 DEF Least
  <2> QED
    BY <2>3 DEF k
<1>6. FirstOf(C, m) \o RestFrom(C, m) = C
  BY <1>3, <1>5, FirstAndRest
<1> QED
  BY <1>2, <1>4, <1>6 DEF cs, C, m

\* A probe that has read nothing has read the beginning of the file.
LEMMA NoHead ==
  ASSUME img.bytes \in Seq(Range(img.bytes)), NEW runs \in Seq(RunsOn(img.bytes)), NEW max \in Nat
  PROVE  RunHeadGood(runs, max, <<>>)
<1> DEFINE C == FlattenSeq(RunBytes(img.bytes, runs, max))
           B == Range(img.bytes)
<1>1. C \in Seq(B)
  BY RunBytesType, FlattenType
<1> HIDE DEF C
<1>2. Least(Len(C), 0) = 0
  BY <1>1, LenProperties DEF Least
<1>3. FirstOf(C, 0) \in Seq(B) /\ Len(FirstOf(C, 0)) = 0
  BY <1>1, <1>2, FirstIs
<1>4. FirstOf(C, 0) = <<>>
  BY <1>3, EmptySeq
<1>5. <<>> \in Seq(B) /\ Len(<<>>) = 0 /\ 0 <= Block
  BY EmptySeq, DeviceAssumption
<1>6. ReadBefore(runs, max, 0)
  BY DEF ReadBefore
<1> QED
  BY <1>4, <1>5, <1>6 DEF RunHeadGood, C

\* The first run that is no hole holds more than the probe reads.
LEMMA FirstMappedHead ==
  ASSUME img.bytes \in Seq(Range(img.bytes)), NEW runs \in Seq(RunsOn(img.bytes)),
         NEW max \in Nat, max > 0,
         NEW k \in 1..Len(runs), runs[k].lcn # {}, \A j \in 1..(k - 1) : runs[j].lcn = {},
         ~ Least(runs[k].len * Block, max - runs[k].vcn * Block) <= Least(Block, max),
         NEW at, at = (CHOOSE l \in runs[k].lcn : TRUE) * Block, ~ Fails(img, at)
  PROVE  RunHeadGood(runs, max, ReadAt(img, at, Least(Block, max)))
<1> DEFINE bytes == img.bytes
           B == Range(bytes)
           r == runs[k]
           l == CHOOSE l \in r.lcn : TRUE
           V == r.vcn * Block
           L == r.len * Block
           m == Least(Block, max)
           take == Least(L, max - V)
           es == RunBytes(bytes, runs, max)
           C == FlattenSeq(es)
<1>1. bytes \in Seq(B) /\ r \in RunsOn(bytes) /\ Len(runs) \in Nat /\ Len(bytes) \in Nat
  BY LenProperties, ElementOfSeq
<1>2. l \in Nat /\ at \in Nat /\ L \in Nat /\ at + L <= Len(bytes) /\ at = l * Block
  BY <1>1, RunOnDevice, Zenon
<1>3. V \in Nat
  <2> DEFINE a == r.vcn
  <2>1. a \in Nat /\ Block \in Nat
    BY <1>1, DeviceAssumption DEF RunsOn
  <2> HIDE DEF a
  <2>2. a * Block \in Nat
    BY <2>1, SMT
  <2> QED
    BY <2>2 DEF a
<1>4. ~ take <= m
  OBVIOUS
<1>5. /\ es \in Seq(Seq(B)) /\ Len(es) = Len(runs)
      /\ \A i \in 1..Len(runs) : es[i] = RunPart(bytes, runs[i], max)
  BY <1>1, RunBytesType
<1>6. es[k] = RunPart(bytes, r, max)
  BY <1>5
<1>7. \A j \in 1..(k - 1) : es[j] = <<>>
  <2>1. \A j \in 1..(k - 1) : j \in 1..Len(runs)
    BY <1>1
  <2> HIDE DEF es
  <2> QED
    BY <1>5, <2>1, Zenon DEF RunPart
<1> HIDE DEF r, es, bytes, L, V, l
<1>8. /\ m \in Nat /\ m <= Block /\ take \in Int /\ m < take /\ V < max /\ take <= L
      /\ take \in Nat /\ at + take <= Len(bytes) /\ at + m <= Len(bytes) /\ m <= take
  BY <1>1, <1>2, <1>3, <1>4, DeviceAssumption DEF Least
<1> HIDE DEF m
<1>9. es[k] = Extract(bytes, at, take)
  <2>1. r.lcn # {} /\ ~ V >= max
    BY <1>3, <1>8 DEF r
  <2>2. es[k] = Extract(bytes, l * Block, Least(L, max - V))
    BY <1>6, <2>1 DEF RunPart, l, L, V
  <2> QED
    BY <1>2, <2>2
<1>10. ReadAt(img, at, m) = Extract(bytes, at, m)
  BY <1>1, <1>2, <1>8, ReadInBlock DEF bytes, B
<1> HIDE DEF take
<1>11. PICK rest \in Seq(B) : C = Extract(bytes, at, take) \o rest
  <2>1. k \in 1..Len(es)
    BY <1>5
  <2>2. \E rest \in Seq(B) : FlattenSeq(es) = es[k] \o rest
    BY ONLY <1>5, <1>7, <2>1, FlattenFrom, Zenon
  <2> QED
    BY <1>9, <2>2, Zenon
<1> HIDE DEF C
<1>12. FirstOf(C, m) = Extract(bytes, at, m)
  BY <1>1, <1>2, <1>8, <1>11, FirstInExtract
<1>13. Extract(bytes, at, m) \in Seq(B) /\ Len(Extract(bytes, at, m)) = m
  BY <1>1, <1>2, <1>8, ExtractIs
<1>14. ReadBefore(runs, max, m)
  <2>1. SUFFICES ASSUME NEW i \in 1..Len(runs), runs[i].lcn # {},
                        \A j \in 1..(i - 1) : runs[j].lcn = {}
                 PROVE  m < Least(runs[i].len * Block, max - runs[i].vcn * Block)
    BY DEF ReadBefore
  <2>2. i = k
    <3>1. ~ i < k /\ ~ k < i
      <4>1. i < k => i \in 1..(k - 1)
        BY <1>1
      <4>2. k < i => k \in 1..(i - 1)
        BY <1>1
      <4> QED
        BY <2>1, <4>1, <4>2
    <3> QED
      BY <1>1, <3>1
  <2> QED
    BY <1>8, <2>2 DEF take, L, V, r
<1> HIDE DEF B
<1> QED
  BY <1>8, <1>10, <1>12, <1>13, <1>14 DEF RunHeadGood, m, C, es, bytes, B

\* What the probe of a file of runs reads.
LEMMA RunHeadIs ==
  ASSUME img.bytes \in Seq(Range(img.bytes)), NEW runs \in Seq(RunsOn(img.bytes)),
         NEW max \in Nat,
         \A k \in DOMAIN runs :
           runs[k].lcn # {} /\ (\A j \in 1..(k - 1) : runs[j].lcn = {}) =>
             ~ Least(runs[k].len * Block, max - runs[k].vcn * Block) <= Least(Block, max)
  PROVE  RunHeadGood(runs, max, RunHead(img, runs, max))
<1> DEFINE mapped == {k \in DOMAIN runs : runs[k].lcn # {}}
           n == Len(runs)
           at == (CHOOSE l \in runs[Min(mapped)].lcn : TRUE) * Block
<1>1. n \in Nat /\ DOMAIN runs = 1..n
  BY LenProperties
<1>2. RunHead(img, runs, max) =
        IF mapped = {} \/ Fails(img, at) THEN <<>> ELSE ReadAt(img, at, Least(Block, max))
  BY DEF RunHead
<1>3. CASE mapped = {} \/ Fails(img, at)
  BY <1>2, <1>3, NoHead
<1>4. CASE mapped # {} /\ ~ Fails(img, at)
  <2>1. PICK k \in mapped : \A y \in mapped : k <= y
    <3>1. mapped \in SUBSET Nat
      BY <1>1
    <3> HIDE DEF mapped
    <3> QED
      BY <1>4, <3>1, LeastNatural
  <2>2. Min(mapped) = k
    <3>1. \A y \in mapped : y \in Nat
      BY <1>1
    <3> HIDE DEF mapped
    <3>2. \A x \in mapped : (\A y \in mapped : x <= y) => x = k
      BY <2>1, <3>1
    <3> QED
      BY <2>1, <3>2 DEF Min
  <2>3. k \in 1..n /\ runs[k].lcn # {} /\ k \in DOMAIN runs
    BY <1>1
  <2>4. \A j \in 1..(k - 1) : runs[j].lcn = {}
    <3>1. SUFFICES ASSUME NEW j \in 1..(k - 1), runs[j].lcn # {} PROVE FALSE
      OBVIOUS
    <3>2. j \in 1..n /\ ~ k <= j
      BY <1>1, <2>3
    <3>3. j \in mapped
      BY <1>1, <3>1, <3>2
    <3> QED
      BY <2>1, <3>2, <3>3
  <2>5. ~ Least(runs[k].len * Block, max - runs[k].vcn * Block) <= Least(Block, max)
    BY <2>3, <2>4
  <2>6. at = (CHOOSE l \in runs[k].lcn : TRUE) * Block
    BY <2>2, Zenon
  <2>9. max > 0
    <3> DEFINE x == runs[k].len * Block
               y == runs[k].vcn * Block
    <3>1. runs[k].len \in Nat /\ runs[k].vcn \in Nat /\ Block \in Nat \ {0}
      BY <2>3, ElementOfSeq, DeviceAssumption DEF RunsOn
    <3>2. x \in Nat /\ y \in Nat
      BY <3>1, SMT
    <3>3. ~ Least(x, max - y) <= Least(Block, max)
      BY <2>5
    <3> HIDE DEF x, y
    <3> QED
      BY <3>1, <3>2, <3>3 DEF Least
  <2>7. RunHead(img, runs, max) = ReadAt(img, at, Least(Block, max)) /\ ~ Fails(img, at)
    BY <1>2, <1>4
  <2> HIDE DEF at, mapped
  <2>8. RunHeadGood(runs, max, ReadAt(img, at, Least(Block, max)))
    BY <2>3, <2>4, <2>5, <2>6, <2>7, <2>9, FirstMappedHead DEF n
  <2> QED
    BY <2>7, <2>8
<1> QED
  BY <1>3, <1>4

\* What the probe of a file of runs has read.
NtfsHead(n, max, check) == IF check THEN RunHead(img, DecodeRuns(n.runs), max) ELSE <<>>

\* It is what the chunks leave out, unless the probe was misled.
LEMMA NtfsHeadIs ==
  ASSUME DeviceFormed, NEW n, n.kind = "runs", FileFormed(n), NEW max \in Nat,
         NEW check \in BOOLEAN, ~ (check /\ Doubled(n, max))
  PROVE  RunHeadGood(DecodeRuns(n.runs), max, NtfsHead(n, max, check))
<1> DEFINE runs == DecodeRuns(n.runs)
<1>1. img.bytes \in Seq(Range(img.bytes)) /\ runs \in Seq(RunsOn(img.bytes))
  BY FormedRuns DEF DeviceFormed
<1>2. check => \A k \in DOMAIN runs :
           runs[k].lcn # {} /\ (\A j \in 1..(k - 1) : runs[j].lcn = {}) =>
             ~ Least(runs[k].len * Block, max - runs[k].vcn * Block) <= Least(Block, max)
  BY DEF Doubled
<1>3. NtfsHead(n, max, check) = IF check THEN RunHead(img, runs, max) ELSE <<>>
  BY DEF NtfsHead
<1> HIDE DEF runs
<1>4. CASE check
  BY <1>1, <1>2, <1>3, <1>4, RunHeadIs DEF runs
<1>5. CASE ~ check
  BY <1>1, <1>3, <1>5, NoHead DEF runs
<1> QED
  BY <1>4, <1>5

\* NtfsCovers: on NTFS the head that the probe has read and the chunks planned
\* after it are the file, each byte once and in order, up to the limit.
THEOREM NtfsCovers ==
  ASSUME DeviceFormed, OnNtfs(img), NEW n, n.kind = "runs", FileFormed(n),
         NEW max \in 0..n.size, NEW check \in BOOLEAN, NEW likely,
         ~ (check /\ Doubled(n, max)),
         ~ CollectChunks(img, n, max, check, likely).rejected
  PROVE  Covers(CollectChunks(img, n, max, check, likely), n, max)
<1> DEFINE bytes == img.bytes
           B == Range(bytes)
           runs == DecodeRuns(n.runs)
           C == FlattenSeq(RunBytes(bytes, runs, max))
           head == NtfsHead(n, max, check)
           m == Len(head)
           plan == CollectChunks(img, n, max, check, likely)
           cs == RunPlan(runs, max, m)
<1>1. bytes \in Seq(B) /\ max \in Nat
  <2>1. n.size \in Nat
    BY DEF FileFormed
  <2> QED
    BY <2>1 DEF DeviceFormed
<1>2. runs \in Seq(RunsOn(bytes)) /\ \E v : InTurn(runs, v)
  BY FormedRuns
<1>3. plan = PlanAfter(head, runs, max)
  BY DEF CollectChunks, CollectRuns, NtfsHead
<1>4. ContentTo(n, max) = C
  BY <1>1, NtfsContent
<1>6. ~ plan.rejected
  OBVIOUS
<1>7. RunHeadGood(runs, max, head)
  BY <1>1, NtfsHeadIs
<1> HIDE DEF runs, plan, head
<1>8. plan = IF IsBinary(head) THEN Rejected ELSE [NoPlan EXCEPT !.head = head, !.chunks = cs]
  BY <1>3 DEF PlanAfter
<1>10. cs \in Seq(ChunksOn(bytes)) /\ head \o BytesOf(bytes, cs) = C
  <2>1. RunPlan(runs, max, Len(head)) \in Seq(ChunksOn(img.bytes))
        /\ head \o BytesOf(img.bytes, RunPlan(runs, max, Len(head)))
             = FlattenSeq(RunBytes(img.bytes, runs, max))
    BY <1>1, <1>2, <1>7, HeadAndRuns
  <2> QED
    BY <2>1
<1>11. ~ IsBinary(head)
  BY <1>6, <1>8 DEF Rejected, NoPlan
<1> HIDE DEF cs, C
<1>12. plan.head = head /\ plan.chunks = cs
  BY <1>8, <1>11 DEF NoPlan
<1>13. head \in Seq(B)
  BY <1>7 DEF RunHeadGood
<1> QED
  BY <1>4, <1>10, <1>12, <1>13 DEF plan, Covers

\* HeadAndChunksCover of the states whose image is formed.
LEMMA FormedCovers ==
  ASSUME Formed
  PROVE  HeadAndChunksCover
<1>1. ASSUME NEW i \in Files, nodes[i].kind \in {"extents", "direct", "runs"},
             NEW max \in 1..nodes[i].size, NEW check \in BOOLEAN, NEW likely \in BOOLEAN,
             NEW plan \in {CollectChunks(img, nodes[i], max, check, likely)},
             NEW cut \in {SplitChunks(plan.chunks)},
             BadPlaces(nodes[i]) = {} /\ ~ plan.rejected /\ ~ (check /\ Doubled(nodes[i], max))
      PROVE  /\ plan.head \o FlattenSeq([c \in DOMAIN cut |->
                   SubSeq(img.bytes, cut[c].at + 1, cut[c].at + cut[c].len)])
                 = ContentTo(nodes[i], max)
             /\ \A c \in DOMAIN cut : cut[c].len \in 1..ChunkSize
  <2> DEFINE n == nodes[i]
  <2>0. /\ n.kind \in {"extents", "direct", "runs"} /\ max \in 1..n.size /\ BadPlaces(n) = {}
        /\ ~ CollectChunks(img, n, max, check, likely).rejected /\ ~ (check /\ Doubled(n, max))
        /\ plan = CollectChunks(img, n, max, check, likely) /\ cut = SplitChunks(plan.chunks)
    BY <1>1
  <2>1. DeviceFormed /\ FileFormed(n) /\ img.bytes \in Seq(Range(img.bytes))
    BY DEF Formed, DeviceFormed
  <2> HIDE DEF n
  <2>2. Covers(CollectChunks(img, n, max, check, likely), n, max)
    <3>1. CASE OnNtfs(img)
      <4>1. n.kind = "runs" /\ max \in 0..n.size
        BY <2>0, <2>1, <3>1 DEF FileFormed, Poisoned
      <4> QED
        BY <2>0, <2>1, <3>1, <4>1, NtfsCovers
    <3>2. CASE ~ OnNtfs(img)
      <4>1. n.kind \in {"extents", "direct"} /\ 1 \notin BadPlaces(n)
        BY <2>0, <2>1, <3>2 DEF FileFormed, Poisoned
      <4> QED
        BY <2>0, <2>1, <3>2, <4>1, Ext4Covers
    <3> QED
      BY <3>1, <3>2
  <2>3. /\ cut \in Seq(ShortChunks(img.bytes))
        /\ BytesOf(img.bytes, cut) = BytesOf(img.bytes, plan.chunks)
    BY <2>0, <2>1, <2>2, SplitBytes DEF Covers
  <2>4. \A c \in DOMAIN cut : cut[c].len \in 1..ChunkSize
    BY <2>3, LenProperties, ElementOfSeq DEF ShortChunks
  <2>5. plan.head \o FlattenSeq([c \in DOMAIN cut |->
             SubSeq(img.bytes, cut[c].at + 1, cut[c].at + cut[c].len)]) = ContentTo(n, max)
    BY <2>0, <2>2, <2>3, Zenon DEF Covers, BytesOf, Extracts
  <2> QED
    BY <2>4, <2>5, Zenon DEF n
<1> QED
  BY <1>1, Zenon DEF HeadAndChunksCover

\* HeadAndChunksCoverCorrect: HeadAndChunksCover of the runs, for every image
\* that is formed.
THEOREM HeadAndChunksCoverCorrect == Spec /\ []Formed => []HeadAndChunksCover
BY FormedCovers, PTL

\* w is somewhere in the text.
Within(w, text) == \E d \in 0..(Len(text) - Len(w)) : IsStretch(w, text, d)

\* A part holds no fragment that the whole does not hold.
LEMMA WithinScan ==
  ASSUME NEW R, NEW w \in Seq(R), NEW S, NEW text \in Seq(S), Within(w, text),
         NEW sought, sought.len \in Nat \ {0}
  PROVE  Scan(w, sought) \subseteq Scan(text, sought)
<1> DEFINE n == sought.len
           L == Len(w)
           M == Len(text)
           Of(t) == {Window(t, p, sought) : p \in 1..(Len(t) + 1 - n)}
<1>1. L \in Nat /\ M \in Nat /\ n \in Nat \ {0}
  BY LenProperties
<1>2. Scan(w, sought) = Of(w) \cap sought.frags /\ Scan(text, sought) = Of(text) \cap sought.frags
  BY ScanIs, Zenon
<1>3. PICK d \in 0..(M - L) : IsStretch(w, text, d)
  BY Zenon DEF Within
<1>4. ASSUME NEW p \in 1..(L + 1 - n) PROVE Window(w, p, sought) \in Of(text)
  <2>1. PICK q \in 1..(M + 1 - n) : q = p + d
    BY <1>1
  <2>2. \A i \in 1..n : w[p + i - 1] = text[q + i - 1]
    <3> SUFFICES ASSUME NEW i \in 1..n PROVE w[p + i - 1] = text[q + i - 1]
      OBVIOUS
    <3>1. p + i - 1 \in 1..L /\ d + (p + i - 1) = q + i - 1
      BY <1>1, <2>1
    <3>2. w[p + i - 1] = text[d + (p + i - 1)]
      BY <1>3, <3>1, Zenon DEF IsStretch
    <3> QED
      BY <3>1, <3>2
  <2>3. Window(w, p, sought) = Window(text, q, sought)
    BY <2>2 DEF Window
  <2> QED
    BY <2>3, Zenon
<1> QED
  BY <1>2, <1>4

\* What is within a part is within the whole.
LEMMA WithinWithin ==
  ASSUME NEW R, NEW a \in Seq(R), NEW S, NEW b \in Seq(S), NEW V, NEW c \in Seq(V),
         Within(a, b), Within(b, c)
  PROVE  Within(a, c)
<1>1. Len(a) \in Nat /\ Len(b) \in Nat /\ Len(c) \in Nat
  BY LenProperties
<1>2. PICK d \in 0..(Len(b) - Len(a)) : IsStretch(a, b, d)
  BY Zenon DEF Within
<1>3. PICK e \in 0..(Len(c) - Len(b)) : IsStretch(b, c, e)
  BY Zenon DEF Within
<1>4. d \in Nat /\ e \in Nat /\ d + e \in 0..(Len(c) - Len(a))
  BY <1>1
<1>5. ASSUME NEW i \in 1..Len(a) PROVE a[i] = c[(d + e) + i]
  <2>1. i \in Nat /\ d + i \in 1..Len(b) /\ e + (d + i) = (d + e) + i
    BY <1>1, <1>4
  <2>2. a[i] = b[d + i]
    BY <1>2 DEF IsStretch
  <2>3. b[d + i] = c[e + (d + i)]
    BY <1>3, <2>1, Zenon DEF IsStretch
  <2> QED
    BY <2>1, <2>2, <2>3
<1> QED
  BY <1>4, <1>5 DEF Within, IsStretch

\* A stretch of a text is within it.
LEMMA PartWithin ==
  ASSUME NEW S, NEW text \in Seq(S), NEW p \in 1..(Len(text) + 1), NEW e \in (p - 1)..Len(text)
  PROVE  /\ SubSeq(text, p, e) \in Seq(S) /\ Len(SubSeq(text, p, e)) = e + 1 - p
         /\ Within(SubSeq(text, p, e), text)
<1> DEFINE t == SubSeq(text, p, e)
           M == Len(text)
<1>1. M \in Nat /\ p \in Nat \ {0} /\ e \in Nat /\ p - 1 <= e /\ e <= M /\ \A i \in 1..M : text[i] \in S
  BY LenProperties, ElementOfSeq
<1> HIDE DEF M
<1>2. \A i \in p..e : text[i] \in S
  BY <1>1 DEF M
<1>3. /\ t \in Seq(S) /\ Len(t) = IF p <= e THEN e - p + 1 ELSE 0
      /\ \A i \in 1..(e - p + 1) : t[i] = text[p + i - 1]
  BY <1>1, <1>2, SubSeqProperties
<1> HIDE DEF t
<1>4. Len(t) = e + 1 - p /\ p - 1 \in 0..(M - Len(t))
  BY <1>1, <1>3
<1>5. \A i \in 1..Len(t) : t[i] = text[(p - 1) + i]
  <2> SUFFICES ASSUME NEW i \in 1..Len(t) PROVE t[i] = text[(p - 1) + i]
    OBVIOUS
  <2>1. i \in 1..(e - p + 1) /\ (p - 1) + i = p + i - 1
    BY <1>1, <1>4
  <2> QED
    BY <1>3, <2>1
<1> QED
  BY <1>3, <1>4, <1>5 DEF Within, IsStretch, t, M

\* The two parts of a text are within it.
LEMMA HalvesWithin ==
  ASSUME NEW S, NEW a \in Seq(S), NEW b \in Seq(S)
  PROVE  Within(a, a \o b) /\ Within(b, a \o b)
<1>1. /\ a \o b \in Seq(S) /\ Len(a) \in Nat /\ Len(b) \in Nat /\ Len(a \o b) = Len(a) + Len(b)
      /\ \A i \in 1..Len(a) : (a \o b)[i] = a[i]
      /\ \A i \in 1..Len(b) : (a \o b)[Len(a) + i] = b[i]
  BY LenProperties, ConcatProperties
<1>2. 0 \in 0..(Len(a \o b) - Len(a)) /\ Len(a) \in 0..(Len(a \o b) - Len(b))
      /\ \A i \in 1..Len(a) : 0 + i = i
  BY <1>1
<1> DEFINE c == a \o b
<1> HIDE DEF c
<1>3. Within(a, c)
  BY <1>1, <1>2 DEF Within, IsStretch, c
<1>4. Within(b, c)
  BY <1>1, <1>2 DEF Within, IsStretch, c
<1> QED
  BY <1>3, <1>4 DEF c

-----------------------------------------------------------------------------
(* A line is printed only of a text that holds a word.                     *)

AreTexts(words) == \A w \in words : w \in Seq(Range(w))
Held(words, text) == \E w \in words : Within(w, text)

\* What a part holds the whole holds.
LEMMA HeldWithin ==
  ASSUME NEW words, AreTexts(words), NEW S, NEW a \in Seq(S), NEW b \in Seq(S),
         Held(words, a), Within(a, b)
  PROVE  Held(words, b)
<1>1. PICK w \in words : Within(w, a)
  BY DEF Held
<1>2. w \in Seq(Range(w))
  BY DEF AreTexts
<1>3. Within(w, b)
  BY <1>1, <1>2, WithinWithin
<1> QED
  BY <1>3 DEF Held

\* A word that occurs is held.
LEMMA OccursHeld ==
  ASSUME NEW sought, AreTexts(sought.words), NEW S, NEW text \in Seq(S),
         Occurrences(text, sought) # {}
  PROVE  Held(sought.words, text)
<1>1. PICK p \in DOMAIN text, w \in sought.words : IsPrefix(w, SubSeq(text, p, Len(text)))
  BY DEF Occurrences
<1> DEFINE t == SubSeq(text, p, Len(text))
<1>2. Len(text) \in Nat /\ DOMAIN text = 1..Len(text)
  BY LenProperties
<1>3. p \in 1..(Len(text) + 1) /\ Len(text) \in (p - 1)..Len(text)
  BY <1>2
<1>4. t \in Seq(S) /\ Within(t, text)
  BY <1>3, PartWithin
<1> HIDE DEF t
<1>5. w \in Seq(Range(w))
  BY DEF AreTexts
<1>6. Len(w) \in Nat /\ Len(t) \in Nat /\ Len(w) <= Len(t) /\ SubSeq(w, 1, Len(w)) = SubSeq(t, 1, Len(w))
  BY <1>1, <1>4, <1>5, LenProperties DEF IsPrefix, t
<1>7. ASSUME NEW i \in 1..Len(w) PROVE w[i] = t[0 + i]
  <2>1. SubSeq(w, 1, Len(w))[i] = w[i]
    <3>1. \A j \in 1..Len(w) : w[j] \in Range(w)
      BY <1>5, ElementOfSeq
    <3>2. \A j \in 1..(Len(w) - 1 + 1) : SubSeq(w, 1, Len(w))[j] = w[1 + j - 1]
      BY <1>6, <3>1, SubSeqProperties
    <3> QED
      BY <1>6, <3>2
  <2>2. SubSeq(t, 1, Len(w))[i] = t[i]
    <3>1. \A j \in 1..Len(w) : t[j] \in S
      BY <1>4, <1>6, ElementOfSeq
    <3>2. \A j \in 1..(Len(w) - 1 + 1) : SubSeq(t, 1, Len(w))[j] = t[1 + j - 1]
      BY <1>6, <3>1, SubSeqProperties
    <3> QED
      BY <1>6, <3>2
  <2> QED
    BY <1>6, <2>1, <2>2
<1>8. 0 \in 0..(Len(t) - Len(w))
  BY <1>6
<1>9. Within(w, t)
  BY <1>7, <1>8 DEF Within, IsStretch
<1>10. Within(w, text)
  BY <1>4, <1>5, <1>9, WithinWithin
<1> QED
  BY <1>10 DEF Held

\* One round of the search of a region, and what it is a fold of.
RegionStep(env, acc, m) ==
  IF m \notin Occurrences(env.text, env.find) \/ m < acc.scan THEN acc
  ELSE ResolveLine(env.text, acc, m)
Resolving == INSTANCE FoldSteps WITH step <- RegionStep

\* The numbers up to one are a sequence of that many.
LEMMA UpToIs ==
  ASSUME NEW n \in Nat
  PROVE  Len(UpTo(n)) = n /\ DOMAIN UpTo(n) = 1..n /\ \A i \in 1..n : UpTo(n)[i] = i
BY DEF UpTo

\* A region prints nothing unless it holds a word.
LEMMA RegionHeld ==
  ASSUME NEW sought, AreTexts(sought.words), NEW S, NEW text \in Seq(S), NEW line,
         PrintRegion(text, sought, line).out # <<>>
  PROVE  Held(sought.words, text)
<1> DEFINE n == Len(text)
           s == UpTo(n)
           env == [text |-> text, find |-> sought]
           base == [scan |-> 1, line |-> line, out |-> <<>>]
<1>1. SUFFICES ASSUME Occurrences(text, sought) = {} PROVE FALSE
  BY OccursHeld, Zenon
<1>2. n \in Nat /\ Len(s) = n /\ DOMAIN s = 1..n
  BY LenProperties, UpToIs
<1>3. PrintRegion(text, sought, line) = Resolving!Fold(env, base, s)
  BY DEF PrintRegion, Resolving!Fold, RegionStep, FoldLeft, MapThenFoldSet, Max, Resolving!Greatest
<1> HIDE DEF s, base
<1>4. PICK h : Resolving!IsFold(env, base, s, h) /\ Resolving!Fold(env, base, s) = h[n]
  BY <1>2, Resolving!FoldIs, Zenon
<1>5. h[0] = base /\ \A i \in 1..n : h[i] = RegionStep(env, h[i - 1], s[i])
  BY <1>2, <1>4, Zenon DEF Resolving!IsFold
<1> HIDE DEF n
<1> DEFINE T == {i \in 0..n : h[i] = base}
<1>6. 0 \in T
  BY <1>2, <1>5
<1>7. \A i \in 1..n : i - 1 \in T => i \in T
  <2> SUFFICES ASSUME NEW i \in 1..n, i - 1 \in T PROVE i \in T
    OBVIOUS
  <2>1. i \in 0..n
    BY <1>2
  <2>2. h[i] = h[i - 1]
    BY <1>1, <1>5 DEF RegionStep
  <2> QED
    BY <2>1, <2>2
<1> HIDE DEF T
<1>8. n \in T
  <2>1. \A i \in 0..n : i \in T
    BY <1>2, <1>6, <1>7, Upwards, Zenon
  <2> QED
    BY <1>2, <2>1
<1> QED
  BY <1>3, <1>4, <1>8 DEF T, base

\* One line, and what the search line by line is a fold of.
LinesUpTo(text) == Newlines(text) \cup (IF LastNewline(text) < Len(text) THEN {Len(text) + 1} ELSE {})
LineStep(env, acc, end) ==
  IF end \notin LinesUpTo(env.text) THEN acc ELSE LineAt(env.text, env.find, acc, end)
Lining == INSTANCE FoldSteps WITH step <- LineStep

\* Nor does a search line by line.
LEMMA ByLineHeld ==
  ASSUME NEW sought, AreTexts(sought.words), NEW S, NEW text \in Seq(S), NEW line,
         PrintByLine(text, sought, line).out # <<>>
  PROVE  Held(sought.words, text)
<1> DEFINE n == Len(text) + 1
           s == UpTo(n)
           env == [text |-> text, find |-> sought]
           base == [start |-> 1, line |-> line, out |-> <<>>]
<1>1. SUFFICES ASSUME ~ Held(sought.words, text) PROVE FALSE
  OBVIOUS
<1>2. n \in Nat /\ Len(s) = n /\ DOMAIN s = 1..n /\ \A i \in 1..n : s[i] = i
  <2>1. n \in Nat
    BY LenProperties
  <2> HIDE DEF n
  <2> QED
    BY <2>1, UpToIs
<1>3. PrintByLine(text, sought, line) = Lining!Fold(env, base, s)
  BY DEF PrintByLine, Lining!Fold, LineStep, LinesUpTo, FoldLeft, MapThenFoldSet, Max, Lining!Greatest
<1>10. Len(text) = n - 1
  BY LenProperties
<1> HIDE DEF n, s, base
<1>4. PICK h : Lining!IsFold(env, base, s, h) /\ Lining!Fold(env, base, s) = h[n]
  <2>1. Len(s) \in Nat /\ DOMAIN s = 1..Len(s)
    BY <1>2
  <2>2. n = Len(s)
    BY <1>2
  <2> QED
    BY <2>1, <2>2, Lining!FoldIs, Zenon
<1> USE DEF base
<1>5. h[0] = base /\ \A i \in 1..n : h[i] = LineStep(env, h[i - 1], i)
  <2>1. h[0] = base /\ \A i \in 1..n : h[i] = LineStep(env, h[i - 1], s[i])
    BY <1>2, <1>4, Zenon DEF Lining!IsFold
  <2> QED
    BY <1>2, <2>1, Zenon
<1> DEFINE T == {i \in 0..n : h[i].start \in 1..(i + 1) /\ h[i].out = <<>>}
<1>6. 0 \in T
  BY <1>2, <1>5
<1>7. \A i \in 1..n : i - 1 \in T => i \in T
  <2> SUFFICES ASSUME NEW i \in 1..n, i - 1 \in T PROVE i \in T
    OBVIOUS
  <2> DEFINE acc == h[i - 1]
             body == SubSeq(text, acc.start, i - 1)
  <2>1. i \in 0..n /\ acc.start \in 1..i /\ acc.out = <<>>
    BY <1>2
  <2>2. CASE i \notin LinesUpTo(text)
    <3>1. h[i] = acc
      BY <1>5, <2>2 DEF LineStep
    <3> HIDE DEF acc
    <3> QED
      BY <1>2, <2>1, <3>1
  <2>3. CASE i \in LinesUpTo(text)
    <3>1. h[i] = LineAt(text, sought, acc, i)
      BY <1>5, <2>3 DEF LineStep
    <3> HIDE DEF acc
    <3>2. acc.start \in 1..(Len(text) + 1) /\ i - 1 \in (acc.start - 1)..Len(text)
      BY <1>2, <1>10, <2>1
    <3>3. body \in Seq(S) /\ Within(body, text)
      BY <3>2, PartWithin
    <3>4. Occurrences(body, sought) = {}
      <4>1. ~ Held(sought.words, body)
        BY <1>1, <3>3, HeldWithin
      <4> HIDE DEF body
      <4> QED
        BY <3>3, <4>1, OccursHeld
    <3>5. h[i].start = i + 1 /\ h[i].out = acc.out
      BY <3>1, <3>4 DEF LineAt
    <3>6. i + 1 \in 1..(i + 1)
      BY <1>2
    <3> QED
      BY <2>1, <3>5, <3>6
  <2> QED
    BY <2>2, <2>3
<1> HIDE DEF T
<1>8. n \in T
  <2>1. \A i \in 0..n : i \in T
    BY <1>2, <1>6, <1>7, Upwards, Zenon
  <2> QED
    BY <1>2, <2>1
<1> QED
  BY <1>3, <1>4, <1>8 DEF T

\* What a row and its seam are after a text.
After(text, sought) == [row |-> Scan(text, sought), seam |-> LastOf(text, sought.len - 1)]

\* A span ends behind its start and within the text.
LEMMA SpanEndIn ==
  ASSUME NEW S, NEW text \in Seq(S), NEW p \in 1..Len(text), NEW nl
  PROVE  SpanEnd(text, p, nl) \in p..Len(text)
<1> DEFINE ends == {q \in DOMAIN text : q >= p + Span /\ text[q] = nl} \cup {Len(text)}
<1>1. Len(text) \in Nat /\ DOMAIN text = 1..Len(text) /\ p \in Nat /\ p + Span >= p
  BY LenProperties, SpanAssumption
<1>2. ends \in SUBSET Nat /\ ends # {} /\ \A q \in ends : q \in p..Len(text)
  BY <1>1, SpanAssumption
<1>3. SpanEnd(text, p, nl) = Len(text) \/ SpanEnd(text, p, nl) = CHOOSE q \in ends : \A r \in ends : q <= r
  BY DEF SpanEnd
<1> HIDE DEF ends
<1> DEFINE c == CHOOSE q \in ends : \A r \in ends : q <= r
<1>4. c \in ends
  BY <1>2, LeastNatural
<1> HIDE DEF c
<1>5. c \in p..Len(text) /\ Len(text) \in p..Len(text)
  BY <1>1, <1>2, <1>4
<1> QED
  BY <1>3, <1>5 DEF c

SpanStep(env, s, p) ==
  IF p < s.pos THEN s
  ELSE [pos |-> SpanEnd(env.text, p, env.nl) + 1,
        acc |-> Feed(s.acc, SubSeq(env.text, p, SpanEnd(env.text, p, env.nl)), env.need)]
Spanning == INSTANCE FoldSteps WITH step <- SpanStep

\* FeedWideExact: decoded in spans, a piece is scanned as if it were scanned whole.
THEOREM FeedWideExact ==
  ASSUME NEW S, NEW text \in Seq(S), NEW piece \in Seq(S), NEW sought, sought.len \in Nat \ {0},
         NEW nl
  PROVE  FeedWide(After(text, sought), piece, nl, sought) = After(text \o piece, sought)
<1> DEFINE n == Len(piece)
           s == [p \in DOMAIN piece |-> p]
           env == [text |-> piece, nl |-> nl, need |-> sought]
           base == [pos |-> 1, acc |-> After(text, sought)]
           Till(k) == text \o Extract(piece, 0, k)
<1>1. n \in Nat /\ DOMAIN piece = 1..n
  BY LenProperties
<1>2. Len(s) = n /\ DOMAIN s = 1..n /\ \A i \in 1..n : s[i] = i
  BY <1>1
<1>3. FeedWide(After(text, sought), piece, nl, sought) = Spanning!Fold(env, base, s).acc
  BY DEF FeedWide, Spanning!Fold, SpanStep, FoldLeft, MapThenFoldSet, Max, Spanning!Greatest
<1> HIDE DEF s, base
<1>4. PICK h : Spanning!IsFold(env, base, s, h) /\ Spanning!Fold(env, base, s) = h[n]
  <2>1. Len(s) \in Nat /\ DOMAIN s = 1..Len(s) /\ n = Len(s)
    BY <1>1, <1>2
  <2> QED
    BY <2>1, Spanning!FoldIs, Zenon
<1>5. h[0] = base /\ \A i \in 1..n : h[i] = SpanStep(env, h[i - 1], i)
  <2>1. h[0] = base /\ \A i \in 1..n : h[i] = SpanStep(env, h[i - 1], s[i])
    BY <1>2, <1>4, Zenon DEF Spanning!IsFold
  <2> QED
    BY <1>2, <2>1, Zenon
<1> HIDE DEF n
<1>6. ASSUME NEW k \in 0..n PROVE Extract(piece, 0, k) \in Seq(S) /\ Till(k) \in Seq(S)
  <2>1. k \in Nat /\ 0 + k <= Len(piece)
    BY <1>1 DEF n
  <2>2. Extract(piece, 0, k) \in Seq(S)
    BY <2>1, ExtractIs
  <2> QED
    BY <2>2, ConcatProperties
<1> DEFINE T == {i \in 0..n : h[i].pos \in (i + 1)..(n + 1) /\ h[i].acc = After(Till(h[i].pos - 1), sought)}
<1>7. 0 \in T
  <2>1. Extract(piece, 0, 0) = <<>>
    BY <1>1, NoExtract
  <2>2. Till(0) = text
    BY <2>1, ConcatEmptySeq
  <2> HIDE DEF Till
  <2>3. h[0].pos = 1 /\ h[0].acc = After(text, sought)
    BY <1>5 DEF base
  <2>4. h[0].pos - 1 = 0 /\ 0 \in 0..n /\ 1 \in (0 + 1)..(n + 1)
    BY <1>1, <2>3
  <2> QED
    BY <2>2, <2>3, <2>4
<1>8. \A i \in 1..n : i - 1 \in T => i \in T
  <2> SUFFICES ASSUME NEW i \in 1..n, i - 1 \in T PROVE i \in T
    OBVIOUS
  <2> DEFINE b == h[i - 1]
             e == SpanEnd(piece, i, nl)
  <2>1. i \in Nat /\ i \in 0..n /\ b.pos \in i..(n + 1) /\ b.acc = After(Till(b.pos - 1), sought)
    BY <1>1
  <2>2. h[i] = SpanStep(env, b, i)
    BY <1>5
  <2> HIDE DEF b, Till
  <2>3. CASE i < b.pos
    <3>1. h[i] = b
      BY <2>2, <2>3 DEF SpanStep
    <3>2. b.pos \in (i + 1)..(n + 1)
      BY <1>1, <2>1, <2>3
    <3> QED
      BY <2>1, <3>1, <3>2
  <2>4. CASE ~ (i < b.pos)
    <3>1. b.pos = i
      BY <1>1, <2>1, <2>4
    <3>2. e \in i..n
      BY SpanEndIn DEF n
    <3>3. h[i].pos = e + 1 /\ h[i].acc = Feed(b.acc, SubSeq(piece, i, e), sought)
      BY <2>2, <2>4 DEF SpanStep
    <3> HIDE DEF e
    <3>4. PICK m \in 0..n, r \in Nat : m + 1 = i /\ m = i - 1 /\ m + r = e /\ 0 + m + r <= n
      <4>1. i - 1 \in 0..n /\ e - (i - 1) \in Nat
        BY <1>1, <3>2
      <4>2. (i - 1) + 1 = i /\ (i - 1) + (e - (i - 1)) = e /\ 0 + (i - 1) + (e - (i - 1)) <= n
        BY <1>1, <3>2
      <4> QED
        BY <4>1, <4>2
    <3>12. e \in 0..n /\ (e + 1) - 1 = e /\ e + 1 \in (i + 1)..(n + 1)
      BY <1>1, <3>2
    <3> DEFINE x == Extract(piece, 0, m)
               y == Extract(piece, m, r)
    <3>5. y = SubSeq(piece, i, e)
      BY <3>4 DEF Extract
    <3>13. m \in Nat /\ 0 \in Nat /\ 0 + m = m /\ 0 + m + r <= Len(piece) /\ m + r <= Len(piece)
      BY <1>1, <3>4 DEF n
    <3>6. x \o y = Extract(piece, 0, e)
      <4>2. Extract(piece, 0, m) \o Extract(piece, 0 + m, r) = Extract(piece, 0, m + r)
        BY <3>13, ExtractsMeet, ZenonT(30)
      <4> QED
        BY <3>4, <3>13, <4>2
    <3>7. x \in Seq(S) /\ y \in Seq(S) /\ Till(m) \in Seq(S)
      <4>1. x \in Seq(S) /\ Till(m) \in Seq(S)
        BY <1>6
      <4>2. y \in Seq(S)
        BY <3>13, ExtractIs, Zenon
      <4> QED
        BY <4>1, <4>2
    <3> HIDE DEF x, y
    <3>8. (text \o x) \o y = text \o (x \o y)
      BY ONLY text \in Seq(S), <3>7, Regrouped, SMTT(30)
    <3>9. Till(m) \o y = Till(e)
      BY <3>6, <3>8 DEF Till, x
    <3>10. Feed(After(Till(m), sought), y, sought) = After(Till(m) \o y, sought)
      <4> DEFINE u == Till(m)
      <4>1. u \in Seq(S)
        BY <3>7
      <4> HIDE DEF u
      <4>2. Feed(After(u, sought), y, sought) = After(u \o y, sought)
        BY <3>7, <4>1, FeedExact, Zenon DEF After
      <4> QED
        BY <4>2 DEF u
    <3>11. h[i].acc = After(Till(e), sought)
      BY <2>1, <3>1, <3>3, <3>4, <3>5, <3>9, <3>10
    <3>14. h[i].pos \in (i + 1)..(n + 1) /\ h[i].pos - 1 = e
      BY <3>3, <3>12
    <3> QED
      BY <2>1, <3>11, <3>14
  <2> QED
    BY <2>3, <2>4
<1> HIDE DEF T
<1>9. n \in T
  <2>1. \A i \in 0..n : i \in T
    BY <1>1, <1>7, <1>8, Upwards, Zenon
  <2> QED
    BY <1>1, <2>1
<1>10. Extract(piece, 0, n) = piece
  <2>1. 0 \in Nat /\ 0 + n <= Len(piece) /\ Len(piece) \in Nat
    BY <1>1 DEF n
  <2>2. /\ Extract(piece, 0, n) \in Seq(S) /\ Len(Extract(piece, 0, n)) = n
        /\ \A i \in 1..n : Extract(piece, 0, n)[i] = piece[0 + i]
    BY ONLY <1>1, <2>1, piece \in Seq(S), ExtractIs
  <2>3. \A i \in 1..n : piece[0 + i] = piece[i]
    BY <1>1
  <2> QED
    BY <2>2, <2>3, SeqEqual, Zenon DEF n
<1>11. h[n].pos - 1 = n /\ h[n].acc = After(Till(h[n].pos - 1), sought)
  <2> HIDE DEF Till
  <2>1. h[n].pos \in (n + 1)..(n + 1)
    BY <1>9 DEF T
  <2> QED
    BY <1>1, <1>9, <2>1 DEF T
<1> QED
  BY <1>3, <1>4, <1>10, <1>11

-----------------------------------------------------------------------------
(* What is searched of a file is its text without the byte order mark, in  *)
(* the encoding that the text's beginning decides.                         *)

EncOf(text) == IF text = <<>> THEN "unknown" ELSE IF IsWide(text) THEN "wide" ELSE "raw"

\* The body is a text of the same characters.
LEMMA BodyType ==
  ASSUME NEW S, NEW text \in Seq(S)
  PROVE  Body(text) \in Seq(S) /\ Body(<<>>) = <<>>
<1>1. Body(<<>>) = <<>>
  BY DEF Body, IsWide
<1>2. Body(text) \in Seq(S)
  BY HeadTailProperties DEF Body, IsWide
<1> QED
  BY <1>1, <1>2

\* What is appended to a text that has begun is appended to its body, in its encoding.
LEMMA BodyGrows ==
  ASSUME NEW S, NEW text \in Seq(S), NEW more \in Seq(S)
  PROVE  /\ text \o more \in Seq(S)
         /\ text = <<>> => text \o more = more
         /\ text # <<>> => /\ Body(text \o more) = Body(text) \o more
                           /\ EncOf(text \o more) = EncOf(text)
<1> DEFINE both == text \o more
<1>1. both \in Seq(S)
  BY ConcatProperties
<1>2. ASSUME text = <<>> PROVE both = more
  BY <1>2, ConcatEmptySeq
<1>3. ASSUME text # <<>>
      PROVE  Body(both) = Body(text) \o more /\ EncOf(both) = EncOf(text)
  <2>1. Len(text) \in Nat \ {0} /\ Len(more) \in Nat
    BY <1>3, EmptySeq, LenProperties
  <2>2. both # <<>>
    BY <1>3, ConcatEqualIffEmpty
  <2>3. Tail(both) = Tail(text) \o more
    <3>1. 1 \in 0..Len(text) /\ 1 + 1 = 2
      BY <2>1
    <3>2. SubSeq(both, 2, Len(both)) = SubSeq(text, 2, Len(text)) \o more
      BY <3>1, RestOfConcat
    <3> HIDE DEF both
    <3> QED
      BY <1>1, <1>3, <2>2, <3>2, TailIsSubSeq
  <2>4. Head(both) = Head(text)
    <3>1. both[1] = text[1]
      <4>1. 1 \in 1..(Len(text) + Len(more)) /\ 1 <= Len(text)
        BY <2>1
      <4> QED
        BY <4>1, ConcatProperties
    <3> HIDE DEF both
    <3> QED
      BY <1>1, <1>3, <2>2, <3>1
  <2> HIDE DEF both
  <2>5. IsWide(both) <=> IsWide(text)
    BY <1>3, <2>2, <2>4 DEF IsWide
  <2>6. EncOf(both) = EncOf(text)
    BY <1>3, <2>2, <2>5 DEF EncOf
  <2>7. Body(both) = Body(text) \o more
    <3>1. CASE IsWide(text)
      BY <2>3, <2>5, <3>1 DEF Body
    <3>2. CASE ~ IsWide(text)
      BY <2>5, <3>2 DEF Body, both
    <3> QED
      BY <3>1, <3>2
  <2> QED
    BY <2>6, <2>7
<1> QED
  BY <1>1, <1>2, <1>3

\* Before anything is scanned.
LEMMA AfterNothing ==
  ASSUME NEW sought, sought.len \in Nat \ {0}
  PROVE  After(<<>>, sought) = [row |-> {}, seam |-> <<>>]
<1>1. <<>> \in Seq({}) /\ Len(<<>>) = 0
  BY EmptySeq
<1>2. Scan(<<>>, sought) = {Window(<<>>, p, sought) : p \in 1..(0 + 1 - sought.len)} \cap sought.frags
  BY <1>1, ScanIs
<1>3. 1..(0 + 1 - sought.len) = {}
  OBVIOUS
<1>4. Scan(<<>>, sought) = {}
  BY <1>2, <1>3
<1>5. 0 <= sought.len - 1
  OBVIOUS
<1>6. LastOf(<<>>, sought.len - 1) = SubSeq(<<>>, 1, 0)
  BY <1>1, <1>5 DEF LastOf
<1>7. SubSeq(<<>>, 1, 0) = <<>>
  BY SubSeqEmpty
<1> QED
  BY <1>4, <1>6, <1>7 DEF After

\* The row of a file that is read whole is exact.
LEMMA RowOfIs ==
  ASSUME NEW S, NEW text \in Seq(S), need.len \in Nat \ {0}
  PROVE  RowOf(text) = Scan(Body(text), need)
<1>1. CASE ~ IsWide(text)
  BY <1>1 DEF RowOf, Body
<1>2. CASE IsWide(text) /\ Small(Tail(text))
  BY <1>2 DEF RowOf, Body
<1>3. CASE IsWide(text) /\ ~ Small(Tail(text))
  <2> DEFINE t == Tail(text)
  <2>1. t \in Seq(S) /\ <<>> \in Seq(S)
    BY <1>3, HeadTailProperties, EmptySeq DEF IsWide
  <2>2. RowOf(text) = FeedWide(After(<<>>, need), t, NL, need).row /\ Body(text) = t
    BY <1>3, AfterNothing DEF RowOf, Body
  <2> HIDE DEF t
  <2>3. FeedWide(After(<<>>, need), t, NL, need) = After(<<>> \o t, need)
    BY <2>1, FeedWideExact
  <2>4. <<>> \o t = t
    BY <2>1, ConcatEmptySeq
  <2> QED
    BY <2>2, <2>3, <2>4 DEF After
<1> QED
  BY <1>1, <1>2, <1>3

\* Lines are printed only of a file that holds a word.
LEMMA LinesHeld ==
  ASSUME AreTexts(find.words), NEW S, NEW text \in Seq(S), LinesOf(text) # <<>>
  PROVE  Held(find.words, Body(text))
<1>1. CASE ~ IsWide(text)
  BY <1>1, RegionHeld DEF LinesOf, Body
<1>2. CASE IsWide(text)
  <2>1. Tail(text) \in Seq(S) /\ Body(text) = Tail(text)
    BY <1>2, HeadTailProperties DEF IsWide, Body
  <2>2. CASE Small(Tail(text))
    BY <1>2, <2>1, <2>2, RegionHeld DEF LinesOf
  <2>3. CASE ~ Small(Tail(text))
    BY <1>2, <2>1, <2>3, ByLineHeld DEF LinesOf
  <2> QED
    BY <2>2, <2>3
<1> QED
  BY <1>1, <1>2

-----------------------------------------------------------------------------
(* From chunk to chunk.                                                    *)

\* The last newline is in the text, if there is one.
LEMMA LastNewlineIn ==
  ASSUME NEW S, NEW text \in Seq(S)
  PROVE  LastNewline(text) \in 0..Len(text)
<1> DEFINE N == Newlines(text)
           M == Len(text)
           gaps == {M - q : q \in N \cup {0}}
           c == CHOOSE p \in N \cup {0} : \A q \in N : q <= p
<1>1. M \in Nat /\ DOMAIN text = 1..M
  BY LenProperties
<1>2. N \in SUBSET (1..M)
  BY <1>1 DEF Newlines
<1> HIDE DEF N, M
<1>3. gaps \in SUBSET Nat /\ gaps # {}
  BY <1>1, <1>2
<1>4. PICK p \in N \cup {0} : \A g \in gaps : M - p <= g
  <2>1. PICK g \in gaps : \A h \in gaps : g <= h
    BY <1>3, LeastNatural, Zenon
  <2> QED
    BY <2>1
<1>5. \A q \in N : q <= p
  <2> SUFFICES ASSUME NEW q \in N PROVE q <= p
    OBVIOUS
  <2>1. M - p <= M - q /\ p \in 0..M /\ q \in 0..M
    BY <1>1, <1>2, <1>4
  <2> QED
    BY <1>1, <2>1
<1>6. c \in N \cup {0}
  BY <1>5, Zenon
<1>7. LastNewline(text) = c
  BY DEF LastNewline, N
<1> HIDE DEF c
<1> QED
  BY <1>1, <1>2, <1>6, <1>7 DEF M

\* c is what the search of text leaves: past has been searched line by line,
\* what remains is carried on, and a word was found only where there is one.
Carry(found, line, enc, tail, consumed) ==
  [found |-> found, line |-> line, enc |-> enc, tail |-> tail, consumed |-> consumed]
Follows(S, words, text, c, past) ==
  /\ text \in Seq(S) /\ past \in Seq(S) /\ c.tail \in Seq(S) /\ c.found \in BOOLEAN
  /\ c = Carry(c.found, c.line, c.enc, c.tail, c.consumed)
  /\ c.enc = EncOf(text)
  /\ past \o c.tail = Body(text)
  /\ c.found => Held(words, Body(text))

\* What a step adds to past; a wide region is kept to be scanned.
Adds(S, words, text, c, past, region, found) ==
  /\ region \in Seq(S) /\ Follows(S, words, text, c, past \o region)
  /\ c.enc = "wide" => c.consumed = region
  /\ found => c.found

\* The parts of what is carried.
LEMMA CarryIs ==
  ASSUME NEW found, NEW line, NEW enc, NEW tail, NEW consumed,
         NEW c, c = Carry(found, line, enc, tail, consumed)
  PROVE  /\ c.found = found /\ c.line = line /\ c.enc = enc /\ c.tail = tail
         /\ c.consumed = consumed
BY DEF Carry

WithTail(c, x) == [c EXCEPT !.tail = x]
Restarted(c, enc) == [c EXCEPT !.consumed = <<>>, !.enc = enc]

\* What is carried, with another tail.
LEMMA CarryTail ==
  ASSUME NEW found, NEW line, NEW enc, NEW tail, NEW consumed, NEW x,
         NEW c, c = Carry(found, line, enc, tail, consumed)
  PROVE  WithTail(c, x) = Carry(found, line, enc, x, consumed)
<1> DEFINE D == {"found", "line", "enc", "tail", "consumed"}
           d == [k \in D |-> IF k = "tail" THEN x ELSE c[k]]
<1>1. c = [k \in D |-> c[k]]
  BY DEF Carry
<1>2. Carry(found, line, enc, x, consumed) = d
  BY DEF Carry
<1>3. [c EXCEPT !.tail = x] = d
  BY <1>1
<1> QED
  BY <1>2, <1>3 DEF WithTail

\* What is carried, with nothing scanned yet and another encoding.
LEMMA CarryRestarted ==
  ASSUME NEW found, NEW line, NEW enc, NEW tail, NEW consumed, NEW new,
         NEW c, c = Carry(found, line, enc, tail, consumed)
  PROVE  Restarted(c, new) = Carry(found, line, new, tail, <<>>)
<1> DEFINE D == {"found", "line", "enc", "tail", "consumed"}
           e == [k \in D |-> IF k = "enc" THEN new ELSE IF k = "consumed" THEN <<>> ELSE c[k]]
<1>1. c = [k \in D |-> c[k]]
  BY DEF Carry
<1>2. Carry(found, line, new, tail, <<>>) = e
  BY DEF Carry
<1>3. [c EXCEPT !.consumed = <<>>, !.enc = new] = e
  BY <1>1
<1> QED
  BY <1>2, <1>3 DEF Restarted

\* What is carried so follows the text.
LEMMA FollowsIs ==
  ASSUME NEW S, NEW words, NEW text \in Seq(S), NEW past \in Seq(S), NEW tail \in Seq(S),
         NEW found \in BOOLEAN, NEW line, NEW consumed,
         past \o tail = Body(text), found => Held(words, Body(text)),
         NEW c, c = Carry(found, line, EncOf(text), tail, consumed)
  PROVE  Follows(S, words, text, c, past)
<1>1. /\ c.found = found /\ c.line = line /\ c.enc = EncOf(text) /\ c.tail = tail
      /\ c.consumed = consumed
  BY CarryIs
<1>2. c = Carry(c.found, c.line, c.enc, c.tail, c.consumed)
  BY <1>1, Zenon
<1> QED
  BY <1>1, <1>2, Zenon DEF Follows

\* Searching a body up to a cut adds what is before the cut.
LEMMA BodyAdds ==
  ASSUME NEW sought, AreTexts(sought.words), NEW S, NEW text \in Seq(S), NEW past \in Seq(S),
         NEW body \in Seq(S), past \o body = Body(text),
         NEW found \in BOOLEAN, NEW line, found => Held(sought.words, Body(text)),
         NEW cut \in 0..Len(body),
         NEW c, c = SearchBody(body, cut, Carry(found, line, EncOf(text), <<>>, <<>>), sought).carry
  PROVE  \E region : Adds(S, sought.words, text, c, past, region, found)
<1> DEFINE c1 == Carry(found, line, EncOf(text), <<>>, <<>>)
           enc == EncOf(text)
<1>1. <<>> \in Seq(S) /\ past \o <<>> = past /\ Len(body) \in Nat
  BY EmptySeq, ConcatEmptySeq, LenProperties
<1>2. CASE body = <<>>
  <2>1. c = c1
    BY <1>2 DEF SearchBody
  <2>2. Adds(S, sought.words, text, c, past, <<>>, found)
    <3>1. Follows(S, sought.words, text, c, past \o <<>>)
      BY <1>1, <1>2, <2>1, FollowsIs, Zenon
    <3>2. c.found = found /\ c.consumed = <<>>
      BY <2>1, CarryIs
    <3> QED
      BY <1>1, <3>1, <3>2, Zenon DEF Adds
  <2> QED
    BY <2>2
<1>3. CASE body # <<>>
  <2> DEFINE region == SubSeq(body, 1, cut)
             rest == SubSeq(body, cut + 1, Len(body))
  <2>1. /\ 1 \in 1..(Len(body) + 1) /\ cut \in (1 - 1)..Len(body)
        /\ cut + 1 \in 1..(Len(body) + 1) /\ Len(body) \in ((cut + 1) - 1)..Len(body)
        /\ cut \in 0..Len(body) /\ Len(body) \in cut..Len(body)
    BY <1>1
  <2>2. region \in Seq(S) /\ Within(region, body)
    BY <2>1, PartWithin
  <2>3. rest \in Seq(S)
    BY <2>1, PartWithin
  <2>4. region \o rest = body
    <3>1. SubSeq(body, 1, cut) \o SubSeq(body, cut + 1, Len(body)) = SubSeq(body, 1, Len(body))
      BY <2>1, ConcatAdjacentSubSeq
    <3> QED
      BY <3>1, SubSeqFull
  <2>5. c = SearchRegion(region, rest, c1, sought).carry
    BY <1>3 DEF SearchBody
  <2> HIDE DEF region, rest
  <2>6. CASE region = <<>>
    <3>1. rest = body
      BY <2>3, <2>4, <2>6, ConcatEmptySeq
    <3>2. c = Carry(found, line, enc, body, <<>>)
      BY <2>5, <2>6, <3>1 DEF SearchRegion, Carry
    <3>3. Adds(S, sought.words, text, c, past, <<>>, found)
      <4>1. Follows(S, sought.words, text, c, past \o <<>>)
        BY <1>1, <3>2, FollowsIs, Zenon
      <4>2. c.found = found /\ c.consumed = <<>>
        BY <3>2, CarryIs
      <4> QED
        BY <1>1, <4>1, <4>2, Zenon DEF Adds
    <3> QED
      BY <3>3
  <2>7. CASE region # <<>>
    <3> DEFINE print == IF enc = "raw" THEN PrintRaw(region, sought, line)
                        ELSE PrintByLine(region, sought, line)
               now == found \/ print.out # <<>>
               eaten == IF enc = "wide" THEN region ELSE <<>>
    <3>1. c = Carry(now, print.line, enc, rest, eaten)
      BY <2>5, <2>7 DEF SearchRegion, AfterRegion, Carry
    <3>2. print.out # <<>> => Held(sought.words, region)
      <4>1. CASE enc = "raw"
        <5>1. print.out # <<>> => print.out = PrintRegion(region, sought, line).out
          BY <4>1 DEF PrintRaw
        <5> HIDE DEF print
        <5> QED
          BY <2>2, <5>1, RegionHeld
      <4>2. CASE enc # "raw"
        <5>1. print = PrintByLine(region, sought, line)
          BY <4>2
        <5> HIDE DEF print
        <5> QED
          BY <2>2, <5>1, ByLineHeld
      <4> QED
        BY <4>1, <4>2
    <3> HIDE DEF print, enc
    <3>3. Held(sought.words, region) => Held(sought.words, Body(text))
      <4>1. Within(body, past \o body)
        BY HalvesWithin
      <4>2. Body(text) \in Seq(S) /\ Within(body, Body(text))
        BY <4>1, BodyType
      <4>3. Within(region, Body(text))
        BY <2>2, <4>2, WithinWithin
      <4> QED
        BY <2>2, <4>2, <4>3, HeldWithin
    <3>4. (past \o region) \o rest = Body(text) /\ past \o region \in Seq(S)
      <4>1. (past \o region) \o rest = past \o (region \o rest)
        BY ONLY past \in Seq(S), <2>2, <2>3, Regrouped, SMTT(30)
      <4> QED
        BY <2>2, <2>4, <4>1, ConcatProperties
    <3>5. now \in BOOLEAN /\ (now => Held(sought.words, Body(text)))
      BY <3>2, <3>3
    <3> HIDE DEF now
    <3>6. Follows(S, sought.words, text, c, past \o region)
      BY <2>3, <3>1, <3>4, <3>5, FollowsIs, Zenon DEF enc
    <3>7. c.enc = "wide" => c.consumed = region
      BY <3>1 DEF Carry
    <3>8. found => c.found
      <4>1. c.found = now
        BY <3>1, CarryIs
      <4> QED
        BY <4>1 DEF now
    <3> QED
      BY <2>2, <3>6, <3>7, <3>8 DEF Adds
  <2> QED
    BY <2>6, <2>7
<1> QED
  BY <1>2, <1>3

\* ChunkFollows: a chunk goes on where the data before it ended.
LEMMA ChunkFollows ==
  ASSUME NEW sought, AreTexts(sought.words), NEW S, NEW text, NEW got \in Seq(S),
         NEW past, NEW old, Follows(S, sought.words, text, old, past), NEW last,
         NEW c, c = InChunk(old.tail \o got, [old EXCEPT !.tail = <<>>], last, sought).carry
  PROVE  \E region : Adds(S, sought.words, text \o got, c, past, region, old.found)
<1> DEFINE data == old.tail \o got
           c1 == [old EXCEPT !.tail = <<>>]
           all == text \o got
           body == AfterMark(c1, data)
           words == sought.words
<1>1. /\ text \in Seq(S) /\ past \in Seq(S) /\ old.tail \in Seq(S) /\ old.found \in BOOLEAN
      /\ old = Carry(old.found, old.line, old.enc, old.tail, old.consumed)
      /\ old.enc = EncOf(text) /\ past \o old.tail = Body(text)
      /\ old.found => Held(words, Body(text))
  BY DEF Follows
<1>2. c1 = Carry(old.found, old.line, old.enc, <<>>, old.consumed)
  <2> DEFINE f == old.found
             l == old.line
             e == old.enc
             t == old.tail
             k == old.consumed
  <2>1. old = Carry(f, l, e, t, k)
    BY <1>1
  <2> HIDE DEF f, l, e, t, k
  <2>2. c1 = Carry(f, l, e, <<>>, k)
    <3>1. WithTail(old, <<>>) = Carry(f, l, e, <<>>, k)
      BY <2>1, CarryTail
    <3> QED
      BY <3>1, Zenon DEF WithTail
  <2> QED
    BY <2>2 DEF f, l, e, t, k
<1>3. data \in Seq(S) /\ all \in Seq(S) /\ Body(all) \in Seq(S) /\ <<>> \in Seq(S)
  BY <1>1, ConcatProperties, BodyType, EmptySeq
<1>4. old.found => Held(words, Body(all))
  <2> SUFFICES ASSUME old.found PROVE Held(words, Body(all))
    OBVIOUS
  <2>1. Held(words, Body(text))
    BY <1>1
  <2>2. CASE text = <<>>
    <3>1. PICK w \in words : Within(w, <<>>)
      BY <2>1, <2>2, BodyType, <1>3 DEF Held
    <3>2. w \in Seq(Range(w))
      BY DEF AreTexts
    <3>3. <<>> \o Body(all) = Body(all) /\ Within(<<>>, <<>> \o Body(all))
      BY <1>3, ConcatEmptySeq, HalvesWithin
    <3> HIDE DEF all
    <3>4. Within(w, Body(all))
      BY <1>3, <3>1, <3>2, <3>3, WithinWithin
    <3> QED
      BY <3>4 DEF Held
  <2>3. CASE text # <<>>
    <3>1. Body(all) = Body(text) \o got /\ Body(text) \in Seq(S)
      BY <1>1, <2>3, BodyGrows, BodyType
    <3>2. Within(Body(text), Body(all))
      BY <3>1, HalvesWithin
    <3> HIDE DEF all, words
    <3> QED
      BY <1>3, <2>1, <3>1, <3>2, HeldWithin DEF words
  <2> QED
    BY <2>2, <2>3
<1>5. data # <<>> => /\ Sniffed(c1, data) = EncOf(all)
                     /\ body \in Seq(S) /\ past \o body = Body(all)
  <2> SUFFICES ASSUME data # <<>>
               PROVE  /\ Sniffed(c1, data) = EncOf(all)
                      /\ body \in Seq(S) /\ past \o body = Body(all)
    OBVIOUS
  <2>1. c1.enc = EncOf(text)
    BY <1>1, <1>2 DEF Carry
  <2>2. CASE text = <<>>
    <3>1. past = <<>> /\ old.tail = <<>>
      <4>1. past \o old.tail = <<>>
        BY <1>1, <2>2, BodyType
      <4> QED
        BY <1>1, <4>1, ConcatEqualIffEmpty
    <3>2. data = got /\ all = got
      BY <2>2, <3>1, ConcatEmptySeq
    <3> HIDE DEF data, c1, all
    <3>3. c1.enc = "unknown"
      BY <2>1, <2>2 DEF EncOf
    <3>4. Sniffed(c1, data) = EncOf(all)
      BY <3>2, <3>3 DEF Sniffed, EncOf
    <3>5. body = Body(all)
      BY <3>2, <3>3 DEF AfterMark, Body
    <3>6. <<>> \o Body(all) = Body(all)
      BY <1>3, ConcatEmptySeq
    <3> QED
      BY <1>3, <3>1, <3>4, <3>5, <3>6
  <2>3. CASE text # <<>>
    <3>1. EncOf(all) = EncOf(text) /\ Body(all) = Body(text) \o got
      BY <1>1, <2>3, BodyGrows
    <3>2. EncOf(text) # "unknown"
      BY <2>3 DEF EncOf
    <3>3. past \o data = Body(all)
      <4>1. (past \o old.tail) \o got = past \o (old.tail \o got)
        <5> DEFINE u == old.tail
        <5>1. past \in Seq(S) /\ u \in Seq(S) /\ got \in Seq(S)
          BY <1>1
        <5> HIDE DEF u
        <5>2. (past \o u) \o got = past \o (u \o got)
          BY ONLY <5>1, Regrouped, SMTT(30)
        <5> QED
          BY <5>2 DEF u
      <4> QED
        BY <1>1, <3>1, <4>1
    <3> HIDE DEF data, c1, all
    <3>4. Sniffed(c1, data) = EncOf(all) /\ body = data
      BY <2>1, <3>1, <3>2 DEF Sniffed, AfterMark
    <3> QED
      BY <1>3, <3>3, <3>4
  <2> QED
    BY <2>2, <2>3
<1>6. CASE data = <<>>
  <2>1. got = <<>> /\ old.tail = <<>>
    BY <1>1, <1>6, ConcatEqualIffEmpty
  <2>2. all = text /\ past \o <<>> = past
    BY <1>1, <2>1, ConcatEmptySeq
  <2>3. c = Carry(old.found, old.line, old.enc, <<>>, <<>>)
    BY <1>2, <1>6 DEF InChunk, Carry
  <2> HIDE DEF all
  <2>4. Adds(S, words, all, c, past, <<>>, old.found)
    <3>1. Follows(S, words, all, c, past \o <<>>)
      BY <1>1, <1>3, <2>1, <2>2, <2>3, FollowsIs, ZenonT(30)
    <3>2. c.found = old.found /\ c.consumed = <<>>
      BY <2>3, CarryIs
    <3> QED
      BY <1>3, <3>1, <3>2, Zenon DEF Adds
  <2> QED
    BY <2>4 DEF all
<1>7. CASE data # <<>>
  <2> DEFINE cut == Cut(body, last)
             c2 == Carry(old.found, old.line, EncOf(all), <<>>, <<>>)
  <2>1. body \in Seq(S) /\ past \o body = Body(all) /\ Sniffed(c1, data) = EncOf(all)
    BY <1>5, <1>7
  <2>2. cut \in 0..Len(body)
    <3> HIDE DEF body
    <3>1. Len(body) \in Nat /\ LastNewline(body) \in 0..Len(body)
      BY <2>1, LenProperties, LastNewlineIn
    <3> QED
      BY <3>1 DEF Cut
  <2>3. c = SearchBody(body, cut, c2, sought).carry
    <3>1. [c1 EXCEPT !.consumed = <<>>, !.enc = EncOf(all)] = c2
      <4> DEFINE y == EncOf(all)
                 f == old.found
                 l == old.line
                 e == old.enc
                 k == old.consumed
      <4>1. c1 = Carry(f, l, e, <<>>, k)
        BY <1>2
      <4> HIDE DEF c1, y, f, l, e, k
      <4>2. [c1 EXCEPT !.consumed = <<>>, !.enc = y] = Carry(f, l, y, <<>>, <<>>)
        <5>1. Restarted(c1, y) = Carry(f, l, y, <<>>, <<>>)
          BY <4>1, CarryRestarted
        <5> QED
          BY <5>1, Zenon DEF Restarted
      <4> QED
        BY <4>2 DEF y, f, l
    <3> HIDE DEF c2, all, c1, data
    <3>2. InChunk(data, c1, last, sought) = SearchBody(body, cut, c2, sought)
      BY <1>7, <2>1, <3>1 DEF InChunk
    <3> QED
      BY <3>2 DEF c1, data
  <2> HIDE DEF body, cut, all, data, c1, words
  <2> QED
    BY <1>1, <1>3, <1>4, <2>1, <2>2, <2>3, BodyAdds DEF words, all
<1> QED
  BY <1>6, <1>7

\* While it is kept, the presence is that of what has been scanned: of wide text
\* what was searched, of other text all that was read.
Traces(c, acc, text, past) ==
  Tracks /\ ~ (c.found /\ need.single) =>
    acc = After(IF c.enc = "wide" THEN past ELSE text, need)

\* The row keeps up with what is read, although wide text is scanned as far as it
\* is decoded and other text all at once.
LEMMA PresenceKeeps ==
  ASSUME NEW S, NEW text, NEW got \in Seq(S), NEW past, NEW old,
         Follows(S, find.words, text, old, past), need.len \in Nat \ {0},
         NEW region, NEW c, Adds(S, find.words, text \o got, c, past, region, old.found),
         Traces(old, presence, text, past)
  PROVE  Traces(c, FeedPresence(c, got), text \o got, past \o region)
<1> SUFFICES ASSUME Tracks, ~ (c.found /\ need.single)
             PROVE  FeedPresence(c, got)
                      = After(IF c.enc = "wide" THEN past \o region ELSE text \o got, need)
  BY DEF Traces
<1>1. /\ text \in Seq(S) /\ past \in Seq(S) /\ old.enc = EncOf(text)
      /\ past \o old.tail = Body(text) /\ old.tail \in Seq(S)
  BY DEF Follows
<1>2. region \in Seq(S) /\ c.enc = EncOf(text \o got) /\ (old.found => c.found)
      /\ (c.enc = "wide" => c.consumed = region)
  BY DEF Adds, Follows
<1>3. presence = After(IF old.enc = "wide" THEN past ELSE text, need)
  BY <1>2 DEF Traces
<1>4. text = <<>> => past = <<>> /\ old.enc = "unknown"
  <2> SUFFICES ASSUME text = <<>> PROVE past = <<>> /\ old.enc = "unknown"
    OBVIOUS
  <2>1. past \o old.tail = <<>>
    BY <1>1, BodyType
  <2> QED
    BY <1>1, <2>1, ConcatEqualIffEmpty DEF EncOf
<1>5. text # <<>> => c.enc = old.enc
  BY <1>1, <1>2, BodyGrows
<1>6. CASE c.enc = "wide"
  <2>1. presence = After(past, need)
    BY <1>3, <1>4, <1>5, <1>6
  <2>2. FeedPresence(c, got) = FeedWide(presence, region, NL, need)
    BY <1>2, <1>6 DEF FeedPresence
  <2>3. FeedWide(After(past, need), region, NL, need) = After(past \o region, need)
    BY <1>1, <1>2, FeedWideExact
  <2> QED
    BY <1>6, <2>1, <2>2, <2>3
<1>7. CASE c.enc # "wide"
  <2>1. presence = After(text, need)
    BY <1>3, <1>4, <1>5, <1>7
  <2>2. FeedPresence(c, got) = Feed(presence, got, need)
    BY <1>7 DEF FeedPresence
  <2>3. Feed(After(text, need), got, need) = After(text \o got, need)
    BY <1>1, FeedExact, Zenon DEF After
  <2> QED
    BY <1>7, <2>1, <2>2, <2>3
<1> QED
  BY <1>6, <1>7

\* What is read, carried and found present.
Reads(S, text, past, c, acc) ==
  Follows(S, find.words, text, c, past) /\ Traces(c, acc, text, past)

\* Searching new bytes keeps what has been read apart.
LEMMA SearchStep ==
  ASSUME AreTexts(find.words), need.len \in Nat \ {0}, NEW S, NEW text, NEW past, NEW old,
         Reads(S, text, past, old, presence), NEW got \in Seq(S), NEW last,
         SearchChunk(old.tail \o got, got, [old EXCEPT !.tail = <<>>], last)
  PROVE  \E now : Reads(S, text \o got, now, carry', presence')
<1> DEFINE before == [old EXCEPT !.tail = <<>>]
           in == InChunk(old.tail \o got, before, last, find)
<1>1. Follows(S, find.words, text, old, past) /\ Traces(old, presence, text, past)
  BY DEF Reads
<1>2. carry' = in.carry /\ presence' = FeedPresence(in.carry, got)
  BY DEF SearchChunk
<1> DEFINE c == in.carry
<1>3. PICK region : Adds(S, find.words, text \o got, c, past, region, old.found)
  <2>1. c = InChunk(old.tail \o got, [old EXCEPT !.tail = <<>>], last, find).carry
    OBVIOUS
  <2> HIDE DEF c, in, before
  <2> QED
    BY <1>1, <2>1, ChunkFollows
<1> HIDE DEF c, in, before
<1>4. Traces(c, FeedPresence(c, got), text \o got, past \o region)
  BY <1>1, <1>3, PresenceKeeps
<1>5. Follows(S, find.words, text \o got, c, past \o region)
  BY <1>3 DEF Adds
<1>6. carry' = c /\ presence' = FeedPresence(c, got)
  BY <1>2 DEF c
<1>7. Reads(S, text \o got, past \o region, carry', presence')
  <2>1. Reads(S, text \o got, past \o region, c, FeedPresence(c, got))
    BY <1>4, <1>5 DEF Reads
  <2> QED
    BY <1>6, <2>1, Zenon
<1> QED
  BY <1>7

Empty == [row |-> {}, seam |-> <<>>]

\* Before the first chunk nothing is read.
LEMMA NothingRead ==
  ASSUME need.len \in Nat \ {0}, NEW S
  PROVE  Reads(S, <<>>, <<>>, NoCarry, Empty)
<1>1. NoCarry = Carry(FALSE, 1, EncOf(<<>>), <<>>, <<>>) /\ <<>> \in Seq(S)
  BY EmptySeq DEF NoCarry, Carry, EncOf
<1>2. <<>> \o <<>> = Body(<<>>)
  BY <1>1, BodyType, ConcatEmptySeq
<1>3. Follows(S, find.words, <<>>, NoCarry, <<>>)
  BY <1>1, <1>2, FollowsIs, Zenon
<1>4. Traces(NoCarry, Empty, <<>>, <<>>)
  BY AfterNothing DEF Traces, Empty
<1> QED
  BY <1>3, <1>4 DEF Reads

\* A match says that all fragments are there when there is one text to be found.
Required == need.single /\ need.frags # {} => \A w \in find.words : Scan(w, need) = need.frags

\* If there is one text to be found, a text that holds a word holds all fragments.
LEMMA HeldScan ==
  ASSUME need.len \in Nat \ {0}, AreTexts(find.words), Required, need.single,
         NEW S, NEW text \in Seq(S), Held(find.words, text)
  PROVE  Scan(text, need) = need.frags
<1>1. Scan(text, need) \subseteq need.frags
  BY DEF Scan
<1>2. CASE need.frags = {}
  BY <1>1, <1>2
<1>3. CASE need.frags # {}
  <2>1. PICK w \in find.words : Within(w, text)
    BY DEF Held
  <2>2. w \in Seq(Range(w)) /\ Scan(w, need) = need.frags
    BY <1>3 DEF AreTexts, Required
  <2>3. Scan(w, need) \subseteq Scan(text, need)
    BY <2>1, <2>2, WithinScan, Zenon
  <2> QED
    BY <1>1, <2>2, <2>3
<1> QED
  BY <1>2, <1>3

\* Held stays when more is read.
LEMMA BodyHeld ==
  ASSUME AreTexts(find.words), NEW S, NEW text \in Seq(S), NEW more \in Seq(S),
         Held(find.words, Body(text))
  PROVE  Held(find.words, Body(text \o more))
<1> DEFINE all == text \o more
<1>1. all \in Seq(S) /\ Body(all) \in Seq(S) /\ <<>> \in Seq(S) /\ Body(text) \in Seq(S)
  BY ConcatProperties, BodyType, EmptySeq
<1>2. Within(Body(text), Body(all))
  <2>1. CASE text = <<>>
    <3>1. Body(text) = <<>>
      BY <2>1, <1>1, BodyType
    <3>2. <<>> \o Body(all) = Body(all) /\ Within(<<>>, <<>> \o Body(all))
      BY <1>1, ConcatEmptySeq, HalvesWithin
    <3> HIDE DEF all
    <3> QED
      BY <3>1, <3>2
  <2>2. CASE text # <<>>
    <3>1. Body(all) = Body(text) \o more
      BY <2>2, BodyGrows
    <3> HIDE DEF all
    <3> QED
      BY <1>1, <3>1, HalvesWithin
  <2> QED
    BY <2>1, <2>2
<1> HIDE DEF all
<1>3. Held(find.words, Body(all))
  BY <1>1, <1>2, HeldWithin
<1> QED
  BY <1>3 DEF all

\* RowRight: what EndStreaming records for a file of which text has been read.
LEMMA RowRight ==
  ASSUME AreTexts(find.words), need.len \in Nat \ {0}, Required,
         NEW S, NEW text, NEW past, NEW c, NEW acc, Reads(S, text, past, c, acc), c.tail = <<>>,
         NEW more \in Seq(S)
  PROVE  /\ c.found /\ need.single => Scan(Body(text \o more), need) = need.frags
         /\ Tracks /\ ~ (c.found /\ need.single) => acc.row = Scan(Body(text), need)
<1>1. Follows(S, find.words, text, c, past) /\ Traces(c, acc, text, past)
  BY DEF Reads
<1>2. /\ text \in Seq(S) /\ past \in Seq(S) /\ c.enc = EncOf(text) /\ past \o c.tail = Body(text)
      /\ c.found => Held(find.words, Body(text))
  BY <1>1 DEF Follows
<1>3. past = Body(text)
  BY <1>2, ConcatEmptySeq
<1>4. ASSUME c.found, need.single PROVE Scan(Body(text \o more), need) = need.frags
  <2>1. Held(find.words, Body(text \o more))
    BY <1>2, <1>4, BodyHeld
  <2>2. Body(text \o more) \in Seq(S)
    BY <1>2, BodyGrows, BodyType
  <2> QED
    BY <1>4, <2>1, <2>2, HeldScan
<1>5. ASSUME Tracks, ~ (c.found /\ need.single) PROVE acc.row = Scan(Body(text), need)
  <2>1. acc.row = Scan(IF c.enc = "wide" THEN past ELSE text, need)
    BY <1>1, <1>5 DEF Traces, After
  <2>2. c.enc # "wide" => Body(text) = text
    BY <1>2 DEF EncOf, Body, IsWide
  <2> QED
    BY <1>3, <2>1, <2>2
<1> QED
  BY <1>4, <1>5

\* A streamed file whose probe is not misled and whose first byte can be read.
Startable(n) ==
  /\ SearchesBinary \/ ~ Doubled(n, n.size)
  /\ Sound(n) # <<>> \/ Content(n) = <<>>

\* A file that has a readable beginning, or none at all, has a readable first byte.
LEMMA FirstSound ==
  ASSUME DeviceFormed, ~ OnNtfs(img), NEW n, n.kind \in {"extents", "direct"}, FileFormed(n),
         Sound(n) # <<>> \/ Content(n) = <<>>
  PROVE  1 \notin BadPlaces(n)
<1> DEFINE p == Places(n, n.size)
           t == Content(n)
           bad == BadPlaces(n)
           c == CHOOSE k \in bad \cup {Len(t) + 1} : \A j \in bad : k <= j
<1> SUFFICES ASSUME 1 \in bad PROVE FALSE
  OBVIOUS
<1>1. p \in Seq(PlacesOn(img.bytes))
  <2>1. p = FirstOf(ExtentPlaces(n), n.size) /\ n.size \in Nat
    BY DEF Places, FileFormed
  <2>2. ExtentPlaces(n) \in Seq(PlacesOn(img.bytes))
    BY Ext4Places
  <2> QED
    BY <2>1, <2>2, FirstIs
<1>2. t = [k \in DOMAIN p |-> img.bytes[p[k]]]
  BY DEF Content, ContentTo, BytesAt
<1>3. bad \subseteq DOMAIN p
  BY DEF BadPlaces, BadAmong
<1>4. Sound(n) = FirstOf(t, c - 1)
  BY DEF Sound, Before
<1> HIDE DEF p, t, bad
<1>5. DOMAIN p = 1..Len(p) /\ Len(p) \in Nat
  BY <1>1, LenProperties
<1>6. Len(t) = Len(p)
  BY <1>2, <1>5
<1>7. Len(t) \in Nat \ {0} /\ t # <<>>
  BY <1>2, <1>3, <1>5, <1>6
<1>8. c \in bad \cup {Len(t) + 1} /\ \A j \in bad : c <= j
  <2>1. 1 \in bad \cup {Len(t) + 1} /\ \A j \in bad : 1 <= j
    BY <1>3, <1>5
  <2> QED
    BY <2>1, Zenon
<1> HIDE DEF c
<1>9. c = 1
  BY <1>3, <1>5, <1>7, <1>8
<1>10. FirstOf(t, 0) = <<>>
  <2>1. FirstOf(t, 0) = SubSeq(t, 1, 0)
    BY <1>7 DEF FirstOf
  <2> QED
    BY <2>1, SubSeqEmpty
<1> QED
  BY <1>4, <1>7, <1>9, <1>10 DEF t

\* StreamCovers: what is planned for a streamed file is the file.
THEOREM StreamCovers ==
  ASSUME DeviceFormed, NEW n, FileFormed(n), n # Poisoned, n.size \in Nat, n.size >= StreamMin,
         Startable(n), NEW likely,
         NEW plan, plan = CollectChunks(img, n, n.size, ~ SearchesBinary, likely),
         ~ plan.failed, ~ plan.rejected
  PROVE  Covers(plan, n, n.size)
<1> DEFINE max == n.size
           check == ~ SearchesBinary
<1>1. check \in BOOLEAN /\ max \in 1..n.size /\ max \in 0..n.size /\ StreamMin \in Nat \ {0}
  BY SizeAssumption
<1>2. ~ (check /\ Doubled(n, n.size))
  BY DEF Startable
<1>3. n.kind \notin {"inline", "resident"}
  BY <1>1 DEF FileFormed
<1>4. CASE OnNtfs(img) /\ n.kind = "runs"
  <2> HIDE DEF check
  <2> QED
    BY <1>1, <1>2, <1>4, NtfsCovers DEF check
<1>5. CASE ~ OnNtfs(img)
  <2>1. n.kind \in {"extents", "direct"}
    BY <1>3, <1>5 DEF FileFormed
  <2>2. 1 \notin BadPlaces(n)
    BY <1>5, <2>1, FirstSound DEF Startable
  <2>3. ~ CollectChunks(img, n, max, check, likely).rejected
    OBVIOUS
  <2>4. plan = CollectChunks(img, n, max, check, likely)
    OBVIOUS
  <2> HIDE DEF check, max
  <2>5. Covers(CollectChunks(img, n, max, check, likely), n, max)
    BY <1>1, <1>5, <2>1, <2>2, <2>3, Ext4Covers
  <2> QED
    BY <2>4, <2>5 DEF max
<1>6. CASE OnNtfs(img) /\ n.kind # "runs"
  <2>1. n.kind \in {"damaged", "nodata", "dir"}
    BY <1>3, <1>6 DEF FileFormed
  <2>2. plan = IF n.kind = "damaged" THEN Failed ELSE NoPlan
    BY <1>6 DEF CollectChunks, CollectRuns
  <2>3. plan = NoPlan
    BY <2>2 DEF Failed, NoPlan
  <2>4. plan.head = <<>> /\ plan.chunks = <<>>
    BY <2>3 DEF NoPlan
  <2>5. ContentTo(n, n.size) = <<>>
    BY <2>1 DEF ContentTo, Places, BytesAt
  <2>6. <<>> \in Seq(Range(img.bytes)) /\ <<>> \o <<>> = <<>>
    BY EmptySeq, ConcatEmptySeq
  <2> QED
    BY <2>4, <2>5, <2>6, NoChunk DEF Covers
<1> QED
  BY <1>4, <1>5, <1>6

SumStep(none, n, c) == n + c.len
Summing == INSTANCE FoldSteps WITH step <- SumStep

\* What is planned in bytes.
LEMMA PlannedIs ==
  ASSUME NEW B, NEW bytes \in Seq(B), NEW cs \in Seq(ChunksOn(bytes)), NEW k \in Nat
  PROVE  FoldLeft(LAMBDA n, c : n + c.len, k, cs) = k + Len(BytesOf(bytes, cs))
<1> DEFINE n == Len(cs)
           es == Extracts(bytes, cs)
<1>1. n \in Nat /\ DOMAIN cs = 1..n /\ \A i \in 1..n : cs[i] \in ChunksOn(bytes)
  BY LenProperties, ElementOfSeq
<1>2. FoldLeft(LAMBDA m, c : m + c.len, k, cs) = Summing!Fold({}, k, cs)
  BY DEF Summing!Fold, SumStep, FoldLeft, MapThenFoldSet, Max, Summing!Greatest
<1>3. PICK h : Summing!IsFold({}, k, cs, h) /\ Summing!Fold({}, k, cs) = h[n]
  BY <1>1, Summing!FoldIs, Zenon
<1>4. h[0] = k /\ \A i \in 1..n : h[i] = h[i - 1] + cs[i].len
  BY <1>3, Zenon DEF Summing!IsFold, SumStep
<1>5. /\ es \in Seq(Seq(B)) /\ Len(es) = n
      /\ \A i \in 1..n : es[i] = Extract(bytes, cs[i].at, cs[i].len)
  BY ExtractsType
<1> HIDE DEF n, es
<1>6. PICK g : IsFlattening(B, es, g)
  BY <1>5, FlatteningExists
<1>7. FlattenSeq(es) = g[n]
  BY <1>5, <1>6, FlatteningIs
<1>8. /\ g[0] = <<>> /\ \A i \in 1..n : g[i] = g[i - 1] \o es[i]
      /\ \A i \in 0..n : g[i] \in Seq(B)
  BY <1>5, <1>6, Zenon DEF IsFlattening
<1> DEFINE T == {i \in 0..n : h[i] = k + Len(g[i])}
<1>9. 0 \in T
  <2>1. Len(g[0]) = 0 /\ 0 \in 0..n
    BY <1>1, <1>8, EmptySeq
  <2> QED
    BY <1>4, <2>1
<1>10. ASSUME NEW i \in 1..n, i - 1 \in T PROVE i \in T
  <2>1. i \in 0..n /\ i - 1 \in 0..n /\ h[i - 1] = k + Len(g[i - 1])
    BY <1>1, <1>10
  <2>2. cs[i].at \in Nat /\ cs[i].len \in Nat /\ cs[i].at + cs[i].len <= Len(bytes)
    BY <1>1 DEF ChunksOn
  <2>3. es[i] \in Seq(B) /\ Len(es[i]) = cs[i].len
    <3> DEFINE a == cs[i].at
               l == cs[i].len
    <3>1. a \in Nat /\ l \in Nat /\ a + l <= Len(bytes) /\ es[i] = Extract(bytes, a, l)
      BY <1>5, <2>2
    <3> HIDE DEF a, l
    <3>2. Extract(bytes, a, l) \in Seq(B) /\ Len(Extract(bytes, a, l)) = l
      BY <3>1, ExtractIs
    <3> QED
      BY <3>1, <3>2 DEF l
  <2>4. g[i] = g[i - 1] \o es[i] /\ g[i - 1] \in Seq(B)
    BY <1>8, <2>1
  <2>5. Len(g[i]) = Len(g[i - 1]) + cs[i].len /\ Len(g[i - 1]) \in Nat
    <3> DEFINE x == g[i - 1]
               y == es[i]
    <3>1. x \in Seq(B) /\ y \in Seq(B) /\ g[i] = x \o y /\ Len(y) = cs[i].len
      BY <2>3, <2>4
    <3> HIDE DEF x, y
    <3>2. Len(x \o y) = Len(x) + Len(y) /\ Len(x) \in Nat
      BY <3>1, ConcatProperties, LenProperties
    <3> QED
      BY <3>1, <3>2 DEF x
  <2>6. h[i] = h[i - 1] + cs[i].len
    BY <1>4
  <2> DEFINE a == Len(g[i - 1])
             b == cs[i].len
  <2>7. h[i] = (k + a) + b /\ Len(g[i]) = a + b /\ a \in Nat /\ b \in Nat
    BY <2>1, <2>2, <2>5, <2>6
  <2> HIDE DEF a, b
  <2> QED
    BY <2>1, <2>7
<1>11. h[n] = k + Len(g[n])
  <2> HIDE DEF T
  <2>1. \A i \in 0..n : i \in T
    BY <1>1, <1>9, <1>10, Upwards, Zenon
  <2>2. n \in T
    BY <1>1, <2>1
  <2> QED
    BY <2>2 DEF T
<1> QED
  BY <1>2, <1>3, <1>7, <1>11 DEF es, BytesOf

\* The first chunk and the others.
LEMMA FirstChunk ==
  ASSUME NEW B, NEW bytes \in Seq(B), NEW cs \in Seq(ChunksOn(bytes)), cs # <<>>
  PROVE  /\ Head(cs) \in ChunksOn(bytes) /\ Tail(cs) \in Seq(ChunksOn(bytes))
         /\ BytesOf(bytes, cs) = Extract(bytes, Head(cs).at, Head(cs).len) \o BytesOf(bytes, Tail(cs))
<1> DEFINE c == Head(cs)
           tl == Tail(cs)
<1>1. c \in ChunksOn(bytes) /\ tl \in Seq(ChunksOn(bytes)) /\ cs = <<c>> \o tl
  <2>1. c = cs[1] /\ tl \in Seq(ChunksOn(bytes)) /\ cs = <<cs[1]>> \o tl
    BY HeadTailProperties, HeadAndTail
  <2>2. 1 \in 1..Len(cs)
    <3>1. Len(cs) \in Nat /\ Len(cs) # 0
      BY EmptySeq, LenProperties
    <3> QED
      BY <3>1
  <2> QED
    BY <2>1, <2>2, ElementOfSeq
<1> HIDE DEF c, tl
<1>2. <<c>> \in Seq(ChunksOn(bytes)) /\ BytesOf(bytes, <<c>>) = Extract(bytes, c.at, c.len)
  BY <1>1, OneChunk
<1>3. BytesOf(bytes, <<c>> \o tl) = BytesOf(bytes, <<c>>) \o BytesOf(bytes, tl)
  BY <1>1, <1>2, BytesOfConcat
<1>4. BytesOf(bytes, cs) = Extract(bytes, c.at, c.len) \o BytesOf(bytes, tl)
  BY <1>1, <1>2, <1>3
<1> QED
  BY <1>1, <1>4 DEF c, tl

-----------------------------------------------------------------------------
(* What a read of the device gets.                                         *)

\* A read ends in the stretch it is asked for, at its end if no block is bad.
LEMMA ReadEndIn ==
  ASSUME img.bytes \in Seq(Range(img.bytes)), NEW at \in Nat, NEW len \in Nat,
         at + len <= Len(img.bytes)
  PROVE  /\ ReadEnd(img, at, len) \in at..(at + len)
         /\ (\A p \in at..(at + len - 1) : BlockOf(p) \notin img.bad)
              => ReadEnd(img, at, len) = at + len
<1> DEFINE upto == Least(at + len, Len(img.bytes))
           bads == {p \in at..(upto - 1) : BlockOf(p) \in img.bad}
           c == CHOOSE p \in bads : \A q \in bads : p <= q
<1>1. upto = at + len
  BY DEF Least
<1>2. ReadEnd(img, at, len) = IF bads = {} THEN upto ELSE c
  BY DEF ReadEnd
<1>3. bads \in SUBSET (at..(at + len - 1))
  BY <1>1
<1>4. bads # {} => c \in bads
  <2>1. bads \in SUBSET Nat
    BY <1>3
  <2> HIDE DEF bads
  <2> QED
    BY <2>1, LeastNatural
<1>5. (\A p \in at..(at + len - 1) : BlockOf(p) \notin img.bad) => bads = {}
  BY <1>1
<1> HIDE DEF bads, c, upto
<1>6. ReadEnd(img, at, len) \in at..(at + len)
  <2>1. CASE bads = {}
    BY <1>1, <1>2, <2>1
  <2>2. CASE bads # {}
    <3>1. c \in at..(at + len - 1)
      BY <1>3, <1>4, <2>2
    <3>2. ReadEnd(img, at, len) = c
      BY <1>2, <2>2
    <3> QED
      BY <3>1, <3>2
  <2> QED
    BY <2>1, <2>2
<1> QED
  BY <1>1, <1>2, <1>5, <1>6

\* A read gets the beginning of its stretch, all of it if no block is bad.
LEMMA ReadAtIs ==
  ASSUME img.bytes \in Seq(Range(img.bytes)), NEW at \in Nat, NEW len \in Nat,
         at + len <= Len(img.bytes)
  PROVE  /\ \E m \in 0..len : ReadAt(img, at, len) = Extract(img.bytes, at, m)
         /\ (\A p \in at..(at + len - 1) : BlockOf(p) \notin img.bad)
              => ReadAt(img, at, len) = Extract(img.bytes, at, len)
<1> DEFINE e == ReadEnd(img, at, len)
<1>1. /\ e \in at..(at + len)
      /\ (\A p \in at..(at + len - 1) : BlockOf(p) \notin img.bad) => e = at + len
  BY ReadEndIn
<1>2. ReadAt(img, at, len) = SubSeq(img.bytes, at + 1, e)
  BY DEF ReadAt
<1> HIDE DEF e
<1>3. PICK m \in 0..len : at + m = e
  <2>1. e - at \in 0..len /\ at + (e - at) = e
    BY <1>1
  <2> QED
    BY <2>1
<1>4. ReadAt(img, at, len) = Extract(img.bytes, at, m)
  BY <1>2, <1>3 DEF Extract
<1> QED
  BY <1>1, <1>2, <1>4 DEF Extract

\* What a chunk's reads deliver is the chunk's beginning.
LEMMA DeliveredIs ==
  ASSUME img.bytes \in Seq(Range(img.bytes)), NEW c \in ChunksOn(img.bytes)
  PROVE  \E m \in 0..c.len : Delivered(c) = Extract(img.bytes, c.at, m)
<1>1. c.at \in Nat /\ c.len \in Nat /\ c.at + c.len <= Len(img.bytes)
  BY DEF ChunksOn
<1>2. CASE Fails(img, c.at)
  <2>1. Extract(img.bytes, c.at, 0) = <<>> /\ 0 \in 0..c.len
    <3>1. c.at <= Len(img.bytes)
      BY <1>1, LenProperties
    <3> QED
      BY <1>1, <3>1, NoExtract
  <2> QED
    BY <1>2, <2>1 DEF Delivered
<1>3. CASE ~ Fails(img, c.at)
  <2>1. Delivered(c) = ReadAt(img, c.at, c.len)
    BY <1>3 DEF Delivered
  <2> QED
    BY <1>1, <2>1, ReadAtIs
<1> QED
  BY <1>2, <1>3

\* A stream in which text has been read of the file n; rest is what the chunks
\* still hold, or what of it could not be read.
Streamed(n, c, acc, cs, seen, due) ==
  \E text, past, rest :
    /\ Reads(Range(img.bytes), text, past, c, acc)
    /\ rest \in Seq(Range(img.bytes)) /\ text \o rest = Content(n)
    /\ cs \in Seq(ChunksOn(img.bytes)) /\ (cs # <<>> => rest = BytesOf(img.bytes, cs))
    /\ seen = Len(text) /\ due = Len(Content(n))

\* The head of a planned file is read and its chunks hold the rest.
LEMMA StreamStarts ==
  ASSUME DeviceFormed, SearchFormed, presence = Empty, FileFormed(Inode), Inode # Poisoned,
         Inode.size \in Nat, Inode.size >= StreamMin, MaxSize(Inode) = Inode.size,
         Startable(Inode), StartStreaming, pc' = "chunks", pc # "chunks"
  PROVE  Streamed(Inode, carry', presence', chunks', searched', planned')
<1> DEFINE n == Inode
           S == Range(img.bytes)
           max == MaxSize(Inode)
           plan == CollectChunks(img, Inode, max, ~ SearchesBinary, Likely)
           cut == SplitChunks(plan.chunks)
<1>1. /\ ~ plan.failed /\ ~ plan.rejected
      /\ SearchChunk(plan.head, plan.head, NoCarry, FALSE)
      /\ chunks' = cut /\ searched' = Len(plan.head)
      /\ planned' = FoldLeft(LAMBDA m, c : m + c.len, Len(plan.head), cut)
  BY DEF StartStreaming, GiveUp, Finish
<1>2. img.bytes \in Seq(S) /\ AreTexts(find.words) /\ need.len \in Nat \ {0}
  BY DEF DeviceFormed, SearchFormed, AreTexts
<1>3. Covers(plan, n, n.size)
  <2> DEFINE likely == Likely
  <2>1. plan = CollectChunks(img, n, n.size, ~ SearchesBinary, likely)
    OBVIOUS
  <2> HIDE DEF n, plan, likely
  <2>2. /\ DeviceFormed /\ FileFormed(n) /\ n # Poisoned /\ n.size \in Nat /\ n.size >= StreamMin
        /\ Startable(n) /\ ~ plan.failed /\ ~ plan.rejected
    BY <1>1 DEF n
  <2> QED
    BY <2>1, <2>2, StreamCovers
<1> HIDE DEF plan
<1>4. /\ plan.head \in Seq(S) /\ plan.chunks \in Seq(ChunksOn(img.bytes))
      /\ plan.head \o BytesOf(img.bytes, plan.chunks) = Content(n)
  BY <1>3 DEF Covers, Content
<1>5. cut \in Seq(ChunksOn(img.bytes)) /\ BytesOf(img.bytes, cut) = BytesOf(img.bytes, plan.chunks)
  BY <1>2, <1>4, SplitBytes
<1> DEFINE head == plan.head
           rest == BytesOf(img.bytes, cut)
<1> HIDE DEF cut
<1>6. rest \in Seq(S) /\ head \o rest = Content(n)
  BY <1>2, <1>4, <1>5, ExtractsType
<1>7. planned' = Len(head) + Len(rest)
  <2>1. Len(head) \in Nat
    BY <1>4, LenProperties
  <2> DEFINE k == Len(head)
  <2>2. planned' = FoldLeft(LAMBDA m, c : m + c.len, k, cut)
    BY <1>1 DEF cut
  <2> HIDE DEF k, head
  <2>3. FoldLeft(LAMBDA m, c : m + c.len, k, cut) = k + Len(rest)
    BY <1>2, <1>5, <2>1, PlannedIs DEF k
  <2> QED
    BY <2>2, <2>3 DEF k, head
<1> HIDE DEF head, rest
<1>8. planned' = Len(Content(n))
  <2>1. head \in Seq(S)
    BY <1>4 DEF head
  <2>2. Len(head \o rest) = Len(head) + Len(rest)
    BY <1>6, <2>1, ConcatProperties
  <2> QED
    BY <1>6, <1>7, <2>2
<1>9. PICK now : Reads(S, head, now, carry', presence')
  <2>1. Reads(S, <<>>, <<>>, NoCarry, presence)
    BY <1>2, NothingRead
  <2>2. head \in Seq(S) /\ <<>> \o head = head
    BY <1>4, ConcatEmptySeq DEF head
  <2>3. NoCarry.tail = <<>> /\ [NoCarry EXCEPT !.tail = <<>>] = NoCarry
    BY DEF NoCarry
  <2>4. SearchChunk(NoCarry.tail \o head, head, [NoCarry EXCEPT !.tail = <<>>], FALSE)
    BY <1>1, <2>2, <2>3, Zenon DEF head
  <2>5. \E now : Reads(S, <<>> \o head, now, carry', presence')
    BY <1>2, <2>1, <2>2, <2>4, SearchStep
  <2> QED
    BY <2>2, <2>5
<1>10. chunks' = cut /\ searched' = Len(head)
  BY <1>1 DEF cut, head
<1> QED
  BY <1>5, <1>6, <1>8, <1>9, <1>10, Zenon DEF Streamed, n, rest, S

\* A chunk that is read whole leaves the rest to the next, a short one ends the stream.
LEMMA StreamGoesOn ==
  ASSUME DeviceFormed, SearchFormed, StreamChunk,
         NEW n, Streamed(n, carry, presence, chunks, searched, planned)
  PROVE  Streamed(n, carry', presence', chunks', searched', planned')
<1> DEFINE S == Range(img.bytes)
           c == Head(chunks)
           got == Delivered(c)
           full == Len(got) = c.len
           last == full /\ Len(chunks) = 1 /\ Last(got) = NL
<1>1. /\ chunks # <<>> /\ planned' = planned
      /\ chunks' = (IF full THEN Tail(chunks) ELSE <<>>)
      /\ searched' = searched + Len(got)
      /\ got = <<>> => carry' = carry /\ presence' = presence
      /\ got # <<>> => SearchChunk(carry.tail \o got, got, [carry EXCEPT !.tail = <<>>], last)
  BY DEF StreamChunk
<1>2. img.bytes \in Seq(S) /\ AreTexts(find.words) /\ need.len \in Nat \ {0}
  BY DEF DeviceFormed, SearchFormed, AreTexts
<1>3. PICK text, past, rest :
        /\ Reads(S, text, past, carry, presence)
        /\ rest \in Seq(S) /\ text \o rest = Content(n)
        /\ chunks \in Seq(ChunksOn(img.bytes)) /\ rest = BytesOf(img.bytes, chunks)
        /\ searched = Len(text) /\ planned = Len(Content(n))
  BY <1>1 DEF Streamed
<1> DEFINE more == BytesOf(img.bytes, Tail(chunks))
<1>4. /\ c \in ChunksOn(img.bytes) /\ Tail(chunks) \in Seq(ChunksOn(img.bytes))
      /\ rest = Extract(img.bytes, c.at, c.len) \o more /\ more \in Seq(S)
  <2>1. /\ c \in ChunksOn(img.bytes) /\ Tail(chunks) \in Seq(ChunksOn(img.bytes))
        /\ rest = Extract(img.bytes, c.at, c.len) \o more
    BY <1>1, <1>2, <1>3, FirstChunk
  <2> QED
    BY <1>2, <2>1, ExtractsType
<1> HIDE DEF more, c
<1>5. c.at \in Nat /\ c.len \in Nat /\ c.at + c.len <= Len(img.bytes)
  BY <1>4 DEF ChunksOn
<1>6. PICK m \in 0..c.len : got = Extract(img.bytes, c.at, m)
  BY <1>2, <1>4, DeliveredIs
<1> DEFINE left == Extract(img.bytes, c.at + m, c.len - m)
<1>7. /\ got \in Seq(S) /\ Len(got) = m /\ left \in Seq(S)
      /\ Extract(img.bytes, c.at, c.len) = got \o left
      /\ m = c.len => left = <<>>
  <2> DEFINE a == c.at
             l == c.len
  <2>0. a \in Nat /\ l \in Nat /\ m \in 0..l /\ a + l <= Len(img.bytes) /\ Len(img.bytes) \in Nat
    BY <1>2, <1>5, LenProperties
  <2> HIDE DEF a, l
  <2>1. PICK r \in 0..l : m + r = l /\ r = l - m
    BY <2>0
  <2>2. m \in Nat /\ r \in Nat /\ a + m \in Nat /\ a + m <= Len(img.bytes)
        /\ a + m + r <= Len(img.bytes) /\ (a + m) + r <= Len(img.bytes)
    BY <2>0, <2>1
  <2>3. Extract(img.bytes, a, m) \in Seq(S) /\ Len(Extract(img.bytes, a, m)) = m
    BY <1>2, <2>0, <2>2, ExtractIs
  <2>4. Extract(img.bytes, a + m, r) \in Seq(S)
    BY <1>2, <2>2, ExtractIs
  <2>5. Extract(img.bytes, a, m) \o Extract(img.bytes, a + m, r) = Extract(img.bytes, a, l)
    <3> DEFINE b == img.bytes
    <3>0. b \in Seq(S) /\ a \in Nat /\ m \in Nat /\ r \in Nat /\ a + m + r <= Len(b)
      BY <1>2, <2>0, <2>2
    <3> HIDE DEF b, S
    <3>2. Extract(b, a, m) \o Extract(b, a + m, r) = Extract(b, a, m + r)
      BY ONLY <3>0, ExtractsMeet
    <3>1. Extract(img.bytes, a, m) \o Extract(img.bytes, a + m, r) = Extract(img.bytes, a, m + r)
      BY <3>2 DEF b
    <3> QED
      BY <2>1, <3>1
  <2>6. m = l => Extract(img.bytes, a + m, r) = <<>>
    <3> SUFFICES ASSUME m = l PROVE Extract(img.bytes, a + m, r) = <<>>
      OBVIOUS
    <3>1. r = 0
      BY <2>0, <2>1
    <3>2. Extract(img.bytes, a + m, 0) = <<>>
      BY <1>2, <2>2, NoExtract
    <3> QED
      BY <3>1, <3>2
  <2>7. got = Extract(img.bytes, a, m) /\ left = Extract(img.bytes, a + m, r)
    BY <1>6, <2>1 DEF a, l
  <2> HIDE DEF got, left
  <2> QED
    BY <2>3, <2>4, <2>5, <2>6, <2>7 DEF a, l
<1> HIDE DEF got, left
<1>8. text \in Seq(S)
  BY <1>3 DEF Reads, Follows
<1> DEFINE now == text \o got
           after == left \o more
<1>9. /\ now \in Seq(S) /\ after \in Seq(S) /\ now \o after = Content(n)
      /\ Len(now) = Len(text) + Len(got)
  <2>1. now \in Seq(S) /\ after \in Seq(S) /\ got \o left \in Seq(S) /\ Len(now) = Len(text) + Len(got)
    BY <1>4, <1>7, <1>8, ConcatProperties
  <2>2. (got \o left) \o more = got \o (left \o more)
    BY ONLY <1>4, <1>7, Regrouped, SMTT(30)
  <2>3. (text \o got) \o after = text \o (got \o after)
    <3>1. text \in Seq(S) /\ got \in Seq(S) /\ after \in Seq(S)
      BY <1>7, <1>8, <2>1
    <3> HIDE DEF after
    <3> QED
      BY ONLY <3>1, Regrouped, SMTT(30)
  <2>4. text \o (got \o after) = Content(n)
    BY <1>3, <1>4, <1>7, <2>2
  <2> QED
    BY <2>1, <2>3, <2>4
<1>10. \E q : Reads(S, now, q, carry', presence')
  <2>1. CASE got = <<>>
    <3>1. now = text
      BY <1>8, <2>1, ConcatEmptySeq
    <3>2. Reads(S, now, past, carry', presence')
      BY <1>1, <1>3, <2>1, <3>1, Zenon
    <3> QED
      BY <3>2
  <2>2. CASE got # <<>>
    BY <1>1, <1>2, <1>3, <1>7, <2>2, SearchStep
  <2> QED
    BY <2>1, <2>2
<1>11. /\ chunks' \in Seq(ChunksOn(img.bytes))
       /\ chunks' # <<>> => after = BytesOf(img.bytes, chunks')
  <2>1. <<>> \in Seq(ChunksOn(img.bytes))
    BY EmptySeq
  <2>2. CASE full
    <3>1. left = <<>> /\ after = more
      BY <1>4, <1>7, <2>2, ConcatEmptySeq
    <3>2. chunks' = Tail(chunks)
      BY <1>1, <2>2 DEF c
    <3> QED
      BY <1>4, <3>1, <3>2 DEF more
  <2>3. CASE ~ full
    BY <1>1, <2>1, <2>3 DEF c
  <2> QED
    BY <2>2, <2>3
<1>12. searched' = Len(now) /\ planned' = Len(Content(n))
  BY <1>1, <1>3, <1>9
<1> HIDE DEF now, after
<1> QED
  BY <1>9, <1>10, <1>11, <1>12, Zenon DEF Streamed, S

\* The last line is searched, and nothing is read.
LEMMA StreamFlushed ==
  ASSUME DeviceFormed, SearchFormed, FlushTail,
         NEW n, Streamed(n, carry, presence, chunks, searched, planned)
  PROVE  Streamed(n, carry', presence', chunks', searched', planned')
<1> DEFINE S == Range(img.bytes)
<1>1. /\ chunks' = chunks /\ searched' = searched /\ planned' = planned
      /\ SearchChunk(carry.tail, <<>>, [carry EXCEPT !.tail = <<>>], TRUE)
  BY DEF FlushTail
<1>2. AreTexts(find.words) /\ need.len \in Nat \ {0}
  BY DEF SearchFormed, AreTexts
<1>3. PICK text, past, rest :
        /\ Reads(S, text, past, carry, presence)
        /\ rest \in Seq(S) /\ text \o rest = Content(n)
        /\ chunks \in Seq(ChunksOn(img.bytes)) /\ (chunks # <<>> => rest = BytesOf(img.bytes, chunks))
        /\ searched = Len(text) /\ planned = Len(Content(n))
  BY DEF Streamed
<1>4. text \in Seq(S) /\ carry.tail \in Seq(S) /\ <<>> \in Seq(S)
  BY <1>3, EmptySeq DEF Reads, Follows
<1>5. text \o <<>> = text /\ carry.tail \o <<>> = carry.tail
  BY <1>4, ConcatEmptySeq
<1>6. SearchChunk(carry.tail \o <<>>, <<>>, [carry EXCEPT !.tail = <<>>], TRUE)
  BY <1>1, <1>5, Zenon
<1>7. \E now : Reads(S, text \o <<>>, now, carry', presence')
  BY <1>2, <1>3, <1>4, <1>6, SearchStep
<1> QED
  BY <1>1, <1>3, <1>5, <1>7, Zenon DEF Streamed, S

\* StreamEnds: what is recorded of a file that has been streamed is its row.
LEMMA StreamEnds ==
  ASSUME SearchFormed, Required, EndStreaming,
         NEW n, Streamed(n, carry, presence, chunks, searched, planned)
  PROVE  /\ carry.found /\ need.single => need.frags = Scan(Body(Content(n)), need)
         /\ Tracks /\ searched = planned /\ ~ (carry.found /\ need.single)
              => presence.row = Scan(Body(Content(n)), need)
<1> DEFINE S == Range(img.bytes)
<1>1. AreTexts(find.words) /\ need.len \in Nat \ {0} /\ carry.tail = <<>>
  BY DEF SearchFormed, AreTexts, EndStreaming
<1>3. PICK text, past, rest :
        /\ Reads(S, text, past, carry, presence)
        /\ rest \in Seq(S) /\ text \o rest = Content(n)
        /\ searched = Len(text) /\ planned = Len(Content(n))
  BY DEF Streamed
<1>4. /\ carry.found /\ need.single => Scan(Body(text \o rest), need) = need.frags
      /\ Tracks /\ ~ (carry.found /\ need.single) => presence.row = Scan(Body(text), need)
  BY <1>1, <1>3, RowRight
<1>5. searched = planned => text = Content(n)
  <2> SUFFICES ASSUME searched = planned PROVE text = Content(n)
    OBVIOUS
  <2>1. text \in Seq(S)
    BY <1>3 DEF Reads, Follows
  <2>2. Len(text \o rest) = Len(text) + Len(rest) /\ Len(text) \in Nat /\ Len(rest) \in Nat
    BY <1>3, <2>1, ConcatProperties, LenProperties
  <2> DEFINE x == Len(text)
             y == Len(rest)
  <2>5. x = x + y /\ x \in Nat /\ y \in Nat
    BY <1>3, <2>2
  <2> HIDE DEF x, y
  <2>6. y = 0
    BY <2>5
  <2>3. Len(rest) = 0
    BY <2>6 DEF y
  <2>4. rest = <<>>
    BY <1>3, <2>3, EmptySeq
  <2> QED
    BY <1>3, <2>1, <2>4, ConcatEmptySeq
<1> QED
  BY <1>3, <1>4, <1>5

-----------------------------------------------------------------------------
(* Reading a file whole.                                                   *)

\* What one of several texts holds, all of them together hold.
LEMMA FlattenHolds ==
  ASSUME NEW S, NEW s \in Seq(Seq(S)), NEW i \in 1..Len(s), NEW j \in 1..Len(s[i])
  PROVE  \E k \in 1..Len(FlattenSeq(s)) : FlattenSeq(s)[k] = s[i][j]
<1> DEFINE n == Len(s)
           x == s[i][j]
<1>1. n \in Nat /\ \A m \in 1..n : s[m] \in Seq(S)
  BY LenProperties, ElementOfSeq
<1>2. PICK g : IsFlattening(S, s, g)
  BY FlatteningExists
<1>3. FlattenSeq(s) = g[n]
  BY <1>2, FlatteningIs
<1>4. /\ g[0] = <<>> /\ \A m \in 1..n : g[m] = g[m - 1] \o s[m]
      /\ \A m \in 0..n : g[m] \in Seq(S)
  BY <1>2, Zenon DEF IsFlattening
<1> HIDE DEF n, x
<1> DEFINE Holds(t) == \E k \in 1..Len(t) : t[k] = x
           T == {m \in 0..n : m >= i => Holds(g[m])}
<1>5. i \in 1..n /\ j \in 1..Len(s[i]) /\ s[i][j] = x
  BY DEF n, x
<1>6. 0 \in T
  BY <1>1, <1>5
<1>7. ASSUME NEW m \in 1..n, m - 1 \in T PROVE m \in T
  <2>1. m \in 0..n /\ m - 1 \in 0..n
    BY <1>1
  <2> SUFFICES ASSUME m >= i PROVE Holds(g[m])
    BY <2>1
  <2> DEFINE a == g[m - 1]
             b == s[m]
  <2>2. g[m] = a \o b /\ a \in Seq(S) /\ b \in Seq(S)
    BY <1>1, <1>4, <2>1
  <2>3. m = i => j \in 1..Len(b) /\ b[j] = x
    BY <1>5
  <2>4. m # i => Holds(a)
    <3>1. m # i => m - 1 >= i
      BY <1>1, <1>5
    <3> QED
      BY <1>7, <3>1
  <2> HIDE DEF a, b
  <2>5. /\ Len(a) \in Nat /\ Len(b) \in Nat /\ Len(a \o b) = Len(a) + Len(b)
        /\ \A k \in 1..Len(a) : (a \o b)[k] = a[k]
        /\ \A k \in 1..Len(b) : (a \o b)[Len(a) + k] = b[k]
    BY <2>2, LenProperties, ConcatProperties
  <2>6. CASE m = i
    <3>1. Len(a) + j \in 1..Len(a \o b) /\ (a \o b)[Len(a) + j] = x
      BY <2>3, <2>5, <2>6
    <3> QED
      BY <2>2, <3>1
  <2>7. CASE m # i
    <3>1. PICK k \in 1..Len(a) : a[k] = x
      BY <2>4, <2>7
    <3>2. k \in 1..Len(a \o b) /\ (a \o b)[k] = x
      BY <2>5, <3>1
    <3> QED
      BY <2>2, <3>2
  <2> QED
    BY <2>6, <2>7
<1>8. Holds(g[n])
  <2> HIDE DEF T
  <2>1. \A m \in 0..n : m \in T
    BY <1>1, <1>6, <1>7, Upwards, Zenon
  <2>2. n \in T /\ n >= i
    BY <1>1, <1>5, <2>1
  <2> QED
    BY <2>2 DEF T
<1> QED
  BY <1>3, <1>8 DEF x

\* The places of the device by their own numbers: what a list of chunks reads of
\* them are the places it reads.
Numbers == [k \in 1..Len(img.bytes) |-> k]

\* There is a number for each place of the device.
LEMMA NumbersType ==
  ASSUME img.bytes \in Seq(Range(img.bytes))
  PROVE  /\ Numbers \in Seq(Nat) /\ Len(Numbers) = Len(img.bytes)
         /\ \A k \in 1..Len(img.bytes) : Numbers[k] = k
         /\ ChunksOn(Numbers) = ChunksOn(img.bytes) /\ PlacesOn(Numbers) = PlacesOn(img.bytes)
         /\ ExtentsIn(Numbers) = ExtentsIn(img.bytes) /\ ValidExtents(Numbers) = ValidExtents(img.bytes)
         /\ RunsOn(Numbers) = RunsOn(img.bytes)
<1> DEFINE n == Len(img.bytes)
<1>1. n \in Nat
  BY LenProperties
<1>2. Numbers = [k \in 1..n |-> k]
  BY DEF Numbers
<1> HIDE DEF n
<1>3. Numbers \in [1..n -> Nat]
  BY <1>1, <1>2
<1>4. Numbers \in Seq(Nat) /\ Len(Numbers) = n
  BY <1>1, <1>3, SeqDef
<1>5. \A k \in 1..n : Numbers[k] = k
  BY <1>2
<1>6. Len(Numbers) = Len(img.bytes)
  BY <1>4 DEF n
<1>7. /\ ChunksOn(Numbers) = ChunksOn(img.bytes) /\ PlacesOn(Numbers) = PlacesOn(img.bytes)
      /\ ExtentsIn(Numbers) = ExtentsIn(img.bytes) /\ RunsOn(Numbers) = RunsOn(img.bytes)
  BY <1>6, Zenon DEF ChunksOn, PlacesOn, ExtentsIn, RunsOn
<1>8. ValidExtents(Numbers) = ValidExtents(img.bytes)
  BY <1>7, Zenon DEF ValidExtents
<1> QED
  BY <1>4, <1>5, <1>6, <1>7, <1>8 DEF n

\* What is at the places of the numbers are the places.
LEMMA MappedNumbers ==
  ASSUME img.bytes \in Seq(Range(img.bytes)), NEW places \in Seq(PlacesOn(img.bytes))
  PROVE  Mapped(Numbers, places) = places
<1>1. DOMAIN places = 1..Len(places) /\ \A k \in 1..Len(places) : places[k] \in 1..Len(img.bytes)
  BY LenProperties, ElementOfSeq DEF PlacesOn
<1>2. places = [k \in DOMAIN places |-> places[k]]
  BY <1>1, LenProperties
<1>3. \A k \in DOMAIN places : Numbers[places[k]] = places[k]
  BY <1>1, NumbersType
<1> QED
  BY <1>2, <1>3, Zenon DEF Mapped

\* A chunk that can be read to its end.
Readable(p) == BlockOf(p - 1) \notin img.bad
GoodChunk(c) == \A p \in c.at..(c.at + c.len - 1) : BlockOf(p) \notin img.bad

\* Chunks whose places can be read are read to their end.
LEMMA GoodChunks ==
  ASSUME img.bytes \in Seq(Range(img.bytes)), NEW cs \in Seq(ChunksOn(img.bytes)),
         \A k \in 1..Len(BytesOf(Numbers, cs)) : Readable(BytesOf(Numbers, cs)[k])
  PROVE  \A i \in 1..Len(cs) : GoodChunk(cs[i])
<1> SUFFICES ASSUME NEW i \in 1..Len(cs), NEW p \in cs[i].at..(cs[i].at + cs[i].len - 1)
             PROVE  BlockOf(p) \notin img.bad
  BY DEF GoodChunk
<1> DEFINE es == Extracts(Numbers, cs)
           c == cs[i]
<1>1. /\ Numbers \in Seq(Nat) /\ Len(Numbers) = Len(img.bytes)
      /\ \A k \in 1..Len(img.bytes) : Numbers[k] = k
      /\ cs \in Seq(ChunksOn(Numbers))
  BY NumbersType
<1>2. /\ es \in Seq(Seq(Nat)) /\ Len(es) = Len(cs)
      /\ es[i] = Extract(Numbers, c.at, c.len)
  BY <1>1, ExtractsType
<1>3. c \in ChunksOn(img.bytes)
  BY ElementOfSeq
<1>4. c.at \in Nat /\ c.len \in Nat /\ c.at + c.len <= Len(img.bytes)
  BY <1>3 DEF ChunksOn
<1> DEFINE a == c.at
           l == c.len
<1>5. a \in Nat /\ l \in Nat /\ a + l <= Len(Numbers) /\ es[i] = Extract(Numbers, a, l)
      /\ p \in a..(a + l - 1)
  BY <1>1, <1>2, <1>4
<1> HIDE DEF es, c, a, l
<1>6. /\ Len(Extract(Numbers, a, l)) = l
      /\ \A j \in 1..l : Extract(Numbers, a, l)[j] = Numbers[a + j]
  BY <1>1, <1>5, ExtractIs
<1>7. PICK j \in 1..l : a + j = p + 1
  <2>1. (p + 1) - a \in 1..l /\ a + ((p + 1) - a) = p + 1
    BY <1>5
  <2> QED
    BY <2>1
<1>8. p \in Nat /\ p + 1 \in 1..Len(img.bytes)
  <2>1. a \in Nat /\ l \in Nat /\ p \in a..(a + l - 1) /\ a + l <= Len(img.bytes)
    BY <1>1, <1>5, Zenon
  <2>2. Len(img.bytes) \in Nat
    BY <1>1, LenProperties
  <2> QED
    BY ONLY <2>1, <2>2
<1>9. j \in 1..Len(es[i]) /\ es[i][j] = p + 1
  BY <1>1, <1>5, <1>6, <1>7, <1>8
<1>10. PICK k \in 1..Len(FlattenSeq(es)) : FlattenSeq(es)[k] = p + 1
  <2>1. i \in 1..Len(es)
    BY <1>2
  <2> QED
    BY <1>2, <1>9, <2>1, FlattenHolds
<1>11. Readable(p + 1)
  BY <1>10 DEF BytesOf, es
<1>12. (p + 1) - 1 = p
  BY <1>8
<1> QED
  BY <1>11, <1>12 DEF Readable

ReadStep(device, acc, c) ==
  IF ~ acc.ok \/ Fails(device, c.at) THEN [acc EXCEPT !.ok = FALSE]
  ELSE [acc EXCEPT !.text = @ \o ReadAt(device, c.at, c.len)]
Reading == INSTANCE FoldSteps WITH step <- ReadStep

\* ReadAllIs: chunks that can all be read give their bytes.
LEMMA ReadAllIs ==
  ASSUME img.bytes \in Seq(Range(img.bytes)), NEW cs \in Seq(ChunksOn(img.bytes)),
         \A i \in 1..Len(cs) : GoodChunk(cs[i])
  PROVE  ReadAll(img, cs) = BytesOf(img.bytes, cs)
<1> DEFINE n == Len(cs)
           B == Range(img.bytes)
           es == Extracts(img.bytes, cs)
           base == [ok |-> TRUE, text |-> <<>>]
<1>1. n \in Nat /\ DOMAIN cs = 1..n /\ \A i \in 1..n : cs[i] \in ChunksOn(img.bytes)
  BY LenProperties, ElementOfSeq
<1>2. ReadAll(img, cs) = Reading!Fold(img, base, cs).text
  BY DEF ReadAll, Reading!Fold, ReadStep, FoldLeft, MapThenFoldSet, Max, Reading!Greatest
<1> HIDE DEF base
<1>3. PICK h : Reading!IsFold(img, base, cs, h) /\ Reading!Fold(img, base, cs) = h[n]
  BY <1>1, Reading!FoldIs, Zenon
<1>4. h[0] = base /\ \A i \in 1..n : h[i] = ReadStep(img, h[i - 1], cs[i])
  BY <1>3, Zenon DEF Reading!IsFold
<1>5. /\ es \in Seq(Seq(B)) /\ Len(es) = n
      /\ \A i \in 1..n : es[i] = Extract(img.bytes, cs[i].at, cs[i].len)
  BY ExtractsType
<1>6. \A i \in 1..n : GoodChunk(cs[i])
  OBVIOUS
<1> HIDE DEF n, es, B
<1>7. PICK g : IsFlattening(B, es, g)
  BY <1>5, FlatteningExists
<1>8. FlattenSeq(es) = g[n]
  BY <1>5, <1>7, FlatteningIs
<1>9. /\ g[0] = <<>> /\ \A i \in 1..n : g[i] = g[i - 1] \o es[i]
  BY <1>5, <1>7, Zenon DEF IsFlattening
<1> DEFINE T == {i \in 0..n : h[i] = [ok |-> TRUE, text |-> g[i]]}
<1>10. 0 \in T
  <2>1. h[0] = [ok |-> TRUE, text |-> g[0]]
    BY <1>4, <1>9, Zenon DEF base
  <2>2. 0 \in 0..n
    BY <1>1
  <2> QED
    BY <2>1, <2>2
<1>11. ASSUME NEW i \in 1..n, i - 1 \in T PROVE i \in T
  <2>1. i \in 0..n /\ i - 1 \in 0..n /\ h[i - 1] = [ok |-> TRUE, text |-> g[i - 1]]
    BY <1>1, <1>11
  <2>2. cs[i].at \in Nat /\ cs[i].len \in Nat \ {0} /\ cs[i].at + cs[i].len <= Len(img.bytes)
    BY <1>1 DEF ChunksOn
  <2>3. ~ Fails(img, cs[i].at)
    <3>1. cs[i].at \in cs[i].at..(cs[i].at + cs[i].len - 1)
      BY <2>2
    <3> QED
      BY <1>6, <3>1 DEF GoodChunk, Fails
  <2>4. ReadAt(img, cs[i].at, cs[i].len) = es[i]
    <3> DEFINE a == cs[i].at
               l == cs[i].len
    <3>1. /\ a \in Nat /\ l \in Nat /\ a + l <= Len(img.bytes)
          /\ \A p \in a..(a + l - 1) : BlockOf(p) \notin img.bad
          /\ es[i] = Extract(img.bytes, a, l)
      BY <1>5, <1>6, <2>2 DEF GoodChunk
    <3> HIDE DEF a, l
    <3>2. ReadAt(img, a, l) = es[i]
      BY <3>1, ReadAtIs
    <3> QED
      BY <3>2 DEF a, l
  <2> DEFINE x == g[i - 1]
             y == es[i]
  <2>5. h[i] = ReadStep(img, h[i - 1], cs[i]) /\ g[i] = x \o y
    BY <1>4, <1>9
  <2>6. h[i] = [[ok |-> TRUE, text |-> x] EXCEPT !.text = @ \o y]
    BY <2>1, <2>3, <2>4, <2>5 DEF ReadStep
  <2> HIDE DEF x, y
  <2>7. h[i] = [ok |-> TRUE, text |-> x \o y]
    BY <2>6
  <2> QED
    BY <2>1, <2>5, <2>7
<1>12. h[n] = [ok |-> TRUE, text |-> g[n]]
  <2> HIDE DEF T
  <2>1. \A i \in 0..n : i \in T
    BY <1>1, <1>10, <1>11, Upwards, Zenon
  <2>2. n \in T
    BY <1>1, <2>1
  <2> QED
    BY <2>2 DEF T
<1> QED
  BY <1>2, <1>3, <1>8, <1>12 DEF es, BytesOf

-----------------------------------------------------------------------------
(* Where the chunks of a plan are.                                         *)

\* The places of a file are on the device.
LEMMA PlacesType ==
  ASSUME DeviceFormed, NEW n, FileFormed(n), NEW max \in Nat,
         (~ OnNtfs(img) /\ n.kind \in {"extents", "direct"}) \/ n.kind = "runs"
  PROVE  Places(n, max) \in Seq(PlacesOn(img.bytes))
<1>1. img.bytes \in Seq(Range(img.bytes))
  BY DEF DeviceFormed
<1>2. CASE n.kind = "runs"
  <2>1. DecodeRuns(n.runs) \in Seq(RunsOn(img.bytes))
    BY <1>2, FormedRuns
  <2>2. RunPlaces(DecodeRuns(n.runs), max) \in Seq(PlacesOn(img.bytes))
    BY <1>1, <2>1, RunPlacesBytes
  <2> QED
    BY <1>2, <2>2 DEF Places
<1>3. CASE ~ OnNtfs(img) /\ n.kind \in {"extents", "direct"}
  <2>1. ExtentPlaces(n) \in Seq(PlacesOn(img.bytes))
    BY <1>3, Ext4Places
  <2>2. Places(n, max) = FirstOf(ExtentPlaces(n), max)
    BY <1>3 DEF Places
  <2> QED
    BY <2>1, <2>2, FirstIs
<1> QED
  BY <1>2, <1>3

\* The chunks planned behind a head of an ext4 file read the places behind it.
LEMMA Ext4Reads ==
  ASSUME DeviceFormed, ~ OnNtfs(img), NEW n, n.kind \in {"extents", "direct"}, FileFormed(n),
         NEW max \in Nat
  PROVE  \A k \in Nat :
           LET cs == Plan(ExtentsOf(img, n), max, k)
           IN  /\ cs \in Seq(ChunksOn(img.bytes))
               /\ BytesOf(Numbers, cs) = RestFrom(Places(n, max), k)
               /\ BytesOf(img.bytes, cs) = RestFrom(ContentTo(n, max), k)
<1> TAKE k \in Nat
<1> DEFINE all == ExtentsOf(img, n)
           cs == Plan(all, max, k)
<1>1. img.bytes \in Seq(Range(img.bytes))
  BY DEF DeviceFormed
<1>2. Numbers \in Seq(Nat) /\ Len(Numbers) = Len(img.bytes) /\ ExtentsIn(Numbers) = ExtentsIn(img.bytes)
      /\ PlacesOn(Numbers) = PlacesOn(img.bytes)
  BY <1>1, NumbersType
<1>3. /\ ExtentPlaces(n) \in Seq(PlacesOn(img.bytes))
      /\ Mapped(Numbers, ExtentPlaces(n)) = FlattenSeq(ExtentBytes(Numbers, all))
      /\ all \in Seq(ExtentsIn(Numbers))
  BY <1>2, ExtentPlacesIs
<1>4. Mapped(Numbers, ExtentPlaces(n)) = ExtentPlaces(n)
  BY <1>1, <1>3, MappedNumbers
<1>5. Places(n, max) = FirstOf(ExtentPlaces(n), max)
  BY DEF Places
<1>6. ContentTo(n, max) = FirstOf(FlattenSeq(ExtentBytes(img.bytes, all)), max)
  BY Ext4Content
<1>7. all \in Seq(ExtentsIn(img.bytes))
  BY <1>2, <1>3
<1> HIDE DEF all
<1>8. BytesOf(Numbers, cs) = RestFrom(FirstOf(FlattenSeq(ExtentBytes(Numbers, all)), max), k)
  BY <1>2, <1>3, PlanBytes
<1>9. /\ cs \in Seq(ChunksOn(img.bytes))
      /\ BytesOf(img.bytes, cs) = RestFrom(FirstOf(FlattenSeq(ExtentBytes(img.bytes, all)), max), k)
  BY <1>1, <1>7, PlanBytes
<1> QED
  BY <1>3, <1>4, <1>5, <1>6, <1>8, <1>9 DEF all

\* The chunks planned behind a head of an NTFS file read the places behind it.
LEMMA NtfsReads ==
  ASSUME DeviceFormed, NEW n, n.kind = "runs", FileFormed(n), NEW max \in Nat,
         NEW head, RunHeadGood(DecodeRuns(n.runs), max, head)
  PROVE  /\ Len(head) \in Nat
         /\ RunPlan(DecodeRuns(n.runs), max, Len(head)) \in Seq(ChunksOn(img.bytes))
         /\ BytesOf(Numbers, RunPlan(DecodeRuns(n.runs), max, Len(head)))
              = RestFrom(Places(n, max), Len(head))
<1> DEFINE runs == DecodeRuns(n.runs)
           k == Len(head)
           cs == RunPlan(runs, max, k)
<1>1. img.bytes \in Seq(Range(img.bytes))
  BY DEF DeviceFormed
<1>2. /\ Numbers \in Seq(Nat) /\ RunsOn(Numbers) = RunsOn(img.bytes)
      /\ ChunksOn(Numbers) = ChunksOn(img.bytes) /\ PlacesOn(Numbers) = PlacesOn(img.bytes)
  BY <1>1, NumbersType
<1>3. runs \in Seq(RunsOn(Numbers)) /\ \E v : InTurn(runs, v)
  BY <1>2, FormedRuns
<1>4. Places(n, max) = RunPlaces(runs, max)
  BY DEF Places
<1>5. head \in Seq(Range(img.bytes)) /\ k <= Block /\ ReadBefore(runs, max, k)
  BY DEF RunHeadGood
<1>6. k \in Nat
  BY <1>5, LenProperties
<1> HIDE DEF runs, k
<1>7. RunPlaces(runs, max) \in Seq(PlacesOn(img.bytes))
      /\ Mapped(Numbers, RunPlaces(runs, max)) = FlattenSeq(RunBytes(Numbers, runs, max))
  BY <1>2, <1>3, RunPlacesBytes
<1>8. Mapped(Numbers, RunPlaces(runs, max)) = RunPlaces(runs, max)
  BY <1>1, <1>7, MappedNumbers
<1>9. PICK v : InTurn(runs, v)
  BY <1>3
<1>10. /\ cs \in Seq(ChunksOn(Numbers))
       /\ BytesOf(Numbers, cs) = RestFrom(FlattenSeq(RunBytes(Numbers, runs, max)), k)
  BY <1>2, <1>3, <1>5, <1>6, <1>9, RunPlanBytes
<1> QED
  BY <1>2, <1>4, <1>6, <1>7, <1>8, <1>10 DEF runs, k

\* ChunksReadable: when no byte of a file is bad, its chunks can be read.
LEMMA ChunksReadable ==
  ASSUME DeviceFormed, NEW n, Places(n, n.size) \in Seq(PlacesOn(img.bytes)), BadPlaces(n) = {},
         NEW cs \in Seq(ChunksOn(img.bytes)), NEW k \in Nat,
         BytesOf(Numbers, cs) = RestFrom(Places(n, n.size), k)
  PROVE  \A i \in 1..Len(cs) : GoodChunk(cs[i])
<1> DEFINE p == Places(n, n.size)
           r == RestFrom(p, k)
<1>1. img.bytes \in Seq(Range(img.bytes))
  BY DEF DeviceFormed
<1>2. \A i \in DOMAIN p : BlockOf(p[i] - 1) \notin img.bad
  BY DEF BadPlaces, BadAmong
<1>3. p \in Seq(PlacesOn(img.bytes)) /\ BytesOf(Numbers, cs) = r
  OBVIOUS
<1> HIDE DEF p
<1>4. Len(p) \in Nat /\ DOMAIN p = 1..Len(p)
  BY <1>3, LenProperties
<1>5. ASSUME NEW i \in 1..Len(r) PROVE Readable(r[i])
  <2>1. CASE k >= Len(p)
    <3>1. r = <<>>
      BY <1>3, <2>1, RestSmall
    <3> HIDE DEF r
    <3>2. Len(r) = 0
      BY <3>1
    <3> QED
      BY <3>2
  <2>2. CASE ~ k >= Len(p)
    <3> DEFINE l == Len(p)
    <3>0. l \in Nat /\ k \in 0..l
      BY <1>4, <2>2
    <3>1. Len(r) = l - k /\ \A j \in 1..(l - k) : r[j] = p[k + j]
      BY <1>3, <3>0, RestIs
    <3> HIDE DEF r, l
    <3>2. i \in 1..(l - k) /\ k + i \in 1..l
      BY <3>0, <3>1
    <3>3. r[i] = p[k + i] /\ k + i \in DOMAIN p
      BY <1>4, <3>1, <3>2 DEF l
    <3> QED
      BY <1>2, <3>3 DEF Readable
  <2> QED
    BY <2>1, <2>2
<1> HIDE DEF r
<1> QED
  BY <1>1, <1>3, <1>5, GoodChunks

-----------------------------------------------------------------------------
(* Contents are no longer than they may be.                                *)

\* The part of a run that lies below the limit ends where the next run starts.
LEMMA PartEnds ==
  ASSUME NEW B, NEW bytes \in Seq(B), NEW r \in RunsOn(bytes), NEW max \in Nat,
         NEW l \in Nat, l <= Least(r.vcn * Block, max)
  PROVE  l + Len(RunPart(bytes, r, max)) <= Least((r.vcn + r.len) * Block, max)
<1> DEFINE v == r.vcn * Block
           w == r.len * Block
           p == RunPart(bytes, r, max)
<1>1. v \in Nat /\ w \in Nat /\ (r.vcn + r.len) * Block = v + w
  <2>1. r.vcn \in Nat /\ r.len \in Nat /\ Block \in Nat
    BY DeviceAssumption DEF RunsOn
  <2> DEFINE x == r.vcn
             y == r.len
  <2>2. x \in Nat /\ y \in Nat
    BY <2>1
  <2> HIDE DEF x, y
  <2>3. x * Block \in Nat /\ y * Block \in Nat /\ (x + y) * Block = x * Block + y * Block
    BY <2>1, <2>2, SMT
  <2> QED
    BY <2>3 DEF x, y
<1>2. Len(p) = 0 \/ (v < max /\ Len(p) = Least(w, max - v))
  <2>1. CASE r.lcn = {} \/ r.vcn * Block >= max
    BY <2>1 DEF RunPart
  <2>2. CASE ~ (r.lcn = {} \/ r.vcn * Block >= max)
    <3> DEFINE at == (CHOOSE c \in r.lcn : TRUE) * Block
    <3>1. p = Extract(bytes, at, Least(w, max - v)) /\ v < max
      BY <1>1, <2>2 DEF RunPart
    <3>2. at \in Nat /\ at + w <= Len(bytes)
      BY <2>2, RunOnDevice
    <3> HIDE DEF p, v, w, at
    <3>3. Least(w, max - v) \in Nat /\ at + Least(w, max - v) <= Len(bytes)
      <4>1. Len(bytes) \in Nat
        BY LenProperties
      <4> QED
        BY <1>1, <3>1, <3>2, <4>1 DEF Least
    <3>4. Len(p) = Least(w, max - v)
      BY <3>1, <3>2, <3>3, ExtractIs
    <3> QED
      BY <3>1, <3>4
  <2> QED
    BY <2>1, <2>2
<1> HIDE DEF p, v, w
<1>3. l + Len(p) <= Least(v + w, max)
  BY <1>1, <1>2 DEF Least, v
<1> QED
  BY <1>1, <1>3 DEF p

\* The runs hold no more than they are limited to.
LEMMA RunBytesEnd ==
  ASSUME NEW B, NEW bytes \in Seq(B), NEW runs \in Seq(RunsOn(bytes)), NEW v,
         InTurn(runs, v), NEW max \in Nat
  PROVE  Len(FlattenSeq(RunBytes(bytes, runs, max))) <= max
<1> DEFINE n == Len(runs)
           es == RunBytes(bytes, runs, max)
<1>1. n \in Nat /\ \A i \in 1..n : runs[i] \in RunsOn(bytes)
  BY LenProperties, ElementOfSeq
<1>2. /\ v[0] = 0 /\ \A i \in 0..n : v[i] \in Nat
      /\ \A i \in 1..n : runs[i].vcn = v[i - 1] /\ v[i] = v[i - 1] + runs[i].len
  BY DEF InTurn
<1>3. /\ es \in Seq(Seq(B)) /\ Len(es) = n
      /\ \A i \in 1..n : es[i] = RunPart(bytes, runs[i], max)
  BY RunBytesType
<1> HIDE DEF n, es
<1>4. PICK g : IsFlattening(B, es, g)
  BY <1>3, FlatteningExists
<1>5. FlattenSeq(es) = g[n]
  BY <1>3, <1>4, FlatteningIs
<1>6. /\ g[0] = <<>> /\ \A i \in 1..n : g[i] = g[i - 1] \o es[i]
      /\ \A i \in 0..n : g[i] \in Seq(B)
  BY <1>3, <1>4, Zenon DEF IsFlattening
<1> DEFINE T == {i \in 0..n : Len(g[i]) <= Least(v[i] * Block, max)}
<1>7. 0 \in T
  <2>1. Len(g[0]) = 0 /\ 0 \in 0..n /\ v[0] * Block = 0
    BY <1>1, <1>2, <1>6, DeviceAssumption, EmptySeq
  <2> QED
    BY <2>1 DEF Least
<1>8. ASSUME NEW i \in 1..n, i - 1 \in T PROVE i \in T
  <2>1. i \in 0..n /\ i - 1 \in 0..n
    BY <1>1
  <2> DEFINE x == g[i - 1]
             y == es[i]
             r == runs[i]
  <2>2. g[i] = x \o y /\ x \in Seq(B) /\ y \in Seq(B) /\ y = RunPart(bytes, r, max)
    BY <1>3, <1>6, <2>1, ElementOfSeq
  <2>3. Len(x) <= Least(r.vcn * Block, max) /\ r \in RunsOn(bytes) /\ v[i] = r.vcn + r.len
    BY <1>1, <1>2, <1>8
  <2> HIDE DEF x, y, r
  <2>4. Len(x) \in Nat /\ Len(x \o y) = Len(x) + Len(y)
    BY <2>2, LenProperties, ConcatProperties
  <2> DEFINE l == Len(x)
  <2>5. l \in Nat /\ l <= Least(r.vcn * Block, max)
    BY <2>3, <2>4
  <2> HIDE DEF l
  <2>6. l + Len(RunPart(bytes, r, max)) <= Least((r.vcn + r.len) * Block, max)
    BY <2>3, <2>5, PartEnds
  <2>7. Len(g[i]) <= Least(v[i] * Block, max)
    BY <2>2, <2>3, <2>4, <2>6 DEF l
  <2> QED
    BY <2>1, <2>7
<1>9. Len(g[n]) <= Least(v[n] * Block, max)
  <2> HIDE DEF T
  <2>1. \A i \in 0..n : i \in T
    BY <1>1, <1>7, <1>8, Upwards, Zenon
  <2>2. n \in T
    BY <1>1, <2>1
  <2> QED
    BY <2>2 DEF T
<1>10. Len(g[n]) <= max
  <2>1. Len(g[n]) \in Nat /\ n \in 0..n
    BY <1>1, <1>6, LenProperties
  <2>2. v[n] * Block \in Nat
    <3>1. v[n] \in Nat /\ Block \in Nat
      BY <1>2, <2>1, DeviceAssumption
    <3> QED
      BY <3>1, SMT
  <2> DEFINE a == v[n] * Block
             b == Len(g[n])
  <2>3. a \in Nat /\ b \in Nat /\ b <= Least(a, max)
    BY <1>9, <2>1, <2>2
  <2> HIDE DEF a, b
  <2>4. b <= max
    BY <2>3 DEF Least
  <2> QED
    BY <2>4 DEF b
<1> QED
  BY <1>5, <1>10 DEF es

\* The beginning of a text that is short enough is the text.
LEMMA FirstWhole ==
  ASSUME NEW B, NEW t \in Seq(B), NEW max \in Nat, Len(t) <= max
  PROVE  FirstOf(t, max) = t
<1> DEFINE l == Len(t)
<1>1. l \in Nat /\ l <= max
  BY LenProperties
<1> HIDE DEF l
<1>2. Least(l, max) = l
  BY <1>1 DEF Least
<1> DEFINE f == FirstOf(t, max)
<1>3. f \in Seq(B) /\ Len(f) = Least(Len(t), max) /\ \A i \in 1..Least(Len(t), max) : f[i] = t[i]
  BY FirstIs
<1> HIDE DEF f
<1>4. Len(f) = l /\ \A i \in 1..l : f[i] = t[i]
  BY <1>2, <1>3 DEF l
<1>5. f = t
  BY <1>3, <1>4, SeqEqual DEF l
<1> QED
  BY <1>5 DEF f

\* A file's content is no longer than it says.
LEMMA ContentEnds ==
  ASSUME DeviceFormed, NEW n, FileFormed(n), NEW max \in Nat,
         (~ OnNtfs(img) /\ n.kind \in {"extents", "direct"}) \/ n.kind = "runs"
  PROVE  /\ ContentTo(n, max) \in Seq(Range(img.bytes))
         /\ FirstOf(ContentTo(n, max), max) = ContentTo(n, max)
<1> DEFINE t == ContentTo(n, max)
<1>0. img.bytes \in Seq(Range(img.bytes))
  BY DEF DeviceFormed
<1>1. t \in Seq(Range(img.bytes)) /\ Len(t) <= max
  <2>1. CASE n.kind = "runs"
    <3> DEFINE runs == DecodeRuns(n.runs)
    <3>1. t = FlattenSeq(RunBytes(img.bytes, runs, max))
      BY <2>1, NtfsContent
    <3>2. runs \in Seq(RunsOn(img.bytes)) /\ \E v : InTurn(runs, v)
      BY <2>1, FormedRuns
    <3> HIDE DEF runs
    <3>3. PICK v : InTurn(runs, v)
      BY <3>2
    <3>4. Len(FlattenSeq(RunBytes(img.bytes, runs, max))) <= max
      BY <1>0, <3>2, <3>3, RunBytesEnd
    <3>5. FlattenSeq(RunBytes(img.bytes, runs, max)) \in Seq(Range(img.bytes))
      BY <1>0, <3>2, RunBytesType, FlattenType
    <3> QED
      BY <3>1, <3>4, <3>5
  <2>2. CASE ~ OnNtfs(img) /\ n.kind \in {"extents", "direct"}
    <3> DEFINE C == FlattenSeq(ExtentBytes(img.bytes, ExtentsOf(img, n)))
    <3>1. t = FirstOf(C, max) /\ C \in Seq(Range(img.bytes))
      BY <2>2, Ext4Content, Ext4Places
    <3> HIDE DEF C
    <3> QED
      BY <3>1, FirstIs
  <2> QED
    BY <2>1, <2>2
<1> HIDE DEF t
<1>2. FirstOf(t, max) = t
  BY <1>1, FirstWhole
<1> QED
  BY <1>1, <1>2 DEF t

\* The probe of an empty file reads nothing.
LEMMA EmptyHeads ==
  ASSUME DeviceFormed, ~ OnNtfs(img), NEW n, n.kind \in {"extents", "direct"}, FileFormed(n),
         NEW likely
  PROVE  ProbeHead(img, ProbeStart(ExtentsOf(img, n), FirstExtent(img, n)), 0, likely) \subseteq {<<>>}
<1> DEFINE all == ExtentsOf(img, n)
           start == ProbeStart(all, FirstExtent(img, n))
<1>1. all \in Seq(ValidExtents(img.bytes)) /\ Starts(FirstExtent(img, n), all)
  BY ExtentsOfType
<1>2. start \subseteq {all[1].start} /\ (start # {} => all # <<>>)
  BY <1>1 DEF ProbeStart, Starts
<1> HIDE DEF all, start
<1>3. ASSUME NEW s \in start PROVE ReadAt(img, s * Block, Least(0, IF likely THEN Probe ELSE Block)) = <<>>
  <2>1. all # <<>> /\ s = all[1].start
    BY <1>2
  <2>2. 1 \in 1..Len(all)
    <3>1. Len(all) \in Nat /\ Len(all) # 0
      BY <1>1, <2>1, EmptySeq, LenProperties
    <3> QED
      BY <3>1
  <2>3. all[1] \in ExtentsIn(img.bytes)
    BY <1>1, <2>2, ElementOfSeq DEF ValidExtents
  <2> DEFINE at == s * Block
  <2>4. at \in Nat /\ at <= Len(img.bytes)
    <3>1. all[1].start * Block \in Nat /\ all[1].len * Block \in Nat
          /\ all[1].start * Block + all[1].len * Block <= Len(img.bytes)
      BY <2>3, ExtentOnDevice
    <3> DEFINE x == all[1].start * Block
               y == all[1].len * Block
    <3>2. x \in Nat /\ y \in Nat /\ x + y <= Len(img.bytes) /\ at = x
      BY <2>1, <3>1
    <3>3. Len(img.bytes) \in Nat
      BY LenProperties DEF DeviceFormed
    <3> HIDE DEF x, y, at
    <3> QED
      BY <3>2, <3>3
  <2>5. Least(0, IF likely THEN Probe ELSE Block) = 0
    BY ProbeAssumption, DeviceAssumption DEF Least
  <2>6. img.bytes \in Seq(Range(img.bytes))
    BY DEF DeviceFormed
  <2> HIDE DEF at
  <2>7. \E m \in 0..0 : ReadAt(img, at, 0) = Extract(img.bytes, at, m)
    <3>1. at + 0 <= Len(img.bytes) /\ 0 \in Nat
      BY <2>4
    <3> QED
      BY <2>4, <2>6, <3>1, ReadAtIs
  <2>8. ReadAt(img, at, 0) = Extract(img.bytes, at, 0)
    BY <2>7
  <2>9. Extract(img.bytes, at, 0) = <<>>
    BY <2>4, <2>6, NoExtract
  <2> QED
    BY <2>5, <2>8, <2>9 DEF at
<1>4. ProbeHead(img, start, 0, likely) \subseteq {<<>>}
  BY <1>3, Zenon DEF ProbeHead
<1> QED
  BY <1>4 DEF all, start

\* Ext4Planned: the plan of an ext4 file is the file, and so is where its chunks are.
LEMMA Ext4Planned ==
  ASSUME DeviceFormed, ~ OnNtfs(img), NEW n, n.kind \in {"extents", "direct"}, FileFormed(n),
         1 \notin BadPlaces(n), NEW check \in BOOLEAN, NEW likely,
         NEW plan, plan = CollectChunks(img, n, n.size, check, likely), ~ plan.rejected
  PROVE  /\ Covers(plan, n, n.size)
         /\ \E k \in Nat : BytesOf(Numbers, plan.chunks) = RestFrom(Places(n, n.size), k)
<1> DEFINE max == n.size
           all == ExtentsOf(img, n)
           start == ProbeStart(all, FirstExtent(img, n))
           heads == IF check THEN ProbeHead(img, start, max, likely) ELSE {<<>>}
           chosen == CHOOSE h \in heads : TRUE
           S == Range(img.bytes)
<1>1. max \in Nat /\ img.bytes \in Seq(S)
  BY DEF FileFormed, DeviceFormed
<1>2. plan = Probed(n, all, max, heads)
  BY DEF CollectChunks, Collect, CollectFrom
<1>3. max = 0 => heads \subseteq {<<>>}
  <2> SUFFICES ASSUME max = 0 PROVE heads \subseteq {<<>>}
    OBVIOUS
  <2>1. ProbeHead(img, start, 0, likely) \subseteq {<<>>}
    BY EmptyHeads
  <2> HIDE DEF start
  <2> QED
    BY <2>1
<1>4. \A k \in Nat : /\ Plan(all, max, k) \in Seq(ChunksOn(img.bytes))
                     /\ BytesOf(Numbers, Plan(all, max, k)) = RestFrom(Places(n, max), k)
                     /\ BytesOf(img.bytes, Plan(all, max, k)) = RestFrom(ContentTo(n, max), k)
  <2> HIDE DEF max
  <2>1. /\ DeviceFormed /\ ~ OnNtfs(img) /\ n.kind \in {"extents", "direct"} /\ FileFormed(n)
        /\ max \in Nat
    BY <1>1
  <2> QED
    BY ONLY <2>1, Ext4Reads
<1>5. /\ ContentTo(n, max) \in Seq(S) /\ FirstOf(ContentTo(n, max), max) = ContentTo(n, max)
  BY <1>1, ContentEnds
<1>6. Places(n, max) \in Seq(PlacesOn(img.bytes))
  BY <1>1, PlacesType
<1>7. max > 0 => Covers(plan, n, max)
  <2> SUFFICES ASSUME max > 0 PROVE Covers(plan, n, max)
    OBVIOUS
  <2>1. max \in 1..n.size
    BY <1>1
  <2>2. ~ CollectChunks(img, n, max, check, likely).rejected
    OBVIOUS
  <2> QED
    BY <2>1, <2>2, Ext4Covers
<1> HIDE DEF max, all, heads
<1>8. \/ plan.head = <<>> /\ plan.chunks = <<>>
      \/ plan.head = <<>> /\ plan.chunks = Plan(all, max, 0)
      \/ plan.head = chosen /\ chosen \in heads /\ plan.chunks = Plan(all, max, Len(chosen))
  <2>1. CASE heads = {}
    <3>1. plan = IF n.kind = "extents" THEN NoPlan ELSE [NoPlan EXCEPT !.chunks = Plan(all, max, 0)]
      BY <1>2, <2>1 DEF Probed
    <3> DEFINE cs == Plan(all, max, 0)
    <3> HIDE DEF cs
    <3>2. plan.head = <<>> /\ plan.chunks \in {<<>>, cs}
      BY <3>1 DEF NoPlan, cs
    <3> QED
      BY <3>2 DEF cs
  <2>2. CASE heads # {}
    <3> DEFINE cs == Plan(all, max, Len(chosen))
    <3>1. plan = IF IsBinary(chosen) THEN Rejected ELSE [NoPlan EXCEPT !.head = chosen, !.chunks = cs]
      BY <1>2, <2>2, Zenon DEF Probed
    <3>2. chosen \in heads
      BY <2>2
    <3> HIDE DEF cs, chosen
    <3>3. plan.head = chosen /\ plan.chunks = cs
      BY <3>1 DEF NoPlan, Rejected
    <3> QED
      BY <3>2, <3>3 DEF cs
  <2> QED
    BY <2>1, <2>2
<1> HIDE DEF chosen
<1>9. Covers(plan, n, max)
  <2>1. CASE max > 0
    BY <1>7, <2>1
  <2>2. CASE max = 0
    <3>1. <<>> \in Seq(S) /\ Len(<<>>) = 0 /\ 0 \in Nat
      BY EmptySeq
    <3>2. plan.head = <<>> /\ (plan.chunks = <<>> \/ plan.chunks = Plan(all, max, 0))
      BY <1>3, <1>8, <2>2, <3>1
    <3> DEFINE t == ContentTo(n, max)
    <3>3. t = <<>>
      <4>1. t \in Seq(S) /\ FirstOf(t, 0) = t
        BY <1>5, <2>2
      <4> HIDE DEF t
      <4>2. Len(FirstOf(t, 0)) = Least(Len(t), 0) /\ Len(t) \in Nat
        BY <4>1, FirstIs, LenProperties
      <4>3. Len(t) = 0
        <5> DEFINE l == Len(t)
        <5>1. l \in Nat /\ l = Least(l, 0)
          BY <4>1, <4>2
        <5> HIDE DEF l
        <5>2. l = 0
          BY <5>1 DEF Least
        <5> QED
          BY <5>2 DEF l
      <4> QED
        BY <4>1, <4>3, EmptySeq
    <3>4. BytesOf(img.bytes, Plan(all, max, 0)) = t /\ Plan(all, max, 0) \in Seq(ChunksOn(img.bytes))
      <4>1. RestFrom(t, 0) = t
        BY <1>5, <3>1, RestSmall
      <4> QED
        BY <1>4, <3>1, <4>1
    <3> HIDE DEF t
    <3>5. plan.chunks \in Seq(ChunksOn(img.bytes)) /\ BytesOf(img.bytes, plan.chunks) = <<>>
      BY <3>2, <3>3, <3>4, NoChunk
    <3>6. <<>> \o <<>> = <<>>
      BY <3>1, ConcatEmptySeq
    <3> QED
      BY <3>1, <3>2, <3>3, <3>5, <3>6 DEF Covers, t
  <2> QED
    BY <1>1, <2>1, <2>2
<1>10. \E k \in Nat : BytesOf(Numbers, plan.chunks) = RestFrom(Places(n, max), k)
  <2>1. CASE plan.chunks = <<>>
    <3>1. BytesOf(Numbers, <<>>) = <<>>
      BY NoChunk
    <3> DEFINE p == Places(n, max)
    <3>2. p \in Seq(PlacesOn(img.bytes))
      BY <1>6
    <3> HIDE DEF p
    <3>3. Len(p) \in Nat /\ Len(p) >= Len(p)
      BY <3>2, LenProperties
    <3>4. RestFrom(p, Len(p)) = <<>>
      BY <3>2, <3>3, RestSmall
    <3> QED
      BY <2>1, <3>1, <3>3, <3>4 DEF p
  <2>2. CASE plan.chunks = Plan(all, max, 0)
    BY <1>4, <2>2
  <2>3. CASE plan.head = chosen /\ plan.chunks = Plan(all, max, Len(chosen))
    <3>1. Len(chosen) \in Nat
      BY <1>9, <2>3, LenProperties DEF Covers
    <3> QED
      BY <1>4, <2>3, <3>1
  <2> QED
    BY <1>8, <2>1, <2>2, <2>3
<1> QED
  BY <1>9, <1>10 DEF max

\* PlannedText: a plan that is the file reads the file, when all of it can be read.
LEMMA PlannedText ==
  ASSUME DeviceFormed, NEW n, FileFormed(n), n.size \in Nat, BadPlaces(n) = {},
         (~ OnNtfs(img) /\ n.kind \in {"extents", "direct"}) \/ n.kind = "runs",
         NEW plan, Covers(plan, n, n.size), ~ plan.rejected, ~ plan.failed,
         NEW k \in Nat, BytesOf(Numbers, plan.chunks) = RestFrom(Places(n, n.size), k)
  PROVE  ReadPlanned(img, plan, n.size).text = Content(n)
<1> DEFINE cs == plan.chunks
           max == n.size
<1>1. img.bytes \in Seq(Range(img.bytes))
  BY DEF DeviceFormed
<1>2. cs \in Seq(ChunksOn(img.bytes)) /\ plan.head \o BytesOf(img.bytes, cs) = ContentTo(n, max)
  BY DEF Covers
<1>3. Places(n, n.size) \in Seq(PlacesOn(img.bytes))
  BY PlacesType
<1>4. FirstOf(ContentTo(n, max), max) = ContentTo(n, max)
  BY ContentEnds
<1> HIDE DEF cs
<1>5. \A i \in 1..Len(cs) : GoodChunk(cs[i])
  BY <1>2, <1>3, ChunksReadable DEF cs
<1>6. ReadAll(img, cs) = BytesOf(img.bytes, cs)
  BY <1>1, <1>2, <1>5, ReadAllIs
<1>7. ReadPlanned(img, plan, max).text = FirstOf(plan.head \o ReadAll(img, cs), max)
  BY Zenon DEF ReadPlanned, Whole, cs
<1> QED
  BY <1>2, <1>4, <1>6, <1>7 DEF Content

\* NtfsPlanned: the plan of a file of runs is the file, and so is where its chunks are.
LEMMA NtfsPlanned ==
  ASSUME DeviceFormed, OnNtfs(img), NEW n, n.kind = "runs", FileFormed(n),
         NEW check \in BOOLEAN, ~ (check /\ Doubled(n, n.size)), NEW likely,
         NEW plan, plan = CollectChunks(img, n, n.size, check, likely), ~ plan.rejected
  PROVE  /\ Covers(plan, n, n.size)
         /\ \E k \in Nat : BytesOf(Numbers, plan.chunks) = RestFrom(Places(n, n.size), k)
<1> DEFINE max == n.size
           runs == DecodeRuns(n.runs)
           head == NtfsHead(n, max, check)
           cs == RunPlan(runs, max, Len(head))
<1>1. max \in Nat /\ max \in 0..n.size
  BY DEF FileFormed
<1>2. plan = PlanAfter(head, runs, max)
  BY DEF CollectChunks, CollectRuns, NtfsHead
<1>3. Covers(plan, n, max)
  <2>1. ~ CollectChunks(img, n, max, check, likely).rejected
    OBVIOUS
  <2> QED
    BY <1>1, <2>1, NtfsCovers
<1>4. RunHeadGood(runs, max, head)
  BY <1>1, NtfsHeadIs
<1> HIDE DEF head, max
<1>5. Len(head) \in Nat /\ BytesOf(Numbers, cs) = RestFrom(Places(n, max), Len(head))
  BY <1>1, <1>4, NtfsReads
<1> HIDE DEF cs
<1>6. plan = IF IsBinary(head) THEN Rejected ELSE [NoPlan EXCEPT !.head = head, !.chunks = cs]
  BY <1>2 DEF PlanAfter, cs
<1>7. plan.chunks = cs
  BY <1>6 DEF NoPlan, Rejected
<1> QED
  BY <1>3, <1>5, <1>7 DEF max

\* What is in the inode itself.
LEMMA ReadHere ==
  ASSUME NEW n, FileFormed(n), n.kind \in {"inline", "resident"}, NEW check,
         NEW read, read = ReadInPlace(FirstOf(n.data, n.size), check), ~ read.rejected
  PROVE  read.text = Content(n) /\ \E S : Content(n) \in Seq(S)
<1> DEFINE t == FirstOf(n.data, n.size)
<1>1. Content(n) = t
  BY DEF Content, ContentTo
<1>2. n.data \in Seq(Range(n.data)) /\ n.size \in Nat
  BY SizeAssumption DEF FileFormed
<1>3. t \in Seq(Range(n.data))
  BY <1>2, FirstIs
<1> HIDE DEF t
<1>4. read = Whole(t, IF check /\ IsBinary(t) THEN Rejected ELSE NoPlan)
  BY DEF ReadInPlace, t
<1>5. read.text = t
  <2> DEFINE q == IF check /\ IsBinary(t) THEN Rejected ELSE NoPlan
  <2>1. read.rejected = q.rejected /\ read.text = IF q.rejected \/ q.failed THEN <<>> ELSE t
    BY <1>4 DEF Whole
  <2>2. q = NoPlan
    BY <2>1 DEF Rejected, NoPlan
  <2>3. ~ q.rejected /\ ~ q.failed
    BY <2>2 DEF NoPlan
  <2> QED
    BY <2>1, <2>3
<1> QED
  BY <1>1, <1>3, <1>5

\* BufferedReads: a file that is read whole and has no bad byte is read as it is.
THEOREM BufferedReads ==
  ASSUME DeviceFormed, NEW n, FileFormed(n), n # Poisoned, n.size \in Nat, BadPlaces(n) = {},
         SearchesBinary \/ ~ Doubled(n, n.size), NEW likely,
         NEW read, read = ReadFile(img, n, n.size, ~ SearchesBinary, likely),
         ~ read.failed, ~ read.rejected
  PROVE  read.text = Content(n) /\ \E S : Content(n) \in Seq(S)
<1> DEFINE max == n.size
           check == ~ SearchesBinary
           plan == CollectChunks(img, n, max, check, likely)
<1>1. check \in BOOLEAN /\ ~ (check /\ Doubled(n, n.size)) /\ max \in Nat
  OBVIOUS
<1> HIDE DEF check
<1>2. read = ReadFile(img, n, max, check, likely)
  BY DEF check
<1>3. ASSUME read = ReadPlanned(img, plan, max) PROVE ~ plan.rejected /\ ~ plan.failed
  <2> HIDE DEF plan
  <2> QED
    BY <1>3 DEF ReadPlanned, Whole
<1>4. CASE n.kind \in {"inline", "resident"}
  <2>1. read = ReadInPlace(FirstOf(n.data, max), check)
    BY <1>2, <1>4 DEF FileFormed, ReadFile, ReadExt4, ReadNtfs
  <2> QED
    BY <1>4, <2>1, ReadHere
<1>5. CASE ~ OnNtfs(img) /\ n.kind \in {"extents", "direct"}
  <2>1. read = ReadPlanned(img, plan, max)
    BY <1>2, <1>5 DEF ReadFile, ReadExt4, CollectChunks
  <2>2. ~ plan.rejected /\ ~ plan.failed
    BY <1>3, <2>1
  <2>3. plan = CollectChunks(img, n, n.size, check, likely) /\ 1 \notin BadPlaces(n)
    OBVIOUS
  <2> HIDE DEF plan
  <2>4. /\ Covers(plan, n, n.size)
        /\ \E k \in Nat : BytesOf(Numbers, plan.chunks) = RestFrom(Places(n, n.size), k)
    BY <1>1, <1>5, <2>2, <2>3, Ext4Planned
  <2>5. PICK k \in Nat : BytesOf(Numbers, plan.chunks) = RestFrom(Places(n, n.size), k)
    BY <2>4
  <2>6. ReadPlanned(img, plan, n.size).text = Content(n)
    BY <1>5, <2>2, <2>4, <2>5, PlannedText
  <2>7. Content(n) \in Seq(Range(img.bytes))
    BY <1>1, <1>5, ContentEnds DEF Content
  <2> QED
    BY <2>1, <2>6, <2>7
<1>6. CASE OnNtfs(img) /\ n.kind = "runs"
  <2>1. read = ReadPlanned(img, plan, max)
    BY <1>2, <1>6 DEF ReadFile, ReadNtfs, CollectChunks
  <2>2. ~ plan.rejected /\ ~ plan.failed
    BY <1>3, <2>1
  <2>3. plan = CollectChunks(img, n, n.size, check, likely)
    OBVIOUS
  <2> HIDE DEF plan
  <2>4. /\ Covers(plan, n, n.size)
        /\ \E k \in Nat : BytesOf(Numbers, plan.chunks) = RestFrom(Places(n, n.size), k)
    BY <1>1, <1>6, <2>2, <2>3, NtfsPlanned
  <2>5. PICK k \in Nat : BytesOf(Numbers, plan.chunks) = RestFrom(Places(n, n.size), k)
    BY <2>4
  <2>6. ReadPlanned(img, plan, n.size).text = Content(n)
    BY <1>6, <2>2, <2>4, <2>5, PlannedText
  <2>7. Content(n) \in Seq(Range(img.bytes))
    BY <1>1, <1>6, ContentEnds DEF Content
  <2> QED
    BY <2>1, <2>6, <2>7
<1>7. CASE OnNtfs(img) /\ n.kind \in {"damaged", "nodata", "dir"}
  <2>1. read = ReadPlanned(img, plan, max) /\ plan = IF n.kind = "damaged" THEN Failed ELSE NoPlan
    BY <1>2, <1>7 DEF ReadFile, ReadNtfs, CollectChunks, CollectRuns
  <2>2. plan = NoPlan
    BY <1>3, <2>1 DEF Failed, NoPlan
  <2>3. Content(n) = <<>>
    BY <1>7 DEF Content, ContentTo, Places, BytesAt
  <2> HIDE DEF plan
  <2>4. img.bytes \in Seq(Range(img.bytes)) /\ <<>> \in Seq(ChunksOn(img.bytes))
        /\ BytesOf(img.bytes, <<>>) = <<>>
    BY NoChunk DEF DeviceFormed
  <2>5. Len(<<>>) = 0 /\ <<>> \in Seq({}) /\ <<>> \o <<>> = <<>>
    BY EmptySeq, ConcatEmptySeq
  <2>6. ReadAll(img, <<>>) = <<>>
    <3>1. \A i \in 1..Len(<<>>) : GoodChunk(<<>>[i])
      BY <2>5
    <3> QED
      BY <2>4, <3>1, ReadAllIs
  <2>7. FirstOf(<<>>, max) = <<>>
    <3> DEFINE none == <<>>
    <3>1. none \in Seq({}) /\ Len(none) <= max
      BY <1>1, <2>5
    <3> HIDE DEF none, max
    <3>2. FirstOf(none, max) = none
      BY <1>1, <3>1, FirstWhole
    <3> QED
      BY <3>2 DEF none
  <2>8. read.text = FirstOf(plan.head \o ReadAll(img, plan.chunks), max)
    <3>1. ~ plan.rejected /\ ~ plan.failed
      BY <2>2 DEF NoPlan
    <3> QED
      BY <2>1, <3>1 DEF ReadPlanned, Whole
  <2>9. plan.head = <<>> /\ plan.chunks = <<>>
    BY <2>2 DEF NoPlan
  <2> QED
    BY <2>3, <2>5, <2>6, <2>7, <2>8, <2>9
<1> QED
  BY <1>4, <1>5, <1>6, <1>7 DEF FileFormed

-----------------------------------------------------------------------------
(* What the worker has recorded.                                           *)

RowKept(i) == Judged(i) => rows[i] \subseteq {Scan(Body(Content(nodes[i])), need)}
Streaming == Streamed(Inode, carry, presence, chunks, searched, planned)

\* The rows of the files that are decided are exact, the others have none; the
\* file that is streamed has been read apart so far, and else nothing is.
RowsKept ==
  /\ Required
  /\ pc # "list" => rows = [i \in Files |-> rows[i]] /\ \A i \in Files : i > node => rows[i] = {}
  /\ \A i \in Files : RowKept(i)
  /\ IF pc = "chunks" THEN Startable(Inode) => Streaming ELSE presence = Empty

\* What a file holds depends on the image only, how it is searched on the options.
LEMMA ContentSettled ==
  ASSUME img' = img
  PROVE  \A n : Content(n)' = Content(n) /\ BadPlaces(n)' = BadPlaces(n) /\ Sound(n)' = Sound(n)
<1>1. \A n, max : Places(n, max)' = Places(n, max)
  BY DEF Places, ExtentPlaces
<1>2. \A n : Content(n)' = Content(n)
  BY <1>1 DEF Content, ContentTo, BytesAt
<1>3. \A n : BadPlaces(n)' = BadPlaces(n)
  BY <1>1 DEF BadPlaces, BadAmong
<1>4. \A n : Sound(n)' = Sound(n)
  BY <1>2, <1>3 DEF Sound
<1> QED
  BY <1>2, <1>3, <1>4

\* What is looked for depends on the pattern and the options only.
LEMMA OptionsSettled ==
  ASSUME search' = search, cli' = cli
  PROVE  /\ need' = need /\ find' = find
         /\ SearchesBinary' = SearchesBinary /\ Tracks' = Tracks /\ (Required' <=> Required)
<1>1. need' = need /\ find' = find
  BY DEF need, find
<1>2. SearchesBinary' = SearchesBinary /\ Tracks' = Tracks
  BY <1>1 DEF SearchesBinary, Tracks, UsesCache
<1> QED
  BY <1>1, <1>2 DEF Required

\* Whether a file can be judged depends on it, the options and its outcome only.
LEMMA JudgedSettled ==
  ASSUME Settled, NEW i
  PROVE  /\ Startable(nodes[i])' <=> Startable(nodes[i])
         /\ outcome'[i] = outcome[i] => (Judged(i)' <=> Judged(i))
<1>1. img' = img /\ search' = search /\ cli' = cli /\ nodes' = nodes
  BY DEF Settled
<1>2. /\ \A n : Content(n)' = Content(n) /\ BadPlaces(n)' = BadPlaces(n) /\ Sound(n)' = Sound(n)
      /\ SearchesBinary' = SearchesBinary
  BY <1>1, ContentSettled, OptionsSettled
<1>3. \A n, max : Doubled(n, max)' <=> Doubled(n, max)
  BY DEF Doubled
<1>4. Startable(nodes[i])' <=> Startable(nodes[i])
  BY <1>1, <1>2, <1>3 DEF Startable
<1>5. outcome'[i] = outcome[i] => (Judged(i)' <=> Judged(i))
  BY <1>1, <1>2, <1>3 DEF Judged
<1> QED
  BY <1>4, <1>5

\* A row that stays, and a row of a file that is not judged.
LEMMA RowStays ==
  ASSUME Settled, NEW i, outcome'[i] = outcome[i], rows'[i] = rows[i], RowKept(i)
  PROVE  RowKept(i)'
<1>1. img' = img /\ search' = search /\ cli' = cli /\ nodes' = nodes
  BY DEF Settled
<1>2. Judged(i)' <=> Judged(i)
  BY JudgedSettled
<1>3. Content(nodes[i])' = Content(nodes[i]) /\ need' = need
  <2>1. \A n : Content(n)' = Content(n)
    BY <1>1, ContentSettled
  <2> QED
    BY <1>1, <2>1, OptionsSettled DEF Content
<1> QED
  BY <1>1, <1>2, <1>3 DEF RowKept

\* A file that is not searched to its end needs no row.
LEMMA RowUnjudged ==
  ASSUME NEW i, outcome'[i] \notin {"buffered", "streamed"}
  PROVE  RowKept(i)'
BY DEF RowKept, Judged

\* The file in turn is decided.
LEMMA RowDecided ==
  ASSUME RowsKept, Decisions, Listing, Settled, pc \in {"files", "chunks"}, node < Len(entries),
         NEW fate, outcome' = [outcome EXCEPT ![File] = fate],
         \/ node' = node /\ rows' = rows
         \/ node' = node + 1 /\ (rows' = rows \/ \E x : rows' = [rows EXCEPT ![File] = x]),
         NEW here, here = File, RowKept(here)', presence' = Empty, pc' \notin {"list", "chunks"}
  PROVE  RowsKept'
<1>1. /\ node \in Nat /\ Len(entries) \in Nat /\ Files = 1..Len(entries)
      /\ File = node + 1 /\ File \in Files
  BY DEF Decisions, Listing, Finite, File
<1>2. Files' = Files /\ search' = search /\ cli' = cli
  BY PermittedSettled DEF Settled
<1>3. /\ rows = [i \in Files |-> rows[i]] /\ outcome = [i \in Files |-> outcome[i]]
      /\ \A i \in Files : i > node => rows[i] = {}
  BY DEF RowsKept, Decisions
<1>4. /\ rows' = [i \in Files |-> rows'[i]]
      /\ \A i \in Files : i # File => rows'[i] = rows[i] /\ outcome'[i] = outcome[i]
  BY <1>3
<1>5. \A i \in Files : i > node' => rows'[i] = {}
  <2> SUFFICES ASSUME NEW i \in Files, i > node' PROVE rows'[i] = {}
    OBVIOUS
  <2>1. CASE node' = node /\ rows' = rows
    BY <1>3, <2>1
  <2>2. CASE node' = node + 1
    <3>1. i > node /\ i # File
      BY <1>1, <2>2
    <3> QED
      BY <1>3, <1>4, <3>1
  <2> QED
    BY <2>1, <2>2
<1>6. \A i \in Files : RowKept(i)'
  <2> TAKE i \in Files
  <2>1. CASE i = File
    BY <2>1
  <2>2. CASE i # File
    <3>1. RowKept(i) /\ rows'[i] = rows[i] /\ outcome'[i] = outcome[i]
      BY <1>4, <2>2 DEF RowsKept
    <3> QED
      BY <3>1, RowStays
  <2> QED
    BY <2>1, <2>2
<1>7. Required'
  BY <1>2, OptionsSettled DEF RowsKept
<1> QED
  BY <1>2, <1>4, <1>5, <1>6, <1>7 DEF RowsKept

\* The file in turn stays in turn.
LEMMA RowsStay ==
  ASSUME RowsKept, Settled, UNCHANGED <<node, outcome, rows>>, pc # "list",
         IF pc' = "chunks" THEN Startable(Inode)' => Streaming' ELSE presence' = Empty
  PROVE  RowsKept'
<1>1. Files' = Files /\ search' = search /\ cli' = cli
  BY PermittedSettled DEF Settled
<1>2. \A i \in Files : RowKept(i)'
  <2> SUFFICES ASSUME NEW i \in Files PROVE RowKept(i)'
    OBVIOUS
  <2>1. RowKept(i) /\ rows'[i] = rows[i] /\ outcome'[i] = outcome[i]
    BY DEF RowsKept
  <2> QED
    BY <2>1, RowStays
<1>3. Required'
  BY <1>1, OptionsSettled DEF RowsKept
<1> QED
  BY <1>1, <1>2, <1>3 DEF RowsKept

\* What is streamed is the file in turn, in the next state too.
LEMMA StreamingSettled ==
  ASSUME Settled, node' = node, Streamed(Inode, carry', presence', chunks', searched', planned')
  PROVE  Streaming'
<1>1. img' = img /\ search' = search /\ cli' = cli /\ nodes' = nodes
  BY DEF Settled
<1>2. PICK text, past, rest :
        /\ Follows(Range(img.bytes), find.words, text, carry', past)
        /\ Traces(carry', presence', text, past)
        /\ rest \in Seq(Range(img.bytes)) /\ text \o rest = Content(Inode)
        /\ chunks' \in Seq(ChunksOn(img.bytes)) /\ (chunks' # <<>> => rest = BytesOf(img.bytes, chunks'))
        /\ searched' = Len(text) /\ planned' = Len(Content(Inode))
  BY DEF Streamed, Reads
<1>3. need' = need /\ find' = find /\ Tracks' = Tracks
  BY <1>1, OptionsSettled
<1>4. Content(Inode)' = Content(Inode)
  <2>1. \A n : Content(n)' = Content(n)
    BY <1>1, ContentSettled
  <2>2. Inode' = Inode
    BY <1>1 DEF Inode, File
  <2> QED
    BY <2>1, <2>2 DEF Content
<1>5. Traces(carry, presence, text, past)'
  BY <1>2, <1>3 DEF Traces
<1>6. Follows(Range(img.bytes), find.words, text, carry, past)'
  BY <1>1, <1>2, <1>3
<1>7. Reads(Range(img.bytes), text, past, carry, presence)'
  BY <1>5, <1>6 DEF Reads
<1> QED
  BY <1>1, <1>2, <1>4, <1>7 DEF Streaming, Streamed

\* A file that is searched is searched to its end, and nothing is recorded of it yet.
LEMMA SearchedWhole ==
  ASSUME RowsKept, Formed, SearchFormed, Listing, RingKept, Ready, Fate \in {"buffered", "streamed"}
  PROVE  /\ File \in Files /\ Inode # Poisoned /\ Inode.size \in Nat /\ FileFormed(Inode)
         /\ MaxSize(Inode) = Inode.size /\ (Fate = "streamed" => Inode.size >= StreamMin)
         /\ rows[File] = {} /\ rows = [i \in Files |-> rows[i]] /\ presence = Empty
<1>1. File \in Files /\ Permitted(File)
  BY FateRight
<1>2. Inode # Poisoned /\ Inode.size \in Nat /\ FileFormed(Inode)
  BY <1>1 DEF Permitted, Inode, Listing, Formed
<1>3. MaxSize(Inode) = Inode.size
  <2>1. IgnoresAllFilters => IgnoresSizes
    BY DEF IgnoresAllFilters, IgnoresSizes, SearchFormed
  <2>2. Inode.size <= MaxFile \/ IgnoresSizes
    BY <1>1, <2>1 DEF Permitted, Inode
  <2> QED
    BY <1>2, <2>2, SizeAssumption DEF MaxSize, Least
<1>4. Fate = "streamed" => Inode.size >= StreamMin
  <2>1. Fate = "streamed" => ~ (MaxSize(Inode) < StreamMin)
    BY DEF Fate
  <2> QED
    BY <1>2, <1>3, <2>1, SizeAssumption
<1>5. rows[File] = {} /\ rows = [i \in Files |-> rows[i]] /\ presence = Empty
  <2>1. pc = "files" /\ node \in Nat
    BY DEF Ready, RingKept
  <2>2. File > node
    BY <2>1 DEF File
  <2> QED
    BY <1>1, <2>1, <2>2 DEF RowsKept
<1> QED
  BY <1>1, <1>2, <1>3, <1>4, <1>5, Zenon

\* What is recorded of a file is what it holds, if it can be judged.
LEMMA Recorded ==
  ASSUME NEW found, NEW exact, NEW row, NEW i \in Files, i = File, Record(found, exact, row),
         rows = [j \in Files |-> rows[j]], rows[i] = {}, NEW all,
         found /\ need.single => need.frags = all,
         exact /\ ~ (found /\ need.single) => row = all
  PROVE  rows'[i] \subseteq {all}
BY DEF Record

\* Only the row of the file in turn is recorded.
LEMMA RowsOnly ==
  ASSUME NEW found, NEW exact, NEW row, Record(found, exact, row)
  PROVE  rows' = rows \/ \E x : rows' = [rows EXCEPT ![File] = x]
BY DEF Record

\* SearchBuffered: a file that is read whole.
LEMMA BufferedStep ==
  ASSUME RowsKept, Decisions, Formed, SearchFormed, Listing, RingKept, SearchBuffered
  PROVE  RowsKept'
<1>1. Settled /\ Ready /\ Fate = "buffered" /\ pc = "files" /\ node < Len(entries) /\ presence' = presence
  BY DEF SearchBuffered, input, listing, stream, Settled, Ready
<1>2. /\ File \in Files /\ Inode # Poisoned /\ Inode.size \in Nat /\ FileFormed(Inode)
      /\ MaxSize(Inode) = Inode.size
      /\ rows[File] = {} /\ rows = [i \in Files |-> rows[i]] /\ presence = Empty
  BY <1>1, SearchedWhole, Zenon
<1>3. outcome = [i \in Files |-> outcome[i]] /\ Inode = nodes[File]
  BY <1>1 DEF Decisions, Inode
<1>4. PICK read : read = ReadFile(img, Inode, Inode.size, ~ SearchesBinary, Likely) /\
         LET got == IF read.rejected THEN <<>> ELSE LinesOf(read.text)
         IN  \/ read.failed /\ GiveUp
             \/ /\ ~ read.failed /\ pc' = pc
                /\ Finish("buffered", read.rejected, got # <<>>, TRUE, RowOf(read.text))
  BY <1>2, Zenon DEF SearchBuffered
<1> DEFINE got == IF read.rejected THEN <<>> ELSE LinesOf(read.text)
           fate == IF read.rejected THEN "rejected" ELSE "buffered"
<1>5. CASE read.failed /\ GiveUp
  <2>1. outcome' = [outcome EXCEPT ![File] = "failed"] /\ pc' = "done" /\ node' = node /\ rows' = rows
    BY <1>5 DEF GiveUp
  <2>2. PICK here \in Files : here = File
    BY <1>2
  <2>3. RowKept(here)'
    BY <1>3, <2>1, <2>2, RowUnjudged
  <2> QED
    BY <1>1, <1>2, <2>1, <2>2, <2>3, RowDecided
<1>6. CASE ~ read.failed /\ pc' = pc /\ Finish("buffered", read.rejected, got # <<>>, TRUE, RowOf(read.text))
  <2>1. /\ outcome' = [outcome EXCEPT ![File] = fate] /\ node' = node + 1
        /\ Record(got # <<>>, TRUE, RowOf(read.text))
    BY <1>6 DEF Finish
  <2>2. PICK here \in Files : here = File
    BY <1>2
  <2>3. outcome'[here] = fate
    BY <1>3, <2>1, <2>2
  <2>4. RowKept(here)'
    <3>1. CASE read.rejected
      BY <2>3, <3>1, RowUnjudged
    <3>2. CASE ~ read.rejected
      <4> SUFFICES ASSUME Judged(here)'
                   PROVE  (rows[here] \subseteq {Scan(Body(Content(nodes[here])), need)})'
        BY DEF RowKept
      <4>1. /\ img' = img /\ search' = search /\ cli' = cli /\ nodes' = nodes
        BY <1>1 DEF Settled
      <4>2. /\ \A n : Content(n)' = Content(n) /\ BadPlaces(n)' = BadPlaces(n)
            /\ need' = need /\ SearchesBinary' = SearchesBinary
        BY <4>1, ContentSettled, OptionsSettled
      <4>3. (SearchesBinary \/ ~ Doubled(Inode, Inode.size)) /\ BadPlaces(Inode) = {}
        BY <1>3, <2>2, <2>3, <3>2, <4>1, <4>2 DEF Judged, Doubled
      <4>4. read.text = Content(Inode) /\ \E S : Content(Inode) \in Seq(S)
        BY <1>2, <1>4, <1>6, <3>2, <4>3, BufferedReads DEF Formed
      <4>5. PICK S : Content(Inode) \in Seq(S)
        BY <4>4
      <4>6. need.len \in Nat \ {0} /\ AreTexts(find.words) /\ Required
        BY DEF SearchFormed, AreTexts, RowsKept
      <4>7. RowOf(read.text) = Scan(Body(Content(Inode)), need)
        BY <4>4, <4>5, <4>6, RowOfIs
      <4>8. ASSUME got # <<>>, need.single PROVE need.frags = Scan(Body(Content(Inode)), need)
        <5>1. Held(find.words, Body(Content(Inode))) /\ Body(Content(Inode)) \in Seq(S)
          BY <3>2, <4>4, <4>5, <4>6, <4>8, LinesHeld, BodyType
        <5> QED
          BY <4>6, <4>8, <5>1, HeldScan
      <4>9. rows'[here] \subseteq {Scan(Body(Content(Inode)), need)}
        <5> DEFINE all == Scan(Body(Content(Inode)), need)
                   row == RowOf(read.text)
                   found == got # <<>>
        <5>1. /\ Record(found, TRUE, row) /\ (found /\ need.single => need.frags = all) /\ row = all
              /\ rows = [j \in Files |-> rows[j]] /\ rows[here] = {}
          BY <1>2, <2>1, <2>2, <4>7, <4>8
        <5> HIDE DEF all, row, found
        <5>2. rows'[here] \subseteq {all}
          BY ONLY <2>2, <5>1, Recorded
        <5> QED
          BY <5>2 DEF all
      <4>10. Content(nodes[here])' = Content(Inode)
        BY <1>3, <2>2, <4>1, <4>2 DEF Content
      <4> QED
        BY <4>2, <4>9, <4>10
    <3> QED
      BY <3>1, <3>2
  <2> QED
    BY <1>1, <1>2, <1>6, <2>1, <2>2, <2>4, RowDecided, RowsOnly
<1> QED
  BY <1>4, <1>5, <1>6

\* StartStreaming: the head of a streamed file, or a file that its probe rejects.
LEMMA StartStep ==
  ASSUME RowsKept, Decisions, Formed, SearchFormed, Listing, RingKept, StartStreaming
  PROVE  RowsKept'
<1>1. Settled /\ Ready /\ Fate = "streamed" /\ pc = "files" /\ node < Len(entries)
  BY Zenon DEF StartStreaming, input, listing, Settled, Ready
<1>2. /\ File \in Files /\ Inode # Poisoned /\ Inode.size \in Nat /\ FileFormed(Inode)
      /\ MaxSize(Inode) = Inode.size /\ Inode.size >= StreamMin /\ presence = Empty
  BY <1>1, SearchedWhole
<1>3. outcome = [i \in Files |-> outcome[i]]
  BY <1>1 DEF Decisions
<1>4. \/ GiveUp /\ UNCHANGED stream
      \/ \E exact : Finish("streamed", TRUE, FALSE, exact, {}) /\ UNCHANGED <<pc, stream>>
      \/ pc' = "chunks" /\ UNCHANGED <<node, rows, outcome>>
  BY Zenon DEF StartStreaming
<1>5. PICK here \in Files : here = File
  BY <1>2
<1>6. CASE GiveUp /\ UNCHANGED stream
  <2>1. outcome' = [outcome EXCEPT ![File] = "failed"] /\ pc' = "done" /\ node' = node /\ rows' = rows
    BY <1>6 DEF GiveUp
  <2>2. presence' = Empty
    BY <1>2, <1>6 DEF stream
  <2>3. RowKept(here)'
    BY <1>3, <1>5, <2>1, RowUnjudged
  <2> QED
    BY <1>1, <1>5, <2>1, <2>2, <2>3, RowDecided
<1>7. ASSUME NEW exact, Finish("streamed", TRUE, FALSE, exact, {}), UNCHANGED <<pc, stream>>
      PROVE  RowsKept'
  <2>1. /\ outcome' = [outcome EXCEPT ![File] = "rejected"] /\ node' = node + 1
        /\ Record(FALSE, exact, {}) /\ pc' = "files"
    BY <1>1, <1>7 DEF Finish
  <2>2. presence' = Empty
    BY <1>2, <1>7 DEF stream
  <2>3. RowKept(here)'
    BY <1>3, <1>5, <2>1, RowUnjudged
  <2> QED
    BY <1>1, <1>5, <2>1, <2>2, <2>3, RowDecided, RowsOnly
<1>8. CASE pc' = "chunks" /\ UNCHANGED <<node, rows, outcome>>
  <2>1. ASSUME Startable(Inode)' PROVE Streaming'
    <3>1. Startable(nodes[here])
      <4>1. Startable(nodes[here])' <=> Startable(nodes[here])
        BY <1>1, JudgedSettled
      <4>2. nodes'[here] = Inode'
        BY <1>5, <1>8 DEF Inode, File
      <4> QED
        BY <2>1, <4>1, <4>2 DEF Startable
    <3>2. Startable(Inode)
      BY <1>5, <3>1 DEF Inode
    <3>3. Streamed(Inode, carry', presence', chunks', searched', planned')
      BY <1>1, <1>2, <1>8, <3>2, StreamStarts DEF Formed
    <3> QED
      BY <1>1, <1>8, <3>3, StreamingSettled
  <2> QED
    BY <1>1, <1>8, <2>1, RowsStay
<1> QED
  BY <1>4, <1>6, <1>7, <1>8

\* The stream goes on.
LEMMA StreamStep ==
  ASSUME RowsKept, Formed, SearchFormed, StreamChunk \/ FlushTail
  PROVE  RowsKept'
<1>1. Settled /\ UNCHANGED <<node, outcome, rows, pc>> /\ pc = "chunks"
  BY Zenon DEF StreamChunk, FlushTail, input, listing, Settled
<1>2. ASSUME Startable(Inode)' PROVE Streaming'
  <2>1. Startable(Inode)
    <3>1. PICK here : here = File
      OBVIOUS
    <3>2. Startable(nodes[here])' <=> Startable(nodes[here])
      BY <1>1, JudgedSettled
    <3>3. nodes'[here] = Inode'
      BY <1>1, <3>1 DEF Inode, File
    <3> QED
      BY <1>2, <3>1, <3>2, <3>3 DEF Startable, Inode
  <2>2. Streamed(Inode, carry, presence, chunks, searched, planned)
    BY <1>1, <2>1 DEF RowsKept, Streaming
  <2>3. Streamed(Inode, carry', presence', chunks', searched', planned')
    BY <2>2, StreamGoesOn, StreamFlushed DEF Formed
  <2> QED
    BY <1>1, <2>3, StreamingSettled
<1> QED
  BY <1>1, <1>2, RowsStay

\* EndStreaming: the row of a streamed file.
LEMMA EndStep ==
  ASSUME RowsKept, Decisions, Formed, SearchFormed, Listing, EndStreaming
  PROVE  RowsKept'
<1>1. /\ Settled /\ pc = "chunks" /\ pc' = "files" /\ node' = node + 1 /\ presence' = Empty
      /\ outcome' = [outcome EXCEPT ![File] = "streamed"] /\ node < Len(entries)
  BY DEF EndStreaming, Finish, input, listing, Settled, Decisions, Empty
<1>2. PICK exact \in BOOLEAN : /\ exact => Tracks /\ searched = planned
                               /\ Record(carry.found, exact, presence.row)
  <2>1. Record(carry.found, Tracks /\ searched = planned /\ MaxSize(Inode) >= Inode.size, presence.row)
    BY DEF EndStreaming, Finish
  <2> QED
    BY <2>1
<1>3. /\ File \in Files /\ rows[File] = {} /\ rows = [i \in Files |-> rows[i]]
      /\ outcome = [i \in Files |-> outcome[i]]
  <2>1. node \in Nat /\ Len(entries) \in Nat /\ Files = 1..Len(entries)
    BY DEF Decisions, Listing, Finite
  <2>2. File \in Files /\ File > node
    BY <1>1, <2>1 DEF File
  <2> QED
    BY <1>1, <2>2 DEF RowsKept, Decisions
<1>4. PICK here \in Files : here = File
  BY <1>3
<1>5. outcome'[here] = "streamed" /\ Inode = nodes[here]
  BY <1>1, <1>3, <1>4 DEF Inode
<1>6. RowKept(here)'
  <2> SUFFICES ASSUME Judged(here)'
               PROVE  (rows[here] \subseteq {Scan(Body(Content(nodes[here])), need)})'
    BY DEF RowKept
  <2>1. img' = img /\ search' = search /\ cli' = cli /\ nodes' = nodes
    BY <1>1 DEF Settled
  <2>2. (\A n : Content(n)' = Content(n)) /\ need' = need
    BY <2>1, ContentSettled, OptionsSettled
  <2>3. Startable(nodes[here])'
    BY <1>5 DEF Judged, Startable
  <2>4. Startable(Inode)
    BY <1>1, <1>5, <2>3, JudgedSettled
  <2>5. Streamed(Inode, carry, presence, chunks, searched, planned) /\ Required
    BY <1>1, <2>4 DEF RowsKept, Streaming
  <2> DEFINE all == Scan(Body(Content(Inode)), need)
  <2>6. /\ carry.found /\ need.single => need.frags = all
        /\ Tracks /\ searched = planned /\ ~ (carry.found /\ need.single) => presence.row = all
    BY <2>5, StreamEnds
  <2>7. Content(nodes[here])' = Content(Inode)
    BY <1>5, <2>1, <2>2 DEF Content
  <2> HIDE DEF all
  <2>8. rows'[here] \subseteq {all}
    <3> DEFINE found == carry.found
               row == presence.row
    <3>1. /\ Record(found, exact, row) /\ (found /\ need.single => need.frags = all)
          /\ (exact /\ ~ (found /\ need.single) => row = all)
          /\ rows = [j \in Files |-> rows[j]] /\ rows[here] = {}
      BY <1>2, <1>3, <1>4, <2>6
    <3> HIDE DEF found, row
    <3> QED
      BY ONLY <1>4, <3>1, Recorded
  <2> QED
    BY <2>2, <2>7, <2>8 DEF all
<1>7. rows' = rows \/ \E x : rows' = [rows EXCEPT ![File] = x]
  BY <1>2, RowsOnly
<1> QED
  BY <1>1, <1>4, <1>6, <1>7, RowDecided

\* LeaveOut: a file that is not searched has no row.
LEMMA LeaveStep ==
  ASSUME RowsKept, Decisions, Listing, RingKept, LeaveOut
  PROVE  RowsKept'
<1>1. /\ Settled /\ Ready /\ pc' = pc /\ pc = "files" /\ node' = node + 1 /\ node < Len(entries)
      /\ rows' = rows /\ presence' = presence
  BY DEF LeaveOut, input, listing, stream, Settled, Ready
<1>2. PICK fate \in {"poisoned", "large", "cached", "binary", "ignored"} :
        outcome' = [outcome EXCEPT ![File] = fate]
  BY Zenon DEF LeaveOut
<1>3. outcome = [i \in Files |-> outcome[i]] /\ presence = Empty /\ File \in Files
  <2>1. File \in Files
    BY <1>1, FateRight
  <2> QED
    BY <1>1, <2>1 DEF Decisions, RowsKept
<1>4. PICK here \in Files : here = File
  BY <1>3
<1>5. RowKept(here)'
  <2>1. outcome'[here] = fate
    BY <1>2, <1>3, <1>4
  <2> QED
    BY <1>2, <2>1, RowUnjudged
<1> QED
  BY <1>1, <1>2, <1>3, <1>4, <1>5, RowDecided

\* A new listing has no rows.
LEMMA ListStep ==
  ASSUME RowsKept, Decisions, ListDirectory
  PROVE  RowsKept'
<1>1. /\ pc = "list" /\ pc' = "files" /\ node' = node /\ presence' = presence
      /\ img' = img /\ search' = search /\ cli' = cli
      /\ Files' = DOMAIN entries'
      /\ rows' = [i \in DOMAIN entries' |-> {}]
  BY DEF ListDirectory, ListEntries, input, stream, Files
<1>2. rows' = [i \in Files' |-> rows'[i]] /\ \A i \in Files' : rows'[i] = {}
  BY <1>1
<1>3. \A i \in Files' : RowKept(i)'
  BY <1>2 DEF RowKept
<1>4. Required' /\ presence' = Empty
  BY <1>1, OptionsSettled DEF RowsKept
<1> QED
  BY <1>1, <1>2, <1>3, <1>4 DEF RowsKept

\* Nothing happens.
LEMMA NothingStep ==
  ASSUME RowsKept, Decisions, Settled, UNCHANGED <<node, outcome, rows, pc, stream>>
  PROVE  RowsKept'
<1>1. UNCHANGED <<carry, presence, chunks, searched, planned>>
  BY DEF stream
<1>2. CASE pc = "list"
  <2>1. Files = {} /\ Files' = {}
    <3>1. entries = <<>> /\ entries' = entries
      BY <1>2 DEF Decisions, Settled
    <3> QED
      BY <3>1 DEF Files
  <2>2. search' = search /\ cli' = cli
    BY DEF Settled
  <2>3. Required' /\ presence' = Empty
    BY <1>1, <1>2, <2>2, OptionsSettled DEF RowsKept
  <2> QED
    BY <1>2, <2>1, <2>3 DEF RowsKept
<1>3. CASE pc # "list" /\ pc # "chunks"
  BY <1>1, <1>3, RowsStay DEF RowsKept
<1>4. CASE pc = "chunks"
  <2>1. ASSUME Startable(Inode)' PROVE Streaming'
    <3>1. PICK here : here = File
      OBVIOUS
    <3>2. Startable(nodes[here])' <=> Startable(nodes[here])
      BY JudgedSettled
    <3>3. nodes'[here] = Inode'
      BY <3>1 DEF Inode, File
    <3>4. Startable(Inode)
      BY <2>1, <3>1, <3>2, <3>3 DEF Startable, Inode
    <3>5. Streamed(Inode, carry', presence', chunks', searched', planned')
      BY <1>1, <1>4, <3>4, Zenon DEF RowsKept, Streaming
    <3> QED
      BY <3>5, StreamingSettled
  <2> QED
    BY <1>4, <2>1, RowsStay
<1> QED
  BY <1>2, <1>3, <1>4

\* A pattern of several texts has not one text to be found, unless it has no fragments.
LEMMA OneText ==
  ASSUME NEW pat, NEW ignoreCase, NEW word, NEW made, made = Compiled(pat, ignoreCase, word),
         made.need.single, made.need.frags # {}
  PROVE  made.kind # "multi"
<1> DEFINE exact == Exactly(pat)
           kind == Kind(exact, ignoreCase, word)
<1> SUFFICES ASSUME kind = "multi" PROVE FALSE
  BY Zenon DEF Compiled, CompiledAs
<1> DEFINE texts == {IF ignoreCase THEN Lowered(t) ELSE t : t \in exact.texts}
<1>1. made.need = NeedOf(pat, kind, exact, ignoreCase)
  BY DEF Compiled, CompiledAs
<1> HIDE DEF kind, exact
<1>2. made.need = Need({IF ignoreCase THEN Lowered(t) ELSE t : t \in exact.texts}, ignoreCase, FALSE)
  BY <1>1, Zenon DEF NeedOf
<1>3. made.need = Need(texts, ignoreCase, FALSE)
  BY <1>2
<1> HIDE DEF texts
<1> QED
  BY <1>3, SMTT(20) DEF Need

\* At first there are no files.
LEMMA RowsStart ==
  ASSUME Init, LiteralsRequired
  PROVE  RowsKept
<1>1. entries = <<>> /\ pc = "list" /\ presence = Empty
  BY DEF Init, InitWorker, Empty
<1>2. PICK pat, ignoreCase, word : search = Compiled(pat, ignoreCase, word)
  BY Zenon DEF Init, InitSearch
<1>3. Required
  <2> SUFFICES ASSUME need.single, need.frags # {}, NEW w \in find.words PROVE Scan(w, need) = need.frags
    BY DEF Required
  <2>1. search.kind # "multi"
    BY <1>2, OneText DEF need
  <2> QED
    BY <1>1, <2>1 DEF LiteralsRequired
<1>4. Files = {}
  BY <1>1 DEF Files
<1> QED
  BY <1>1, <1>3, <1>4 DEF RowsKept

\* Each step of the worker keeps the rows and what the stream has read.
LEMMA RowsStep ==
  ASSUME RowsKept, Decisions, RingKept, Formed, SearchFormed, Listing, [Next]_vars
  PROVE  RowsKept'
<1>1. CASE LookAhead \/ EndDirectory
  <2>1. /\ Settled /\ UNCHANGED <<node, outcome, rows, stream>>
        /\ pc # "list" /\ pc # "chunks" /\ pc' # "chunks"
    BY <1>1, Zenon DEF LookAhead, EndDirectory, input, listing, Settled
  <2>2. presence' = Empty
    BY <2>1 DEF RowsKept, stream
  <2> QED
    BY <2>1, <2>2, RowsStay
<1>2. CASE Returned \/ UNCHANGED vars
  <2>1. Settled /\ UNCHANGED <<node, outcome, rows, pc, stream>>
    BY <1>2 DEF Returned, vars, input, listing, stream, Settled
  <2> QED
    BY <2>1, NothingStep
<1> QED
  BY <1>1, <1>2, ListStep, LeaveStep, BufferedStep, StartStep, StreamStep, EndStep DEF Next

\* RowsExact: the row that process_file records for a file that was not
\* rejected, and that later searches skip the file by, is the set of the
\* pattern's fragments in the whole file: for a file read whole or streamed,
\* although its chunks overlap by a seam, a wide text is scanned in pieces as it
\* is decoded, the scan stops when a match has shown all fragments, and a stream
\* that a read error has cut short records nothing.
THEOREM RowsExactCorrect ==
  Spec /\ []Formed /\ []SearchFormed /\ []Listing /\ []LiteralsRequired => []RowsExact
<1>1. Init /\ LiteralsRequired => RowsKept
  BY RowsStart
<1>2. RowsKept /\ Decisions /\ RingKept /\ Formed /\ SearchFormed /\ Listing /\ [Next]_vars => RowsKept'
  BY RowsStep
<1>3. RowsKept => RowsExact
  BY DEF RowsKept, RowKept, RowsExact
<1>4. Init => Decisions
  BY DecisionsStart
<1>5. Decisions /\ RingKept /\ Listing /\ Listing' /\ [Next]_vars => Decisions'
  BY DecisionsStep
<1>6. Listing => Finite
  BY DEF Listing
<1> QED
  BY <1>1, <1>2, <1>3, <1>4, <1>5, <1>6, RingInvariance, PTL DEF Spec
=============================================================================
