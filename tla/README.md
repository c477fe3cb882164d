# Verification of rawgrep

TLA+ models of [rawgrep](../src/README.md), TLC runs that check them on small
instances, and TLAPS proofs about them. Source paths below are relative to
`src/`; `worker.rs:2865` is `src/src/worker.rs`, line 2865. `PROJECT.json` has
the line-by-line map from definitions to code, the list of runs, of hazards and
of findings.

## 1. The system

rawgrep searches a directory tree for a pattern by reading the file system's
on-disk structures (ext4, APFS, NTFS) from the raw device. One search is a walk
of directories by a pool of threads; every file that passes the filters is
looked up in a *fragment cache* and only read when the cache cannot rule it out;
matches go through a lock-free output path to stdout.

    caller --search/wait/cancel/save--> RawGrepCtx --generation--> worker threads
                                            |                       |  |  |
                            fragment cache (load, save)   injector, deques, running,
                                            ^              active_workers (shared)
                                            |                          |
                               updates deposited by workers      records in slots
                                                                       v
                                                  channel --> OutputWorker --> stdout

### Components

| component | code | state it keeps | operations |
|---|---|---|---|
| worker loop, work stealing | `worker.rs` `start_worker_loop`, `find_work`, `dispatch_*`, `process_directory` | injector, one LIFO deque per worker, `running`, `active_workers`, the recursion's own list | pop, steal from injector, steal from a victim, quiescence test, dispatch, split of subdirectories, cancel |
| output path | `output.rs`, `worker.rs` `OutputWorker`, `ctx.rs` `wait` | slot masks, `overflow_used`, slab memory, the writer's buffer, channel, batch | write a record, rotate, claim, reserve, flush, absorb, write batch, release, acknowledge, die |
| search context | `ctx.rs` | `wake` generation, `job_done` counter, `current_job`, `running`, deposited updates | search, wait, cancel, save_cache, `worker_thread_main` |
| fragment cache | `cache.rs`, `grep.rs` | hashes (columns, eviction ring), file keys and metas (rows), bitset, lookup table | load, lookup, can_skip, record, plan batch, place a hash, apply row, save |
| per-file search | `worker.rs` `process_file` and callees | scratch buffers, presence vector, line counter | filter, skip, read whole or stream, match, print, record |
| fragments, extraction | `fragments.rs`, `matcher.rs`, `extractor.rs`, `liner.rs` | none | pattern to matcher and fragment hashes, presence of hashes in a buffer |
| flush pacer | `pacer.rs` | two atomics | poll, record a flush |
| binary detection, verdicts | `binary.rs`, `binary_ext.rs`, `binary_verdicts.rs` | verdict table on disk | probe, look up, merge, evict, save |
| gitignore | `ignore.rs` | chain of parsed files | match along the chain |
| file system readers | `parser.rs`, `ext4/`, `apfs/`, `ntfs/` | superblock data | inode, directory and extent decoding |
| temperature sampling | `run_temperature.rs` | sampled page-cache residency | prefetch hint |
| entry, signals, options | `bin/rawgrep.rs`, `lib.rs`, `ctrl_c.rs`, `cli.rs`, `error.rs` | handler flag | start-up; SIGINT clears `running` |
| platform | `platform.rs`, `topology.rs`, `util.rs`, `stdout.rs` | none | device detection, thread placement |
| statistics, logging | `stats.rs`, `logger.rs`, `color.rs`, `tracy.rs` | counters | none that control depends on |
| containers, vendored code | `smallvec_vendor.rs`, `bytecount_vendor/`, `path_buf.rs`, `thin_path_arc.rs`, `index_.rs`, `unwrap_.rs` | | |

### What is hard, and what makes each part correct

* **Work stealing.** Pops, batch steals and pushes race; the end of a search is
  inferred from a counter and two queues that are read at different times.
  Correct: no item is duplicated or lost while the search goes on; the counter
  is exact; every worker leaves; when they all have left, the tree is searched.
* **Output path.** Memory is handed between threads by bits of a mask; budget is
  returned in several places, error paths included. Correct: a slot has one
  owner; budget and slots are conserved; a worker's output arrives once, in
  order, records uncut; a full pool never stops a worker for ever; `wait`
  returns with everything written.
* **Search context.** One pool serves many searches; a search may be replaced
  while its workers still run; set-up may fail. Correct: no worker sees data of
  another search; results are complete when `wait` returns; calls return; a
  failure leaves the context usable.
* **Fragment cache.** A wrong claim makes a search silently miss files. Correct:
  a claim "absent from this version" is true; a merge learns what the batch says
  and nothing else; capacity is respected; a file with a match is not skipped.
* **Per-file search and streaming.** Fragments and lines straddle chunk
  boundaries, and what was found ahead of a file stands in a ring that is reused.
  Correct: a file is searched unless it has a reason of its own not to be;
  presence found in pieces is presence in the whole; every matching line is
  printed once, with its number.
* **Readers.** Holes, trees of extents, runs with relative starts, a head that the
  probe has read already, blocks that cannot be read. Correct: the parts that are
  read are the file, each byte once and in order; a listing has the entries of the
  directory and no others; a bad block takes no other file with it.
* **Extraction.** Correct: what is required of a file is in every match.
* **Gitignore.** Precedence of patterns, negation, shortcuts by form. Correct: the
  verdict is git's.
* **What is kept between searches.** A cache file that is mapped while another
  process replaces it, a save that is cut short by a crash or by the loss of power;
  counters that many threads add to with stale knowledge; verdicts that are merged
  and dropped. Correct: a cache that is loaded is a cache that was saved; a counter
  never carries into its neighbour; a verdict that is needed is not lost.
* **Pacer.** A clock read and a store that race.

## 2. Modules

| module | models | built on |
|---|---|---|
| `TreeWalk` | abstract: what a search promises about the tree | |
| `WorkStealing` | worker loop and walk; `Walk == INSTANCE TreeWalk` is its refinement | `TreeWalk` |
| `OutputPath` | writers, pools, channel, output thread, `wait`'s flush | |
| `SearchRounds` | abstract: searches are rounds of every worker | |
| `SearchLifecycle` | the search context and the worker threads' outer loop; `Rounds == INSTANCE SearchRounds` | `SearchRounds` |
| `FragmentCache` | files that change, searches that read them, the cache they share | |
| `Chars` | bytes and code units that are treated in a way of their own, case | |
| `PatternLiterals` | `extractor.rs`, and the choice of matcher and of fragments in `matcher.rs` | `Chars` |
| `Presence` | which fragments a text holds, found piece by piece | `PatternLiterals` |
| `MatchLines` | from a buffer to the lines that match, raw or decoded, with the carry between chunks | `Chars` |
| `Gitignore` | `ignore.rs`: parsing, tables by form, globs, the chain | |
| `GitMeaning` | reference: what a `.gitignore` line means, without an algorithm | |
| `RawDevice` | reads that fail, the binary probe, chunk lists (what the readers share) | `Chars` |
| `Ext4Reader`, `NtfsReader` | `ext4/parser.rs`, `ntfs/parser.rs`: inodes, extents, runs, directories, chunk plans | `RawDevice` |
| `RawFs` | the readers behind one interface | both readers |
| `FileSearch` | one worker searches one directory: listing, look-ahead, `process_file` | `RawFs`, `MatchLines`, `Presence`, `Gitignore`, `GitMeaning` |
| `BinaryVerdicts` | `binary_verdicts.rs`: counters, lookup, merge | |
| `KeptState` | processes that load, search and save both caches, and die | `BinaryVerdicts` |
| `QueueLemmas` | lemmas on sequences used as queues: cuts, concatenations, flattenings, overwriting | TLAPS |
| `FoldSteps` | what `FoldLeft` computes, one step at a time; instantiated with the step | |
| `WorkStealingProofs`, `SearchLifecycleProofs`, `FragmentCacheProofs`, `KeptStateProofs` | theorems about the module they are named after | the module |
| `OutputPathProofs` | theorems about `OutputPath`: memory and budget, then what reaches stdout | `OutputPath`, `QueueLemmas` |
| `FileSearchProofs` | theorems about `FileSearch`: the ring, the decisions and the rows, `Presence`, the two readers | `FileSearch`, `QueueLemmas`, `FoldSteps` |
| `MC*` | instances of the module they are named after | |

Some definitions stand beside a mapped one and are marked *Mutant* (for instance
`EndDispatchUncounted` beside `EndDispatch`). They are not part of any
specification: each is what the code would be after a plausible mistake, and
`PROJECT.json` says which property notices it.

### WorkStealing

| variable | in the code |
|---|---|
| `injector`, `local` | `Injector`, `Worker::new_lifo` and its stealers |
| `running`, `active` | `running`, `active_workers` |
| `hand` | the item found, then the directories that the calls of `process_directory` on this thread's stack still have to dispatch |
| `pc`, `victims` | where the thread is in `start_worker_loop` and in `find_work`'s round over the stealers |
| `team` | which threads the pool has (`--threads`), chosen at the start |
| `searched` | history: directories `process_directory` was called on |

A step is what one thread does between two shared accesses that another thread
can disturb. `find_work` is four steps (own deque, injector, one victim, give
up), the quiescence test two (read, then clear `running`), and taking an item
and counting oneself active two, as in the code. A directory's files are
searched as part of `SearchDir`; a single file (`WorkItem::File`) is the
same kind of item, without subdirectories, and takes the same path. A steal takes between one item and
half of the victim's, since crossbeam's batch operations may stop early.

### OutputPath

A slot is shared memory: a message names a slot and a length, and the cells are
read when they are written out, so a slot reused too early shows as wrong
output. The path of a record through `write_record` is that of the code: fits;
does not fit and the buffer is rotated; bigger than a slot and given a buffer of
its own. `Fail` is a failing write at any moment, `writer = "absent"` the case of
stdout being `/dev/null`, for which no output thread is started. The pacer is
abstracted: `Flush` may happen between any two records.

### SearchLifecycle

`search` is the sequence of steps it has in `ctx.rs` (stop the old one and wait;
arm `job_done`; build the job, which may fail; drain the injector; swap the job;
push the root; set `running`; raise the generation), `worker_thread_main` is that
of a worker (wake, fetch the job, loop, deposit, count out, drop the job). The
tree is abstracted to items that may queue more items, tagged with the search
that queued them. `Init` has both constructors: `new` and
`new_for_single_search`.

### FragmentCache

A fragment is a word, a file's content a set of words and the verdict of the
binary probe, a version a number that every modification raises. The table has
the code's structure: columns placed one hash at a time (existing, free, evicted
from the ring around those of the same batch), rows updated or added or dropped,
`RESET` of rows whose file changed. `Stat`, `Skip`/`PassOver` and the three reads
are separate steps, because the file may change between them. `lookup` is chosen
from `Lookups(t)`: `rebuild_lookup` gives up after sixteen probes, so that a row
may not be found and a duplicate may be added.

### FileSearch

| variable | in the code |
|---|---|
| `img`, `ignores`, `parent` | the device, the chain of `.gitignore` files handed down with the work item, the directory's path |
| `search`, `cli` | the compiled pattern (matcher, fragments) and the options |
| `entries`, `nodes`, `chain`, `subdirs` | what `process_directory` lists: files with their inodes, the chain with the directory's own rules, the subdirectories it queues |
| `node`, `ahead`, `ring`, `tally` | the locals of `process_files` |
| `pc`, `carry`, `presence`, `chunks`, `searched`, `planned` | the locals of `process_file_streaming` |
| `out`, `rows`, `verdicts`, `outcome` | what was printed, recorded and decided, per file |

One action is one round of a loop: `ListDirectory`, `LookAhead` (one file ahead),
then for the file in turn `LeaveOut`, `SearchBuffered`, or `StartStreaming` with
`StreamChunk` per chunk, `FlushTail` and `EndStreaming`. The worker is alone with
its directory, so nothing interleaves; what is hard is the data, and the module
computes it by operators that follow the code function by function. `Fate` is the
decision table of `process_file` in the code's order of tests.

The second half of the module says what the outcome should be without the code's
machinery: `Content` is a file as its extents or runs lay it on the device,
`Wanted` its lines that hold a word of the pattern, `DirHolds` the entries of a
directory, `RuleFiles` and `GitIgnored` the rules and their meaning. The properties
compare the two halves.

`MCFileSearch` has ten families of searches, each with what it varies and the rest
plain: `Batches` (three files, every reason to leave one out, options),
`ContentSearches` (every short text, on two layouts, with a bad block),
`LayoutSearches` (extent lists and trees with holes, unreadable nodes, sizes that
do not agree), `RuleSearches` and `OwnRuleSearches` (one and two ignore lines, from
above or from the directory), `PatternSearches` (pattern trees with `-i` and
`-w`), `DirectorySearches` (ext4 listings with dot files, poisoned inodes, early
ends), `NtfsSearches`, `BrokenSearches` and `NtfsDirectories` (run lists, resident
files, index blocks, DOS names).

### KeptState

| variable | in the code |
|---|---|
| `inode`, `synced`, `path`, `tmp` | the file system under the cache: contents as five segments, what reached the device, the two names |
| `verdicts` | the verdict file |
| `pc`, `fd`, `wrote` | where a process is in `search` and `save_cache`, its open file |
| `mapped`, `table` | the cache file it has mapped and what it holds for this process |
| `known`, `used`, `todo`, `slot`, `thread`, `acc` | `BinaryVerdicts`, the files still to be taken, one counter word, the workers, the accumulator |
| `overlapped`, `told` | history: two saves were under way at once; what the last saver had met |

An inode is explicit because a mapping and an open file follow the inode, not the
name: that is what makes replacing the cache under a running process safe. A save
is `CreateTmp` (create or truncate, set the length), `Write` (one segment more),
`SyncAll`, `Rename`; `SaveFails` may end it anywhere, `Die` kills a process at any
step, `PowerLoss` takes all processes and what was not synced. `Take`, `Age` and
`Tally` are the steps of `BinaryVerdicts::record` between which other workers run:
the decision is made on a count read before. `Turn` lets no other process step
while the workers of one run, since they touch only their own memory.

## 3. Runs

| run | instance | shows |
|---|---|---|
| `work_stealing` | pools of 1, 2 and 3 workers; a tree of eight directories, three deep; a cancel at any moment | placement, counter, refinement of `TreeWalk`, a pool of one is complete, termination |
| `work_stealing_lost` | same tree, two workers | **violation** of `Complete` |
| `output_path` | two workers with a slot of two cells each, records of one and of three cells, three for one worker and one for the other, overflow of seven cells, two searches, failing and partial writes | ownership, conservation, order, whole records, flush; a waiting worker gets a buffer, `wait` returns |
| `lifecycle` | two workers, three searches, two items each, failing set-ups, cancels, waits and saves anywhere | counters and generations, results, refinement of `SearchRounds`, calls return |
| `lifecycle_hang`, `lifecycle_stale`, `lifecycle_unsaved` | two workers, one or two searches | **violations**, see section 6 |
| `fragment_cache` | two names of one file, three fragments, two columns and two rows, two versions, two searches | claims, skips, merges, columns |
| `cache_alternation` | two files, one alternation of two words | **violation** of `NoMatchSkipped` |
| `file_search` | the ten families of section 2 (some 270,000 states) | lines, rows, listings, chunk plans, required literals, ignore rules, reasons to leave a file out |
| `file_search_numbers` | the family `ContentSearches` | **violation** of `NumbersExact` |
| `kept_state` | two processes of two workers, three files of which two are rejected, two searches, six inodes (some 310,000 states) | no carry, loaded caches are whole, verdicts are kept |

Why the bounds are enough to be interesting:

* *work_stealing*: the directory with three children is at depth two, where
  `process_directory` keeps part of the list for its own recursion; the root is
  where it keeps one. The stolen directory has a child, so a thief becomes a
  victim. Three workers give two thieves for one victim.
* *output_path*: with one slot each the second record of a worker finds its slot
  in flight, so the overflow path is taken; three cells exceed a slot, so the
  oversized path is too; seven cells of overflow let both workers hold a buffer
  and one record be shipped, and make a third reservation wait. `IovMax` and
  `FlushBatch` are small enough for a batch to be cut by either.
* *lifecycle*: three searches, so that a search can find the pool in the state a
  replaced search left; two workers, so that one can be late.
* *fragment_cache*: one fragment more in the queries than there are columns, so
  that the ring evicts; one pattern that shares a fragment with another; two
  versions and two searches, so that a row is stale when it is used. A second
  name for the same file makes one batch hold two rows for one key.

* *file_search*: a block of two bytes, a chunk of three and a probe of two put a
  chunk's end inside a block, inside a line and inside a word; a file of four bytes
  is streamed and one of three is not, so texts of one to seven bytes are on both
  sides; a limit of nine bytes makes a ten byte file too large. Fragments have two
  or three characters, so the seam between pieces is one or two. The look-ahead is
  one file and the ring two, so that the third file reuses the first one's slot. Two
  inodes fill a block of the inode table and two records a cluster, so that one
  listing needs two blocks and one of them can be unreadable. Patterns have one to
  three parts of every kind of node.
* *kept_state*: a half of a counter holds less than four and ages at two, so two
  workers with stale reads come as near to a carry as the assumption allows; one
  verdict is kept at most and two are found, so a merge has to drop; a fingerprint
  has three bits and a bucket one entry. Two processes can be in a save at once; six
  inodes are enough for both names, two mappings and two open files.

`MaxRecords`, `MaxSearches`, `MaxItems`, `MaxVersions` and the set `Inodes` bound
what has no bound in the code; they stand in guards. `lifecycle` and
`fragment_cache` allow the model to stop, because nobody has to ask for another
search; the other runs check for deadlock, with an explicit stuttering step
(`Finished`, `Idle`, `Returned`) where everything is over. In `kept_state` a
process or the power can always go.

## 4. Fairness

* `WorkStealing`: weak fairness of each thread. The loop never blocks (it spins
  or yields), so the scheduler is all that is needed. No fairness for a cancel.
* `OutputPath`: weak fairness of a worker that needs a buffer (it is parked with
  a timeout and retries), of its finish, of the output thread and of the caller.
  The last two assume that whoever reads stdout keeps reading or the write
  fails. A failing write is not fair, nor is writing another record. `Finish`
  being fair says that a search's work is finite, which `Terminates` of
  `WorkStealing` shows.
* `SearchLifecycle`: weak fairness of each thread and of a call that was made;
  none for making a call.
* `FragmentCache`, `FileSearch`, `KeptState`: safety only. A file's search is a
  sequential program over finite data, and nobody has to save.

`FreshBufferComes` needs an assumption that is a property of the configuration:
the overflow budget has room for one partly filled buffer per worker and the
largest record. The code's numbers (16 MB, 64 KB) give it for fewer than 256
workers; `--threads` has no upper limit (`cli.rs:142`). With more, all workers
can park in `acquire_overflow`, each holding a buffer that nobody ships.

## 5. Proofs

`tlapm` checks, for every value of the constants that the assumptions allow:

| theorem | says |
|---|---|
| **`WorkStealing`** (`WorkStealingProofs`) | |
| `CountedTypeCorrect`, `TypeCorrect` | `Spec => [](TypeOK /\ ActiveCounts)` |
| `PlacedOnceCorrect` | `Spec => []PlacedOnce` |
| `WalkImplemented` | `Spec => ImplementsWalk` |
| `TakenIsDispatchedCorrect` | `Spec => []TakenIsDispatched` |
| `SoloCompleteCorrect` | `Spec => []SoloComplete` |
| **`OutputPath`** (`OutputPathProofs`) | |
| `TypeCorrect` | `Spec => []TypeOK` |
| `SlotOwnershipCorrect`, `PoolConservedCorrect` | `Spec => []SlotOwnership`, `Spec => []PoolConserved` |
| `InOrderCorrect`, `RecordsWholeCorrect` | `Spec => []InOrder`, `Spec => []RecordsWhole` |
| `FlushedOnReturnCorrect` | `Spec => []FlushedOnReturn` |
| **`SearchLifecycle`** (`SearchLifecycleProofs`) | |
| `TypeCorrect`, `OwedFinishesCorrect` | `Spec => []TypeOK`, `Spec => []OwedFinishes` |
| `StoppedBeforeSwapCorrect` | `Spec => []StoppedBeforeSwap` |
| `ResultsCompleteCorrect` | `Spec => []ResultsComplete` |
| `RoundsImplemented` | `Spec => ImplementsRounds` |
| **`FragmentCache`** (`FragmentCacheProofs`) | |
| `TypeCorrect`, `ColumnsDistinctCorrect` | `Spec => []TypeOK`, `Spec => []ColumnsDistinct` |
| `ClaimsHoldCorrect`, `SkippedLacksCorrect` | `Spec => []ClaimsHold`, `Spec => []SkippedLacks` |
| `BatchKeptCorrect` | `Spec => []BatchKept` |
| `LearnsOnlyTheBatchCorrect` | `Spec => LearnsOnlyTheBatch`, an action property |
| **`FileSearch`** (`FileSearchProofs`) | |
| `RingOwnCorrect` | `Spec /\ []Finite => []RingOwn` |
| `SearchedUnlessLeftOutCorrect` | `Spec /\ []Listing => []SearchedUnlessLeftOut` |
| `HeadAndChunksCoverCorrect` | `Spec /\ []Formed => []HeadAndChunksCover` |
| `RowsExactCorrect` | `Spec /\ []Formed /\ []SearchFormed /\ []Listing /\ []LiteralsRequired => []RowsExact` |
| `BufferedReads`, `StreamCovers` | about a reader: what a file that is read whole, or streamed, is read as |
| `FeedExact`, `PiecesExact` | about `Presence`: pieces fed in turn give the row of the whole text |
| `Ext4Covers`, `NtfsCovers` | about a reader: what is planned for a file is its content |
| `PlanBytes`, `RunPlanBytes`, `SplitBytes` | about a reader: the bytes the chunks stand for, when planned and when cut |
| **`FoldLeft`** (`FoldSteps`) | |
| `FoldIs` | a fold is the last of the values that the steps go through |
| **`KeptState`** (`KeptStateProofs`) | |
| `TypeCorrect` | `Spec => []TypeOK` |
| `NoCarryCorrect` | `Spec => []NoCarry` |
| `LoadedWholeCorrect` | `Spec => []LoadedWhole` |
| `VerdictsKeptCorrect` | `Spec => []VerdictsKept` |

So every safety invariant of the passing runs is proved, but for those of
`FileSearch` that the end of this section lists. Each inductive invariant was an
invariant of TLC's run of the module before it was proved.

### WorkStealing

Assumptions: `TreeAssumption` (the subdirectory lists form a forest in which
nobody lists the root, that is, directories have no hard links) and
`WorkersAssumption` (finitely many workers).

Argument. `TypeOK` is not inductive alone: `active' \in Nat` when a dispatch
ends needs `active > 0`, which is what `ActiveCounts` provides; their
conjunction `CountedType` is inductive (`TypeStep`, `CountStep`). `PlacedOnce` is
not inductive either: when a directory is searched its children must be new to
every queue. `Placement` adds what makes them so: the children of a directory
are placed or searched only after it was searched itself (`ParentsFirst`), so
those of a directory still in hand are nowhere; and only a thread that has an
item has anything in its hands (`HandsEmpty`). A worker's step is of one of three
kinds (`StepKinds`): it takes an item, it searches a directory, or it moves none
(`Quiet`). The three ways to take an item (pop, batch from the injector, batch
from a victim, of any size) have one conclusion, `Moved(d, w)`: one directory
leaves the queues for the worker's hands and the others stay queued
(`TakingStep`, `MovedStep`). `SearchingStep` is the search. `PlaceStep` joins them:
any step leaves `Queued \union Held` as it is, or takes one directory out and
puts its children in. That is a step of `TreeWalk` or a stutter, so the
refinement follows from the same invariant. `QueueLemmas` has the facts on
sequences this needs: the element sets of concatenations, cuts and reversals,
and that a cut of an injective sequence is an injective sequence.

How a search ends is a second invariant, `EndInv`, on top of these. `Ending`:
`running` is cleared, without a cancel, only by a worker that found the injector
empty, and the injector stays so; `RootFirst`: the root is in the injector, in a
hand or searched, and never in a deque; `ChildrenKnown`: what is below a searched
directory is somewhere. `TakenIsDispatched` needs no more. In a pool of one
(`SoloEnd`) the worker that declares quiescence has found its own deque empty, and
there is no other: nothing is left, so `ChildrenKnown` says that the tree is
searched. With two workers `SoloEnd` fails, which is finding 1.

### OutputPath

Assumption: `OutputAssumption` (finitely many workers; positive numbers of slots,
cells, budget and batch sizes; records have a length). Nothing bounds the number of
workers against the budget, and records may exceed a slot or the whole budget:
only `FreshBufferComes`, a liveness property, needs more.

Argument. `IInv` adds two things to the three invariants it proves: a message says
no more of a slot than was written there (`Filled`), and the output worker ends
only because a write failed (`EndsByFailure`). Budget is a number that several
places add to and take from, so the lemmas count it as a set: a buffer that
reserves `r` stands for `r` pairs of its place and a number, and moving a buffer
from a worker to the channel, to the batch and out of it moves its pairs. That is
why the model has `Budget` as a cardinality.

The order is a second invariant, `OrderInv`. `Tidy` says of
what was shipped (written, left of the batch, in the channel, in this order) and
of each worker's buffer that records are whole in each, that no record is in both,
that the numbers are below the worker's next one, and that a worker's cells,
shipped and then held, are what it has written. Every step but a write of a record
leaves that line of cells as it is, moving its joints only; a write puts one record at
the end of it (`PutsOne`). This needs that a slot's cells do not change while a
message names it, which is `SlotOwnership`.
`Of` and `Flat` are both flattenings, and not a filter and a fold, because one lemma
of `QueueLemmas` then serves them all: the flattening of a concatenation is the
concatenation of the flattenings (`FlattenConcat`).
`FlushLast` says that the request to flush is behind every other message and is
answered only with the batch empty; with `AllDone` (`wait` sends it when every
worker is through) and `Pending` (a worker that is through holds nothing) this
gives `FlushedOnReturn`.

### SearchLifecycle

Assumption: `LifecycleAssumption` (finitely many workers, at least one; the bounds
are numbers, and at least one search is allowed).

Argument. `OwedFinishes` equates `job_done` with the number of workers whose
finishes are behind, and is not inductive: the step that arms the counter needs to
know that nobody is. `Rounded` says which finishes each worker has: in a round all
but the current one, outside all it has woken for, at most one behind; and none
behind once the counter is at zero or armed. A failed set-up leaves the counter
armed for nobody (`broken`), and from there the caller can only wait for ever: that
is in the invariant, and is finding 2. `JobHeld` says that whoever is in a round
holds the current job, and that whoever finished the current generation has
deposited for it. With these `search` swaps the job only while everybody sleeps,
and `wait` returns only with all deposits there. In `RoundsImplemented` raising
the generation is the abstract start of a round, counting out the abstract finish,
and every other step a stutter.

### FragmentCache

Assumption: `CacheAssumption`: names map to files, there are finitely many fragments
(a hash has 32 bits), a pattern that uses the cache has a fragment, and the
fragments of a pattern with `-i` are in lower case (`matcher.rs` lowers them before
they are cut). The capacity is any.

Argument. `IInv` follows one merge through its steps. `Columns`: columns given to
the batch are its own, and a word of it got none only when all are taken by others
of it. `RowsKept`: rows keep their places, and a row that was rewritten for
another version has bits in the batch's columns only. From these, `Learned`: the
table never says more than the old one and the batch do. This is the critical
part, since evicting a column gives old bits a new meaning unless they are
cleared. `Said` is the converse: the batch's rows are there. `Truthful`
compares claims with contents: a search reads the inode before the data, so a
claim may be about a version that is gone by then, and only claims about the
present version, or the one that was skipped, have to be true. Claims about the
versions in `unread` are excepted, as in section 6.

### FileSearch

Assumptions: `RingAssumption`, the look-ahead is shorter than the ring (8 and 16 in
the code), and `SizeAssumption`, the limits on sizes are numbers and some file is
below the streaming threshold. The hypotheses `[]Finite` (a directory's listing has a
finite length), `[]Listing` (it is a sequence, and an inode that could be read has a
size), `[]Formed` and `[]SearchFormed` are there because the image and the search are
chosen from sets that the constants leave open. The last two are the first part of
`TypeOK`, so TLC checks them in every state of the run. `Formed`: the device has
whole blocks, and the extents, the blocks of an extent tree and the runs of a file
that is listed are of the right kind and lie on the device; data that is held in an
inode or a record is shorter than the streaming threshold (10 MiB), which the comment at
`worker.rs:44-46` asks for. That is a healthy device as far as places go, and nothing
more: extents may overlap and come in any order, a tree may be of any
depth and may have cycles, runs may be holes. `SearchFormed`: the words of the
pattern are texts, and fragments have a length.

Argument. `RingOwn` speaks of the file in turn; what is inductive is `RingKept`:
each file from the one in turn to the end of the window has its own result in its
slot, and that result says of the file what the options, the cache and the
verdicts say (`Suits`). Looking ahead at one more file overwrites the slot of a file
that is at least `Ring - Ahead` places behind (`SlotsDiffer`: two numbers less than
`Ring` apart have different remainders); every other step keeps the ring and takes
at most the next file (`OtherSteps`).

`SearchedUnlessLeftOut` states the conditions without the ring; `process_file`
decides with the ring's result and its own checks. `FateRight` shows that the two
agree for the file in turn, given `Suits`. `Decisions` adds that all files before the
one in turn are decided, that a file that is being streamed was permitted, and that
the worker ends at the end of the list or at a file whose run list is damaged.

`PiecesExact` is about the operators with which a streamed file's row is made. A text
is cut anywhere, into pieces of any lengths, and `Feed` is applied to them in turn;
the row is then what one `Scan` of the text gives. The step is `FeedExact`: the row
and the seam of a text, fed a piece, are the row and the seam of the text with that
piece behind it. A scan finds the windows of `len` characters that are fragments
(`ScanIs`); a window of the whole lies in the text, in the piece, or in the join of
`len - 1` characters from either side of the cut, and every window of the join is one
of the whole (`WindowPlaces`, `ScanAcross`). That the seam behind a piece that is
shorter than a seam is still the end of everything scanned so far is `SeamExact`. The
run checks `RowsExact` for texts of up to seven bytes in chunks of at most three; the theorem
says for all lengths that the seam is neither too short nor kept too long.

`HeadAndChunksCover` says that the head which the probe has read and the chunks that
are planned behind it are the file. Its proof is by the code's own steps, each a fold
over a list, and each says what bytes its result stands for (`BytesOf`):

* A fold is gone through step by step (`FoldIs`): the values of its accumulator
  satisfy what the step keeps. `PlanStep` takes the part of an extent that is below
  the limit, drops what the probe has read of it, and merges it with the chunk before
  when the two meet. The invariant of that walk is that the chunks so far stand
  for the extents so far, cut at the limit and without the skipped bytes
  (`PlanBytes`; `OneMore`, `LastLonger` and `AddChunkBytes` are the cases of a chunk).
  `FirstGrows` and `RestGrows` say how the cut at either end moves when an extent is
  added.
* The run list of NTFS is the same with pieces of a run's own (`RunPlanBytes`). Here
  what the probe has read has to be less than what the first mapped run holds
  (`ReadBefore`): otherwise the code reads the rest of the skip from behind the run.
  `Doubled` names those files, and `HeadAndChunksCover` excepts them.
* The probe reads at the file's first extent, which on ext4 is found by a walk of its own,
  down the left edge of the tree. `FirstExtentStarts` compares that walk with the one
  that collects all extents: at every depth it finds where the first of those
  begins, or nothing. So the head is a beginning of the content (`ProbedHead`), and the
  plan leaves out just as much (`HeadAndPlan`). On NTFS `FirstMappedHead` has that
  part.
* `SplitBytes` cuts the chunks to the size of the buffer, and `FormedCovers` puts the
  three together for either file system.

The two walks of the tree are functions of a level and a block. That each is one function, defined
for every tree, is shown by induction on the level (`WalksExist`, `LeftsExist`), and no
proof needs more about `CHOOSE`.

`RowsExact` puts these together over the steps of the worker: a row that is recorded
is the set of the pattern's fragments in the whole file. Its hypothesis
`[]LiteralsRequired`, which the run checks and no theorem states, says that a text the
pattern matches holds the fragments; the row of a single literal is recorded on a match
alone. The inductive invariant is `RowsKept`, with `Decisions` and `RingKept`:

* The rows of files that are decided are exact (`RowKept`), those of files to come are
  empty, and presence is empty unless a file is streamed. The row of a file that cannot
  be judged is left open, as `RowsExact` does.
* While a file is streamed, `Streamed` says what has been read of it: a text and a rest
  that together are the content, the rest being what the chunks still stand for, or
  being lost after a short read, with no chunk left. `searched` is the length
  of that text and `planned` that of the content, so that the test `searched = planned`
  before a row is recorded says that nothing was lost.
* `Follows` says what `carry` knows of that text: its encoding, the part of its body
  that is still to be searched (`tail`), and that a match was found only if a word is
  there (`Held`). A cut may fall anywhere, so this is about `InChunk` with any tail
  and any cut. `Traces` says that the row is a scan of what was fed: all bytes read of
  text that needs no decoding, and the part that was decoded of text that does.
* `FeedWideExact` is about the spans of wide text: however long, fed in turn, they give
  the row and the seam of the text. `LinesHeld` says that a line is printed only of a
  text that holds a word, by either loop that prints.
* `StreamStarts`, `StreamGoesOn`, `StreamFlushed` and `StreamEnds` are the actions. The
  first rests on what was proved of the planned chunks (`StreamCovers`), the second on
  what a read of the device returns, short reads included (`DeliveredIs`).
* A file that is read whole goes through a loop over its chunks that stops at a short
  read. `BufferedReads` says that it is read as its content if none of its blocks is
  bad. The places that the chunks read are those of the content: the lemmas about the
  bytes of chunks are applied to the numbers of the places in their stead (`Numbers`).

### KeptState

Assumptions: `VerdictAssumption` (the cap of a counter is below what a half
holds) and `KeptAssumption`, of which one part matters: `Cap` plus the number of
workers, and twice the number of workers, fit a half. In the code a half has 16 bits
and the cap is 2^15 - 1, so it says that there are at most 2^15 workers.

Argument.

* `TypeCorrect`: a segment can be written only into an inode that `CreateTmp` gave
  its length, so `Typed` adds `Created` to `TypeOK`.
* `NoCarryCorrect`: `NoCarry` counts the additions that are decided but not done,
  and is inductive with `Typed`. A worker decides to add only on a count below the
  cap, or ages first; whatever others did meanwhile, there is one pending addition
  per worker (`FitsAll`), and ageing leaves a half of at most half its range.
* `VerdictsKeptCorrect`: `Kept` separates what a search relied on (a part of what
  it loaded) from what it found (no part of it), workers that have not deposited
  yet included. A merge keeps both sets whatever the limit, and takes nothing that
  the probe did not reject.
* `LoadedWholeCorrect`: `Stored` says that while no two saves overlapped one
  process saves at a time, its open file is the temporary one, the segments written
  so far are those of its table, and neither the file that is found nor any that is
  mapped is the temporary one. The order sync, then rename, is what keeps `path` in
  `synced` and so whole after a loss of power.

### Only model-checked

* Liveness (`Terminates`, `FreshBufferComes`, `WaitReturns`, `CallsReturn`): it rests
  on fairness, which is out of the prover's reach.
* Of `FileSearch`: `TypeOK`, `EachLineOnce`, `EntriesRight`, `LiteralsRequired` and
  `IgnoresAsGit`. They compare what folds and recursive
  functions make of texts, tables, patterns and rules with what these mean, and
  even `TypeOK` bounds the results of such functions (the seam, the row and the chunks
  of a file). Each proof is an induction over that data. The library's induction
  theorems take an operator as a parameter, which the installed provers cannot
  instantiate. Induction along a sequence goes by way of the least member of a set
  of numbers instead (`Upwards` in `QueueLemmas`, `FoldIs` in `FoldSteps`), which is how
  `HeadAndChunksCover` and `RowsExact` are proved; patterns and rules are trees and
  texts that several functions walk at once, for which this was not carried out.

## 6. Findings

1. **Part of the tree can go unsearched** (`work_stealing_lost`). A worker counts in
   `active_workers` only while it dispatches, from `fetch_add` (`worker.rs:2874`) to
   `fetch_sub` (`2882`). In between two dispatches it may hold work that no test of
   another worker sees: directories that it queued in its own deque, from 2882 on,
   and an item that it has taken and not counted, from 2865 to 2874. The test
   (`2889-2892`) reads the counter, the injector and the tester's own deque.
   The trace of the run has the first of the two windows. w2 passes w1's deque in
   `find_work` while it is still empty; w1 queues subdirectories there and ends its
   dispatch; w2 sees zero and clears `running`, and w1 leaves at 2861 with the
   directories in its deque. In the second, w2 tests while w1 has the root in hand
   uncounted; w1 still dispatches it, queues subdirectories and leaves with them. Counting
   an item before it is taken would close the second window only. Each needs a test
   within a few instructions of the other worker's, and in the first the tester's round
   over the deques must have ended before they were filled; `flush_output` (`2887`), which
   can wait for a buffer, lies in between. A comparison of the output with that of another
   program hardly meets either. A pool of one is not affected (`SoloComplete`).
2. **A failed set-up blocks the context** (`lifecycle_hang`). `search` arms
   `job_done` and returns an error without disarming it; the next `search` or
   `wait` never returns.
3. **Items of one search run under the next** (`lifecycle_stale`). A worker that
   leaves because of a cancel keeps its deque; `search` drains the injector only.
4. **A save can be skipped** (`lifecycle_unsaved`). A worker counts itself out
   before it drops its reference to the job; `save_cache` gives up when it is not
   the only holder.
5. **An alternation skips matching files** (`cache_alternation`). The fragments of
   all alternatives are required together.
6. **Line numbers of a streamed file can be too small** (`file_search_numbers`). In
   the raw path of a chunk the newlines behind the last match are not counted for
   the chunks that follow (`worker.rs:2202-2242`), though the comment there says that
   the number has to stay correct (`worker.rs:2187-2188`). `EachLineOnce` states what
   holds all the same: the numbers increase and are never too large, and the first
   one is right.

Cases the models keep out of the passing runs, and where:

* `ClaimsHold` and `SkippedLacks` leave out the versions in `unread`: those
  recorded from a buffer that did not hold the file. They are a read error in
  the middle of a small ext4 file, which ends the read early
  (`ext4/parser.rs:390-393`), and a file that the binary probe rejects, which is
  recorded from an empty buffer and later skipped under `--binary`
  (`ext4/parser.rs:305-318`). The claims about such versions can be wrong.
* Patterns with `-i` and without share the column of a lower-case fragment
  although the bit means something else; the query sets of the runs do not mix
  them.
* A modification that keeps the size within the same second leaves
  (mtime, size) unchanged and is invisible to the cache. In the model every
  modification makes a new version.
* After a failing write `flush_batch` writes the batch from its beginning once
  more and its slots are not released: order and slot conservation are stated
  for runs of the writer before its first failure.
* A worker thread that could not be spawned (`ctx.rs:117` ignores the result)
  would leave `job_done` above zero for ever; `SearchLifecycle` has all threads
  running.
* A cancel during the set-up of a search is overridden when `search` sets
  `running` (`ctx.rs:329`); the model has this, and `CallsReturn` does not claim
  that such a cancel is obeyed.
* `load_from_disk` clamps the number of rows before it computes the offsets of
  the sections that follow (`cache.rs:776-797`), so that a table made with a
  larger `--cache-size` is read at the wrong places by a run with a smaller one,
  and its rows are lost. `KeptState` assumes that every run has the same.
* Two processes that save at once share the temporary file (`cache.rs:317`), and
  the one that ends first renames what the other still writes. `LoadedWhole` is
  stated for histories in which no two saves overlapped.
* The verdict file is renamed without a sync, so the loss of power can leave it
  torn; it is then ignored as a whole.
* ext4: the probe's first read can pass the end of the first extent when blocks have
  1 KiB (`ProbeAssumption`); a fast symlink's target is read as block numbers; of a
  file mapped by block numbers only the twelve direct ones are read.
* NTFS: a first run of one cluster that the probe has read whole is followed by a
  chunk from behind the run (`ntfs/parser.rs:218-221`; `Doubled` names these
  files, and the properties leave them out when the probe is on). Bytes behind a hole
  move up. An error in a run list, unlike one in reading, ends `process_files`
  for the directory (`worker.rs:1077`); `SearchedUnlessLeftOut` says so. Clusters
  longer than an index block keep only the first of the index blocks in them, and
  clusters shorter than a record divide by zero; `$ATTRIBUTE_LIST` is not followed.
* An ext4 directory with one unreadable block or one bad record length loses the
  entries behind it; `EntriesRight` is about those before.
* `.gitignore`: a floating literal such as `**/a/b` matches only at the top; a part
  with a wildcard before `/**/` is compared as a literal; in an anchored pattern a
  `*` may pass the separator directly behind what it has taken. `Misses` and
  `Exceeds` name these forms, and `AsGit` asks one direction of them. On NTFS the
  directory's own `.gitignore` is seen only with `--hidden`.
* A streamed file whose chunk cannot be read to its end is searched as far as it
  was read, and its row is then not recorded; an extent tree node that cannot be
  read is left out without notice, and its bytes with it.
* `binary_hints` is handed the file's name where its extension is meant
  (`worker.rs:1176`, `1249`), while the verdict is recorded by extension.
* A fragment of three bytes and one of four whose last is a zero have the same hash,
  and share a column.

## 7. Plan

Done so far: the walk, the output path, the context, the fragment cache, a
directory's search with everything below it, and what is kept between searches.
Their safety invariants are proved, those of a directory's search in part
(section 5). Left, in order:

1. `SearchLifecycle`, extended: scratch that survives a search (`ctx.rs:423`), a
   thread that could not be spawned (`ctx.rs:117`).
2. Proofs about `FileSearch`: `TypeOK`, whose parts about the row and the chunks follow
   from `RowsKept`, and `EachLineOnce`, which needs of the two printing loops more than
   `LinesHeld` says.
3. `Pacer`: poll and record with wrapping arithmetic.
4. The cache file's layout: bits packed in words, the clamping of
   `load_from_disk`.

## 8. Not modelled

* APFS. No directory of it is ever listed: `with_directory_entries` reads an inode
  number of eight bytes (`apfs/parser.rs:175-207`) from a buffer that
  `read_file_content` (`93-162`) does not put one in. There is no behaviour to
  state properties of, short of the byte layout of B-trees.
* The scalar decoding of superblocks, inodes and records: byte layout without state.
  The readers start from decoded fields.
* Vector code: `fragments.rs`, `liner.rs` and `bytecount_vendor/` compute with
  vectors what the models say in one expression. The regular expression engine and
  the literal matcher: a pattern is the language it denotes.
* In `.gitignore`: character classes, backslash escapes, the trimming of blanks, and
  comment lines (`#`), which are dropped as empty ones are.
* `common_substrings` finds nothing in parts of more than 256 bytes
  (`extractor.rs:462-465`): such an alternation has fewer literals in the code, as
  it has where `MaxCandidates` drops some.
* Scratch buffers that are shared by the steps of a worker: `RowOf` scans the decoded
  text, and `check_fragment_presence_wide` what the matcher has left of it
  (`worker.rs:1727-1733`), with straight-line code in between.
* `is_binary_chunk` counts odd bytes; in the models one character, `Nul`, stands for
  any content that it rejects. The table of extensions in `binary_ext.rs` is data.
* Hash collisions of fragments, and of the fingerprints of files.
* The packing of the cache's bits in words, the paths printed, colours,
  statistics, logging, prefetching and page-cache sampling: no control depends
  on them.
* Memory ordering below sequential consistency: every shared access is one step
  in a total order. `running` is read with a relaxed
  load, `active_workers` with an acquire load; the findings above do not need weaker orders.
* Options, device detection and thread placement: sequential set-up, which
  appears as `SetupFails`.
