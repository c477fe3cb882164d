---------------------------- MODULE WorkStealing ----------------------------
(***************************************************************************)
(* One search of rawgrep's worker pool: the loop every worker thread runs  *)
(* (start_worker_loop and find_work in worker.rs), the recursive walk it   *)
(* dispatches (dispatch_directory_bytes, process_directory), the shared    *)
(* injector, one LIFO deque per worker that the others steal from, the     *)
(* running flag and the active_workers counter.                            *)
(*                                                                         *)
(* A step is what one thread does between two accesses to shared state     *)
(* that others can disturb; find_work is therefore four steps (own deque,  *)
(* injector, one victim at a time, give up) and the quiescence test two.   *)
(***************************************************************************)
EXTENDS Naturals, Sequences, FiniteSets, SequencesExt

CONSTANTS Workers,    \* the worker threads a pool may have
          Dirs,       \* the directories of the searched tree
          Root,       \* the directory the search starts from
          Subdirs,    \* [Dirs -> Seq(Dirs)], in disk-offset order; <<>> for a
                      \* directory without any and for one that cannot be read
          Depth       \* [Dirs -> Nat], the depth field of DirWork

SubdirsOf(d) == ToSet(Subdirs[d])

\* The searched tree: every directory but the root is at one place of one
\* parent's list (directories have no hard links), the root at none.
ASSUME TreeAssumption ==
  /\ Root \in Dirs
  /\ Subdirs \in [Dirs -> Seq(Dirs)]
  /\ Depth \in [Dirs -> Nat]
  /\ \A d \in Dirs : Root \notin SubdirsOf(d)
  /\ \A d \in Dirs : IsInjective(Subdirs[d])
  /\ \A d, e \in Dirs : d # e => SubdirsOf(d) \intersect SubdirsOf(e) = {}

ASSUME WorkersAssumption == IsFiniteSet(Workers)

VARIABLES
  team,       \* the workers of this pool (worker_count is the caller's choice)
  running,    \* the running flag
  cancelled,  \* TRUE once cancel() or the Ctrl-C handler has cleared running
  active,     \* active_workers
  injector,   \* Seq(Dirs): the shared queue, oldest first
  local,      \* [Workers -> Seq(Dirs)]: deques; the owner's end is the last
  hand,       \* [Workers -> Seq(Dirs)]: what the worker's call stack still has
              \* to dispatch, next first
  pc,         \* [Workers -> where the thread is in start_worker_loop]
  victims,    \* [Workers -> SUBSET Workers]: stealers not tried yet
  searched    \* directories process_directory has been called on

vars == <<team, running, cancelled, active, injector, local, hand, pc,
          victims, searched>>

PC == {"top", "injector", "steal", "idle", "declare", "got", "busy", "done"}

Init ==
  /\ team \in (SUBSET Workers) \ {{}}
  /\ running = TRUE
  /\ cancelled = FALSE
  /\ active = 0
  /\ injector = <<Root>>
  /\ local = [w \in Workers |-> <<>>]
  /\ hand = [w \in Workers |-> <<>>]
  /\ pc = [w \in Workers |-> IF w \in team THEN "top" ELSE "done"]
  /\ victims = [w \in Workers |-> {}]
  /\ searched = {}

-----------------------------------------------------------------------------
(* The loop head and find_work.                                            *)

Goto(w, label) == pc' = [pc EXCEPT ![w] = label]

\* The loop's `if !running.load(..) { break; }`: finish() and leave.
Leave(w) ==
  /\ pc[w] = "top"
  /\ ~running
  /\ Goto(w, "done")
  /\ UNCHANGED <<team, running, cancelled, active, injector, local, hand,
                 victims, searched>>

\* find_work, local queue: the owner pops the end it pushes to.
PopLocal(w) ==
  /\ pc[w] = "top"
  /\ running
  /\ local[w] # <<>>
  /\ hand' = [hand EXCEPT ![w] = <<Last(local[w])>>]
  /\ local' = [local EXCEPT ![w] = Front(@)]
  /\ Goto(w, "got")
  /\ UNCHANGED <<team, running, cancelled, active, injector, victims, searched>>

LocalEmpty(w) ==
  /\ pc[w] = "top"
  /\ running
  /\ local[w] = <<>>
  /\ Goto(w, "injector")
  /\ UNCHANGED <<team, running, cancelled, active, injector, local, hand,
                 victims, searched>>

\* steal_batch_and_pop takes some of the oldest items, at most half of them
\* (rounded up), hands one back and leaves the others in the thief's deque;
\* which one it hands back makes no difference to any property below.
BatchSizes(queue) == 1..((Len(queue) + 1) \div 2)

\* find_work, global injector.
TakeInjected(w) ==
  /\ pc[w] = "injector"
  /\ \E k \in BatchSizes(injector) :
       /\ hand' = [hand EXCEPT ![w] = <<injector[1]>>]
       /\ local' = [local EXCEPT ![w] = @ \o SubSeq(injector, 2, k)]
       /\ injector' = SubSeq(injector, k + 1, Len(injector))
  /\ Goto(w, "got")
  /\ UNCHANGED <<team, running, cancelled, active, victims, searched>>

\* Nothing injected: scan the other workers.  The random start makes any
\* victim a possible next one.
InjectorEmpty(w) ==
  /\ pc[w] = "injector"
  /\ injector = <<>>
  /\ victims' = [victims EXCEPT ![w] = team \ {w}]
  /\ Goto(w, "steal")
  /\ UNCHANGED <<team, running, cancelled, active, injector, local, hand,
                 searched>>

\* Mutant: the batch is copied but its last item also stays with the victim.
StealFromLeavesLast(w, v) ==
  /\ pc[w] = "steal"
  /\ v \in victims[w]
  /\ \E k \in BatchSizes(local[v]) :
       /\ hand' = [hand EXCEPT ![w] = <<local[v][1]>>]
       /\ local' = [local EXCEPT ![w] = @ \o SubSeq(local[v], 2, k),
                                 ![v] = SubSeq(@, k, Len(@))]
  /\ victims' = [victims EXCEPT ![w] = {}]
  /\ Goto(w, "got")
  /\ UNCHANGED <<team, running, cancelled, active, injector, searched>>

\* find_work, the other workers' deques.
StealFrom(w, v) ==
  /\ pc[w] = "steal"
  /\ v \in victims[w]
  /\ \E k \in BatchSizes(local[v]) :
       /\ hand' = [hand EXCEPT ![w] = <<local[v][1]>>]
       /\ local' = [local EXCEPT ![w] = @ \o SubSeq(local[v], 2, k),
                                 ![v] = SubSeq(@, k + 1, Len(@))]
  /\ victims' = [victims EXCEPT ![w] = {}]
  /\ Goto(w, "got")
  /\ UNCHANGED <<team, running, cancelled, active, injector, searched>>

VictimEmpty(w, v) ==
  /\ pc[w] = "steal"
  /\ v \in victims[w]
  /\ local[v] = <<>>
  /\ victims' = [victims EXCEPT ![w] = @ \ {v}]
  /\ UNCHANGED <<team, running, cancelled, active, injector, local, hand, pc,
                 searched>>

NothingFound(w) ==
  /\ pc[w] = "steal"
  /\ victims[w] = {}
  /\ Goto(w, "idle")
  /\ UNCHANGED <<team, running, cancelled, active, injector, local, hand,
                 victims, searched>>

-----------------------------------------------------------------------------
(* find_work returned None: the quiescence test.                           *)

LooksQuiescent(w) == active = 0 /\ injector = <<>> /\ local[w] = <<>>

\* The test passes; the store to running is a later step of the thread.
SeeQuiescence(w) ==
  /\ pc[w] = "idle"
  /\ LooksQuiescent(w)
  /\ Goto(w, "declare")
  /\ UNCHANGED <<team, running, cancelled, active, injector, local, hand,
                 victims, searched>>

\* The test fails: spin, yield or sleep, then around the loop.
SpinAgain(w) ==
  /\ pc[w] = "idle"
  /\ ~LooksQuiescent(w)
  /\ Goto(w, "top")
  /\ UNCHANGED <<team, running, cancelled, active, injector, local, hand,
                 victims, searched>>

Declare(w) ==
  /\ pc[w] = "declare"
  /\ running' = FALSE
  /\ Goto(w, "done")
  /\ UNCHANGED <<team, cancelled, active, injector, local, hand, victims,
                 searched>>

-----------------------------------------------------------------------------
(* find_work returned an item.                                             *)

\* Mutant: the counter is not raised.
BeginDispatchUncounted(w) ==
  /\ pc[w] = "got"
  /\ Goto(w, "busy")
  /\ UNCHANGED <<team, running, cancelled, active, injector, local, hand,
                 victims, searched>>

\* Mutant: running is tested again once an item has been taken.
BeginDispatchIfRunning(w) ==
  /\ pc[w] = "got"
  /\ active' = IF running THEN active + 1 ELSE active
  /\ Goto(w, IF running THEN "busy" ELSE "done")
  /\ UNCHANGED <<team, running, cancelled, injector, local, hand, victims,
                 searched>>

BeginDispatch(w) ==
  /\ pc[w] = "got"
  /\ active' = active + 1
  /\ Goto(w, "busy")
  /\ UNCHANGED <<team, running, cancelled, injector, local, hand, victims,
                 searched>>

AtMost(a, b) == IF a <= b THEN a ELSE b
AtLeast(a, b) == IF a >= b THEN a ELSE b

\* work_distribution_strategy: how many subdirectories the worker recurses
\* into itself.  num_workers is the pool size plus one.
KeepLocal(d) ==
  LET numWorkers == Cardinality(team) + 1
      maxCap     == AtLeast(numWorkers \div 2, 1)
      depthCap   == AtMost(1 + Depth[d] \div 2, maxCap)
  IN  AtMost(Len(Subdirs[d]), depthCap)

\* Mutant: queue_start is one too far.
QueuedTailShort(d, keep) ==
  Reverse(SubSeq(Subdirs[d], keep + 2, Len(Subdirs[d])))

\* The subdirectories process_directory pushes on its own deque, in order.
QueuedTail(d, keep) ==
  Reverse(SubSeq(Subdirs[d], keep + 1, Len(Subdirs[d])))

\* process_directory on the next directory of the call stack: its files, then
\* the tail of its subdirectories is queued in reverse and the head is left to
\* the recursion, before the directories the callers still have.
SearchDir(w) ==
  /\ pc[w] = "busy"
  /\ hand[w] # <<>>
  /\ LET d    == Head(hand[w])
         keep == KeepLocal(d)
     IN  /\ searched' = searched \union {d}
         /\ local' = [local EXCEPT ![w] = @ \o QueuedTail(d, keep)]
         /\ hand' = [hand EXCEPT ![w] = SubSeq(Subdirs[d], 1, keep) \o Tail(@)]
  /\ UNCHANGED <<team, running, cancelled, active, injector, pc, victims>>

\* Mutant: the counter is not lowered.
EndDispatchUncounted(w) ==
  /\ pc[w] = "busy"
  /\ hand[w] = <<>>
  /\ Goto(w, "top")
  /\ UNCHANGED <<team, running, cancelled, active, injector, local, hand,
                 victims, searched>>

EndDispatch(w) ==
  /\ pc[w] = "busy"
  /\ hand[w] = <<>>
  /\ active' = active - 1
  /\ Goto(w, "top")
  /\ UNCHANGED <<team, running, cancelled, injector, local, hand, victims,
                 searched>>

\* RawGrepCtx::cancel, or the Ctrl-C handler's store.
Cancel ==
  /\ running
  /\ running' = FALSE
  /\ cancelled' = TRUE
  /\ UNCHANGED <<team, active, injector, local, hand, pc, victims, searched>>

WorkerStep(w) ==
  \/ Leave(w)
  \/ PopLocal(w)
  \/ LocalEmpty(w)
  \/ TakeInjected(w)
  \/ InjectorEmpty(w)
  \/ \E v \in Workers : StealFrom(w, v)
  \/ \E v \in Workers : VictimEmpty(w, v)
  \/ NothingFound(w)
  \/ SeeQuiescence(w)
  \/ SpinAgain(w)
  \/ Declare(w)
  \/ BeginDispatch(w)
  \/ SearchDir(w)
  \/ EndDispatch(w)

AllDone == \A w \in Workers : pc[w] = "done"

\* Every thread has left its loop: the search is over.
Finished == AllDone /\ UNCHANGED vars

Next == Cancel \/ Finished \/ \E w \in Workers : WorkerStep(w)

Spec == Init /\ [][Next]_vars

\* A worker thread that is not at its end keeps running: the operating system
\* schedules it, and none of its steps blocks.
FairSpec == Spec /\ \A w \in Workers : WF_vars(WorkerStep(w))

-----------------------------------------------------------------------------
(* Properties.                                                             *)

Held == UNION {ToSet(hand[w]) : w \in Workers}
Queued == ToSet(injector) \union UNION {ToSet(local[w]) : w \in Workers}

TypeOK ==
  /\ team \subseteq Workers
  /\ running \in BOOLEAN
  /\ cancelled \in BOOLEAN
  /\ active \in Nat
  /\ injector \in Seq(Dirs)
  /\ local \in [Workers -> Seq(Dirs)]
  /\ hand \in [Workers -> Seq(Dirs)]
  /\ pc \in [Workers -> PC]
  /\ victims \in [Workers -> SUBSET team]
  /\ \A w \in Workers : w \notin victims[w]
  /\ searched \subseteq Dirs

\* A directory sits in one place of one queue or call stack and nowhere else,
\* and no longer anywhere once it is searched: concurrent pops, batch steals
\* and pushes never duplicate a work item, so no file is printed twice.
PlacedOnce ==
  /\ IsInjective(injector)
  /\ \A w \in Workers : IsInjective(local[w]) /\ IsInjective(hand[w])
  /\ Queued \intersect Held = {}
  /\ (Queued \union Held) \intersect searched = {}
  /\ \A w \in Workers : ToSet(injector) \intersect ToSet(local[w]) = {}
  /\ \A v, w \in Workers : v # w =>
       /\ ToSet(local[v]) \intersect ToSet(local[w]) = {}
       /\ ToSet(hand[v]) \intersect ToSet(hand[w]) = {}

\* active_workers is the number of workers inside a dispatch, which is what the
\* quiescence test reads it for; in particular it never goes below zero.
ActiveCounts == active = Cardinality({w \in Workers : pc[w] = "busy"})

\* A worker never leaves its loop with an item it has taken: clearing running,
\* by a cancel or by another worker, does not drop what is popped or what the
\* recursion still has to dispatch.  So a search that nobody cancels searches
\* at least its root, and leaves nothing in the injector.
TakenIsDispatched ==
  /\ \A w \in Workers : pc[w] \in {"top", "injector", "steal", "idle",
                                   "declare", "done"} => hand[w] = <<>>
  /\ AllDone /\ ~cancelled => Root \in searched /\ injector = <<>>

WholeTree ==
  /\ Root \in searched
  /\ \A d \in searched : SubdirsOf(d) \subseteq searched

\* A pool of one worker searches the whole tree before it declares quiescence.
SoloComplete ==
  \A w \in Workers : team = {w} /\ AllDone /\ ~cancelled => WholeTree

\* The README's claim that the set of files searched is the one a plain
\* traversal visits: a search nobody cancelled ends with the whole tree
\* searched, for every pool.  It does not hold: the quiescence test looks at no
\* other worker's deque, and between two dispatches a worker is not counted in
\* active_workers although directories are in its deque or, taken from there, in
\* its hand.
Complete == AllDone /\ ~cancelled => WholeTree

\* Nothing is forgotten or searched twice: the pool implements the walk.
Walk == INSTANCE TreeWalk WITH known <- Queued \union Held

ImplementsWalk == Walk!WalkSpec

\* Whatever the interleaving, every worker leaves its loop: the counter goes
\* back to zero and somebody sees it.
Terminates == <>AllDone
=============================================================================
