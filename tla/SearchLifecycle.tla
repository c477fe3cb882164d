-------------------------- MODULE SearchLifecycle --------------------------
(***************************************************************************)
(* The reusable search context (RawGrepCtx in ctx.rs): a caller starts,    *)
(* waits for, cancels and saves searches while a fixed set of worker       *)
(* threads sleeps on a generation counter, takes the current job, runs the *)
(* work loop, deposits its cache data and counts itself out.               *)
(*                                                                         *)
(* The work loop is the one of WorkStealing, with the tree abstracted to   *)
(* items that may queue further items: what matters here is which search   *)
(* an item was queued by and which one it is run under.                    *)
(***************************************************************************)
EXTENDS Naturals, Sequences, FiniteSets, SequencesExt

CONSTANTS Workers,      \* the worker threads; all of them could be spawned
          MaxSearches,  \* bound: searches asked of one context
          MaxItems      \* bound: items a search may queue beyond its root

ASSUME LifecycleAssumption ==
  /\ IsFiniteSet(Workers) /\ Workers # {}
  /\ MaxSearches \in Nat \ {0} /\ MaxItems \in Nat

WorkerCount == Cardinality(Workers)
NoJob == 0

VARIABLES
  caller,     \* where the thread that uses the context is
  asked,      \* searches asked for so far; a job is the number of its search
  broken,     \* TRUE once a search has returned an error
  running,    \* the running flag
  gen,        \* the generation in wake
  remaining,  \* the counter in job_done
  job,        \* current_job
  injector,   \* Seq of the searches that queued its items
  active,     \* active_workers
  queued,     \* [1..MaxSearches -> items the search has queued]
  pc,         \* [Workers -> where the thread is in worker_thread_main]
  lastGen,    \* [Workers -> last_gen]
  arc,        \* [Workers -> the job whose Arc the worker holds, or NoJob]
  local,      \* [Workers -> Seq of the searches that queued its items]
  hand,       \* [Workers -> the search that queued the item in hand, or NoJob]
  ran,        \* {<<search an item was queued by, job it was run under>>}
  deposits,   \* {<<job, worker>>: cache data and statistics handed over}
  finishes,   \* [Workers -> how often the worker has counted itself out]
  saved       \* the jobs whose updates save_cache has merged

callerVars == <<caller, asked, broken>>
workerVars == <<pc, lastGen, arc, hand, ran, deposits, finishes>>
vars == <<caller, asked, broken, running, gen, remaining, job, injector,
          active, queued, pc, lastGen, arc, local, hand, ran, deposits,
          finishes, saved>>

Searches == 1..MaxSearches

\* A pooled context (new) has no job yet; a context for a single search
\* (new_for_single_search) is created with its job, its root item and its
\* generation in place, before any worker exists.
Init ==
  /\ \E single \in {0, 1} :
       /\ caller = IF single = 1 THEN "single" ELSE "idle"
       /\ asked = single
       /\ gen = single
       /\ remaining = single * WorkerCount
       /\ job = single
       /\ injector = IF single = 1 THEN <<1>> ELSE <<>>
       /\ running \in {b \in BOOLEAN : single = 1 => b}
  /\ broken = FALSE
  /\ active = 0
  /\ queued = [j \in Searches |-> 0]
  /\ pc = [w \in Workers |-> "asleep"]
  /\ lastGen = [w \in Workers |-> 0]
  /\ arc = [w \in Workers |-> NoJob]
  /\ local = [w \in Workers |-> <<>>]
  /\ hand = [w \in Workers |-> NoJob]
  /\ ran = {}
  /\ deposits = {}
  /\ finishes = [w \in Workers |-> 0]
  /\ saved = {}

-----------------------------------------------------------------------------
(* The caller.                                                             *)

Become(c) == caller' = c

\* search: cancel whatever is in flight.
CallSearch ==
  /\ caller = "idle"
  /\ asked < MaxSearches
  /\ asked' = asked + 1
  /\ running' = FALSE
  /\ Become("stopping")
  /\ UNCHANGED <<broken, gen, remaining, job, injector, active, queued, local,
                 workerVars, saved>>

\* Mutant: the counter is armed without waiting for the previous search.
ArmAtOnce ==
  /\ caller = "stopping"
  /\ injector' = <<>>
  /\ remaining' = WorkerCount
  /\ Become("building")
  /\ UNCHANGED <<asked, broken, running, gen, job, active, queued, local,
                 workerVars, saved>>

\* search: every worker has counted itself out; drain the injector and arm the
\* counter for the new generation.
Arm ==
  /\ caller = "stopping"
  /\ remaining = 0
  /\ injector' = <<>>
  /\ remaining' = WorkerCount
  /\ Become("building")
  /\ UNCHANGED <<asked, broken, running, gen, job, active, queued, local,
                 workerVars, saved>>

\* build_job_and_initial_work fails: search returns the error.
SetupFails ==
  /\ caller = "building"
  /\ broken' = TRUE
  /\ Become("idle")
  /\ UNCHANGED <<asked, running, gen, remaining, job, injector, active, queued,
                 local, workerVars, saved>>

SwapJob ==
  /\ caller = "building"
  /\ job' = asked
  /\ Become("pushing")
  /\ UNCHANGED <<asked, broken, running, gen, remaining, injector, active,
                 queued, local, workerVars, saved>>

PushRoot ==
  /\ caller = "pushing"
  /\ injector' = Append(injector, job)
  /\ Become("starting")
  /\ UNCHANGED <<asked, broken, running, gen, remaining, job, active, queued,
                 local, workerVars, saved>>

SetRunning ==
  /\ caller = "starting"
  /\ running' = TRUE
  /\ Become("waking")
  /\ UNCHANGED <<asked, broken, gen, remaining, job, injector, active, queued,
                 local, workerVars, saved>>

\* The generation is bumped under the lock, and everybody is notified.
Wake ==
  /\ caller = "waking"
  /\ gen' = gen + 1
  /\ Become("idle")
  /\ UNCHANGED <<asked, broken, running, remaining, job, injector, active,
                 queued, local, workerVars, saved>>

\* wait_and_save_cache, on either kind of context.
CallWait ==
  /\ caller \in {"idle", "single"}
  /\ job # NoJob
  /\ Become("waiting")
  /\ UNCHANGED <<asked, broken, running, gen, remaining, job, injector, active,
                 queued, local, workerVars, saved>>

\* wait returns the statistics, once everybody has counted out.
WaitReturn ==
  /\ caller = "waiting"
  /\ remaining = 0
  /\ Become("waited")
  /\ UNCHANGED <<asked, broken, running, gen, remaining, job, injector, active,
                 queued, local, workerVars, saved>>

\* save_cache: the job is mutable only if no worker holds its Arc any more;
\* else nothing is saved and nothing is said.
SaveCache ==
  /\ caller = "waited"
  /\ saved' = IF \E w \in Workers : arc[w] = job THEN saved ELSE saved \union {job}
  /\ Become("saved")
  /\ UNCHANGED <<asked, broken, running, gen, remaining, job, injector, active,
                 queued, local, workerVars>>

\* The caller may use the context again.
GoOn ==
  /\ caller = "saved"
  /\ Become("idle")
  /\ UNCHANGED <<asked, broken, running, gen, remaining, job, injector, active,
                 queued, local, workerVars, saved>>

\* cancel, from any thread that holds a clone of the context.
Cancel ==
  /\ running
  /\ running' = FALSE
  /\ UNCHANGED <<callerVars, gen, remaining, job, injector, active, queued,
                 local, workerVars, saved>>

-----------------------------------------------------------------------------
(* A worker.                                                               *)

Goto(w, label) == pc' = [pc EXCEPT ![w] = label]

\* Mutant: last_gen is not updated.
WakeUpForgets(w) ==
  /\ pc[w] = "asleep"
  /\ gen # lastGen[w]
  /\ Goto(w, "fetch")
  /\ UNCHANGED <<callerVars, running, gen, remaining, job, injector, active,
                 queued, local, lastGen, arc, hand, ran, deposits, finishes, saved>>

\* The wait on the condition variable ends: a new generation.
WakeUp(w) ==
  /\ pc[w] = "asleep"
  /\ gen # lastGen[w]
  /\ lastGen' = [lastGen EXCEPT ![w] = gen]
  /\ Goto(w, "fetch")
  /\ UNCHANGED <<callerVars, running, gen, remaining, job, injector, active,
                 queued, local, arc, hand, ran, deposits, finishes, saved>>

\* Clone the current job's Arc.
Fetch(w) ==
  /\ pc[w] = "fetch"
  /\ arc' = [arc EXCEPT ![w] = job]
  /\ Goto(w, "loop")
  /\ UNCHANGED <<callerVars, running, gen, remaining, job, injector, active,
                 queued, local, lastGen, hand, ran, deposits, finishes, saved>>

\* Mutant: a worker that finds running cleared goes back to sleep at once.
LeaveUncounted(w) ==
  /\ pc[w] = "loop"
  /\ ~running
  /\ arc' = [arc EXCEPT ![w] = NoJob]
  /\ Goto(w, "asleep")
  /\ UNCHANGED <<callerVars, running, gen, remaining, job, injector, active,
                 queued, local, lastGen, hand, ran, deposits, finishes, saved>>

\* start_worker_loop ends when running is cleared.
Leave(w) ==
  /\ pc[w] = "loop"
  /\ ~running
  /\ Goto(w, "left")
  /\ UNCHANGED <<callerVars, running, gen, remaining, job, injector, active,
                 queued, local, lastGen, arc, hand, ran, deposits, finishes, saved>>

\* find_work: the own deque first, then the injector, then the others'.
FindWork(w) ==
  /\ pc[w] = "loop"
  /\ running
  /\ \/ /\ local[w] # <<>>
        /\ hand' = [hand EXCEPT ![w] = Last(local[w])]
        /\ local' = [local EXCEPT ![w] = Front(@)]
        /\ UNCHANGED injector
     \/ /\ local[w] = <<>> /\ injector # <<>>
        /\ hand' = [hand EXCEPT ![w] = Head(injector)]
        /\ injector' = Tail(injector)
        /\ UNCHANGED local
     \/ /\ local[w] = <<>> /\ injector = <<>>
        /\ \E v \in Workers : /\ local[v] # <<>>
                              /\ hand' = [hand EXCEPT ![w] = Head(local[v])]
                              /\ local' = [local EXCEPT ![v] = Tail(@)]
        /\ UNCHANGED injector
  /\ Goto(w, "got")
  /\ UNCHANGED <<callerVars, running, gen, remaining, job, active, queued,
                 lastGen, arc, ran, deposits, finishes, saved>>

\* find_work comes back with nothing.
FindNothing(w) ==
  /\ pc[w] = "loop"
  /\ running
  /\ injector = <<>> /\ \A v \in Workers : local[v] = <<>>
  /\ Goto(w, "idle")
  /\ UNCHANGED <<callerVars, running, gen, remaining, job, injector, active,
                 queued, local, lastGen, arc, hand, ran, deposits, finishes, saved>>

\* The quiescence test: clear running and leave, or look again.
Declare(w) ==
  /\ pc[w] = "idle"
  /\ active = 0 /\ injector = <<>> /\ local[w] = <<>>
  /\ running' = FALSE
  /\ Goto(w, "left")
  /\ UNCHANGED <<callerVars, gen, remaining, job, injector, active, queued,
                 local, lastGen, arc, hand, ran, deposits, finishes, saved>>

LookAgain(w) ==
  /\ pc[w] = "idle"
  /\ ~(active = 0 /\ injector = <<>> /\ local[w] = <<>>)
  /\ Goto(w, "loop")
  /\ UNCHANGED <<callerVars, running, gen, remaining, job, injector, active,
                 queued, local, lastGen, arc, hand, ran, deposits, finishes, saved>>

\* Mutant: the counter is not raised.
BeginDispatchUncounted(w) ==
  /\ pc[w] = "got"
  /\ Goto(w, "busy")
  /\ UNCHANGED <<callerVars, running, gen, remaining, job, injector, active,
                 queued, local, lastGen, arc, hand, ran, deposits, finishes, saved>>

BeginDispatch(w) ==
  /\ pc[w] = "got"
  /\ active' = active + 1
  /\ Goto(w, "busy")
  /\ UNCHANGED <<callerVars, running, gen, remaining, job, injector, queued,
                 local, lastGen, arc, hand, ran, deposits, finishes, saved>>

\* Dispatch the item with the grepper of the job held, whichever search queued
\* the item; what it finds is queued on the worker's own deque.
EndDispatch(w) ==
  /\ pc[w] = "busy"
  /\ ran' = ran \union {<<hand[w], arc[w]>>}
  /\ \E n \in 0..(MaxItems - queued[arc[w]]) :
       /\ queued' = [queued EXCEPT ![arc[w]] = @ + n]
       /\ local' = [local EXCEPT ![w] = @ \o [i \in 1..n |-> arc[w]]]
  /\ hand' = [hand EXCEPT ![w] = NoJob]
  /\ active' = active - 1
  /\ Goto(w, "loop")
  /\ UNCHANGED <<callerVars, running, gen, remaining, job, injector, lastGen,
                 arc, deposits, finishes, saved>>

\* Mutant: a worker counts itself out without depositing.
CountOutOnly(w) ==
  /\ pc[w] = "left"
  /\ remaining' = remaining - 1
  /\ finishes' = [finishes EXCEPT ![w] = @ + 1]
  /\ Goto(w, "dropping")
  /\ UNCHANGED <<callerVars, running, gen, job, injector, active, queued, local,
                 lastGen, arc, hand, ran, deposits, saved>>

\* Merge the statistics and deposit the cache data.
Deposit(w) ==
  /\ pc[w] = "left"
  /\ deposits' = deposits \union {<<arc[w], w>>}
  /\ Goto(w, "counting")
  /\ UNCHANGED <<callerVars, running, gen, remaining, job, injector, active,
                 queued, local, lastGen, arc, hand, ran, finishes, saved>>

\* Mutant: the first worker that is through takes the counter to zero.
CountOutAll(w) ==
  /\ pc[w] = "counting"
  /\ remaining' = 0
  /\ finishes' = [finishes EXCEPT ![w] = @ + 1]
  /\ Goto(w, "dropping")
  /\ UNCHANGED <<callerVars, running, gen, job, injector, active, queued, local,
                 lastGen, arc, hand, ran, deposits, saved>>

\* job_done goes down, under its lock.
CountOut(w) ==
  /\ pc[w] = "counting"
  /\ remaining' = remaining - 1
  /\ finishes' = [finishes EXCEPT ![w] = @ + 1]
  /\ Goto(w, "dropping")
  /\ UNCHANGED <<callerVars, running, gen, job, injector, active, queued, local,
                 lastGen, arc, hand, ran, deposits, saved>>

\* The end of the loop body drops the job's Arc.
DropJob(w) ==
  /\ pc[w] = "dropping"
  /\ arc' = [arc EXCEPT ![w] = NoJob]
  /\ Goto(w, "asleep")
  /\ UNCHANGED <<callerVars, running, gen, remaining, job, injector, active,
                 queued, local, lastGen, hand, ran, deposits, finishes, saved>>

WorkerStep(w) ==
  \/ WakeUp(w) \/ Fetch(w) \/ Leave(w) \/ FindWork(w) \/ FindNothing(w)
  \/ Declare(w) \/ LookAgain(w) \/ BeginDispatch(w) \/ EndDispatch(w)
  \/ Deposit(w) \/ CountOut(w) \/ DropJob(w)

\* The steps a call that has been made goes on with.
CallerStep ==
  \/ Arm \/ SetupFails \/ SwapJob \/ PushRoot \/ SetRunning \/ Wake
  \/ WaitReturn \/ SaveCache \/ GoOn

Next ==
  \/ CallSearch \/ CallWait \/ Cancel \/ CallerStep
  \/ \E w \in Workers : WorkerStep(w)

Spec == Init /\ [][Next]_vars

\* Threads are scheduled; nobody has to call or cancel anything.
FairSpec == Spec /\ WF_vars(CallerStep) /\ \A w \in Workers : WF_vars(WorkerStep(w))

-----------------------------------------------------------------------------
(* Properties.                                                             *)

CallerPC == {"idle", "single", "stopping", "building", "pushing", "starting",
             "waking", "waiting", "waited", "saved"}
WorkerPC == {"asleep", "fetch", "loop", "idle", "got", "busy", "left",
             "counting", "dropping"}

TypeOK ==
  /\ caller \in CallerPC
  /\ asked \in 0..MaxSearches
  /\ broken \in BOOLEAN
  /\ running \in BOOLEAN
  /\ gen \in 0..MaxSearches
  /\ remaining \in 0..WorkerCount
  /\ job \in Searches \union {NoJob}
  /\ injector \in Seq(Searches)
  /\ active \in 0..WorkerCount
  /\ queued \in [Searches -> 0..MaxItems]
  /\ pc \in [Workers -> WorkerPC]
  /\ lastGen \in [Workers -> 0..MaxSearches]
  /\ arc \in [Workers -> Searches \union {NoJob}]
  /\ local \in [Workers -> Seq(Searches)]
  /\ hand \in [Workers -> Searches \union {NoJob}]
  /\ ran \subseteq Searches \X Searches
  /\ deposits \subseteq Searches \X Workers
  /\ finishes \in [Workers -> 0..MaxSearches]
  /\ saved \subseteq Searches

Arming == caller \in {"building", "pushing", "starting", "waking"}

\* job_done counts the workers that still owe a finish of the current
\* generation, except between its arming and the wake-up, and after a search
\* that failed in between: then it counts them all, and nobody owes anything.
OwedFinishes ==
  remaining = IF Arming \/ broken THEN WorkerCount
              ELSE Cardinality({w \in Workers : finishes[w] < gen})

\* "wait for it to fully stop before touching anything shared": while search
\* swaps the job and refills the injector, no worker is between waking up and
\* counting out; and a worker in there holds the current job, never an earlier
\* one.
StoppedBeforeSwap ==
  \A w \in Workers : pc[w] \notin {"asleep", "dropping"} =>
    /\ ~Arming
    /\ pc[w] # "fetch" => arc[w] = job

\* When wait returns, every worker's statistics and cache data of that search
\* are in, and no worker is running it any more; so what a save merges is all
\* of the search's updates.
ResultsComplete ==
  caller \in {"waited", "saved"} =>
    /\ \A w \in Workers : <<job, w>> \in deposits
    /\ active = 0

\* The pool runs every search as a round of every worker.
Rounds == INSTANCE SearchRounds WITH round <- gen

ImplementsRounds == Rounds!RoundsSpec

\* A call of search returns, also when it has to stop a search that is under
\* way, and wait returns, unless a search has failed before.
CallsReturn ==
  (caller \in {"stopping", "waiting"} /\ ~broken) ~>
    (caller \in {"idle", "waited", "saved"})

\* The comment on search: it "returns Err if setup fails before any work
\* starts", and the context is there to "reuse across searches".  The counter
\* is armed by then, for a generation that no worker is ever woken for, so the
\* next search or wait blocks for ever.
FailureLeavesUsable == caller = "stopping" ~> caller # "stopping"

\* "Each call to search cancels any in-flight search, swaps in new per-search
\* data": no item of an earlier search is run with the data of a later one.
\* Only the injector is drained, not the workers' own deques.
OwnItemsOnly == \A item \in ran : item[1] = item[2]

\* "rawgrep builds and updates it automatically as needed": once
\* wait_and_save_cache is through, the updates of the search are merged.  The
\* last worker may still hold the job when the caller gets there.
SavedAfterWait == caller = "saved" => job \in saved
=============================================================================
