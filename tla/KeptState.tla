------------------------------ MODULE KeptState ------------------------------
(* What rawgrep keeps between two searches: the fragment cache (cache.rs,     *)
(* mapped into memory) and the verdicts of the binary probe                   *)
(* (binary_verdicts.rs).  Several processes load both, search, and save both; *)
(* a process may die at any step, a save may fail, and the power may go.      *)
(*                                                                            *)
(* A cache table is the set of the files it has rows for (FragmentCache has   *)
(* the rows); on disk it is a file of five segments, and what has not been    *)
(* written since set_len reads as Zero.  Inodes are explicit, because a       *)
(* mapping and an open file follow the inode and not the path.                *)
EXTENDS BinaryVerdicts

CONSTANTS Procs,        \* processes
          Threads,      \* the workers of a process
          Files,        \* the files of the tree, each its fingerprint
          Rejects,      \* those the probe rejects
          Reached,      \* what a search may reach: its root, or up to a cancel
          Inodes,       \* bound: the inodes of the file system that are used
          Zero,         \* bytes no one has written
          MaxSearches   \* bound: searches started

ASSUME KeptAssumption ==
    /\ IsFiniteSet(Threads)
    /\ Cap + Cardinality(Threads) <= Word /\ 2 * Cardinality(Threads) <= Word
    /\ Files \subseteq Fingerprints /\ Rejects \subseteq Files
    /\ Reached \subseteq SUBSET Files /\ MaxSearches \in Nat
    /\ 0 \notin Inodes /\ \A fs \in SUBSET Files : fs # Zero

VARIABLES inode,        \* the content of each inode, <<>> when it is empty
          synced,       \* the inodes whose content has reached the device
          path,         \* the inode the cache's path names, 0 for none
          tmp,          \* the inode its temporary path names, 0 for none
          verdicts,     \* the saved verdicts
          pc,           \* where each process is
          mapped,       \* the inode it has mapped, 0 for none
          table,        \* its cache table
          fd,           \* the inode it writes to, 0 for none
          wrote,        \* the segments it has written
          known, used,  \* BinaryVerdicts
          todo,         \* the files no worker has taken yet
          slot,         \* the counters
          thread,       \* the workers
          acc,          \* CacheAccumulator: the files the workers report
          searches,     \* searches started, bounded
          overlapped,   \* history: two saves shared the temporary file
          told          \* history: the verdicts the last saver of them had met

disk == <<inode, synced, path, tmp>>
saving == <<pc, fd, wrote>>
memory == <<mapped, table, known, used, todo, slot, thread, acc>>
vars == <<disk, verdicts, saving, memory, searches, overlapped, told>>

Segments == 1 .. 5      \* header, fragment hashes, keys, metas, bitsets

NoWork == [at |-> "idle", rejected |-> FALSE, seen |-> NoCounts, pending |-> {}]
NoVerdicts == [state |-> "none", known |-> {}, slot |-> NoCounts]

Start ==
    /\ inode = [i \in Inodes |-> <<>>] /\ synced = Inodes
    /\ path = 0 /\ tmp = 0 /\ verdicts = NoVerdicts
    /\ pc = [p \in Procs |-> "off"]
    /\ mapped = [p \in Procs |-> 0] /\ table = [p \in Procs |-> {}]
    /\ fd = [p \in Procs |-> 0] /\ wrote = [p \in Procs |-> 0]
    /\ known = [p \in Procs |-> {}] /\ used = [p \in Procs |-> {}]
    /\ todo = [p \in Procs |-> {}] /\ acc = [p \in Procs |-> {}]
    /\ slot = [p \in Procs |-> NoCounts]
    /\ thread = [p \in Procs |-> [t \in Threads |-> NoWork]]
    /\ searches = 0 /\ overlapped = FALSE /\ told = {}

-----------------------------------------------------------------------------
(* FragmentCache::new, load_mapped, load_from_disk: a file that is missing,   *)
(* empty or without the magic number gives an empty table.                    *)
Usable(i) == i # 0 /\ inode[i] # <<>> /\ inode[i][1] # Zero

Rows(content) ==
    {f \in Files : \A s \in Segments : content[s] # Zero /\ f \in content[s]}

LoadCache(p) ==
    /\ pc[p] \in {"off", "done"} /\ searches < MaxSearches
    /\ searches' = searches + 1
    /\ pc' = [pc EXCEPT ![p] = "verdicts"]
    /\ mapped' = [mapped EXCEPT ![p] = IF Usable(path) THEN path ELSE 0]
    /\ table' = [table EXCEPT ![p] = IF Usable(path) THEN Rows(inode[path]) ELSE {}]
    /\ UNCHANGED <<disk, verdicts, fd, wrote, known, used, todo, slot, thread, acc,
                   overlapped, told>>

(* BinaryVerdicts::load, then the workers start.  Anything wrong with the     *)
(* file gives an empty set and leaves the counters alone.                     *)
LoadVerdicts(p) ==
    /\ pc[p] = "verdicts"
    /\ pc' = [pc EXCEPT ![p] = "search"]
    /\ known' = [known EXCEPT ![p] = verdicts.known]
    /\ used' = [used EXCEPT ![p] = {}]
    /\ \E reached \in Reached : todo' = [todo EXCEPT ![p] = reached]
    /\ acc' = [acc EXCEPT ![p] = {}]
    /\ slot' = [slot EXCEPT ![p] =
                   IF verdicts.state = "whole" THEN Scaled(verdicts.slot) ELSE @]
    /\ thread' = [thread EXCEPT ![p] = [t \in Threads |-> NoWork]]
    /\ UNCHANGED <<disk, verdicts, mapped, table, fd, wrote, searches, overlapped, told>>

(* process_file, as far as what is kept goes: a file whose verdict is known   *)
(* (is_binary marks it used) or that the cache rules out is not read; any     *)
(* other is probed, reported, and counted.  record reads the slot here.       *)
Take(p, t, f) ==
    /\ pc[p] = "search" /\ thread[p][t].at = "idle" /\ f \in todo[p]
    /\ todo' = [todo EXCEPT ![p] = @ \ {f}]
    /\ \/ /\ Find(known[p], f)
          /\ used' = [used EXCEPT ![p] = @ \cup {f}]
          /\ thread' = thread
       \/ /\ f \in table[p]
          /\ UNCHANGED <<used, thread>>
       \/ /\ ~Find(known[p], f)
          /\ \/ /\ Settled(slot[p])
                /\ thread' = [thread EXCEPT ![p][t].pending = @ \cup {f}]
             \/ thread' = [thread EXCEPT ![p][t] =
                    [at       |-> IF Ages(slot[p], f \in Rejects) THEN "age" ELSE "add",
                     rejected |-> f \in Rejects,
                     seen     |-> slot[p],
                     pending  |-> @.pending \cup {f}]]
          /\ used' = used
    /\ UNCHANGED <<disk, verdicts, saving, mapped, table, known, slot, acc,
                   searches, overlapped, told>>

(* record: the aged counters are those of the stale read.                     *)
Age(p, t) ==
    /\ thread[p][t].at = "age"
    /\ slot' = [slot EXCEPT ![p] = Aged(thread[p][t].seen)]
    /\ thread' = [thread EXCEPT ![p][t].at = "add"]
    /\ UNCHANGED <<disk, verdicts, saving, mapped, table, known, used, todo, acc,
                   searches, overlapped, told>>

Tally(p, t) ==
    /\ thread[p][t].at = "add"
    /\ slot' = [slot EXCEPT ![p] = Add(@, thread[p][t].rejected)]
    /\ thread' = [thread EXCEPT ![p][t] = [NoWork EXCEPT !.pending = thread[p][t].pending]]
    /\ UNCHANGED <<disk, verdicts, saving, mapped, table, known, used, todo, acc,
                   searches, overlapped, told>>

(* worker_thread_main: the worker deposits what it has and counts itself out. *)
Deposit(p, t) ==
    /\ pc[p] = "search" /\ todo[p] = {} /\ thread[p][t].at = "idle"
    /\ acc' = [acc EXCEPT ![p] = @ \cup thread[p][t].pending]
    /\ thread' = [thread EXCEPT ![p][t] = [NoWork EXCEPT !.at = "out"]]
    /\ UNCHANGED <<disk, verdicts, saving, mapped, table, known, used, todo, slot,
                   searches, overlapped, told>>

(* wait_and_save_cache, merge_updates_if_changed: nothing new, nothing saved. *)
MergeRows(p) ==
    /\ pc[p] = "search" /\ \A t \in Threads : thread[p][t].at = "out"
    /\ table' = [table EXCEPT ![p] = @ \cup acc[p]]
    /\ pc' = [pc EXCEPT ![p] = IF acc[p] \subseteq table[p] THEN "keep" ELSE "create"]
    /\ UNCHANGED <<disk, verdicts, fd, wrote, mapped, known, used, todo, slot, thread,
                   acc, searches, overlapped, told>>

-----------------------------------------------------------------------------
(* save_segments: the temporary file is created, or truncated if it is there, *)
(* and given its length.                                                      *)
Unnamed == Inodes \ ({path, tmp} \cup {mapped[p] : p \in Procs} \cup {fd[p] : p \in Procs})

NewInode == CHOOSE i \in Unnamed : TRUE

(* Mutant: the cache's own path is opened and rewritten.                      *)
OpenInPlace == IF path # 0 THEN path ELSE IF tmp # 0 THEN tmp ELSE NewInode

Open == IF tmp # 0 THEN tmp ELSE NewInode

CreateTmp(p) ==
    /\ pc[p] = "create" /\ (tmp # 0 \/ Unnamed # {})
    /\ tmp' = Open
    /\ fd' = [fd EXCEPT ![p] = Open] /\ wrote' = [wrote EXCEPT ![p] = 0]
    /\ inode' = [inode EXCEPT ![Open] = [s \in Segments |-> Zero]]
    /\ synced' = synced \ {Open}
    /\ overlapped' = (overlapped \/ \E q \in Procs \ {p} : pc[q] \in {"write", "rename"})
    /\ pc' = [pc EXCEPT ![p] = "write"]
    /\ UNCHANGED <<path, verdicts, memory, searches, told>>

(* One more segment; write_vectored may write any number of them at a time.   *)
Write(p) ==
    /\ pc[p] = "write" /\ wrote[p] < Cardinality(Segments)
    /\ wrote' = [wrote EXCEPT ![p] = @ + 1]
    /\ inode' = [inode EXCEPT ![fd[p]] = [s \in Segments |->
                     IF s = wrote[p] + 1 THEN table[p] ELSE @[s]]]
    /\ UNCHANGED <<synced, path, tmp, verdicts, pc, fd, memory, searches, overlapped, told>>

SyncAll(p) ==
    /\ pc[p] = "write" /\ wrote[p] = Cardinality(Segments)
    /\ synced' = synced \cup {fd[p]}
    /\ fd' = [fd EXCEPT ![p] = 0]
    /\ pc' = [pc EXCEPT ![p] = "rename"]
    /\ UNCHANGED <<inode, path, tmp, verdicts, wrote, memory, searches, overlapped, told>>

(* The temporary path may name another inode by now, or nothing.              *)
Rename(p) ==
    /\ pc[p] = "rename"
    /\ IF tmp = 0 THEN UNCHANGED <<path, tmp>> ELSE path' = tmp /\ tmp' = 0
    /\ pc' = [pc EXCEPT ![p] = "keep"]
    /\ UNCHANGED <<inode, synced, verdicts, fd, wrote, memory, searches, overlapped, told>>

(* A step of the save fails; save_cache ignores it and goes on.               *)
SaveFails(p) ==
    /\ pc[p] \in {"create", "write", "rename"}
    /\ fd' = [fd EXCEPT ![p] = 0]
    /\ pc' = [pc EXCEPT ![p] = "keep"]
    /\ UNCHANGED <<disk, verdicts, wrote, memory, searches, overlapped, told>>

(* What the job of a search holds is dropped with it, or with the process.    *)
Dropped(ps) ==
    /\ mapped' = [p \in Procs |-> IF p \in ps THEN 0 ELSE mapped[p]]
    /\ table' = [p \in Procs |-> IF p \in ps THEN {} ELSE table[p]]
    /\ fd' = [p \in Procs |-> IF p \in ps THEN 0 ELSE fd[p]]
    /\ wrote' = [p \in Procs |-> IF p \in ps THEN 0 ELSE wrote[p]]
    /\ known' = [p \in Procs |-> IF p \in ps THEN {} ELSE known[p]]
    /\ used' = [p \in Procs |-> IF p \in ps THEN {} ELSE used[p]]
    /\ todo' = [p \in Procs |-> IF p \in ps THEN {} ELSE todo[p]]
    /\ acc' = [p \in Procs |-> IF p \in ps THEN {} ELSE acc[p]]
    /\ thread' = [p \in Procs |-> IF p \in ps THEN [t \in Threads |-> NoWork] ELSE thread[p]]

(* BinaryVerdicts::save.  Its temporary file has the process's own name and   *)
(* no one else opens it, so only the rename shows; it may fail before that.   *)
SaveVerdicts(p) ==
    LET fresh == {f \in acc[p] \cap Rejects : ~Find(known[p], f)} IN
    /\ pc[p] = "keep"
    /\ \/ /\ fresh # {}
          /\ verdicts' = [state |-> "whole", slot |-> slot[p],
                          known |-> Merge(known[p], used[p], fresh)]
          /\ told' = (acc[p] \cap Rejects) \cup used[p]
       \/ UNCHANGED <<verdicts, told>>
    /\ pc' = [pc EXCEPT ![p] = "done"]
    /\ Dropped({p})
    /\ UNCHANGED <<disk, slot, searches, overlapped>>

(* The process exits, or is killed at any step; its memory is gone.           *)
Gone(ps) ==
    /\ pc' = [p \in Procs |-> IF p \in ps THEN "off" ELSE pc[p]]
    /\ Dropped(ps)
    /\ slot' = [p \in Procs |-> IF p \in ps THEN NoCounts ELSE slot[p]]
    /\ UNCHANGED <<searches, overlapped>>

Die(p) ==
    /\ pc[p] # "off"
    /\ Gone({p})
    /\ UNCHANGED <<disk, verdicts, told>>

(* The power goes: a cache that has not been synced may read as zeros in a    *)
(* part (the temporary file does not matter, it is truncated before its next  *)
(* use); the verdicts are never synced, and a torn file of them is not loaded.*)
PowerLoss ==
    /\ Gone(Procs)
    /\ IF path \in synced \cup {0} THEN inode' = inode
       ELSE \E s \in Segments : inode' = [inode EXCEPT ![path][s] = Zero]
    /\ synced' = Inodes
    /\ \/ UNCHANGED <<verdicts, told>>
       \/ /\ verdicts.state = "whole"
          /\ verdicts' = [NoVerdicts EXCEPT !.state = "torn"] /\ told' = {}
    /\ UNCHANGED <<path, tmp>>

(* While the workers of a process run no other process takes a step: they     *)
(* touch only the memory of their own process, so interleaving them with the  *)
(* steps of another would show nothing more.                                  *)
Turn(p) == \A q \in Procs \ {p} : pc[q] # "search"

Next ==
    \/ \E p \in Procs : Turn(p) /\
          \/ LoadCache(p) \/ LoadVerdicts(p) \/ MergeRows(p)
          \/ CreateTmp(p) \/ Write(p) \/ SyncAll(p) \/ Rename(p)
          \/ SaveFails(p) \/ SaveVerdicts(p) \/ Die(p)
          \/ \E t \in Threads :
                \/ \E f \in Files : Take(p, t, f)
                \/ Age(p, t) \/ Tally(p, t) \/ Deposit(p, t)
    \/ PowerLoss

Spec == Start /\ [][Next]_vars
-----------------------------------------------------------------------------
(* The types.                                                                 *)
TypeOK ==
    /\ inode \in [Inodes -> {<<>>} \cup [Segments -> (SUBSET Files) \cup {Zero}]]
    /\ synced \subseteq Inodes
    /\ path \in Inodes \cup {0} /\ tmp \in Inodes \cup {0}
    /\ verdicts \in [state : {"none", "whole", "torn"}, known : SUBSET Files, slot : Slots]
    /\ pc \in [Procs -> {"off", "verdicts", "search", "create", "write",
                         "rename", "keep", "done"}]
    /\ mapped \in [Procs -> Inodes \cup {0}] /\ table \in [Procs -> SUBSET Files]
    /\ fd \in [Procs -> Inodes \cup {0}] /\ wrote \in [Procs -> 0 .. 5]
    /\ known \in [Procs -> SUBSET Files] /\ used \in [Procs -> SUBSET Files]
    /\ todo \in [Procs -> SUBSET Files] /\ acc \in [Procs -> SUBSET Files]
    /\ slot \in [Procs -> Slots]
    /\ thread \in [Procs -> [Threads -> [at : {"idle", "age", "add", "out"},
                                          rejected : BOOLEAN, seen : Slots,
                                          pending : SUBSET Files]]]
    /\ searches \in 0 .. MaxSearches /\ overlapped \in BOOLEAN /\ told \subseteq Files

(* The workers that are about to add to a half of the counters.               *)
Adders(p, rejected) ==
    {t \in Threads : thread[p][t].at = "add" /\ thread[p][t].rejected = rejected}

(* No addition can carry out of its half of a slot, although every worker may *)
(* decide on a count that is stale by the time it adds (record): the counters *)
(* with all the additions under way still fit.                                *)
NoCarry ==
    \A p \in Procs : \A rejected \in BOOLEAN :
        Count(slot[p], rejected) + Cardinality(Adders(p, rejected)) < Word

(* All the segments of a file come from one save, and it was completed.       *)
Whole(content) ==
    /\ content # <<>>
    /\ \A s \in Segments : content[s] # Zero /\ content[s] = content[1]

(* The cache that is found, and every cache that is mapped, is one a save     *)
(* wrote to its end, and stays so while it is mapped: a process that dies     *)
(* while it saves, or the loss of power, leaves the old file or the new one   *)
(* (save_segments, and the comment on the mapping in load_mapped).  Unless    *)
(* two processes ever saved at the same time: they share the temporary file.  *)
LoadedWhole ==
    overlapped \/
        \A i \in ({path} \cup {mapped[p] : p \in Procs}) \ {0} : Whole(inode[i])

(* A verdict that is kept was the probe's, and every verdict a search reached *)
(* or relied on is kept when that search saved last: neither the deposit of   *)
(* the workers, nor the lookup through the buckets, nor the limit on the size *)
(* loses one (BinaryVerdicts::save, merge).                                   *)
VerdictsKept ==
    verdicts.state = "whole" => told \subseteq verdicts.known /\ verdicts.known \subseteq Rejects
=============================================================================
