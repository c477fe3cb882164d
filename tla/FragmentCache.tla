--------------------------- MODULE FragmentCache ---------------------------
(***************************************************************************)
(* The fragment cache (cache.rs) and the part of a search that uses it     *)
(* (worker.rs process_file, grep.rs new_with_fs, ctx.rs save_cache).       *)
(*                                                                         *)
(* The cache is a table: one column per fragment hash, one row per file    *)
(* (identity and (mtime, size)), one bit per cell: set = "the fragment is  *)
(* ABSENT from that version of the file", clear = present or unknown.  A   *)
(* search passes over a file unread when some required fragment is absent. *)
(* At the end the search merges what it read into a fresh copy of the      *)
(* table and replaces the file on disk.                                    *)
(*                                                                         *)
(* A fragment is abstracted to a word; a file's content is the set of its  *)
(* words and the verdict of the binary probe.  The (mtime, size) of a file *)
(* is its version number: every modification makes a new one.  A word      *)
(* stands for its hash: fragments.rs hashes by an odd factor mod 2^32, so  *)
(* that no two fragments share one (but for a three-byte fragment and the  *)
(* four bytes it is padded to).                                            *)
(***************************************************************************)
EXTENDS Integers, Sequences, FiniteSets

CONSTANTS Files,          \* file identities: FileKey (device, inode)
          Names,          \* directory entries; hard links share a file
          KeyOf,          \* [Names -> Files]
          Words,          \* the fragment hashes
          Lower,          \* [Words -> Words]: ASCII case folding
          Contents,       \* the contents a file may have
          Queries,        \* the patterns searched for
          MaxFragments,   \* cache columns
          MaxFiles,       \* cache rows
          MaxVersions,    \* bound: versions of one file
          MaxSearches     \* bound: searches

(* A pattern is the set of its alternatives, each the set of fragments of  *)
(* one literal; fold is -i, binary is --binary.                            *)
Query   == [branches : SUBSET SUBSET Words, fold : BOOLEAN, binary : BOOLEAN]
Content == [words : SUBSET Words, binary : BOOLEAN]

ASSUME CacheAssumption ==
    /\ KeyOf \in [Names -> Files]
    /\ Lower \in [Words -> Words]
    /\ Contents \subseteq Content
    /\ Queries \subseteq Query
    /\ IsFiniteSet(Words)                         \* a hash has 32 bits
    /\ \A q \in Queries : UNION q.branches # {}   \* else there is no cache
    \* the literals of a pattern are lowered before they are cut (-i)
    /\ \A q \in Queries : q.fold => \A w \in UNION q.branches : Lower[w] = w
    /\ MaxFragments \in Nat \ {0}
    /\ MaxFiles \in Nat
    /\ MaxVersions \in Nat \ {0}
    /\ MaxSearches \in Nat

\* no search
NoQuery == [branches |-> {}, fold |-> FALSE, binary |-> FALSE]

VARIABLES contents,    \* contents[f]: the successive contents of file f
          disk,        \* the table in fragment-cache.bin
          cache,       \* the table the search in progress loaded
          lookup,      \* file_lookup: row of a file, 0 if it is not found
          pc,          \* "idle", "searching" or "merging"
          query,       \* the pattern searched for
          node,        \* version of the inode read for a name, 0 before
          todo,        \* names the search has not dealt with yet
          pending,     \* names recorded for the cache (pending_file_ids)
          present,     \* their rows (pending_fragment_presence)
          skipped,     \* history: names passed over because of the cache
          unread,      \* history: <<file, version>> recorded from a buffer
                       \* that did not hold the whole file
          table,       \* the arena apply_batch builds
          slotOf,      \* column of a fragment of the batch, 0 is NO_SLOT
          toPlace,     \* fragments of the batch without a column yet
          toApply,     \* recorded names not applied yet
          searches     \* searches started
vars == <<contents, disk, cache, lookup, pc, query, node, todo, pending,
          present, skipped, unread, table, slotOf, toPlace, toApply, searches>>
searchVars == <<query, node, todo, pending, present, skipped>>
mergeVars  == <<table, slotOf, toPlace, toApply>>

Slots == 1..MaxFragments
Row   == [key : Files, meta : 1..MaxVersions, absent : SUBSET Slots]

\* create_empty
EmptyTable == [hashes |-> <<>>, ring |-> 0, rows |-> <<>>]

\* extract_fragment_hashes: the fragments of all the alternatives together
Required(q) == UNION q.branches
SingleLiteral(q) == Cardinality(q.branches) = 1 /\ ~q.fold

\* the fragments check_fragment_presence finds in a buffer with these words
Seen(q, words) == IF q.fold THEN {Lower[w] : w \in words} ELSE words

\* what the matcher finds: all the fragments of one alternative
Matches(q, words) == \E b \in q.branches : b \subseteq Seen(q, words)

Version(f) == Len(contents[f])
Current(f) == contents[f][Version(f)]

Init ==
    /\ contents \in [Files -> {<<c>> : c \in Contents}]
    /\ disk = EmptyTable /\ cache = EmptyTable /\ table = EmptyTable
    /\ lookup = [f \in Files |-> 0]
    /\ pc = "idle"
    /\ query = NoQuery
    /\ node = [n \in Names |-> 0]
    /\ todo = {} /\ pending = {} /\ skipped = {} /\ unread = {}
    /\ present = [n \in Names |-> {}]
    /\ slotOf = [w \in Words |-> 0]
    /\ toPlace = {} /\ toApply = {}
    /\ searches = 0

(***************************************************************************)
(* The world outside: a file is rewritten, which changes its mtime or its  *)
(* size.  It may happen at any moment, also between the reading of the     *)
(* inode and of the data.                                                  *)
(***************************************************************************)
Modify(f) ==
    /\ Version(f) < MaxVersions
    /\ \E c \in Contents : contents' = [contents EXCEPT ![f] = Append(@, c)]
    /\ UNCHANGED <<disk, cache, lookup, pc, searchVars, unread, mergeVars, searches>>

(***************************************************************************)
(* load_from_disk / create_empty.  rebuild_lookup gives up after 16 probes *)
(* and so may leave any row out of file_lookup; a row that is not found is *)
(* appended a second time, so a key may have several rows: the first one   *)
(* that is in the table is the one found, whichever that is.               *)
(***************************************************************************)
Lookups(t) ==
    {g \in [Files -> 0..Len(t.rows)] :
        \A f \in Files : g[f] # 0 => t.rows[g[f]].key = f}

Start(q) ==
    /\ pc = "idle" /\ searches < MaxSearches
    /\ cache' \in {disk, EmptyTable}             \* EmptyTable: --rebuild-cache
    /\ lookup' \in Lookups(cache')
    /\ pc' = "searching"
    /\ query' = q
    /\ todo' = Names
    /\ searches' = searches + 1
    /\ UNCHANGED <<contents, disk, node, pending, present, skipped, unread, mergeVars>>

\* parse_nodes_batch: the inode of a name is read
Stat(n) ==
    /\ pc = "searching" /\ n \in todo /\ node[n] = 0
    /\ node' = [node EXCEPT ![n] = Version(KeyOf[n])]
    /\ UNCHANGED <<contents, disk, cache, lookup, pc, query, todo, pending,
                   present, skipped, unread, mergeVars, searches>>

(***************************************************************************)
(* can_skip_file: the row of the file, if its meta is the inode's, has the *)
(* absent bit of a column resolve_fragment_indexes found for the pattern.  *)
(* The loaded table does not change during the search, so it makes no      *)
(* difference whether lookahead_file or process_file asks.                 *)
(***************************************************************************)
\* Mutant: the stored meta is not compared
CanSkipAnyVersion(n) ==
    /\ lookup[KeyOf[n]] # 0
    /\ \E s \in cache.rows[lookup[KeyOf[n]]].absent :
            cache.hashes[s] \in Required(query)

CanSkip(n) ==
    /\ lookup[KeyOf[n]] # 0
    /\ cache.rows[lookup[KeyOf[n]]].meta = node[n]
    /\ \E s \in cache.rows[lookup[KeyOf[n]]].absent :
            cache.hashes[s] \in Required(query)

Skip(n) ==
    /\ pc = "searching" /\ n \in todo /\ node[n] # 0
    /\ CanSkip(n)
    /\ todo' = todo \ {n}
    /\ skipped' = skipped \cup {n}
    /\ UNCHANGED <<contents, disk, cache, lookup, pc, query, node, pending,
                   present, unread, mergeVars, searches>>

\* not searched (too large, known binary, ignored), or streamed and not
\* seen to the end: nothing is recorded
PassOver(n) ==
    /\ pc = "searching" /\ n \in todo /\ node[n] # 0
    /\ ~CanSkip(n)
    /\ todo' = todo \ {n}
    /\ UNCHANGED <<contents, disk, cache, lookup, pc, query, node, pending,
                   present, skipped, unread, mergeVars, searches>>

(***************************************************************************)
(* What a recorded file says of the pattern's fragments: all present if it *)
(* matched and the pattern is one literal, else those found in the buffer. *)
(***************************************************************************)
Presence(words) ==
    IF SingleLiteral(query) /\ Matches(query, words)
    THEN Required(query)
    ELSE Required(query) \cap Seen(query, words)

Record(n, words) ==
    /\ pc = "searching" /\ n \in todo /\ node[n] # 0
    /\ ~CanSkip(n)
    /\ todo' = todo \ {n}
    /\ pending' = pending \cup {n}
    /\ present' = [present EXCEPT ![n] = Presence(words)]
    /\ UNCHANGED <<contents, disk, cache, lookup, pc, query, node, skipped,
                   mergeVars, searches>>

\* the probe takes the file for binary
Rejects(n) == ~query.binary /\ Current(KeyOf[n]).binary

ReadWhole(n) ==
    /\ ~Rejects(n)
    /\ Record(n, Current(KeyOf[n]).words)
    /\ UNCHANGED unread

\* read_file_content stops at the first chunk it cannot read, and the rest
\* of the file counts as not being there
ReadShort(n) ==
    /\ ~Rejects(n)
    /\ \E got \in SUBSET Current(KeyOf[n]).words \ {Current(KeyOf[n]).words} :
          Record(n, got)
    /\ unread' = unread \cup {<<KeyOf[n], node[n]>>}

\* the buffer is cleared, and its row is recorded all the same
ReadRejected(n) ==
    /\ Rejects(n)
    /\ Record(n, {})
    /\ unread' = unread \cup {<<KeyOf[n], node[n]>>}

(***************************************************************************)
(* save_cache, after the search ended or was cancelled: plan_batch, and    *)
(* nothing more if there is nothing new.                                   *)
(***************************************************************************)
\* Mutant: the last column is not looked at
HasColumnShort(t, w) == \E s \in 1..(Len(t.hashes) - 1) : t.hashes[s] = w
HasColumn(t, w) == \E s \in DOMAIN t.hashes : t.hashes[s] = w
ColumnOf(t, w)  == CHOOSE s \in DOMAIN t.hashes : t.hashes[s] = w

\* the row a name's file has already says what the batch says
Known(n) ==
    LET id == lookup[KeyOf[n]]
    IN /\ id # 0
       /\ cache.rows[id].meta = node[n]
       /\ \A w \in Required(query) :
             ColumnOf(cache, w) \in cache.rows[id].absent <=> w \notin present[n]

Unchanged ==
    /\ \A w \in Required(query) : HasColumn(cache, w)
    /\ \A n \in pending : Known(n)

BeginMerge ==
    /\ pc = "searching"
    /\ pending # {} /\ ~Unchanged
    /\ pc' = "merging"
    /\ table' = cache
    /\ slotOf' = [w \in Words |-> IF w \in Required(query) /\ HasColumn(cache, w)
                                  THEN ColumnOf(cache, w) ELSE 0]
    /\ toPlace' = {w \in Required(query) : ~HasColumn(cache, w)}
    /\ toApply' = pending
    /\ UNCHANGED <<contents, disk, cache, lookup, searchVars, unread, searches>>

\* the search's grepper, with its table, and its accumulator are dropped
DropSearch ==
    /\ pc' = "idle"
    /\ query' = NoQuery
    /\ cache' = EmptyTable /\ table' = EmptyTable
    /\ lookup' = [f \in Files |-> 0]
    /\ node' = [n \in Names |-> 0]
    /\ todo' = {} /\ pending' = {} /\ skipped' = {}
    /\ present' = [n \in Names |-> {}]
    /\ slotOf' = [w \in Words |-> 0]
    /\ toPlace' = {} /\ toApply' = {}
    /\ UNCHANGED <<contents, unread, searches>>

\* nothing to merge; --no-cache-write; the process dies; the save fails
Abandon ==
    /\ pc # "idle"
    /\ DropSearch
    /\ UNCHANGED disk

(***************************************************************************)
(* resolve_fragments: a new fragment takes a free column, else the first   *)
(* one from ring_pos that the batch does not use, else none.  The columns  *)
(* it takes are cleared in the rows already there.                         *)
(***************************************************************************)
Pinned == {slotOf[w] : w \in Words}

\* Mutant: the column is not cleared in the rows that stay
TakeColumnUncleared(w, s, hashes, ring) ==
    /\ slotOf' = [slotOf EXCEPT ![w] = s]
    /\ table' = [table EXCEPT !.hashes = hashes, !.ring = ring]

TakeColumn(w, s, hashes, ring) ==
    /\ slotOf' = [slotOf EXCEPT ![w] = s]
    /\ table' = [hashes |-> hashes,
                 ring   |-> ring,
                 rows   |-> [i \in DOMAIN table.rows |->
                               [table.rows[i] EXCEPT !.absent = @ \ {s}]]]

PlaceFree(w) ==
    /\ Len(table.hashes) < MaxFragments
    /\ TakeColumn(w, Len(table.hashes) + 1, Append(table.hashes, w), table.ring)

\* Mutant: a column the batch uses may be taken
PlaceEvictPinned(w) ==
    /\ Len(table.hashes) = MaxFragments
    /\ TakeColumn(w, table.ring + 1, [table.hashes EXCEPT ![table.ring + 1] = w],
                  (table.ring + 1) % MaxFragments)

PlaceEvict(w) ==
    /\ Len(table.hashes) = MaxFragments
    /\ \E k \in 0..(MaxFragments - 1) :
         LET slot(j) == ((table.ring + j) % MaxFragments) + 1
         IN /\ slot(k) \notin Pinned
            /\ \A j \in 0..(k - 1) : slot(j) \in Pinned
            /\ TakeColumn(w, slot(k), [table.hashes EXCEPT ![slot(k)] = w],
                          (table.ring + k + 1) % MaxFragments)

PlaceNone ==
    /\ Len(table.hashes) = MaxFragments
    /\ Slots \subseteq Pinned
    /\ UNCHANGED <<table, slotOf>>

Place(w) ==
    /\ pc = "merging" /\ w \in toPlace
    /\ toPlace' = toPlace \ {w}
    /\ PlaceFree(w) \/ PlaceEvict(w) \/ PlaceNone
    /\ UNCHANGED <<contents, disk, cache, lookup, pc, searchVars, unread, toApply, searches>>

(***************************************************************************)
(* apply_batch: a known file's row is rewritten, zeroed first if its meta  *)
(* changed; a new file gets a row while there is room.                     *)
(***************************************************************************)
Bits(n, old) ==
    (old \ {slotOf[w] : w \in present[n]})
      \cup {slotOf[w] : w \in {v \in Required(query) \ present[n] : slotOf[v] # 0}}

NewRow(n, old) ==
    [key |-> KeyOf[n], meta |-> node[n], absent |-> Bits(n, old)]

\* Mutant: the row of another version is not zeroed
OldBitsKept(n, id) == table.rows[id].absent

\* RESET: the row described another version of the file
OldBits(n, id) ==
    IF cache.rows[id].meta = node[n] THEN table.rows[id].absent ELSE {}

ApplyKnown(n) ==
    LET id == lookup[KeyOf[n]]
    IN /\ id # 0
       /\ table' = [table EXCEPT !.rows[id] = NewRow(n, OldBits(n, id))]

\* Mutant: no bound on the rows
ApplyNewUnbounded(n) ==
    /\ lookup[KeyOf[n]] = 0
    /\ table' = [table EXCEPT !.rows = Append(@, NewRow(n, {}))]

ApplyNew(n) ==
    /\ lookup[KeyOf[n]] = 0
    /\ Len(table.rows) < MaxFiles
    /\ table' = [table EXCEPT !.rows = Append(@, NewRow(n, {}))]

ApplyDropped(n) ==
    /\ lookup[KeyOf[n]] = 0
    /\ Len(table.rows) = MaxFiles
    /\ UNCHANGED table

Apply(n) ==
    /\ pc = "merging" /\ toPlace = {} /\ n \in toApply
    /\ toApply' = toApply \ {n}
    /\ ApplyKnown(n) \/ ApplyNew(n) \/ ApplyDropped(n)
    /\ UNCHANGED <<contents, disk, cache, lookup, pc, searchVars, unread,
                   slotOf, toPlace, searches>>

\* save_to_disk: the temporary file is renamed over fragment-cache.bin
Save ==
    /\ pc = "merging" /\ toPlace = {} /\ toApply = {}
    /\ disk' = table
    /\ DropSearch

Next ==
    \/ \E f \in Files : Modify(f)
    \/ \E q \in Queries : Start(q)
    \/ \E n \in Names : \/ Stat(n) \/ Skip(n) \/ PassOver(n)
                        \/ ReadWhole(n) \/ ReadShort(n) \/ ReadRejected(n)
                        \/ Apply(n)
    \/ BeginMerge \/ Abandon \/ Save
    \/ \E w \in Words : Place(w)

Spec == Init /\ [][Next]_vars

-----------------------------------------------------------------------------
(* Properties *)

TableOK(t) ==
    /\ t.hashes \in Seq(Words) /\ Len(t.hashes) <= MaxFragments
    /\ t.ring \in 0..(MaxFragments - 1)
    /\ t.rows \in Seq(Row) /\ Len(t.rows) <= MaxFiles

\* Types: among them, that every table fits the capacity the cache was
\* configured with and that a batch's columns exist.
TypeOK ==
    /\ contents \in [Files -> Seq(Contents)]
    /\ \A f \in Files : Version(f) \in 1..MaxVersions
    /\ TableOK(disk) /\ TableOK(cache) /\ TableOK(table)
    /\ lookup \in Lookups(cache)
    /\ pc \in {"idle", "searching", "merging"}
    /\ query \in Queries \cup {NoQuery}
    /\ node \in [Names -> 0..MaxVersions]
    /\ todo \subseteq Names /\ pending \subseteq Names /\ skipped \subseteq Names
    /\ present \in [Names -> SUBSET Words]
    /\ unread \subseteq Files \X (1..MaxVersions)
    /\ slotOf \in [Words -> 0..MaxFragments]
    /\ toPlace \subseteq Words /\ toApply \subseteq Names
    /\ searches \in 0..MaxSearches

\* What a table claims: the fragment h is absent from version v of file f.
Facts(t) ==
    UNION { {<<t.rows[i].key, t.rows[i].meta, t.hashes[s]>> : s \in t.rows[i].absent}
            : i \in DOMAIN t.rows }

\* The cache on disk never claims that a fragment is absent from the present
\* version of a file that holds it, unless a search recorded that version
\* from a buffer that did not hold the whole file.  It rests on the row being
\* zeroed when the file changed, on reused columns being cleared in the rows
\* that stay, and on the order of both with the writing of the new bits
\* (apply_batch, resolve_fragments).
ClaimsHold ==
    \A f \in Files, w \in Words :
        <<f, Version(f), w>> \in Facts(disk) /\ <<f, Version(f)>> \notin unread
            => w \notin Current(f).words

\* A file the search passes over because of the cache lacks a fragment of the
\* pattern, in the version whose inode the search read (can_skip_file), again
\* unless that version was recorded from an incomplete buffer.
SkippedLacks ==
    \A n \in skipped :
        \/ <<KeyOf[n], node[n]>> \in unread
        \/ ~(Required(query) \subseteq contents[KeyOf[n]][node[n]].words)

\* Merging a search's batch into the cache teaches it nothing but what that
\* search recorded: every claim of the new file was in the old one or is one
\* of the batch (merge_updates_if_changed).
LearnsOnlyTheBatch ==
    [][Facts(disk') \ Facts(disk) \subseteq
         UNION { {<<KeyOf[n], node[n], w>> : w \in Required(query) \ present[n]}
                 : n \in pending }]_vars

\* A finished merge has what the batch says: each of its fragments has the
\* column slot_of names, or none only if the pattern has more fragments than
\* the cache has columns; and every recorded file has a row that says present
\* or absent as the batch does, unless the cache is full or another name of
\* the file had its say.
BatchKept ==
    (pc = "merging" /\ toPlace = {} /\ toApply = {}) =>
        /\ \A w \in Required(query) :
             IF slotOf[w] # 0 THEN table.hashes[slotOf[w]] = w
                              ELSE Cardinality(Required(query)) > MaxFragments
        /\ \A n \in pending :
             \/ Len(table.rows) = MaxFiles /\ lookup[KeyOf[n]] = 0
             \/ \E m \in pending \ {n} : KeyOf[m] = KeyOf[n]
             \/ \E i \in DOMAIN table.rows :
                  /\ table.rows[i].key = KeyOf[n] /\ table.rows[i].meta = node[n]
                  /\ \A w \in Required(query) : slotOf[w] # 0 =>
                        (slotOf[w] \in table.rows[i].absent <=> w \notin present[n])

\* No fragment has two columns: find_fragment_index stops at the first, so
\* the second would hold bits that no later search clears or rewrites.
ColumnsDistinct ==
    \A s, t \in DOMAIN disk.hashes : disk.hashes[s] = disk.hashes[t] => s = t

\* "Fragments are small byte sequences used to quickly determine if a file
\* can be skipped without reading it": a file that has a match is not
\* skipped.  It does not hold for alternations, whose fragments are all
\* required together, nor between searches that differ in -i or --binary.
NoMatchSkipped ==
    \A n \in skipped : ~Matches(query, contents[KeyOf[n]][node[n]].words)
=============================================================================
