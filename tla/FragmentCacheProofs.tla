------------------------- MODULE FragmentCacheProofs -------------------------
(***************************************************************************)
(* Theorems about FragmentCache, for every set of files, words and         *)
(* patterns and every capacity of the cache.  The inductive invariant says *)
(* what a batch has done to the table so far, column by column and row by  *)
(* row, and that what any table claims was true of the version it names or *)
(* is about a version that is no longer the present one.                   *)
(***************************************************************************)
EXTENDS FragmentCache, QueueLemmas, FiniteSetTheorems, TLAPS

-----------------------------------------------------------------------------
(* The inductive invariant.                                                *)

Table == [hashes : Seq(Words), ring : 0..(MaxFragments - 1), rows : Seq(Row)]

\* The three tables are records of that shape, within the capacity.
Typed ==
  /\ TypeOK
  /\ disk \in Table /\ cache \in Table /\ table \in Table

\* A set bit belongs to a column that exists, and no fragment has two columns.
WellFormed(t) ==
  /\ \A i \in DOMAIN t.rows : t.rows[i].absent \subseteq DOMAIN t.hashes
  /\ \A r, s \in DOMAIN t.hashes : t.hashes[r] = t.hashes[s] => r = s

\* A search works on what is on disk or on nothing, and nobody else saves.
Tables ==
  /\ WellFormed(disk) /\ WellFormed(cache) /\ WellFormed(table)
  /\ pc # "idle" => cache \in {disk, EmptyTable}

Wanted == Required(query)

\* What a search has noted of a name, and what is left of that between two.
Recorded ==
  /\ pending \intersect todo = {} /\ skipped \intersect todo = {}
  /\ toApply \subseteq pending
  /\ \A n \in pending \union skipped : node[n] # 0
  /\ \A n \in Names : node[n] <= Version(KeyOf[n]) /\ present[n] \subseteq Wanted
  /\ pc # "merging" => toPlace = {} /\ toApply = {}
  /\ pc = "idle" => /\ pending = {} /\ skipped = {} /\ query = NoQuery
                    /\ \A n \in Names : node[n] = 0

\* The columns of the batch so far: those given are its own, and one that got
\* none found every column taken by the batch.
Columns ==
  pc = "merging" =>
    /\ toPlace \subseteq Wanted
    /\ \A w \in toPlace : slotOf[w] = 0 /\ ~HasColumn(table, w)
    /\ \A w \in Words : slotOf[w] # 0 =>
         w \in Wanted /\ slotOf[w] \in DOMAIN table.hashes /\ table.hashes[slotOf[w]] = w
    /\ \A w \in Wanted \ toPlace : slotOf[w] = 0 => Slots \subseteq Pinned

\* The rows that were there stay in their places, and one that was rewritten
\* for another version has bits in the batch's columns only; which matters
\* when a third name of the file has the version of before.
RowsKept ==
  pc = "merging" =>
    /\ Len(cache.rows) <= Len(table.rows)
    /\ \A i \in DOMAIN cache.rows :
         /\ table.rows[i].key = cache.rows[i].key
         /\ table.rows[i].meta # cache.rows[i].meta =>
              toPlace = {} /\ table.rows[i].absent \subseteq Pinned \ {0}
    /\ toPlace # {} => toApply = pending

\* What the batch claims.
Batch ==
  UNION { {<<KeyOf[n], node[n], w>> : w \in Wanted \ present[n]} : n \in pending }

Learned == pc = "merging" => Facts(table) \subseteq Facts(cache) \union Batch

SaysTheBatch(n) ==
  \/ Len(table.rows) = MaxFiles /\ lookup[KeyOf[n]] = 0
  \/ \E m \in pending \ {n} : KeyOf[m] = KeyOf[n]
  \/ \E i \in DOMAIN table.rows :
       /\ table.rows[i].key = KeyOf[n] /\ table.rows[i].meta = node[n]
       /\ \A w \in Wanted : slotOf[w] # 0 =>
            (slotOf[w] \in table.rows[i].absent <=> w \notin present[n])

Said == pc = "merging" => \A n \in pending \ toApply : SaysTheBatch(n)

\* The fragment w is absent from version v of f, as far as it was read.
Lacks(f, v, w) == <<f, v>> \in unread \/ w \notin contents[f][v].words

\* A claim may also be about a version that is gone: the inode is read before
\* the data, so the data may be of a later one.
Honest(f, v, w) ==
  /\ v \in 1..Version(f)
  /\ v < Version(f) \/ Lacks(f, v, w)

Truthful ==
  /\ \A f \in Files, v \in 1..MaxVersions, w \in Words :
       <<f, v, w>> \in Facts(disk) \union Batch => Honest(f, v, w)
  /\ \A n \in Names, w \in Words :
       <<KeyOf[n], node[n], w>> \in Facts(cache) => Lacks(KeyOf[n], node[n], w)
  /\ SkippedLacks

IInv ==
  /\ Typed /\ Tables /\ Recorded /\ Columns /\ RowsKept
  /\ Learned /\ Said /\ Truthful

-----------------------------------------------------------------------------
(* What a step does to the table.                                          *)

\* What a pattern requires is a set of fragments, none without a pattern.
LEMMA RequiredWords ==
  /\ \A q \in Queries \union {NoQuery} : Required(q) \in SUBSET Words
  /\ Required(NoQuery) = {}
<1>1. Required(NoQuery) = {}
  BY DEF NoQuery, Required
<1>2. ASSUME NEW q \in Queries PROVE Required(q) \in SUBSET Words
  <2>1. q \in Query
    BY CacheAssumption
  <2>2. q.branches \in SUBSET SUBSET Words
    BY <2>1 DEF Query
  <2> QED
    BY <2>2, Zenon DEF Required
<1> QED
  BY <1>1, <1>2

\* A cache that does not exist yet is a table without claims.
LEMMA EmptyIsTable ==
  EmptyTable \in Table /\ WellFormed(EmptyTable) /\ TableOK(EmptyTable)
  /\ Facts(EmptyTable) = {}
<1>1. 0 \in 0..(MaxFragments - 1) /\ MaxFiles \in Nat /\ MaxFragments \in Nat
  BY CacheAssumption
<1>2. /\ EmptyTable.hashes = <<>> /\ EmptyTable.ring = 0 /\ EmptyTable.rows = <<>>
      /\ <<>> \in Seq(Words) /\ <<>> \in Seq(Row) /\ Len(<<>>) = 0 /\ DOMAIN <<>> = {}
  BY DEF EmptyTable
<1>3. EmptyTable \in Table
  BY <1>1, <1>2 DEF EmptyTable, Table
<1>4. WellFormed(EmptyTable)
  BY <1>2 DEF WellFormed
<1>5. TableOK(EmptyTable)
  BY <1>1, <1>2 DEF TableOK
<1>6. Facts(EmptyTable) = {}
  BY <1>2 DEF Facts
<1> QED
  BY <1>3, <1>4, <1>5, <1>6

\* The parts of a table.
LEMMA TableFields ==
  ASSUME NEW t \in Table
  PROVE  /\ t.hashes \in Seq(Words) /\ t.ring \in 0..(MaxFragments - 1)
         /\ t.rows \in Seq(Row)
         /\ DOMAIN t.hashes = 1..Len(t.hashes) /\ Len(t.hashes) \in Nat
         /\ DOMAIN t.rows = 1..Len(t.rows) /\ Len(t.rows) \in Nat
         /\ \A i \in DOMAIN t.rows :
              /\ t.rows[i] \in Row
              /\ t.rows[i].key \in Files /\ t.rows[i].meta \in 1..MaxVersions
              /\ t.rows[i].absent \subseteq Slots
<1>1. /\ t.hashes \in Seq(Words) /\ t.ring \in 0..(MaxFragments - 1)
      /\ t.rows \in Seq(Row)
  BY DEF Table
<1>2. /\ DOMAIN t.hashes = 1..Len(t.hashes) /\ Len(t.hashes) \in Nat
      /\ DOMAIN t.rows = 1..Len(t.rows) /\ Len(t.rows) \in Nat
  BY <1>1, LenProperties
<1>3. \A i \in DOMAIN t.rows : t.rows[i] \in Row
  BY <1>1, <1>2, ElementOfSeq
<1> QED
  BY <1>1, <1>2, <1>3 DEF Row

\* What it is for a table to claim something.
LEMMA FactsAre ==
  ASSUME NEW t, NEW f, NEW v, NEW w
  PROVE  <<f, v, w>> \in Facts(t) <=>
           \E i \in DOMAIN t.rows : \E s \in t.rows[i].absent :
             f = t.rows[i].key /\ v = t.rows[i].meta /\ w = t.hashes[s]
BY DEF Facts

\* To bound a table's claims is to bound those of each bit of each row.
LEMMA FactsWithin ==
  ASSUME NEW t, NEW known,
         \A i \in DOMAIN t.rows : \A s \in t.rows[i].absent :
           <<t.rows[i].key, t.rows[i].meta, t.hashes[s]>> \in known
  PROVE  Facts(t) \subseteq known
BY DEF Facts

\* Facts are about a file, a version and a word.
LEMMA FactsTyped ==
  ASSUME NEW t \in Table, WellFormed(t)
  PROVE  Facts(t) \subseteq Files \X (1..MaxVersions) \X Words
<1> SUFFICES ASSUME NEW i \in DOMAIN t.rows, NEW s \in t.rows[i].absent
             PROVE  /\ t.rows[i].key \in Files /\ t.rows[i].meta \in 1..MaxVersions
                    /\ t.hashes[s] \in Words
  BY DEF Facts
<1>1. s \in DOMAIN t.hashes
  BY DEF WellFormed
<1> QED
  BY <1>1, TableFields, ElementOfSeq

\* A word of the batch gets a column no other has, which is cleared in every
\* row; or the batch has all the columns already.
Placed(w) ==
  \/ UNCHANGED <<table, slotOf>> /\ Slots \subseteq Pinned
  \/ \E s \in Slots :
       /\ s \notin Pinned
       /\ slotOf' = [slotOf EXCEPT ![w] = s]
       /\ table' \in Table /\ Len(table'.hashes) <= MaxFragments
       /\ DOMAIN table'.hashes = DOMAIN table.hashes \union {s}
       /\ table'.hashes[s] = w
       /\ \A r \in DOMAIN table.hashes \ {s} : table'.hashes[r] = table.hashes[r]
       /\ Len(table'.rows) = Len(table.rows)
       /\ \A i \in DOMAIN table.rows :
            /\ table'.rows[i].key = table.rows[i].key
            /\ table'.rows[i].meta = table.rows[i].meta
            /\ table'.rows[i].absent = table.rows[i].absent \ {s}

\* What giving a column to a fragment leaves of the columns and the rows.
LEMMA TakenColumn ==
  ASSUME Typed, NEW w \in Words, NEW s \in Slots, NEW hashes \in Seq(Words),
         NEW ring \in 0..(MaxFragments - 1), TakeColumn(w, s, hashes, ring)
  PROVE  /\ slotOf' = [slotOf EXCEPT ![w] = s]
         /\ table' \in Table /\ table'.hashes = hashes
         /\ Len(table'.rows) = Len(table.rows)
         /\ \A i \in DOMAIN table.rows :
              /\ table'.rows[i].key = table.rows[i].key
              /\ table'.rows[i].meta = table.rows[i].meta
              /\ table'.rows[i].absent = table.rows[i].absent \ {s}
<1> DEFINE rows == [i \in DOMAIN table.rows |->
                      [table.rows[i] EXCEPT !.absent = @ \ {s}]]
<1>1. table' = [hashes |-> hashes, ring |-> ring, rows |-> rows]
      /\ slotOf' = [slotOf EXCEPT ![w] = s]
  BY DEF TakeColumn
<1>2. /\ DOMAIN table.rows = 1..Len(table.rows) /\ Len(table.rows) \in Nat
      /\ \A i \in DOMAIN table.rows : table.rows[i] \in Row
  BY TableFields DEF Typed
<1>3. \A i \in DOMAIN table.rows :
        /\ rows[i] \in Row
        /\ rows[i].key = table.rows[i].key
        /\ rows[i].meta = table.rows[i].meta
        /\ rows[i].absent = table.rows[i].absent \ {s}
  BY <1>2 DEF Row
<1>4. rows \in Seq(Row) /\ Len(rows) = Len(table.rows)
  <2>1. rows \in [1..Len(table.rows) -> Row]
    BY <1>2, <1>3
  <2> QED
    BY <1>2, <2>1, SeqDef, LenProperties
<1> HIDE DEF rows
<1>5. table' \in Table /\ table'.hashes = hashes /\ table'.rows = rows
  BY <1>1, <1>4 DEF Table
<1> QED
  BY <1>1, <1>3, <1>4, <1>5

\* resolve_fragments for one fragment, in all its cases.
LEMMA PlacingStep ==
  ASSUME Typed, Tables, Columns, NEW w \in Words, Place(w)
  PROVE  Placed(w)
<1>0. /\ table \in Table /\ pc = "merging" /\ w \in toPlace
      /\ Len(table.hashes) <= MaxFragments /\ MaxFragments \in Nat \ {0}
      /\ DOMAIN table.hashes = 1..Len(table.hashes) /\ Len(table.hashes) \in Nat
      /\ table.hashes \in Seq(Words) /\ table.ring \in 0..(MaxFragments - 1)
      /\ slotOf \in [Words -> 0..MaxFragments]
  BY TableFields, CacheAssumption DEF Typed, TypeOK, TableOK, Place
<1>1. CASE PlaceFree(w)
  <2> DEFINE s == Len(table.hashes) + 1
             hashes == Append(table.hashes, w)
  <2>1. s \in Slots /\ s \notin DOMAIN table.hashes
    BY <1>0, <1>1 DEF PlaceFree, Slots
  <2>2. s \notin Pinned
    <3>1. \A v \in Words : slotOf[v] # s
      BY <1>0, <2>1 DEF Columns
    <3> QED
      BY <3>1 DEF Pinned
  <2>3. /\ hashes \in Seq(Words) /\ Len(hashes) = Len(table.hashes) + 1
        /\ \A r \in 1..Len(table.hashes) : hashes[r] = table.hashes[r]
        /\ hashes[s] = w
    BY <1>0, AppendProperties
  <2>4. DOMAIN hashes = DOMAIN table.hashes \union {s} /\ Len(hashes) <= MaxFragments
    <3>1. DOMAIN hashes = 1..Len(hashes)
      BY <2>3, LenProperties
    <3> QED
      BY <1>0, <1>1, <2>3, <3>1 DEF PlaceFree
  <2>5. TakeColumn(w, s, hashes, table.ring)
    BY <1>1 DEF PlaceFree
  <2> HIDE DEF s, hashes
  <2>6. /\ slotOf' = [slotOf EXCEPT ![w] = s]
        /\ table' \in Table /\ table'.hashes = hashes
        /\ Len(table'.rows) = Len(table.rows)
        /\ \A i \in DOMAIN table.rows :
             /\ table'.rows[i].key = table.rows[i].key
             /\ table'.rows[i].meta = table.rows[i].meta
             /\ table'.rows[i].absent = table.rows[i].absent \ {s}
    <3>1. s \in Slots /\ hashes \in Seq(Words) /\ table.ring \in 0..(MaxFragments - 1)
      BY <1>0, <2>1, <2>3
    <3> QED
      BY <2>5, <3>1, TakenColumn
  <2>7. /\ Len(table'.hashes) <= MaxFragments
        /\ DOMAIN table'.hashes = DOMAIN table.hashes \union {s}
        /\ table'.hashes[s] = w
        /\ \A r \in DOMAIN table.hashes \ {s} : table'.hashes[r] = table.hashes[r]
    BY <1>0, <2>3, <2>4, <2>6
  <2> QED
    BY <2>1, <2>2, <2>6, <2>7, Zenon DEF Placed
<1>2. CASE PlaceEvict(w)
  <2> DEFINE slot(j) == ((table.ring + j) % MaxFragments) + 1
  <2>1. PICK k \in 0..(MaxFragments - 1) :
          /\ slot(k) \notin Pinned
          /\ TakeColumn(w, slot(k), [table.hashes EXCEPT ![slot(k)] = w],
                        (table.ring + k + 1) % MaxFragments)
    BY <1>2 DEF PlaceEvict
  <2> DEFINE s == slot(k)
             hashes == [table.hashes EXCEPT ![s] = w]
             ring == (table.ring + k + 1) % MaxFragments
  <2>2. s \in Slots /\ ring \in 0..(MaxFragments - 1)
    <3>1. \A x \in Nat : x % MaxFragments \in 0..(MaxFragments - 1)
      BY <1>0
    <3>2. table.ring + k \in Nat /\ table.ring + k + 1 \in Nat
      BY <1>0
    <3>3. (table.ring + k) % MaxFragments \in 0..(MaxFragments - 1)
      BY <3>1, <3>2
    <3>4. (table.ring + k + 1) % MaxFragments \in 0..(MaxFragments - 1)
      BY <3>1, <3>2
    <3>5. \A x \in 0..(MaxFragments - 1) : x + 1 \in Slots
      BY <1>0 DEF Slots
    <3>6. s \in Slots
      BY <3>3, <3>5
    <3> QED
      BY <3>4, <3>6
  <2>3. TakeColumn(w, s, hashes, ring) /\ s \notin Pinned
    BY <2>1
  <2> HIDE DEF s, ring
  <2>4. DOMAIN table.hashes = Slots
    BY <1>0, <1>2 DEF PlaceEvict, Slots
  <2>5. /\ hashes \in Seq(Words) /\ Len(hashes) = Len(table.hashes)
        /\ hashes[s] = w /\ \A r \in DOMAIN table.hashes \ {s} : hashes[r] = table.hashes[r]
    BY <1>0, <2>2, <2>4, ExceptSeq
  <2>6. DOMAIN hashes = DOMAIN table.hashes \union {s}
    BY <1>0, <2>2, <2>4
  <2> HIDE DEF hashes
  <2>7. /\ slotOf' = [slotOf EXCEPT ![w] = s]
        /\ table' \in Table /\ table'.hashes = hashes
        /\ Len(table'.rows) = Len(table.rows)
        /\ \A i \in DOMAIN table.rows :
             /\ table'.rows[i].key = table.rows[i].key
             /\ table'.rows[i].meta = table.rows[i].meta
             /\ table'.rows[i].absent = table.rows[i].absent \ {s}
    BY <2>2, <2>3, <2>5, TakenColumn
  <2>8. /\ Len(table'.hashes) <= MaxFragments
        /\ DOMAIN table'.hashes = DOMAIN table.hashes \union {s}
        /\ table'.hashes[s] = w
        /\ \A r \in DOMAIN table.hashes \ {s} : table'.hashes[r] = table.hashes[r]
    BY <1>0, <2>5, <2>6, <2>7
  <2> QED
    BY <2>2, <2>3, <2>7, <2>8, Zenon DEF Placed
<1>3. CASE PlaceNone
  BY <1>3 DEF PlaceNone, Placed
<1> QED
  BY <1>1, <1>2, <1>3 DEF Place

\* One row says what the batch says of n, and keeps what old says of the other
\* columns: the row of the file that was there, or a new last one.
Applied(n) ==
  \/ /\ UNCHANGED table
     /\ lookup[KeyOf[n]] = 0 /\ Len(table.rows) = MaxFiles
  \/ \E i \in 1..(Len(table.rows) + 1), old \in SUBSET Slots :
       /\ \/ /\ lookup[KeyOf[n]] # 0 /\ i = lookup[KeyOf[n]] /\ i \in DOMAIN cache.rows
             /\ cache.rows[i].key = KeyOf[n]
             /\ old = OldBits(n, i) /\ i <= Len(table.rows)
             /\ Len(table'.rows) = Len(table.rows)
          \/ /\ lookup[KeyOf[n]] = 0 /\ i = Len(table.rows) + 1 /\ old = {}
             /\ Len(table'.rows) = Len(table.rows) + 1
       /\ old \subseteq DOMAIN table.hashes
       /\ table' \in Table /\ table'.hashes = table.hashes
       /\ Len(table'.rows) <= MaxFiles
       /\ table'.rows[i] = NewRow(n, old)
       /\ \A j \in DOMAIN table.rows \ {i} : table'.rows[j] = table.rows[j]

\* A row written for a name has bits in columns that exist.
LEMMA NewRowTyped ==
  ASSUME Typed, Recorded, Columns, pc = "merging", NEW n \in pending,
         NEW old \in SUBSET Slots, old \subseteq DOMAIN table.hashes
  PROVE  /\ NewRow(n, old) \in Row
         /\ Bits(n, old) \subseteq DOMAIN table.hashes
         /\ NewRow(n, old).key = KeyOf[n] /\ NewRow(n, old).meta = node[n]
         /\ NewRow(n, old).absent = Bits(n, old)
<1>1. /\ n \in Names /\ KeyOf[n] \in Files /\ node[n] \in 1..MaxVersions
      /\ slotOf \in [Words -> 0..MaxFragments] /\ MaxFragments \in Nat
      /\ MaxVersions \in Nat /\ Wanted \subseteq Words
  BY CacheAssumption, RequiredWords DEF Typed, TypeOK, Recorded, Wanted
<1>2. \A w \in Words : slotOf[w] # 0 => slotOf[w] \in Slots /\ slotOf[w] \in DOMAIN table.hashes
  BY <1>1 DEF Columns, Slots
<1>3. Bits(n, old) \subseteq Slots /\ Bits(n, old) \subseteq DOMAIN table.hashes
  <2>1. ASSUME NEW b \in Bits(n, old) PROVE b \in Slots /\ b \in DOMAIN table.hashes
    <3>1. b \in old \/ \E v \in Wanted \ present[n] : slotOf[v] # 0 /\ b = slotOf[v]
      BY DEF Bits, Wanted
    <3> QED
      BY <1>1, <1>2, <3>1
  <2> QED
    BY <2>1
<1> HIDE DEF Bits
<1> QED
  BY <1>1, <1>3 DEF NewRow, Row

\* apply_batch for one name, in all its cases.
LEMMA ApplyingStep ==
  ASSUME Typed, Tables, Recorded, Columns, RowsKept, NEW n \in Names, Apply(n)
  PROVE  Applied(n)
<1>0. /\ table \in Table /\ cache \in Table /\ pc = "merging" /\ n \in pending
      /\ Len(table.rows) \in Nat /\ DOMAIN table.rows = 1..Len(table.rows)
      /\ DOMAIN cache.rows = 1..Len(cache.rows) /\ Len(cache.rows) \in Nat
      /\ Len(cache.rows) <= Len(table.rows)
      /\ table.rows \in Seq(Row) /\ MaxFiles \in Nat /\ Len(table.rows) <= MaxFiles
      /\ lookup \in [Files -> 0..Len(cache.rows)] /\ KeyOf[n] \in Files
      /\ \A f \in Files : lookup[f] # 0 => cache.rows[lookup[f]].key = f
  BY TableFields, CacheAssumption DEF Typed, TypeOK, TableOK, Lookups, Apply,
     Recorded, RowsKept
<1>1. CASE ApplyKnown(n)
  <2> DEFINE id == lookup[KeyOf[n]]
             old == OldBits(n, id)
             row == NewRow(n, old)
  <2>1. id # 0 /\ id \in DOMAIN cache.rows /\ id \in DOMAIN table.rows
        /\ cache.rows[id].key = KeyOf[n]
    BY <1>0, <1>1 DEF ApplyKnown
  <2>2. table' = [table EXCEPT !.rows[id] = row]
    BY <1>1 DEF ApplyKnown
  <2>3. old \in SUBSET Slots /\ old \subseteq DOMAIN table.hashes
    BY <1>0, <2>1, TableFields DEF OldBits, Tables, WellFormed
  <2>4. row \in Row
    BY <1>0, <2>3, NewRowTyped
  <2> HIDE DEF id, old, row
  <2>5. table' = [table EXCEPT !.rows = [table.rows EXCEPT ![id] = row]]
    BY <1>0, <2>2 DEF Table
  <2>6. /\ [table.rows EXCEPT ![id] = row] \in Seq(Row)
        /\ Len([table.rows EXCEPT ![id] = row]) = Len(table.rows)
        /\ [table.rows EXCEPT ![id] = row][id] = row
        /\ \A j \in DOMAIN table.rows \ {id} :
             [table.rows EXCEPT ![id] = row][j] = table.rows[j]
    BY <1>0, <2>1, <2>4, ExceptSeq
  <2> DEFINE rows == [table.rows EXCEPT ![id] = row]
  <2> HIDE DEF rows
  <2>7. table' \in Table /\ table'.hashes = table.hashes /\ table'.rows = rows
    BY <1>0, <2>5, <2>6 DEF Table, rows
  <2>8. id \in 1..(Len(table.rows) + 1) /\ id <= Len(table.rows)
    BY <1>0, <2>1
  <2> QED
    BY <1>0, <2>1, <2>3, <2>6, <2>7, <2>8 DEF Applied, id, old, row, rows
<1>2. CASE ApplyNew(n)
  <2> DEFINE row == NewRow(n, {})
             rows == Append(table.rows, row)
  <2>1. /\ lookup[KeyOf[n]] = 0 /\ Len(table.rows) < MaxFiles
        /\ table' = [table EXCEPT !.rows = rows]
    BY <1>2 DEF ApplyNew
  <2>2. row \in Row
    BY <1>0, NewRowTyped
  <2> HIDE DEF row
  <2>3. /\ rows \in Seq(Row) /\ Len(rows) = Len(table.rows) + 1
        /\ rows[Len(table.rows) + 1] = row
        /\ \A j \in 1..Len(table.rows) : rows[j] = table.rows[j]
    BY <1>0, <2>2, AppendProperties
  <2> HIDE DEF rows
  <2>4. table' \in Table /\ table'.hashes = table.hashes /\ table'.rows = rows
    BY <1>0, <2>1, <2>3 DEF Table
  <2> DEFINE i == Len(table.rows) + 1
  <2>5. /\ i \in 1..(Len(table.rows) + 1) /\ {} \in SUBSET Slots
        /\ {} \subseteq DOMAIN table.hashes
    BY <1>0
  <2>6. /\ Len(table'.rows) = Len(table.rows) + 1 /\ Len(table'.rows) <= MaxFiles
        /\ table'.rows[i] = NewRow(n, {})
        /\ \A j \in DOMAIN table.rows \ {i} : table'.rows[j] = table.rows[j]
    BY <1>0, <2>1, <2>3, <2>4 DEF row
  <2> HIDE DEF i
  <2> QED
    BY <2>1, <2>4, <2>5, <2>6 DEF Applied, i
<1>3. CASE ApplyDropped(n)
  BY <1>3 DEF ApplyDropped, Applied
<1> QED
  BY <1>1, <1>2, <1>3 DEF Apply

-----------------------------------------------------------------------------
(* Steps that leave the tables alone: the world, and the search itself.    *)

\* What the conjuncts about the merge read.
mergeState == <<disk, cache, table, lookup, pc, query, node, pending, present,
                slotOf, toPlace, toApply>>

\* What leaves the tables and the batch alone keeps what is said of a merge.
LEMMA MergeUntouched ==
  ASSUME Tables, Columns, RowsKept, Learned, Said, UNCHANGED mergeState
  PROVE  /\ Tables' /\ Columns' /\ RowsKept' /\ Learned' /\ Said'
         /\ Batch' = Batch /\ Wanted' = Wanted
         /\ Facts(disk)' = Facts(disk) /\ Facts(cache)' = Facts(cache)
<1> USE DEF mergeState
<1>1. Wanted' = Wanted /\ Pinned' = Pinned
  BY DEF Wanted, Pinned
<1>2. Tables'
  BY DEF Tables, WellFormed
<1>3. Columns' /\ RowsKept'
  BY <1>1 DEF Columns, RowsKept, HasColumn
<1>4. /\ Facts(table)' = Facts(table) /\ Facts(cache)' = Facts(cache)
      /\ Facts(disk)' = Facts(disk) /\ Batch' = Batch
  BY <1>1 DEF Facts, Batch
<1>5. Learned'
  BY <1>4 DEF Learned
<1>6. Said'
  BY <1>1 DEF Said, SaysTheBatch
<1> QED
  BY <1>1, <1>2, <1>3, <1>4, <1>5, <1>6

\* While a search reads, nothing is said of the merge yet.
LEMMA NotMerging ==
  ASSUME pc' # "merging"
  PROVE  Columns' /\ RowsKept' /\ Learned' /\ Said'
BY DEF Columns, RowsKept, Learned, Said

\* Versions only come, and the list of what was read in part only grows.
Grows ==
  /\ \A f \in Files : /\ Version(f) \in Nat /\ Version(f)' \in Nat
                      /\ Version(f) <= Version(f)'
                      /\ \A v \in 1..Version(f) : contents'[f][v] = contents[f][v]
  /\ unread \subseteq unread'

\* A claim that is true stays so when files are modified: it may become one
\* about a version that is gone.
LEMMA HonestKept ==
  ASSUME Grows, NEW f \in Files, NEW v, NEW w, Honest(f, v, w)
  PROVE  Honest(f, v, w)'
<1>1. /\ v \in 1..Version(f) /\ Version(f) \in Nat /\ Version(f)' \in Nat
      /\ Version(f) <= Version(f)' /\ contents'[f][v] = contents[f][v]
      /\ unread \subseteq unread'
  BY DEF Grows, Honest
<1>2. v \in 1..Version(f)'
  BY <1>1
<1>3. CASE v < Version(f)
  BY <1>1, <1>2, <1>3 DEF Honest
<1>4. CASE Lacks(f, v, w)
  BY <1>1, <1>2, <1>4 DEF Honest, Lacks
<1> QED
  BY <1>3, <1>4 DEF Honest

\* What a version lacks it lacks for ever: contents are added, never changed.
LEMMA LacksKept ==
  ASSUME Grows, NEW f \in Files, NEW v \in 1..Version(f), NEW w, Lacks(f, v, w)
  PROVE  Lacks(f, v, w)'
BY DEF Grows, Lacks

\* Truth survives a step that adds no claim, gives no name an inode and passes
\* over nothing.
LEMMA TruthKept ==
  ASSUME Typed, Tables, Recorded, Truthful, Grows,
         Facts(disk)' = Facts(disk), Batch' = Batch, Facts(cache)' = Facts(cache),
         node' = node, query' = query, skipped' = skipped
  PROVE  Truthful'
<1>1. ASSUME NEW f \in Files, NEW v \in 1..MaxVersions, NEW w \in Words,
             <<f, v, w>> \in Facts(disk) \union Batch
      PROVE  Honest(f, v, w)'
  BY <1>1, HonestKept DEF Truthful
<1>2. ASSUME NEW n \in Names, NEW w \in Words,
             <<KeyOf[n], node[n], w>> \in Facts(cache)
      PROVE  Lacks(KeyOf[n], node[n], w)'
  <2>1. KeyOf[n] \in Files /\ node[n] \in 1..MaxVersions
    BY <1>2, CacheAssumption, FactsTyped DEF Typed, Tables
  <2>2. node[n] \in 1..Version(KeyOf[n])
    BY <2>1, CacheAssumption DEF Recorded, Grows
  <2>3. Lacks(KeyOf[n], node[n], w)
    BY <1>2 DEF Truthful
  <2>4. node'[n] = node[n]
    OBVIOUS
  <2> QED
    BY <2>1, <2>2, <2>3, <2>4 DEF Grows, Lacks
<1>3. SkippedLacks'
  <2> SUFFICES ASSUME NEW n \in skipped,
                      <<KeyOf[n], node[n]>> \notin unread'
               PROVE  ~(Required(query) \subseteq contents'[KeyOf[n]][node[n]].words)
    BY DEF SkippedLacks
  <2>1. KeyOf[n] \in Files /\ node[n] \in 1..Version(KeyOf[n])
    BY CacheAssumption DEF Typed, TypeOK, Recorded, Grows
  <2>2. <<KeyOf[n], node[n]>> \notin unread
    BY DEF Grows
  <2> QED
    BY <2>1, <2>2 DEF Grows, Truthful, SkippedLacks
<1> QED
  BY <1>1, <1>2, <1>3 DEF Truthful

\* A file is modified.
LEMMA ModifyStep ==
  ASSUME IInv, NEW f \in Files, Modify(f)
  PROVE  IInv'
<1>0. Typed /\ Tables /\ Recorded /\ Columns /\ RowsKept /\ Learned /\ Said /\ Truthful
  BY DEF IInv
<1>1. /\ UNCHANGED <<disk, cache, lookup, pc, query, node, todo, pending, present,
                     skipped, unread, table, slotOf, toPlace, toApply, searches>>
      /\ Version(f) < MaxVersions
      /\ \E c \in Contents : contents' = [contents EXCEPT ![f] = Append(@, c)]
  BY DEF Modify, searchVars, mergeVars
<1>2. contents \in [Files -> Seq(Contents)] /\ MaxVersions \in Nat
      /\ \A g \in Files : Version(g) \in 1..MaxVersions
  BY <1>0, CacheAssumption DEF Typed, TypeOK
<1>3. PICK c \in Contents : contents' = [contents EXCEPT ![f] = Append(@, c)]
  BY <1>1
<1>4. /\ Append(contents[f], c) \in Seq(Contents)
      /\ Len(Append(contents[f], c)) = Len(contents[f]) + 1
      /\ \A v \in 1..Len(contents[f]) : Append(contents[f], c)[v] = contents[f][v]
  BY <1>2, <1>3, AppendProperties
<1>5. \A g \in Files : contents'[g] = IF g = f THEN Append(contents[f], c) ELSE contents[g]
  BY <1>2, <1>3
<1>6. \A g \in Files : /\ Version(g)' \in 1..MaxVersions
                       /\ Version(g) <= Version(g)'
                       /\ \A v \in 1..Version(g) : contents'[g][v] = contents[g][v]
  BY <1>1, <1>2, <1>4, <1>5 DEF Version
<1>7. Grows
  <2>1. \A g \in Files : Version(g) \in Nat /\ Version(g)' \in Nat
    BY <1>2, <1>6
  <2>2. unread \subseteq unread'
    BY <1>1
  <2> QED
    BY <1>6, <2>1, <2>2, Zenon DEF Grows
<1>8. Typed'
  <2>1. contents' \in [Files -> Seq(Contents)]
    BY <1>2, <1>3, <1>4
  <2>2. TypeOK'
    BY <1>0, <1>1, <1>6, <2>1 DEF Typed, TypeOK, TableOK, Lookups
  <2> QED
    BY <1>0, <1>1, <2>2 DEF Typed
<1>9. Recorded'
  <2>1. \A n \in Names : KeyOf[n] \in Files /\ node[n] \in Nat
    BY <1>0, CacheAssumption DEF Typed, TypeOK
  <2>2. \A n \in Names : node[n] <= Version(KeyOf[n])'
    BY <1>0, <1>6, <1>7, <2>1 DEF Recorded, Grows
  <2> QED
    BY <1>0, <1>1, <2>2 DEF Recorded, Wanted
<1>10. /\ Tables' /\ Columns' /\ RowsKept' /\ Learned' /\ Said' /\ Batch' = Batch
       /\ Facts(disk)' = Facts(disk) /\ Facts(cache)' = Facts(cache)
  BY <1>0, <1>1, MergeUntouched DEF mergeState
<1>11. Truthful'
  BY <1>0, <1>1, <1>7, <1>10, TruthKept
<1> QED
  BY <1>8, <1>9, <1>10, <1>11 DEF IInv

\* Nothing grows when nothing of the world changes.
LEMMA StillWorld ==
  ASSUME Typed, contents' = contents, unread' = unread
  PROVE  Grows
BY CacheAssumption DEF Typed, TypeOK, Grows, Version

\* A search begins, with the cache as it is on disk or without one.
LEMMA StartStep ==
  ASSUME IInv, NEW q \in Queries, Start(q)
  PROVE  IInv'
<1>0. Typed /\ Tables /\ Recorded /\ Columns /\ RowsKept /\ Learned /\ Said /\ Truthful
  BY DEF IInv
<1>1. /\ pc = "idle" /\ searches < MaxSearches /\ cache' \in {disk, EmptyTable}
      /\ lookup' \in Lookups(cache') /\ pc' = "searching" /\ query' = q
      /\ todo' = Names /\ searches' = searches + 1
      /\ UNCHANGED <<contents, disk, node, pending, present, skipped, unread,
                     table, slotOf, toPlace, toApply>>
  BY DEF Start, mergeVars
<1>2. /\ pending = {} /\ skipped = {} /\ query = NoQuery /\ toPlace = {} /\ toApply = {}
      /\ \A n \in Names : node[n] = 0 /\ present[n] = {}
  BY <1>0, <1>1, RequiredWords DEF Recorded, Wanted
<1>3. Typed'
  <2>1. searches' \in 0..MaxSearches
    BY <1>0, <1>1, CacheAssumption DEF Typed, TypeOK
  <2>2. cache' \in Table /\ TableOK(cache')
    BY <1>0, <1>1, EmptyIsTable DEF Typed, TypeOK
  <2>3. \A f \in Files : Version(f)' = Version(f)
    BY <1>1 DEF Version
  <2>4. TableOK(disk)' /\ TableOK(cache)' /\ TableOK(table)'
    BY <1>0, <1>1, <2>2 DEF Typed, TypeOK, TableOK
  <2>5. TypeOK'
    BY <1>0, <1>1, <2>1, <2>3, <2>4 DEF Typed, TypeOK, Lookups
  <2> QED
    BY <1>0, <1>1, <2>2, <2>5 DEF Typed
<1>4. Tables'
  <2>1. WellFormed(cache')
    BY <1>0, <1>1, EmptyIsTable DEF Tables
  <2> QED
    BY <1>0, <1>1, <2>1 DEF Tables, WellFormed
<1>5. Recorded'
  BY <1>0, <1>1, <1>2 DEF Recorded, Version
<1>6. Columns' /\ RowsKept' /\ Learned' /\ Said'
  BY <1>1, NotMerging
<1>7. Truthful'
  <2>1. Grows /\ Batch' = {} /\ Facts(disk)' = Facts(disk)
    BY <1>0, <1>1, <1>2, StillWorld DEF Batch, Facts
  <2>2. ASSUME NEW f \in Files, NEW v \in 1..MaxVersions, NEW w \in Words,
               <<f, v, w>> \in (Facts(disk) \union Batch)'
        PROVE  Honest(f, v, w)'
    <3>1. Honest(f, v, w)
      BY <1>0, <2>1, <2>2 DEF Truthful
    <3> QED
      BY <2>1, <3>1, HonestKept
  <2>3. ASSUME NEW n \in Names, NEW w \in Words,
               <<KeyOf[n], 0, w>> \in Facts(cache')
        PROVE  FALSE
    <3>1. Facts(cache') \subseteq Files \X (1..MaxVersions) \X Words
      BY <1>3, <1>4, FactsTyped DEF Typed, Tables
    <3>2. 0 \notin 1..MaxVersions
      BY CacheAssumption
    <3> QED
      BY <2>3, <3>1, <3>2
  <2>4. Facts(cache)' = Facts(cache')
    BY DEF Facts
  <2> QED
    BY <1>1, <1>2, <2>2, <2>3, <2>4 DEF Truthful, SkippedLacks
<1> QED
  BY <1>3, <1>4, <1>5, <1>6, <1>7 DEF IInv

\* The inode of a file is read.
LEMMA StatStep ==
  ASSUME IInv, NEW n \in Names, Stat(n)
  PROVE  IInv'
<1>0. Typed /\ Tables /\ Recorded /\ Columns /\ RowsKept /\ Learned /\ Said /\ Truthful
  BY DEF IInv
<1>1. /\ pc = "searching" /\ n \in todo /\ node[n] = 0
      /\ node' = [node EXCEPT ![n] = Version(KeyOf[n])]
      /\ UNCHANGED <<contents, disk, cache, lookup, pc, query, todo, pending,
                     present, skipped, unread, table, slotOf, toPlace, toApply,
                     searches>>
  BY DEF Stat, mergeVars
<1>2. /\ \A m \in Names : KeyOf[m] \in Files /\ Version(KeyOf[m]) \in 1..MaxVersions
      /\ node \in [Names -> 0..MaxVersions] /\ MaxVersions \in Nat
      /\ n \notin pending /\ n \notin skipped
  BY <1>0, <1>1, CacheAssumption DEF Typed, TypeOK, Recorded
<1>3. /\ node' \in [Names -> 0..MaxVersions] /\ node'[n] = Version(KeyOf[n])
      /\ \A m \in Names \ {n} : node'[m] = node[m]
      /\ \A f \in Files : Version(f)' = Version(f)
  BY <1>1, <1>2 DEF Version
<1>4. Typed'
  <2>1. TypeOK'
    BY <1>0, <1>1, <1>3 DEF Typed, TypeOK, TableOK, Lookups
  <2> QED
    BY <1>0, <1>1, <2>1 DEF Typed
<1>5. Tables'
  BY <1>0, <1>1 DEF Tables, WellFormed
<1>6. Recorded'
  <2>1. \A m \in Names : node'[m] <= Version(KeyOf[m])'
    BY <1>0, <1>2, <1>3 DEF Recorded
  <2>2. pending \subseteq Names /\ skipped \subseteq Names
    BY <1>0 DEF Typed, TypeOK
  <2>3. \A m \in pending \union skipped : node'[m] # 0
    BY <1>0, <1>2, <1>3, <2>2 DEF Recorded
  <2> QED
    BY <1>0, <1>1, <2>1, <2>3 DEF Recorded, Wanted
<1>7. Columns' /\ RowsKept' /\ Learned' /\ Said'
  BY <1>1, NotMerging
<1>8. Truthful'
  <2>1. Grows /\ Facts(disk)' = Facts(disk) /\ Facts(cache)' = Facts(cache)
    BY <1>0, <1>1, StillWorld DEF Facts
  <2>2. Batch' = Batch
    <3>1. \A m \in pending : node'[m] = node[m]
      BY <1>0, <1>2, <1>3 DEF Typed, TypeOK
    <3> QED
      BY <1>1, <3>1 DEF Batch, Wanted
  <2>3. ASSUME NEW f \in Files, NEW v \in 1..MaxVersions, NEW w \in Words,
               <<f, v, w>> \in (Facts(disk) \union Batch)'
        PROVE  Honest(f, v, w)'
    BY <1>0, <2>1, <2>2, <2>3, HonestKept DEF Truthful
  <2>4. ASSUME NEW m \in Names, NEW w \in Words,
               <<KeyOf[m], node'[m], w>> \in Facts(cache)
        PROVE  Lacks(KeyOf[m], node'[m], w)
    <3>1. CASE m # n
      BY <1>0, <1>3, <2>4, <3>1 DEF Truthful
    <3>2. CASE m = n
      <4>1. cache \in {disk, EmptyTable}
        BY <1>0, <1>1 DEF Tables
      <4>2. Facts(cache) \subseteq Facts(disk)
        BY <4>1, EmptyIsTable
      <4>3. Honest(KeyOf[n], Version(KeyOf[n]), w)
        BY <1>0, <1>2, <1>3, <2>4, <3>2, <4>2 DEF Truthful
      <4> QED
        BY <1>2, <1>3, <3>2, <4>3 DEF Honest
    <3> QED
      BY <3>1, <3>2
  <2>5. SkippedLacks'
    <3>1. \A m \in skipped : node'[m] = node[m]
      BY <1>0, <1>2, <1>3 DEF Typed, TypeOK
    <3> QED
      BY <1>0, <1>1, <3>1 DEF Truthful, SkippedLacks
  <2>6. \A m \in Names, w \in Words :
          <<KeyOf[m], node'[m], w>> \in Facts(cache)' => Lacks(KeyOf[m], node[m], w)'
    BY <1>1, <2>1, <2>4 DEF Lacks
  <2> QED
    BY <2>3, <2>5, <2>6 DEF Truthful
<1> QED
  BY <1>4, <1>5, <1>6, <1>7, <1>8 DEF IInv

\* A name passed over because of the cache: the claim it rests on is about the
\* very version whose inode was read.
LEMMA SkipStep ==
  ASSUME IInv, NEW n \in Names, Skip(n) \/ PassOver(n)
  PROVE  IInv'
<1>0. Typed /\ Tables /\ Recorded /\ Columns /\ RowsKept /\ Learned /\ Said /\ Truthful
  BY DEF IInv
<1>1. /\ pc = "searching" /\ n \in todo /\ node[n] # 0 /\ todo' = todo \ {n}
      /\ skipped' = IF Skip(n) THEN skipped \union {n} ELSE skipped
      /\ Skip(n) => CanSkip(n)
      /\ UNCHANGED <<contents, disk, cache, lookup, pc, query, node, pending,
                     present, unread, table, slotOf, toPlace, toApply, searches>>
  BY DEF Skip, PassOver, mergeVars
<1>2. skipped' \in {skipped, skipped \union {n}}
  BY <1>1
<1>3. Typed'
  <2>1. \A f \in Files : Version(f)' = Version(f)
    BY <1>1 DEF Version
  <2>2. TypeOK'
    BY <1>0, <1>1, <1>2, <2>1 DEF Typed, TypeOK, TableOK, Lookups
  <2> QED
    BY <1>0, <1>1, <2>2 DEF Typed
<1>4. Recorded'
  BY <1>0, <1>1, <1>2 DEF Recorded, Version, Wanted
<1>5. /\ Tables' /\ Columns' /\ RowsKept' /\ Learned' /\ Said' /\ Batch' = Batch
      /\ Facts(disk)' = Facts(disk) /\ Facts(cache)' = Facts(cache)
  BY <1>0, <1>1, MergeUntouched DEF mergeState
<1>6. Truthful'
  <2>1. ASSUME Skip(n)
        PROVE  \/ <<KeyOf[n], node[n]>> \in unread
               \/ ~(Required(query) \subseteq contents[KeyOf[n]][node[n]].words)
    <3> DEFINE id == lookup[KeyOf[n]]
    <3>1. PICK s \in cache.rows[id].absent : cache.hashes[s] \in Required(query)
      BY <1>1, <2>1 DEF CanSkip
    <3>2. id # 0 /\ cache.rows[id].meta = node[n]
      BY <1>1, <2>1 DEF CanSkip
    <3>3. /\ KeyOf[n] \in Files /\ cache \in Table
          /\ lookup \in [Files -> 0..Len(cache.rows)]
          /\ \A f \in Files : lookup[f] # 0 => cache.rows[lookup[f]].key = f
      BY <1>0, CacheAssumption DEF Typed, TypeOK, Lookups
    <3>4. id \in DOMAIN cache.rows /\ cache.rows[id].key = KeyOf[n]
      BY <3>2, <3>3, TableFields
    <3>5. <<KeyOf[n], node[n], cache.hashes[s]>> \in Facts(cache)
      BY <3>1, <3>2, <3>4, FactsAre
    <3>6. cache.hashes[s] \in Words
      BY <1>0, <3>3, <3>5, FactsTyped DEF Tables
    <3>7. Lacks(KeyOf[n], node[n], cache.hashes[s])
      BY <1>0, <3>5, <3>6 DEF Truthful
    <3> QED
      BY <3>1, <3>7 DEF Lacks
  <2>2. SkippedLacks'
    BY <1>0, <1>1, <2>1 DEF Truthful, SkippedLacks
  <2>3. \A f \in Files, v \in 1..MaxVersions, w \in Words :
          (Honest(f, v, w)' <=> Honest(f, v, w))
    BY <1>1 DEF Honest, Lacks, Version
  <2>4. \A m \in Names, w \in Words :
          (Lacks(KeyOf[m], node[m], w)' <=> Lacks(KeyOf[m], node[m], w))
    BY <1>1 DEF Lacks
  <2> QED
    BY <1>0, <1>1, <1>5, <2>2, <2>3, <2>4 DEF Truthful
<1> QED
  BY <1>3, <1>4, <1>5, <1>6 DEF IInv

\* A word the batch claims absent was not in the buffer: the fragments of a
\* pattern without case are in lower case, and so compare with a lowered buffer.
LEMMA AbsentFromBuffer ==
  ASSUME Typed, NEW words, NEW w \in Wanted \ Presence(words)
  PROVE  w \notin words
<1>1. w \in Required(query) /\ w \notin Seen(query, words)
  BY DEF Wanted, Presence
<1>2. CASE query.fold
  <2>1. query \in Queries
    BY <1>1, RequiredWords DEF Typed, TypeOK
  <2>2. Lower[w] = w
    BY <1>1, <1>2, <2>1, CacheAssumption DEF Required
  <2> QED
    BY <1>1, <1>2, <2>2 DEF Seen
<1>3. CASE ~query.fold
  BY <1>1, <1>3 DEF Seen
<1> QED
  BY <1>2, <1>3

\* A name is recorded, from the whole of the file as it is now or with a note
\* that the buffer did not hold it all.
LEMMA RecordStep ==
  ASSUME IInv, NEW n \in Names, NEW words, Record(n, words),
         \/ words = Current(KeyOf[n]).words /\ unread' = unread
         \/ unread' = unread \union {<<KeyOf[n], node[n]>>}
  PROVE  IInv'
<1>0. Typed /\ Tables /\ Recorded /\ Columns /\ RowsKept /\ Learned /\ Said /\ Truthful
  BY DEF IInv
<1>1. /\ pc = "searching" /\ n \in todo /\ node[n] # 0 /\ todo' = todo \ {n}
      /\ pending' = pending \union {n}
      /\ present' = [present EXCEPT ![n] = Presence(words)]
      /\ UNCHANGED <<contents, disk, cache, lookup, pc, query, node, skipped,
                     table, slotOf, toPlace, toApply, searches>>
  BY DEF Record, mergeVars
<1>2. /\ n \notin pending /\ n \notin skipped /\ KeyOf[n] \in Files
      /\ node[n] \in 1..MaxVersions /\ node[n] <= Version(KeyOf[n])
      /\ Version(KeyOf[n]) \in Nat /\ Wanted \subseteq Words
  <2>1. /\ n \notin pending /\ n \notin skipped /\ node[n] <= Version(KeyOf[n])
        /\ node[n] \in 0..MaxVersions /\ KeyOf[n] \in Files /\ MaxVersions \in Nat
    BY <1>0, <1>1, CacheAssumption DEF Typed, TypeOK, Recorded
  <2>2. Version(KeyOf[n]) \in 1..MaxVersions
    BY <1>0, <2>1 DEF Typed, TypeOK
  <2>3. Wanted \subseteq Words
    BY <1>0, RequiredWords DEF Typed, TypeOK, Wanted
  <2> QED
    BY <1>1, <2>1, <2>2, <2>3
<1>3. /\ Presence(words) \subseteq Wanted
      /\ present \in [Names -> SUBSET Words]
      /\ present' \in [Names -> SUBSET Words]
      /\ \A m \in Names : present'[m] = IF m = n THEN Presence(words) ELSE present[m]
  <2>1. Presence(words) \subseteq Wanted
    BY DEF Presence, Wanted
  <2>2. present \in [Names -> SUBSET Words]
    BY <1>0 DEF Typed, TypeOK
  <2>3. Presence(words) \in SUBSET Words
    BY <1>2, <2>1
  <2>4. present' \in [Names -> SUBSET Words]
    BY <1>1, <2>2, <2>3
  <2>5. \A m \in Names : present'[m] = IF m = n THEN Presence(words) ELSE present[m]
    BY <1>1, <2>2
  <2> QED
    BY <2>1, <2>2, <2>4, <2>5
<1>4. unread' \subseteq unread \union {<<KeyOf[n], node[n]>>} /\ unread \subseteq unread'
  OBVIOUS
<1>5. Typed'
  <2>1. \A f \in Files : Version(f)' = Version(f)
    BY <1>1 DEF Version
  <2>2. unread' \subseteq Files \X (1..MaxVersions)
    <3>1. <<KeyOf[n], node[n]>> \in Files \X (1..MaxVersions)
      BY <1>2
    <3> QED
      BY <1>0, <1>4, <3>1 DEF Typed, TypeOK
  <2>3. TableOK(disk)' /\ TableOK(cache)' /\ TableOK(table)' /\ lookup' \in Lookups(cache)'
    BY <1>0, <1>1 DEF Typed, TypeOK, TableOK, Lookups
  <2>4. todo' \subseteq Names /\ pending' \subseteq Names
    BY <1>0, <1>1 DEF Typed, TypeOK
  <2>5. TypeOK'
    BY <1>0, <1>1, <1>3, <2>1, <2>2, <2>3, <2>4 DEF Typed, TypeOK
  <2> QED
    BY <1>0, <1>1, <2>5 DEF Typed
<1>6. Tables'
  BY <1>0, <1>1 DEF Tables, WellFormed
<1>7. Recorded'
  <2>1. \A m \in Names : present'[m] \subseteq Wanted
    BY <1>0, <1>3 DEF Recorded
  <2> QED
    BY <1>0, <1>1, <2>1 DEF Recorded, Version, Wanted
<1>8. Columns' /\ RowsKept' /\ Learned' /\ Said'
  BY <1>1, NotMerging
<1>9. Grows
  BY <1>0, <1>1, <1>4, CacheAssumption DEF Typed, TypeOK, Grows, Version
<1>10. Truthful'
  <2>1. Facts(disk)' = Facts(disk) /\ Facts(cache)' = Facts(cache)
    BY <1>1 DEF Facts
  <2>2. \A x \in Batch' : x \in Batch
          \/ \E w \in Wanted \ Presence(words) : x = <<KeyOf[n], node[n], w>>
    <3> SUFFICES ASSUME NEW m \in pending \union {n}, NEW w \in Wanted \ present'[m]
                 PROVE  \/ <<KeyOf[m], node[m], w>> \in Batch
                        \/ m = n /\ w \in Wanted \ Presence(words)
      BY <1>1 DEF Batch, Wanted
    <3>1. CASE m = n
      BY <1>3, <3>1
    <3>2. CASE m \in pending /\ m # n
      <4>1. m \in Names
        BY <1>0, <3>2 DEF Typed, TypeOK
      <4>2. w \in Wanted \ present[m]
        BY <1>3, <3>2, <4>1
      <4> QED
        BY <3>2, <4>2 DEF Batch
    <3> QED
      BY <3>1, <3>2
  <2>3. ASSUME NEW f, NEW v, NEW w \in Wanted \ Presence(words),
               f = KeyOf[n], v = node[n]
        PROVE  Honest(f, v, w)'
    <3>1. \/ <<KeyOf[n], node[n]>> \in unread'
          \/ w \notin Current(KeyOf[n]).words
      BY <1>0, <2>3, AbsentFromBuffer
    <3>2. \/ <<KeyOf[n], node[n]>> \in unread'
          \/ w \notin contents[KeyOf[n]][Version(KeyOf[n])].words
      BY <3>1 DEF Current
    <3> QED
      BY <1>1, <1>2, <2>3, <3>2 DEF Honest, Lacks, Version
  <2>4. ASSUME NEW f \in Files, NEW v \in 1..MaxVersions, NEW w \in Words,
               <<f, v, w>> \in (Facts(disk) \union Batch)'
        PROVE  Honest(f, v, w)'
    <3>1. CASE <<f, v, w>> \in Facts(disk) \union Batch
      BY <1>0, <1>9, <3>1, HonestKept DEF Truthful
    <3>2. CASE \E u \in Wanted \ Presence(words) : <<f, v, w>> = <<KeyOf[n], node[n], u>>
      BY <2>3, <3>2
    <3> QED
      BY <2>1, <2>2, <2>4, <3>1, <3>2
  <2>5. ASSUME NEW m \in Names, NEW w \in Words,
               <<KeyOf[m], node[m], w>> \in Facts(cache)
        PROVE  Lacks(KeyOf[m], node[m], w)'
    BY <1>0, <1>1, <1>4, <2>5 DEF Truthful, Lacks
  <2>6. SkippedLacks'
    BY <1>0, <1>1, <1>4 DEF Truthful, SkippedLacks
  <2> QED
    BY <1>1, <2>1, <2>4, <2>5, <2>6 DEF Truthful
<1> QED
  BY <1>5, <1>6, <1>7, <1>8, <1>10 DEF IInv

\* The data of a file is read and its fragments are recorded.
LEMMA ReadStep ==
  ASSUME IInv, NEW n \in Names, ReadWhole(n) \/ ReadShort(n) \/ ReadRejected(n)
  PROVE  IInv'
<1>1. CASE ReadWhole(n)
  BY <1>1, RecordStep DEF ReadWhole
<1>2. CASE ReadShort(n)
  BY <1>2, RecordStep DEF ReadShort
<1>3. CASE ReadRejected(n)
  BY <1>3, RecordStep DEF ReadRejected
<1> QED
  BY <1>1, <1>2, <1>3

-----------------------------------------------------------------------------
(* The merge.                                                              *)

\* The batch's table is the loaded one, and the columns it has already are
\* found in it.
LEMMA BeginMergeStep ==
  ASSUME IInv, BeginMerge
  PROVE  IInv'
<1>0. Typed /\ Tables /\ Recorded /\ Columns /\ RowsKept /\ Learned /\ Said /\ Truthful
  BY DEF IInv
<1>1. /\ pc = "searching" /\ pc' = "merging" /\ table' = cache
      /\ slotOf' = [w \in Words |-> IF w \in Wanted /\ HasColumn(cache, w)
                                    THEN ColumnOf(cache, w) ELSE 0]
      /\ toPlace' = {w \in Wanted : ~HasColumn(cache, w)}
      /\ toApply' = pending
      /\ UNCHANGED <<contents, disk, cache, lookup, query, node, todo, pending,
                     present, skipped, unread, searches>>
  BY DEF BeginMerge, searchVars, Wanted
<1>2. /\ cache \in Table /\ DOMAIN cache.hashes = 1..Len(cache.hashes)
      /\ Len(cache.hashes) <= MaxFragments /\ Len(cache.hashes) \in Nat
      /\ Len(cache.rows) \in Nat /\ MaxFragments \in Nat /\ Wanted \subseteq Words
      /\ Wanted' = Wanted /\ pending \subseteq Names
  BY <1>0, <1>1, TableFields, CacheAssumption, RequiredWords
     DEF Typed, TypeOK, TableOK, Wanted
<1>3. \A w \in Words : HasColumn(cache, w) =>
        ColumnOf(cache, w) \in DOMAIN cache.hashes /\ cache.hashes[ColumnOf(cache, w)] = w
  BY DEF HasColumn, ColumnOf
<1>4. \A w \in Words :
        slotOf'[w] = IF w \in Wanted /\ HasColumn(cache, w) THEN ColumnOf(cache, w) ELSE 0
  BY <1>1
<1>5. slotOf' \in [Words -> 0..MaxFragments]
  <2>1. \A w \in Words : HasColumn(cache, w) => ColumnOf(cache, w) \in 0..MaxFragments
    BY <1>2, <1>3
  <2>2. 0 \in 0..MaxFragments
    BY <1>2
  <2> QED
    BY <1>1, <2>1, <2>2
<1>6. Typed'
  <2>1. \A f \in Files : Version(f)' = Version(f)
    BY <1>1 DEF Version
  <2>2. TableOK(disk)' /\ TableOK(cache)' /\ TableOK(table)'
    BY <1>0, <1>1 DEF Typed, TypeOK, TableOK
  <2>3. TypeOK'
    BY <1>0, <1>1, <1>2, <1>5, <2>1, <2>2 DEF Typed, TypeOK, Lookups
  <2> QED
    BY <1>0, <1>1, <2>3 DEF Typed
<1>7. Tables'
  BY <1>0, <1>1 DEF Tables, WellFormed
<1>8. Recorded'
  BY <1>0, <1>1, <1>2 DEF Recorded, Version
<1>9. Columns'
  <2>1. \A w \in Words : slotOf'[w] # 0 =>
          w \in Wanted /\ slotOf'[w] \in DOMAIN cache.hashes /\ cache.hashes[slotOf'[w]] = w
    BY <1>3, <1>4
  <2>2. \A w \in toPlace' : slotOf'[w] = 0 /\ ~HasColumn(cache, w)
    BY <1>1, <1>2, <1>4
  <2>3. \A w \in Wanted \ toPlace' : slotOf'[w] # 0
    BY <1>1, <1>2, <1>3, <1>4
  <2> QED
    BY <1>1, <1>2, <2>1, <2>2, <2>3 DEF Columns, HasColumn
<1>10. RowsKept'
  BY <1>1, <1>2 DEF RowsKept
<1>11. Learned' /\ Said'
  BY <1>1 DEF Learned, Said, Facts
<1>12. Truthful'
  <2>1. Batch' = Batch /\ Facts(disk)' = Facts(disk) /\ Facts(cache)' = Facts(cache)
    BY <1>1, <1>2 DEF Batch, Facts
  <2>2. Grows
    BY <1>0, <1>1, StillWorld
  <2> QED
    BY <1>0, <1>1, <2>1, <2>2, TruthKept
<1> QED
  BY <1>6, <1>7, <1>8, <1>9, <1>10, <1>11, <1>12 DEF IInv

\* The search ends: its table is dropped, and the file is as before or is the
\* table of a merge, which claims no more than the file before and the batch.
LEMMA DropStep ==
  ASSUME IInv, DropSearch, disk' = disk \/ (disk' = table /\ pc = "merging")
  PROVE  IInv' /\ Facts(disk') \subseteq Facts(disk) \union Batch
<1>0. Typed /\ Tables /\ Recorded /\ Columns /\ RowsKept /\ Learned /\ Said /\ Truthful
  BY DEF IInv
<1>1. /\ pc' = "idle" /\ query' = NoQuery /\ cache' = EmptyTable /\ table' = EmptyTable
      /\ lookup' = [f \in Files |-> 0] /\ node' = [n \in Names |-> 0]
      /\ todo' = {} /\ pending' = {} /\ skipped' = {}
      /\ present' = [n \in Names |-> {}] /\ slotOf' = [w \in Words |-> 0]
      /\ toPlace' = {} /\ toApply' = {}
      /\ UNCHANGED <<contents, unread, searches>>
  BY DEF DropSearch
<1>2. /\ disk' \in Table /\ TableOK(disk') /\ WellFormed(disk')
      /\ EmptyTable \in Table /\ TableOK(EmptyTable) /\ WellFormed(EmptyTable)
      /\ Facts(EmptyTable) = {}
  BY <1>0, EmptyIsTable DEF Typed, TypeOK, Tables
<1>3. Facts(disk') \subseteq Facts(disk) \union Batch
  <2>1. CASE disk' = disk
    BY <2>1
  <2>2. CASE disk' = table /\ pc = "merging"
    <3>1. cache \in {disk, EmptyTable}
      BY <1>0, <2>2 DEF Tables
    <3>2. Facts(cache) \subseteq Facts(disk)
      BY <1>2, <3>1
    <3> QED
      BY <1>0, <2>2, <3>2 DEF Learned
  <2> QED
    BY <2>1, <2>2
<1>4. Typed'
  <2>1. \A f \in Files : Version(f)' = Version(f)
    BY <1>1 DEF Version
  <2>2. TableOK(disk)' /\ TableOK(cache)' /\ TableOK(table)'
    BY <1>1, <1>2 DEF TableOK
  <2>3. /\ lookup' \in Lookups(cache)' /\ node' \in [Names -> 0..MaxVersions]
        /\ slotOf' \in [Words -> 0..MaxFragments]
        /\ present' \in [Names -> SUBSET Words]
    <3>1. 0 \in 0..MaxVersions /\ 0 \in 0..MaxFragments
      BY CacheAssumption
    <3>2. 0 \in 0..Len(cache'.rows)
      BY <1>1, <1>2, TableFields
    <3> QED
      BY <1>1, <3>1, <3>2 DEF Lookups
  <2>4. TypeOK'
    BY <1>0, <1>1, <2>1, <2>2, <2>3 DEF Typed, TypeOK
  <2> QED
    BY <1>1, <1>2, <2>4 DEF Typed
<1>5. Tables'
  BY <1>1, <1>2 DEF Tables, WellFormed
<1>6. Recorded'
  <2>1. \A n \in Names : KeyOf[n] \in Files /\ Version(KeyOf[n])' \in Nat
    BY <1>0, <1>1, CacheAssumption DEF Typed, TypeOK, Version
  <2>2. \A n \in Names : node'[n] <= Version(KeyOf[n])'
    BY <1>1, <2>1
  <2> QED
    BY <1>1, <2>2 DEF Recorded
<1>7. Columns' /\ RowsKept' /\ Learned' /\ Said'
  BY <1>1, NotMerging
<1>8. Truthful'
  <2>1. /\ Batch' = {} /\ Facts(cache)' = {} /\ Facts(disk)' = Facts(disk')
    BY <1>1, <1>2 DEF Batch, Facts
  <2>2. Grows
    BY <1>0, <1>1, StillWorld
  <2>3. ASSUME NEW f \in Files, NEW v \in 1..MaxVersions, NEW w \in Words,
               <<f, v, w>> \in (Facts(disk) \union Batch)'
        PROVE  Honest(f, v, w)'
    BY <1>0, <1>3, <2>1, <2>2, <2>3, HonestKept DEF Truthful
  <2> QED
    BY <1>1, <2>1, <2>3 DEF Truthful, SkippedLacks
<1>9. IInv'
  BY <1>4, <1>5, <1>6, <1>7, <1>8 DEF IInv
<1> QED
  BY <1>3, <1>9

\* A column for a word of the batch.  A claim the table made of another word
\* in that column is gone, so the table claims less.
LEMMA PlaceStep ==
  ASSUME IInv, NEW w \in Words, Place(w)
  PROVE  IInv'
<1>0. Typed /\ Tables /\ Recorded /\ Columns /\ RowsKept /\ Learned /\ Said /\ Truthful
  BY DEF IInv
<1>1. /\ pc = "merging" /\ w \in toPlace /\ toPlace' = toPlace \ {w}
      /\ UNCHANGED <<contents, disk, cache, lookup, pc, query, node, todo, pending,
                     present, skipped, unread, toApply, searches>>
  BY DEF Place, searchVars
<1>2. Placed(w)
  BY <1>0, PlacingStep
<1>3. /\ Wanted' = Wanted /\ Wanted \subseteq Words /\ toPlace \subseteq Wanted
      /\ slotOf \in [Words -> 0..MaxFragments] /\ toApply = pending
      /\ slotOf[w] = 0 /\ table \in Table
      /\ DOMAIN table.rows = 1..Len(table.rows) /\ DOMAIN cache.rows = 1..Len(cache.rows)
      /\ Len(table.rows) \in Nat /\ Len(cache.rows) \in Nat
      /\ Len(cache.rows) <= Len(table.rows)
  <2>1. Wanted' = Wanted /\ Wanted \subseteq Words
    BY <1>0, <1>1, RequiredWords DEF Typed, TypeOK, Wanted
  <2>2. table \in Table /\ cache \in Table /\ slotOf \in [Words -> 0..MaxFragments]
    BY <1>0 DEF Typed, TypeOK
  <2>3. /\ DOMAIN table.rows = 1..Len(table.rows) /\ DOMAIN cache.rows = 1..Len(cache.rows)
        /\ Len(table.rows) \in Nat /\ Len(cache.rows) \in Nat
    BY <2>2, TableFields
  <2> QED
    BY <1>0, <1>1, <2>1, <2>2, <2>3 DEF Columns, RowsKept
<1>4. Recorded'
  BY <1>0, <1>1 DEF Recorded, Version, Wanted
<1>5. Said'
  BY <1>1, <1>3 DEF Said
<1>6. Truthful'
  <2>1. Batch' = Batch /\ Facts(disk)' = Facts(disk) /\ Facts(cache)' = Facts(cache)
    BY <1>1, <1>3 DEF Batch, Facts
  <2> QED
    BY <1>0, <1>1, <2>1, StillWorld, TruthKept
<1>7. CASE UNCHANGED <<table, slotOf>> /\ Slots \subseteq Pinned
  <2>1. Typed'
    <3>1. \A f \in Files : Version(f)' = Version(f)
      BY <1>1 DEF Version
    <3>2. TypeOK'
      BY <1>0, <1>1, <1>7, <3>1 DEF Typed, TypeOK, TableOK, Lookups
    <3> QED
      BY <1>0, <1>1, <1>7, <3>2 DEF Typed
  <2>2. Tables'
    BY <1>0, <1>1, <1>7 DEF Tables, WellFormed
  <2>3. Pinned' = Pinned
    BY <1>7 DEF Pinned
  <2>4. Columns'
    BY <1>0, <1>1, <1>3, <1>7, <2>3 DEF Columns, HasColumn
  <2>5. RowsKept'
    BY <1>0, <1>1, <1>7, <2>3 DEF RowsKept
  <2>6. Facts(table)' = Facts(table) /\ Facts(cache)' = Facts(cache) /\ Batch' = Batch
    BY <1>1, <1>3, <1>7 DEF Facts, Batch
  <2>7. Learned'
    BY <1>0, <1>1, <2>6 DEF Learned
  <2> QED
    BY <1>4, <1>5, <1>6, <2>1, <2>2, <2>4, <2>5, <2>7 DEF IInv
<1>8. ASSUME NEW s \in Slots, s \notin Pinned,
             slotOf' = [slotOf EXCEPT ![w] = s],
             table' \in Table, Len(table'.hashes) <= MaxFragments,
             DOMAIN table'.hashes = DOMAIN table.hashes \union {s},
             table'.hashes[s] = w,
             \A r \in DOMAIN table.hashes \ {s} : table'.hashes[r] = table.hashes[r],
             Len(table'.rows) = Len(table.rows),
             \A i \in DOMAIN table.rows :
               /\ table'.rows[i].key = table.rows[i].key
               /\ table'.rows[i].meta = table.rows[i].meta
               /\ table'.rows[i].absent = table.rows[i].absent \ {s}
      PROVE  IInv'
  <2>1. \A v \in Words : slotOf'[v] = IF v = w THEN s ELSE slotOf[v]
    BY <1>3, <1>8
  <2>2. \A v \in Words : slotOf[v] # s
    BY <1>8 DEF Pinned
  <2>3. DOMAIN table'.rows = DOMAIN table.rows
    BY <1>3, <1>8, TableFields
  <2>4. s # 0
    BY CacheAssumption DEF Slots
  <2>5. Typed'
    <3>1. \A f \in Files : Version(f)' = Version(f)
      BY <1>1 DEF Version
    <3>2. TableOK(disk)' /\ TableOK(cache)' /\ TableOK(table)'
      BY <1>0, <1>1, <1>8, TableFields DEF Typed, TypeOK, TableOK
    <3>3. slotOf' \in [Words -> 0..MaxFragments]
      BY <1>3, <1>8, CacheAssumption DEF Slots
    <3>4. TypeOK'
      BY <1>0, <1>1, <3>1, <3>2, <3>3 DEF Typed, TypeOK, Lookups
    <3> QED
      BY <1>0, <1>1, <1>8, <3>4 DEF Typed
  <2>6. \A i \in DOMAIN table.rows : table.rows[i].absent \subseteq DOMAIN table.hashes
    BY <1>0 DEF Tables, WellFormed
  <2>7. ~HasColumn(table, w)
    BY <1>0, <1>1 DEF Columns
  <2>8. Tables'
    <3>1. \A i \in DOMAIN table'.rows : table'.rows[i].absent \subseteq DOMAIN table'.hashes
      BY <1>8, <2>3, <2>6
    <3>2. \A q, r \in DOMAIN table'.hashes : table'.hashes[q] = table'.hashes[r] => q = r
      BY <1>0, <1>8, <2>7 DEF Tables, WellFormed, HasColumn
    <3>3. WellFormed(table')
      BY <3>1, <3>2 DEF WellFormed
    <3> QED
      BY <1>0, <1>1, <3>3 DEF Tables, WellFormed
  <2>9. Columns'
    <3>1. ASSUME NEW v \in toPlace \ {w}
          PROVE  slotOf'[v] = 0 /\ ~HasColumn(table', v)
      <4>1. v \in Words /\ slotOf[v] = 0 /\ ~HasColumn(table, v)
        BY <1>0, <1>1, <1>3 DEF Columns
      <4> QED
        BY <1>8, <2>1, <4>1 DEF HasColumn
    <3>2. ASSUME NEW v \in Words, slotOf'[v] # 0
          PROVE  /\ v \in Wanted /\ slotOf'[v] \in DOMAIN table'.hashes
                 /\ table'.hashes[slotOf'[v]] = v
      <4>1. CASE v = w
        BY <1>1, <1>3, <1>8, <2>1, <4>1
      <4>2. CASE v # w
        <5>1. slotOf'[v] = slotOf[v] /\ slotOf[v] # s
          BY <2>1, <2>2, <4>2
        <5>2. v \in Wanted /\ slotOf[v] \in DOMAIN table.hashes /\ table.hashes[slotOf[v]] = v
          BY <1>0, <1>1, <3>2, <5>1 DEF Columns
        <5> QED
          BY <1>8, <5>1, <5>2
      <4> QED
        BY <4>1, <4>2
    <3>3. ASSUME NEW v \in Wanted \ (toPlace \ {w}) PROVE slotOf'[v] # 0
      <4>1. CASE v = w
        BY <1>3, <2>1, <2>4, <4>1
      <4>2. CASE v # w
        <5>1. slotOf[v] # 0
          BY <1>0, <1>1, <1>8, <4>2 DEF Columns
        <5> QED
          BY <1>3, <2>1, <4>2, <5>1
      <4> QED
        BY <4>1, <4>2
    <3> QED
      BY <1>1, <1>3, <3>1, <3>2, <3>3 DEF Columns, HasColumn
  <2>10. RowsKept'
    <3>1. \A i \in DOMAIN cache.rows :
            table'.rows[i].key = cache.rows[i].key /\ table'.rows[i].meta = cache.rows[i].meta
      BY <1>0, <1>1, <1>3, <1>8 DEF RowsKept
    <3> QED
      BY <1>1, <1>3, <1>8, <3>1 DEF RowsKept
  <2>11. Learned'
    <3>1. ASSUME NEW i \in DOMAIN table'.rows, NEW b \in table'.rows[i].absent
          PROVE  <<table'.rows[i].key, table'.rows[i].meta, table'.hashes[b]>> \in Facts(table)
      <4>1. /\ i \in DOMAIN table.rows /\ b \in table.rows[i].absent /\ b # s
            /\ b \in DOMAIN table.hashes
        BY <1>8, <2>3, <2>6, <3>1
      <4>2. /\ table'.rows[i].key = table.rows[i].key
            /\ table'.rows[i].meta = table.rows[i].meta
            /\ table'.hashes[b] = table.hashes[b]
        BY <1>8, <4>1
      <4> QED
        BY <4>1, <4>2, FactsAre
    <3>2. Facts(table') \subseteq Facts(table)
      BY <3>1 DEF Facts
    <3>3. Facts(table)' = Facts(table') /\ Facts(cache)' = Facts(cache) /\ Batch' = Batch
      BY <1>1, <1>3 DEF Facts, Batch
    <3> QED
      BY <1>0, <1>1, <3>2, <3>3 DEF Learned
  <2> QED
    BY <1>4, <1>5, <1>6, <2>5, <2>8, <2>9, <2>10, <2>11 DEF IInv
<1> QED
  BY <1>2, <1>7, <1>8 DEF Placed

\* In the columns of the batch the new row says what the batch does, because
\* no two of its words share a column.
LEMMA BitsSayTheBatch ==
  ASSUME Columns, pc = "merging", Wanted \subseteq Words, NEW n \in Names, NEW old,
         present[n] \subseteq Wanted
  PROVE  /\ \A w \in Wanted : slotOf[w] # 0 =>
              (slotOf[w] \in Bits(n, old) <=> w \notin present[n])
         /\ \A b \in Bits(n, old) :
              \/ \E w \in Wanted \ present[n] : slotOf[w] # 0 /\ b = slotOf[w]
              \/ b \in old /\ \A w \in present[n] : b # slotOf[w]
<1>1. \A v, w \in Wanted : slotOf[v] # 0 /\ slotOf[v] = slotOf[w] => v = w
  BY DEF Columns
<1> QED
  BY <1>1 DEF Bits, Wanted

\* One name of the batch is written.  A file with several names gets the bits
\* of each in turn, and each says no more than what it read.
LEMMA ApplyStep ==
  ASSUME IInv, NEW n \in Names, Apply(n)
  PROVE  IInv'
<1>0. Typed /\ Tables /\ Recorded /\ Columns /\ RowsKept /\ Learned /\ Said /\ Truthful
  BY DEF IInv
<1>1. /\ pc = "merging" /\ toPlace = {} /\ n \in toApply /\ toApply' = toApply \ {n}
      /\ UNCHANGED <<contents, disk, cache, lookup, pc, query, node, todo, pending,
                     present, skipped, unread, slotOf, toPlace, searches>>
  BY DEF Apply, searchVars
<1>2. Applied(n)
  BY <1>0, ApplyingStep
<1>3. /\ Wanted' = Wanted /\ Wanted \subseteq Words /\ Pinned' = Pinned
      /\ table \in Table /\ cache \in Table /\ n \in pending
      /\ DOMAIN table.rows = 1..Len(table.rows) /\ DOMAIN cache.rows = 1..Len(cache.rows)
      /\ Len(table.rows) \in Nat /\ Len(cache.rows) \in Nat
      /\ Len(cache.rows) <= Len(table.rows) /\ Len(table.rows) <= MaxFiles
      /\ MaxFiles \in Nat
  <2>1. Wanted' = Wanted /\ Wanted \subseteq Words /\ Pinned' = Pinned
    BY <1>0, <1>1, RequiredWords DEF Typed, TypeOK, Wanted, Pinned
  <2>2. table \in Table /\ cache \in Table /\ Len(table.rows) <= MaxFiles
    BY <1>0 DEF Typed, TypeOK, TableOK
  <2>3. /\ DOMAIN table.rows = 1..Len(table.rows) /\ DOMAIN cache.rows = 1..Len(cache.rows)
        /\ Len(table.rows) \in Nat /\ Len(cache.rows) \in Nat
    BY <2>2, TableFields
  <2> QED
    BY <1>0, <1>1, <2>1, <2>2, <2>3, CacheAssumption DEF Recorded, RowsKept
<1>4. Recorded'
  BY <1>0, <1>1 DEF Recorded, Version, Wanted
<1>5. Truthful'
  <2>1. Batch' = Batch /\ Facts(disk)' = Facts(disk) /\ Facts(cache)' = Facts(cache)
    BY <1>1, <1>3 DEF Batch, Facts
  <2> QED
    BY <1>0, <1>1, <2>1, StillWorld, TruthKept
<1>6. CASE UNCHANGED table /\ lookup[KeyOf[n]] = 0 /\ Len(table.rows) = MaxFiles
  <2>1. Typed'
    <3>1. \A f \in Files : Version(f)' = Version(f)
      BY <1>1 DEF Version
    <3>2. toApply' \subseteq Names
      BY <1>0, <1>1 DEF Typed, TypeOK
    <3>3. TypeOK'
      BY <1>0, <1>1, <1>6, <3>1, <3>2 DEF Typed, TypeOK, TableOK, Lookups
    <3> QED
      BY <1>0, <1>1, <1>6, <3>3 DEF Typed
  <2>2. Tables'
    BY <1>0, <1>1, <1>6 DEF Tables, WellFormed
  <2>3. Columns' /\ RowsKept'
    BY <1>0, <1>1, <1>3, <1>6 DEF Columns, RowsKept, HasColumn
  <2>4. Facts(table)' = Facts(table) /\ Facts(cache)' = Facts(cache) /\ Batch' = Batch
    BY <1>1, <1>3, <1>6 DEF Facts, Batch
  <2>5. Learned'
    BY <1>0, <1>1, <2>4 DEF Learned
  <2>6. Said'
    BY <1>0, <1>1, <1>3, <1>6 DEF Said, SaysTheBatch
  <2> QED
    BY <1>4, <1>5, <2>1, <2>2, <2>3, <2>5, <2>6 DEF IInv
<1>7. ASSUME NEW i \in 1..(Len(table.rows) + 1), NEW old \in SUBSET Slots,
             \/ /\ lookup[KeyOf[n]] # 0 /\ i = lookup[KeyOf[n]] /\ i \in DOMAIN cache.rows
                /\ cache.rows[i].key = KeyOf[n]
                /\ old = OldBits(n, i) /\ i <= Len(table.rows)
                /\ Len(table'.rows) = Len(table.rows)
             \/ /\ lookup[KeyOf[n]] = 0 /\ i = Len(table.rows) + 1 /\ old = {}
                /\ Len(table'.rows) = Len(table.rows) + 1,
             old \subseteq DOMAIN table.hashes,
             table' \in Table, table'.hashes = table.hashes,
             Len(table'.rows) <= MaxFiles,
             table'.rows[i] = NewRow(n, old),
             \A j \in DOMAIN table.rows \ {i} : table'.rows[j] = table.rows[j]
      PROVE  IInv'
  <2>1. DOMAIN table'.rows = DOMAIN table.rows \union {i}
    <3>1. DOMAIN table'.rows = 1..Len(table'.rows)
      BY <1>7, TableFields
    <3> QED
      BY <1>3, <1>7, <3>1
  <2>2. i \in DOMAIN table.rows =>
          i = lookup[KeyOf[n]] /\ i \in DOMAIN cache.rows /\ cache.rows[i].key = KeyOf[n]
    BY <1>3, <1>7
  <2>3. i \in DOMAIN cache.rows => i \in DOMAIN table.rows
    BY <1>3
  <2>4. /\ table'.rows[i].key = KeyOf[n] /\ table'.rows[i].meta = node[n]
        /\ table'.rows[i].absent = Bits(n, old)
        /\ Bits(n, old) \subseteq DOMAIN table.hashes
    BY <1>0, <1>1, <1>3, <1>7, NewRowTyped
  <2>5. present[n] \subseteq Wanted
    BY <1>0 DEF Recorded
  <2>6. /\ \A w \in Wanted : slotOf[w] # 0 =>
             (slotOf[w] \in Bits(n, old) <=> w \notin present[n])
        /\ \A b \in Bits(n, old) :
             \/ \E w \in Wanted \ present[n] : slotOf[w] # 0 /\ b = slotOf[w]
             \/ b \in old /\ \A w \in present[n] : b # slotOf[w]
    BY <1>0, <1>1, <1>3, <2>5, BitsSayTheBatch
  <2>7. Typed'
    <3>1. \A f \in Files : Version(f)' = Version(f)
      BY <1>1 DEF Version
    <3>2. TableOK(disk)' /\ TableOK(cache)' /\ TableOK(table)'
      BY <1>0, <1>1, <1>7, TableFields DEF Typed, TypeOK, TableOK
    <3>3. toApply' \subseteq Names
      BY <1>0, <1>1 DEF Typed, TypeOK
    <3>4. TypeOK'
      BY <1>0, <1>1, <3>1, <3>2, <3>3 DEF Typed, TypeOK, Lookups
    <3> QED
      BY <1>0, <1>1, <1>7, <3>4 DEF Typed
  <2>8. Tables'
    <3>1. WellFormed(table)
      BY <1>0 DEF Tables
    <3>2. \A j \in DOMAIN table'.rows : table'.rows[j].absent \subseteq DOMAIN table'.hashes
      BY <1>7, <2>1, <2>4, <3>1 DEF WellFormed
    <3>3. WellFormed(table')
      BY <1>7, <3>1, <3>2 DEF WellFormed
    <3> QED
      BY <1>0, <1>1, <3>3 DEF Tables, WellFormed
  <2>9. Columns'
    BY <1>0, <1>1, <1>3, <1>7 DEF Columns, HasColumn
  <2>10. RowsKept'
    <3>1. Len(cache.rows) <= Len(table'.rows)
      BY <1>3, <1>7
    <3>2. ASSUME NEW j \in DOMAIN cache.rows
          PROVE  /\ table'.rows[j].key = cache.rows[j].key
                 /\ table'.rows[j].meta # cache.rows[j].meta =>
                      table'.rows[j].absent \subseteq Pinned \ {0}
      <4>1. CASE j = i
        <5>1. cache.rows[i].key = KeyOf[n] /\ old = OldBits(n, i)
          BY <1>3, <1>7, <4>1
        <5>2. node[n] # cache.rows[i].meta => old = {}
          BY <5>1 DEF OldBits
        <5>3. old = {} => Bits(n, old) \subseteq Pinned \ {0}
          BY <1>3, <2>6 DEF Pinned
        <5> QED
          BY <2>4, <4>1, <5>1, <5>2, <5>3
      <4>2. CASE j # i
        <5>1. j \in DOMAIN table.rows /\ table'.rows[j] = table.rows[j]
          BY <1>3, <1>7, <4>2
        <5> QED
          BY <1>0, <1>1, <5>1 DEF RowsKept
      <4> QED
        BY <4>1, <4>2
    <3> QED
      BY <1>1, <1>3, <3>1, <3>2 DEF RowsKept
  <2>11. Learned'
    <3>1. Facts(table) \subseteq Facts(cache) \union Batch
      BY <1>0, <1>1 DEF Learned
    <3>2. ASSUME NEW w \in Wanted \ present[n], slotOf[w] # 0
          PROVE  <<KeyOf[n], node[n], table.hashes[slotOf[w]]>> \in Batch
      <4>1. table.hashes[slotOf[w]] = w
        BY <1>0, <1>1, <1>3, <3>2 DEF Columns
      <4> QED
        BY <1>3, <4>1 DEF Batch
    <3>3. ASSUME NEW b \in Bits(n, old)
          PROVE  <<KeyOf[n], node[n], table.hashes[b]>> \in Facts(cache) \union Batch
      <4>1. CASE \E w \in Wanted \ present[n] : slotOf[w] # 0 /\ b = slotOf[w]
        BY <3>2, <4>1
      <4>2. CASE b \in old /\ \A w \in present[n] : b # slotOf[w]
        <5>1. /\ i \in DOMAIN cache.rows /\ i \in DOMAIN table.rows
              /\ cache.rows[i].key = KeyOf[n] /\ old = OldBits(n, i)
          BY <1>3, <1>7, <4>2
        <5>2. cache.rows[i].meta = node[n] /\ b \in table.rows[i].absent
          BY <4>2, <5>1 DEF OldBits
        <5>3. table.rows[i].key = KeyOf[n]
          BY <1>0, <1>1, <5>1 DEF RowsKept
        <5>4. CASE table.rows[i].meta = node[n]
          <6>1. <<KeyOf[n], node[n], table.hashes[b]>> \in Facts(table)
            BY <5>1, <5>2, <5>3, <5>4, FactsAre
          <6> QED
            BY <3>1, <6>1
        <5>5. CASE table.rows[i].meta # node[n]
          <6>1. b \in Pinned \ {0}
            BY <1>0, <1>1, <5>1, <5>2, <5>5 DEF RowsKept
          <6>2. PICK w \in Words : b = slotOf[w] /\ slotOf[w] # 0
            BY <6>1 DEF Pinned
          <6>3. w \in Wanted \ present[n]
            BY <1>0, <1>1, <4>2, <6>2 DEF Columns
          <6> QED
            BY <3>2, <6>2, <6>3
        <5> QED
          BY <5>4, <5>5
      <4> QED
        BY <2>6, <4>1, <4>2
    <3>4. ASSUME NEW j \in DOMAIN table'.rows, NEW b \in table'.rows[j].absent
          PROVE  <<table'.rows[j].key, table'.rows[j].meta, table'.hashes[b]>>
                   \in Facts(cache) \union Batch
      <4>1. CASE j = i
        BY <1>7, <2>4, <3>3, <4>1
      <4>2. CASE j # i
        <5>1. j \in DOMAIN table.rows /\ table'.rows[j] = table.rows[j]
          BY <1>7, <2>1, <4>2
        <5>2. <<table.rows[j].key, table.rows[j].meta, table.hashes[b]>> \in Facts(table)
          BY <3>4, <5>1, FactsAre
        <5> QED
          BY <1>7, <3>1, <5>1, <5>2
      <4> QED
        BY <4>1, <4>2
    <3>5. Facts(table') \subseteq Facts(cache) \union Batch
      <4> DEFINE known == Facts(cache) \union Batch
      <4>1. \A j \in DOMAIN table'.rows : \A b \in table'.rows[j].absent :
              <<table'.rows[j].key, table'.rows[j].meta, table'.hashes[b]>> \in known
        BY <3>4
      <4> HIDE DEF known
      <4>2. Facts(table') \subseteq known
        BY <4>1, FactsWithin
      <4> QED
        BY <4>2 DEF known
    <3>6. Facts(table)' = Facts(table') /\ Facts(cache)' = Facts(cache) /\ Batch' = Batch
      BY <1>1, <1>3 DEF Facts, Batch
    <3> QED
      BY <1>1, <3>5, <3>6 DEF Learned
  <2>12. Said'
    <3>1. SaysTheBatch(n)'
      BY <1>1, <1>3, <2>1, <2>4, <2>6 DEF SaysTheBatch
    <3>2. ASSUME NEW m \in pending \ toApply, m # n
          PROVE  SaysTheBatch(m)'
      <4>0. SaysTheBatch(m)
        BY <1>0, <1>1, <3>2 DEF Said
      <4>1. CASE \E o \in pending \ {m} : KeyOf[o] = KeyOf[m]
        BY <1>1, <4>1 DEF SaysTheBatch
      <4>2. CASE Len(table.rows) = MaxFiles /\ lookup[KeyOf[m]] = 0
        <5>1. Len(table'.rows) = MaxFiles
          BY <1>3, <1>7, <4>2
        <5> QED
          BY <1>1, <4>2, <5>1 DEF SaysTheBatch
      <4>3. ASSUME KeyOf[m] # KeyOf[n], NEW j \in DOMAIN table.rows,
                   table.rows[j].key = KeyOf[m], table.rows[j].meta = node[m],
                   \A w \in Wanted : slotOf[w] # 0 =>
                     (slotOf[w] \in table.rows[j].absent <=> w \notin present[m])
            PROVE  SaysTheBatch(m)'
        <5>1. j # i
          <6>1. SUFFICES ASSUME j = i PROVE FALSE
            OBVIOUS
          <6>2. i \in DOMAIN cache.rows /\ cache.rows[i].key = KeyOf[n]
            BY <2>2, <4>3, <6>1
          <6> QED
            BY <1>0, <1>1, <4>3, <6>1, <6>2 DEF RowsKept
        <5>2. j \in DOMAIN table'.rows /\ table'.rows[j] = table.rows[j]
          BY <1>7, <2>1, <5>1
        <5> QED
          BY <1>1, <1>3, <4>3, <5>2 DEF SaysTheBatch
      <4> QED
        BY <1>3, <3>2, <4>0, <4>1, <4>2, <4>3 DEF SaysTheBatch
    <3> QED
      BY <1>1, <3>1, <3>2 DEF Said
  <2> QED
    BY <1>4, <1>5, <2>7, <2>8, <2>9, <2>10, <2>11, <2>12 DEF IInv
<1> QED
  BY <1>2, <1>6, <1>7 DEF Applied

-----------------------------------------------------------------------------
(* The theorems.                                                           *)

\* The invariant holds before the first search.
LEMMA IInvInit ==
  ASSUME Init
  PROVE  IInv
<1>0. /\ MaxVersions \in Nat \ {0} /\ MaxFragments \in Nat \ {0}
      /\ MaxFiles \in Nat /\ MaxSearches \in Nat /\ KeyOf \in [Names -> Files]
      /\ EmptyTable \in Table /\ WellFormed(EmptyTable) /\ TableOK(EmptyTable)
      /\ Facts(EmptyTable) = {}
  BY EmptyIsTable, CacheAssumption
<1>1. /\ contents \in [Files -> {<<c>> : c \in Contents}]
      /\ disk = EmptyTable /\ cache = EmptyTable /\ table = EmptyTable
      /\ lookup = [f \in Files |-> 0] /\ pc = "idle" /\ query = NoQuery
      /\ node = [n \in Names |-> 0]
      /\ todo = {} /\ pending = {} /\ skipped = {} /\ unread = {}
      /\ present = [n \in Names |-> {}] /\ slotOf = [w \in Words |-> 0]
      /\ toPlace = {} /\ toApply = {} /\ searches = 0
  BY DEF Init
<1>2. contents \in [Files -> Seq(Contents)] /\ \A f \in Files : Version(f) = 1
  <2>1. \A c \in Contents : <<c>> \in Seq(Contents) /\ Len(<<c>>) = 1
    OBVIOUS
  <2> QED
    BY <1>1, <2>1 DEF Version
<1>3. Typed
  <2>1. lookup \in Lookups(cache)
    <3>1. 0 \in 0..Len(cache.rows)
      BY <1>0, <1>1, TableFields
    <3> QED
      BY <1>1, <3>1 DEF Lookups
  <2>2. \A f \in Files : Version(f) \in 1..MaxVersions
    BY <1>0, <1>2
  <2>3. /\ node \in [Names -> 0..MaxVersions] /\ slotOf \in [Words -> 0..MaxFragments]
        /\ present \in [Names -> SUBSET Words] /\ searches \in 0..MaxSearches
    BY <1>0, <1>1
  <2>4. TypeOK
    BY <1>0, <1>1, <1>2, <2>1, <2>2, <2>3 DEF TypeOK
  <2> QED
    BY <1>0, <1>1, <2>4 DEF Typed
<1>4. Tables
  BY <1>0, <1>1 DEF Tables
<1>5. Recorded
  <2>1. \A n \in Names : node[n] <= Version(KeyOf[n])
    BY <1>0, <1>1, <1>2
  <2> QED
    BY <1>1, <2>1 DEF Recorded
<1>6. Columns /\ RowsKept /\ Learned /\ Said
  BY <1>1 DEF Columns, RowsKept, Learned, Said
<1>7. Truthful
  <2>1. Batch = {} /\ Facts(disk) = {} /\ Facts(cache) = {}
    BY <1>0, <1>1 DEF Batch
  <2> QED
    BY <1>1, <2>1 DEF Truthful, SkippedLacks
<1> QED
  BY <1>3, <1>4, <1>5, <1>6, <1>7 DEF IInv

\* A stutter keeps the invariant.
LEMMA Stutter ==
  ASSUME IInv, UNCHANGED vars
  PROVE  IInv'
<1>0. Typed /\ Tables /\ Recorded /\ Columns /\ RowsKept /\ Learned /\ Said /\ Truthful
  BY DEF IInv
<1>1. UNCHANGED <<contents, disk, cache, lookup, pc, query, node, todo, pending,
                  present, skipped, unread, table, slotOf, toPlace, toApply, searches>>
  BY DEF vars
<1>2. Typed'
  <2>1. \A f \in Files : Version(f)' = Version(f)
    BY <1>1 DEF Version
  <2>2. TypeOK'
    BY <1>0, <1>1, <2>1 DEF Typed, TypeOK, TableOK, Lookups
  <2> QED
    BY <1>0, <1>1, <2>2 DEF Typed
<1>3. Recorded'
  BY <1>0, <1>1 DEF Recorded, Version, Wanted
<1>4. /\ Tables' /\ Columns' /\ RowsKept' /\ Learned' /\ Said' /\ Batch' = Batch
      /\ Facts(disk)' = Facts(disk) /\ Facts(cache)' = Facts(cache)
  BY <1>0, <1>1, MergeUntouched DEF mergeState
<1>5. Truthful'
  BY <1>0, <1>1, <1>4, StillWorld, TruthKept
<1> QED
  BY <1>2, <1>3, <1>4, <1>5 DEF IInv

\* Every step keeps the invariant.
LEMMA IInvNext ==
  ASSUME IInv, [Next]_vars
  PROVE  IInv'
<1>1. ASSUME NEW f \in Files, Modify(f) PROVE IInv'
  BY <1>1, ModifyStep
<1>2. ASSUME NEW q \in Queries, Start(q) PROVE IInv'
  BY <1>2, StartStep
<1>3. ASSUME NEW n \in Names,
             \/ Stat(n) \/ Skip(n) \/ PassOver(n) \/ ReadWhole(n)
             \/ ReadShort(n) \/ ReadRejected(n) \/ Apply(n)
      PROVE  IInv'
  BY <1>3, StatStep, SkipStep, ReadStep, ApplyStep
<1>4. CASE BeginMerge
  BY <1>4, BeginMergeStep
<1>5. CASE Abandon
  BY <1>5, DropStep DEF Abandon
<1>6. CASE Save
  BY <1>6, DropStep DEF Save
<1>7. ASSUME NEW w \in Words, Place(w) PROVE IInv'
  BY <1>7, PlaceStep
<1>8. CASE UNCHANGED vars
  BY <1>8, Stutter
<1> QED
  BY <1>1, <1>2, <1>3, <1>4, <1>5, <1>6, <1>7, <1>8 DEF Next

\* The invariant holds in every state.
LEMMA IInvCorrect == Spec => []IInv
<1>1. Init => IInv
  BY IInvInit
<1>2. IInv /\ [Next]_vars => IInv'
  BY IInvNext
<1> QED
  BY <1>1, <1>2, PTL DEF Spec

\* Every table is of its type and within the capacity the cache was configured
\* with, whatever files, patterns and interruptions come (ARENA_BYTES, the
\* bound of apply_batch on new rows, the wrap of ring_pos).
THEOREM TypeCorrect == Spec => []TypeOK
<1>1. IInv => TypeOK
  BY DEF IInv, Typed
<1> QED
  BY <1>1, IInvCorrect, PTL

\* A fragment has one column at most in the file: resolve_fragments looks for
\* it before it gives it one, and gives each word of a batch one.
THEOREM ColumnsDistinctCorrect == Spec => []ColumnsDistinct
<1>1. IInv => ColumnsDistinct
  BY DEF IInv, Tables, WellFormed, ColumnsDistinct
<1> QED
  BY <1>1, IInvCorrect, PTL

\* What the file on disk says is absent from the present version of a file is
\* absent, unless that version was recorded from less than the whole file.
THEOREM ClaimsHoldCorrect == Spec => []ClaimsHold
<1>1. IInv => ClaimsHold
  <2> SUFFICES ASSUME IInv, NEW f \in Files, NEW w \in Words,
                      <<f, Version(f), w>> \in Facts(disk),
                      <<f, Version(f)>> \notin unread
               PROVE  w \notin Current(f).words
    BY DEF ClaimsHold
  <2>1. Version(f) \in 1..MaxVersions
    BY DEF IInv, Typed, TypeOK
  <2>2. Honest(f, Version(f), w)
    BY <2>1 DEF IInv, Truthful
  <2> QED
    BY <2>1, <2>2 DEF Honest, Lacks, Current
<1> QED
  BY <1>1, IInvCorrect, PTL

\* A file passed over because of the cache lacks a fragment of the pattern in
\* the version whose inode the search read.
THEOREM SkippedLacksCorrect == Spec => []SkippedLacks
<1>1. IInv => SkippedLacks
  BY DEF IInv, Truthful
<1> QED
  BY <1>1, IInvCorrect, PTL

\* A word of the batch has no column only if the batch has more words than the
\* cache has columns: each column is then another word's.
LEMMA WordsOutnumberColumns ==
  ASSUME Columns, pc = "merging", toPlace = {}, Wanted \subseteq Words,
         NEW w \in Wanted, slotOf[w] = 0
  PROVE  Cardinality(Wanted) > MaxFragments
<1> DEFINE owner == [s \in Slots |-> CHOOSE v \in Words : slotOf[v] = s]
           others == Wanted \ {w}
<1>1. MaxFragments \in Nat /\ IsFiniteSet(Words)
  BY CacheAssumption
<1>2. Slots \subseteq Pinned
  BY DEF Columns
<1>3. \A s \in Slots : owner[s] \in Words /\ slotOf[owner[s]] = s
  BY <1>2 DEF Pinned
<1>4. \A s \in Slots : owner[s] \in Wanted /\ owner[s] # w
  <2>1. \A s \in Slots : s # 0
    BY <1>1 DEF Slots
  <2> QED
    BY <1>3, <2>1 DEF Columns
<1>5. owner \in [Slots -> others]
  BY <1>4
<1>6. \A r, s \in Slots : owner[r] = owner[s] => r = s
  BY <1>3
<1> HIDE DEF owner
<1>7. IsFiniteSet(Slots) /\ Cardinality(Slots) = MaxFragments
  BY <1>1, FS_Interval DEF Slots
<1>8. /\ IsFiniteSet(Wanted) /\ IsFiniteSet(others)
      /\ Cardinality(others) = Cardinality(Wanted) - 1
      /\ Cardinality(Wanted) \in Nat /\ Cardinality(others) \in Nat
  <2>1. IsFiniteSet(Wanted)
    BY <1>1, FS_Subset
  <2> QED
    BY <2>1, FS_RemoveElement, FS_CardinalityType
<1> HIDE DEF others
<1>9. ~(Cardinality(others) < Cardinality(Slots))
  BY <1>5, <1>6, <1>7, <1>8, FS_PigeonHole
<1> QED
  BY <1>1, <1>7, <1>8, <1>9

\* A merge that is done has put the whole batch into the table: columns and
\* rows both (resolve_fragments, apply_batch).
THEOREM BatchKeptCorrect == Spec => []BatchKept
<1>1. IInv => BatchKept
  <2> SUFFICES ASSUME IInv, pc = "merging", toPlace = {}, toApply = {}
               PROVE  /\ \A w \in Wanted :
                           IF slotOf[w] # 0 THEN table.hashes[slotOf[w]] = w
                                            ELSE Cardinality(Wanted) > MaxFragments
                      /\ \A n \in pending : SaysTheBatch(n)
    BY DEF BatchKept, SaysTheBatch, Wanted
  <2>1. Wanted \subseteq Words
    BY RequiredWords DEF IInv, Typed, TypeOK, Wanted
  <2>2. ASSUME NEW w \in Wanted, slotOf[w] # 0 PROVE table.hashes[slotOf[w]] = w
    BY <2>1, <2>2 DEF IInv, Columns
  <2>3. ASSUME NEW w \in Wanted, slotOf[w] = 0 PROVE Cardinality(Wanted) > MaxFragments
    BY <2>1, <2>3, WordsOutnumberColumns DEF IInv
  <2>4. \A n \in pending : SaysTheBatch(n)
    BY DEF IInv, Said
  <2> QED
    BY <2>2, <2>3, <2>4
<1> QED
  BY <1>1, IInvCorrect, PTL

\* A step that is not the end of a search does not write the file.
LEMMA DiskKept ==
  ASSUME [Next]_vars, ~Abandon, ~Save
  PROVE  disk' = disk
BY DEF Next, vars, Modify, Start, Stat, Skip, PassOver, Record, ReadWhole, ReadShort,
   ReadRejected, Apply, BeginMerge, Place

\* A merge adds to the file no claim but those of the search's batch, whatever
\* columns it reuses and rows it rewrites.
THEOREM LearnsOnlyTheBatchCorrect == Spec => LearnsOnlyTheBatch
<1> DEFINE Learns == Facts(disk') \ Facts(disk) \subseteq Batch
<1>1. IInv /\ [Next]_vars => Learns
  <2> SUFFICES ASSUME IInv, [Next]_vars PROVE Learns
    OBVIOUS
  <2>1. CASE Abandon \/ Save
    <3>1. DropSearch /\ (disk' = disk \/ (disk' = table /\ pc = "merging"))
      BY <2>1 DEF Abandon, Save
    <3> QED
      BY <3>1, DropStep
  <2>2. CASE ~Abandon /\ ~Save
    BY <2>2, DiskKept
  <2> QED
    BY <2>1, <2>2
<1>2. Learns => Facts(disk') \ Facts(disk) \subseteq
         UNION { {<<KeyOf[n], node[n], w>> : w \in Required(query) \ present[n]}
                 : n \in pending }
  BY DEF Batch, Wanted
<1> QED
  BY <1>1, <1>2, IInvCorrect, PTL DEF Spec, LearnsOnlyTheBatch
=============================================================================
