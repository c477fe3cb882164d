----------------------------- MODULE NtfsReader -----------------------------
(***************************************************************************)
(* Reading files of a raw NTFS image.  Beside its bytes an image has:      *)
(*   mft      the runs of the master file table                            *)
(*   records  clusters of the table: functions from places to records; a   *)
(*            cluster that cannot be read is not in its domain             *)
(*   index    index blocks, by the cluster they start in: sequences of     *)
(*            directory entries; one that cannot be read or is damaged is  *)
(*            not in its domain                                            *)
(* A run list is a sequence of runs [len, step]: so many clusters, the     *)
(* first of them step clusters behind the first of the run before, or a    *)
(* hole, which has no step.  A record has kind "resident" and data, "runs" *)
(* and a run list, "damaged" when the run list cannot be decoded, "nodata" *)
(* or "dir" with root, the entries in the record itself, and a run list;   *)
(* and a size.  A record that is torn, free or no record is "poisoned".    *)
(***************************************************************************)
EXTENDS RawDevice, Integers

CONSTANTS PerCluster,   \* records in a cluster of the table
          PerIndex      \* clusters in an index block

\* A run is one piece when it has one cluster: what is said of it below would
\* not hold for clusters as long as a chunk.
ASSUME ClusterAssumption == Block < ChunkSize
ASSUME RecordsAssumption == PerCluster \in Nat \ {0} /\ PerIndex \in Nat \ {0}

-----------------------------------------------------------------------------
(* Runs.                                                                   *)

\* decode_runlist: runs [vcn, len, lcn], where a hole has no lcn.
DecodeRuns(list) ==
  FoldLeft(LAMBDA acc, r :
             [vcn  |-> acc.vcn + r.len,
              lcn  |-> IF r.step = {} THEN acc.lcn
                       ELSE acc.lcn + (CHOOSE d \in r.step : TRUE),
              runs |-> Append(acc.runs,
                         [vcn |-> acc.vcn, len |-> r.len,
                          lcn |-> {acc.lcn + d : d \in r.step}])],
           [vcn |-> 0, lcn |-> 0, runs |-> <<>>], list).runs

\* Where the runs put a cluster of the file; the empty set in a hole and past
\* the end.
Clusters(runs, vcn) ==
  UNION {{lcn + (vcn - r.vcn) : lcn \in r.lcn} :
           r \in {r \in Range(runs) : vcn >= r.vcn /\ vcn < r.vcn + r.len}}

Total(runs) == FoldLeft(LAMBDA n, r : n + r.len, 0, runs)

-----------------------------------------------------------------------------
(* Records.                                                                *)

\* mft_record_offset, read_mft_record, parse_mft_record.
ParseRecord(img, id) ==
  LET at == {c \in Clusters(DecodeRuns(img.mft), id \div PerCluster) : c \in DOMAIN img.records}
  IN  IF at = {} THEN Poisoned ELSE img.records[CHOOSE c \in at : TRUE][id % PerCluster]

-----------------------------------------------------------------------------
(* The list of chunks to read.                                             *)

\* push_chunk: merged pieces are no longer than a chunk.
PushChunk(chunks, c) ==
  IF c.len = 0 THEN chunks
  ELSE IF /\ chunks # <<>> /\ Last(chunks).at + Last(chunks).len = c.at
          /\ Last(chunks).len + c.len <= ChunkSize
  THEN [chunks EXCEPT ![Len(chunks)].len = @ + c.len]
  ELSE Append(chunks, c)

\* The pieces of a run of which the first skip bytes have been read.  When that
\* is all of the run, the code takes as many bytes from behind it.
RunPieces(at, take, skip) ==
  IF take = 0 THEN <<>>
  ELSE IF skip = take THEN <<[at |-> at + skip, len |-> skip]>>
  ELSE [Pieces([at |-> at, len |-> take]) EXCEPT ![1].at = @ + skip, ![1].len = @ - skip]

\* Mutant: a hole is passed over as if it were not part of the file.
RunPlanHoleUncounted(runs, max, skip) ==
  FoldLeft(LAMBDA acc, r :
             IF r.lcn = {} THEN acc
             ELSE LET take == Least(r.len * Block, max - acc.total)
                      over == Least(acc.skip, take)
                  IN  [total  |-> acc.total + take,
                       skip   |-> acc.skip - over,
                       chunks |-> FoldLeft(PushChunk, acc.chunks,
                                    RunPieces((CHOOSE l \in r.lcn : TRUE) * Block, take, over))],
           [total |-> 0, skip |-> skip, chunks |-> <<>>], runs).chunks

\* The runs up to max bytes.  A hole counts, but nothing is read for it.
RunPlan(runs, max, skip) ==
  FoldLeft(LAMBDA acc, r :
             LET take == Least(r.len * Block, max - acc.total)
                 over == Least(acc.skip, take)
             IN  IF r.lcn = {} THEN [acc EXCEPT !.total = @ + take]
                 ELSE [total  |-> acc.total + take,
                       skip   |-> acc.skip - over,
                       chunks |-> FoldLeft(PushChunk, acc.chunks,
                                    RunPieces((CHOOSE l \in r.lcn : TRUE) * Block, take, over))],
           [total |-> 0, skip |-> skip, chunks |-> <<>>], runs).chunks

\* The probe reads the first cluster that is no hole; nothing when that fails.
RunHead(img, runs, max) ==
  LET mapped == {k \in DOMAIN runs : runs[k].lcn # {}}
      at     == (CHOOSE l \in runs[Min(mapped)].lcn : TRUE) * Block
  IN  IF mapped = {} \/ Fails(img, at) THEN <<>> ELSE ReadAt(img, at, Least(Block, max))

\* collect_file_chunks.
PlanAfter(head, runs, max) ==
  IF IsBinary(head) THEN Rejected
  ELSE [NoPlan EXCEPT !.head = head, !.chunks = RunPlan(runs, max, Len(head))]

CollectRuns(img, node, max, check) ==
  IF node.kind = "damaged" THEN Failed
  ELSE IF node.kind # "runs" THEN NoPlan
  ELSE PlanAfter(IF check THEN RunHead(img, DecodeRuns(node.runs), max) ELSE <<>>,
                 DecodeRuns(node.runs), max)

\* read_file_content.
ReadNtfs(img, node, max, check) ==
  IF node.kind = "resident" THEN ReadInPlace(FirstOf(node.data, max), check)
  ELSE ReadPlanned(img, CollectRuns(img, node, max, check), max)

-----------------------------------------------------------------------------
(* Directories: linearise_index_entries_into leaves out DOS names.         *)

Linear(es) == SelectSeq(Used(es), LAMBDA e : ~ e.dos)

\* read_dir_linearised: the entries in the record, and those of every index
\* block that can be read.
ReadDirLinearised(img, node) ==
  LET runs == DecodeRuns(node.runs)
      block(k) == {c \in Clusters(runs, (k - 1) * PerIndex) : c \in DOMAIN img.index}
  IN  Linear(node.root) \o
      FlattenSeq([k \in 1..(Total(runs) \div PerIndex) |->
                    IF block(k) = {} THEN <<>> ELSE Linear(img.index[CHOOSE c \in block(k) : TRUE])])
=============================================================================
