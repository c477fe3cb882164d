----------------------------- MODULE Ext4Reader -----------------------------
(***************************************************************************)
(* Reading files of a raw ext4 image.  Beside its bytes an image has:      *)
(*   tree    the extent tree nodes stored in blocks; a block that cannot   *)
(*           be read or has no valid header is not in its domain           *)
(*   inodes  the inode table: a block of it is a function from slots to    *)
(*           inodes; a block that cannot be read is not in its domain      *)
(* An inode has kind "inline", "extents" or "direct", a size, and its      *)
(* data, its root (an extent tree node) or its blocks.  A tree node has a  *)
(* depth and its entries: extents [start, len] at depth 0, blocks of       *)
(* child nodes above.                                                      *)
(***************************************************************************)
EXTENDS RawDevice

CONSTANTS Probe,        \* PROBE_BYTES, the first read of a likely binary file
          MaxDepth,     \* MAX_EXTENT_DEPTH
          PerBlock      \* inodes in a block of the inode table

\* The first read stays inside the first block, and so in the first extent.
\* The program does not see to this: it is so when blocks have 2 KiB or more.
ASSUME ProbeAssumption == Probe \in Nat \ {0} /\ Probe <= Block
ASSUME TableAssumption == MaxDepth \in Nat /\ PerBlock \in Nat \ {0}

-----------------------------------------------------------------------------
(* Inodes: one block of the table is kept from one inode to the next.      *)

InodeBlock(id) == (id - 1) \div PerBlock
InodeSlot(id) == (id - 1) % PerBlock

EmptyCache == [block |-> {}, slots |-> <<>>]

\* Mutant: the block number is noted before the read, which may fail.
LoadNotedFirst(img, cache, block) ==
  IF block \in cache.block THEN cache
  ELSE IF block \in DOMAIN img.inodes THEN [block |-> {block}, slots |-> img.inodes[block]]
  ELSE IF cache.block = {} THEN cache ELSE [cache EXCEPT !.block = {block}]

\* parse_node_cached: a failed read leaves the cached block as it was.
Load(img, cache, block) ==
  IF block \in cache.block THEN cache
  ELSE IF block \in DOMAIN img.inodes THEN [block |-> {block}, slots |-> img.inodes[block]]
  ELSE cache

ParseNode(img, cache, id) ==
  LET after == Load(img, cache, InodeBlock(id))
  IN  [cache |-> after,
       node  |-> IF InodeBlock(id) \in after.block THEN after.slots[InodeSlot(id)] ELSE Poisoned]

\* parse_nodes_batch: an inode that cannot be read is poisoned.
ParseNodesBatch(img, ids) ==
  FoldLeft(LAMBDA acc, id : LET one == ParseNode(img, acc.cache, id)
                            IN  [cache |-> one.cache, out |-> Append(acc.out, one.node)],
           [cache |-> EmptyCache, out |-> <<>>], ids).out

-----------------------------------------------------------------------------
(* Extents.  A length of 0 stands for an extent that is not valid.         *)

Leaves(node) ==
  FlattenSeq([i \in DOMAIN node.entries |->
                IF node.entries[i].len > 0 THEN <<node.entries[i]>> ELSE <<>>])

\* parse_extent_node_into: a child that cannot be read is left out.
ParseExtents(img, root) ==
  LET walk[level \in Nat] ==
        [b \in Nat |->
           IF b \notin DOMAIN img.tree \/ level > MaxDepth THEN <<>>
           ELSE IF img.tree[b].depth = 0 THEN Leaves(img.tree[b])
           ELSE FlattenSeq([i \in DOMAIN img.tree[b].entries |->
                              walk[level + 1][img.tree[b].entries[i]]])]
  IN  IF root.depth = 0 THEN Leaves(root)
      ELSE FlattenSeq([i \in DOMAIN root.entries |-> walk[1][root.entries[i]]])

\* first_extent_start: the leftmost path only.  The empty set when that does
\* not settle it.
FirstExtent(img, file) ==
  LET root == file.root
      first(node) == {e.start : e \in Range(FirstOf(Leaves(node), 1))}
      left[level \in Nat] ==
        [b \in Nat |->
           IF b \notin DOMAIN img.tree THEN {}
           ELSE IF img.tree[b].depth = 0 THEN first(img.tree[b])
           ELSE IF level >= MaxDepth \/ img.tree[b].entries = <<>> THEN {}
           ELSE left[level + 1][img.tree[b].entries[1]]]
  IN  IF file.kind # "extents" THEN {}
      ELSE IF root.depth = 0 THEN first(root)
      ELSE IF MaxDepth = 0 \/ root.entries = <<>> THEN {} ELSE left[1][root.entries[1]]

\* The extents of a file: direct blocks are extents of one block, without the
\* holes among them.
ExtentsOf(img, node) ==
  IF node.kind = "extents" THEN ParseExtents(img, node.root)
  ELSE LET mapped(b) == b # 0 /\ b * Block < Len(img.bytes)
       IN  FlattenSeq([i \in DOMAIN node.blocks |->
             IF mapped(node.blocks[i]) THEN <<[start |-> node.blocks[i], len |-> 1]>> ELSE <<>>])

\* Where the binary probe reads.
ProbeStart(all, cheap) ==
  IF cheap # {} THEN cheap ELSE IF all = <<>> THEN {} ELSE {all[1].start}

-----------------------------------------------------------------------------
(* The list of chunks to read, and the head that the probe has read.       *)

\* A piece that continues the last one on the device is merged with it.
AddChunk(chunks, at, len) ==
  IF len = 0 THEN chunks
  ELSE IF chunks # <<>> /\ Last(chunks).at + Last(chunks).len = at
  THEN [chunks EXCEPT ![Len(chunks)].len = @ + len]
  ELSE Append(chunks, [at |-> at, len |-> len])

\* Mutant: the bytes that are left out do not count against the limit.
PlanUncounted(extents, max, skip) ==
  FoldLeft(LAMBDA acc, e :
             LET take == Least(e.len * Block, max - acc.total)
                 over == Least(acc.skip, take)
             IN  [total  |-> acc.total + take - over,
                  skip   |-> acc.skip - over,
                  chunks |-> AddChunk(acc.chunks, e.start * Block + over, take - over)],
           [total |-> 0, skip |-> skip, chunks |-> <<>>], extents).chunks

\* The extents up to max bytes, without the first skip bytes.
Plan(extents, max, skip) ==
  FoldLeft(LAMBDA acc, e :
             LET take == Least(e.len * Block, max - acc.total)
                 over == Least(acc.skip, take)
             IN  [total  |-> acc.total + take,
                  skip   |-> acc.skip - over,
                  chunks |-> AddChunk(acc.chunks, e.start * Block + over, take - over)],
           [total |-> 0, skip |-> skip, chunks |-> <<>>], extents).chunks

\* What the probe reads; the empty set when that fails.
ProbeHead(img, start, max, likely) ==
  IF start = {} THEN {<<>>}
  ELSE {ReadAt(img, s * Block, Least(max, IF likely THEN Probe ELSE Block)) :
          s \in {s \in start : ~ Fails(img, s * Block)}}

\* collect_file_chunks.  An extent file whose probe cannot be read is given up
\* with nothing; a block-mapped one goes on as if the probe had read nothing.
Probed(node, all, max, heads) ==
  IF heads = {}
  THEN IF node.kind = "extents" THEN NoPlan ELSE [NoPlan EXCEPT !.chunks = Plan(all, max, 0)]
  ELSE LET head == CHOOSE h \in heads : TRUE
       IN  IF IsBinary(head) THEN Rejected
           ELSE [NoPlan EXCEPT !.head = head, !.chunks = Plan(all, max, Len(head))]

CollectFrom(img, node, all, max, check, likely) ==
  Probed(node, all, max,
         IF check THEN ProbeHead(img, ProbeStart(all, FirstExtent(img, node)), max, likely)
                  ELSE {<<>>})

Collect(img, node, max, check, likely) ==
  IF node.kind = "inline" THEN NoPlan
  ELSE CollectFrom(img, node, ExtentsOf(img, node), max, check, likely)

\* read_file_content.
ReadExt4(img, node, max, check, likely) ==
  IF node.kind = "inline" THEN ReadInPlace(FirstOf(node.data, max), check)
  ELSE ReadPlanned(img, Collect(img, node, max, check, likely), max)
=============================================================================
