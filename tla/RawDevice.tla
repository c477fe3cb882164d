------------------------------ MODULE RawDevice -----------------------------
(***************************************************************************)
(* What the readers of the file systems share: reads of the device, the    *)
(* binary probe, and lists of chunks to read.  An image is a record; its   *)
(* bytes are the data, byte at + 1 being the one at offset at, and bad are *)
(* the blocks that cannot be read.  A block is what the file system calls  *)
(* a block or a cluster.  The hints to the page cache are left out.        *)
(***************************************************************************)
EXTENDS Chars, Naturals, FiniteSets, Sequences, SequencesExt

CONSTANTS Block,        \* block_size, in bytes
          ProbeLen,     \* the bytes is_binary_chunk looks at
          ChunkSize     \* STREAMING_CHUNK_SIZE

ASSUME DeviceAssumption == /\ Block \in Nat \ {0} /\ ProbeLen \in Nat \ {0}
                           /\ ChunkSize \in Nat \ {0}

Least(a, b) == IF a <= b THEN a ELSE b

-----------------------------------------------------------------------------
(* Reading the device: a read stops before the first bad block and fails   *)
(* when it would start in one.                                             *)

BlockOf(at) == at \div Block

ReadEnd(img, at, n) ==
  LET upto == Least(at + n, Len(img.bytes))
      bads == {p \in at..(upto - 1) : BlockOf(p) \in img.bad}
  IN  IF bads = {} THEN upto ELSE CHOOSE p \in bads : \A q \in bads : p <= q

Fails(img, at) == BlockOf(at) \in img.bad
ReadAt(img, at, n) == SubSeq(img.bytes, at + 1, ReadEnd(img, at, n))

-----------------------------------------------------------------------------
(* Reading a file.  A plan is the head that the probe has read and the     *)
(* chunks that follow it, unless the probe rejected the file or something  *)
(* failed.                                                                 *)

Poisoned == [kind |-> "poisoned"]

\* Text with a byte order mark is never binary.
IsBinary(text) ==
  LET probed == FirstOf(text, ProbeLen)
  IN  /\ probed # <<>> /\ Head(probed) # BOM
      /\ \E p \in DOMAIN probed : probed[p] = Nul

NoPlan == [rejected |-> FALSE, failed |-> FALSE, head |-> <<>>, chunks |-> <<>>]
Rejected == [NoPlan EXCEPT !.rejected = TRUE]
Failed == [NoPlan EXCEPT !.failed = TRUE]

\* Chunks are read one after the other; a short one does not end the file, a
\* failed one does.
ReadAll(img, chunks) ==
  FoldLeft(LAMBDA acc, c :
             IF ~ acc.ok \/ Fails(img, c.at) THEN [acc EXCEPT !.ok = FALSE]
             ELSE [acc EXCEPT !.text = @ \o ReadAt(img, c.at, c.len)],
           [ok |-> TRUE, text |-> <<>>], chunks).text

\* read_file_content: the file as one text.
Whole(text, plan) ==
  [rejected |-> plan.rejected, failed |-> plan.failed,
   text     |-> IF plan.rejected \/ plan.failed THEN <<>> ELSE text]

ReadPlanned(img, plan, max) == Whole(FirstOf(plan.head \o ReadAll(img, plan.chunks), max), plan)
ReadInPlace(text, check) == Whole(text, IF check /\ IsBinary(text) THEN Rejected ELSE NoPlan)

\* split_chunks: pieces of at most ChunkSize.
Pieces(chunk) ==
  [k \in 1..((chunk.len + ChunkSize - 1) \div ChunkSize) |->
     [at  |-> chunk.at + (k - 1) * ChunkSize,
      len |-> Least(ChunkSize, chunk.len - (k - 1) * ChunkSize)]]

SplitChunks(chunks) == FlattenSeq([i \in DOMAIN chunks |-> Pieces(chunks[i])])

-----------------------------------------------------------------------------
(* Directory entries [id, name, type, stop, dos], where stop marks the end *)
(* of the list: a record length that is not valid, or a last entry.        *)

\* The entries before the end, without the unused ones.
Used(es) ==
  LET ends == {k \in DOMAIN es : es[k].stop} \cup {Len(es) + 1}
      end  == CHOOSE k \in ends : \A j \in ends : k <= j
  IN  SelectSeq(SubSeq(es, 1, end - 1), LAMBDA e : e.id # 0 /\ e.name # <<>>)
=============================================================================
