------------------------------ MODULE FileSearch ----------------------------
(***************************************************************************)
(* One worker searches one directory: dispatch_directory, without the      *)
(* subdirectories it queues, and process_files.  It reads the directory    *)
(* and its .gitignore and lists the files and subdirectories the options   *)
(* permit.  Of the files it looks ahead at those to come and keeps what it *)
(* found in a ring, leaves out files that need no search, searches the     *)
(* others, whole or streamed chunk by chunk, and records for the cache     *)
(* which fragments of the pattern each file contains.                      *)
(*                                                                         *)
(* The worker is alone with its directory: its state is touched by nobody  *)
(* else, and the cache and the verdicts it consults do not change during a *)
(* search.  One action is one round of a loop of the code.                 *)
(***************************************************************************)
EXTENDS RawFs, MatchLines, Presence, Gitignore, GitMeaning

CONSTANTS Ahead,        \* FILE_PREFETCH_AHEAD
          Ring,         \* FILE_RING
          MaxFile,      \* __MAX_FILE_BYTE_SIZE
          StreamMin,    \* STREAMING_THRESHOLD
          DecodeMax,    \* SMALL_FILE_DECODE_THRESHOLD, in characters
          Few, Ratio,   \* what makes a directory likely binary: 4 and 8
          GitName,      \* the name ".gitignore"
          ReservedDirs, \* names of directories that belong to tools
          Inputs        \* the searches considered, in families

ASSUME RingAssumption == Ahead \in Nat /\ Ring \in Nat /\ Ahead < Ring
ASSUME SizeAssumption == MaxFile \in Nat /\ StreamMin \in Nat \ {0}

(***************************************************************************)
(* What a search is given.  An image has the directory in dir: its node    *)
(* and its depth below the root.  An entry has the id of an inode, a name, *)
(* a type ("file", "dir" or "other") and what is known before its data is  *)
(* read: whether the extension is a binary one, what the table says of it  *)
(* ("binary", "text" or "unknown"), whether an earlier search recorded it  *)
(* as binary (verdict), and whether the cache lets it be skipped (skip).   *)
(***************************************************************************)
VARIABLES
  img, ignores, parent,         \* the image, the .gitignore files above, the path
  search, cli,                  \* the compiled pattern and the options
  entries, nodes,               \* the files of the directory and their inodes
  chain, subdirs,               \* the parsed rules, the subdirectories that are queued
  node, ahead, ring, tally,     \* process_files
  pc, carry, presence,          \* process_file_streaming
  chunks, searched, planned,
  out, rows, verdicts, outcome  \* what has been printed, recorded and decided

input == <<img, ignores, parent, search, cli>>
listing == <<entries, nodes, chain, subdirs>>
stream == <<carry, presence, chunks, searched, planned>>
vars == <<input, listing, node, ahead, ring, tally, pc, stream, out, rows, verdicts, outcome>>

Files == DOMAIN entries
find == search.find
need == search.need

-----------------------------------------------------------------------------
(* Options.                                                                *)

IgnoresSizes      == cli.unrestricted >= 1 \/ cli.large \/ cli.all
IgnoresGitignore  == cli.unrestricted >= 1 \/ cli.noIgnore \/ cli.all
SearchesBinary    == cli.unrestricted >= 3 \/ cli.binary \/ cli.all
IgnoresReserved   == cli.unrestricted >= 1 \/ cli.reserved
IgnoresAllFilters == cli.unrestricted >= 3 \/ cli.all
UsesCache         == ~ cli.noCache /\ need.frags # {}
Tracks            == UsesCache /\ ~ cli.noCacheWrite
Writes            == ~ cli.noCache /\ ~ cli.noCacheWrite

\* max_file_byte_size: the second case is usize::MAX.
MaxSize(n) == IF IgnoresSizes THEN n.size ELSE Least(n.size, MaxFile)
TooLarge(n) == ~ IgnoresAllFilters /\ ~ IgnoresSizes /\ n.size > MaxFile

-----------------------------------------------------------------------------
(* dispatch_directory_bytes, process_directory.                            *)

Path(e) == IF parent = <<>> THEN e.name ELSE parent \o <<Sep>> \o e.name

\* The directory's own rules; the empty set when there are none to load.
RuleLines(text) ==
  LET ends == SetToSortSeq(Newlines(text) \cup {Len(text) + 1}, <)
  IN  [k \in DOMAIN ends |-> SubSeq(text, IF k = 1 THEN 1 ELSE ends[k - 1] + 1, ends[k] - 1)]

TryLoadGitignore(id) ==
  {Parse(RuleLines(read.text)) :
     read \in {read \in {ReadFile(img, n, MaxSize(n), TRUE, FALSE) :
                           n \in {NodeOf(img, id)} \ {Poisoned}} : ~ read.failed}}

OwnRules(dirents) ==
  LET found == SelectSeq(dirents, LAMBDA e : e.name = GitName)
  IN  IF IgnoresGitignore \/ found = <<>> THEN {} ELSE TryLoadGitignore(found[1].id)

ChainWith(rules) ==
  IF rules = {} THEN chain
  ELSE WithGitignore(chain, img.dir.depth, Len(parent), CHOOSE r \in rules : TRUE)

\* An entry of another type is what its inode says, if that can be read.
TypeOf(e) ==
  IF e.type # "other" THEN e.type
  ELSE IF NodeOf(img, e.id) = Poisoned THEN "none"
  ELSE IF IsDir(NodeOf(img, e.id)) THEN "dir" ELSE "file"

Queued(e, rules) ==
  /\ TypeOf(e) = "dir"
  /\ IgnoresReserved \/ e.name \notin ReservedDirs
  /\ IgnoresGitignore \/ rules = <<>> \/ ~ ChainIgnores(rules, Path(e), TRUE)

\* sort_entries_by_offset: on ext4 in the order of the inodes on the device.
InOrder(files) == IF OnNtfs(img) THEN files ELSE SortSeq(files, LAMBDA a, b : a.id < b.id)

Listed(dirents) == SelectSeq(dirents, LAMBDA e : (cli.hidden \/ ~ Hidden(e)) /\ ~ IsDot(e))

ListEntries(files, dirs, rules) ==
  /\ entries' = files
  /\ nodes' = NodesOf(img, [i \in DOMAIN files |-> files[i].id])
  /\ chain' = rules
  /\ subdirs' = {e.id : e \in {e \in dirs : Queued(e, rules)}}
  /\ out' = [i \in DOMAIN files |-> <<>>] /\ rows' = [i \in DOMAIN files |-> {}]
  /\ outcome' = [i \in DOMAIN files |-> "pending"]

ListDirectory ==
  /\ pc = "list"
  /\ \E dirents \in {IF IsDir(img.dir.node)
                       THEN WithDirectoryEntries(img, img.dir.node, cli.hidden) ELSE <<>>} :
       ListEntries(InOrder(SelectSeq(Listed(dirents), LAMBDA e : TypeOf(e) = "file")),
                   Range(Listed(dirents)), ChainWith(OwnRules(dirents)))
  /\ pc' = "files"
  /\ UNCHANGED <<input, node, ahead, ring, tally, stream, verdicts>>

-----------------------------------------------------------------------------
(* lookahead_file.  An optional result is a set of at most one.            *)

Nothing == [of |-> {}, skip |-> {}, binary |-> {}]

DirLikely == tally.binary >= Few /\ tally.binary >= Ratio * tally.text

\* binary_hints.
Hints(e) == [known  |-> e.verdict,
             likely |-> e.verdict \/ e.table = "binary" \/ (e.table = "unknown" /\ DirLikely)]

Lookahead(i) ==
  LET e == entries[i]
      n == nodes[i]
  IN  IF n = Poisoned \/ TooLarge(n) THEN [Nothing EXCEPT !.of = {i}]
      ELSE IF ~ SearchesBinary /\ e.binaryExt
      THEN [of |-> {i}, skip |-> {}, binary |-> {[known |-> TRUE, likely |-> TRUE]}]
      ELSE IF UsesCache /\ e.skip THEN [of |-> {i}, skip |-> {TRUE}, binary |-> {}]
      ELSE [of     |-> {i},
            skip   |-> IF UsesCache THEN {FALSE} ELSE {},
            binary |-> IF SearchesBinary THEN {} ELSE {Hints(e)}]

\* The file in turn is File; the results of the files in the window are kept.
File == node + 1
Here == entries[File]
Inode == nodes[File]
Pre == ring[node % Ring]

\* Mutant: the window is as long as the ring.
WindowEndRing == Least(node + 1 + Ring, Len(entries))

WindowEnd == Least(node + 1 + Ahead, Len(entries))

LookAhead ==
  /\ pc = "files" /\ node < Len(entries) /\ ahead < WindowEnd
  /\ ring' = [ring EXCEPT ![ahead % Ring] = Lookahead(ahead + 1)]
  /\ ahead' = ahead + 1
  /\ UNCHANGED <<input, listing, node, tally, pc, stream, out, rows, verdicts, outcome>>

-----------------------------------------------------------------------------
(* process_file: the reasons to leave a file out, in their order.          *)

Ready == pc = "files" /\ node < Len(entries) /\ ahead >= WindowEnd

CacheSkips ==
  /\ UsesCache
  /\ IF Pre.skip # {} THEN TRUE \in Pre.skip ELSE Here.skip

Binary == IF Pre.binary # {} THEN CHOOSE b \in Pre.binary : TRUE ELSE Hints(Here)
\* Mutant: what the verdicts say holds although binary files are wanted.
KnownBinaryAlways == Binary.known \/ Here.binaryExt

KnownBinary == ~ SearchesBinary /\ (Binary.known \/ Here.binaryExt)
Likely == ~ SearchesBinary /\ Binary.likely

Ignored == ~ IgnoresGitignore /\ chain # <<>> /\ ChainIgnores(chain, Path(Here), FALSE)

\* What becomes of the file in turn.
Fate ==
  IF Inode = Poisoned THEN "poisoned"
  ELSE IF TooLarge(Inode) THEN "large"
  ELSE IF CacheSkips THEN "cached"
  ELSE IF KnownBinary THEN "binary"
  ELSE IF Ignored THEN "ignored"
  ELSE IF MaxSize(Inode) < StreamMin THEN "buffered" ELSE "streamed"

LeaveOut ==
  /\ Ready
  /\ \E fate \in {"poisoned", "large", "cached", "binary", "ignored"} :
       /\ Fate = fate
       /\ outcome' = [outcome EXCEPT ![File] = fate]
  /\ node' = node + 1
  /\ UNCHANGED <<input, listing, ahead, ring, tally, pc, stream, out, rows, verdicts>>

-----------------------------------------------------------------------------
(* The end of process_file, after a search.                                *)

\* The row recorded for a file: all fragments after a match of the only word,
\* else the row that was built, if the whole file went into it.
Record(found, exact, row) ==
  rows' = IF ~ Writes THEN rows
          ELSE IF found /\ need.single THEN [rows EXCEPT ![File] = {need.frags}]
          ELSE IF exact THEN [rows EXCEPT ![File] = {row}]
          ELSE rows

\* The probe's verdict is counted, and kept when it rejected the file.
Judge(rejected) ==
  /\ tally' = IF SearchesBinary THEN tally
              ELSE IF rejected THEN [tally EXCEPT !.binary = @ + 1]
              ELSE [tally EXCEPT !.text = @ + 1]
  /\ verdicts' = IF rejected THEN verdicts \cup {File} ELSE verdicts

Finish(fate, rejected, found, exact, row) ==
  /\ outcome' = [outcome EXCEPT ![File] = IF rejected THEN "rejected" ELSE fate]
  /\ Judge(rejected)
  /\ Record(found, exact, row)
  /\ node' = node + 1

\* An error ends process_files: the files behind this one stay unsearched.
GiveUp ==
  /\ outcome' = [outcome EXCEPT ![File] = "failed"]
  /\ pc' = "done"
  /\ UNCHANGED <<node, tally, rows, verdicts, out>>

Emit(lines) == out' = [out EXCEPT ![File] = @ \o lines]

-----------------------------------------------------------------------------
(* process_file_buffered: the file is read and searched whole.             *)

Small(body) == body # <<>> /\ Len(body) <= DecodeMax

LinesOf(text) ==
  IF ~ IsWide(text) THEN PrintRegion(text, find, 1).out
  ELSE IF Small(Tail(text)) THEN PrintRegion(Tail(text), find, 1).out
  ELSE PrintByLine(Tail(text), find, 1).out

\* check_fragment_presence: wide text is decoded, in spans when it is long.
RowOf(text) ==
  IF ~ IsWide(text) THEN Scan(text, need)
  ELSE IF Small(Tail(text)) THEN Scan(Tail(text), need)
  ELSE FeedWide([row |-> {}, seam |-> <<>>], Tail(text), NL, need).row

SearchBuffered ==
  /\ Ready /\ Fate = "buffered"
  /\ \E read \in {ReadFile(img, Inode, MaxSize(Inode), ~ SearchesBinary, Likely)} :
     \E got \in {IF read.rejected THEN <<>> ELSE LinesOf(read.text)} :
         \/ read.failed /\ GiveUp
         \/ /\ ~ read.failed
            /\ Emit(got)
            /\ Finish("buffered", read.rejected, got # <<>>, TRUE, RowOf(read.text))
            /\ UNCHANGED pc
  /\ UNCHANGED <<input, listing, ahead, ring, stream>>

-----------------------------------------------------------------------------
(* process_file_streaming.                                                 *)

\* The row grows until a match makes it unnecessary.  A wide chunk is scanned
\* as far as it was decoded, a raw one all its new bytes.
FeedPresence(after, fresh) ==
  IF ~ Tracks \/ (after.found /\ need.single) THEN presence
  ELSE IF after.enc = "wide" THEN FeedWide(presence, after.consumed, NL, need)
  ELSE Feed(presence, fresh, need)

\* Search data, which ends with the bytes fresh that were not seen before.
SearchChunk(data, fresh, before, last) ==
  \E in \in {InChunk(data, before, last, find)} :
      /\ carry' = in.carry
      /\ presence' = FeedPresence(in.carry, fresh)
      /\ Emit(in.out)

StartStreaming ==
  /\ Ready /\ Fate = "streamed"
  /\ \E plan \in {CollectChunks(img, Inode, MaxSize(Inode), ~ SearchesBinary, Likely)} :
     \E cut \in {SplitChunks(plan.chunks)} :
         \/ plan.failed /\ GiveUp /\ UNCHANGED stream
         \/ /\ plan.rejected
            /\ Finish("streamed", TRUE, FALSE, Tracks, {})
            /\ UNCHANGED <<pc, stream, out>>
         \/ /\ ~ plan.failed /\ ~ plan.rejected
            /\ SearchChunk(plan.head, plan.head, NoCarry, FALSE)
            /\ chunks' = cut
            /\ searched' = Len(plan.head)
            /\ planned' = FoldLeft(LAMBDA n, c : n + c.len, Len(plan.head), cut)
            /\ pc' = "chunks"
            /\ UNCHANGED <<node, tally, rows, verdicts, outcome>>
  /\ UNCHANGED <<input, listing, ahead, ring>>

\* What a chunk's reads deliver: they go on until it is full or nothing comes.
Delivered(c) == IF Fails(img, c.at) THEN <<>> ELSE ReadAt(img, c.at, c.len)

StreamChunk ==
  /\ pc = "chunks" /\ chunks # <<>>
  /\ \E got \in {Delivered(Head(chunks))} :
     LET full == Len(got) = Head(chunks).len
     IN  /\ chunks' = IF full THEN Tail(chunks) ELSE <<>>
         /\ searched' = searched + Len(got)
         /\ IF got = <<>> THEN UNCHANGED <<carry, presence, out>>
            ELSE SearchChunk(carry.tail \o got, got, [carry EXCEPT !.tail = <<>>],
                             full /\ Len(chunks) = 1 /\ Last(got) = NL)
  /\ UNCHANGED <<input, listing, node, ahead, ring, tally, pc, planned, rows, verdicts, outcome>>

\* The last line, when it has no newline.
FlushTail ==
  /\ pc = "chunks" /\ chunks = <<>> /\ carry.tail # <<>>
  /\ SearchChunk(carry.tail, <<>>, [carry EXCEPT !.tail = <<>>], TRUE)
  /\ UNCHANGED <<input, listing, node, ahead, ring, tally, pc, chunks, searched, planned,
                 rows, verdicts, outcome>>

EndStreaming ==
  /\ pc = "chunks" /\ chunks = <<>> /\ carry.tail = <<>>
  /\ Finish("streamed", FALSE, carry.found,
            Tracks /\ searched = planned /\ MaxSize(Inode) >= Inode.size, presence.row)
  /\ pc' = "files"
  /\ carry' = NoCarry
  /\ presence' = [row |-> {}, seam |-> <<>>]
  /\ searched' = 0 /\ planned' = 0
  /\ UNCHANGED <<input, listing, ahead, ring, chunks, out>>

EndDirectory ==
  /\ pc = "files" /\ node = Len(entries)
  /\ pc' = "done"
  /\ UNCHANGED <<input, listing, node, ahead, ring, tally, stream, out, rows, verdicts, outcome>>

-----------------------------------------------------------------------------
\* The worker's state before it lists the directory.
InitWorker ==
  /\ entries = <<>> /\ nodes = <<>> /\ subdirs = {}
  /\ node = 0 /\ ahead = 0 /\ pc = "list"
  /\ ring = [s \in 0..(Ring - 1) |-> Nothing]
  /\ tally = [binary |-> 0, text |-> 0]
  /\ carry = NoCarry /\ presence = [row |-> {}, seam |-> <<>>]
  /\ chunks = <<>> /\ searched = 0 /\ planned = 0
  /\ out = <<>> /\ rows = <<>> /\ verdicts = {} /\ outcome = <<>>

\* A search of one of the families, and the rules of the directories above.
InitSearch ==
  /\ \E f \in DOMAIN Inputs : \E x \in Inputs[f] :
       /\ img = x.img /\ ignores = x.ignores /\ parent = x.parent
       /\ search = Compiled(x.pat, x.cli.ignoreCase, x.cli.word)
       /\ cli = x.cli
  /\ chain = IF IgnoresGitignore THEN <<>>
             ELSE FoldLeft(LAMBDA c, g : WithGitignore(c, g.depth, g.prefix, Parse(g.lines)),
                           <<>>, ignores)

Init == InitSearch /\ InitWorker

Returned == pc = "done" /\ UNCHANGED vars

Next == \/ ListDirectory \/ LookAhead \/ LeaveOut \/ SearchBuffered \/ StartStreaming
        \/ StreamChunk \/ FlushTail \/ EndStreaming \/ EndDirectory \/ Returned

Spec == Init /\ [][Next]_vars

-----------------------------------------------------------------------------
(* Type correctness.                                                       *)

Fates == {"pending", "poisoned", "large", "cached", "binary", "ignored",
          "failed", "rejected", "buffered", "streamed"}

\* A node of an extent tree: its valid extents lie on the device.
NodeFormed(t) ==
  IF t.depth = 0
  THEN /\ t.entries \in Seq([start : Nat, len : Nat])
       /\ \A e \in Range(t.entries) : e.len > 0 => (e.start + e.len) * Block <= Len(img.bytes)
  ELSE t.entries \in Seq(Nat)

\* The device has whole blocks, and an inode is of the file system's own kind;
\* what it says of its file's places is on the device, and what it holds of its
\* file itself is less than is streamed.
DeviceFormed ==
  /\ img.bytes \in Seq(Range(img.bytes)) /\ Len(img.bytes) % Block = 0
  /\ ~ OnNtfs(img) => \A b \in DOMAIN img.tree : NodeFormed(img.tree[b])
FileFormed(n) ==
  /\ \/ n = Poisoned
     \/ n.kind \in IF OnNtfs(img) THEN {"resident", "runs", "damaged", "nodata", "dir"}
                   ELSE {"inline", "extents", "direct"}
  /\ n.kind \in {"extents", "direct", "runs"} => n.size \in Nat
  /\ n.kind \in {"inline", "resident"} =>
       n.size \in 0..(StreamMin - 1) /\ n.data \in Seq(Range(n.data))
  /\ n.kind = "extents" => NodeFormed(n.root)
  /\ n.kind = "direct" => n.blocks \in Seq(Nat)
  /\ n.kind = "runs" =>
       /\ n.runs \in Seq([len : Nat, step : SUBSET Int])
       /\ \A r \in Range(DecodeRuns(n.runs)) : \A l \in r.lcn :
            l \in Nat /\ (l + r.len) * Block <= Len(img.bytes)
Formed == DeviceFormed /\ \A i \in Files : FileFormed(nodes[i])

\* What is searched for: fragments have a length, and words are texts.
SearchFormed ==
  /\ cli.unrestricted \in Nat
  /\ need.len \in Nat \ {0}
  /\ \A w \in find.words : w \in Seq(Range(w))

\* The image and the search are formed, and the worker's own state has the shape
\* process_files gives it.
TypeOK ==
  /\ Formed /\ SearchFormed
  /\ node \in 0..Len(entries) /\ ahead \in 0..Len(entries)
  /\ \A s \in 0..(Ring - 1) : /\ ring[s].of \subseteq Files /\ ring[s].skip \subseteq BOOLEAN
                              /\ \A b \in ring[s].binary : b.known \in BOOLEAN /\ b.likely \in BOOLEAN
  /\ tally.binary \in Nat /\ tally.text \in Nat
  /\ pc \in {"list", "files", "chunks", "done"}
  /\ carry.found \in BOOLEAN /\ carry.line \in Nat /\ carry.enc \in {"unknown", "raw", "wide"}
  /\ presence.row \subseteq need.frags /\ Len(presence.seam) < need.len
  /\ searched \in 0..planned
  /\ verdicts \subseteq Files
  /\ \A i \in Files : outcome[i] \in Fates /\ rows[i] \subseteq SUBSET need.frags

-----------------------------------------------------------------------------
(* What a file really holds, said without the reader's machinery.          *)

\* Where the first max bytes of a file are: of its extents on ext4, where only
\* mapped blocks count; of its runs on NTFS, where holes count but hold nothing.
Stretch(start, len) == [k \in 1..(len * Block) |-> start * Block + k]
ExtentPlaces(n) ==
  FlattenSeq(LET all == ExtentsOf(img, n)
             IN  [i \in DOMAIN all |-> Stretch(all[i].start, all[i].len)])
RunPlaces(runs, max) ==
  FlattenSeq([i \in DOMAIN runs |->
    IF runs[i].lcn = {} \/ runs[i].vcn * Block >= max THEN <<>>
    ELSE FirstOf(Stretch(CHOOSE l \in runs[i].lcn : TRUE, runs[i].len), max - runs[i].vcn * Block)])
Places(n, max) ==
  IF n.kind = "runs" THEN RunPlaces(DecodeRuns(n.runs), max)
  ELSE IF n.kind \in {"extents", "direct"} THEN FirstOf(ExtentPlaces(n), max) ELSE <<>>

BytesAt(places) == [k \in DOMAIN places |-> img.bytes[places[k]]]
ContentTo(n, max) ==
  IF n.kind \in {"inline", "resident"} THEN FirstOf(n.data, max) ELSE BytesAt(Places(n, max))
Content(n) == ContentTo(n, n.size)

\* The bytes before the first one that cannot be read.
BadAmong(places) == {k \in DOMAIN places : BlockOf(places[k] - 1) \in img.bad}
BadPlaces(n) == BadAmong(Places(n, n.size))
Before(text, places) ==
  FirstOf(text, (CHOOSE k \in places \cup {Len(text) + 1} : \A j \in places : k <= j) - 1)
Sound(n) == Before(Content(n), BadPlaces(n))

Body(text) == IF IsWide(text) THEN Tail(text) ELSE text

\* The lines of a text with their numbers, and those that hold a word of the
\* pattern.
LinesTo(text, ends) ==
  [k \in DOMAIN ends |-> <<k, SubSeq(text, IF k = 1 THEN 1 ELSE ends[k - 1] + 1, ends[k] - 1)>>]
Lines(text) ==
  LinesTo(text, SetToSortSeq(Newlines(text)
    \cup (IF text # <<>> /\ Last(text) # NL THEN {Len(text) + 1} ELSE {}), <))
Wanted(text) == SelectSeq(Lines(text), LAMBDA l : Occurrences(l[2], find) # {})

\* On NTFS the head that the probe has read may be all there is of the first
\* run: then the code reads as much again from behind the run.
Doubled(n, max) ==
  /\ n.kind = "runs"
  /\ \E runs \in {DecodeRuns(n.runs)} : \E k \in DOMAIN runs :
       /\ runs[k].lcn # {} /\ \A j \in 1..(k - 1) : runs[j].lcn = {}
       /\ Least(runs[k].len * Block, max - runs[k].vcn * Block) <= Least(Block, max)

\* A file whose search can be judged: it has no bad block, or it is streamed
\* and its probe could be read.
Judged(i) ==
  /\ SearchesBinary \/ ~ Doubled(nodes[i], nodes[i].size)
  /\ \/ outcome[i] = "buffered" /\ BadPlaces(nodes[i]) = {}
     \/ outcome[i] = "streamed" /\ (Sound(nodes[i]) # <<>> \/ Content(nodes[i]) = <<>>)

\* The entries of the directory that can be read: on ext4 those before the
\* first bad block, on NTFS those of the record and of every block; in each
\* list those before its end.
Listable(es) ==
  {es[k] : k \in {k \in DOMAIN es : \A j \in 1..k : ~ es[j].stop}}
IndexBlocks(runs) == {c \in DOMAIN img.index : \E v \in 0..(Total(runs) - 1) :
                        v % PerIndex = 0 /\ c \in Clusters(runs, v)}
DirSound(n) ==
  LET places == FirstOf(ExtentPlaces(n), n.size)
      bad    == {k \in DOMAIN places : BlockOf(places[k] - 1) \in img.dir.bad}
  IN  Before([k \in DOMAIN places |-> img.dir.bytes[places[k]]], bad)
DirHolds(n) ==
  IF ~ IsDir(n) THEN {}
  ELSE IF OnNtfs(img)
  THEN Listable(n.root) \cup UNION {Listable(img.index[c]) : c \in IndexBlocks(DecodeRuns(n.runs))}
  ELSE Listable(DirSound(n.as))

\* Those that are names of something, and those that the options let be seen.
Named == {e \in DirHolds(img.dir.node) : e.id # 0 /\ e.name # <<>> /\ ~ e.dos}
Seen == {e \in Named : e.name \notin {<<".">>, <<".", ".">>} /\ (cli.hidden \/ e.name[1] # ".")}

\* The inode that the image has for an id.
InodeOf(id) ==
  IF OnNtfs(img)
  THEN UNION {{img.records[c][id % PerCluster]} :
                c \in Clusters(DecodeRuns(img.mft), id \div PerCluster) \cap DOMAIN img.records}
  ELSE IF InodeBlock(id) \in DOMAIN img.inodes
  THEN {img.inodes[InodeBlock(id)][InodeSlot(id)]} ELSE {}

\* A subdirectory that is no tool's.
Subdir(e) == /\ e.type = "dir" \/ (e.type = "other" /\ \E n \in InodeOf(e.id) : IsDir(n))
             /\ e.name \in ReservedDirs => IgnoresReserved

-----------------------------------------------------------------------------
(* Ignore rules and their meaning.                                         *)

\* The .gitignore files that decide: those above and, unless it is hidden from
\* the listing, the directory's own.
OwnFile == UNION {InodeOf(e.id) : e \in {e \in DirHolds(img.dir.node) :
                     e.name = GitName /\ e.id # 0 /\ (OnNtfs(img) => cli.hidden)}}
OwnLines == {RuleLines(ContentTo(n, MaxSize(n))) : n \in OwnFile \ {Poisoned}}
RuleFiles ==
  IF IgnoresGitignore THEN <<>>
  ELSE IF OwnLines = {} THEN ignores
  ELSE Append(SelectSeq(ignores, LAMBDA g : g.depth < img.dir.depth),
              [depth |-> img.dir.depth, prefix |-> Len(parent),
               lines |-> CHOOSE lines \in OwnLines : TRUE])

\* The forms whose matcher is known to differ from git's: a literal below "**/"
\* only matches at the top, the part before "/**/" is compared as a literal,
\* and in a pattern with a slash a star may pass a separator that comes
\* directly after the characters it has taken.
Misses(line) ==
  LET pat == Pattern(line)
  IN  \/ IsPrefix(<<"*", "*", Sep>>, pat) /\ ~ Has(From(pat, 4), Wild)
      \/ \E r \in {Parse(<<line>>)[k] : k \in DOMAIN Parse(<<line>>)} :
           r.mid # Absent /\ Has(r.mid, Wild)
Exceeds(line) == Tied(line) /\ Has(Pattern(line), {"*"})

\* A verdict that is git's.  Of the forms above only one direction is asked.
AsGit(ignored, path, isDir) ==
  \A files \in {RuleFiles} : \A lines \in {UNION {Range(files[f].lines) : f \in DOMAIN files}} :
    \A git \in {GitIgnored(files, path, isDir)},
       misses \in {\E l \in lines : Misses(l)}, exceeds \in {\E l \in lines : Exceeds(l)},
       negates \in {\E l \in lines : Negates(l)} :
      /\ git /\ ~ misses /\ ~ (negates /\ exceeds) => ignored
      /\ ignored /\ ~ exceeds /\ ~ (negates /\ misses) => git

-----------------------------------------------------------------------------
(* Safety.                                                                 *)

\* The lookahead's result that process_file is handed is that of its own file,
\* although the ring is overwritten while the window moves on.
RingOwn == Ready => Pre.of = {File}

\* The lines printed for a file are the lines of its readable part that hold a
\* word of the pattern, all of them, once, in order: across chunks, a line cut
\* in two, a last line without newline and a read error in a chunk.  The number
\* printed is the line's own, except that a streamed file that needs no decoding
\* may number the lines after its first match too low; they still increase.
EachLineOnce ==
  \A i \in Files : Judged(i) =>
    \A text \in {Sound(nodes[i])} : \A lines \in {Wanted(Body(text))} :
      /\ Len(out[i]) = Len(lines)
      /\ \A k \in DOMAIN lines :
           /\ out[i][k][2] = lines[k][2]
           /\ out[i][k][1] <= lines[k][1]
           /\ k = 1 \/ outcome[i] = "buffered" \/ IsWide(text) => out[i][k][1] = lines[k][1]
           /\ k > 1 => out[i][k - 1][1] < out[i][k][1]

\* What the comment in the chunk search says of carry.line_num, that it stays
\* correct for whatever chunk comes next (worker.rs:2187-2188): the number
\* printed with a line is the line's own.
NumbersExact ==
  \A i \in Files : Judged(i) =>
    \A lines \in {Wanted(Body(Sound(nodes[i])))} :
      \A k \in DOMAIN lines \cap DOMAIN out[i] : out[i][k][1] = lines[k][1]

\* A row recorded for a file that was not rejected is true of the whole file:
\* it is the fragments of the pattern that the file holds.  A streamed file that
\* could not be read to its end has a row only if it has them all.
RowsExact ==
  \A i \in Files : Judged(i) => rows[i] \subseteq {Scan(Body(Content(nodes[i])), need)}

\* The files of a directory are the entries it holds for files, each once and
\* with the inode of its own id, or none when that cannot be read; and so are the
\* subdirectories that are queued.  A block of the inode table kept from the file
\* before, a DOS name, a hole in an index, a block or an inode that cannot be read
\* and a list that ends early take no other entry with them.
EntriesRight ==
  pc # "list" =>
    \A regular \in {{e \in Seen : e.type = "file" \/ (e.type = "other" /\
                          \E n \in InodeOf(e.id) \ {Poisoned} : ~ IsDir(n))}} :
      /\ Range(entries) = regular /\ Len(entries) = Cardinality(regular)
      /\ \A i \in Files : {nodes[i]} = IF InodeOf(entries[i].id) = {} THEN {Poisoned}
                                       ELSE InodeOf(entries[i].id)
      /\ \A e \in Seen \ regular :
           /\ e.id \in subdirs => Subdir(e)
           /\ Subdir(e) => IF IgnoresGitignore THEN e.id \in subdirs
                           ELSE AsGit(e.id \notin subdirs, Path(e), TRUE)

\* The probed head and the chunks are the file's bytes, each once and in order,
\* up to the limit, whether or not the head was probed and however long the
\* probe; no chunk that is streamed is longer than the buffer.
HeadAndChunksCover ==
  pc = "done" =>
    \A i \in Files : nodes[i].kind \in {"extents", "direct", "runs"} =>
      \A max \in 1..nodes[i].size, check \in BOOLEAN, likely \in BOOLEAN :
        \A plan \in {CollectChunks(img, nodes[i], max, check, likely)} :
        \A cut \in {SplitChunks(plan.chunks)} :
          BadPlaces(nodes[i]) = {} /\ ~ plan.rejected /\ ~ (check /\ Doubled(nodes[i], max)) =>
            /\ plan.head \o FlattenSeq([c \in DOMAIN cut |->
                 SubSeq(img.bytes, cut[c].at + 1, cut[c].at + cut[c].len)])
               = ContentTo(nodes[i], max)
            /\ \A c \in DOMAIN cut : cut[c].len \in 1..ChunkSize

\* What a row of the cache says of a file is said of its matches: every text the
\* pattern matches holds all fragments, or some when it has several alternatives
\* (extractor.rs:3-6).  A file that lacks them can be skipped.
LiteralsRequired ==
  pc = "list" =>
    \A w \in find.words :
      /\ need.frags # {} => Scan(w, need) # {}
      /\ search.kind # "multi" \/ Cardinality(find.words) = 1 => Scan(w, need) = need.frags

\* A file is ignored exactly when the last line of its chain that matches says
\* so: although rules without negations are tried in another order, suffixes,
\* prefixes and "**" have shortcuts, and the chain stops early.
IgnoresAsGit ==
  pc = "done" /\ ~ IgnoresGitignore =>
    \A i \in Files, isDir \in BOOLEAN :
      AsGit(chain # <<>> /\ ChainIgnores(chain, Path(entries[i]), isDir), Path(entries[i]), isDir)

\* A file is searched unless it has a reason of its own to be left out, which
\* the options do not waive.  Only a file whose run list is damaged keeps others,
\* those behind it, from being looked at.
SearchedUnlessLeftOut ==
  \A i \in Files :
    LET n == nodes[i]
        e == entries[i]
    IN  /\ outcome[i] = "pending" /\ pc = "done" =>
             \E j \in 1..(i - 1) : outcome[j] = "failed" /\ nodes[j].kind = "damaged"
        /\ outcome[i] # "pending" =>
          (outcome[i] \in {"buffered", "streamed", "rejected", "failed"} <=>
          /\ n # Poisoned
          /\ n.size <= MaxFile \/ IgnoresSizes \/ IgnoresAllFilters
          /\ ~ (e.skip /\ UsesCache)
          /\ ~ (e.verdict \/ e.binaryExt) \/ SearchesBinary
          /\ IgnoresGitignore \/ ~ (chain # <<>> /\ ChainIgnores(chain, Path(e), FALSE)))
=============================================================================
