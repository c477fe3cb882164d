---------------------------- MODULE MCFileSearch ----------------------------
(* Instances of FileSearch for TLC: searches of ten families.              *)
EXTENDS FileSearch, TLC

Texts(chars, lens) == UNION {[1..k -> chars] : k \in lens}

\* The kelvin sign is a letter that folds to an ASCII one.
MCWordChars == {"a", "b", "A", "k", "K", "kelvin"}
MCLowerOf == "A" :> "a" @@ "K" :> "k"
MCKin == "kelvin" :> "k"

MCGitName == <<".", "g">>
MCReservedDirs == {<<"r">>}

Plain == [unrestricted |-> 0, large |-> FALSE, all |-> FALSE, noIgnore |-> FALSE,
          binary |-> FALSE, noCache |-> FALSE, noCacheWrite |-> FALSE,
          ignoreCase |-> FALSE, word |-> FALSE, hidden |-> FALSE, reserved |-> FALSE]

Entry(id) == [id |-> id, name |-> <<"a">>, type |-> "file", stop |-> FALSE, dos |-> FALSE,
              binaryExt |-> FALSE, verdict |-> FALSE, table |-> "unknown", skip |-> FALSE]

-----------------------------------------------------------------------------
(* Patterns: trees are put together under a new root.                      *)

Moved(n, by) ==
  IF n.op \in {"concat", "alt"} THEN [n EXCEPT !.subs = [k \in DOMAIN @ |-> @[k] + by]]
  ELSE IF n.op \in {"group", "repeat"} THEN [n EXCEPT !.sub = @ + by] ELSE n

Joint(op, joint) == Append(joint.nodes, [op |-> op, subs |-> joint.roots])
Put(op, trees) ==
  Joint(op, FoldLeft(LAMBDA acc, t :
    [nodes |-> acc.nodes \o [i \in DOMAIN t |-> Moved(t[i], Len(acc.nodes))],
     roots |-> Append(acc.roots, Len(acc.nodes) + Len(t))],
    [nodes |-> <<>>, roots |-> <<>>], trees))

Class(chars) == <<[op |-> "class", chars |-> chars]>>
Empty == <<[op |-> "empty"]>>
Group(t) == Append(t, [op |-> "group", sub |-> Len(t)])
Repeat(t, min, max) == Append(t, [op |-> "repeat", sub |-> Len(t), min |-> min, max |-> max])
Word(text) == Put("concat", [k \in DOMAIN text |-> Class({text[k]})])
Concat(trees) == Put("concat", trees)
Alt(trees) == Put("alt", trees)

Hit == <<"a", "b", "a">>

-----------------------------------------------------------------------------
(* Images.                                                                 *)

Inline(text) == [kind |-> "inline", size |-> Len(text), data |-> text]

Extent(start, len) == [start |-> start, len |-> len]
Flat(extents) == [depth |-> 0, entries |-> extents]

Laid(text, extents) ==
  [kind |-> "extents", size |-> Len(text), root |-> Flat(extents)]

\* An inode table that holds the given nodes, in blocks of PerBlock.
Table(inodes, lost) ==
  [b \in (0..((Len(inodes) - 1) \div PerBlock)) \ lost |->
     [s \in 0..(PerBlock - 1) |->
        IF b * PerBlock + s < Len(inodes) THEN inodes[b * PerBlock + s + 1] ELSE Poisoned]]

\* A directory in one extent of its own device.
DirOf(dirents, depth, bad) ==
  [node |-> [kind |-> "dir", as |-> Laid(dirents, <<Extent(0, Len(dirents))>>)],
   depth |-> depth, bytes |-> dirents, bad |-> bad]

NoTree == <<>>
Image(bytes, bad, tree, inodes, lost, dir) ==
  [fs |-> "ext4", bytes |-> bytes, bad |-> bad, tree |-> tree,
   inodes |-> Table(inodes, lost), dir |-> dir]

Search(image, pattern, options) ==
  [img |-> image, ignores |-> <<>>, parent |-> <<>>, pat |-> pattern, cli |-> options]

One(bytes, bad, tree, inode, pattern, options) ==
  Search(Image(bytes, bad, tree, <<inode>>, {}, DirOf(<<Entry(1)>>, 0, {})), pattern, options)

-----------------------------------------------------------------------------
(* Directories of three files with every reason to leave one out.          *)

Binaries == <<Nul, "a">>
Long == Hit \o Hit \o Hit \o <<"a">>
Kinds == {[node |-> Inline(Hit), entry |-> Entry(0)],
          [node |-> Inline(Hit), entry |-> [Entry(0) EXCEPT !.skip = TRUE, !.table = "text"]],
          [node |-> Inline(Hit), entry |-> [Entry(0) EXCEPT !.binaryExt = TRUE]],
          [node |-> Inline(Hit), entry |-> [Entry(0) EXCEPT !.verdict = TRUE]],
          [node |-> Inline(Binaries), entry |-> [Entry(0) EXCEPT !.name = <<"b">>]],
          [node |-> Laid(Long, <<Extent(0, 5)>>), entry |-> Entry(0)]}

Options == {Plain,
            [Plain EXCEPT !.unrestricted = 1], [Plain EXCEPT !.unrestricted = 3],
            [Plain EXCEPT !.large = TRUE], [Plain EXCEPT !.all = TRUE],
            [Plain EXCEPT !.binary = TRUE, !.noIgnore = TRUE],
            [Plain EXCEPT !.noCache = TRUE], [Plain EXCEPT !.noCacheWrite = TRUE]}

\* Ignore rules matter with few options, and so does an inode block that is lost.
Surroundings == {[lost |-> {}, lines |-> <<>>, cli |-> options] : options \in Options}
  \cup {[lost |-> {}, lines |-> <<<<"a">>>>, cli |-> options] :
          options \in {Plain, [Plain EXCEPT !.unrestricted = 1], [Plain EXCEPT !.noIgnore = TRUE]}}
  \cup {[lost |-> {b}, lines |-> <<>>, cli |-> Plain] : b \in {0, 1}}

Batches ==
  {[Search(Image(Long, {}, NoTree, [i \in 1..3 |-> ks[i].node], around.lost,
                 DirOf([i \in 1..3 |-> [ks[i].entry EXCEPT !.id = i]], 0, {})),
           Word(Hit), around.cli)
      EXCEPT !.ignores = <<[depth |-> 0, prefix |-> 0, lines |-> around.lines]>>] :
     ks \in [1..3 -> Kinds], around \in Surroundings}

-----------------------------------------------------------------------------
(* One file, of every content, in a few places, with bad blocks.           *)

\* The file's blocks, put at the given places of a device of n blocks.
Placed(text, places, n) ==
  [p \in 1..(n * Block) |->
     LET at == {k \in DOMAIN places : places[k] = (p - 1) \div Block}
         q  == ((CHOOSE k \in at : TRUE) - 1) * Block + ((p - 1) % Block) + 1
     IN  IF at # {} /\ q <= Len(text) THEN text[q] ELSE "b"]

Contents == Texts({"a", "b", NL}, {1, 4, 5}) \cup {<<BOM>> \o t : t \in Texts({"a", "b", NL}, 2..4)}
            \cup {t \o u : t \in Texts({"a", NL}, {4}), u \in {<<"a", "b", "a">>, <<NL, "a", NL>>}}
            \cup {<<Nul>> \o Hit \o Hit}

\* One run of blocks, or a run that ends where another file begins.
Layouts == {[places |-> <<1, 2, 3, 4>>, extents |-> <<Extent(1, 4)>>],
            [places |-> <<4, 1, 2, 3>>, extents |-> <<Extent(4, 1), Extent(1, 3)>>]}

PatternSets == {Word(Hit), Alt(<<Word(Hit), Word(<<"b", "b">>)>>),
                Alt(<<Word(<<"a", "a">>), Word(<<"b", "a", "a">>)>>), Word(<<"b">>)}

\* With probe and without, and one block that cannot be read.
Troubles == {[bad |-> {}, cli |-> Plain], [bad |-> {}, cli |-> [Plain EXCEPT !.binary = TRUE]],
             [bad |-> {3}, cli |-> Plain]}

ContentSearches ==
  {One(Placed(text, lay.places, 6), trouble.bad, NoTree, Laid(text, lay.extents),
       pattern, trouble.cli) :
     text \in Contents, lay \in Layouts, pattern \in PatternSets, trouble \in Troubles}

-----------------------------------------------------------------------------
(* One file laid out in every way.                                         *)

Letters == <<"c", "d", "e", "f", "g", "h", "i", "j", "k", "l", "m", "o">>

Apart(es) == \A i, j \in DOMAIN es : i < j /\ es[i].len > 0 /\ es[j].len > 0 =>
               \/ es[i].start + es[i].len <= es[j].start
               \/ es[j].start + es[j].len <= es[i].start
ExtentLists == {es \in Texts([start : {0, 2, 3}, len : 0..2], 0..3) : Apart(es)}

\* Trees: 10 is a leaf, 11 one without valid extents, 12 cannot be read and 13
\* has children.
Tree(es, kids) ==
  [b \in {10, 11, 13} |->
     IF b = 10 THEN Flat(es)
     ELSE IF b = 11 THEN Flat(<<Extent(0, 0)>>) ELSE [depth |-> 1, entries |-> kids]]

Laying ==
  {[tree |-> NoTree, node |-> [kind |-> "extents", size |-> size, root |-> Flat(es)]] :
     es \in ExtentLists, size \in {1, 3, 4, 7}}
  \cup {[tree |-> Tree(es, kids),
         node |-> [kind |-> "extents", size |-> size, root |-> [depth |-> d, entries |-> top]]] :
          es \in {<<Extent(2, 2)>>, <<Extent(0, 0), Extent(4, 1), Extent(1, 2)>>},
          kids \in {<<10>>, <<11, 10>>, <<12, 10>>, <<>>},
          top \in {<<10>>, <<13>>, <<11, 13>>, <<12, 10>>, <<>>},
          d \in {1}, size \in {2, 5}}
  \cup {[tree |-> NoTree, node |-> [kind |-> "direct", size |-> size, blocks |-> bs]] :
          bs \in [1..3 -> {0, 1, 2, 4, 9}], size \in {1, 3, 5}}

LayoutSearches ==
  {One(Letters, bad, l.tree, l.node, Word(Hit), Plain) : l \in Laying, bad \in {{}, {2}}}

-----------------------------------------------------------------------------
(* One file and one or two lines of ignore rules.                          *)

S == "*"
A == "a"
LongPatterns == {<<A, Sep, S, S, Sep, "b">>, <<S, S, Sep, A, Sep, "b">>, <<A, Sep, S, S, Sep, S>>,
                 <<S, S, Sep, A, S, Sep, "b">>, <<S, S, Sep, A, Sep, S, S>>, <<A, S, Sep, S, S, Sep, "b">>,
                 <<Sep, S, S, Sep, "b">>, <<A, Sep, S, S, S, "b">>}
OneLine == {<<l>> : l \in Texts({A, Sep, S, "?"}, 1..4) \cup LongPatterns}

ShortLines == {<<A>>, <<S>>, <<"b", Sep>>, <<Sep, A>>, <<A, S>>, <<S, "b">>, <<A, Sep, S, S>>,
               <<S, S, Sep, "b">>}
Negated == {<<"!">> \o l : l \in ShortLines}
TwoLines == {<<k, l>> : k \in ShortLines \cup Negated, l \in ShortLines \cup Negated}

Parents == {<<>>, <<A>>, <<"b">>, <<A, Sep, "b">>}
Names == {<<A>>, <<"b">>, <<A, "b">>, <<"b", A>>}

RuleLine(lines) == IF Len(lines) = 1 THEN lines[1] ELSE lines[1] \o <<NL>> \o lines[2]
Depth(dir) == Cardinality(Seps(dir)) + (IF dir = <<>> THEN 0 ELSE 1)

\* All lines stand in the root's file, or the last one in the directory's own.
RuleSearch(above, own, dir, name) ==
  [img |-> Image(<<>>, {}, NoTree, <<Inline(Hit), Inline(own)>>, {},
             DirOf(<<[Entry(1) EXCEPT !.name = name]>> \o
                   (IF own = <<>> THEN <<>> ELSE <<[Entry(2) EXCEPT !.name = GitName]>>),
                   Depth(dir), {})),
   ignores |-> IF above = <<>> THEN <<>> ELSE <<[depth |-> 0, prefix |-> 0, lines |-> above]>>,
   parent |-> dir, pat |-> Word(Hit), cli |-> Plain]

RuleSearches ==
  {RuleSearch(lines, <<>>, dir, name) : lines \in OneLine \cup TwoLines,
                                        dir \in Parents, name \in Names}

OwnRuleSearches ==
  {RuleSearch(SubSeq(lines, 1, Len(lines) - 1), lines[Len(lines)], dir, name) :
     lines \in {<<l>> : l \in ShortLines} \cup TwoLines, dir \in {<<A>>, <<A, Sep, "b">>},
     name \in Names}

-----------------------------------------------------------------------------
(* Patterns of every shape, on a few texts, with -i and with -w.           *)

Ab == Word(<<"a", "b">>)
Kk == Word(<<"k", "k">>)
Parts == {Ab, Kk, Word(Hit), Word(<<"A", "b", "k">>), Class({"a", "A"}), Class({"a", "b"}),
          Class({"kelvin"}), Alt(<<Ab, Word(<<"b", "k">>)>>),
          Alt(<<Word(<<"k", "a", "b">>), Word(<<"a", "b", "b">>)>>), Group(Ab),
          Repeat(Ab, 0, 1), Repeat(Ab, 1, 2), Repeat(Class({"k"}), 2, 2),
          Repeat(Class({"k"}), 3, 3), Repeat(Class({"a", "b"}), 1, 2)}

Patterns ==
  (Parts \ {Repeat(Ab, 0, 1)})
    \cup {Concat(<<p, q>>) : p \in Parts, q \in Parts \ {Repeat(Ab, 0, 1)}}
    \cup {Concat(<<Kk, p, Ab>>) : p \in Parts \cup {Empty}}
    \cup {Alt(<<Concat(<<p, Ab>>), Word(<<"a", "b", "k">>)>>) : p \in Parts}
    \cup {Group(Alt(<<Ab, Kk, Word(Hit)>>)),
          Alt(<<Word(<<"a", "b", "a", "b", "k">>), Word(<<"k", "a", "b", "k", "b", "a", "b">>)>>),
          Alt(<<Concat(<<Class({"a", "A"}), Word(<<"b", "k">>)>>), Word(<<"a", "b", "k">>)>>)}

Lettered == {<<"a", "b", "a", NL, "k", "k", "a", "b", "k", NL, "a", "b", "b">>,
             <<"A", "b", "k", NL, "K", "kelvin", "a", "b", "A", NL, "b", "k">>}

Cased == {[Plain EXCEPT !.ignoreCase = fold, !.word = word] :
            fold \in BOOLEAN, word \in BOOLEAN}

PatternSearches ==
  {One(Placed(text, <<0, 1, 2, 3, 4, 5, 6>>, 7), {}, NoTree, Laid(text, <<Extent(0, 7)>>), pattern,
       [options EXCEPT !.large = TRUE]) :
     pattern \in Patterns, text \in Lettered, options \in Cased}

-----------------------------------------------------------------------------
(* Directories on ext4.  Inodes 1, 2, 5 and 8 are files, 3, 7 and 9        *)
(* directories, 4 is the directory's .gitignore, 6 cannot be parsed.       *)

Dirent(id, name, type) == [Entry(id) EXCEPT !.name = name, !.type = type]
DirentKinds ==
  {Dirent(2, <<"a">>, "file"), Dirent(3, <<"d">>, "dir"), Dirent(4, MCGitName, "file"),
   Dirent(5, <<".", "a">>, "file"), Dirent(6, <<"e">>, "file"), Dirent(7, <<"k">>, "other"),
   Dirent(8, <<"k">>, "other"), Dirent(9, <<"r">>, "dir"), Dirent(0, <<"a">>, "file"),
   Dirent(3, <<".", ".">>, "dir"), [Dirent(0, <<>>, "file") EXCEPT !.stop = TRUE]}

Inside == [kind |-> "dir", size |-> 0, as |-> Laid(<<>>, <<>>)]
Nodes == <<Inline(Hit), Inline(Hit), Inside, Inline(<<"a", NL, "d">>), Inline(<<"a">>),
           Poisoned, Inside, Inline(Hit), Inside>>

Listings == {<<d, e, Dirent(1, <<"b">>, "file"), f>> :
               d \in DirentKinds, e \in DirentKinds, f \in DirentKinds}
Proper(ds) == \A i, j \in DOMAIN ds : i # j => ds[i].name # ds[j].name

Views == {[lost |-> {}, bad |-> {}, cli |-> options] :
            options \in {Plain, [Plain EXCEPT !.hidden = TRUE, !.noIgnore = TRUE],
                         [Plain EXCEPT !.unrestricted = 1]}}
  \cup {[lost |-> {0}, bad |-> {1}, cli |-> Plain], [lost |-> {3}, bad |-> {}, cli |-> Plain]}

DirectorySearches ==
  {Search(Image(<<>>, {}, NoTree, Nodes, view.lost, DirOf(ds, 0, view.bad)), Word(Hit), view.cli) :
     ds \in {ds \in Listings : Proper(ds)}, view \in Views}

-----------------------------------------------------------------------------
(* Files and directories on NTFS.                                          *)

Run(len, step) == [len |-> len, step |-> {step}]
Hole(len) == [len |-> len, step |-> {}]

\* The table: records 0 and 1 in cluster 0, 2 and 3 in cluster 2, 4 and 5 in a
\* cluster that cannot be read.
Ntfs(bytes, bad, files, index, dir, pattern, options) ==
  Search([fs |-> "ntfs", bytes |-> bytes, bad |-> bad, index |-> index, dir |-> dir,
          mft |-> <<Run(1, 0), Run(1, 2), Run(1, 2)>>,
          records |-> [c \in {0, 2} |-> [s \in 0..1 |-> files[c + s + 1]]]],
         pattern, options)

Nodata == [kind |-> "nodata", size |-> 0]
Resident(text) == [kind |-> "resident", size |-> Len(text), data |-> text]
Runs(runs, size) == [kind |-> "runs", size |-> size, runs |-> runs]
Four(first, second) == <<Nodata, first, Nodata, second>>
TwoFiles == [node |-> [kind |-> "dir", root |-> <<Entry(1), [Entry(3) EXCEPT !.name = <<"b">>]>>,
                       runs |-> <<>>], depth |-> 0]

RunLists == {<<Run(3, 1)>>, <<Run(2, 3), Run(1, -2)>>, <<Run(2, 1), Hole(1), Run(1, 3)>>,
             <<Hole(1), Run(2, 2)>>, <<Run(2, 0), Run(1, 2), Run(1, 1)>>, <<Run(1, 4), Run(2, -3)>>}
Written == {<<"a", "b", "a", NL, "a", "b", "a", "a", "b", "a", NL, "a">>,
            <<"b", NL, "a", "b", "a", "b", NL, "a", "b", "a", "b", "a">>,
            <<BOM, "a", "a", "b", NL, "a", "b", "a", NL, "a", "a", "b">>,
            <<Nul, "b", "a", NL, "a", "b", "a", Nul, "b", "a", "b", "a">>}

NtfsSearches ==
  {Ntfs(text, bad, Four(Runs(runs, size), second), <<>>, TwoFiles, Word(Hit),
        [Plain EXCEPT !.binary = binary]) :
     text \in Written, bad \in {{}, {3}}, runs \in RunLists, size \in 1..8, binary \in BOOLEAN,
     second \in {Resident(Hit), Resident(Binaries), Poisoned}}

BrokenSearches ==
  {Ntfs(<<>>, {}, Four([kind |-> "damaged", size |-> size], Resident(Hit)), <<>>, TwoFiles,
        Word(Hit), [Plain EXCEPT !.binary = binary]) : size \in {1, 5}, binary \in BOOLEAN}

\* Directories whose index has blocks at clusters 2, 4 and 6, of which 6 cannot
\* be read.
Records == {Dirent(1, <<"a">>, "file"), Dirent(3, <<"d">>, "dir"), Dirent(2, MCGitName, "file"),
            [Dirent(1, <<"e">>, "file") EXCEPT !.dos = TRUE], Dirent(0, <<>>, "file"),
            Dirent(4, <<"k">>, "file")}
IndexRuns == {<<>>, <<Run(4, 2)>>, <<Run(2, 4), Hole(2), Run(2, -2)>>, <<Run(2, 6), Run(2, -2)>>}
End == [Dirent(0, <<>>, "file") EXCEPT !.stop = TRUE]

NtfsDirectories ==
  {Ntfs(<<>>, {}, <<Nodata, Resident(Hit), Resident(<<"d">>), Nodata>>,
        [c \in {2, 4} |-> IF c = 2 THEN <<d, End, Entry(1)>>
                          ELSE <<Dirent(5, <<"r">>, "dir"), [e EXCEPT !.name = @ \o @], End>>],
        [node |-> [kind |-> "dir", root |-> <<f, End>>, runs |-> runs], depth |-> 0],
        Word(Hit), options) :
     d \in Records, e \in Records, f \in {Dirent(1, <<"b">>, "file"), Dirent(3, <<".", "e">>, "dir")},
     runs \in IndexRuns,
     options \in {Plain, [Plain EXCEPT !.hidden = TRUE, !.reserved = TRUE]}}

\* The families that are checked together, and the one for line numbers.
MCInputs == <<Batches, ContentSearches, LayoutSearches, RuleSearches, OwnRuleSearches,
              PatternSearches, DirectorySearches, NtfsSearches, BrokenSearches, NtfsDirectories>>
MCContents == <<ContentSearches>>
=============================================================================
