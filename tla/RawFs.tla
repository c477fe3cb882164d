-------------------------------- MODULE RawFs -------------------------------
(***************************************************************************)
(* The file systems behind one interface.  An image says which one it has  *)
(* in fs.  The blocks of an ext4 directory are kept apart from the bytes   *)
(* of the files: dir.bytes are its entries, one in place of a byte, and    *)
(* dir.bad its blocks that cannot be read.  An ext4 directory has kind     *)
(* "dir" and in as the inode it would be if it were a file.                *)
(***************************************************************************)
EXTENDS Ext4Reader, NtfsReader

OnNtfs(img) == img.fs = "ntfs"
IsDir(node) == node.kind = "dir"

\* parse_node, and parse_nodes_batch, which on NTFS parses them one by one.
NodeOf(img, id) ==
  IF OnNtfs(img) THEN ParseRecord(img, id) ELSE ParseNode(img, EmptyCache, id).node
NodesOf(img, ids) ==
  IF OnNtfs(img) THEN [k \in DOMAIN ids |-> ParseRecord(img, ids[k])] ELSE ParseNodesBatch(img, ids)

CollectChunks(img, node, max, check, likely) ==
  IF OnNtfs(img) THEN CollectRuns(img, node, max, check)
  ELSE Collect(img, node, max, check, likely)

ReadFile(img, node, max, check, likely) ==
  IF OnNtfs(img) THEN ReadNtfs(img, node, max, check)
  ELSE ReadExt4(img, node, max, check, likely)

\* A directory's entries: the NTFS reader leaves hidden names out by itself.
DirImage(img) == [img EXCEPT !.bytes = img.dir.bytes, !.bad = img.dir.bad]

Hidden(e) == Head(e.name) = "."
IsDot(e) == e.name \in {<<".">>, <<".", ".">>}

WithDirectoryEntries(img, node, hidden) ==
  IF OnNtfs(img)
  THEN SelectSeq(ReadDirLinearised(img, node), LAMBDA e : (hidden \/ ~ Hidden(e)) /\ ~ IsDot(e))
  ELSE Used(ReadExt4(DirImage(img), node.as, node.as.size, FALSE, FALSE).text)
=============================================================================
