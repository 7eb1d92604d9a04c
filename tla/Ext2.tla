--------------------------------- MODULE Ext2 ---------------------------------
(* ext2_mkdir, ext2_cp, ext2_ln and ext2_rm.  A step is one run of a command: *)
(* the image it leaves and what it returns, as a function of the image it     *)
(* finds.                                                                     *)
EXTENDS Ext2Disk

CONSTANTS
  Size,       \* sizes of native files, in half blocks
  PathLimit   \* names in a path whose text fits in a block

ASSUME SizeAssumption == Size \subseteq Nat /\ PathLimit \in Nat

VARIABLES disk, result
vars == <<disk, result>>

Outcome(d, r) == [disk |-> d, result |-> r]

\* Variant: the count is never written.
Linked_Unwritten(d, i, k) == d

\* The 16-bit i_links_count of inode i changed by k.
Linked(d, i, k) == [d EXCEPT !.inode[i].i_links_count = (@ + k) % CountLimit]

\* Inode i taken, with its first block b if there is one.
Taken(d, i, ino) == [MarkInode(d, i) EXCEPT !.inode[i] = ino]
TakenWith(d, i, ino, b, es) ==
  [MarkBlock(Taken(d, i, [ino EXCEPT !.i_block[1] = b]), b) EXCEPT !.data[b] = es, !.word[b] = Bytes]

-----------------------------------------------------------------------------
\* mkdir path.  Line 122 clears the block bit of the inode's number.
mkdir(d, path) ==
  LET n    == FileName(path)
      p    == Parent(d, path)
      i    == find_free_inode(d)
      b    == find_free_block(d)
      made == Linked(TakenWith(d, i, FreshInode("dir", 2), b, DirBlock(i, p)), p, 1)
      c    == find_free_block(made)
      more == MarkBlock(made, c)
  IN  IF Exists(d, path) THEN Outcome(d, "EEXIST")
      ELSE IF p = 0 THEN Outcome(d, "ENOENT")
      ELSE IF i = 0 THEN Outcome(d, "ENOSPC")
      ELSE IF b = 0 THEN Outcome(FreeInodes(Taken(d, i, FreshInode("dir", 2)), {i}), "ENOENT")
      ELSE IF RoomIn(made, p, n) # 0 THEN Outcome(WithEntry(made, p, i, n, "dir"), "OK")
      ELSE IF FreeSlot(made, p) # 0 THEN Outcome(WithBlock(more, p, c, i, n, "dir"), "OK")
      ELSE Outcome(FreeInodes(FreeBlocks(more, {i}), {i}), "ENOSPC")

-----------------------------------------------------------------------------
\* The blocks that a native file fills, and those that a copy of k blocks takes.
BlocksIn(size)  == (size + 1) \div 2
BlocksTaken(k)  == IF k > Direct THEN k + 1 ELSE k

\* Variant: the indirect block is forgotten.
BlocksNeeded_NoPointers(size) == BlocksIn(size)

\* have_enough_blocks.  What is larger than Direct + Ptrs blocks needs at least the
\* last number, and no image has so many.
BlocksNeeded(size) ==
  IF size < 2 * Direct THEN BlocksIn(size)
  ELSE IF size < 2 * (Direct + Ptrs) THEN BlocksIn(size) + 1
  ELSE Direct + Ptrs + 2

\* The block that word w of its indirect block gives to inode i, 0 beyond its size.
Through(d, i, w) ==
  IF d.inode[i].i_size < Direct + w THEN 0 ELSE d.word[d.inode[i].i_block[Direct + 1]][w]

\* Inode i becomes a file of k blocks, the first ones free.  The words of the
\* indirect block that the copy does not reach stay as they were.
Written(d, i, k) ==
  LET free   == Block \ d.bmap
      B      == {b \in free : Cardinality({c \in free : c < b}) < BlocksTaken(k)}
      Nth(t) == First({b \in B : Cardinality({c \in B : c < b}) = t - 1})
      words(b, old) ==
        IF k > Direct /\ b = Nth(Direct + 1)
        THEN [w \in 1 .. Ptrs |-> IF Direct + w <= k THEN Nth(Direct + 1 + w) ELSE old[w]]
        ELSE Bytes
  IN [d EXCEPT !.bmap = @ \cup B, !.bfree = @ - Cardinality(B),
               !.data = [b \in DOMAIN @ |-> IF b \in B THEN <<>> ELSE @[b]],
               !.word = [b \in DOMAIN @ |-> IF b \in B THEN words(b, @[b]) ELSE @[b]],
               !.inode[i] = [FreshInode("reg", 1) EXCEPT
                  !.i_size = k,
                  !.i_block = [s \in 1 .. Slots |-> IF s <= Direct + 1 THEN Nth(s) ELSE 0]]]

\* Variant: the old blocks stay marked.
Overwritten_Kept(d, i, k) == Written(d, i, k)
Overwritten(d, i, k) == Written(FreeBlocks(d, FreedBlocks(d, i)), i, k)

\* A new file, with an entry in directory p.
Copied(d, p, n, k) ==
  LET i    == find_free_inode(d)
      made == Written(MarkInode(d, i), i, k)
      c    == find_free_block(made)
      more == MarkBlock(made, c)
  IN  IF i = 0 THEN Outcome(d, "ENOSPC")
      ELSE IF RoomIn(made, p, n) # 0 THEN Outcome(WithEntry(made, p, i, n, "reg"), "OK")
      ELSE IF c = 0 THEN Outcome(FreeInodes(FreeBlocks(made, FreedBlocks(made, i)), {i}), "ENOSPC")
      ELSE IF FreeSlot(made, p) # 0 THEN Outcome(WithBlock(more, p, c, i, n, "reg"), "OK")
      ELSE Outcome([more EXCEPT !.data[c] = <<DirEntry(i, n, BlockSize, "reg")>>, !.word[c] = Bytes], "OK")

\* cp of a native file n.  seen: whether the path that line 109
\* appends to an uninitialised buffer finds the file that is there.
cp(d, n, size, path, seen) ==
  LET k   == BlocksIn(size)
      to  == InodeOf(d, path)
      old == IF TypeOf(d, path) # "dir" THEN to
             ELSE IF seen \/ path = <<>> THEN InodeOf(d, Append(path, n)) ELSE 0
  IN  IF d.bfree < BlocksNeeded(size) THEN Outcome(d, "ENOSPC")
      ELSE IF to = 0 THEN Outcome(d, "ENOENT")
      ELSE IF old # 0 THEN Outcome(Overwritten(d, old, k), "OK")
      ELSE Copied(d, to, n, k)

-----------------------------------------------------------------------------
\* The error that both kinds of link begin with, or "OK".
LinkError(d, from, to) ==
  IF ~Exists(d, from) \/ Parent(d, to) = 0 THEN "ENOENT"
  ELSE IF TypeOf(d, from) = "dir" \/ TypeOf(d, ParentPath(to)) # "dir" THEN "EISDIR"
  ELSE IF Exists(d, to) THEN "EEXIST"
  ELSE "OK"

\* read_symbolic_link: the inode at the end of the links, 0 if one leads nowhere.
\* A cycle, which ends the program, shows as a link.
Resolved(d, path) ==
  LET IsLink(i) == i # 0 /\ d.inode[i].i_mode = "lnk"
      Hop[k \in 0 .. Cardinality(Inode)] ==
        IF k = 0 THEN InodeOf(d, path)
        ELSE IF IsLink(Hop[k - 1]) THEN InodeOf(d, d.inode[Hop[k - 1]].target) ELSE Hop[k - 1]
  IN Hop[Cardinality(Inode)]

\* The name of an entry whose name_len is left as the block had it.
StaleName(d, b, n) ==
  IF d.data[b] # <<>> /\ Length(d.data[b][1].name) = Length(n) THEN n ELSE "?"

\* ln from to.  The link count that goes up is that of the file at the end of the
\* links; the entry names from's own inode.  to is no longer than from where that
\* matters: line 55 sizes the buffer for both by from.
ln(d, from, to) ==
  LET n    == FileName(to)
      p    == Parent(d, to)
      i    == InodeOf(d, from)
      r    == Resolved(d, from)
      made == Linked(d, r, 1)
      c    == find_free_block(d)
      more == MarkBlock(made, c)
  IN  IF LinkError(d, from, to) # "OK" THEN Outcome(d, LinkError(d, from, to))
      ELSE IF r = 0 THEN Outcome(d, "ENOENT")
      ELSE IF d.inode[r].i_mode = "lnk" THEN Outcome(d, "crash")
      ELSE IF RoomIn(d, p, n) # 0 THEN Outcome(WithEntry(made, p, i, n, "reg"), "OK")
      ELSE IF c = 0 THEN Outcome(d, "ENOSPC")
      ELSE IF FreeSlot(d, p) # 0
           THEN Outcome(WithBlock(more, p, c, i, StaleName(d, c, n), TypeOf(d, from)), "OK")
      ELSE Outcome(more, "ENOSPC")

\* ln -s from to.  In a directory other than the root line 185 computes an address
\* beyond the image.
ln_s(d, from, to) ==
  LET n    == FileName(to)
      i    == find_free_inode(d)
      b    == find_free_block(d)
      ino  == [FreshInode("lnk", 1) EXCEPT !.target = from]
      made == TakenWith(d, i, ino, b, <<>>)
      c    == find_free_block(made)
      more == MarkBlock(made, c)
  IN  IF LinkError(d, from, to) # "OK" THEN Outcome(d, LinkError(d, from, to))
      ELSE IF i = 0 THEN Outcome(d, "ENOSPC")
      ELSE IF b = 0 THEN Outcome(FreeInodes(Taken(d, i, FreshInode("lnk", 1)), {i}), "ENOSPC")
      ELSE IF Len(from) > PathLimit THEN Outcome(MarkBlock(Taken(d, i, FreshInode("lnk", 1)), b), "ENOSPC")
      ELSE IF Parent(d, to) # Root THEN Outcome(made, "crash")
      ELSE IF RoomIn(made, Root, n) # 0 THEN Outcome(WithEntry(made, Root, i, n, "lnk"), "OK")
      ELSE IF c = 0 THEN Outcome(FreeInodes(FreeBlocks(made, {b}), {i}), "ENOSPC")
      ELSE IF FreeSlot(made, Root) # 0
           THEN Outcome(WithBlock(more, Root, c, i, n, TypeOf(d, from)), "OK")
      ELSE Outcome(more, "ENOSPC")

-----------------------------------------------------------------------------
\* update_parent_inode_block, on the block that locate_dir_entry_in_block returns:
\* the first one of the parent, whichever the entry is in.
Shrunk(d, p) ==
  LET s == Min({t \in 1 .. Slots : d.inode[p].i_block[t] # 0})
      b == d.inode[p].i_block[s]
  IN  IF Cardinality({x \in Entries(d, p) : x[1] = b}) = 1
      THEN [FreeBlocks(d, {b}) EXCEPT !.inode[p].i_block[s] = 0]
      ELSE d

\* remove_directory_or_file_or_link of the entry at x, in directory p, when no
\* subdirectory has files of its own.  E: the entries that go; a directory's inode
\* goes whatever its count, a file's when the count passes 0.
Removed(d, p, x) ==
  LET top    == At(d, x).inode
      IsDir(y) == At(d, y).file_type = "dir"
      below  == IF IsDir(x) THEN External(d, top) ELSE {}
      E      == below \cup {x}
      Dirs   == {At(d, y).inode : y \in {z \in E : IsDir(z)}}
      Times(i) == Cardinality({y \in E : At(d, y).inode = i})
      Lost(i)  == Times(i) * (IF i \in Dirs THEN 2 ELSE 1)
                  + Cardinality({y \in E : IsDir(y) /\ i = IF y = x THEN p ELSE top})
      links(i) == d.inode[i].i_links_count
      Gone   == Dirs \cup {i \in {At(d, y).inode : y \in E} : links(i) \in 1 .. Times(i)}
      cleared(b) == [k \in DOMAIN d.data[b] |->
                       IF <<b, k>> \in E THEN [d.data[b][k] EXCEPT !.inode = 0] ELSE d.data[b][k]]
      freed(i) == IF i \in Dirs THEN BlocksOf(d, i) ELSE FreedBlocks(d, i)
      left   == FreeInodes(FreeBlocks(Shrunk(d, p), UNION {freed(i) : i \in Gone}), Gone)
      unnamed(f, i) == [f EXCEPT !.i_size = IF i \in Gone THEN 0 ELSE @,
                                 !.i_links_count = (@ - Lost(i)) % CountLimit]
  IN [left EXCEPT !.data  = [b \in DOMAIN @ |-> cleared(b)],
                  !.inode = [i \in DOMAIN @ |-> unnamed(@[i], i)]]

Shallow(d, i) ==
  \A x \in External(d, i) : At(d, x).file_type = "dir" => External(d, At(d, x).inode) = {}

\* Variant: the entry is looked up in the root directory.
rm_InRoot(d, path, r) ==
  LET x == locate_file_by_name(d, Root, FileName(path)) IN
  IF x = NULL THEN Outcome(d, "ENOENT")
  ELSE IF At(d, x).file_type = "dir" /\ ~r THEN Outcome(d, "EISDIR")
  ELSE Outcome(Removed(d, Root, x), "OK")

rm(d, path, r) ==
  IF ~Exists(d, path) THEN Outcome(d, "ENOENT")
  ELSE IF TypeOf(d, path) = "dir" /\ ~r THEN Outcome(d, "EISDIR")
  ELSE Outcome(Removed(d, Parent(d, path), find_dir_entry(d, path)), "OK")

-----------------------------------------------------------------------------
\* Paths that lead through directories only: another file's bytes are not
\* modelled.
Walkable(path) ==
  \A k \in 1 .. Len(path) - 1 : TypeOf(disk, SubSeq(path, 1, k)) \in {"dir", "none"}

\* No indirect block ends in other bytes, which would be freed as block numbers,
\* and no directory is overwritten that has a block in the slot for one.
Followable ==
  /\ \A b \in Block : disk'.word[b][Ptrs] = Junk => disk'.word[b][1] = Junk
  /\ \A i \in disk.imap : disk.inode[i].i_mode = "dir" /\ disk.inode[i].i_block[Direct + 1] # 0
                            => disk'.inode[i].i_mode = "dir"

\* Every entry in use has the length of its name and room for it, and a directory's
\* names a directory: an entry that does not is the last that is modelled.
Legible ==
  \A i \in disk.imap \cup {Root} :
    disk.inode[i].i_mode = "dir" =>
      \A e \in {At(disk, x) : x \in Entries(disk, i)} :
        /\ e.name # "?" /\ e.rec_len >= 8 + Length(e.name)
        /\ e.file_type = "dir" => disk.inode[e.inode].i_mode = "dir"

Return(o) == disk' = o.disk /\ result' = o.result

Mkdir(path)             == Walkable(path) /\ Return(mkdir(disk, path))
Cp(n, size, path, seen) == Walkable(path) /\ Return(cp(disk, n, size, path, seen)) /\ Followable
Ln(from, to)            == Walkable(from) /\ Walkable(ParentPath(to)) /\ Return(ln(disk, from, to))
LnS(from, to)           == Walkable(from) /\ Walkable(ParentPath(to)) /\ Return(ln_s(disk, from, to))
Rm(path, r) ==
  /\ Walkable(path)
  /\ r /\ TypeOf(disk, path) = "dir" => Shallow(disk, InodeOf(disk, path))
  /\ Return(rm(disk, path, r))

Init == disk = FreshDisk /\ result = "OK"

Next ==
  /\ Legible
  /\ \/ \E path \in Path : Mkdir(path)
     \/ \E n \in Name, size \in Size, path \in Path \cup {<<>>}, seen \in BOOLEAN :
          Cp(n, size, path, seen)
     \/ \E from, to \in Path : Ln(from, to) \/ LnS(from, to)
     \/ \E path \in Path, r \in BOOLEAN : Rm(path, r)

Spec == Init /\ [][Next]_vars

-----------------------------------------------------------------------------
\* The counters of superblock and group descriptor agree with the bitmaps, whatever
\* has been marked and cleared.
CountersAgree ==
  /\ disk.ifree = Cardinality(Inode \ disk.imap)
  /\ disk.bfree = Cardinality(Block \ disk.bmap)

\* A file that have_enough_blocks lets through reaches no double indirect block, and
\* there are as many free blocks as the loops of cp take, which do not test what
\* find_free_block returns.
EstimateHolds ==
  \A size \in Size :
    disk.bfree >= BlocksNeeded(size) =>
      /\ BlocksIn(size) <= Direct + Ptrs
      /\ BlocksTaken(BlocksIn(size)) <= Cardinality(Block \ disk.bmap)
=============================================================================
