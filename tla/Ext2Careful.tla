----------------------------- MODULE Ext2Careful -----------------------------
(* The EXT2 tools used within the limits of what they handle, and what holds  *)
(* of the image then.                                                         *)
EXTENDS Ext2, Functions

\* Kept beside the disk for the properties; no command reads them.
VARIABLES
  tree,  \* TreeOf(disk)
  did    \* the last command, with the paths and the name it was given

\* Names and link counts are within the limits of their fields.
ASSUME CarefulAssumption ==
  /\ \A n \in Name : 8 + NameLen[n] <= BlockSize          \* 8 + 255 <= 1024
  /\ Cardinality(Block) * (BlockSize \div 8) < CountLimit - 1  \* 128 * 128

\* The paths that lead to a file.
TreeOf(d) ==
  [path \in {q \in Path : Exists(d, q)} |-> [id |-> InodeOf(d, path), dir |-> TypeOf(d, path) = "dir"]]
Tracked(command) == tree' = TreeOf(disk') /\ did' = command

\* Directory p has a block with room for name n, and what room it has is enough.
Room(d, p, n) == RoomIn(d, p, n) # 0
Fits(d, p, n) ==
  Room(d, p, n) => LengthGiven(d.data[d.inode[p].i_block[RoomIn(d, p, n)]]) >= 8 + Length(n)
Slot(d, p)    == FreeSlot(d, p) # 0

\* The words of inode i's indirect block beyond its size.
Unreached(d, i) ==
  LET f == d.inode[i] IN
  IF f.i_mode = "reg" /\ f.i_size > Direct
  THEN {d.word[f.i_block[Direct + 1]][w] : w \in {v \in 1 .. Ptrs : Direct + v > f.i_size}}
  ELSE {}

\* mkdir needs two blocks when the parent's blocks are full.
CarefulMkdir(path) ==
  LET p == Parent(disk, path) IN
  /\ p # 0 =>
       /\ Fits(disk, p, FileName(path))
       /\ Room(disk, p, FileName(path)) \/ disk.bfree = 0 \/ (Slot(disk, p) /\ disk.bfree >= 2)
  /\ Mkdir(path) /\ Tracked([cmd |-> "mkdir", path |-> path])

\* cp overwrites no directory and no file that has other links, and finds what it
\* overwrites; the directory has a slot left; what is left of an indirect block
\* holds no old numbers, in the copy that is taken back for want of a block too.
CarefulCp(n, size, path) ==
  /\ Exists(disk, path) =>
       LET p   == InodeOf(disk, path)
           dir == TypeOf(disk, path) = "dir"
           old == IF dir THEN InodeOf(disk, Append(path, n)) ELSE p
       IN  /\ old # 0 => disk.inode[old].i_mode # "dir" /\ disk.inode[old].i_links_count = 1
           /\ dir => Len(path) < MaxDepth /\ Fits(disk, p, n) /\ (Room(disk, p, n) \/ Slot(disk, p))
  /\ Cp(n, size, path, TRUE) /\ Tracked([cmd |-> "cp", name |-> n, path |-> path])
  /\ disk' # disk =>
       \A i \in Inode : i \in disk'.imap \cup {find_free_inode(disk)} => Unreached(disk', i) \subseteq {0}

\* ln takes a file that is not a link, to a directory with room for the name.
CarefulLn(from, to) ==
  LET p == Parent(disk, to) IN
  /\ Exists(disk, from) => disk.inode[InodeOf(disk, from)].i_mode # "lnk"
  /\ p # 0 => Fits(disk, p, FileName(to)) /\ (Room(disk, p, FileName(to)) \/ disk.bfree = 0)
  /\ Ln(from, to) /\ Tracked([cmd |-> "ln", from |-> from, to |-> to])

\* ln -s makes links in the root directory, to paths that fit in a block.
CarefulLnS(from, to) ==
  /\ Len(to) = 1 /\ Len(from) <= PathLimit
  /\ Fits(disk, Root, FileName(to)) /\ (Room(disk, Root, FileName(to)) \/ Slot(disk, Root))
  /\ LnS(from, to) /\ Tracked([cmd |-> "ln -s", from |-> from, to |-> to])

CarefulRm(path, r) == Rm(path, r) /\ Tracked([cmd |-> "rm", path |-> path, r |-> r])

CarefulNext ==
  \/ \E path \in Path : CarefulMkdir(path)
  \/ \E n \in Name, size \in Size, path \in Path \cup {<<>>} : CarefulCp(n, size, path)
  \/ \E from, to \in Path : CarefulLn(from, to) \/ CarefulLnS(from, to)
  \/ \E path \in Path, r \in BOOLEAN : CarefulRm(path, r)

CarefulVars == <<disk, result, tree, did>>
CarefulInit == Init /\ tree = TreeOf(disk) /\ did = [cmd |-> "none"]
CarefulSpec == CarefulInit /\ [][CarefulNext]_CarefulVars

-----------------------------------------------------------------------------
Results == {"OK", "EEXIST", "ENOENT", "ENOSPC", "EISDIR"}
InodeRecord == [i_mode : {"none", "dir", "reg", "lnk"}, i_links_count : 0 .. CountLimit - 1,
                i_size : 0 .. Direct + Ptrs, i_block : [1 .. Slots -> Block \cup {0}], target : Path \cup {<<>>}]
EntryRecord == [inode : Inode \cup {0, Root}, rec_len : 12 .. BlockSize,
                name : Name \cup {".", ".."}, file_type : {"dir", "reg", "lnk"}]

\* Type invariant: inodes, entries and block pointers of the image stay within it,
\* and no careful command crashes.
TypeOK ==
  /\ disk.imap \subseteq Inode /\ disk.ifree \in 0 .. Cardinality(Inode)
  /\ disk.bmap \subseteq Block /\ disk.bfree \in 0 .. Cardinality(Block)
  /\ disk.inode \in [Inode \cup {Root} -> InodeRecord]
  /\ DOMAIN disk.data = Block \cup {0}
  /\ \A b \in Block \cup {0}, k \in 1 .. BlockSize : k \in DOMAIN disk.data[b] => disk.data[b][k] \in EntryRecord
  /\ disk.word \in [Block \cup {0} -> [1 .. Ptrs -> Block \cup {0, Junk}]]
  /\ result \in Results

Reachable == {Root} \cup {tree[path].id : path \in DOMAIN tree}

\* The bitmaps say what is in use: an inode is marked when a path leads to it, and
\* a block is marked when it is in one slot of one such inode, or in one word of its
\* indirect block, never in two.
MapsTellUse ==
  /\ disk.imap = Reachable \ {Root}
  /\ \A b \in Block :
       Cardinality({x \in Reachable \X (1 .. Slots) : disk.inode[x[1]].i_block[x[2]] = b})
       + Cardinality({x \in Reachable \X (1 .. Ptrs) : Through(disk, x[1], x[2]) = b})
         = IF b \in disk.bmap THEN 1 ELSE 0

\* A file has all the blocks that its size says, in the slots and words that they
\* belong in: the estimate of have_enough_blocks is never short of what the loop of
\* cp takes, so that find_free_block, whose result it does not test, finds one.
FilesWhole ==
  \A i \in {j \in Reachable : disk.inode[j].i_mode = "reg"} :
    LET f == disk.inode[i] IN
    /\ \A s \in 1 .. Slots : f.i_block[s] # 0 <=> s <= Direct + 1 /\ s <= f.i_size
    /\ \A w \in 1 .. Ptrs : Direct + w <= f.i_size => Through(disk, i, w) # 0

\* An inode's link count is the number of directory entries, "." and ".." among
\* them, that name it.
LinksCounted ==
  \A i \in Reachable :
    disk.inode[i].i_links_count =
      Cardinality({x \in UNION {{d} \X Entries(disk, d) : d \in {j \in Reachable : disk.inode[j].i_mode = "dir"}} :
                     At(disk, x[2]).inode = i})

\* The entries of a directory's blocks follow each other to the end of the block,
\* each long enough for its name.
BlocksFilled ==
  \A i \in Reachable :
    disk.inode[i].i_mode = "dir" =>
      \A b \in BlocksOf(disk, i) :
        LET es == disk.data[b] IN
        /\ SumFunction([k \in DOMAIN es |-> es[k].rec_len]) = BlockSize
        /\ \A k \in DOMAIN es : es[k].rec_len >= 8 + Length(es[k].name)

\* What a command returns is what it has done: with an error the tree is as it
\* was, and with 0 it has changed, unless cp wrote over a file.
Overwrites ==
  /\ did'.cmd = "cp"
  /\ \E dest \in {did'.path, Append(did'.path, did'.name)} \cap DOMAIN tree : ~tree[dest].dir
SaidIsDone ==
  [][IF result' = "OK" THEN tree' # tree \/ Overwrites ELSE tree' = tree]_CarefulVars

-----------------------------------------------------------------------------
Tree == INSTANCE FileTree WITH Paths <- Path, Names <- Name, Files <- Inode

\* Each command does to the tree what it is for, at the path it was given: mkdir and
\* cp add a directory or file there, ln a second name of the file it was given, ln -s
\* a link, rm takes the path away with all below it.  Or it leaves the tree alone.
\* No other name is ever lost, gained or made to lead to another file.
ImplementsFileTree == Tree!Spec
=============================================================================
