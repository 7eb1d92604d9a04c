------------------------------- MODULE Ext2Disk -------------------------------
(* The part of an ext2 image that the EXT2 tools change, and the helpers of   *)
(* ext2general.c as operators on an image d: bitmaps with their counters,     *)
(* inodes, directory blocks, blocks of block numbers.                         *)
EXTENDS Integers, Sequences, FiniteSets, FiniteSetsExt

CONSTANTS
  Inode,      \* inode numbers that files may get
  Block,      \* block numbers beyond the image's own tables, the root's among them
  Name,       \* file names
  NameLen,    \* the length of each
  BlockSize,  \* EXT2_BLOCK_SIZE
  Slots,      \* TOTAL_BLOCK_COUNT: block numbers that an inode holds
  Direct,     \* DIRECT_BLOCK_COUNT: slots for a file's own blocks; the next is INDIRECT_BLOCK
  Ptrs,       \* NUM_OF_PTRS_IN_BLOCK
  MaxDepth    \* bound: names in a path

Root      == 2
RootBlock == Min(Block)
Path      == UNION {[1 .. k -> Name] : k \in 1 .. MaxDepth}

ASSUME DiskAssumption ==
  /\ Inode \subseteq Nat \ 0 .. 11 /\ IsFiniteSet(Inode)
  /\ Block \subseteq Nat \ {0} /\ Block # {} /\ IsFiniteSet(Block)
  /\ Name \cap {".", "..", "?"} = {}
  /\ NameLen \in [Name -> Nat \ {0}]
  /\ BlockSize \in Nat /\ BlockSize >= 24 /\ BlockSize % 4 = 0
  /\ Direct \in Nat \ {0} /\ Slots \in Nat /\ Slots > Direct
  /\ Ptrs \in Nat \ {0} /\ Cardinality(Block) <= Direct + Ptrs   \* 128 <= 12 + 256
  /\ MaxDepth \in Nat \ {0}

CountLimit == 65536                                     \* i_links_count has 16 bits

\* i_size: the blocks of a regular file.
FreshInode(mode, links) ==                              \* init_inode
  [i_mode |-> mode, i_links_count |-> links, i_size |-> 0,
   i_block |-> [s \in 1 .. Slots |-> 0], target |-> <<>>]

DirEntry(i, n, rec, type) == [inode |-> i, rec_len |-> rec, name |-> n, file_type |-> type]

\* A directory's first block.
DirBlock(i, p) == <<DirEntry(i, ".", 12, "dir"), DirEntry(p, "..", BlockSize - 12, "dir")>>

\* The bytes of files, links and directories, read as block numbers.
Junk  == -1
Bytes == [w \in 1 .. Ptrs |-> Junk]

\* mke2fs on zeros.  imap and bmap are the bits set; data is each block read as
\* directory entries, <<>> if it holds other bytes, and word is each block read as
\* block numbers.  Block 0 is the boot block.
FreshDisk ==
  [imap  |-> {}, ifree |-> Cardinality(Inode),
   bmap  |-> {RootBlock}, bfree |-> Cardinality(Block) - 1,
   inode |-> [i \in Inode \cup {Root} |->
                IF i = Root
                THEN [FreshInode("dir", 2) EXCEPT !.i_block[1] = RootBlock]
                ELSE FreshInode("none", 0)],
   data  |-> [b \in Block \cup {0} |-> IF b = RootBlock THEN DirBlock(Root, Root) ELSE <<>>],
   word  |-> [b \in Block \cup {0} |-> IF b = RootBlock THEN Bytes ELSE [w \in 1 .. Ptrs |-> 0]]]

-----------------------------------------------------------------------------
(* update_bitmap, and the searches for a free bit. *)

MarkInode(d, i) ==
  IF i \in {0} \cup d.imap THEN d ELSE [d EXCEPT !.imap = @ \cup {i}, !.ifree = @ - 1]

MarkBlock(d, b) ==
  IF b \in {0} \cup d.bmap THEN d ELSE [d EXCEPT !.bmap = @ \cup {b}, !.bfree = @ - 1]

\* Variant: the counters are forgotten.
FreeInodes_Uncounted(d, I) == [d EXCEPT !.imap = @ \ I]

\* Bits cleared one after the other; one that is not set does not count.
FreeInodes(d, I) == [d EXCEPT !.imap = @ \ I, !.ifree = @ + Cardinality(I \cap d.imap)]
FreeBlocks(d, B) == [d EXCEPT !.bmap = @ \ B, !.bfree = @ + Cardinality(B \cap d.bmap)]

First(S) == IF S = {} THEN 0 ELSE Min(S)
find_free_inode(d) == First(Inode \ d.imap)
find_free_block(d) == First(Block \ d.bmap)

BlocksOf(d, i) == {d.inode[i].i_block[s] : s \in 1 .. Slots} \ {0}

\* The blocks that free_all_blocks_of_inode frees: those in the direct slots, the
\* indirect block and all that its words name.
Pointers(d, i) ==
  LET b == d.inode[i].i_block[Direct + 1] IN
  IF b = 0 THEN {} ELSE {b} \cup {d.word[b][w] : w \in 1 .. Ptrs}

\* Variant: only the direct ones.
FreedBlocks_Direct(d, i) == {d.inode[i].i_block[s] : s \in 1 .. Direct}
FreedBlocks(d, i) == {d.inode[i].i_block[s] : s \in 1 .. Direct} \cup Pointers(d, i)

-----------------------------------------------------------------------------
(* allocate_space_in_block, on the entries es of a directory block. *)

Length(n)      == CASE n = "." -> 1 [] n = ".." -> 2 [] OTHER -> NameLen[n]

\* Variant: lengths are rounded down.
Rounded_Down(bytes) == 4 * (bytes \div 4)
Rounded(bytes) == 4 * ((bytes + 3) \div 4)

\* Variant: whether the entry is free is not asked.
Reusable_InUse(es) == {k \in DOMAIN es : es[k].rec_len > Rounded(8 + Length(es[k].name))}

\* A free entry is taken again if it is long enough for its old name.
Reusable(es) == {k \in DOMAIN es : es[k].inode = 0 /\ es[k].rec_len >= Rounded(8 + Length(es[k].name))}

\* The last entry is split if two entries fit, their lengths rounded up together.
Divisible(es, n) ==
  es # <<>> /\ es[Len(es)].rec_len >= Rounded(16 + Length(n) + Length(es[Len(es)].name))

\* The length of the entry that is reused, or of what is split from the last one.
LengthGiven(es) ==
  IF Reusable(es) # {} THEN es[Min(Reusable(es))].rec_len
  ELSE es[Len(es)].rec_len - Rounded(8 + Length(es[Len(es)].name))

\* Variant: the entry that is split keeps its length.
Added_Unsplit(es, i, n, type) ==
  LET new == DirEntry(i, n, LengthGiven(es), type) IN
  IF Reusable(es) # {} THEN [es EXCEPT ![Min(Reusable(es))] = new] ELSE Append(es, new)

Added(es, i, n, type) ==
  LET new == DirEntry(i, n, LengthGiven(es), type) IN
  IF Reusable(es) # {} THEN [es EXCEPT ![Min(Reusable(es))] = new]
  ELSE Append([es EXCEPT ![Len(es)].rec_len = @ - LengthGiven(es)], new)

\* The first block of directory p with room for name n, as the index of its
\* slot, and the first slot of p that has no block: 0 if there is none.
RoomIn(d, p, n) ==
  First({s \in 1 .. Slots : LET b == d.inode[p].i_block[s] IN
           b # 0 /\ (Reusable(d.data[b]) # {} \/ Divisible(d.data[b], n))})
FreeSlot(d, p) == First({s \in 1 .. Slots : d.inode[p].i_block[s] = 0})

WithEntry(d, p, i, n, type) ==
  LET b == d.inode[p].i_block[RoomIn(d, p, n)] IN [d EXCEPT !.data[b] = Added(@, i, n, type)]

\* Variant: the block is not linked into the directory.
WithBlock_Unlinked(d, p, b, i, n, type) ==
  [d EXCEPT !.data[b] = <<DirEntry(i, n, BlockSize, type)>>, !.word[b] = Bytes]

\* Block b, holding one entry, becomes a block of directory p.
WithBlock(d, p, b, i, n, type) ==
  [d EXCEPT !.data[b] = <<DirEntry(i, n, BlockSize, type)>>, !.word[b] = Bytes,
            !.inode[p].i_block[FreeSlot(d, p)] = b]

-----------------------------------------------------------------------------
(* locate_file_by_name, find_dir_entry, find_parent_inode. *)

\* The places, block and position, of the entries of directory p that are in use.
Entries(d, p) ==
  {x \in BlocksOf(d, p) \X (1 .. BlockSize \div 8) :
     x[2] \in DOMAIN d.data[x[1]] /\ d.data[x[1]][x[2]].inode # 0}
At(d, x) == d.data[x[1]][x[2]]
External(d, p) == {x \in Entries(d, p) : At(d, x).name \notin {".", ".."}}

Before(d, p, x, y) ==
  LET Slot(z) == Min({s \in 1 .. Slots : d.inode[p].i_block[s] = z[1]})
  IN Slot(x) < Slot(y) \/ (x[1] = y[1] /\ x[2] <= y[2])

\* The first entry of directory p with name n.
NULL == <<0, 0>>
locate_file_by_name(d, p, n) ==
  LET S == {x \in Entries(d, p) : At(d, x).name = n}
  IN IF S = {} THEN NULL ELSE CHOOSE x \in S : \A y \in S \ {x} : Before(d, p, x, y)

find_dir_entry(d, path) ==
  LET Walk[k \in 1 .. Len(path)] ==
        IF k = 1 THEN locate_file_by_name(d, Root, path[1])
        ELSE LET x == Walk[k - 1] IN
             IF x = NULL THEN NULL ELSE locate_file_by_name(d, At(d, x).inode, path[k])
  IN Walk[Len(path)]

\* The inode that a path names and the type of its entry, 0 and "none" if there
\* is no such entry; <<>> is the root directory.
NoFile == [inode |-> 0, file_type |-> "none"]
FileAt(d, path) ==
  IF path = <<>> THEN [inode |-> Root, file_type |-> "dir"]
  ELSE LET x == find_dir_entry(d, path) IN
       IF x = NULL THEN NoFile ELSE [inode |-> At(d, x).inode, file_type |-> At(d, x).file_type]

InodeOf(d, path) == FileAt(d, path).inode
TypeOf(d, path)  == FileAt(d, path).file_type
Exists(d, path)  == InodeOf(d, path) # 0

ParentPath(path) == SubSeq(path, 1, Len(path) - 1)
FileName(path)   == path[Len(path)]                     \* find_file_name_by_path
Parent(d, path)  == InodeOf(d, ParentPath(path))        \* find_parent_inode
=============================================================================
