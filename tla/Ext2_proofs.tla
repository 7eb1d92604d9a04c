----------------------------- MODULE Ext2_proofs -----------------------------
(* Proofs about Ext2 for images of any size.  First, all commands, careful or  *)
(* not; then the image that careful commands keep, and how the helpers of      *)
(* ext2_utils change it.                                                       *)
EXTENDS Ext2Careful, TLAPS, FiniteSetTheorems, WellFoundedInduction, Sums_proofs, SequenceTheorems

-----------------------------------------------------------------------------
(* An image whose bitmaps are within it and agree with its counters. *)

Fields == {"imap", "ifree", "bmap", "bfree", "inode", "data", "word"}

Counted(d) ==
  /\ DOMAIN d = Fields
  /\ d.imap \subseteq Inode /\ d.ifree = Cardinality(Inode \ d.imap)
  /\ d.bmap \subseteq Block /\ d.bfree = Cardinality(Block \ d.bmap)

\* The inductive invariant.
DiskCounted == Counted(disk)

-----------------------------------------------------------------------------
(* Taking and freeing. *)

\* The least number of a set is in it.
LEMMA MinOfNaturals ==
  ASSUME NEW S \in SUBSET Nat, S # {}
  PROVE  Min(S) \in S
<1>1. PICK x \in S : \A y \in S : ~ (<<y, x>> \in OpToRel(<, Nat))
  BY WFMin, NatLessThanWellFounded
<1>2. ASSUME NEW y \in S PROVE x <= y
  <2>1. ~ (y < x)
    BY <1>1, x \in Nat, y \in Nat DEF OpToRel
  <2> QED
    BY <2>1, x \in Nat, y \in Nat
<1> QED
  BY <1>2 DEF Min

\* The searches return a number of the image that is not marked, or 0.
LEMMA FreeFound ==
  ASSUME NEW d, Counted(d)
  PROVE  /\ find_free_inode(d) \in {0} \cup (Inode \ d.imap)
         /\ find_free_block(d) \in {0} \cup (Block \ d.bmap)
<1>1. Inode \ d.imap \in SUBSET Nat /\ Block \ d.bmap \in SUBSET Nat
  BY DiskAssumption
<1> QED
  BY <1>1, MinOfNaturals DEF find_free_inode, find_free_block, First

\* update_bitmap of one bit keeps the counters right.
LEMMA MarkInodeCounted ==
  ASSUME NEW d, Counted(d), NEW i \in Inode \cup {0}
  PROVE  Counted(MarkInode(d, i))
<1>1. CASE i \in {0} \cup d.imap
  BY <1>1 DEF MarkInode
<1>2. CASE i \notin {0} \cup d.imap
  <2> DEFINE e == [d EXCEPT !.imap = @ \cup {i}, !.ifree = @ - 1]
  <2>1. MarkInode(d, i) = e
    BY <1>2 DEF MarkInode
  <2>2. /\ DOMAIN e = Fields
        /\ e.imap = d.imap \cup {i} /\ e.ifree = d.ifree - 1
        /\ e.bmap = d.bmap /\ e.bfree = d.bfree
    BY DEF Counted, Fields
  <2>3. IsFiniteSet(Inode \ d.imap)
    BY DiskAssumption, FS_Subset, Inode \ d.imap \in SUBSET Inode
  <2>4. i \in Inode \ d.imap
    BY <1>2
  <2>5. Cardinality((Inode \ d.imap) \ {i}) = Cardinality(Inode \ d.imap) - 1
    BY <2>3, <2>4, FS_RemoveElement
  <2>6. Inode \ e.imap = (Inode \ d.imap) \ {i} /\ e.imap \subseteq Inode
    BY <2>2, <2>4 DEF Counted
  <2>7. Counted(e)
    BY <2>2, <2>5, <2>6 DEF Counted
  <2> QED
    BY <2>1, <2>7
<1> QED
  BY <1>1, <1>2

\* The same of update_bitmap on a block.
LEMMA MarkBlockCounted ==
  ASSUME NEW d, Counted(d), NEW b \in Block \cup {0}
  PROVE  Counted(MarkBlock(d, b))
<1>1. CASE b \in {0} \cup d.bmap
  BY <1>1 DEF MarkBlock
<1>2. CASE b \notin {0} \cup d.bmap
  <2> DEFINE e == [d EXCEPT !.bmap = @ \cup {b}, !.bfree = @ - 1]
  <2>1. MarkBlock(d, b) = e
    BY <1>2 DEF MarkBlock
  <2>2. /\ DOMAIN e = Fields
        /\ e.bmap = d.bmap \cup {b} /\ e.bfree = d.bfree - 1
        /\ e.imap = d.imap /\ e.ifree = d.ifree
    BY DEF Counted, Fields
  <2>3. IsFiniteSet(Block \ d.bmap)
    BY DiskAssumption, FS_Subset, Block \ d.bmap \in SUBSET Block
  <2>4. b \in Block \ d.bmap
    BY <1>2
  <2>5. Cardinality((Block \ d.bmap) \ {b}) = Cardinality(Block \ d.bmap) - 1
    BY <2>3, <2>4, FS_RemoveElement
  <2>6. Block \ e.bmap = (Block \ d.bmap) \ {b} /\ e.bmap \subseteq Block
    BY <2>2, <2>4 DEF Counted
  <2>7. Counted(e)
    BY <2>2, <2>5, <2>6 DEF Counted
  <2> QED
    BY <2>1, <2>7
<1> QED
  BY <1>1, <1>2

\* What is cleared comes back: F is what was free, G what was marked and is freed.
LEMMA CardinalityOfFreed ==
  ASSUME NEW S, IsFiniteSet(S), NEW M, M \subseteq S, NEW G
  PROVE  Cardinality(S \ (M \ G)) = Cardinality(S \ M) + Cardinality(G \cap M)
<1>1. IsFiniteSet(S \ M) /\ IsFiniteSet(G \cap M)
  BY FS_Subset, S \ M \in SUBSET S, G \cap M \in SUBSET S
<1>2. S \ (M \ G) = (S \ M) \cup (G \cap M) /\ (S \ M) \cap (G \cap M) = {}
  OBVIOUS
<1>3. Cardinality((S \ M) \cap (G \cap M)) = 0
  BY <1>2, FS_EmptySet
<1>4. Cardinality(S \ M) \in Nat /\ Cardinality(G \cap M) \in Nat
  BY <1>1, FS_CardinalityType
<1>5. Cardinality((S \ M) \cup (G \cap M))
        = Cardinality(S \ M) + Cardinality(G \cap M) - Cardinality((S \ M) \cap (G \cap M))
  BY <1>1, FS_Union, Zenon
<1>6. S \ (M \ G) = (S \ M) \cup (G \cap M)
  BY <1>2
<1>7. Cardinality(S \ (M \ G)) = Cardinality((S \ M) \cup (G \cap M))
  BY <1>6
<1> QED
  BY <1>3, <1>4, <1>5, <1>7

\* Clearing bits keeps the counters right, whichever bits they are.
LEMMA FreeInodesCounted ==
  ASSUME NEW d, Counted(d), NEW I
  PROVE  Counted(FreeInodes(d, I))
<1> DEFINE e == [d EXCEPT !.imap = @ \ I, !.ifree = @ + Cardinality(I \cap d.imap)]
<1>1. /\ DOMAIN e = Fields
      /\ e.imap = d.imap \ I /\ e.ifree = d.ifree + Cardinality(I \cap d.imap)
      /\ e.bmap = d.bmap /\ e.bfree = d.bfree
  BY DEF Counted, Fields
<1>2. Cardinality(Inode \ (d.imap \ I)) = Cardinality(Inode \ d.imap) + Cardinality(I \cap d.imap)
  <2>1. IsFiniteSet(Inode)
    BY DiskAssumption
  <2>2. d.imap \subseteq Inode
    BY DEF Counted
  <2> HIDE DEF e
  <2> QED
    BY <2>1, <2>2, CardinalityOfFreed, Zenon
<1>3. FreeInodes(d, I) = e
  BY DEF FreeInodes
<1>4. Inode \ e.imap = Inode \ (d.imap \ I) /\ e.imap \subseteq Inode
  BY <1>1 DEF Counted
<1>5. e.ifree = Cardinality(Inode \ e.imap)
  <2>1. d.ifree = Cardinality(Inode \ d.imap)
    BY DEF Counted
  <2>2. e.ifree = Cardinality(Inode \ (d.imap \ I))
    BY <1>1, <1>2, <2>1
  <2> QED
    BY <1>4, <2>2
<1> HIDE DEF e
<1>6. Counted(e)
  BY <1>1, <1>4, <1>5 DEF Counted
<1> QED
  BY <1>3, <1>6

\* Clearing block bits, likewise.
LEMMA FreeBlocksCounted ==
  ASSUME NEW d, Counted(d), NEW B
  PROVE  Counted(FreeBlocks(d, B))
<1> DEFINE e == [d EXCEPT !.bmap = @ \ B, !.bfree = @ + Cardinality(B \cap d.bmap)]
<1>1. /\ DOMAIN e = Fields
      /\ e.bmap = d.bmap \ B /\ e.bfree = d.bfree + Cardinality(B \cap d.bmap)
      /\ e.imap = d.imap /\ e.ifree = d.ifree
  BY DEF Counted, Fields
<1>2. Cardinality(Block \ (d.bmap \ B)) = Cardinality(Block \ d.bmap) + Cardinality(B \cap d.bmap)
  <2>1. IsFiniteSet(Block)
    BY DiskAssumption
  <2>2. d.bmap \subseteq Block
    BY DEF Counted
  <2> HIDE DEF e
  <2> QED
    BY <2>1, <2>2, CardinalityOfFreed, Zenon
<1>3. FreeBlocks(d, B) = e
  BY DEF FreeBlocks
<1>4. Block \ e.bmap = Block \ (d.bmap \ B) /\ e.bmap \subseteq Block
  BY <1>1 DEF Counted
<1>5. e.bfree = Cardinality(Block \ e.bmap)
  <2>1. d.bfree = Cardinality(Block \ d.bmap)
    BY DEF Counted
  <2>2. e.bfree = Cardinality(Block \ (d.bmap \ B))
    BY <1>1, <1>2, <2>1
  <2> QED
    BY <1>4, <2>2
<1> HIDE DEF e
<1>6. Counted(e)
  BY <1>1, <1>4, <1>5 DEF Counted
<1> QED
  BY <1>3, <1>6

-----------------------------------------------------------------------------
(* What the commands are built from. *)

\* The link count of an inode is none of the counters.
LEMMA LinkedCounted ==
  ASSUME NEW d, Counted(d), NEW i, NEW k
  PROVE  Counted(Linked(d, i, k))
BY DEF Counted, Fields, Linked

\* A new inode, with or without its first block, is marked and counted.
LEMMA TakenCounted ==
  ASSUME NEW d, Counted(d), NEW i \in Inode \cup {0}, NEW ino
  PROVE  Counted(Taken(d, i, ino))
<1>1. Counted(MarkInode(d, i))
  BY MarkInodeCounted
<1> QED
  BY <1>1 DEF Counted, Fields, Taken

\* A new inode with its first block, likewise.
LEMMA TakenWithCounted ==
  ASSUME NEW d, Counted(d), NEW i \in Inode \cup {0}, NEW ino,
         NEW b \in Block \cup {0}, NEW es
  PROVE  Counted(TakenWith(d, i, ino, b, es))
<1> DEFINE t == Taken(d, i, [ino EXCEPT !.i_block[1] = b])
<1>1. Counted(t)
  BY TakenCounted
<1>2. Counted(MarkBlock(t, b))
  BY <1>1, MarkBlockCounted
<1> QED
  BY <1>2 DEF Counted, Fields, TakenWith

\* A directory entry is written into a block that is already there, or alone into
\* one that becomes the directory's.
LEMMA EntryCounted ==
  ASSUME NEW d, Counted(d), NEW p, NEW b, NEW i, NEW n, NEW type
  PROVE  /\ Counted(WithEntry(d, p, i, n, type))
         /\ Counted(WithBlock(d, p, b, i, n, type))
<1>1. Counted(WithEntry(d, p, i, n, type))
  BY DEF Counted, Fields, WithEntry
<1>2. Counted(WithBlock(d, p, b, i, n, type))
  BY DEF Counted, Fields, WithBlock
<1> QED
  BY <1>1, <1>2

\* A copy takes as many blocks as it marks.
LEMMA WrittenCounted ==
  ASSUME NEW d, Counted(d), NEW i, NEW k
  PROVE  Counted(Written(d, i, k))
<1> DEFINE free == Block \ d.bmap
           B    == {b \in free : Cardinality({c \in free : c < b}) < BlocksTaken(k)}
<1>1. IsFiniteSet(free) /\ IsFiniteSet(B) /\ B \subseteq free
  BY DiskAssumption, FS_Subset, free \in SUBSET Block, B \in SUBSET Block
<1>2. Cardinality(free \ B) = Cardinality(free) - Cardinality(B)
  <2>1. Cardinality(free \ B) = Cardinality(free) - Cardinality(free \cap B)
    BY <1>1, FS_Difference, Zenon
  <2>2. free \cap B = B
    BY <1>1
  <2> QED
    BY <2>1, <2>2
<1>3. /\ DOMAIN Written(d, i, k) = Fields
      /\ Written(d, i, k).bmap = d.bmap \cup B
      /\ Written(d, i, k).bfree = d.bfree - Cardinality(B)
      /\ Written(d, i, k).imap = d.imap
      /\ Written(d, i, k).ifree = d.ifree
  BY DEF Counted, Fields, Written
<1>4. Block \ (d.bmap \cup B) = free \ B /\ d.bmap \cup B \subseteq Block
  BY DEF Counted
<1> HIDE DEF B
<1> QED
  BY <1>2, <1>3, <1>4 DEF Counted

\* A directory whose block is freed gives it back.
LEMMA ShrunkCounted ==
  ASSUME NEW d, Counted(d), NEW p
  PROVE  Counted(Shrunk(d, p))
<1> DEFINE s == Min({t \in 1 .. Slots : d.inode[p].i_block[t] # 0})
           b == d.inode[p].i_block[s]
<1>1. Counted(FreeBlocks(d, {b}))
  BY FreeBlocksCounted
<1>2. Counted([FreeBlocks(d, {b}) EXCEPT !.inode[p].i_block[s] = 0])
  BY <1>1 DEF Counted, Fields
<1> QED
  BY <1>2 DEF Shrunk

-----------------------------------------------------------------------------
(* The commands, each of their returns. *)

\* mkdir returns a counted image from each of its exits.
LEMMA MkdirCounted ==
  ASSUME NEW d, Counted(d), NEW path
  PROVE  Counted(mkdir(d, path).disk)
<1> DEFINE n    == FileName(path)
           p    == Parent(d, path)
           i    == find_free_inode(d)
           b    == find_free_block(d)
           made == Linked(TakenWith(d, i, FreshInode("dir", 2), b, DirBlock(i, p)), p, 1)
           c    == find_free_block(made)
           more == MarkBlock(made, c)
           bare == Taken(d, i, FreshInode("dir", 2))
<1>1. i \in Inode \cup {0} /\ b \in Block \cup {0}
  BY FreeFound
<1>2. Counted(made)
  BY <1>1, TakenWithCounted, LinkedCounted
<1>3. Counted(more)
  <2>1. c \in Block \cup {0}
    BY <1>2, FreeFound
  <2> HIDE DEF made
  <2> QED
    BY <1>2, <2>1, MarkBlockCounted
<1>4. Counted(FreeInodes(bare, {i}))
  BY <1>1, TakenCounted, FreeInodesCounted
<1>5. /\ Counted(WithEntry(made, p, i, n, "dir"))
      /\ Counted(WithBlock(more, p, c, i, n, "dir"))
  BY <1>2, <1>3, EntryCounted, Zenon
<1>6. Counted(FreeInodes(FreeBlocks(more, {i}), {i}))
  BY <1>3, FreeBlocksCounted, FreeInodesCounted, Zenon
<1>7. mkdir(d, path).disk \in {d, FreeInodes(bare, {i}), WithEntry(made, p, i, n, "dir"),
                               WithBlock(more, p, c, i, n, "dir"),
                               FreeInodes(FreeBlocks(more, {i}), {i})}
  BY DEF mkdir, Outcome
<1> QED
  BY <1>4, <1>5, <1>6, <1>7

\* cp, likewise.
LEMMA CpCounted ==
  ASSUME NEW d, Counted(d), NEW n, NEW size, NEW path, NEW seen
  PROVE  Counted(cp(d, n, size, path, seen).disk)
<1> DEFINE k == BlocksIn(size)
<1> HIDE DEF k
<1>1. \A i : Counted(Overwritten(d, i, k))
  BY FreeBlocksCounted, WrittenCounted DEF Overwritten
<1>2. ASSUME NEW p PROVE Counted(Copied(d, p, n, k).disk)
  <2> DEFINE i    == find_free_inode(d)
             made == Written(MarkInode(d, i), i, k)
             c    == find_free_block(made)
             more == MarkBlock(made, c)
             back == FreeInodes(FreeBlocks(made, FreedBlocks(made, i)), {i})
             lost == [more EXCEPT !.data[c] = <<DirEntry(i, n, BlockSize, "reg")>>, !.word[c] = Bytes]
  <2>1. Counted(made)
    BY FreeFound, MarkInodeCounted, WrittenCounted
  <2>2. Counted(more)
    BY <2>1, FreeFound, MarkBlockCounted
  <2>3. Counted(back)
    BY <2>1, FreeBlocksCounted, FreeInodesCounted, Zenon
  <2>4. /\ Counted(WithEntry(made, p, i, n, "reg"))
        /\ Counted(WithBlock(more, p, c, i, n, "reg"))
    BY <2>1, <2>2, EntryCounted, Zenon
  <2>5. Counted(lost)
    <3> HIDE DEF more
    <3> QED
      BY <2>2 DEF Counted, Fields
  <2>6. Copied(d, p, n, k).disk \in {d, WithEntry(made, p, i, n, "reg"), back,
                                     WithBlock(more, p, c, i, n, "reg"), lost}
    BY DEF Copied, Outcome
  <2> QED
    BY <2>3, <2>4, <2>5, <2>6
<1>3. \E i : cp(d, n, size, path, seen).disk \in {d, Overwritten(d, i, k), Copied(d, i, n, k).disk}
  BY DEF cp, Outcome, k
<1> QED
  BY <1>1, <1>2, <1>3

\* ln, likewise.
LEMMA LnCounted ==
  ASSUME NEW d, Counted(d), NEW from, NEW to
  PROVE  Counted(ln(d, from, to).disk)
<1> DEFINE n    == FileName(to)
           p    == Parent(d, to)
           i    == InodeOf(d, from)
           made == Linked(d, Resolved(d, from), 1)
           c    == find_free_block(d)
           more == MarkBlock(made, c)
           stale == StaleName(d, c, n)
<1>1. Counted(made)
  BY LinkedCounted
<1>2. Counted(more)
  BY <1>1, FreeFound, MarkBlockCounted
<1>3. /\ Counted(WithEntry(made, p, i, n, "reg"))
      /\ Counted(WithBlock(more, p, c, i, stale, TypeOf(d, from)))
  BY <1>1, <1>2, EntryCounted, Zenon
<1>4. ln(d, from, to).disk \in {d, WithEntry(made, p, i, n, "reg"), more,
                                WithBlock(more, p, c, i, stale, TypeOf(d, from))}
  BY DEF ln, Outcome
<1> QED
  BY <1>2, <1>3, <1>4

\* ln -s, likewise.
LEMMA LnSCounted ==
  ASSUME NEW d, Counted(d), NEW from, NEW to
  PROVE  Counted(ln_s(d, from, to).disk)
<1> DEFINE n    == FileName(to)
           i    == find_free_inode(d)
           b    == find_free_block(d)
           ino  == [FreshInode("lnk", 1) EXCEPT !.target = from]
           made == TakenWith(d, i, ino, b, <<>>)
           c    == find_free_block(made)
           more == MarkBlock(made, c)
           bare == Taken(d, i, FreshInode("lnk", 1))
           long == MarkBlock(bare, b)
<1>1. i \in Inode \cup {0} /\ b \in Block \cup {0}
  BY FreeFound
<1>2. Counted(made)
  BY <1>1, TakenWithCounted
<1>3. Counted(more)
  BY <1>2, FreeFound, MarkBlockCounted
<1>4. Counted(FreeInodes(bare, {i})) /\ Counted(FreeInodes(FreeBlocks(made, {b}), {i}))
  BY <1>1, <1>2, TakenCounted, FreeBlocksCounted, FreeInodesCounted, Zenon
<1>5. /\ Counted(WithEntry(made, Root, i, n, "lnk"))
      /\ Counted(WithBlock(more, Root, c, i, n, TypeOf(d, from)))
      /\ Counted(long)
  BY <1>1, <1>2, <1>3, EntryCounted, TakenCounted, MarkBlockCounted, Zenon
<1>6. ln_s(d, from, to).disk \in {d, FreeInodes(bare, {i}), made, more, long,
                                  WithEntry(made, Root, i, n, "lnk"),
                                  FreeInodes(FreeBlocks(made, {b}), {i}),
                                  WithBlock(more, Root, c, i, n, TypeOf(d, from))}
  BY DEF ln_s, Outcome
<1> QED
  BY <1>2, <1>3, <1>4, <1>5, <1>6

\* rm, likewise.
LEMMA RmCounted ==
  ASSUME NEW d, Counted(d), NEW path, NEW r
  PROVE  Counted(rm(d, path, r).disk)
<1>1. ASSUME NEW p, NEW x PROVE Counted(Removed(d, p, x))
  <2>1. \A B, I : Counted(FreeInodes(FreeBlocks(Shrunk(d, p), B), I))
    BY ShrunkCounted, FreeBlocksCounted, FreeInodesCounted, Zenon
  <2>2. \A e, D, N : Counted(e) => Counted([e EXCEPT !.data = D, !.inode = N])
    BY DEF Counted, Fields
  <2> QED
    BY <2>1, <2>2, Zenon DEF Removed
<1>2. rm(d, path, r).disk \in {d, Removed(d, Parent(d, path), find_dir_entry(d, path))}
  BY DEF rm, Outcome
<1> QED
  BY <1>1, <1>2

-----------------------------------------------------------------------------
\* The fresh image is counted.
LEMMA FreshCounted == Counted(FreshDisk)
<1>1. RootBlock \in Block
  BY MinOfNaturals, DiskAssumption DEF RootBlock
<1>2. Cardinality(Block \ {RootBlock}) = Cardinality(Block) - 1
  BY <1>1, FS_RemoveElement, DiskAssumption
<1>3. Inode \ {} = Inode
  OBVIOUS
<1> QED
  BY <1>1, <1>2, <1>3 DEF Counted, Fields, FreshDisk

\* Every command keeps the image counted.
LEMMA DiskStaysCounted == Spec => []DiskCounted
<1>1. Init => DiskCounted
  BY FreshCounted DEF Init, DiskCounted
<1>2. DiskCounted /\ [Next]_vars => DiskCounted'
  <2> SUFFICES ASSUME Counted(disk), [Next]_vars PROVE Counted(disk')
    BY DEF DiskCounted
  <2>1. ASSUME NEW path \in Path, Mkdir(path) PROVE Counted(disk')
    BY <2>1, MkdirCounted DEF Mkdir, Return
  <2>2. ASSUME NEW n \in Name, NEW size \in Size, NEW path \in Path \cup {<<>>},
               NEW seen \in BOOLEAN, Cp(n, size, path, seen)
        PROVE  Counted(disk')
    BY <2>2, CpCounted DEF Cp, Return
  <2>3. ASSUME NEW from \in Path, NEW to \in Path, Ln(from, to) PROVE Counted(disk')
    BY <2>3, LnCounted DEF Ln, Return
  <2>4. ASSUME NEW from \in Path, NEW to \in Path, LnS(from, to) PROVE Counted(disk')
    BY <2>4, LnSCounted DEF LnS, Return
  <2>5. ASSUME NEW path \in Path, NEW r \in BOOLEAN, Rm(path, r) PROVE Counted(disk')
    BY <2>5, RmCounted DEF Rm, Return
  <2>6. CASE UNCHANGED vars
    BY <2>6 DEF vars
  <2> QED
    BY <2>1, <2>2, <2>3, <2>4, <2>5, <2>6 DEF Next
<1> QED
  BY <1>1, <1>2, PTL DEF Spec

\* CountersAgree: the free counts of superblock and group descriptor are those of
\* the bitmaps after any sequence of commands, the ones that fail half way, free the
\* wrong bit or crash included.
THEOREM CountersStayRight == Spec => []CountersAgree
<1>1. DiskCounted => CountersAgree
  BY DEF Counted, CountersAgree, DiskCounted
<1> QED
  BY <1>1, DiskStaysCounted, PTL

-----------------------------------------------------------------------------
(* have_enough_blocks. *)

\* Half blocks, rounded up.
LEMMA HalfBlocks ==
  ASSUME NEW size \in Nat, NEW m \in Nat
  PROVE  /\ BlocksIn(size) \in Nat
         /\ size < 2 * m => BlocksIn(size) <= m
BY DEF BlocksIn

\* The estimate covers what a copy takes, and what needs a double indirect block is
\* estimated to need more blocks than the image has.
LEMMA EstimateCovers ==
  ASSUME NEW size \in Nat, BlocksNeeded(size) <= Direct + Ptrs
  PROVE  BlocksIn(size) <= Direct + Ptrs /\ BlocksTaken(BlocksIn(size)) <= BlocksNeeded(size)
<1>1. Direct \in Nat /\ Ptrs \in Nat
  BY DiskAssumption
<1>2. BlocksIn(size) \in Nat
  BY HalfBlocks, <1>1
<1>3. CASE size < 2 * Direct
  <2>1. BlocksIn(size) <= Direct
    BY <1>1, <1>3, HalfBlocks
  <2> QED
    BY <1>1, <1>2, <1>3, <2>1 DEF BlocksNeeded, BlocksTaken
<1>4. CASE ~(size < 2 * Direct) /\ size < 2 * (Direct + Ptrs)
  <2>1. BlocksIn(size) <= Direct + Ptrs
    BY <1>1, <1>4, HalfBlocks, Direct + Ptrs \in Nat
  <2> QED
    BY <1>1, <1>2, <1>4, <2>1 DEF BlocksNeeded, BlocksTaken
<1>5. CASE ~(size < 2 * Direct) /\ ~(size < 2 * (Direct + Ptrs))
  BY <1>1, <1>5 DEF BlocksNeeded
<1> QED
  BY <1>3, <1>4, <1>5

\* EstimateHolds: in every image that commands leave, a file that passes
\* have_enough_blocks fits in direct and single indirect blocks, and the blocks that
\* cp takes for it are free.
THEOREM CopyIsCovered == Spec => []EstimateHolds
<1>1. DiskCounted => EstimateHolds
  <2> SUFFICES ASSUME DiskCounted, NEW size \in Size, disk.bfree >= BlocksNeeded(size)
               PROVE  /\ BlocksIn(size) <= Direct + Ptrs
                      /\ BlocksTaken(BlocksIn(size)) <= Cardinality(Block \ disk.bmap)
    BY DEF EstimateHolds
  <2> DEFINE free == Cardinality(Block \ disk.bmap)
  <2>1. IsFiniteSet(Block) /\ Block \ disk.bmap \subseteq Block
    BY DiskAssumption
  <2>2. IsFiniteSet(Block \ disk.bmap) /\ free <= Cardinality(Block)
    BY <2>1, FS_Subset, Zenon
  <2>3. free \in Nat /\ Cardinality(Block) \in Nat /\ disk.bfree = free
    BY <2>1, <2>2, FS_CardinalityType DEF DiskCounted, Counted
  <2>4. size \in Nat /\ Direct \in Nat /\ Ptrs \in Nat /\ Cardinality(Block) <= Direct + Ptrs
    BY SizeAssumption, DiskAssumption
  <2>5. BlocksIn(size) \in Nat /\ BlocksNeeded(size) \in Nat /\ BlocksTaken(BlocksIn(size)) \in Nat
    BY <2>4, HalfBlocks DEF BlocksNeeded, BlocksTaken
  <2> HIDE DEF free
  <2>6. BlocksNeeded(size) <= Direct + Ptrs
    BY <2>2, <2>3, <2>4, <2>5
  <2>7. /\ BlocksIn(size) <= Direct + Ptrs
        /\ BlocksTaken(BlocksIn(size)) <= BlocksNeeded(size)
    BY <2>4, <2>6, EstimateCovers
  <2> QED
    BY <2>3, <2>5, <2>7 DEF free
<1> QED
  BY <1>1, DiskStaysCounted, PTL

-----------------------------------------------------------------------------
(* The image that careful commands keep: its types, who has which block, what  *)
(* an inode's blocks are, and what names what.  o is an inode that has been    *)
(* taken and has no name yet, or 0.                                            *)

Marked(d) == d.imap \cup {Root}
Dirs(d)   == {i \in Marked(d) : d.inode[i].i_mode = "dir"}

\* The entries of a block that has any.
Lengths(es) == [k \in DOMAIN es |-> es[k].rec_len]
GoodBlock(es) ==
  /\ es \in Seq(EntryRecord) /\ es # <<>>
  /\ \A k \in 1 .. Len(es) : es[k].rec_len % 4 = 0 /\ es[k].rec_len >= 8 + Length(es[k].name)
  /\ Total(Lengths(es), DOMAIN es) = BlockSize

Typed(d) ==
  /\ Counted(d)
  /\ d.inode \in [Inode \cup {Root} -> InodeRecord]
  /\ DOMAIN d.data = Block \cup {0} /\ \A b \in Block \cup {0} : d.data[b] = <<>> \/ GoodBlock(d.data[b])
  /\ d.word \in [Block \cup {0} -> [1 .. Ptrs -> Block \cup {0, Junk}]]

\* The blocks of an inode: in its slots, and in the words of its indirect block.
Spot == 1 .. Slots + Ptrs
Held(d, i, v) == IF v <= Slots THEN d.inode[i].i_block[v] ELSE Through(d, i, v - Slots)
Owned(d) ==
  /\ \A i \in Marked(d), v \in Spot : Held(d, i, v) \in d.bmap \cup {0}
  /\ \A i, j \in Marked(d), u, v \in Spot :
       Held(d, i, u) = Held(d, j, v) /\ Held(d, i, u) # 0 => i = j /\ u = v
  /\ \A b \in d.bmap : \E i \in Marked(d), v \in Spot : Held(d, i, v) = b

FileShape(d, i) == LET f == d.inode[i] IN
  /\ \A s \in 1 .. Slots : f.i_block[s] # 0 <=> s <= Direct + 1 /\ s <= f.i_size
  /\ \A w \in 1 .. Ptrs : Direct + w <= f.i_size => Through(d, i, w) # 0
  /\ Unreached(d, i) \subseteq {0}
DirShape(d, i) == LET b == d.inode[i].i_block[1]  es == d.data[b] IN
  /\ \A c \in BlocksOf(d, i) : d.data[c] # <<>>
  /\ b # 0 /\ Len(es) >= 2
  /\ es[1].name = "." /\ es[1].inode = i
  /\ es[2].name = ".." /\ es[2].inode # 0
Shaped(d, i) == LET f == d.inode[i] IN
  /\ f.i_mode # "none"
  /\ f.i_mode = "reg" => FileShape(d, i)
  /\ f.i_mode # "reg" => f.i_size = 0
  /\ f.i_mode = "lnk" => \A s \in 1 .. Slots : s # 1 => f.i_block[s] = 0
  /\ f.i_mode # "dir" => \A b \in BlocksOf(d, i) : d.data[b] = <<>>
  /\ f.i_mode = "dir" => DirShape(d, i)

\* What the ".." of a directory names; and the entries that name an inode.
Above(d, i) == d.data[d.inode[i].i_block[1]][2].inode
Places(d)   == UNION {{p} \X Entries(d, p) : p \in Dirs(d)}
Named(d, i) == {y \in Places(d) : At(d, y[2]).inode = i}

Linking(d, o) ==
  /\ \A p \in Dirs(d) : \A x \in Entries(d, p) :
       At(d, x).inode \in Marked(d) /\ (At(d, x).file_type = "dir" <=> At(d, x).inode \in Dirs(d))
  /\ \A p \in Dirs(d) : \A x, y \in Entries(d, p) : At(d, x).name = At(d, y).name => x = y
  /\ Root \in Dirs(d) /\ Above(d, Root) = Root
  /\ \A p \in Dirs(d) : \A x \in External(d, p) :
       At(d, x).inode \in Dirs(d) => At(d, x).inode # Root /\ Above(d, At(d, x).inode) = p
  /\ \A p \in Dirs(d) : \A x, y \in External(d, p) :
       At(d, x).inode \in Dirs(d) /\ At(d, x).inode = At(d, y).inode => x = y
  /\ \A i \in Marked(d) \ {Root, o} : \E p \in Dirs(d) : \E x \in External(d, p) : At(d, x).inode = i
  /\ \A i \in Marked(d) :
       d.inode[i].i_links_count = Cardinality(Named(d, i)) + (IF i = o THEN 1 ELSE 0)

\* All directories that have a name can be reached, and no path ends in one that
\* is too deep for a name of its own.
AnyPath == Path \cup {<<>>}
Reached(d, o) ==
  \A q \in Dirs(d) \ {o} : \E path \in AnyPath :
    InodeOf(d, path) = q /\ (Len(path) < MaxDepth \/ External(d, q) = {})

Own(d)      == Typed(d) /\ Owned(d) /\ \A i \in Marked(d) : Shaped(d, i)
Sound(d, o) == Own(d) /\ Linking(d, o)

-----------------------------------------------------------------------------
(* Paths. *)

\* A path is a directory's path with one name more.
LEMMA PathParts ==
  ASSUME NEW path \in Path
  PROVE  /\ path \in Seq(Name) /\ Len(path) \in 1 .. MaxDepth
         /\ ParentPath(path) \in AnyPath /\ ParentPath(path) \in Seq(Name)
         /\ Len(ParentPath(path)) = Len(path) - 1
         /\ \A k \in 1 .. Len(path) - 1 : ParentPath(path)[k] = path[k]
         /\ FileName(path) \in Name
<1>1. PICK n \in 1 .. MaxDepth : path \in [1 .. n -> Name]
  BY DEF Path
<1>2. n \in Nat /\ MaxDepth \in Nat
  BY DiskAssumption
<1>3. path \in Seq(Name) /\ Len(path) = n
  BY <1>1, <1>2
<1>4. \A k \in 1 .. n - 1 : path[k] \in Name
  BY <1>1, <1>2
<1>5. /\ SubSeq(path, 1, n - 1) \in Seq(Name)
      /\ Len(SubSeq(path, 1, n - 1)) = n - 1
      /\ \A k \in 1 .. n - 1 : SubSeq(path, 1, n - 1)[k] = path[k]
  <2>1. n - 1 \in Int /\ 1 \in Int
    BY <1>2
  <2>2. /\ SubSeq(path, 1, n - 1) \in Seq(Name)
        /\ Len(SubSeq(path, 1, n - 1)) = IF 1 <= n - 1 THEN n - 1 - 1 + 1 ELSE 0
        /\ \A k \in 1 .. n - 1 - 1 + 1 : SubSeq(path, 1, n - 1)[k] = path[1 + k - 1]
    BY <1>4, <2>1, SubSeqProperties
  <2> QED
    BY <1>2, <2>2
<1>6. SubSeq(path, 1, n - 1) \in AnyPath
  <2>1. CASE n = 1
    BY <1>5, <2>1, EmptySeq DEF AnyPath
  <2>2. CASE n # 1
    <3>1. n - 1 \in 1 .. MaxDepth
      BY <1>2, <2>2
    <3>2. SubSeq(path, 1, n - 1) \in [1 .. n - 1 -> Name]
      BY <1>5, LenProperties
    <3> QED
      BY <3>1, <3>2 DEF AnyPath, Path
  <2> QED
    BY <2>1, <2>2
<1> QED
  BY <1>1, <1>2, <1>3, <1>5, <1>6 DEF ParentPath, FileName

\* A path with a name more is a path if it is not too long.
LEMMA PathLonger ==
  ASSUME NEW q \in AnyPath, Len(q) < MaxDepth, NEW n \in Name
  PROVE  /\ Append(q, n) \in Path /\ ParentPath(Append(q, n)) = q
         /\ FileName(Append(q, n)) = n /\ Len(Append(q, n)) = Len(q) + 1
<1>1. q \in Seq(Name) /\ Len(q) \in Nat /\ MaxDepth \in Nat
  BY PathParts, EmptySeq, DiskAssumption DEF AnyPath
<1> DEFINE a == Append(q, n)
<1>2. /\ a \in Seq(Name) /\ Len(a) = Len(q) + 1
      /\ \A i \in 1 .. Len(q) : a[i] = q[i]
      /\ a[Len(q) + 1] = n
  BY <1>1, AppendProperties
<1> HIDE DEF a
<1>3. a \in [1 .. Len(a) -> Name] /\ Len(a) \in 1 .. MaxDepth
  BY <1>1, <1>2, LenProperties
<1>4. a \in Path
  BY <1>3 DEF Path
<1>5. ParentPath(a) = q
  <2>1. /\ ParentPath(a) \in Seq(Name) /\ Len(ParentPath(a)) = Len(q)
        /\ \A k \in 1 .. Len(q) : ParentPath(a)[k] = q[k]
    BY <1>1, <1>2, <1>4, PathParts
  <2> QED
    BY <1>1, <2>1, SeqEqual
<1> QED
  BY <1>2, <1>4, <1>5 DEF FileName, a

\* find_dir_entry looks up one name after the other.
StepFrom(d, x, n) == IF x = NULL THEN NULL ELSE locate_file_by_name(d, At(d, x).inode, n)
Walker(W, d, path, m) ==
  W = [k \in 1 .. m |-> IF k = 1 THEN locate_file_by_name(d, Root, path[1])
                        ELSE StepFrom(d, W[k - 1], path[k])]

\* The walk exists for any number of names.
LEMMA WalkerUpTo ==
  ASSUME NEW d, NEW path, NEW m \in Nat
  PROVE  \E W : Walker(W, d, path, m)
<1> DEFINE Bad == {k \in Nat : ~ \E W : Walker(W, d, path, k)}
<1> SUFFICES ASSUME Bad # {} PROVE FALSE
  OBVIOUS
<1>1. PICK k \in Bad : \A j \in Nat : j < k => j \notin Bad
  BY Smallest
<1>2. CASE k = 0
  <2> DEFINE W == [j \in 1 .. 0 |-> NULL]
  <2>1. Walker(W, d, path, 0)
    BY DEF Walker
  <2> QED
    BY <1>2, <2>1
<1>3. CASE k # 0
  <2>1. k - 1 \in Nat /\ k - 1 < k
    BY <1>3
  <2>2. PICK W : Walker(W, d, path, k - 1)
    BY <1>1, <2>1
  <2> DEFINE V == [j \in 1 .. k |-> IF j = 1 THEN locate_file_by_name(d, Root, path[1])
                                    ELSE StepFrom(d, W[j - 1], path[j])]
  <2>3. ASSUME NEW j \in 1 .. k - 1 PROVE j \in 1 .. k /\ V[j] = W[j]
    <3>1. W[j] = IF j = 1 THEN locate_file_by_name(d, Root, path[1])
                 ELSE StepFrom(d, W[j - 1], path[j])
      BY <2>2 DEF Walker
    <3> QED
      BY <2>1, <3>1
  <2>4. \A j \in 1 .. k : V[j] = IF j = 1 THEN locate_file_by_name(d, Root, path[1])
                                 ELSE StepFrom(d, V[j - 1], path[j])
    <3> SUFFICES ASSUME NEW j \in 1 .. k
                 PROVE  V[j] = IF j = 1 THEN locate_file_by_name(d, Root, path[1])
                               ELSE StepFrom(d, V[j - 1], path[j])
      OBVIOUS
    <3>1. CASE j = 1
      BY <3>1
    <3>2. CASE j # 1
      <4>1. j - 1 \in 1 .. k - 1
        BY <2>1, <3>2
      <4>2. V[j - 1] = W[j - 1]
        BY <2>3, <4>1
      <4>3. V[j] = StepFrom(d, W[j - 1], path[j])
        BY <3>2
      <4> HIDE DEF V
      <4> QED
        BY <3>2, <4>2, <4>3
    <3> QED
      BY <3>1, <3>2
  <2>5. V = [j \in 1 .. k |-> V[j]]
    OBVIOUS
  <2> HIDE DEF V
  <2>6. Walker(V, d, path, k)
    BY <2>4, <2>5 DEF Walker
  <2> QED
    BY <2>6
<1> QED
  BY <1>2, <1>3

\* So find_dir_entry steps from the entry of the directory.
LEMMA WalkStep ==
  ASSUME NEW d, NEW path \in Path
  PROVE  find_dir_entry(d, path) =
           IF Len(path) = 1 THEN locate_file_by_name(d, Root, FileName(path))
           ELSE StepFrom(d, find_dir_entry(d, ParentPath(path)), FileName(path))
<1> DEFINE q == ParentPath(path)
           m == Len(path)
<1>1. m \in Nat /\ m >= 1 /\ Len(q) = m - 1 /\ \A k \in 1 .. m - 1 : q[k] = path[k]
  BY PathParts
<1> DEFINE W == CHOOSE W : Walker(W, d, path, m)
           V == CHOOSE V : Walker(V, d, q, m - 1)
<1>2. find_dir_entry(d, path) = W[m]
  BY DEF find_dir_entry, Walker, StepFrom
<1>3. find_dir_entry(d, q) = V[m - 1]
  <2>1. find_dir_entry(d, q) = (CHOOSE U : Walker(U, d, q, Len(q)))[Len(q)]
    BY DEF find_dir_entry, Walker, StepFrom
  <2> QED
    BY <1>1, <2>1
<1>4. Walker(W, d, path, m) /\ Walker(V, d, q, m - 1)
  <2>1. m \in Nat /\ m - 1 \in Nat
    BY <1>1
  <2> HIDE DEF m, q
  <2>2. (\E U : Walker(U, d, path, m)) /\ (\E U : Walker(U, d, q, m - 1))
    BY <2>1, WalkerUpTo
  <2> QED
    BY <2>2
<1> HIDE DEF W, V, q, m
<1>5. \A k \in 1 .. m : W[k] = IF k = 1 THEN locate_file_by_name(d, Root, path[1])
                               ELSE StepFrom(d, W[k - 1], path[k])
  BY <1>4 DEF Walker
<1>6. \A k \in 1 .. m - 1 : V[k] = IF k = 1 THEN locate_file_by_name(d, Root, q[1])
                                   ELSE StepFrom(d, V[k - 1], q[k])
  BY <1>4 DEF Walker
<1>7. \A k \in 1 .. m - 1 : W[k] = V[k]
  <2> DEFINE Bad == {k \in 1 .. m - 1 : W[k] # V[k]}
  <2> SUFFICES ASSUME Bad # {} PROVE FALSE
    OBVIOUS
  <2>1. Bad \in SUBSET Nat
    BY <1>1
  <2>2. PICK k \in Bad : \A j \in Nat : j < k => j \notin Bad
    BY <2>1, Smallest
  <2>3. k \in 1 .. m - 1 /\ k \in 1 .. m /\ W[k] # V[k] /\ q[k] = path[k]
    BY <1>1, <2>2
  <2>4. CASE k = 1
    BY <1>5, <1>6, <2>3, <2>4
  <2>5. CASE k # 1
    <3>1. k - 1 \in 1 .. m - 1 /\ k - 1 < k /\ k - 1 \in Nat
      BY <1>1, <2>3, <2>5
    <3>2. W[k - 1] = V[k - 1]
      BY <2>2, <3>1
    <3> QED
      BY <1>5, <1>6, <2>3, <2>5, <3>2
  <2> QED
    BY <2>4, <2>5
<1>8. W[m] = IF m = 1 THEN locate_file_by_name(d, Root, path[1]) ELSE StepFrom(d, W[m - 1], path[m])
  BY <1>1, <1>5
<1>9. m # 1 => W[m - 1] = V[m - 1]
  BY <1>1, <1>7
<1> QED
  BY <1>2, <1>3, <1>8, <1>9 DEF FileName, q, m

\* An entry in use is at a place in one of the directory's blocks.
LEMMA EntryFacts ==
  ASSUME NEW d, NEW p, NEW x \in Entries(d, p)
  PROVE  /\ x = <<x[1], x[2]>> /\ x # NULL
         /\ x[1] \in BlocksOf(d, p) /\ x[1] # 0 /\ x[2] \in 1 .. BlockSize \div 8
         /\ x[2] \in DOMAIN d.data[x[1]] /\ At(d, x).inode # 0
BY DEF Entries, At, BlocksOf, NULL

\* Every such place is an entry.
LEMMA EntryAt ==
  ASSUME NEW d, NEW p, NEW b \in BlocksOf(d, p), NEW k \in 1 .. BlockSize \div 8,
         k \in DOMAIN d.data[b], d.data[b][k].inode # 0
  PROVE  <<b, k>> \in Entries(d, p)
BY DEF Entries

\* No inode has number 0, and the root's is not one to be taken.
LEMMA NoNumberZero ==
  ASSUME NEW d, Typed(d)
  PROVE  /\ 0 \notin Marked(d) /\ 0 \notin Inode /\ Root \notin Inode
         /\ Marked(d) \subseteq Inode \cup {Root} /\ Dirs(d) \subseteq Marked(d)
BY DiskAssumption DEF Marked, Root, Typed, Counted, Dirs

\* An inode that is no directory has no entries.
LEMMA NoEntries ==
  ASSUME NEW d, NEW p, Shaped(d, p), d.inode[p].i_mode # "dir"
  PROVE  Entries(d, p) = {}
<1>1. ASSUME NEW x \in Entries(d, p) PROVE FALSE
  <2>1. x[1] \in BlocksOf(d, p) /\ x[2] \in DOMAIN d.data[x[1]]
    BY EntryFacts
  <2>2. d.data[x[1]] = <<>>
    BY <2>1 DEF Shaped
  <2> QED
    BY <2>1, <2>2
<1> QED
  BY <1>1

\* locate_file_by_name finds the entry with the name, which is the only one.
LEMMA LocateIs ==
  ASSUME NEW d, NEW o, Sound(d, o), NEW p \in Marked(d), NEW n
  PROVE  LET x == locate_file_by_name(d, p, n) IN
         /\ x # NULL => p \in Dirs(d) /\ x \in Entries(d, p) /\ At(d, x).name = n
         /\ \A y \in Entries(d, p) : At(d, y).name = n => x = y
<1> DEFINE S == {x \in Entries(d, p) : At(d, x).name = n}
           x == locate_file_by_name(d, p, n)
<1>1. p \notin Dirs(d) => Entries(d, p) = {}
  BY NoEntries DEF Sound, Own, Dirs
<1>2. \A y, z \in S : y = z
  BY <1>1 DEF Sound, Own, Linking
<1>3. CASE S = {}
  <2>1. x = NULL
    BY <1>3 DEF locate_file_by_name
  <2> QED
    BY <1>3, <2>1
<1>4. CASE S # {}
  <2>1. PICK y \in S : TRUE
    BY <1>4
  <2>2. S = {y} /\ S \ {y} = {}
    BY <1>2, <2>1
  <2>3. x = CHOOSE z \in S : \A w \in S \ {z} : Before(d, p, z, w)
    BY <1>4 DEF locate_file_by_name
  <2> HIDE DEF S, x
  <2>4. \E z \in S : \A w \in S \ {z} : Before(d, p, z, w)
    BY <2>1, <2>2
  <2>5. x \in S
    BY <2>3, <2>4
  <2> QED
    BY <1>1, <1>2, <2>5 DEF S, x
<1> QED
  BY <1>3, <1>4

\* A walk ends at an entry of a directory, or nowhere.
LEMMA WalkEnds ==
  ASSUME NEW d, NEW o, Sound(d, o), NEW path \in Path
  PROVE  LET x == find_dir_entry(d, path) IN
         x # NULL => \E p \in Dirs(d) : x \in Entries(d, p) /\ At(d, x).inode \in Marked(d)
<1> DEFINE Ends(q) == find_dir_entry(d, q) # NULL =>
             \E p \in Dirs(d) : /\ find_dir_entry(d, q) \in Entries(d, p)
                                /\ At(d, find_dir_entry(d, q)).inode \in Marked(d)
           Bad == {Len(q) : q \in {r \in Path : ~ Ends(r)}}
<1> SUFFICES ASSUME Bad # {} PROVE FALSE
  OBVIOUS
<1>1. Bad \in SUBSET Nat
  <2>1. \A q \in Path : Len(q) \in Nat
    BY PathParts, DiskAssumption
  <2> QED
    BY <2>1
<1>2. PICK m \in Bad : \A j \in Nat : j < m => j \notin Bad
  BY <1>1, Smallest
<1>3. PICK q \in Path : Len(q) = m /\ ~ Ends(q)
  OBVIOUS
<1>4. \A i \in Marked(d) : \A n : locate_file_by_name(d, i, n) # NULL =>
        /\ i \in Dirs(d)
        /\ locate_file_by_name(d, i, n) \in Entries(d, i)
        /\ At(d, locate_file_by_name(d, i, n)).inode \in Marked(d)
  <2> SUFFICES ASSUME NEW i \in Marked(d), NEW n, locate_file_by_name(d, i, n) # NULL
               PROVE  /\ i \in Dirs(d)
                      /\ locate_file_by_name(d, i, n) \in Entries(d, i)
                      /\ At(d, locate_file_by_name(d, i, n)).inode \in Marked(d)
    OBVIOUS
  <2>1. i \in Dirs(d) /\ locate_file_by_name(d, i, n) \in Entries(d, i)
    BY LocateIs
  <2> QED
    BY <2>1 DEF Sound, Own, Linking
<1>5. Root \in Marked(d)
  BY DEF Marked
<1>6. Len(q) # 1
  BY <1>3, <1>4, <1>5, WalkStep
<1> DEFINE r == ParentPath(q)
           y == find_dir_entry(d, r)
<1>7. r \in Path /\ Ends(r)
  <2>1. r \in AnyPath /\ Len(r) = m - 1 /\ m \in Nat /\ m >= 1
    BY <1>1, <1>3, PathParts
  <2>2. r \in Path
    BY <1>3, <1>6, <2>1, EmptySeq DEF AnyPath
  <2>3. Len(r) \in Nat /\ Len(r) < m
    BY <1>3, <1>6, <2>1
  <2> HIDE DEF Ends, r
  <2> QED
    BY <1>2, <2>2, <2>3
<1>8. find_dir_entry(d, q) = StepFrom(d, y, FileName(q))
  BY <1>3, <1>6, WalkStep
<1>9. y # NULL => At(d, y).inode \in Marked(d)
  BY <1>7
<1> HIDE DEF y, r
<1> QED
  BY <1>3, <1>4, <1>8, <1>9 DEF StepFrom

\* What a path names is marked, and is named by the entry for its last name in
\* its directory.
LEMMA PathStep ==
  ASSUME NEW d, NEW o, Sound(d, o), NEW path \in Path
  PROVE  LET p == InodeOf(d, ParentPath(path))
             i == InodeOf(d, path)
             x == find_dir_entry(d, path)
             n == FileName(path)
         IN  /\ p \in Marked(d) \cup {0} /\ i \in Marked(d) \cup {0}
             /\ i # 0 => /\ p \in Dirs(d) /\ x \in External(d, p)
                         /\ At(d, x).name = n /\ At(d, x).inode = i
                         /\ TypeOf(d, path) = At(d, x).file_type
                         /\ TypeOf(d, path) = "dir" <=> i \in Dirs(d)
             /\ \A y \in Entries(d, p) : p \in Dirs(d) /\ At(d, y).name = n => i = At(d, y).inode /\ x = y
<1> DEFINE q == ParentPath(path)
           p == InodeOf(d, q)
           i == InodeOf(d, path)
           x == find_dir_entry(d, path)
           y == find_dir_entry(d, q)
           n == FileName(path)
<1>1. /\ path # <<>> /\ q \in AnyPath /\ n \in Name /\ Len(path) \in Nat /\ Len(q) = Len(path) - 1
      /\ Len(path) = 1 <=> q = <<>>
  <2>1. /\ path \in Seq(Name) /\ Len(path) \in 1 .. MaxDepth /\ MaxDepth \in Nat
        /\ q \in AnyPath /\ q \in Seq(Name) /\ Len(q) = Len(path) - 1 /\ n \in Name
    BY PathParts, DiskAssumption
  <2> HIDE DEF q, n
  <2>2. q = <<>> <=> Len(q) = 0
    BY <2>1, EmptySeq
  <2>3. path # <<>>
    BY <2>1, EmptySeq
  <2> QED
    BY <2>1, <2>2, <2>3
<1>2. i = IF x = NULL THEN 0 ELSE At(d, x).inode
  BY <1>1 DEF InodeOf, FileAt, NoFile
<1>3. p = IF q = <<>> THEN Root ELSE IF y = NULL THEN 0 ELSE At(d, y).inode
  BY DEF InodeOf, FileAt, NoFile
<1>4. x = IF q = <<>> THEN locate_file_by_name(d, Root, n) ELSE StepFrom(d, y, n)
  BY <1>1, WalkStep
<1>5. Root \in Marked(d) /\ 0 \notin Marked(d)
  BY NoNumberZero DEF Sound, Own, Marked
<1>6. p \in Marked(d) \cup {0} /\ (q # <<>> /\ y # NULL => At(d, y).inode \in Marked(d))
  <2>1. q # <<>> => (y # NULL => At(d, y).inode \in Marked(d))
    BY <1>1, WalkEnds DEF AnyPath
  <2> QED
    BY <1>3, <1>5, <2>1
<1>7. x = IF p = 0 THEN NULL ELSE locate_file_by_name(d, p, n)
  BY <1>3, <1>4, <1>5, <1>6 DEF StepFrom
<1>8. p # 0 => /\ x # NULL => p \in Dirs(d) /\ x \in Entries(d, p) /\ At(d, x).name = n
               /\ \A z \in Entries(d, p) : At(d, z).name = n => x = z
  BY <1>6, <1>7, LocateIs
<1>9. x # NULL => /\ p \in Dirs(d) /\ x \in External(d, p) /\ At(d, x).name = n
                  /\ At(d, x).inode \in Marked(d) /\ i = At(d, x).inode
  <2>1. n \notin {".", ".."}
    BY <1>1, DiskAssumption
  <2> QED
    BY <1>2, <1>7, <1>8, <2>1 DEF External, Sound, Linking
<1>10. TypeOf(d, path) = IF x = NULL THEN "none" ELSE At(d, x).file_type
  BY <1>1 DEF TypeOf, FileAt, NoFile
<1>11. x # NULL => (At(d, x).file_type = "dir" <=> i \in Dirs(d))
  BY <1>9 DEF Sound, Own, Linking, External
<1>12. ASSUME NEW z \in Entries(d, p), p \in Dirs(d), At(d, z).name = n
       PROVE  i = At(d, z).inode /\ x = z
  <2>1. p # 0
    BY <1>5, <1>12 DEF Dirs
  <2>2. x = z /\ z # NULL
    BY <1>8, <1>12, <2>1, EntryFacts
  <2> QED
    BY <1>2, <2>2
<1>13. i \in Marked(d) \cup {0} /\ (i # 0 => x # NULL)
  BY <1>2, <1>9
<1> HIDE DEF p, i, x, y, n, q
<1> QED
  BY <1>6, <1>9, <1>10, <1>11, <1>12, <1>13 DEF p, i, x, n, q

\* The root's path.
LEMMA RootPath == \A d : InodeOf(d, <<>>) = Root /\ TypeOf(d, <<>>) = "dir" /\ <<>> \in AnyPath
BY DEF InodeOf, TypeOf, FileAt, AnyPath

-----------------------------------------------------------------------------
(* Who has which block. *)

\* The spots of an inode: its slots, then the words of its indirect block.
LEMMA SpotFacts ==
  /\ Slots \in Nat /\ Direct \in Nat /\ Ptrs \in Nat /\ Direct >= 1 /\ Slots > Direct
  /\ \A s \in 1 .. Slots : s \in Spot
  /\ \A w \in 1 .. Ptrs : Slots + w \in Spot /\ ~ (Slots + w <= Slots) /\ Slots + w - Slots = w
  /\ \A v \in Spot : v \in Nat /\ v >= 1 /\ (v <= Slots => v \in 1 .. Slots)
                     /\ (~ (v <= Slots) => v - Slots \in 1 .. Ptrs)
BY DiskAssumption DEF Spot

\* The blocks in the slots of a marked inode are marked, and no other has them.
LEMMA SlotHeld ==
  ASSUME NEW d, Owned(d), NEW i \in Marked(d), NEW b \in BlocksOf(d, i)
  PROVE  /\ b \in d.bmap /\ b # 0
         /\ \E s \in 1 .. Slots : d.inode[i].i_block[s] = b
         /\ \A j \in Marked(d) : b \in BlocksOf(d, j) => i = j
         /\ \A s \in 1 .. Slots : d.inode[i].i_block[s] = b => s \in Spot /\ Held(d, i, s) = b
<1>1. \A j : b \in BlocksOf(d, j) => b # 0 /\ \E s \in 1 .. Slots : d.inode[j].i_block[s] = b
  BY DEF BlocksOf
<1>2. \A j : \A s \in 1 .. Slots : d.inode[j].i_block[s] = b => s \in Spot /\ Held(d, j, s) = b
  BY SpotFacts DEF Held
<1>3. b \in d.bmap
  BY <1>1, <1>2 DEF Owned
<1>4. ASSUME NEW j \in Marked(d), b \in BlocksOf(d, j) PROVE i = j
  <2>1. PICK s \in Spot : Held(d, i, s) = b
    BY <1>1, <1>2
  <2>2. PICK t \in Spot : Held(d, j, t) = b
    BY <1>1, <1>2, <1>4
  <2> QED
    BY <1>1, <2>1, <2>2 DEF Owned
<1> QED
  BY <1>1, <1>2, <1>3, <1>4

\* What an inode holds depends on its size, slots and the words of its blocks.
SameInode(f, g) == f.i_mode = g.i_mode /\ f.i_size = g.i_size /\ f.i_block = g.i_block

SameWords(d, e, i) ==
  \A s \in 1 .. Slots : e.word[d.inode[i].i_block[s]] = d.word[d.inode[i].i_block[s]]

\* An inode whose slots and words are unchanged holds the same blocks.
LEMMA HeldSame ==
  ASSUME NEW d, NEW e, NEW i, SameInode(e.inode[i], d.inode[i]), SameWords(d, e, i)
  PROVE  /\ \A v \in Spot : Held(e, i, v) = Held(d, i, v)
         /\ \A w \in 1 .. Ptrs : Through(e, i, w) = Through(d, i, w)
         /\ Unreached(e, i) = Unreached(d, i) /\ BlocksOf(e, i) = BlocksOf(d, i)
<1>1. Direct + 1 \in 1 .. Slots
  BY SpotFacts
<1>2. e.word[d.inode[i].i_block[Direct + 1]] = d.word[d.inode[i].i_block[Direct + 1]]
  BY <1>1 DEF SameWords
<1>3. \A w : Through(e, i, w) = Through(d, i, w)
  BY <1>2 DEF Through, SameInode
<1>4. \A v \in Spot : Held(e, i, v) = Held(d, i, v)
  BY <1>3 DEF Held, SameInode
<1>5. Unreached(e, i) = Unreached(d, i)
  BY <1>2 DEF Unreached, SameInode
<1> QED
  BY <1>3, <1>4, <1>5 DEF BlocksOf, SameInode

\* A block of directory entries can gain entries and have any of its entries but
\* "." and ".." changed.
KeepsDots(new, old) ==
  /\ new = <<>> <=> old = <<>>
  /\ old # <<>> => Len(old) \in Nat /\ Len(new) \in Nat /\ Len(new) >= Len(old)
  /\ \A k \in 1 .. Len(old) :
       old[k].name \in {".", ".."} /\ old[k].inode # 0 =>
         new[k].name = old[k].name /\ new[k].inode = old[k].inode

\* An inode whose blocks keep their kind keeps its shape.
LEMMA ShapeKept ==
  ASSUME NEW d, NEW e, NEW i, i # 0, Shaped(d, i), SameInode(e.inode[i], d.inode[i]), SameWords(d, e, i),
         \A b \in BlocksOf(d, i) : KeepsDots(e.data[b], d.data[b])
  PROVE  Shaped(e, i) /\ (d.inode[i].i_mode = "dir" => Above(e, i) = Above(d, i))
<1> DEFINE f == d.inode[i]
           g == e.inode[i]
           b == f.i_block[1]
<1>1. g.i_mode = f.i_mode /\ g.i_size = f.i_size /\ g.i_block = f.i_block
  BY DEF SameInode
<1>2. /\ \A w \in 1 .. Ptrs : Through(e, i, w) = Through(d, i, w)
      /\ Unreached(e, i) = Unreached(d, i) /\ BlocksOf(e, i) = BlocksOf(d, i)
  <2> HIDE DEF f, g, b
  <2> QED
    BY HeldSame
<1>3. \A c \in BlocksOf(e, i) : e.data[c] = <<>> <=> d.data[c] = <<>>
  BY <1>2 DEF KeepsDots
<1>4. f.i_mode = "reg" => FileShape(e, i)
  BY <1>1, <1>2 DEF Shaped, FileShape
<1>5. ASSUME f.i_mode = "dir" PROVE DirShape(e, i) /\ Above(e, i) = Above(d, i)
  <2>1. /\ b # 0 /\ Len(d.data[b]) >= 2
        /\ \A c \in BlocksOf(d, i) : d.data[c] # <<>>
        /\ d.data[b][1].name = "." /\ d.data[b][1].inode = i
        /\ d.data[b][2].name = ".." /\ d.data[b][2].inode # 0
    BY <1>5 DEF Shaped, DirShape
  <2>2. b \in BlocksOf(d, i)
    <3>1. 1 \in 1 .. Slots
      BY SpotFacts
    <3> QED
      BY <2>1, <3>1 DEF BlocksOf
  <2>3. KeepsDots(e.data[b], d.data[b]) /\ d.data[b] # <<>>
    BY <2>1, <2>2
  <2>4. Len(d.data[b]) \in Nat /\ Len(e.data[b]) \in Nat /\ Len(e.data[b]) >= Len(d.data[b])
    BY <2>3 DEF KeepsDots
  <2>5. 1 \in 1 .. Len(d.data[b]) /\ 2 \in 1 .. Len(d.data[b]) /\ Len(e.data[b]) >= 2
    <3>1. Len(d.data[b]) >= 2
      BY <2>1
    <3> HIDE DEF b, f
    <3> QED
      BY <2>4, <3>1
  <2>6. /\ e.data[b][1].name = "." /\ e.data[b][1].inode = i
        /\ e.data[b][2].name = ".." /\ e.data[b][2].inode = d.data[b][2].inode
    BY <2>1, <2>3, <2>5 DEF KeepsDots
  <2> QED
    BY <1>1, <1>2, <1>3, <2>1, <2>5, <2>6 DEF DirShape, Above
<1> QED
  BY <1>1, <1>2, <1>3, <1>4, <1>5 DEF Shaped

\* G are the inodes that go, with all their blocks; the other inodes keep theirs,
\* and the entries in directory blocks may change.
Kept(d, e, G) ==
  /\ e.imap = d.imap \ G /\ G \subseteq d.imap
  /\ e.bmap = d.bmap \ {Held(d, g, v) : g \in G, v \in Spot}
  /\ \A j \in Marked(e) : SameInode(e.inode[j], d.inode[j])
  /\ \A b \in e.bmap \cup {0} : e.word[b] = d.word[b]
  /\ \A b \in e.bmap : KeepsDots(e.data[b], d.data[b])

\* Own stays when inodes lose their marks together with their blocks.
LEMMA OwnKept ==
  ASSUME NEW d, Own(d), NEW e, Typed(e), NEW G, Kept(d, e, G)
  PROVE  /\ Own(e) /\ Marked(e) = Marked(d) \ G /\ Marked(e) \subseteq Marked(d)
         /\ \A p \in Marked(e) : /\ BlocksOf(e, p) = BlocksOf(d, p) /\ BlocksOf(e, p) \subseteq e.bmap
                                 /\ e.inode[p].i_mode = d.inode[p].i_mode
         /\ \A p \in Dirs(e) : Above(e, p) = Above(d, p)
<1>1. Marked(e) = Marked(d) \ G /\ Marked(e) \subseteq Marked(d) /\ G \subseteq Marked(d)
  BY DiskAssumption DEF Kept, Marked, Own, Typed, Counted, Root
<1>2. ASSUME NEW j \in Marked(e), NEW v \in Spot PROVE Held(d, j, v) \in e.bmap \cup {0}
  <2>1. Held(d, j, v) \in d.bmap \cup {0} /\ j \notin G
    BY <1>1 DEF Own, Owned
  <2>2. SUFFICES ASSUME NEW g \in G, NEW u \in Spot, Held(d, j, v) = Held(d, g, u), Held(d, j, v) # 0
                 PROVE  FALSE
    BY <2>1 DEF Kept
  <2> QED
    BY <1>1, <2>1, <2>2 DEF Own, Owned
<1>3. \A j \in Marked(e) : \A s \in 1 .. Slots : d.inode[j].i_block[s] \in e.bmap \cup {0}
  BY <1>2, SpotFacts DEF Held
<1>4. \A j \in Marked(e) : SameInode(e.inode[j], d.inode[j])
  BY DEF Kept
<1>5. \A b \in e.bmap \cup {0} : e.word[b] = d.word[b]
  BY DEF Kept
<1>a. \A j \in Marked(e) : SameWords(d, e, j)
  BY <1>3, <1>5 DEF SameWords
<1>6. \A j \in Marked(e) : /\ BlocksOf(e, j) = BlocksOf(d, j)
                           /\ \A v \in Spot : Held(e, j, v) = Held(d, j, v)
  BY <1>4, <1>a, HeldSame
<1>7. \A j \in Marked(e) : BlocksOf(d, j) \subseteq e.bmap
  BY <1>3 DEF BlocksOf
<1>8. ASSUME NEW j \in Marked(e)
      PROVE  Shaped(e, j) /\ (d.inode[j].i_mode = "dir" => Above(e, j) = Above(d, j))
  <2>1. Shaped(d, j)
    BY <1>1 DEF Own
  <2>3. j # 0
    BY <1>1, NoNumberZero DEF Own
  <2>2. \A b \in BlocksOf(d, j) : KeepsDots(e.data[b], d.data[b])
    BY <1>7 DEF Kept
  <2> QED
    BY <1>4, <1>a, <2>1, <2>2, <2>3, ShapeKept
<1>9. Owned(e)
  <2>1. \A j \in Marked(e), v \in Spot : Held(e, j, v) \in e.bmap \cup {0}
    BY <1>2, <1>6
  <2>2. \A i, j \in Marked(e), u, v \in Spot :
          Held(e, i, u) = Held(e, j, v) /\ Held(e, i, u) # 0 => i = j /\ u = v
    BY <1>1, <1>6 DEF Own, Owned
  <2>3. ASSUME NEW b \in e.bmap PROVE \E j \in Marked(e), v \in Spot : Held(e, j, v) = b
    <3>1. b \in d.bmap /\ b \notin {Held(d, g, v) : g \in G, v \in Spot}
      BY DEF Kept
    <3>2. PICK j \in Marked(d), v \in Spot : Held(d, j, v) = b
      BY <3>1 DEF Own, Owned
    <3>3. j \notin G
      BY <3>1, <3>2
    <3> QED
      BY <1>1, <1>6, <3>2, <3>3
  <2> QED
    BY <2>1, <2>2, <2>3 DEF Owned
<1>10. \A p \in Marked(e) : e.inode[p].i_mode = d.inode[p].i_mode
  BY <1>4 DEF SameInode
<1> QED
  BY <1>1, <1>6, <1>7, <1>8, <1>9, <1>10 DEF Own, Dirs

-----------------------------------------------------------------------------
(* Inodes and blocks that are taken. *)

\* Inode i is taken, with blocks that were free.
Takes(d, e, i) ==
  /\ i \in Inode \ d.imap /\ e.imap = d.imap \cup {i} /\ d.bmap \subseteq e.bmap
  /\ \A j \in Marked(d) : SameInode(e.inode[j], d.inode[j])
  /\ \A b \in d.bmap \cup {0} : e.word[b] = d.word[b] /\ e.data[b] = d.data[b]
  /\ \A v \in Spot : Held(e, i, v) \in (e.bmap \ d.bmap) \cup {0}
  /\ \A u, v \in Spot : Held(e, i, u) = Held(e, i, v) /\ Held(e, i, u) # 0 => u = v
  /\ \A b \in e.bmap \ d.bmap : \E v \in Spot : Held(e, i, v) = b
  /\ Shaped(e, i)

\* Own stays when a free inode is marked with free blocks of its own.
LEMMA OwnTakes ==
  ASSUME NEW d, Own(d), NEW e, Typed(e), NEW i, Takes(d, e, i)
  PROVE  /\ Own(e) /\ Marked(e) = Marked(d) \cup {i} /\ i \notin Marked(d)
         /\ \A p \in Marked(d) : /\ BlocksOf(e, p) = BlocksOf(d, p) /\ BlocksOf(d, p) \subseteq d.bmap
                                 /\ \A b \in BlocksOf(d, p) : e.data[b] = d.data[b]
                                 /\ e.inode[p].i_mode = d.inode[p].i_mode
         /\ \A p \in Dirs(d) : Above(e, p) = Above(d, p)
<1>1. Marked(e) = Marked(d) \cup {i} /\ i \notin Marked(d)
  BY DiskAssumption DEF Takes, Marked, Root
<1>2. \A j \in Marked(d), v \in Spot : Held(d, j, v) \in d.bmap \cup {0}
  BY DEF Own, Owned
<1>3. \A j \in Marked(d) : \A s \in 1 .. Slots : d.inode[j].i_block[s] \in d.bmap \cup {0}
  BY <1>2, SpotFacts DEF Held
<1>4. \A j \in Marked(d) : SameInode(e.inode[j], d.inode[j])
  BY DEF Takes
<1>5. \A b \in d.bmap \cup {0} : e.word[b] = d.word[b] /\ e.data[b] = d.data[b]
  BY DEF Takes
<1>a. \A j \in Marked(d) : SameWords(d, e, j)
  BY <1>3, <1>5 DEF SameWords
<1>6. \A j \in Marked(d) : /\ BlocksOf(e, j) = BlocksOf(d, j)
                           /\ \A v \in Spot : Held(e, j, v) = Held(d, j, v)
  BY <1>4, <1>a, HeldSame
<1>7. \A j \in Marked(d) : BlocksOf(d, j) \subseteq d.bmap
  BY <1>3 DEF BlocksOf
<1>8. ASSUME NEW j \in Marked(d)
      PROVE  Shaped(e, j) /\ (d.inode[j].i_mode = "dir" => Above(e, j) = Above(d, j))
  <2>1. Shaped(d, j)
    BY DEF Own
  <2>3. j # 0
    BY NoNumberZero DEF Own
  <2>2. ASSUME NEW b \in BlocksOf(d, j) PROVE KeepsDots(e.data[b], d.data[b])
    <3>1. b \in d.bmap
      BY <1>7
    <3>2. e.data[b] = d.data[b] /\ (d.data[b] = <<>> \/ GoodBlock(d.data[b]))
      BY <1>5, <3>1 DEF Own, Typed, Counted
    <3>3. d.data[b] # <<>> => Len(d.data[b]) \in Nat
      BY <3>2 DEF GoodBlock
    <3> QED
      BY <3>2, <3>3 DEF KeepsDots
  <2> QED
    BY <1>4, <1>a, <2>1, <2>2, <2>3, ShapeKept
<1>9. Owned(e)
  <2>1. \A j \in Marked(e), v \in Spot : Held(e, j, v) \in e.bmap \cup {0}
    BY <1>1, <1>2, <1>6 DEF Takes
  <2>2. ASSUME NEW j \in Marked(e), NEW k \in Marked(e), NEW u \in Spot, NEW v \in Spot,
               Held(e, j, u) = Held(e, k, v), Held(e, j, u) # 0
        PROVE  j = k /\ u = v
    <3>1. CASE j = i /\ k = i
      BY <2>2, <3>1 DEF Takes
    <3>2. CASE j # i /\ k # i
      BY <1>1, <1>6, <2>2, <3>2 DEF Own, Owned
    <3>3. CASE j = i /\ k # i
      <4>1. Held(e, k, v) \in d.bmap \cup {0} /\ Held(e, j, u) \in (e.bmap \ d.bmap) \cup {0}
        BY <1>1, <1>2, <1>6, <3>3 DEF Takes
      <4> QED
        BY <2>2, <4>1
    <3>4. CASE j # i /\ k = i
      <4>1. Held(e, j, u) \in d.bmap \cup {0} /\ Held(e, k, v) \in (e.bmap \ d.bmap) \cup {0}
        BY <1>1, <1>2, <1>6, <3>4 DEF Takes
      <4> QED
        BY <2>2, <4>1
    <3> QED
      BY <3>1, <3>2, <3>3, <3>4
  <2>3. ASSUME NEW b \in e.bmap PROVE \E j \in Marked(e), v \in Spot : Held(e, j, v) = b
    <3>1. CASE b \in d.bmap
      <4>1. PICK j \in Marked(d), v \in Spot : Held(d, j, v) = b
        BY <3>1 DEF Own, Owned
      <4> QED
        BY <1>1, <1>6, <4>1
    <3>2. CASE b \notin d.bmap
      BY <1>1, <3>2 DEF Takes
    <3> QED
      BY <3>1, <3>2
  <2> QED
    BY <2>1, <2>2, <2>3 DEF Owned
<1>10. \A p \in Marked(d) : e.inode[p].i_mode = d.inode[p].i_mode
  BY <1>4 DEF SameInode
<1> QED
  BY <1>1, <1>5, <1>6, <1>7, <1>8, <1>9, <1>10 DEF Own, Dirs, Takes

\* Block c, that was free, goes into the empty slot s of directory p.
Grows(d, e, p, s, c) ==
  /\ p \in Dirs(d) /\ c \in Block \ d.bmap /\ s \in 1 .. Slots /\ d.inode[p].i_block[s] = 0
  /\ e.imap = d.imap /\ e.bmap = d.bmap \cup {c}
  /\ \A j \in Marked(d) \ {p} : SameInode(e.inode[j], d.inode[j])
  /\ e.inode[p].i_mode = d.inode[p].i_mode /\ e.inode[p].i_size = d.inode[p].i_size
  /\ \A t \in 1 .. Slots : e.inode[p].i_block[t] = IF t = s THEN c ELSE d.inode[p].i_block[t]
  /\ \A b \in d.bmap \cup {0} : e.word[b] = d.word[b] /\ e.data[b] = d.data[b]
  /\ e.data[c] # <<>>

\* Own stays when a free block goes into a free slot.
LEMMA OwnGrows ==
  ASSUME NEW d, Own(d), NEW e, Typed(e), NEW p, NEW s, NEW c, Grows(d, e, p, s, c)
  PROVE  /\ Own(e) /\ Marked(e) = Marked(d)
         /\ \A q \in Marked(d) : /\ BlocksOf(d, q) \subseteq d.bmap
                                 /\ BlocksOf(e, q) = IF q = p THEN BlocksOf(d, p) \cup {c} ELSE BlocksOf(d, q)
                                 /\ \A b \in BlocksOf(d, q) : e.data[b] = d.data[b]
                                 /\ e.inode[q].i_mode = d.inode[q].i_mode
         /\ \A q \in Dirs(d) : Above(e, q) = Above(d, q)
<1>1. Marked(e) = Marked(d) /\ p \in Marked(d) /\ d.inode[p].i_mode = "dir" /\ c # 0 /\ c \notin d.bmap
  BY DiskAssumption DEF Grows, Marked, Dirs
<1>2. \A j \in Marked(d), v \in Spot : Held(d, j, v) \in d.bmap \cup {0}
  BY DEF Own, Owned
<1>3. \A j \in Marked(d) : \A t \in 1 .. Slots : d.inode[j].i_block[t] \in d.bmap \cup {0}
  BY <1>2, SpotFacts DEF Held
<1>4. \A j \in Marked(d) \ {p} : SameInode(e.inode[j], d.inode[j])
  BY DEF Grows
<1>5. \A b \in d.bmap \cup {0} : e.word[b] = d.word[b] /\ e.data[b] = d.data[b]
  BY DEF Grows
<1>6. \A j \in Marked(d) : SameWords(d, e, j)
  BY <1>3, <1>5 DEF SameWords
<1>7. \A j \in Marked(d) \ {p} : /\ BlocksOf(e, j) = BlocksOf(d, j)
                                 /\ \A v \in Spot : Held(e, j, v) = Held(d, j, v)
  BY <1>4, <1>6, HeldSame
<1>8. \A j \in Marked(d) : BlocksOf(d, j) \subseteq d.bmap
  BY <1>3 DEF BlocksOf
<1>9. Shaped(d, p) /\ DirShape(d, p) /\ d.inode[p].i_size = 0 /\ e.inode[p].i_size = 0
      /\ e.inode[p].i_mode = "dir"
  BY <1>1 DEF Own, Shaped, Grows
<1>10. \A w \in 1 .. Ptrs : Through(d, p, w) = 0 /\ Through(e, p, w) = 0
  <2>1. \A w \in 1 .. Ptrs : 0 < Direct + w
    BY SpotFacts
  <2> QED
    BY <1>9, <2>1 DEF Through
<1>11. /\ s \in Spot /\ Held(e, p, s) = c /\ Held(d, p, s) = 0
       /\ \A v \in Spot : v # s => Held(e, p, v) = Held(d, p, v)
  <2>1. s \in 1 .. Slots
    BY DEF Grows
  <2>2. s \in Spot /\ s <= Slots
    BY <2>1, SpotFacts
  <2>3. Held(e, p, s) = c /\ Held(d, p, s) = 0
    BY <2>1, <2>2 DEF Held, Grows
  <2>4. ASSUME NEW v \in Spot, v # s PROVE Held(e, p, v) = Held(d, p, v)
    <3>1. CASE v <= Slots
      BY <2>4, <3>1, SpotFacts DEF Held, Grows
    <3>2. CASE ~ (v <= Slots)
      BY <1>10, <3>2, SpotFacts DEF Held
    <3> QED
      BY <3>1, <3>2
  <2> QED
    BY <2>2, <2>3, <2>4
<1>12. BlocksOf(e, p) = BlocksOf(d, p) \cup {c}
  <2>1. ASSUME NEW x PROVE x \in BlocksOf(e, p) <=> x \in BlocksOf(d, p) \cup {c}
    <3>1. ASSUME x \in BlocksOf(e, p) PROVE x \in BlocksOf(d, p) \cup {c}
      BY <3>1 DEF BlocksOf, Grows
    <3>2. ASSUME x \in BlocksOf(d, p) PROVE x \in BlocksOf(e, p)
      <4>1. PICK t \in 1 .. Slots : d.inode[p].i_block[t] = x /\ x # 0
        BY <3>2 DEF BlocksOf
      <4>2. e.inode[p].i_block[t] = x
        BY <4>1 DEF Grows
      <4> QED
        BY <4>1, <4>2 DEF BlocksOf
    <3>3. c \in BlocksOf(e, p)
      <4>1. s \in 1 .. Slots /\ e.inode[p].i_block[s] = c
        BY DEF Grows
      <4> QED
        BY <1>1, <4>1 DEF BlocksOf
    <3> QED
      BY <3>1, <3>2, <3>3
  <2> QED
    BY <2>1
<1>13. \A j \in Marked(d) : \A b \in BlocksOf(d, j) : e.data[b] = d.data[b]
  BY <1>5, <1>8
<1>14. Shaped(e, p) /\ Above(e, p) = Above(d, p)
  <2> DEFINE b == d.inode[p].i_block[1]
  <2>1. b # 0 /\ s # 1 /\ 1 \in 1 .. Slots
    BY <1>9, SpotFacts DEF DirShape, Grows
  <2>2. e.inode[p].i_block[1] = b /\ b \in BlocksOf(d, p)
    BY <2>1 DEF Grows, BlocksOf
  <2>3. e.data[b] = d.data[b]
    BY <1>1, <1>13, <2>2
  <2>4. \A x \in BlocksOf(e, p) : e.data[x] # <<>>
    BY <1>1, <1>9, <1>12, <1>13 DEF DirShape, Grows
  <2>5. DirShape(e, p) /\ Above(e, p) = Above(d, p)
    BY <1>9, <2>2, <2>3, <2>4 DEF DirShape, Above
  <2> QED
    BY <1>9, <2>5 DEF Shaped
<1>15. ASSUME NEW j \in Marked(d), j # p
       PROVE  Shaped(e, j) /\ (d.inode[j].i_mode = "dir" => Above(e, j) = Above(d, j))
  <2>1. Shaped(d, j)
    BY DEF Own
  <2>3. j # 0
    BY NoNumberZero DEF Own
  <2>2. ASSUME NEW b \in BlocksOf(d, j) PROVE KeepsDots(e.data[b], d.data[b])
    <3>1. b \in d.bmap
      BY <1>8
    <3>2. e.data[b] = d.data[b] /\ (d.data[b] = <<>> \/ GoodBlock(d.data[b]))
      BY <1>5, <3>1 DEF Own, Typed, Counted
    <3>3. d.data[b] # <<>> => Len(d.data[b]) \in Nat
      BY <3>2 DEF GoodBlock
    <3> QED
      BY <3>2, <3>3 DEF KeepsDots
  <2> QED
    BY <1>4, <1>6, <1>15, <2>1, <2>2, <2>3, ShapeKept
<1>16. Owned(e)
  <2>1. \A j \in Marked(e), v \in Spot : Held(e, j, v) \in e.bmap \cup {0}
    BY <1>1, <1>2, <1>7, <1>11 DEF Grows
  <2>2. ASSUME NEW j \in Marked(e), NEW k \in Marked(e), NEW u \in Spot, NEW v \in Spot,
               Held(e, j, u) = Held(e, k, v), Held(e, j, u) # 0
        PROVE  j = k /\ u = v
    <3>1. \A x \in Marked(d), w \in Spot :
            IF x = p /\ w = s THEN Held(e, x, w) = c ELSE Held(e, x, w) = Held(d, x, w) /\ Held(e, x, w) # c
      BY <1>1, <1>2, <1>7, <1>11
    <3> QED
      BY <1>1, <2>2, <3>1 DEF Own, Owned
  <2>3. ASSUME NEW b \in e.bmap PROVE \E j \in Marked(e), v \in Spot : Held(e, j, v) = b
    <3>1. CASE b = c
      BY <1>1, <1>11, <3>1
    <3>2. CASE b # c
      <4>1. b \in d.bmap /\ b # 0
        BY <3>2, DiskAssumption DEF Grows, Own, Typed, Counted
      <4>2. PICK j \in Marked(d), v \in Spot : Held(d, j, v) = b
        BY <4>1 DEF Own, Owned
      <4> QED
        BY <1>1, <1>7, <1>11, <4>1, <4>2
    <3> QED
      BY <3>1, <3>2
  <2> QED
    BY <2>1, <2>2, <2>3 DEF Owned
<1>17. \A q \in Marked(d) : e.inode[q].i_mode = d.inode[q].i_mode
  BY <1>4 DEF SameInode, Grows
<1> QED
  BY <1>1, <1>7, <1>8, <1>12, <1>13, <1>14, <1>15, <1>16, <1>17 DEF Own, Dirs

-----------------------------------------------------------------------------
(* What names what. *)

SameEntry(a, b) == a.inode = b.inode /\ a.name = b.name /\ a.file_type = b.file_type

\* Directory p has the same entries.
Listed(d, e, p) ==
  /\ Entries(e, p) = Entries(d, p) /\ External(e, p) = External(d, p)
  /\ \A x \in Entries(d, p) : SameEntry(At(e, x), At(d, x))

\* A directory with the same blocks and the same data lists the same.
LEMMA ListedSame ==
  ASSUME NEW d, NEW e, NEW p, BlocksOf(e, p) = BlocksOf(d, p),
         \A b \in BlocksOf(d, p) : e.data[b] = d.data[b]
  PROVE  Listed(d, e, p)
<1>1. Entries(e, p) = Entries(d, p)
  BY DEF Entries
<1>2. \A x \in Entries(d, p) : At(e, x) = At(d, x)
  BY DEF Entries, At
<1>3. External(e, p) = External(d, p)
  BY <1>1, <1>2 DEF External
<1> QED
  BY <1>1, <1>2, <1>3 DEF Listed, SameEntry

\* Named, one pair at a time.
LEMMA NamedIs ==
  ASSUME NEW d, NEW i, NEW y
  PROVE  y \in Named(d, i) <=> \E p \in Dirs(d) : \E x \in Entries(d, p) : y = <<p, x>> /\ At(d, x).inode = i
BY DEF Named, Places

\* An entry's block tells its directory, so that there are no more entries than
\* places for them.
LEMMA NamedBound ==
  ASSUME NEW d, Own(d), NEW i
  PROVE  /\ IsFiniteSet(Named(d, i)) /\ Cardinality(Named(d, i)) \in Nat
         /\ Cardinality(Named(d, i)) + 1 < CountLimit
<1> DEFINE P == Block \X (1 .. BlockSize \div 8)
           f == [y \in Named(d, i) |-> y[2]]
<1>1. BlockSize \div 8 \in Nat
  BY DiskAssumption
<1>2. /\ IsFiniteSet(P) /\ Cardinality(P) = Cardinality(Block) * (BlockSize \div 8)
  <2>1. IsFiniteSet(1 .. BlockSize \div 8) /\ Cardinality(1 .. BlockSize \div 8) = BlockSize \div 8
    BY <1>1, FS_Interval
  <2> QED
    BY <2>1, DiskAssumption, FS_Product
<1>3. f \in [Named(d, i) -> P]
  <2>1. ASSUME NEW y \in Named(d, i) PROVE y[2] \in P
    <3>1. PICK p \in Dirs(d) : \E x \in Entries(d, p) : y = <<p, x>>
      BY NamedIs
    <3>0. PICK x \in Entries(d, p) : y = <<p, x>>
      BY <3>1
    <3>2. x[1] \in d.bmap
      BY EntryFacts, SlotHeld DEF Own, Dirs
    <3>3. x = <<x[1], x[2]>> /\ x[2] \in 1 .. BlockSize \div 8 /\ x[1] \in Block
      BY <3>2, EntryFacts DEF Own, Typed, Counted
    <3> QED
      BY <3>0, <3>3
  <2> QED
    BY <2>1
<1>4. ASSUME NEW y \in Named(d, i), NEW z \in Named(d, i), f[y] = f[z] PROVE y = z
  <2>1. PICK p \in Dirs(d) : \E x \in Entries(d, p) : y = <<p, x>>
    BY NamedIs
  <2>a. PICK x \in Entries(d, p) : y = <<p, x>>
    BY <2>1
  <2>2. PICK q \in Dirs(d) : \E w \in Entries(d, q) : z = <<q, w>>
    BY NamedIs
  <2>b. PICK w \in Entries(d, q) : z = <<q, w>>
    BY <2>2
  <2>3. x = w
    BY <1>4, <2>a, <2>b
  <2>4. x[1] \in BlocksOf(d, p) /\ x[1] \in BlocksOf(d, q)
    BY <2>3, EntryFacts
  <2>5. p = q
    BY <2>4, SlotHeld DEF Own, Dirs
  <2> QED
    BY <2>a, <2>b, <2>3, <2>5
<1>5. f \in Injection(Named(d, i), P)
  BY <1>3, <1>4 DEF Injection, IsInjective
<1>6. IsFiniteSet(Named(d, i)) /\ Cardinality(Named(d, i)) <= Cardinality(P)
  BY <1>2, <1>5, FS_Injection
<1>7. Cardinality(Named(d, i)) \in Nat
  BY <1>6, FS_CardinalityType
<1>8. Cardinality(Block) * (BlockSize \div 8) \in Nat
  BY <1>2, FS_CardinalityType
<1> HIDE DEF P, f
<1> QED
  BY <1>2, <1>6, <1>7, <1>8, CarefulAssumption DEF CountLimit

-----------------------------------------------------------------------------
(* A newcomer, and its name. *)

\* Inode i has been taken, and its links counted for a name that it has not got:
\* what else it may be, the other directories are listed as they were.
Newcomer(d, e, i) ==
  /\ Linking(d, 0) /\ Own(d) /\ Own(e) /\ Marked(e) = Marked(d) \cup {i} /\ i \notin Marked(d) /\ i # 0
  /\ \A p \in Marked(d) : e.inode[p].i_mode = d.inode[p].i_mode
  /\ \A p \in Dirs(d) : Listed(d, e, p) /\ Above(e, p) = Above(d, p)

\* The links stay counted when a file is taken and not yet named.
LEMMA LinkTaken ==
  ASSUME NEW d, NEW e, NEW i, Newcomer(d, e, i),
         \A j \in Marked(d) : e.inode[j].i_links_count = d.inode[j].i_links_count,
         e.inode[i].i_mode # "dir", e.inode[i].i_links_count = 1
  PROVE  Linking(e, i) /\ Dirs(e) = Dirs(d)
<1>1. Dirs(e) = Dirs(d)
  BY DEF Newcomer, Dirs
<1>2. \A p \in Dirs(d) : /\ Entries(e, p) = Entries(d, p) /\ External(e, p) = External(d, p)
                         /\ \A x \in Entries(d, p) : SameEntry(At(e, x), At(d, x))
  BY DEF Newcomer, Listed
<1>3. \A p \in Dirs(d) : \A x \in Entries(d, p) : At(d, x).inode \in Marked(d)
  BY DEF Newcomer, Linking
<1>4. \A j : Named(e, j) = Named(d, j)
  <2> SUFFICES ASSUME NEW j PROVE Named(e, j) = Named(d, j)
    OBVIOUS
  <2>1. \A y : y \in Named(e, j) <=> y \in Named(d, j)
    BY <1>1, <1>2, NamedIs DEF SameEntry
  <2> QED
    BY <2>1
<1>5. Named(e, i) = {}
  BY <1>3, <1>4, NamedIs DEF Newcomer
<1>6. \A j \in Marked(e) : e.inode[j].i_links_count = Cardinality(Named(e, j)) + (IF j = i THEN 1 ELSE 0)
  <2> SUFFICES ASSUME NEW j \in Marked(e)
               PROVE  e.inode[j].i_links_count = Cardinality(Named(e, j)) + (IF j = i THEN 1 ELSE 0)
    OBVIOUS
  <2>1. CASE j = i
    BY <1>5, <2>1, FS_EmptySet
  <2>2. CASE j # i
    <3>1. j \in Marked(d) /\ j # 0 /\ 0 \notin Marked(d)
      BY <2>2, NoNumberZero DEF Newcomer, Own
    <3>2. d.inode[j].i_links_count = Cardinality(Named(d, j)) + 0
      BY <3>1 DEF Newcomer, Linking
    <3> QED
      BY <1>4, <2>2, <3>1, <3>2
  <2> QED
    BY <2>1, <2>2
<1>7. \A p \in Dirs(d) : \A x \in External(d, p) : x \in Entries(d, p)
  BY DEF External
<1>8. /\ \A p \in Dirs(e) : \A x \in Entries(e, p) :
           At(e, x).inode \in Marked(e) /\ (At(e, x).file_type = "dir" <=> At(e, x).inode \in Dirs(e))
      /\ \A p \in Dirs(e) : \A x, y \in Entries(e, p) : At(e, x).name = At(e, y).name => x = y
  BY <1>1, <1>2 DEF Newcomer, Linking, SameEntry
<1>9. Root \in Dirs(e) /\ Above(e, Root) = Root
  BY <1>1 DEF Newcomer, Linking
<1>10. /\ \A p \in Dirs(e) : \A x \in External(e, p) :
            At(e, x).inode \in Dirs(e) => At(e, x).inode # Root /\ Above(e, At(e, x).inode) = p
       /\ \A p \in Dirs(e) : \A x, y \in External(e, p) :
            At(e, x).inode \in Dirs(e) /\ At(e, x).inode = At(e, y).inode => x = y
  BY <1>1, <1>2, <1>7 DEF Newcomer, Linking, SameEntry
<1>11. \A j \in Marked(e) \ {Root, i} : \E p \in Dirs(e) : \E x \in External(e, p) : At(e, x).inode = j
  <2> SUFFICES ASSUME NEW j \in Marked(e) \ {Root, i}
               PROVE  \E p \in Dirs(e) : \E x \in External(e, p) : At(e, x).inode = j
    OBVIOUS
  <2>1. j \in Marked(d) \ {Root, 0}
    BY NoNumberZero DEF Newcomer, Own
  <2> QED
    BY <1>1, <1>2, <1>7, <2>1 DEF Newcomer, Linking, SameEntry
<1> QED
  BY <1>1, <1>6, <1>8, <1>9, <1>10, <1>11 DEF Linking

\* The entries of a new directory: "." at u, ".." at v.
LEMMA LinkTakenDir ==
  ASSUME NEW d, NEW e, NEW i, Newcomer(d, e, i), NEW p \in Dirs(d),
         e.inode[i].i_mode = "dir", Above(e, i) = p,
         NEW u, NEW v, u # v, Entries(e, i) = {u, v},
         SameEntry(At(e, u), DirEntry(i, ".", 12, "dir")), SameEntry(At(e, v), DirEntry(p, "..", 12, "dir")),
         \A j \in Marked(d) \ {p} : e.inode[j].i_links_count = d.inode[j].i_links_count,
         e.inode[p].i_links_count = (d.inode[p].i_links_count + 1) % CountLimit,
         e.inode[i].i_links_count = 2
  PROVE  /\ Linking(e, i) /\ Dirs(e) = Dirs(d) \cup {i} /\ External(e, i) = {}
         /\ \A q \in Dirs(e) : \A x \in External(e, q) : At(e, x).inode # i
<1>1. Dirs(e) = Dirs(d) \cup {i} /\ i \notin Dirs(d) /\ p # i
  BY DEF Newcomer, Dirs
<1>2. \A q \in Dirs(d) : /\ Entries(e, q) = Entries(d, q) /\ External(e, q) = External(d, q)
                         /\ \A x \in Entries(d, q) : SameEntry(At(e, x), At(d, x))
  BY DEF Newcomer, Listed
<1>3. \A q \in Dirs(d) : \A x \in Entries(d, q) : At(d, x).inode \in Marked(d)
  BY DEF Newcomer, Linking
<1>4. /\ At(e, u).inode = i /\ At(e, u).name = "." /\ At(e, u).file_type = "dir"
      /\ At(e, v).inode = p /\ At(e, v).name = ".." /\ At(e, v).file_type = "dir"
  BY DEF SameEntry, DirEntry
<1>5. External(e, i) = {}
  BY <1>4 DEF External
<1>6. Dirs(d) \subseteq Marked(d) /\ i \notin Marked(d)
  BY DEF Dirs, Newcomer
<1>7. Named(e, i) = {<<i, u>>}
  <2>1. \A y : y \in Named(e, i) <=> y \in {<<i, u>>}
    BY <1>1, <1>2, <1>3, <1>4, <1>6, NamedIs DEF SameEntry
  <2> QED
    BY <2>1
<1>8. Named(e, p) = Named(d, p) \cup {<<i, v>>} /\ <<i, v>> \notin Named(d, p)
  <2>1. \A y : y \in Named(e, p) <=> y \in Named(d, p) \cup {<<i, v>>}
    BY <1>1, <1>2, <1>3, <1>4, <1>6, NamedIs DEF SameEntry
  <2>2. <<i, v>> \notin Named(d, p)
    BY <1>1, NamedIs
  <2> QED
    BY <2>1, <2>2
<1>9. ASSUME NEW j \in Marked(d) \ {p} PROVE Named(e, j) = Named(d, j)
  <2>1. \A y : y \in Named(e, j) <=> y \in Named(d, j)
    BY <1>1, <1>2, <1>3, <1>4, <1>6, NamedIs DEF SameEntry
  <2> QED
    BY <2>1
<1>10. ASSUME NEW j \in Marked(e)
       PROVE  e.inode[j].i_links_count = Cardinality(Named(e, j)) + (IF j = i THEN 1 ELSE 0)
  <2>1. CASE j = i
    <3>1. Cardinality(Named(e, i)) = 1
      BY <1>7, FS_Singleton
    <3> QED
      BY <2>1, <3>1
  <2>2. CASE j = p
    <3>1. d.inode[p].i_links_count = Cardinality(Named(d, p)) + 0
      BY <1>6, NoNumberZero DEF Newcomer, Own, Linking
    <3>2. /\ IsFiniteSet(Named(d, p)) /\ Cardinality(Named(d, p)) \in Nat
          /\ Cardinality(Named(d, p)) + 1 < CountLimit
      BY NamedBound DEF Newcomer
    <3>3. Cardinality(Named(e, p)) = Cardinality(Named(d, p)) + 1
      BY <1>8, <3>2, FS_AddElement
    <3>4. (Cardinality(Named(d, p)) + 1) % CountLimit = Cardinality(Named(d, p)) + 1
      BY <3>2 DEF CountLimit
    <3> QED
      BY <1>1, <2>2, <3>1, <3>2, <3>3, <3>4
  <2>3. CASE j # i /\ j # p
    <3>1. j \in Marked(d) \ {p} /\ j # 0
      BY <2>3, NoNumberZero DEF Newcomer, Own
    <3>2. d.inode[j].i_links_count = Cardinality(Named(d, j)) + 0
      BY <3>1 DEF Newcomer, Linking
    <3> QED
      BY <1>9, <2>3, <3>1, <3>2
  <2> QED
    BY <2>1, <2>2, <2>3
<1>11. \A q \in Dirs(d) : \A x \in External(d, q) : x \in Entries(d, q)
  BY DEF External
<1>12. /\ \A q \in Dirs(e) : \A x \in Entries(e, q) :
           At(e, x).inode \in Marked(e) /\ (At(e, x).file_type = "dir" <=> At(e, x).inode \in Dirs(e))
       /\ \A q \in Dirs(e) : \A x, y \in Entries(e, q) : At(e, x).name = At(e, y).name => x = y
  <2>1. ASSUME NEW q \in Dirs(d), NEW x \in Entries(e, q)
        PROVE  At(e, x).inode \in Marked(e) /\ (At(e, x).file_type = "dir" <=> At(e, x).inode \in Dirs(e))
    BY <1>1, <1>2, <1>3, <1>6 DEF Newcomer, Linking, SameEntry
  <2>2. ASSUME NEW q \in Dirs(d), NEW x \in Entries(e, q), NEW y \in Entries(e, q), At(e, x).name = At(e, y).name
        PROVE  x = y
    BY <1>2, <2>2 DEF Newcomer, Linking, SameEntry
  <2>3. ASSUME NEW x \in Entries(e, i)
        PROVE  At(e, x).inode \in Marked(e) /\ (At(e, x).file_type = "dir" <=> At(e, x).inode \in Dirs(e))
    BY <1>1, <1>4, <1>6 DEF Newcomer
  <2>4. \A x, y \in Entries(e, i) : At(e, x).name = At(e, y).name => x = y
    BY <1>4
  <2> QED
    BY <1>1, <2>1, <2>2, <2>3, <2>4
<1>13. Root \in Dirs(e) /\ Above(e, Root) = Root
  BY <1>1 DEF Newcomer, Linking
<1>14. \A q \in Dirs(d) : \A x \in External(d, q) : At(e, x).inode = At(d, x).inode /\ At(e, x).inode # i
  BY <1>2, <1>3, <1>6, <1>11 DEF SameEntry
<1>15. /\ \A q \in Dirs(e) : \A x \in External(e, q) :
            At(e, x).inode \in Dirs(e) => At(e, x).inode # Root /\ Above(e, At(e, x).inode) = q
       /\ \A q \in Dirs(e) : \A x, y \in External(e, q) :
            At(e, x).inode \in Dirs(e) /\ At(e, x).inode = At(e, y).inode => x = y
  BY <1>1, <1>2, <1>5, <1>14 DEF Newcomer, Linking
<1>16. \A j \in Marked(e) \ {Root, i} : \E q \in Dirs(e) : \E x \in External(e, q) : At(e, x).inode = j
  <2> SUFFICES ASSUME NEW j \in Marked(e) \ {Root, i}
               PROVE  \E q \in Dirs(e) : \E x \in External(e, q) : At(e, x).inode = j
    OBVIOUS
  <2>1. j \in Marked(d) \ {Root, 0}
    BY NoNumberZero DEF Newcomer, Own
  <2> QED
    BY <1>1, <1>2, <1>14, <2>1 DEF Newcomer, Linking
<1>17. \A q \in Dirs(e) : \A x \in External(e, q) : At(e, x).inode # i
  BY <1>1, <1>2, <1>5, <1>14
<1> QED
  BY <1>1, <1>5, <1>10, <1>12, <1>13, <1>15, <1>16, <1>17 DEF Linking

\* Directory p gets an entry y with name n for inode i, whose links count one more
\* than its names.
Named1(m, e, p, y, i, n) ==
  /\ Own(m) /\ Own(e) /\ Linking(m, i) /\ i \in Marked(m) /\ p \in Dirs(m)
  /\ Marked(e) = Marked(m)
  /\ \A j \in Marked(m) : /\ e.inode[j].i_mode = m.inode[j].i_mode
                          /\ e.inode[j].i_links_count = m.inode[j].i_links_count
  /\ \A q \in Dirs(m) : Above(e, q) = Above(m, q)
  /\ \A q \in Dirs(m) \ {p} : Listed(m, e, q)
  /\ y \notin Entries(m, p) /\ Entries(e, p) = Entries(m, p) \cup {y}
  /\ \A x \in Entries(m, p) : SameEntry(At(e, x), At(m, x))
  /\ At(e, y).inode = i /\ At(e, y).name = n /\ (At(e, y).file_type = "dir" <=> i \in Dirs(m))
  /\ n \notin {".", ".."} /\ \A x \in Entries(m, p) : At(m, x).name # n
  /\ i \in Dirs(m) => /\ i # Root /\ Above(m, i) = p
                      /\ \A q \in Dirs(m) : \A x \in External(m, q) : At(m, x).inode # i

\* The links stay counted when the newcomer gets its name.
LEMMA LinkNamed ==
  ASSUME NEW m, NEW e, NEW p, NEW y, NEW i, NEW n, Named1(m, e, p, y, i, n)
  PROVE  /\ Linking(e, 0) /\ Dirs(e) = Dirs(m)
         /\ \A q \in Dirs(m) : External(e, q) = IF q = p THEN External(m, p) \cup {y} ELSE External(m, q)
         /\ \A q \in Dirs(m) : \A x \in External(m, q) : SameEntry(At(e, x), At(m, x))
<1>1. Dirs(e) = Dirs(m)
  BY DEF Named1, Dirs
<1>2. \A q \in Dirs(m) : /\ Entries(e, q) = IF q = p THEN Entries(m, p) \cup {y} ELSE Entries(m, q)
                         /\ \A x \in Entries(m, q) : SameEntry(At(e, x), At(m, x))
  BY DEF Named1, Listed
<1>3. \A q \in Dirs(m) : External(e, q) = IF q = p THEN External(m, p) \cup {y} ELSE External(m, q)
  BY <1>2 DEF Named1, External, SameEntry
<1>4. \A q \in Dirs(m) : \A x \in External(m, q) : x \in Entries(m, q) /\ SameEntry(At(e, x), At(m, x))
  BY <1>2 DEF External
<1>5. ASSUME NEW q \in Dirs(m), y \in Entries(m, q) PROVE FALSE
  <2>1. y[1] \in BlocksOf(m, q)
    BY <1>5, EntryFacts
  <2>2. y[1] \in BlocksOf(e, p) /\ y[1] \in BlocksOf(e, q)
    <3>1. y \in Entries(e, p) /\ y \in Entries(e, q)
      BY <1>2, <1>5 DEF Named1
    <3> QED
      BY <3>1, EntryFacts
  <2>3. q = p
    BY <1>1, <2>2, SlotHeld DEF Named1, Own, Dirs
  <2> QED
    BY <1>5, <2>3 DEF Named1
<1>6. i # 0 /\ 0 \notin Marked(m)
  BY NoNumberZero DEF Named1, Own
<1>7. Named(e, i) = Named(m, i) \cup {<<p, y>>} /\ <<p, y>> \notin Named(m, i)
  <2>1. \A z : z \in Named(e, i) <=> z \in Named(m, i) \cup {<<p, y>>}
    BY <1>1, <1>2, NamedIs DEF Named1, SameEntry
  <2>2. <<p, y>> \notin Named(m, i)
    BY <1>5, NamedIs
  <2> QED
    BY <2>1, <2>2
<1>8. ASSUME NEW j, j # i PROVE Named(e, j) = Named(m, j)
  <2>1. \A z : z \in Named(e, j) <=> z \in Named(m, j)
    BY <1>1, <1>2, <1>8, NamedIs DEF Named1, SameEntry
  <2> QED
    BY <2>1
<1>9. ASSUME NEW j \in Marked(e)
      PROVE  e.inode[j].i_links_count = Cardinality(Named(e, j)) + (IF j = 0 THEN 1 ELSE 0)
  <2>1. j \in Marked(m) /\ j # 0 /\ e.inode[j].i_links_count = m.inode[j].i_links_count
    BY <1>6 DEF Named1
  <2>2. m.inode[j].i_links_count = Cardinality(Named(m, j)) + (IF j = i THEN 1 ELSE 0)
    BY <2>1 DEF Named1, Linking
  <2>3. IsFiniteSet(Named(m, j)) /\ Cardinality(Named(m, j)) \in Nat
    BY NamedBound DEF Named1
  <2>4. CASE j = i
    <3>1. Cardinality(Named(e, i)) = Cardinality(Named(m, i)) + 1
      BY <1>7, <2>3, <2>4, FS_AddElement
    <3> QED
      BY <2>1, <2>2, <2>3, <2>4, <3>1
  <2>5. CASE j # i
    BY <1>8, <2>1, <2>2, <2>3, <2>5
  <2> QED
    BY <2>4, <2>5
<1>10. \A q \in Dirs(e) : \A x \in Entries(e, q) :
         At(e, x).inode \in Marked(e) /\ (At(e, x).file_type = "dir" <=> At(e, x).inode \in Dirs(e))
  BY <1>1, <1>2 DEF Named1, Linking, SameEntry
<1>11. \A q \in Dirs(e) : \A x, z \in Entries(e, q) : At(e, x).name = At(e, z).name => x = z
  <2> SUFFICES ASSUME NEW q \in Dirs(m), NEW x \in Entries(e, q), NEW z \in Entries(e, q),
                      At(e, x).name = At(e, z).name
               PROVE  x = z
    BY <1>1
  <2>1. CASE x \in Entries(m, q) /\ z \in Entries(m, q)
    BY <1>2, <2>1 DEF Named1, Linking, SameEntry
  <2>2. CASE q = p /\ (x = y \/ z = y)
    BY <1>2, <2>2 DEF Named1, SameEntry
  <2> QED
    BY <1>2, <2>1, <2>2
<1>12. Root \in Dirs(e) /\ Above(e, Root) = Root
  BY <1>1 DEF Named1, Linking
<1>13. \A q \in Dirs(e) : \A x \in External(e, q) :
         At(e, x).inode \in Dirs(e) => At(e, x).inode # Root /\ Above(e, At(e, x).inode) = q
  <2> SUFFICES ASSUME NEW q \in Dirs(m), NEW x \in External(e, q), At(e, x).inode \in Dirs(m)
               PROVE  At(e, x).inode # Root /\ Above(e, At(e, x).inode) = q
    BY <1>1
  <2>1. CASE x \in External(m, q)
    BY <1>4, <2>1 DEF Named1, Linking, SameEntry
  <2>2. CASE x = y /\ q = p
    BY <2>2 DEF Named1
  <2> QED
    BY <1>3, <2>1, <2>2
<1>14. \A q \in Dirs(e) : \A x, z \in External(e, q) :
         At(e, x).inode \in Dirs(e) /\ At(e, x).inode = At(e, z).inode => x = z
  <2> SUFFICES ASSUME NEW q \in Dirs(m), NEW x \in External(e, q), NEW z \in External(e, q),
                      At(e, x).inode \in Dirs(m), At(e, x).inode = At(e, z).inode
               PROVE  x = z
    BY <1>1
  <2>1. CASE x \in External(m, q) /\ z \in External(m, q)
    BY <1>4, <2>1 DEF Named1, Linking, SameEntry
  <2>2. CASE q = p /\ x = y /\ z \in External(m, q)
    BY <1>4, <2>2 DEF Named1, SameEntry
  <2>3. CASE q = p /\ z = y /\ x \in External(m, q)
    BY <1>4, <2>3 DEF Named1, SameEntry
  <2> QED
    BY <1>3, <2>1, <2>2, <2>3
<1>15. \A j \in Marked(e) \ {Root, 0} : \E q \in Dirs(e) : \E x \in External(e, q) : At(e, x).inode = j
  <2> SUFFICES ASSUME NEW j \in Marked(e) \ {Root, 0}
               PROVE  \E q \in Dirs(m) : \E x \in External(e, q) : At(e, x).inode = j
    BY <1>1
  <2>1. CASE j = i
    <3>1. y \in External(e, p) /\ At(e, y).inode = i /\ p \in Dirs(m)
      BY <1>3 DEF Named1
    <3> QED
      BY <2>1, <3>1
  <2>2. CASE j # i
    <3>1. PICK q \in Dirs(m) : \E x \in External(m, q) : At(m, x).inode = j
      BY <2>2 DEF Named1, Linking
    <3> QED
      BY <1>3, <1>4, <3>1 DEF SameEntry
  <2> QED
    BY <2>1, <2>2
<1> QED
  BY <1>1, <1>3, <1>4, <1>9, <1>10, <1>11, <1>12, <1>13, <1>14, <1>15 DEF Linking

\* The same directories are listed as they were; o2 takes the place of o.
LEMMA LinkSame ==
  ASSUME NEW d, NEW o, Linking(d, o), NEW e, NEW o2,
         Marked(e) = Marked(d), Dirs(e) = Dirs(d),
         \A p \in Dirs(d) : Listed(d, e, p) /\ Above(e, p) = Above(d, p),
         o = o2 \/ (o = 0 /\ 0 \notin Marked(d)),
         \A j \in Marked(d) : e.inode[j].i_links_count = Cardinality(Named(d, j)) + (IF j = o2 THEN 1 ELSE 0)
  PROVE  Linking(e, o2)
<1>1. \A p \in Dirs(d) : /\ Entries(e, p) = Entries(d, p) /\ External(e, p) = External(d, p)
                         /\ \A x \in Entries(d, p) : SameEntry(At(e, x), At(d, x))
                         /\ \A x \in External(d, p) : SameEntry(At(e, x), At(d, x))
  BY DEF Listed, External
<1>2. \A j : Named(e, j) = Named(d, j)
  <2> SUFFICES ASSUME NEW j PROVE Named(e, j) = Named(d, j)
    OBVIOUS
  <2>1. \A y : y \in Named(e, j) <=> y \in Named(d, j)
    BY <1>1, NamedIs DEF SameEntry
  <2> QED
    BY <2>1
<1>3. /\ \A p \in Dirs(e) : \A x \in Entries(e, p) :
           At(e, x).inode \in Marked(e) /\ (At(e, x).file_type = "dir" <=> At(e, x).inode \in Dirs(e))
      /\ \A p \in Dirs(e) : \A x, y \in Entries(e, p) : At(e, x).name = At(e, y).name => x = y
  BY <1>1 DEF Linking, SameEntry
<1>4. /\ Root \in Dirs(e) /\ Above(e, Root) = Root
      /\ \A p \in Dirs(e) : \A x \in External(e, p) :
            At(e, x).inode \in Dirs(e) => At(e, x).inode # Root /\ Above(e, At(e, x).inode) = p
      /\ \A p \in Dirs(e) : \A x, y \in External(e, p) :
            At(e, x).inode \in Dirs(e) /\ At(e, x).inode = At(e, y).inode => x = y
  BY <1>1 DEF Linking, SameEntry
<1>5. \A j \in Marked(e) \ {Root, o2} : \E p \in Dirs(e) : \E x \in External(e, p) : At(e, x).inode = j
  BY <1>1 DEF Linking, SameEntry
<1> QED
  BY <1>2, <1>3, <1>4, <1>5 DEF Linking

-----------------------------------------------------------------------------
(* Paths that stay. *)

\* A path still leads to an inode of K when all entries on the way to it are still
\* there.
LEMMA PathsKept ==
  ASSUME NEW d, NEW o, Sound(d, o), NEW e, NEW o2, Sound(e, o2), NEW K, 0 \notin K,
         \A p \in Dirs(d) : \A x \in External(d, p) :
           At(d, x).inode \in K => /\ p \in K /\ p \in Dirs(e) /\ x \in Entries(e, p)
                                   /\ SameEntry(At(e, x), At(d, x)),
         NEW path \in AnyPath, InodeOf(d, path) \in K
  PROVE  InodeOf(e, path) = InodeOf(d, path)
<1> DEFINE Lost(q) == InodeOf(d, q) \in K /\ InodeOf(e, q) # InodeOf(d, q)
           Bad == {Len(q) : q \in {r \in AnyPath : Lost(r)}}
<1> SUFFICES ASSUME Bad # {} PROVE FALSE
  OBVIOUS
<1>1. Bad \in SUBSET Nat
  <2>1. \A q \in AnyPath : Len(q) \in Nat
    BY PathParts, EmptySeq, DiskAssumption DEF AnyPath
  <2> QED
    BY <2>1
<1>2. PICK m \in Bad : \A j \in Nat : j < m => j \notin Bad
  BY <1>1, Smallest
<1>3. PICK q \in AnyPath : Len(q) = m /\ Lost(q)
  OBVIOUS
<1>4. q \in Path
  BY <1>3, RootPath DEF AnyPath
<1> DEFINE r == ParentPath(q)
           p == InodeOf(d, r)
           x == find_dir_entry(d, q)
<1>5. /\ p \in Dirs(d) /\ x \in External(d, p) /\ At(d, x).name = FileName(q)
      /\ At(d, x).inode = InodeOf(d, q)
  BY <1>3, <1>4, PathStep
<1>6. p \in K /\ p \in Dirs(e) /\ x \in Entries(e, p) /\ SameEntry(At(e, x), At(d, x))
  BY <1>3, <1>5
<1>7. InodeOf(e, r) = p
  <2>1. r \in AnyPath /\ Len(r) \in Nat /\ Len(r) < m
    BY <1>3, <1>4, PathParts, DiskAssumption
  <2>2. ~ Lost(r)
    <3> HIDE DEF Lost, r
    <3> QED
      BY <1>2, <2>1
  <2> QED
    BY <1>6, <2>2
<1>8. InodeOf(e, q) = At(e, x).inode
  BY <1>4, <1>5, <1>6, <1>7, PathStep DEF SameEntry
<1> QED
  BY <1>3, <1>5, <1>6, <1>8 DEF SameEntry

\* No directory is new, and those that are left keep the entries on the way to them.
LEMMA ReachedKept ==
  ASSUME NEW d, Sound(d, 0), Reached(d, 0), NEW e, Sound(e, 0), Dirs(e) \subseteq Dirs(d),
         \A q \in Dirs(e) : External(e, q) \subseteq External(d, q),
         \A p \in Dirs(d) : \A x \in External(d, p) :
           At(d, x).inode \in Dirs(e) => p \in Dirs(e) /\ x \in Entries(e, p) /\ SameEntry(At(e, x), At(d, x))
  PROVE  Reached(e, 0)
<1>1. 0 \notin Dirs(e) /\ 0 \notin Dirs(d)
  BY NoNumberZero DEF Sound, Own
<1>2. ASSUME NEW q \in Dirs(e)
      PROVE  \E path \in AnyPath : InodeOf(e, path) = q /\ (Len(path) < MaxDepth \/ External(e, q) = {})
  <2>1. PICK path \in AnyPath : InodeOf(d, path) = q /\ (Len(path) < MaxDepth \/ External(d, q) = {})
    BY <1>1, <1>2 DEF Reached
  <2>2. InodeOf(e, path) = q
    <3> DEFINE K == Dirs(e)
    <3>1. InodeOf(d, path) \in K
      BY <2>1
    <3>2. \A p \in Dirs(d) : \A x \in External(d, p) :
            At(d, x).inode \in K => /\ p \in K /\ p \in Dirs(e) /\ x \in Entries(e, p)
                                    /\ SameEntry(At(e, x), At(d, x))
      OBVIOUS
    <3>3. 0 \notin K
      BY <1>1
    <3> HIDE DEF K
    <3> QED
      BY <2>1, <3>1, <3>2, <3>3, PathsKept
  <2> QED
    BY <2>1, <2>2
<1> QED
  BY <1>2 DEF Reached

\* An entry y, with the name of a path, is added to the directory of that path.
LEMMA ReachedNamed ==
  ASSUME NEW d, Sound(d, 0), Reached(d, 0), NEW e, Sound(e, 0),
         NEW path \in Path, NEW p \in Dirs(d), InodeOf(d, ParentPath(path)) = p, NEW i, NEW y,
         Dirs(e) \subseteq Dirs(d) \cup {i}, Dirs(d) \subseteq Dirs(e), i \in Dirs(e) => i \notin Dirs(d),
         \A q \in Dirs(d) : External(e, q) = IF q = p THEN External(d, p) \cup {y} ELSE External(d, q),
         \A q \in Dirs(d) : \A x \in External(d, q) : SameEntry(At(e, x), At(d, x)),
         i \in Dirs(e) => External(e, i) = {},
         At(e, y).inode = i, At(e, y).name = FileName(path)
  PROVE  Reached(e, 0)
<1>1. 0 \notin Marked(d) /\ 0 \notin Dirs(d) /\ p \in Marked(d)
  BY NoNumberZero DEF Sound, Own
<1>2. ASSUME NEW q \in AnyPath, InodeOf(d, q) \in Marked(d) PROVE InodeOf(e, q) = InodeOf(d, q)
  <2> DEFINE K == Marked(d)
  <2>1. \A r \in Dirs(d) : \A x \in External(d, r) :
          At(d, x).inode \in K => /\ r \in K /\ r \in Dirs(e) /\ x \in Entries(e, r)
                                  /\ SameEntry(At(e, x), At(d, x))
    <3>1. \A r \in Dirs(d) : \A x \in External(d, r) : x \in External(e, r)
      OBVIOUS
    <3> QED
      BY <3>1 DEF External, Dirs
  <2>2. 0 \notin K /\ InodeOf(d, q) \in K
    BY <1>1, <1>2
  <2> HIDE DEF K
  <2> QED
    BY <2>1, <2>2, PathsKept
<1>3. /\ ParentPath(path) \in AnyPath /\ Len(ParentPath(path)) < MaxDepth
  BY PathParts, DiskAssumption
<1>4. ASSUME NEW q \in Dirs(e)
      PROVE  \E r \in AnyPath : InodeOf(e, r) = q /\ (Len(r) < MaxDepth \/ External(e, q) = {})
  <2>1. CASE q \in Dirs(d) /\ q # p
    <3>1. PICK r \in AnyPath : InodeOf(d, r) = q /\ (Len(r) < MaxDepth \/ External(d, q) = {})
      BY <1>1, <2>1 DEF Reached
    <3>2. InodeOf(e, r) = q
      BY <1>2, <2>1, <3>1 DEF Dirs
    <3> QED
      BY <2>1, <3>1, <3>2
  <2>2. CASE q = p
    BY <1>1, <1>2, <1>3, <2>2
  <2>3. CASE q \notin Dirs(d)
    <3>1. q = i /\ External(e, i) = {}
      BY <2>3
    <3>2. InodeOf(e, ParentPath(path)) = p
      BY <1>1, <1>2, <1>3
    <3>3. y \in Entries(e, p) /\ p \in Dirs(e)
      BY DEF External
    <3>4. InodeOf(e, path) = i
      BY <3>2, <3>3, PathStep
    <3> QED
      BY <3>1, <3>4 DEF AnyPath
  <2> QED
    BY <2>1, <2>2, <2>3
<1> QED
  BY <1>4 DEF Reached

-----------------------------------------------------------------------------
(* The entries of a block. *)

\* The lengths of names, and of a block that two entries fit in.
LEMMA LengthFacts ==
  /\ \A n \in Name \cup {".", ".."} : Length(n) \in Nat /\ Length(n) >= 1
  /\ Length(".") = 1 /\ Length("..") = 2
  /\ \A n \in Name \cup {".", ".."} : 8 + Length(n) <= BlockSize
  /\ BlockSize \in Nat /\ BlockSize >= 24 /\ BlockSize % 4 = 0
<1>1. \A n \in Name : Length(n) = NameLen[n] /\ NameLen[n] \in Nat /\ NameLen[n] >= 1
  BY DiskAssumption DEF Length
<1>2. Length(".") = 1 /\ Length("..") = 2
  BY DEF Length
<1> QED
  BY <1>1, <1>2, DiskAssumption, CarefulAssumption

\* An entry's length rounded up to a multiple of 4.
LEMMA RoundedFacts ==
  ASSUME NEW a \in Nat
  PROVE  Rounded(a) \in Nat /\ Rounded(a) >= a /\ Rounded(a) % 4 = 0
BY DEF Rounded

\* The entries of a block are finitely many and within the types.
LEMMA GoodFacts ==
  ASSUME NEW es, GoodBlock(es)
  PROVE  /\ Len(es) \in Nat /\ Len(es) >= 1 /\ DOMAIN es = 1 .. Len(es)
         /\ Len(es) <= BlockSize \div 8
         /\ \A k \in 1 .. Len(es) : es[k] \in EntryRecord
         /\ Lengths(es) \in [1 .. Len(es) -> Int] /\ Total(Lengths(es), 1 .. Len(es)) = BlockSize
<1>1. es \in Seq(EntryRecord) /\ es # <<>>
  BY DEF GoodBlock
<1>2. Len(es) \in Nat /\ Len(es) >= 1 /\ DOMAIN es = 1 .. Len(es) /\ \A k \in 1 .. Len(es) : es[k] \in EntryRecord
  BY <1>1, LenProperties, EmptySeq
<1> DEFINE n == Len(es)
           m == Lengths(es)
<1>3. \A k \in 1 .. n : m[k] \in Int /\ m[k] >= 12
  BY <1>2, LengthFacts DEF Lengths, EntryRecord
<1>4. m \in [1 .. n -> Int] /\ Total(m, 1 .. n) = BlockSize
  BY <1>2, <1>3 DEF Lengths, GoodBlock
<1>5. IsFiniteSet(1 .. n) /\ Cardinality(1 .. n) = n
  BY <1>2, FS_Interval
<1> HIDE DEF n, m
<1>6. Total(m, 1 .. n) >= 8 * Cardinality(1 .. n)
  <2>1. \A k \in 1 .. n : m[k] >= 8
    BY <1>3
  <2> QED
    BY <1>4, <1>5, <2>1, TotalAtLeast
<1>7. n \in Nat /\ 8 * n <= BlockSize
  BY <1>2, <1>4, <1>5, <1>6 DEF n
<1>8. n <= BlockSize \div 8
  BY <1>7, LengthFacts
<1> QED
  BY <1>2, <1>4, <1>8 DEF n, m

\* One entry that takes a whole block fills it.
LEMMA GoodSingle ==
  ASSUME NEW i \in Inode \cup {Root}, NEW n \in Name \cup {".", ".."}, NEW type \in {"dir", "reg", "lnk"}
  PROVE  LET es == <<DirEntry(i, n, BlockSize, type)>> IN
         GoodBlock(es) /\ Len(es) = 1 /\ es[1] = DirEntry(i, n, BlockSize, type)
<1> DEFINE e == DirEntry(i, n, BlockSize, type)
           es == <<e>>
<1>1. e \in EntryRecord
  BY LengthFacts DEF DirEntry, EntryRecord
<1>2. e.rec_len = BlockSize /\ e.name = n
  BY DEF DirEntry
<1> HIDE DEF e
<1>3. es \in Seq(EntryRecord) /\ es # <<>> /\ Len(es) = 1 /\ DOMAIN es = {1} /\ es[1] = e
  BY <1>1
<1>4. Lengths(es) = [k \in {1} |-> BlockSize]
  BY <1>2, <1>3 DEF Lengths
<1> DEFINE m == [k \in {1} |-> BlockSize]
           z == [k \in {} |-> 0]
<1>5. m \in [{} \cup {1} -> Int] /\ z \in [{} -> Int] /\ IsFiniteSet({}) /\ 1 \notin {} /\ m[1] = BlockSize
  BY LengthFacts, FS_EmptySet
<1> HIDE DEF m, z
<1>6. Total(m, {} \cup {1}) = Total(z, {}) + m[1] /\ Total(z, {}) = 0
  <2>1. \A y \in {} : m[y] = z[y]
    OBVIOUS
  <2>2. Total(m, {} \cup {1}) = Total(z, {}) + m[1]
    BY <1>5, <2>1, TotalGrows
  <2> QED
    BY <1>5, <2>2, TotalOfEmpty
<1>7. {} \cup {1} = {1}
  OBVIOUS
<1>8. Total(m, {1}) = BlockSize
  BY <1>5, <1>6, <1>7, LengthFacts
<1>9. Total(Lengths(es), DOMAIN es) = BlockSize
  BY <1>3, <1>4, <1>8 DEF m
<1>10. \A k \in 1 .. Len(es) : es[k].rec_len % 4 = 0 /\ es[k].rec_len >= 8 + Length(es[k].name)
  <2> HIDE DEF es
  <2>1. es[1].rec_len % 4 = 0 /\ es[1].rec_len >= 8 + Length(es[1].name)
    BY <1>2, <1>3, LengthFacts
  <2> QED
    BY <1>3, <2>1
<1> HIDE DEF es
<1> QED
  BY <1>3, <1>9, <1>10 DEF GoodBlock, e, es

\* A block with the same lengths.
LEMMA GoodAlike ==
  ASSUME NEW es, GoodBlock(es), NEW new, new = [k \in DOMAIN es |-> new[k]],
         \A k \in 1 .. Len(es) : /\ new[k] \in EntryRecord /\ new[k].rec_len = es[k].rec_len
                                 /\ new[k].rec_len >= 8 + Length(new[k].name)
  PROVE  GoodBlock(new) /\ Len(new) = Len(es)
<1>1. /\ Len(es) \in Nat /\ Len(es) >= 1 /\ DOMAIN es = 1 .. Len(es)
  BY GoodFacts
<1>2. new \in Seq(EntryRecord) /\ Len(new) = Len(es) /\ DOMAIN new = 1 .. Len(es)
  BY <1>1
<1>3. new # <<>>
  BY <1>1, <1>2
<1>4. Lengths(new) = Lengths(es)
  BY <1>1, <1>2 DEF Lengths
<1>5. Total(Lengths(new), DOMAIN new) = BlockSize
  BY <1>1, <1>2, <1>4 DEF GoodBlock
<1>6. \A k \in 1 .. Len(new) : new[k].rec_len % 4 = 0
  BY <1>1, <1>2 DEF GoodBlock
<1> QED
  BY <1>2, <1>3, <1>5, <1>6 DEF GoodBlock

\* The difference of two multiples of 4 is one.
LEMMA Fours ==
  ASSUME NEW a \in Nat, NEW b \in Nat, NEW c \in Nat, a % 4 = 0, b % 4 = 0, c = a - b
  PROVE  c % 4 = 0
OBVIOUS

\* A block whose last entry gives the end of its space to a new one.
LEMMA GoodSplit ==
  ASSUME NEW es, GoodBlock(es), NEW r \in Nat, NEW new \in EntryRecord,
         r % 4 = 0, r >= 12, r >= 8 + Length(es[Len(es)].name),
         new.rec_len = es[Len(es)].rec_len - r, new.rec_len >= 8 + Length(new.name)
  PROVE  LET s == Append([es EXCEPT ![Len(es)].rec_len = r], new) IN
         /\ GoodBlock(s) /\ Len(s) = Len(es) + 1 /\ s[Len(es) + 1] = new
         /\ \A k \in 1 .. Len(es) : SameEntry(s[k], es[k])
<1> DEFINE n == Len(es)
           t == [es EXCEPT ![n].rec_len = r]
           s == Append(t, new)
<1>1. /\ n \in Nat /\ n >= 1 /\ DOMAIN es = 1 .. n /\ n \in 1 .. n
      /\ \A k \in 1 .. n : es[k] \in EntryRecord
      /\ Lengths(es) \in [1 .. n -> Int] /\ Total(Lengths(es), 1 .. n) = BlockSize
  BY GoodFacts
<1>2. new.rec_len \in Nat /\ es[n].rec_len \in Nat /\ es[n].rec_len % 4 = 0 /\ es[n].rec_len <= BlockSize
  <2>1. es[n].rec_len % 4 = 0
    BY <1>1 DEF GoodBlock
  <2>2. \A e \in EntryRecord : e.rec_len \in Nat /\ e.rec_len <= BlockSize
    BY LengthFacts DEF EntryRecord
  <2> QED
    BY <1>1, <2>1, <2>2
<1>3. new.rec_len % 4 = 0
  <2>1. new.rec_len = es[n].rec_len - r
    OBVIOUS
  <2> HIDE DEF n
  <2> QED
    BY <1>2, <2>1, Fours
<1>4. \A k \in 1 .. n : /\ t[k] \in EntryRecord /\ SameEntry(t[k], es[k])
                        /\ t[k].rec_len = IF k = n THEN r ELSE es[k].rec_len
  <2> SUFFICES ASSUME NEW k \in 1 .. n
               PROVE  /\ t[k] \in EntryRecord /\ SameEntry(t[k], es[k])
                      /\ t[k].rec_len = IF k = n THEN r ELSE es[k].rec_len
    OBVIOUS
  <2>1. es[k] \in EntryRecord
    BY <1>1
  <2>2. CASE k = n
    <3>1. t[k] = [es[n] EXCEPT !.rec_len = r]
      BY <1>1, <2>2
    <3>2. r \in 12 .. BlockSize
      <4>1. new.rec_len >= 8
        BY <1>2, LengthFacts DEF EntryRecord
      <4> QED
        BY <1>2, <4>1, LengthFacts
    <3> HIDE DEF t
    <3> QED
      BY <2>1, <2>2, <3>1, <3>2 DEF EntryRecord, SameEntry
  <2>3. CASE k # n
    <3>1. t[k] = es[k]
      BY <1>1, <2>3
    <3> HIDE DEF t
    <3> QED
      BY <2>1, <2>3, <3>1 DEF SameEntry
  <2> QED
    BY <2>2, <2>3
<1>5. t \in Seq(EntryRecord) /\ Len(t) = n /\ DOMAIN t = 1 .. n
  <2>1. t = [k \in 1 .. n |-> t[k]]
    BY <1>1
  <2> HIDE DEF t
  <2> QED
    BY <1>1, <1>4, <2>1
<1> HIDE DEF t
<1>6. /\ s \in Seq(EntryRecord) /\ Len(s) = n + 1 /\ s[n + 1] = new /\ DOMAIN s = 1 .. n + 1
      /\ \A k \in 1 .. n : s[k] = t[k]
  <2>1. /\ Append(t, new) \in Seq(EntryRecord) /\ Len(Append(t, new)) = n + 1 /\ Append(t, new)[n + 1] = new
        /\ \A k \in 1 .. n : Append(t, new)[k] = t[k]
    BY <1>5, AppendProperties
  <2> QED
    BY <2>1, LenProperties
<1> HIDE DEF s
<1>7. Total(Lengths(s), 1 .. n + 1) = BlockSize
  <2>1. \A k \in 1 .. n : Lengths(es)[k] = es[k].rec_len
    BY <1>1 DEF Lengths
  <2>2. \A k \in 1 .. n + 1 : Lengths(s)[k] = s[k].rec_len
    BY <1>6 DEF Lengths
  <2>3. Lengths(s) \in [1 .. n + 1 -> Int]
    <3>1. \A k \in 1 .. n + 1 : s[k] \in EntryRecord
      BY <1>6
    <3>2. \A k \in 1 .. n + 1 : s[k].rec_len \in Int
      BY <3>1, LengthFacts DEF EntryRecord
    <3> QED
      BY <1>6, <3>2 DEF Lengths
  <2>4. \A k \in 1 .. n : k # n => s[k].rec_len = es[k].rec_len
    BY <1>4, <1>6
  <2>5. s[n].rec_len + s[n + 1].rec_len = es[n].rec_len
    <3>1. s[n + 1] = new /\ s[n] = t[n] /\ t[n].rec_len = r
      BY <1>1, <1>4, <1>6
    <3>2. new.rec_len = es[n].rec_len - r
      OBVIOUS
    <3> HIDE DEF n
    <3> QED
      BY <1>2, <3>1, <3>2
  <2>6. n \in 1 .. n /\ n \in 1 .. n + 1 /\ n + 1 \in 1 .. n + 1 /\ 1 .. n \subseteq 1 .. n + 1
    BY <1>1
  <2>7. /\ \A k \in 1 .. n : k # n => Lengths(s)[k] = Lengths(es)[k]
        /\ Lengths(s)[n] + Lengths(s)[n + 1] = Lengths(es)[n]
    BY <2>1, <2>2, <2>4, <2>5, <2>6
  <2> HIDE DEF n
  <2> QED
    BY <1>1, <2>3, <2>7, TotalSplit
<1>8. ASSUME NEW k \in 1 .. n + 1 PROVE s[k].rec_len % 4 = 0 /\ s[k].rec_len >= 8 + Length(s[k].name)
  <2>1. CASE k = n + 1
    BY <1>3, <1>6, <2>1
  <2>2. CASE k # n + 1
    <3>1. k \in 1 .. n /\ s[k] = t[k]
      BY <1>1, <1>6, <2>2
    <3>2. es[k].rec_len % 4 = 0 /\ es[k].rec_len >= 8 + Length(es[k].name)
      BY <3>1 DEF GoodBlock
    <3>3. s[k].name = es[k].name /\ s[k].rec_len = IF k = n THEN r ELSE es[k].rec_len
      BY <1>4, <3>1 DEF SameEntry
    <3> QED
      BY <3>2, <3>3
  <2> QED
    BY <2>1, <2>2
<1>9. s # <<>>
  BY <1>1, <1>6
<1>10. GoodBlock(s)
  BY <1>6, <1>7, <1>8, <1>9 DEF GoodBlock
<1>11. \A k \in 1 .. n : SameEntry(s[k], es[k])
  BY <1>4, <1>6
<1> QED
  BY <1>6, <1>10, <1>11 DEF s, t

\* The first block of a directory.
LEMMA GoodDirBlock ==
  ASSUME NEW i \in Inode \cup {Root}, NEW p \in Inode \cup {Root}
  PROVE  /\ GoodBlock(DirBlock(i, p)) /\ Len(DirBlock(i, p)) = 2
         /\ SameEntry(DirBlock(i, p)[1], DirEntry(i, ".", 12, "dir"))
         /\ SameEntry(DirBlock(i, p)[2], DirEntry(p, "..", 12, "dir"))
<1> DEFINE e   == DirEntry(i, ".", BlockSize, "dir")
           es  == <<e>>
           new == DirEntry(p, "..", BlockSize - 12, "dir")
           s   == Append([es EXCEPT ![1].rec_len = 12], new)
<1>1. GoodBlock(es) /\ Len(es) = 1 /\ es[1] = e
  BY GoodSingle
<1>2. /\ 12 \in Nat /\ 12 % 4 = 0 /\ 12 >= 12 /\ es[1].rec_len = BlockSize /\ es[1].name = "."
      /\ new.rec_len = BlockSize - 12 /\ new.name = ".."
      /\ new.rec_len >= 8 + Length(new.name) /\ 12 >= 8 + Length(es[1].name)
  BY LengthFacts DEF DirEntry
<1>3. new \in EntryRecord
  BY LengthFacts DEF EntryRecord, DirEntry
<1>4. GoodBlock(s) /\ Len(s) = 2
  <2> HIDE DEF es, new
  <2>1. s = Append([es EXCEPT ![Len(es)].rec_len = 12], new)
    BY <1>1
  <2>2. new.rec_len = es[Len(es)].rec_len - 12 /\ 12 >= 8 + Length(es[Len(es)].name)
    BY <1>1, <1>2
  <2> HIDE DEF s
  <2>3. GoodBlock(s) /\ Len(s) = Len(es) + 1
    BY <1>1, <1>2, <1>3, <2>1, <2>2, GoodSplit
  <2> QED
    BY <1>1, <2>3
<1>5. s = DirBlock(i, p)
  <2>1. [e EXCEPT !.rec_len = 12] = DirEntry(i, ".", 12, "dir")
    BY DEF DirEntry
  <2>2. [es EXCEPT ![1].rec_len = 12] = <<[e EXCEPT !.rec_len = 12]>>
    <3> HIDE DEF e
    <3> QED
      OBVIOUS
  <2>3. s = Append(<<DirEntry(i, ".", 12, "dir")>>, new)
    BY <2>1, <2>2
  <2>4. \A a, b : Append(<<a>>, b) = <<a, b>>
    <3> SUFFICES ASSUME NEW a, NEW b PROVE Append(<<a>>, b) = <<a, b>>
      OBVIOUS
    <3> DEFINE T == {a, b}
               t == <<a, b>>
    <3>1. <<a>> \in Seq(T) /\ Len(<<a>>) = 1 /\ b \in T /\ <<a>>[1] = a
      OBVIOUS
    <3>2. t \in Seq(T) /\ Len(t) = 2 /\ t[1] = a /\ t[2] = b
      OBVIOUS
    <3> DEFINE u == <<a>>
    <3> HIDE DEF T, t, u
    <3>3. /\ Append(u, b) \in Seq(T) /\ Len(Append(u, b)) = Len(u) + 1
          /\ \A k \in 1 .. Len(u) : Append(u, b)[k] = u[k]
          /\ Append(u, b)[Len(u) + 1] = b
      BY <3>1, AppendProperties DEF u
    <3>4. Len(u) = 1 /\ u[1] = a
      BY <3>1 DEF u
    <3>5. Len(Append(u, b)) = 2 /\ Append(u, b)[1] = a /\ Append(u, b)[2] = b
      BY <3>3, <3>4
    <3>6. Append(u, b) = t
      <4>1. \A k \in 1 .. 2 : Append(u, b)[k] = t[k]
        BY <3>2, <3>5
      <4> QED
        BY <3>2, <3>3, <3>5, <4>1, SeqEqual
    <3> QED
      BY <3>6 DEF t, u
  <2> HIDE DEF s, es
  <2>5. s = <<DirEntry(i, ".", 12, "dir"), new>>
    <3> HIDE DEF new
    <3> QED
      BY <2>3, <2>4
  <2> QED
    BY <2>5 DEF DirBlock
<1>6. DirBlock(i, p)[1] = DirEntry(i, ".", 12, "dir") /\ DirBlock(i, p)[2] = new
  BY DEF DirBlock
<1>7. SameEntry(new, DirEntry(p, "..", 12, "dir")) /\ \A x : SameEntry(x, x)
  BY DEF SameEntry, DirEntry
<1> HIDE DEF s, new
<1> QED
  BY <1>4, <1>5, <1>6, <1>7

\* Entry k is new, or was free; the others are as they were but for their lengths.
Adds(es, new, k, i, n, type) ==
  /\ GoodBlock(new) /\ k \in Nat /\ 1 .. Len(new) = 1 .. Len(es) \cup {k}
  /\ new[k].inode = i /\ new[k].name = n /\ new[k].file_type = type
  /\ k \in 1 .. Len(es) => es[k].inode = 0
  /\ \A j \in 1 .. Len(es) \ {k} : SameEntry(new[j], es[j])

\* allocate_space_in_block leaves a block filled, with one more entry.
LEMMA GoodAdded ==
  ASSUME NEW es, GoodBlock(es), NEW i \in Inode \cup {Root}, NEW n \in Name,
         NEW type \in {"dir", "reg", "lnk"},
         Reusable(es) # {} \/ Divisible(es, n), LengthGiven(es) >= 8 + Length(n)
  PROVE  \E k \in Nat : Adds(es, Added(es, i, n, type), k, i, n, type)
<1> DEFINE l    == Len(es)
           new  == DirEntry(i, n, LengthGiven(es), type)
           s    == Added(es, i, n, type)
<1>1. /\ l \in Nat /\ l >= 1 /\ DOMAIN es = 1 .. l /\ l \in 1 .. l
      /\ \A k \in 1 .. l : /\ es[k] \in EntryRecord /\ es[k].rec_len \in Nat /\ es[k].rec_len <= BlockSize
                           /\ es[k].rec_len % 4 = 0 /\ es[k].rec_len >= 8 + Length(es[k].name)
                           /\ es[k].rec_len >= 12
  <2>1. l \in Nat /\ l >= 1 /\ DOMAIN es = 1 .. l /\ l \in 1 .. l /\ \A k \in 1 .. l : es[k] \in EntryRecord
    BY GoodFacts
  <2> QED
    BY <2>1, LengthFacts DEF GoodBlock, EntryRecord
<1>2. /\ new.inode = i /\ new.name = n /\ new.file_type = type /\ new.rec_len = LengthGiven(es)
  BY DEF DirEntry
<1>3. CASE Reusable(es) # {}
  <2> DEFINE k == Min(Reusable(es))
  <2>1. k \in Reusable(es)
    <3>1. Reusable(es) \in SUBSET Nat
      BY <1>1 DEF Reusable
    <3> QED
      BY <1>3, <3>1, MinOfNaturals
  <2>2. k \in 1 .. l /\ es[k].inode = 0
    BY <1>1, <2>1 DEF Reusable
  <2>3. LengthGiven(es) = es[k].rec_len
    BY <1>3 DEF LengthGiven
  <2>4. s = [es EXCEPT ![k] = new]
    BY <1>3 DEF Added
  <2> HIDE DEF k, new
  <2>5. \A j \in 1 .. l : s[j] = IF j = k THEN new ELSE es[j]
    BY <1>1, <2>4
  <2>6. new \in EntryRecord
    <3>1. new.rec_len \in 12 .. BlockSize
      BY <1>1, <1>2, <2>2, <2>3, LengthFacts
    <3>2. new = [inode |-> i, rec_len |-> new.rec_len, name |-> n, file_type |-> type]
      BY DEF new, DirEntry
    <3> QED
      BY <3>1, <3>2 DEF EntryRecord
  <2>7. s = [j \in DOMAIN es |-> s[j]]
    BY <1>1, <2>4
  <2> HIDE DEF s
  <2>8. \A j \in 1 .. l : /\ s[j] \in EntryRecord /\ s[j].rec_len = es[j].rec_len
                          /\ s[j].rec_len >= 8 + Length(s[j].name)
    <3> SUFFICES ASSUME NEW j \in 1 .. l
                 PROVE  /\ s[j] \in EntryRecord /\ s[j].rec_len = es[j].rec_len
                        /\ s[j].rec_len >= 8 + Length(s[j].name)
      OBVIOUS
    <3>1. CASE j = k
      BY <1>2, <2>3, <2>5, <2>6, <3>1
    <3>2. CASE j # k
      BY <1>1, <2>5, <3>2
    <3> QED
      BY <3>1, <3>2
  <2>9. GoodBlock(s) /\ Len(s) = l
    BY <2>7, <2>8, GoodAlike
  <2>10. Adds(es, s, k, i, n, type)
    <3>1. 1 .. Len(s) = 1 .. Len(es) \cup {k} /\ k \in Nat
      BY <1>1, <2>2, <2>9
    <3>2. \A j \in 1 .. Len(es) \ {k} : SameEntry(s[j], es[j])
      BY <2>5 DEF SameEntry
    <3>3. s[k] = new
      BY <2>2, <2>5
    <3> QED
      BY <1>2, <2>2, <2>9, <3>1, <3>2, <3>3 DEF Adds
  <2> QED
    BY <2>10 DEF Adds, s
<1>4. CASE Reusable(es) = {}
  <2> DEFINE r == Rounded(8 + Length(es[l].name))
  <2>1. LengthGiven(es) = es[l].rec_len - r
    BY <1>4 DEF LengthGiven
  <2>2. s = Append([es EXCEPT ![l].rec_len = @ - LengthGiven(es)], new)
    BY <1>4 DEF Added
  <2>3. Length(es[l].name) \in Nat /\ Length(es[l].name) >= 1
    BY <1>1, LengthFacts DEF EntryRecord
  <2>4. r \in Nat /\ r % 4 = 0 /\ r >= 8 + Length(es[l].name)
    <3> DEFINE a == 8 + Length(es[l].name)
    <3>1. a \in Nat
      BY <2>3
    <3> HIDE DEF a
    <3>2. Rounded(a) \in Nat /\ Rounded(a) >= a /\ Rounded(a) % 4 = 0
      BY <3>1, RoundedFacts
    <3> QED
      BY <3>2 DEF a
  <2> HIDE DEF r
  <2>5. r >= 12
    BY <2>3, <2>4
  <2>6. es[l].rec_len - LengthGiven(es) = r /\ new.rec_len = es[l].rec_len - r
    BY <1>1, <1>2, <2>1, <2>4
  <2>7. [es EXCEPT ![l].rec_len = @ - LengthGiven(es)] = [es EXCEPT ![l].rec_len = r]
    BY <2>6
  <2>8. new \in EntryRecord
    <3>0. Length(n) \in Nat /\ Length(n) >= 1
      BY LengthFacts
    <3> DEFINE c == new.rec_len
               a == es[l].rec_len
    <3>1. c \in Nat /\ c >= 9 /\ c <= BlockSize
      <4>1. a \in Nat /\ a <= BlockSize /\ c = a - r
        BY <1>1, <2>6
      <4>2. c >= 8 + Length(n)
        BY <1>2
      <4> HIDE DEF c, a
      <4> QED
        BY <2>4, <3>0, <4>1, <4>2, LengthFacts
    <3>2. c % 4 = 0
      <4>1. a \in Nat /\ a % 4 = 0 /\ c = a - r
        BY <1>1, <2>6
      <4> HIDE DEF c, a
      <4> QED
        BY <2>4, <3>1, <4>1, Fours
    <3>3. new.rec_len \in 12 .. BlockSize
      BY <3>1, <3>2, LengthFacts
    <3>4. new = [inode |-> i, rec_len |-> new.rec_len, name |-> n, file_type |-> type]
      BY DEF DirEntry
    <3> QED
      BY <3>3, <3>4 DEF EntryRecord
  <2>9. /\ GoodBlock(s) /\ Len(s) = l + 1 /\ s[l + 1] = new
        /\ \A k \in 1 .. l : SameEntry(s[k], es[k])
    <3>1. s = Append([es EXCEPT ![Len(es)].rec_len = r], new)
      BY <2>2, <2>7
    <3>2. new.rec_len >= 8 + Length(new.name)
      BY <1>2
    <3> HIDE DEF new, s
    <3> QED
      BY <2>4, <2>5, <2>6, <2>8, <3>1, <3>2, GoodSplit
  <2> HIDE DEF s
  <2>10. Adds(es, s, l + 1, i, n, type)
    <3>1. 1 .. Len(s) = 1 .. Len(es) \cup {l + 1} /\ l + 1 \in Nat /\ l + 1 \notin 1 .. Len(es)
      BY <1>1, <2>9
    <3> QED
      BY <1>2, <2>9, <3>1 DEF Adds
  <2> QED
    BY <2>10 DEF Adds, s
<1> QED
  BY <1>3, <1>4

\* First gives a member of the set, or 0.
LEMMA FirstIn ==
  ASSUME NEW S \in SUBSET Nat, First(S) # 0
  PROVE  First(S) \in S
BY MinOfNaturals DEF First

\* The slot with room in it is a block of the directory's.
LEMMA RoomFacts ==
  ASSUME NEW d, NEW p, NEW n, RoomIn(d, p, n) # 0
  PROVE  LET b == d.inode[p].i_block[RoomIn(d, p, n)] IN
         /\ RoomIn(d, p, n) \in 1 .. Slots /\ b \in BlocksOf(d, p) /\ b # 0
         /\ Reusable(d.data[b]) # {} \/ Divisible(d.data[b], n)
<1> DEFINE S == {s \in 1 .. Slots : LET b == d.inode[p].i_block[s] IN
                   b # 0 /\ (Reusable(d.data[b]) # {} \/ Divisible(d.data[b], n))}
<1>1. RoomIn(d, p, n) = First(S)
  BY DEF RoomIn
<1>2. S \in SUBSET Nat
  OBVIOUS
<1> HIDE DEF S
<1>3. RoomIn(d, p, n) \in S
  BY <1>1, <1>2, FirstIn
<1> QED
  BY <1>3 DEF S, BlocksOf

\* The free slot of a directory is a slot, and is free.
LEMMA SlotFacts ==
  ASSUME NEW d, NEW p, FreeSlot(d, p) # 0
  PROVE  FreeSlot(d, p) \in 1 .. Slots /\ d.inode[p].i_block[FreeSlot(d, p)] = 0
<1> DEFINE S == {s \in 1 .. Slots : d.inode[p].i_block[s] = 0}
<1>1. FreeSlot(d, p) = First(S)
  BY DEF FreeSlot
<1>2. S \in SUBSET Nat
  OBVIOUS
<1> HIDE DEF S
<1>3. FreeSlot(d, p) \in S
  BY <1>1, <1>2, FirstIn
<1> QED
  BY <1>3 DEF S

\* What an entry for inode i in directory p needs.
Wanted(m, i, p, n, type) ==
  /\ Sound(m, i) /\ i \in Marked(m) /\ p \in Dirs(m)
  /\ n \in Name /\ \A x \in Entries(m, p) : At(m, x).name # n
  /\ type \in {"dir", "reg", "lnk"} /\ (type = "dir" <=> i \in Dirs(m))
  /\ i \in Dirs(m) => /\ i # Root /\ Above(m, i) = p
                      /\ \A q \in Dirs(m) : \A x \in External(m, q) : At(m, x).inode # i

\* allocate_space_in_block adds one entry.
LEMMA EntryAdded ==
  ASSUME NEW m, NEW i, NEW p, NEW n, NEW type, Wanted(m, i, p, n, type),
         RoomIn(m, p, n) # 0,
         LengthGiven(m.data[m.inode[p].i_block[RoomIn(m, p, n)]]) >= 8 + Length(n)
  PROVE  \E y : Named1(m, WithEntry(m, p, i, n, type), p, y, i, n)
<1> DEFINE b   == m.inode[p].i_block[RoomIn(m, p, n)]
           es  == m.data[b]
           new == Added(es, i, n, type)
           e   == WithEntry(m, p, i, n, type)
<1>1. b \in BlocksOf(m, p) /\ (Reusable(es) # {} \/ Divisible(es, n))
  BY RoomFacts
<1>2. Own(m) /\ Typed(m) /\ Owned(m) /\ p \in Marked(m) /\ m.inode[p].i_mode = "dir" /\ Linking(m, i)
  BY DEF Wanted, Sound, Own, Dirs
<1>3. b \in m.bmap /\ b # 0 /\ b \in Block /\ \A q \in Marked(m) : b \in BlocksOf(m, q) => q = p
  BY <1>1, <1>2, SlotHeld DEF Typed, Counted
<1>4. GoodBlock(es)
  <2>1. es # <<>>
    BY <1>1, <1>2 DEF Own, Shaped, DirShape
  <2> QED
    BY <1>2, <1>3, <2>1 DEF Typed
<1>5. i \in Inode \cup {Root} /\ i # 0
  BY <1>2, NoNumberZero DEF Wanted
<1>6. PICK k \in Nat : Adds(es, new, k, i, n, type)
  <2> HIDE DEF es
  <2>1. LengthGiven(es) >= 8 + Length(n)
    BY DEF es
  <2> QED
    BY <1>1, <1>4, <1>5, <2>1, GoodAdded DEF Wanted
<1>7. e = [m EXCEPT !.data[b] = new]
  BY DEF WithEntry
<1>8. /\ DOMAIN e = Fields /\ e.imap = m.imap /\ e.ifree = m.ifree /\ e.bmap = m.bmap /\ e.bfree = m.bfree
      /\ e.inode = m.inode /\ e.word = m.word /\ DOMAIN e.data = DOMAIN m.data
      /\ \A c \in Block \cup {0} : e.data[c] = IF c = b THEN new ELSE m.data[c]
  <2> HIDE DEF e, b, new
  <2> QED
    BY <1>2, <1>3, <1>7 DEF Typed, Counted, Fields
<1> HIDE DEF b, es, new, e
<1>9. Typed(e)
  BY <1>2, <1>6, <1>8 DEF Typed, Counted, Adds
<1>10. Len(es) \in Nat /\ Len(es) >= 1 /\ Len(new) \in Nat /\ Len(new) >= 1 /\ Len(new) <= BlockSize \div 8
       /\ DOMAIN es = 1 .. Len(es) /\ DOMAIN new = 1 .. Len(new)
  BY <1>4, <1>6, GoodFacts DEF Adds
<1>11. KeepsDots(new, es)
  <2>1. new # <<>> /\ es # <<>>
    BY <1>4, <1>6 DEF Adds, GoodBlock
  <2>2. Len(new) >= Len(es)
    <3>1. Len(es) \in 1 .. Len(new)
      BY <1>6, <1>10 DEF Adds
    <3> QED
      BY <1>10, <3>1
  <2> QED
    BY <1>6, <1>10, <2>1, <2>2 DEF KeepsDots, Adds, SameEntry
<1>12. Kept(m, e, {})
  <2>1. \A c \in e.bmap : KeepsDots(e.data[c], m.data[c])
    <3> SUFFICES ASSUME NEW c \in e.bmap PROVE KeepsDots(e.data[c], m.data[c])
      OBVIOUS
    <3>1. c \in Block
      BY <1>2, <1>8 DEF Typed, Counted
    <3>2. CASE c = b
      BY <1>8, <1>11, <3>1, <3>2 DEF es
    <3>3. CASE c # b
      <4>1. e.data[c] = m.data[c] /\ (m.data[c] = <<>> \/ GoodBlock(m.data[c]))
        BY <1>2, <1>8, <3>1, <3>3 DEF Typed
      <4>2. m.data[c] # <<>> => Len(m.data[c]) \in Nat
        BY <4>1, GoodFacts
      <4> QED
        BY <4>1, <4>2 DEF KeepsDots
    <3> QED
      BY <3>2, <3>3
  <2> QED
    BY <1>8, <2>1 DEF Kept, SameInode
<1>13. /\ Own(e) /\ Marked(e) = Marked(m)
       /\ \A q \in Marked(m) : BlocksOf(e, q) = BlocksOf(m, q)
       /\ \A q \in Dirs(m) : Above(e, q) = Above(m, q)
  <2> DEFINE G == {}
  <2>0. Kept(m, e, G)
    BY <1>12
  <2> HIDE DEF G
  <2>3. /\ Own(e) /\ Marked(e) = Marked(m) \ G
        /\ \A q \in Marked(e) : BlocksOf(e, q) = BlocksOf(m, q)
        /\ \A q \in Dirs(e) : Above(e, q) = Above(m, q)
    BY <1>2, <1>9, <2>0, OwnKept
  <2>1. /\ Own(e) /\ Marked(e) = Marked(m)
        /\ \A q \in Marked(e) : BlocksOf(e, q) = BlocksOf(m, q)
        /\ \A q \in Dirs(e) : Above(e, q) = Above(m, q)
    BY <2>3 DEF G
  <2>2. Dirs(e) = Dirs(m)
    BY <1>8, <2>1 DEF Dirs
  <2> QED
    BY <2>1, <2>2
<1>14. \A q \in Dirs(m) \ {p} : Listed(m, e, q)
  <2> SUFFICES ASSUME NEW q \in Dirs(m) \ {p} PROVE Listed(m, e, q)
    OBVIOUS
  <2>1. q \in Marked(m) /\ b \notin BlocksOf(m, q) /\ BlocksOf(m, q) \subseteq Block
    BY <1>2, <1>3, SlotHeld DEF Dirs, Typed, Counted
  <2>2. \A c \in BlocksOf(m, q) : e.data[c] = m.data[c]
    BY <1>8, <2>1
  <2> QED
    BY <1>13, <2>1, <2>2, ListedSame
<1> DEFINE y == <<b, k>>
<1>15. e.data[b] = new /\ m.data[b] = es
  BY <1>3, <1>8 DEF es
<1>16. /\ y \notin Entries(m, p) /\ y \in Entries(e, p) /\ At(e, y) = new[k]
  <2>1. y \notin Entries(m, p)
    BY <1>6, <1>10, <1>15 DEF Entries, Adds
  <2>2. k \in 1 .. Len(new) /\ new[k].inode # 0
    BY <1>5, <1>6 DEF Adds
  <2>3. k \in DOMAIN e.data[b] /\ e.data[b][k].inode # 0 /\ k \in 1 .. BlockSize \div 8 /\ b \in BlocksOf(e, p)
    <3>1. k \in 1 .. BlockSize \div 8
      BY <1>10, <2>2, LengthFacts
    <3> QED
      BY <1>1, <1>2, <1>10, <1>13, <1>15, <2>2, <3>1
  <2> QED
    BY <1>15, <2>1, <2>3, EntryAt DEF At
<1>17. ASSUME NEW x, x # y
       PROVE  /\ x \in Entries(e, p) <=> x \in Entries(m, p)
              /\ x \in Entries(m, p) => SameEntry(At(e, x), At(m, x))
  <2>1. CASE x[1] = b
    <3>1. x \in Entries(e, p) \/ x \in Entries(m, p) => x = <<b, x[2]>>
      BY <2>1, EntryFacts
    <3>2. (x \in Entries(e, p) \/ x \in Entries(m, p)) => x[2] # k
      BY <1>17, <3>1
    <3>3. ASSUME x[2] # k
          PROVE  /\ x[2] \in DOMAIN new <=> x[2] \in DOMAIN es
                 /\ x[2] \in DOMAIN es => SameEntry(new[x[2]], es[x[2]])
      BY <1>6, <1>10, <3>3 DEF Adds
    <3> QED
      BY <1>2, <1>13, <1>15, <2>1, <3>2, <3>3 DEF Entries, At, SameEntry
  <2>2. CASE x[1] # b
    <3>1. BlocksOf(m, p) \subseteq Block
      BY <1>2, SlotHeld DEF Typed, Counted
    <3>2. x[1] \in BlocksOf(m, p) => e.data[x[1]] = m.data[x[1]]
      BY <1>8, <2>2, <3>1
    <3> QED
      BY <1>2, <1>13, <3>2 DEF Entries, At, SameEntry
  <2> QED
    BY <2>1, <2>2
<1>18. Entries(e, p) = Entries(m, p) \cup {y}
  BY <1>16, <1>17
<1>19. \A x \in Entries(m, p) : SameEntry(At(e, x), At(m, x))
  BY <1>16, <1>17
<1>20. At(e, y).inode = i /\ At(e, y).name = n /\ At(e, y).file_type = type
  BY <1>6, <1>16 DEF Adds
<1>21. n \notin {".", ".."}
  BY DiskAssumption DEF Wanted
<1> HIDE DEF y
<1>22. Named1(m, e, p, y, i, n)
  BY <1>2, <1>8, <1>13, <1>14, <1>16, <1>18, <1>19, <1>20, <1>21 DEF Named1, Wanted
<1> QED
  BY <1>22 DEF e

\* MarkBlock, field by field.
LEMMA MarkBlockIs ==
  ASSUME NEW d, Counted(d), NEW c \in Block \ d.bmap
  PROVE  LET e == MarkBlock(d, c) IN
         /\ Counted(e) /\ e.bmap = d.bmap \cup {c} /\ e.imap = d.imap
         /\ e.inode = d.inode /\ e.data = d.data /\ e.word = d.word
<1>1. c \notin {0} \cup d.bmap
  BY DiskAssumption
<1>2. MarkBlock(d, c) = [d EXCEPT !.bmap = @ \cup {c}, !.bfree = @ - 1]
  BY <1>1 DEF MarkBlock
<1>3. Counted(MarkBlock(d, c))
  BY MarkBlockCounted
<1> QED
  BY <1>2, <1>3 DEF Counted, Fields

\* mkdir, cp and ln -s add a block with one entry.
LEMMA BlockAdded ==
  ASSUME NEW m, NEW i, NEW p, NEW n, NEW type, Wanted(m, i, p, n, type),
         NEW c \in Block \ m.bmap, FreeSlot(m, p) # 0
  PROVE  \E y : Named1(m, WithBlock(MarkBlock(m, c), p, c, i, n, type), p, y, i, n)
<1> DEFINE g   == MarkBlock(m, c)
           s   == FreeSlot(m, p)
           new == <<DirEntry(i, n, BlockSize, type)>>
           e   == WithBlock(g, p, c, i, n, type)
           y   == <<c, 1>>
<1>1. s \in 1 .. Slots /\ m.inode[p].i_block[s] = 0
  BY SlotFacts
<1>2. Own(m) /\ Typed(m) /\ Counted(m) /\ p \in Marked(m) /\ m.inode[p].i_mode = "dir" /\ Linking(m, i)
  BY DEF Wanted, Sound, Own, Dirs, Typed
<1>3. /\ Counted(g) /\ g.bmap = m.bmap \cup {c} /\ g.imap = m.imap
      /\ g.inode = m.inode /\ g.data = m.data /\ g.word = m.word
  BY <1>2, MarkBlockIs
<1>4. FreeSlot(g, p) = s
  BY <1>3 DEF FreeSlot
<1>5. i \in Inode \cup {Root} /\ i # 0 /\ p \in Inode \cup {Root} /\ c # 0 /\ c \in Block
  BY <1>2, NoNumberZero, DiskAssumption DEF Wanted
<1>6. GoodBlock(new) /\ Len(new) = 1 /\ new[1] = DirEntry(i, n, BlockSize, type)
  BY <1>5, GoodSingle DEF Wanted
<1>7. e = [g EXCEPT !.data[c] = new, !.word[c] = Bytes, !.inode[p].i_block[s] = c]
  BY <1>4 DEF WithBlock
<1> HIDE DEF g, s, new, e
<1>8. /\ Counted(e) /\ e.imap = m.imap /\ e.bmap = m.bmap \cup {c} /\ DOMAIN e.data = DOMAIN m.data
      /\ e.inode = [m.inode EXCEPT ![p].i_block[s] = c]
      /\ e.data = [m.data EXCEPT ![c] = new] /\ e.word = [m.word EXCEPT ![c] = Bytes]
  BY <1>3, <1>7 DEF Counted, Fields
<1>9. /\ \A b \in Block \cup {0} : e.data[b] = IF b = c THEN new ELSE m.data[b]
      /\ \A b \in Block \cup {0} : e.word[b] = IF b = c THEN Bytes ELSE m.word[b]
  BY <1>2, <1>8 DEF Typed
<1>10. /\ \A j \in Inode \cup {Root} : j # p => e.inode[j] = m.inode[j]
       /\ e.inode[p] = [m.inode[p] EXCEPT !.i_block[s] = c]
  BY <1>2, <1>5, <1>8 DEF Typed
<1>11. m.inode[p] \in InodeRecord
  BY <1>2, <1>5 DEF Typed
<1>12. /\ e.inode[p] \in InodeRecord /\ e.inode[p].i_mode = m.inode[p].i_mode
       /\ e.inode[p].i_size = m.inode[p].i_size /\ e.inode[p].i_links_count = m.inode[p].i_links_count
       /\ \A t \in 1 .. Slots : e.inode[p].i_block[t] = IF t = s THEN c ELSE m.inode[p].i_block[t]
  <2> DEFINE f == m.inode[p]
             B == [f.i_block EXCEPT ![s] = c]
  <2>1. f \in InodeRecord
    BY <1>11
  <2>2. e.inode[p] = [f EXCEPT !.i_block = B]
    BY <1>10
  <2>3. f.i_block \in [1 .. Slots -> Block \cup {0}]
    BY <2>1 DEF InodeRecord
  <2>4. B \in [1 .. Slots -> Block \cup {0}] /\ \A t \in 1 .. Slots : B[t] = IF t = s THEN c ELSE f.i_block[t]
    BY <1>1, <1>5, <2>3
  <2> HIDE DEF f, B
  <2>5. [f EXCEPT !.i_block = B] \in InodeRecord
    BY <2>1, <2>4 DEF InodeRecord
  <2>6. /\ e.inode[p].i_mode = f.i_mode /\ e.inode[p].i_size = f.i_size
        /\ e.inode[p].i_links_count = f.i_links_count /\ e.inode[p].i_block = B
    BY <2>1, <2>2 DEF InodeRecord
  <2> QED
    BY <2>2, <2>4, <2>5, <2>6 DEF f
<1>13. e.inode \in [Inode \cup {Root} -> InodeRecord]
  BY <1>2, <1>5, <1>8, <1>12 DEF Typed
<1>14. Bytes \in [1 .. Ptrs -> Block \cup {0, Junk}]
  BY DEF Bytes
<1>15. e.word \in [Block \cup {0} -> [1 .. Ptrs -> Block \cup {0, Junk}]]
  BY <1>2, <1>8, <1>14 DEF Typed
<1>16. Typed(e)
  BY <1>2, <1>6, <1>8, <1>9, <1>13, <1>15 DEF Typed
<1>17. m.bmap \subseteq Block /\ c \notin m.bmap
  BY <1>2 DEF Counted
<1>18. Grows(m, e, p, s, c)
  <2>1. p \in Dirs(m)
    BY DEF Wanted
  <2>2. \A j \in Marked(m) \ {p} : SameInode(e.inode[j], m.inode[j])
    BY <1>2, <1>10, NoNumberZero DEF SameInode
  <2>3. \A b \in m.bmap \cup {0} : e.word[b] = m.word[b] /\ e.data[b] = m.data[b]
    BY <1>5, <1>9, <1>17
  <2>4. e.data[c] # <<>>
    BY <1>5, <1>6, <1>9 DEF GoodBlock
  <2> QED
    BY <1>1, <1>5, <1>8, <1>12, <1>17, <2>1, <2>2, <2>3, <2>4 DEF Grows
<1>19. /\ Own(e) /\ Marked(e) = Marked(m)
       /\ \A q \in Marked(m) : /\ BlocksOf(m, q) \subseteq m.bmap
                               /\ BlocksOf(e, q) = IF q = p THEN BlocksOf(m, p) \cup {c} ELSE BlocksOf(m, q)
                               /\ \A b \in BlocksOf(m, q) : e.data[b] = m.data[b]
                               /\ e.inode[q].i_mode = m.inode[q].i_mode
       /\ \A q \in Dirs(m) : Above(e, q) = Above(m, q)
  BY <1>2, <1>16, <1>18, OwnGrows
<1>20. \A q \in Dirs(m) \ {p} : Listed(m, e, q)
  <2> SUFFICES ASSUME NEW q \in Dirs(m) \ {p} PROVE Listed(m, e, q)
    OBVIOUS
  <2>1. BlocksOf(e, q) = BlocksOf(m, q) /\ \A b \in BlocksOf(m, q) : e.data[b] = m.data[b]
    BY <1>19 DEF Dirs
  <2> QED
    BY <2>1, ListedSame
<1>21. /\ DOMAIN e.data[c] = {1} /\ e.data[c][1] = DirEntry(i, n, BlockSize, type)
  BY <1>5, <1>6, <1>9, GoodFacts
<1>22. At(e, y) = DirEntry(i, n, BlockSize, type) /\ y[1] = c /\ y[2] = 1
  BY <1>21 DEF At
<1>23. /\ At(e, y).inode = i /\ At(e, y).name = n /\ At(e, y).file_type = type
  BY <1>22 DEF DirEntry
<1>24. c \in BlocksOf(e, p) /\ c \notin BlocksOf(m, p)
  BY <1>2, <1>17, <1>19
<1>25. y \notin Entries(m, p) /\ y \in Entries(e, p)
  <2>1. y \notin Entries(m, p)
    BY <1>22, <1>24, EntryFacts
  <2>2. 1 \in 1 .. BlockSize \div 8
    BY LengthFacts
  <2>3. e.data[c][1].inode # 0 /\ 1 \in DOMAIN e.data[c]
    BY <1>5, <1>21 DEF DirEntry
  <2> QED
    BY <1>24, <2>1, <2>2, <2>3, EntryAt
<1>26. ASSUME NEW x, x # y
       PROVE  /\ x \in Entries(e, p) <=> x \in Entries(m, p)
              /\ x \in Entries(m, p) => SameEntry(At(e, x), At(m, x))
  <2>1. CASE x[1] = c
    <3>1. x \notin Entries(m, p)
      BY <1>24, <2>1, EntryFacts
    <3>2. ASSUME x \in Entries(e, p) PROVE FALSE
      <4>1. x = <<x[1], x[2]>> /\ x[2] \in DOMAIN e.data[x[1]]
        BY <3>2, EntryFacts
      <4>2. x[2] = 1
        BY <1>21, <2>1, <4>1
      <4> QED
        BY <1>26, <2>1, <4>1, <4>2
    <3> QED
      BY <3>1, <3>2
  <2>2. CASE x[1] # c
    <3>1. x[1] \in BlocksOf(e, p) <=> x[1] \in BlocksOf(m, p)
      BY <1>2, <1>19, <2>2
    <3>2. x[1] \in BlocksOf(m, p) => e.data[x[1]] = m.data[x[1]]
      BY <1>2, <1>19
    <3> QED
      BY <3>1, <3>2 DEF Entries, At, SameEntry
  <2> QED
    BY <2>1, <2>2
<1> HIDE DEF y
<1>27. Entries(e, p) = Entries(m, p) \cup {y}
  BY <1>25, <1>26
<1>28. \A x \in Entries(m, p) : SameEntry(At(e, x), At(m, x))
  BY <1>25, <1>26
<1>29. n \notin {".", ".."}
  BY DiskAssumption DEF Wanted
<1>30. \A j \in Marked(m) : /\ e.inode[j].i_mode = m.inode[j].i_mode
                            /\ e.inode[j].i_links_count = m.inode[j].i_links_count
  BY <1>2, <1>10, <1>12, NoNumberZero
<1>31. Named1(m, e, p, y, i, n)
  BY <1>2, <1>19, <1>20, <1>23, <1>25, <1>27, <1>28, <1>29, <1>30 DEF Named1, Wanted
<1> QED
  BY <1>31 DEF e, g

\* An image as careful commands leave it.
Image(d) == Sound(d, 0) /\ Reached(d, 0)

\* Inode i of image m, which was not in image d, gets the name that path ends with.
LEMMA AddedSound ==
  ASSUME NEW d, Image(d), NEW path \in Path, NEW p \in Dirs(d), InodeOf(d, ParentPath(path)) = p,
         NEW m, NEW i, \A q \in Dirs(d) : Listed(d, m, q),
         Dirs(m) \subseteq Dirs(d) \cup {i}, Dirs(d) \subseteq Dirs(m),
         i \in Dirs(m) => i \notin Dirs(d) /\ External(m, i) = {},
         NEW e, NEW y, Named1(m, e, p, y, i, FileName(path))
  PROVE  Image(e)
<1>1. /\ Linking(e, 0) /\ Dirs(e) = Dirs(m)
      /\ \A q \in Dirs(m) : External(e, q) = IF q = p THEN External(m, p) \cup {y} ELSE External(m, q)
      /\ \A q \in Dirs(m) : \A x \in External(m, q) : SameEntry(At(e, x), At(m, x))
  BY LinkNamed
<1>2. Sound(e, 0)
  BY <1>1 DEF Named1, Sound
<1>3. \A q \in Dirs(d) : External(m, q) = External(d, q)
  BY DEF Listed
<1>4. \A q \in Dirs(d) : External(e, q) = IF q = p THEN External(d, p) \cup {y} ELSE External(d, q)
  BY <1>1, <1>3
<1>5. \A q \in Dirs(d) : \A x \in External(d, q) : SameEntry(At(e, x), At(d, x))
  <2>1. \A q \in Dirs(d) : \A x \in External(d, q) : SameEntry(At(e, x), At(m, x))
    BY <1>1, <1>3
  <2>2. \A q \in Dirs(d) : \A x \in External(d, q) : SameEntry(At(m, x), At(d, x))
    BY DEF Listed, External
  <2> QED
    BY <2>1, <2>2 DEF SameEntry
<1>6. i \in Dirs(e) => i \notin Dirs(d) /\ External(e, i) = {}
  BY <1>1
<1>7. At(e, y).inode = i /\ At(e, y).name = FileName(path)
  BY DEF Named1
<1>8. Sound(d, 0) /\ Reached(d, 0) /\ Dirs(e) \subseteq Dirs(d) \cup {i} /\ Dirs(d) \subseteq Dirs(e)
  BY <1>1 DEF Image
<1>9. Reached(e, 0)
  BY <1>2, <1>4, <1>5, <1>6, <1>7, <1>8, ReachedNamed
<1> QED
  BY <1>2, <1>9 DEF Image

-----------------------------------------------------------------------------
(* Inodes that are taken, and taken back. *)

\* MarkInode, field by field.
LEMMA MarkInodeIs ==
  ASSUME NEW d, Counted(d), NEW i \in Inode \ d.imap
  PROVE  LET e == MarkInode(d, i) IN
         /\ Counted(e) /\ e.imap = d.imap \cup {i} /\ e.bmap = d.bmap /\ e.bfree = d.bfree
         /\ e.inode = d.inode /\ e.data = d.data /\ e.word = d.word
<1>1. i \notin {0} \cup d.imap
  BY DiskAssumption
<1>2. MarkInode(d, i) = [d EXCEPT !.imap = @ \cup {i}, !.ifree = @ - 1]
  BY <1>1 DEF MarkInode
<1>3. Counted(MarkInode(d, i))
  BY MarkInodeCounted
<1> QED
  BY <1>2, <1>3 DEF Counted, Fields

\* Taken, field by field.
LEMMA TakenIs ==
  ASSUME NEW d, Counted(d), NEW i \in Inode \ d.imap, NEW f
  PROVE  LET e == Taken(d, i, f) IN
         /\ Counted(e) /\ e.imap = d.imap \cup {i} /\ e.bmap = d.bmap
         /\ e.inode = [d.inode EXCEPT ![i] = f] /\ e.data = d.data /\ e.word = d.word
<1> DEFINE g == MarkInode(d, i)
<1>1. /\ Counted(g) /\ g.imap = d.imap \cup {i} /\ g.bmap = d.bmap
      /\ g.inode = d.inode /\ g.data = d.data /\ g.word = d.word
  BY MarkInodeIs
<1>2. Taken(d, i, f) = [g EXCEPT !.inode[i] = f]
  BY DEF Taken
<1> HIDE DEF g
<1> QED
  BY <1>1, <1>2 DEF Counted, Fields

Placed(f, b) == [f EXCEPT !.i_block[1] = b]

\* TakenWith, field by field.
LEMMA TakenWithIs ==
  ASSUME NEW d, Counted(d), NEW i \in Inode \ d.imap, NEW b \in Block \ d.bmap, NEW f, NEW es,
         NEW e, e = TakenWith(d, i, f, b, es)
  PROVE  /\ Counted(e) /\ e.imap = d.imap \cup {i} /\ e.bmap = d.bmap \cup {b}
         /\ e.inode = [d.inode EXCEPT ![i] = Placed(f, b)]
         /\ e.data = [d.data EXCEPT ![b] = es] /\ e.word = [d.word EXCEPT ![b] = Bytes]
<1> DEFINE h == Placed(f, b)
           t == Taken(d, i, h)
           g == MarkBlock(t, b)
<1>1. /\ Counted(t) /\ t.imap = d.imap \cup {i} /\ t.bmap = d.bmap
      /\ t.inode = [d.inode EXCEPT ![i] = h] /\ t.data = d.data /\ t.word = d.word
  BY TakenIs
<1>2. e = [g EXCEPT !.data[b] = es, !.word[b] = Bytes]
  BY DEF TakenWith, Placed
<1> HIDE DEF t
<1>3. /\ Counted(g) /\ g.bmap = t.bmap \cup {b} /\ g.imap = t.imap
      /\ g.inode = t.inode /\ g.data = t.data /\ g.word = t.word
  BY <1>1, MarkBlockIs
<1> HIDE DEF g
<1>4. /\ Counted(e) /\ e.imap = g.imap /\ e.bmap = g.bmap /\ e.inode = g.inode
      /\ e.data = [g.data EXCEPT ![b] = es] /\ e.word = [g.word EXCEPT ![b] = Bytes]
  BY <1>2, <1>3 DEF Counted, Fields
<1> QED
  BY <1>1, <1>3, <1>4

\* An inode with one block at most, in its first slot.
LEMMA OneBlock ==
  ASSUME NEW d, Own(d), NEW m, Typed(m), NEW i \in Inode \ d.imap, m.imap = d.imap \cup {i},
         NEW b \in Block \ d.bmap, m.bmap = d.bmap \cup {b},
         \A j \in Marked(d) : SameInode(m.inode[j], d.inode[j]),
         \A c \in d.bmap \cup {0} : m.word[c] = d.word[c] /\ m.data[c] = d.data[c],
         m.inode[i].i_size = 0,
         \A s \in 1 .. Slots : m.inode[i].i_block[s] = IF s = 1 THEN b ELSE 0,
         Shaped(m, i)
  PROVE  Takes(d, m, i) /\ BlocksOf(m, i) = {b}
<1>1. 1 \in 1 .. Slots /\ 1 \in Spot /\ 1 <= Slots /\ b # 0
  BY SpotFacts, DiskAssumption
<1>2. \A w \in 1 .. Ptrs : Through(m, i, w) = 0
  <2>1. \A w \in 1 .. Ptrs : 0 < Direct + w
    BY SpotFacts
  <2> QED
    BY <2>1 DEF Through
<1>3. \A v \in Spot : Held(m, i, v) = IF v = 1 THEN b ELSE 0
  BY <1>1, <1>2, SpotFacts DEF Held
<1>4. BlocksOf(m, i) = {b}
  BY <1>1 DEF BlocksOf
<1>5. /\ \A v \in Spot : Held(m, i, v) \in (m.bmap \ d.bmap) \cup {0}
      /\ \A u, v \in Spot : Held(m, i, u) = Held(m, i, v) /\ Held(m, i, u) # 0 => u = v
      /\ \A c \in m.bmap \ d.bmap : \E v \in Spot : Held(m, i, v) = c
  BY <1>1, <1>3
<1> QED
  BY <1>4, <1>5 DEF Takes

\* A directory with the same blocks and data has the same room.
LEMMA RoomSame ==
  ASSUME NEW d, NEW m, NEW p, m.inode[p].i_block = d.inode[p].i_block,
         \A b \in BlocksOf(d, p) : m.data[b] = d.data[b]
  PROVE  FreeSlot(m, p) = FreeSlot(d, p) /\ \A n : RoomIn(m, p, n) = RoomIn(d, p, n)
<1>1. FreeSlot(m, p) = FreeSlot(d, p)
  BY DEF FreeSlot
<1>2. ASSUME NEW n PROVE RoomIn(m, p, n) = RoomIn(d, p, n)
  <2> DEFINE Good(e, s) == LET b == e.inode[p].i_block[s] IN
                             b # 0 /\ (Reusable(e.data[b]) # {} \/ Divisible(e.data[b], n))
  <2>1. ASSUME NEW s \in 1 .. Slots PROVE Good(m, s) <=> Good(d, s)
    <3>1. CASE d.inode[p].i_block[s] = 0
      BY <3>1
    <3>2. CASE d.inode[p].i_block[s] # 0
      <4>1. d.inode[p].i_block[s] \in BlocksOf(d, p)
        BY <3>2 DEF BlocksOf
      <4> QED
        BY <4>1
    <3> QED
      BY <3>1, <3>2
  <2>2. RoomIn(m, p, n) = First({s \in 1 .. Slots : Good(m, s)})
    BY DEF RoomIn
  <2>3. RoomIn(d, p, n) = First({s \in 1 .. Slots : Good(d, s)})
    BY DEF RoomIn
  <2> HIDE DEF Good
  <2>4. {s \in 1 .. Slots : Good(m, s)} = {s \in 1 .. Slots : Good(d, s)}
    BY <2>1
  <2> QED
    BY <2>2, <2>3, <2>4
<1> QED
  BY <1>1, <1>2

\* find_free_block finds one when the counter says so.
LEMMA FreeThere ==
  ASSUME NEW d, Counted(d)
  PROVE  /\ d.bfree \in Nat
         /\ d.bfree = 0 <=> Block \ d.bmap = {}
         /\ find_free_block(d) = 0 <=> d.bfree = 0
         /\ find_free_block(d) # 0 => find_free_block(d) \in Block \ d.bmap
         /\ find_free_inode(d) # 0 => find_free_inode(d) \in Inode \ d.imap
         /\ \A b \in Block \ d.bmap : \A S : S = d.bmap \cup {b} => Cardinality(Block \ S) = d.bfree - 1
<1>1. IsFiniteSet(Block \ d.bmap)
  BY DiskAssumption, FS_Subset, Block \ d.bmap \in SUBSET Block
<1>2. d.bfree = Cardinality(Block \ d.bmap) /\ d.bfree \in Nat /\ (d.bfree = 0 <=> Block \ d.bmap = {})
  BY <1>1, FS_CardinalityType, FS_EmptySet DEF Counted
<1>3. find_free_block(d) # 0 => find_free_block(d) \in Block \ d.bmap
  BY FreeFound
<1>4. find_free_inode(d) # 0 => find_free_inode(d) \in Inode \ d.imap
  BY FreeFound
<1>5. ASSUME Block \ d.bmap # {} PROVE find_free_block(d) # 0
  <2>1. Block \ d.bmap \in SUBSET Nat /\ 0 \notin Block \ d.bmap
    BY DiskAssumption
  <2>2. Min(Block \ d.bmap) \in Block \ d.bmap
    BY <1>5, <2>1, MinOfNaturals
  <2> QED
    BY <1>5, <2>1, <2>2 DEF find_free_block, First
<1>6. ASSUME NEW b \in Block \ d.bmap, NEW S, S = d.bmap \cup {b} PROVE Cardinality(Block \ S) = d.bfree - 1
  <2>1. Block \ S = (Block \ d.bmap) \ {b}
    BY <1>6
  <2>2. Cardinality((Block \ d.bmap) \ {b}) = Cardinality(Block \ d.bmap) - 1
    BY <1>1, FS_RemoveElement
  <2> QED
    BY <1>2, <2>1, <2>2
<1> QED
  BY <1>2, <1>3, <1>4, <1>5, <1>6

\* Nothing that is in use has changed.
LEMMA Quiet ==
  ASSUME NEW d, Image(d), NEW e, Typed(e), e.imap = d.imap, e.bmap = d.bmap,
         \A j \in Marked(d) : e.inode[j] = d.inode[j],
         \A b \in d.bmap \cup {0} : e.word[b] = d.word[b] /\ e.data[b] = d.data[b]
  PROVE  Image(e)
<1> DEFINE G == {}
<1>1. Own(d) /\ Typed(d) /\ Linking(d, 0) /\ Reached(d, 0) /\ Sound(d, 0)
  BY DEF Image, Sound, Own
<1>2. Kept(d, e, G)
  <2>1. \A b \in e.bmap : KeepsDots(e.data[b], d.data[b])
    <3> SUFFICES ASSUME NEW b \in e.bmap PROVE KeepsDots(e.data[b], d.data[b])
      OBVIOUS
    <3>1. e.data[b] = d.data[b] /\ (d.data[b] = <<>> \/ GoodBlock(d.data[b]))
      BY <1>1 DEF Typed, Counted
    <3>2. d.data[b] # <<>> => Len(d.data[b]) \in Nat
      BY <3>1, GoodFacts
    <3> QED
      BY <3>1, <3>2 DEF KeepsDots
  <2>2. \A j \in Marked(e) : SameInode(e.inode[j], d.inode[j])
    BY DEF SameInode, Marked
  <2> QED
    BY <2>1, <2>2 DEF Kept
<1> HIDE DEF G
<1>3. /\ Own(e) /\ Marked(e) = Marked(d) \ G
      /\ \A p \in Marked(e) : /\ BlocksOf(e, p) = BlocksOf(d, p) /\ BlocksOf(e, p) \subseteq e.bmap
                              /\ e.inode[p].i_mode = d.inode[p].i_mode
      /\ \A p \in Dirs(e) : Above(e, p) = Above(d, p)
  BY <1>1, <1>2, OwnKept
<1>4. Marked(e) = Marked(d)
  BY <1>3 DEF G
<1>5. Dirs(e) = Dirs(d)
  BY <1>3, <1>4 DEF Dirs
<1>6. \A p \in Dirs(d) : Listed(d, e, p)
  <2> SUFFICES ASSUME NEW p \in Dirs(d) PROVE Listed(d, e, p)
    OBVIOUS
  <2>1. BlocksOf(e, p) = BlocksOf(d, p) /\ BlocksOf(d, p) \subseteq d.bmap
    BY <1>3, <1>4 DEF Dirs
  <2> QED
    BY <2>1, ListedSame
<1>7. Linking(e, 0)
  <2>1. \A j \in Marked(d) : e.inode[j].i_links_count = Cardinality(Named(d, j)) + (IF j = 0 THEN 1 ELSE 0)
    BY <1>1 DEF Linking
  <2> QED
    BY <1>1, <1>3, <1>4, <1>5, <1>6, <2>1, LinkSame
<1>8. Sound(e, 0)
  BY <1>3, <1>7 DEF Sound
<1>9. Reached(e, 0)
  <2>1. \A p \in Dirs(d) : \A x \in External(d, p) : x \in Entries(e, p) /\ SameEntry(At(e, x), At(d, x))
    BY <1>6 DEF Listed, External
  <2>2. \A p \in Dirs(d) : External(e, p) = External(d, p)
    BY <1>6 DEF Listed
  <2> QED
    BY <1>1, <1>5, <1>8, <2>1, <2>2, ReachedKept
<1> QED
  BY <1>8, <1>9 DEF Image

\* A fresh inode is a record.
LEMMA FreshIs ==
  ASSUME NEW mode \in {"none", "dir", "reg", "lnk"}, NEW l \in 0 .. 2
  PROVE  /\ FreshInode(mode, l) \in InodeRecord
         /\ FreshInode(mode, l).i_mode = mode /\ FreshInode(mode, l).i_links_count = l
         /\ FreshInode(mode, l).i_size = 0
         /\ FreshInode(mode, l).i_block = [s \in 1 .. Slots |-> 0] /\ FreshInode(mode, l).target = <<>>
<1>1. 0 \in 0 .. Direct + Ptrs /\ l \in 0 .. CountLimit - 1
  BY SpotFacts DEF CountLimit
<1>2. [s \in 1 .. Slots |-> 0] \in [1 .. Slots -> Block \cup {0}]
  OBVIOUS
<1> QED
  BY <1>1, <1>2 DEF FreshInode, InodeRecord

\* An inode that is taken and given back leaves nothing that matters.
LEMMA TakenBack ==
  ASSUME NEW d, Image(d), NEW i \in Inode \ d.imap, NEW mode \in {"dir", "lnk"}, NEW l \in 0 .. 2
  PROVE  Image(FreeInodes(Taken(d, i, FreshInode(mode, l)), {i}))
<1> DEFINE f == FreshInode(mode, l)
           t == Taken(d, i, f)
           e == FreeInodes(t, {i})
<1>1. Typed(d) /\ Counted(d)
  BY DEF Image, Sound, Own, Typed
<1>2. /\ Counted(t) /\ t.imap = d.imap \cup {i} /\ t.bmap = d.bmap
      /\ t.inode = [d.inode EXCEPT ![i] = f] /\ t.data = d.data /\ t.word = d.word
  <2> HIDE DEF f
  <2> QED
    BY <1>1, TakenIs
<1>3. f \in InodeRecord
  BY FreshIs
<1> HIDE DEF t, f
<1>4. /\ Counted(e) /\ e.imap = t.imap \ {i} /\ e.bmap = t.bmap
      /\ e.inode = t.inode /\ e.data = t.data /\ e.word = t.word
  <2>1. Counted(e)
    BY <1>2, FreeInodesCounted
  <2> QED
    BY <1>2, <2>1 DEF FreeInodes, Counted, Fields
<1> HIDE DEF e
<1>5. e.imap = d.imap
  BY <1>2, <1>4
<1>6. Typed(e)
  BY <1>1, <1>2, <1>3, <1>4 DEF Typed
<1>7. \A j \in Marked(d) : e.inode[j] = d.inode[j]
  <2>1. \A j \in Marked(d) : j # i /\ j \in Inode \cup {Root}
    BY <1>1, DiskAssumption, NoNumberZero DEF Marked, Root
  <2> QED
    BY <1>1, <1>2, <1>4, <2>1 DEF Typed
<1>8. Image(e)
  BY <1>2, <1>4, <1>5, <1>6, <1>7, Quiet
<1> QED
  BY <1>8 DEF e, t, f

-----------------------------------------------------------------------------
(* A new name and its count. *)

\* The entries of directories are records.
LEMMA EntryTyped ==
  ASSUME NEW d, Own(d), NEW p \in Dirs(d), NEW x \in Entries(d, p)
  PROVE  At(d, x) \in EntryRecord
<1>1. x[1] \in BlocksOf(d, p) /\ x[2] \in DOMAIN d.data[x[1]]
  BY EntryFacts
<1>2. x[1] \in Block /\ p \in Marked(d)
  BY <1>1, SlotHeld DEF Own, Typed, Counted, Dirs
<1>3. GoodBlock(d.data[x[1]])
  BY <1>1, <1>2 DEF Own, Typed, Shaped, DirShape, Dirs
<1> QED
  BY <1>1, <1>3, GoodFacts DEF At

\* The parent of a path that leads through directories only.
LEMMA ParentIsDir ==
  ASSUME NEW d, NEW o, Sound(d, o), NEW path \in Path,
         Len(path) > 1 => TypeOf(d, ParentPath(path)) \in {"dir", "none"}
  PROVE  /\ Parent(d, path) \in Dirs(d) \cup {0}
         /\ Exists(d, path) => Parent(d, path) # 0
<1> DEFINE q == ParentPath(path)
           p == Parent(d, path)
<1>1. p = InodeOf(d, q) /\ q \in AnyPath /\ Len(q) = Len(path) - 1 /\ Len(path) \in Nat
  BY PathParts, DiskAssumption DEF Parent
<1>2. ASSUME q = <<>> PROVE p \in Dirs(d)
  BY <1>1, <1>2, RootPath DEF Sound, Linking
<1>3. ASSUME q # <<>> PROVE p \in Dirs(d) \cup {0}
  <2>1. q \in Path
    BY <1>1, <1>3 DEF AnyPath
  <2>2. Len(q) \in Nat /\ Len(q) >= 1
    BY <2>1, PathParts, DiskAssumption
  <2>3. TypeOf(d, q) \in {"dir", "none"}
    BY <1>1, <2>2
  <2>4. ASSUME p # 0 PROVE p \in Dirs(d)
    <3> DEFINE r == InodeOf(d, ParentPath(q))
               x == find_dir_entry(d, q)
    <3>1. /\ r \in Dirs(d) /\ x \in External(d, r) /\ TypeOf(d, q) = At(d, x).file_type
          /\ TypeOf(d, q) = "dir" <=> p \in Dirs(d)
      BY <1>1, <2>1, <2>4, PathStep
    <3>2. At(d, x) \in EntryRecord
      BY <3>1, EntryTyped DEF Sound, External
    <3> HIDE DEF x
    <3> QED
      BY <2>3, <3>1, <3>2 DEF EntryRecord
  <2> QED
    BY <2>4
<1>4. Exists(d, path) => p \in Dirs(d)
  BY <1>1, PathStep DEF Exists
<1>5. 0 \notin Dirs(d)
  BY NoNumberZero DEF Sound, Own
<1> QED
  BY <1>2, <1>3, <1>4, <1>5

Recounted(f, k) == [f EXCEPT !.i_links_count = (@ + k) % CountLimit]

\* Linked, field by field.
LEMMA LinkedIs ==
  ASSUME NEW t, Counted(t), NEW p \in Inode \cup {Root}, NEW k,
         t.inode \in [Inode \cup {Root} -> InodeRecord], NEW m, m = Linked(t, p, k)
  PROVE  /\ Counted(m) /\ m.imap = t.imap /\ m.bmap = t.bmap /\ m.bfree = t.bfree
         /\ m.data = t.data /\ m.word = t.word
         /\ m.inode = [t.inode EXCEPT ![p] = Recounted(t.inode[p], k)] /\ DOMAIN m.inode = Inode \cup {Root}
         /\ m.inode[p] = Recounted(t.inode[p], k)
         /\ \A j \in Inode \cup {Root} : j # p => m.inode[j] = t.inode[j]
<1> DEFINE f == Recounted(t.inode[p], k)
<1>1. m = [t EXCEPT !.inode = [t.inode EXCEPT ![p] = f]]
  BY DEF Linked, Recounted
<1>2. Counted(m)
  BY LinkedCounted
<1>3. /\ m.imap = t.imap /\ m.bmap = t.bmap /\ m.bfree = t.bfree /\ m.data = t.data /\ m.word = t.word
      /\ m.inode = [t.inode EXCEPT ![p] = f]
  BY <1>1 DEF Counted, Fields
<1> QED
  BY <1>2, <1>3

\* A link count is a natural number that fits its field.
LEMMA CountFacts ==
  /\ \A c \in 0 .. CountLimit - 1 : c \in Nat
  /\ \A z \in Int : z % CountLimit \in 0 .. CountLimit - 1
<1>1. CountLimit \in Nat /\ CountLimit > 0
  BY DEF CountLimit
<1> QED
  BY <1>1

\* The count of a record's links changed.
LEMMA CountChanged ==
  ASSUME NEW f \in InodeRecord, NEW k \in Int,
         NEW g, g = Recounted(f, k)
  PROVE  /\ g \in InodeRecord /\ SameInode(g, f) /\ g.target = f.target
         /\ g.i_links_count = (f.i_links_count + k) % CountLimit
<1> DEFINE c == f.i_links_count
           z == c + k
           r == z % CountLimit
<1>1. c \in 0 .. CountLimit - 1
  BY DEF InodeRecord
<1>2. g = [f EXCEPT !.i_links_count = r]
  BY DEF Recounted
<1> HIDE DEF c
<1>3. c \in Nat
  BY <1>1, CountFacts
<1>4. z \in Int
  BY <1>3
<1> HIDE DEF z
<1>5. r \in 0 .. CountLimit - 1
  BY <1>4, CountFacts
<1> HIDE DEF r
<1>6. g \in InodeRecord /\ SameInode(g, f) /\ g.target = f.target /\ g.i_links_count = r
  BY <1>2, <1>5 DEF InodeRecord, SameInode
<1> QED
  BY <1>6 DEF r, z, c

-----------------------------------------------------------------------------
(* A directory and its parent. *)

\* The "." and ".." of a directory.
LEMMA DotsAre ==
  ASSUME NEW d, NEW o, Sound(d, o), NEW q \in Dirs(d)
  PROVE  LET b == d.inode[q].i_block[1]  u == <<b, 1>>  v == <<b, 2>> IN
         /\ u \in Entries(d, q) /\ v \in Entries(d, q) /\ u # v
         /\ At(d, v).name = ".." /\ At(d, v).inode = Above(d, q)
         /\ \A y \in Entries(d, q) :
              /\ At(d, y).name = "." => At(d, y).inode = q
              /\ At(d, y).name = ".." => y = v
<1> DEFINE b == d.inode[q].i_block[1]
           es == d.data[b]
           u == <<b, 1>>
           v == <<b, 2>>
<1>1. Own(d) /\ Typed(d) /\ Linking(d, o) /\ q \in Marked(d) /\ Shaped(d, q) /\ d.inode[q].i_mode = "dir"
  BY DEF Sound, Own, Dirs
<1>2. /\ b # 0 /\ Len(es) >= 2 /\ es[1].name = "." /\ es[1].inode = q
      /\ es[2].name = ".." /\ es[2].inode # 0
      /\ \A c \in BlocksOf(d, q) : d.data[c] # <<>>
  BY <1>1 DEF Shaped, DirShape
<1>3. q # 0 /\ 1 \in 1 .. Slots
  BY <1>1, NoNumberZero, SpotFacts
<1>4. b \in BlocksOf(d, q)
  BY <1>2, <1>3 DEF BlocksOf
<1>5. GoodBlock(es)
  <2>1. b \in Block \cup {0}
    BY <1>1, <1>4, SlotHeld DEF Own, Typed, Counted
  <2> QED
    BY <1>1, <1>2, <1>4, <2>1 DEF Typed
<1>6. 1 \in DOMAIN es /\ 2 \in DOMAIN es /\ 1 \in 1 .. BlockSize \div 8 /\ 2 \in 1 .. BlockSize \div 8
  <2>1. DOMAIN es = 1 .. Len(es) /\ Len(es) \in Nat
    BY <1>5, GoodFacts
  <2>2. 1 \in DOMAIN es /\ 2 \in DOMAIN es
    BY <1>2, <2>1
  <2>3. 1 \in 1 .. BlockSize \div 8 /\ 2 \in 1 .. BlockSize \div 8
    BY LengthFacts
  <2> QED
    BY <2>2, <2>3
<1>7. u \in Entries(d, q) /\ v \in Entries(d, q)
  BY <1>2, <1>3, <1>4, <1>6, EntryAt
<1>8. At(d, u) = es[1] /\ At(d, v) = es[2] /\ u # v /\ Above(d, q) = es[2].inode
  BY DEF At, Above
<1> HIDE DEF u, v, es, b
<1>9. \A y, z \in Entries(d, q) : At(d, y).name = At(d, z).name => y = z
  BY <1>1 DEF Linking
<1> QED
  BY <1>2, <1>7, <1>8, <1>9 DEF u, v, b

\* The parent of a directory is a directory, that has an entry for it.
LEMMA AboveIs ==
  ASSUME NEW d, Sound(d, 0), NEW q \in Dirs(d)
  PROVE  /\ Above(d, q) \in Dirs(d)
         /\ q # Root => \E z \in External(d, Above(d, q)) : At(d, z).inode = q
         /\ \A r \in Dirs(d) : \A z \in External(d, r) : At(d, z).inode = q => r = Above(d, q) /\ q # Root
<1>1. Linking(d, 0) /\ 0 \notin Marked(d) /\ q \in Marked(d) /\ q # 0
  BY NoNumberZero DEF Sound, Own, Dirs
<1>2. \A r \in Dirs(d) : \A z \in External(d, r) : At(d, z).inode = q => r = Above(d, q) /\ q # Root
  BY <1>1 DEF Linking
<1>3. CASE q = Root
  BY <1>1, <1>2, <1>3 DEF Linking
<1>4. CASE q # Root
  <2>1. \E r \in Dirs(d) : \E z \in External(d, r) : At(d, z).inode = q
    BY <1>1, <1>4 DEF Linking
  <2> QED
    BY <1>2, <2>1
<1> QED
  BY <1>3, <1>4

\* An entry is in one directory.
LEMMA OneDirectory ==
  ASSUME NEW d, Own(d), NEW q \in Dirs(d), NEW r \in Dirs(d), NEW y \in Entries(d, q), y \in Entries(d, r)
  PROVE  q = r
<1>1. y[1] \in BlocksOf(d, q) /\ y[1] \in BlocksOf(d, r) /\ q \in Marked(d) /\ r \in Marked(d)
  BY EntryFacts DEF Dirs
<1> QED
  BY <1>1, SlotHeld DEF Own

\* No directory that a path leads to is its own parent.
LEMMA NotOwnParent ==
  ASSUME NEW d, Sound(d, 0), NEW path \in Path, InodeOf(d, path) # 0
  PROVE  InodeOf(d, path) # InodeOf(d, ParentPath(path))
<1> DEFINE Same(q) == InodeOf(d, q) # 0 /\ InodeOf(d, q) = InodeOf(d, ParentPath(q))
           Bad == {Len(q) : q \in {r \in Path : Same(r)}}
<1> SUFFICES ASSUME Bad # {} PROVE FALSE
  OBVIOUS
<1>1. Bad \in SUBSET Nat
  <2>1. \A q \in Path : Len(q) \in Nat
    BY PathParts, DiskAssumption
  <2> QED
    BY <2>1
<1>2. PICK m \in Bad : \A j \in Nat : j < m => j \notin Bad
  BY <1>1, Smallest
<1>3. PICK q \in Path : Len(q) = m /\ Same(q)
  OBVIOUS
<1> DEFINE i == InodeOf(d, q)
           r == ParentPath(q)
<1>4. i # 0 /\ InodeOf(d, r) = i /\ i \in Dirs(d)
      /\ \E x \in External(d, i) : At(d, x).inode = i
  BY <1>3, PathStep
<1>5. i = Above(d, i) /\ i # Root
  BY <1>4, AboveIs
<1>6. r \in AnyPath /\ Len(r) = Len(q) - 1 /\ Len(q) \in Nat
  <2>1. q \in Path /\ MaxDepth \in Nat
    BY <1>3, DiskAssumption
  <2> HIDE DEF r, i
  <2>2. ParentPath(q) \in AnyPath /\ Len(ParentPath(q)) = Len(q) - 1 /\ Len(q) \in 1 .. MaxDepth
    BY <2>1, PathParts
  <2> QED
    BY <2>1, <2>2 DEF r
<1>7. r \in Path
  BY <1>4, <1>5, <1>6, RootPath DEF AnyPath
<1>8. InodeOf(d, ParentPath(r)) = i
  <2>1. \E x \in External(d, InodeOf(d, ParentPath(r))) : At(d, x).inode = i /\ InodeOf(d, ParentPath(r)) \in Dirs(d)
    BY <1>4, <1>7, PathStep
  <2> QED
    BY <1>4, <1>5, <2>1, AboveIs
<1>9. Same(r)
  BY <1>4, <1>8
<1>10. Len(r) \in Bad /\ Len(r) < m /\ Len(r) \in Nat
  <2>1. Len(r) \in Bad
    BY <1>7, <1>9
  <2> HIDE DEF Bad
  <2> QED
    BY <1>1, <1>3, <1>6, <2>1
<1> HIDE DEF Bad
<1> QED
  BY <1>2, <1>10
==============================================================================
