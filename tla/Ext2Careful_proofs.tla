------------------------- MODULE Ext2Careful_proofs --------------------------
(* Every careful command keeps the image, for images of any size and any names *)
(* and files: mkdir, ln, cp and rm in turn, then what the image says.          *)
EXTENDS Ext2_proofs

-----------------------------------------------------------------------------
(* ext2_mkdir. *)

\* A new directory i in directory p, with its first block b and its two entries.
LEMMA NewDirectory ==
  ASSUME NEW d, Image(d), NEW p \in Dirs(d), NEW i \in Inode \ d.imap, NEW b \in Block \ d.bmap,
         NEW m, m = Linked(TakenWith(d, i, FreshInode("dir", 2), b, DirBlock(i, p)), p, 1)
  PROVE  /\ Counted(m) /\ m.bmap = d.bmap \cup {b}
         /\ Sound(m, i) /\ i \in Dirs(m) /\ i # Root /\ Dirs(m) = Dirs(d) \cup {i} /\ i \notin Dirs(d)
         /\ Above(m, i) = p /\ External(m, i) = {}
         /\ \A q \in Dirs(m) : \A x \in External(m, q) : At(m, x).inode # i
         /\ \A q \in Dirs(d) : Listed(d, m, q)
         /\ m.inode[p].i_block = d.inode[p].i_block
         /\ \A c \in BlocksOf(d, p) : m.data[c] = d.data[c]
<1> DEFINE f == FreshInode("dir", 2)
           g == Placed(f, b)
           es == DirBlock(i, p)
           t == TakenWith(d, i, f, b, es)
<1>1. Own(d) /\ Typed(d) /\ Counted(d) /\ Linking(d, 0) /\ p \in Marked(d)
  BY DEF Image, Sound, Own, Typed, Dirs
<1>2. /\ i \in Inode \cup {Root} /\ i # 0 /\ p \in Inode \cup {Root} /\ p # i /\ i \notin Marked(d) /\ i # Root
      /\ b \in Block /\ b # 0 /\ b \notin d.bmap /\ p # 0 /\ 1 \in 1 .. Slots
  BY <1>1, NoNumberZero, DiskAssumption, SpotFacts DEF Marked, Root
<1>3. /\ f \in InodeRecord /\ f.i_mode = "dir" /\ f.i_links_count = 2 /\ f.i_size = 0
      /\ f.i_block = [s \in 1 .. Slots |-> 0] /\ f.target = <<>>
  BY FreshIs
<1> HIDE DEF f
<1>4. /\ g \in InodeRecord /\ g.i_mode = "dir" /\ g.i_links_count = 2 /\ g.i_size = 0
      /\ \A s \in 1 .. Slots : g.i_block[s] = IF s = 1 THEN b ELSE 0
  <2> DEFINE B == [f.i_block EXCEPT ![1] = b]
  <2>1. B \in [1 .. Slots -> Block \cup {0}] /\ \A s \in 1 .. Slots : B[s] = IF s = 1 THEN b ELSE 0
    BY <1>2, <1>3
  <2>2. g = [f EXCEPT !.i_block = B]
    BY DEF Placed
  <2> HIDE DEF B, g
  <2> QED
    BY <1>3, <2>1, <2>2 DEF InodeRecord
<1>5. /\ GoodBlock(es) /\ Len(es) = 2
      /\ SameEntry(es[1], DirEntry(i, ".", 12, "dir")) /\ SameEntry(es[2], DirEntry(p, "..", 12, "dir"))
  BY <1>2, GoodDirBlock
<1> HIDE DEF es
<1>6. /\ Counted(t) /\ t.imap = d.imap \cup {i} /\ t.bmap = d.bmap \cup {b}
      /\ t.inode = [d.inode EXCEPT ![i] = g]
      /\ t.data = [d.data EXCEPT ![b] = es] /\ t.word = [d.word EXCEPT ![b] = Bytes]
  BY <1>1, TakenWithIs, SMTT(30)
<1>7. m = Linked(t, p, 1)
  BY DEF f, es
<1> HIDE DEF t, g
<1>8. t.inode \in [Inode \cup {Root} -> InodeRecord]
  BY <1>1, <1>2, <1>4, <1>6 DEF Typed
<1> DEFINE h == Recounted(t.inode[p], 1)
<1>9. /\ Counted(m) /\ m.imap = t.imap /\ m.bmap = t.bmap
      /\ m.data = t.data /\ m.word = t.word /\ DOMAIN m.inode = Inode \cup {Root}
      /\ m.inode = [t.inode EXCEPT ![p] = h] /\ m.inode[p] = h
      /\ \A j \in Inode \cup {Root} : j # p => m.inode[j] = t.inode[j]
  BY <1>2, <1>6, <1>7, <1>8, LinkedIs, SMTT(30)
<1>10. /\ m.inode[i] = g /\ t.inode[p] = d.inode[p]
       /\ \A j \in Marked(d) \ {p} : m.inode[j] = d.inode[j]
  BY <1>1, <1>2, <1>6, <1>9, NoNumberZero DEF Typed
<1>11. /\ m.inode[p] \in InodeRecord /\ SameInode(m.inode[p], d.inode[p])
       /\ m.inode[p].i_links_count = (d.inode[p].i_links_count + 1) % CountLimit
  <2> DEFINE k == d.inode[p]
  <2>1. k \in InodeRecord
    BY <1>1, <1>2 DEF Typed
  <2>2. h = Recounted(k, 1)
    BY <1>10
  <2> HIDE DEF h, k
  <2>3. /\ h \in InodeRecord /\ SameInode(h, k) /\ h.i_links_count = (k.i_links_count + 1) % CountLimit
    BY <2>1, <2>2, CountChanged, 1 \in Int, Zenon
  <2> QED
    BY <1>9, <2>3 DEF k
<1> HIDE DEF h
<1>12. m.inode \in [Inode \cup {Root} -> InodeRecord]
  BY <1>2, <1>8, <1>9, <1>11
<1>13. /\ \A c \in Block \cup {0} : m.data[c] = IF c = b THEN es ELSE d.data[c]
       /\ \A c \in Block \cup {0} : m.word[c] = IF c = b THEN Bytes ELSE d.word[c]
       /\ DOMAIN m.data = Block \cup {0}
  BY <1>1, <1>2, <1>6, <1>9 DEF Typed
<1>14. m.word \in [Block \cup {0} -> [1 .. Ptrs -> Block \cup {0, Junk}]]
  <2>1. Bytes \in [1 .. Ptrs -> Block \cup {0, Junk}]
    BY DEF Bytes
  <2> QED
    BY <1>1, <1>6, <1>9, <2>1 DEF Typed
<1>15. Typed(m)
  BY <1>1, <1>5, <1>9, <1>12, <1>13, <1>14 DEF Typed
<1>16. d.bmap \subseteq Block
  BY <1>1 DEF Counted
<1>17. DirShape(m, i) /\ Above(m, i) = p
  <2>1. m.inode[i].i_block[1] = b /\ m.data[b] = es
    BY <1>2, <1>4, <1>10, <1>13
  <2>2. \A c \in BlocksOf(m, i) : c = b
    BY <1>4, <1>10 DEF BlocksOf
  <2>3. es # <<>> /\ es[1].name = "." /\ es[1].inode = i /\ es[2].name = ".." /\ es[2].inode = p
    BY <1>5 DEF GoodBlock, SameEntry, DirEntry
  <2>4. /\ \A c \in BlocksOf(m, i) : m.data[c] # <<>>
        /\ Len(es) >= 2 /\ p # 0
    BY <1>2, <1>5, <2>1, <2>2, <2>3
  <2> QED
    BY <1>2, <2>1, <2>3, <2>4, Zenon DEF DirShape, Above
<1>18. Shaped(m, i)
  BY <1>4, <1>10, <1>17 DEF Shaped
<1>19. Takes(d, m, i) /\ BlocksOf(m, i) = {b}
  <2>1. \A j \in Marked(d) : SameInode(m.inode[j], d.inode[j])
    BY <1>10, <1>11 DEF SameInode
  <2>2. \A c \in d.bmap \cup {0} : m.word[c] = d.word[c] /\ m.data[c] = d.data[c]
    BY <1>2, <1>13, <1>16
  <2>3. m.imap = d.imap \cup {i} /\ m.bmap = d.bmap \cup {b}
    BY <1>6, <1>9
  <2>4. m.inode[i].i_size = 0 /\ \A s \in 1 .. Slots : m.inode[i].i_block[s] = IF s = 1 THEN b ELSE 0
    BY <1>4, <1>10
  <2> QED
    BY <1>1, <1>15, <1>18, <2>1, <2>2, <2>3, <2>4, OneBlock
<1>20. /\ Own(m) /\ Marked(m) = Marked(d) \cup {i} /\ i \notin Marked(d)
       /\ \A q \in Marked(d) : /\ BlocksOf(m, q) = BlocksOf(d, q) /\ BlocksOf(d, q) \subseteq d.bmap
                               /\ \A c \in BlocksOf(d, q) : m.data[c] = d.data[c]
                               /\ m.inode[q].i_mode = d.inode[q].i_mode
       /\ \A q \in Dirs(d) : Above(m, q) = Above(d, q)
  BY <1>1, <1>15, <1>19, OwnTakes
<1>21. \A q \in Dirs(d) : Listed(d, m, q)
  BY <1>20, ListedSame DEF Dirs
<1>22. Newcomer(d, m, i)
  BY <1>1, <1>2, <1>20, <1>21 DEF Newcomer
<1>23. m.data[b] = es /\ DOMAIN es = 1 .. 2 /\ \A k \in 1 .. 2 : es[k].inode # 0
  <2>1. m.data[b] = es
    BY <1>2, <1>13
  <2>2. DOMAIN es = 1 .. 2
    BY <1>5, GoodFacts
  <2> QED
    BY <1>2, <1>5, <2>1, <2>2 DEF SameEntry, DirEntry
<1> DEFINE u == <<b, 1>>
           v == <<b, 2>>
<1>24. Entries(m, i) = {u, v} /\ u # v /\ At(m, u) = es[1] /\ At(m, v) = es[2]
  <2>1. 1 \in 1 .. BlockSize \div 8 /\ 2 \in 1 .. BlockSize \div 8
    BY LengthFacts
  <2>2. u \in Entries(m, i) /\ v \in Entries(m, i)
    BY <1>19, <1>23, <2>1, EntryAt
  <2>3. ASSUME NEW x \in Entries(m, i) PROVE x \in {u, v}
    <3>1. x = <<x[1], x[2]>> /\ x[1] = b /\ x[2] \in DOMAIN m.data[x[1]]
      BY <1>19, EntryFacts
    <3>2. x[2] \in 1 .. 2
      BY <1>23, <3>1
    <3> QED
      BY <3>1, <3>2
  <2>4. u # v /\ At(m, u) = es[1] /\ At(m, v) = es[2]
    BY <1>23 DEF At
  <2> HIDE DEF u, v
  <2> QED
    BY <2>2, <2>3, <2>4
<1> HIDE DEF u, v
<1>25. /\ Linking(m, i) /\ Dirs(m) = Dirs(d) \cup {i} /\ External(m, i) = {}
       /\ \A q \in Dirs(m) : \A x \in External(m, q) : At(m, x).inode # i
  <2>1. \A j \in Marked(d) \ {p} : m.inode[j].i_links_count = d.inode[j].i_links_count
    BY <1>10
  <2>2. m.inode[i].i_mode = "dir" /\ m.inode[i].i_links_count = 2
    BY <1>4, <1>10
  <2>3. /\ SameEntry(At(m, u), DirEntry(i, ".", 12, "dir")) /\ SameEntry(At(m, v), DirEntry(p, "..", 12, "dir"))
    BY <1>5, <1>24
  <2> QED
    BY <1>11, <1>17, <1>22, <1>24, <2>1, <2>2, <2>3, LinkTakenDir
<1>26. m.inode[p].i_block = d.inode[p].i_block
  BY <1>11 DEF SameInode
<1>27. i \notin Dirs(d) /\ Sound(m, i)
  BY <1>20, <1>25 DEF Dirs, Sound
<1> QED
  BY <1>1, <1>2, <1>6, <1>9, <1>17, <1>20, <1>21, <1>25, <1>26, <1>27

\* A path that does not exist names nothing in its directory.
LEMMA Unnamed ==
  ASSUME NEW d, Image(d), NEW path \in Path, ~ Exists(d, path), Parent(d, path) \in Dirs(d)
  PROVE  \A x \in Entries(d, Parent(d, path)) : At(d, x).name # FileName(path)
<1> SUFFICES ASSUME NEW x \in Entries(d, Parent(d, path)), At(d, x).name = FileName(path)
             PROVE  FALSE
  OBVIOUS
<1>1. InodeOf(d, path) = At(d, x).inode
  BY PathStep DEF Image, Parent
<1> QED
  BY <1>1, EntryFacts DEF Exists

\* The new entry goes where there is room for it, or into a block of its own.
LEMMA NameAdded ==
  ASSUME NEW d, Image(d), NEW path \in Path, ~ Exists(d, path), NEW p, p = Parent(d, path), p \in Dirs(d),
         NEW m, NEW i, Sound(m, i), i \in Marked(m), \A q \in Dirs(d) : Listed(d, m, q),
         Dirs(m) \subseteq Dirs(d) \cup {i}, Dirs(d) \subseteq Dirs(m),
         i \in Dirs(m) => /\ i # Root /\ i \notin Dirs(d) /\ External(m, i) = {} /\ Above(m, i) = p
                          /\ \A q \in Dirs(m) : \A x \in External(m, q) : At(m, x).inode # i,
         m.inode[p].i_block = d.inode[p].i_block, \A c \in BlocksOf(d, p) : m.data[c] = d.data[c],
         NEW type \in {"dir", "reg", "lnk"}, type = "dir" <=> i \in Dirs(m),
         Fits(d, p, FileName(path))
  PROVE  LET n == FileName(path) IN
         /\ RoomIn(m, p, n) = RoomIn(d, p, n) /\ FreeSlot(m, p) = FreeSlot(d, p)
         /\ RoomIn(m, p, n) # 0 => Image(WithEntry(m, p, i, n, type))
         /\ \A c \in Block \ m.bmap :
              FreeSlot(m, p) # 0 => Image(WithBlock(MarkBlock(m, c), p, c, i, n, type))
<1> DEFINE n == FileName(path)
<1>1. RoomIn(m, p, n) = RoomIn(d, p, n) /\ FreeSlot(m, p) = FreeSlot(d, p)
  BY RoomSame
<1>2. n \in Name /\ p = InodeOf(d, ParentPath(path))
  BY PathParts DEF Parent
<1>3. \A x \in Entries(m, p) : At(m, x).name # n
  <2>1. \A x \in Entries(d, p) : At(d, x).name # n
    BY Unnamed
  <2>2. Listed(d, m, p)
    OBVIOUS
  <2> QED
    BY <2>1, <2>2 DEF Listed, SameEntry
<1>4. p \in Dirs(m)
  OBVIOUS
<1> HIDE DEF n
<1>5. Wanted(m, i, p, n, type)
  BY <1>2, <1>3, <1>4 DEF Wanted
<1>6. ASSUME NEW e, NEW y, Named1(m, e, p, y, i, n) PROVE Image(e)
  BY <1>2, <1>6, AddedSound DEF n
<1>7. ASSUME RoomIn(m, p, n) # 0 PROVE Image(WithEntry(m, p, i, n, type))
  <2>1. /\ d.inode[p].i_block[RoomIn(d, p, n)] \in BlocksOf(d, p)
        /\ LengthGiven(d.data[d.inode[p].i_block[RoomIn(d, p, n)]]) >= 8 + Length(n)
    BY <1>1, <1>7, RoomFacts DEF Fits, Room, n
  <2>2. LengthGiven(m.data[m.inode[p].i_block[RoomIn(m, p, n)]]) >= 8 + Length(n)
    BY <1>1, <2>1
  <2>3. \E y : Named1(m, WithEntry(m, p, i, n, type), p, y, i, n)
    BY <1>5, <1>7, <2>2, EntryAdded
  <2> QED
    BY <1>6, <2>3
<1>8. ASSUME NEW c \in Block \ m.bmap, FreeSlot(m, p) # 0
      PROVE  Image(WithBlock(MarkBlock(m, c), p, c, i, n, type))
  <2>1. \E y : Named1(m, WithBlock(MarkBlock(m, c), p, c, i, n, type), p, y, i, n)
    BY <1>5, <1>8, BlockAdded
  <2> QED
    BY <1>6, <2>1
<1> QED
  BY <1>1, <1>7, <1>8 DEF n

\* What mkdir leaves.
LEMMA MkdirKeeps ==
  ASSUME NEW d, Image(d), NEW path \in Path,
         Len(path) > 1 => TypeOf(d, ParentPath(path)) \in {"dir", "none"},
         Parent(d, path) # 0 =>
           /\ Fits(d, Parent(d, path), FileName(path))
           /\ \/ Room(d, Parent(d, path), FileName(path)) \/ d.bfree = 0
              \/ Slot(d, Parent(d, path)) /\ d.bfree >= 2
  PROVE  Image(mkdir(d, path).disk) /\ mkdir(d, path).result \in Results
<1> DEFINE n    == FileName(path)
           p    == Parent(d, path)
           i    == find_free_inode(d)
           b    == find_free_block(d)
           made == Linked(TakenWith(d, i, FreshInode("dir", 2), b, DirBlock(i, p)), p, 1)
           c    == find_free_block(made)
           more == MarkBlock(made, c)
           Keeps(o) == Image(o.disk) /\ o.result \in Results
<1>1. Sound(d, 0) /\ Counted(d)
  BY DEF Image, Sound, Own, Typed
<1>2. p \in Dirs(d) \cup {0}
  BY <1>1, ParentIsDir
<1>3. \A e, r : Outcome(e, r).disk = e /\ Outcome(e, r).result = r
  BY DEF Outcome
<1>4. CASE Exists(d, path) \/ p = 0 \/ i = 0
  <2>1. mkdir(d, path) \in {Outcome(d, "EEXIST"), Outcome(d, "ENOENT"), Outcome(d, "ENOSPC")}
    BY <1>4 DEF mkdir
  <2> QED
    BY <1>3, <2>1 DEF Results
<1>5. CASE ~ Exists(d, path) /\ p # 0 /\ i # 0 /\ b = 0
  <2>1. mkdir(d, path) = Outcome(FreeInodes(Taken(d, i, FreshInode("dir", 2)), {i}), "ENOENT")
    BY <1>5 DEF mkdir
  <2>2. i \in Inode \ d.imap
    BY <1>1, <1>5, FreeThere
  <2> HIDE DEF i
  <2>3. Image(FreeInodes(Taken(d, i, FreshInode("dir", 2)), {i}))
    BY <2>2, TakenBack
  <2> QED
    BY <1>3, <2>1, <2>3 DEF Results
<1>6. CASE ~ Exists(d, path) /\ p # 0 /\ i # 0 /\ b # 0
  <2>1. /\ p \in Dirs(d) /\ i \in Inode \ d.imap /\ b \in Block \ d.bmap
    BY <1>1, <1>2, <1>6, FreeThere
  <2>2. mkdir(d, path) = IF RoomIn(made, p, n) # 0 THEN Outcome(WithEntry(made, p, i, n, "dir"), "OK")
                         ELSE IF FreeSlot(made, p) # 0 THEN Outcome(WithBlock(more, p, c, i, n, "dir"), "OK")
                         ELSE Outcome(FreeInodes(FreeBlocks(more, {i}), {i}), "ENOSPC")
    BY <1>6 DEF mkdir
  <2> DEFINE m == made
  <2>3. m = Linked(TakenWith(d, i, FreshInode("dir", 2), b, DirBlock(i, p)), p, 1)
    OBVIOUS
  <2>a. p = Parent(d, path)
    OBVIOUS
  <2> HIDE DEF m, i, b, p
  <2>4. /\ Counted(m) /\ m.bmap = d.bmap \cup {b}
        /\ Sound(m, i) /\ i \in Dirs(m) /\ i # Root /\ Dirs(m) = Dirs(d) \cup {i} /\ i \notin Dirs(d)
        /\ Above(m, i) = p /\ External(m, i) = {}
        /\ \A q \in Dirs(m) : \A x \in External(m, q) : At(m, x).inode # i
        /\ \A q \in Dirs(d) : Listed(d, m, q)
        /\ m.inode[p].i_block = d.inode[p].i_block
        /\ \A x \in BlocksOf(d, p) : m.data[x] = d.data[x]
    BY <2>1, <2>3, NewDirectory
  <2>5. i \in Marked(m) /\ Fits(d, p, n)
    BY <1>6, <2>4 DEF Dirs, p
  <2> HIDE DEF n
  <2>6. /\ RoomIn(m, p, n) = RoomIn(d, p, n) /\ FreeSlot(m, p) = FreeSlot(d, p)
        /\ RoomIn(m, p, n) # 0 => Image(WithEntry(m, p, i, n, "dir"))
        /\ \A x \in Block \ m.bmap :
              FreeSlot(m, p) # 0 => Image(WithBlock(MarkBlock(m, x), p, x, i, n, "dir"))
    BY <1>6, <2>1, <2>4, <2>5, <2>a, NameAdded DEF n
  <2>7. ASSUME RoomIn(m, p, n) = 0 PROVE FreeSlot(m, p) # 0 /\ find_free_block(m) \in Block \ m.bmap
    <3>1. d.bfree # 0
      BY <1>1, <1>6, FreeThere DEF b
    <3>2. Slot(d, p) /\ d.bfree >= 2
      BY <1>6, <2>6, <2>7, <3>1 DEF Room, p, n
    <3>3. Cardinality(Block \ m.bmap) = d.bfree - 1 /\ d.bfree \in Nat
      <4>1. \A x \in Block \ d.bmap : \A S : S = d.bmap \cup {x} => Cardinality(Block \ S) = d.bfree - 1
        BY <1>1, FreeThere
      <4>2. d.bfree \in Nat
        BY <1>1, FreeThere
      <4>3. m.bmap = d.bmap \cup {b}
        BY <2>4
      <4> QED
        BY <2>1, <4>1, <4>2, <4>3, Zenon
    <3>4. m.bfree # 0
      BY <2>4, <3>2, <3>3 DEF Counted
    <3> QED
      BY <2>4, <2>6, <3>2, <3>4, FreeThere DEF Slot
  <2>8. CASE RoomIn(m, p, n) # 0
    <3>1. mkdir(d, path) = Outcome(WithEntry(m, p, i, n, "dir"), "OK")
      BY <2>2, <2>8 DEF m
    <3> QED
      BY <1>3, <2>6, <2>8, <3>1 DEF Results
  <2>9. CASE RoomIn(m, p, n) = 0
    <3>1. mkdir(d, path) = Outcome(WithBlock(MarkBlock(m, find_free_block(m)), p, find_free_block(m), i, n, "dir"), "OK")
      BY <2>2, <2>7, <2>9 DEF m
    <3>2. Image(WithBlock(MarkBlock(m, find_free_block(m)), p, find_free_block(m), i, n, "dir"))
      BY <2>6, <2>7, <2>9
    <3> QED
      BY <1>3, <3>1, <3>2 DEF Results
  <2> QED
    BY <2>8, <2>9
<1> QED
  BY <1>4, <1>5, <1>6

\* Inode i and blocks that were free are taken and freed again.
LEMMA Undone ==
  ASSUME NEW d, Image(d), NEW m, Typed(m), NEW i, m.imap = d.imap \cup {i}, i \notin Marked(d),
         NEW B, B \cap m.bmap = m.bmap \ d.bmap, d.bmap \subseteq m.bmap,
         \A j \in Marked(d) : m.inode[j] = d.inode[j],
         \A b \in d.bmap \cup {0} : m.word[b] = d.word[b] /\ m.data[b] = d.data[b]
  PROVE  Image(FreeInodes(FreeBlocks(m, B), {i}))
<1> DEFINE f == FreeBlocks(m, B)
           e == FreeInodes(f, {i})
<1>1. Counted(m)
  BY DEF Typed
<1>2. /\ Counted(f) /\ f.imap = m.imap /\ f.bmap = m.bmap \ B
      /\ f.inode = m.inode /\ f.data = m.data /\ f.word = m.word
  <2>1. Counted(f)
    BY <1>1, FreeBlocksCounted
  <2> QED
    BY <1>1, <2>1 DEF FreeBlocks, Counted, Fields
<1> HIDE DEF f
<1>3. /\ Counted(e) /\ e.imap = f.imap \ {i} /\ e.bmap = f.bmap
      /\ e.inode = f.inode /\ e.data = f.data /\ e.word = f.word
  <2>1. Counted(e)
    BY <1>2, FreeInodesCounted
  <2> QED
    BY <1>2, <2>1 DEF FreeInodes, Counted, Fields
<1> HIDE DEF e
<1>4. Typed(e)
  BY <1>2, <1>3 DEF Typed
<1>5. e.imap = d.imap /\ e.bmap = d.bmap
  <2>1. i \notin d.imap
    BY DEF Marked
  <2> QED
    BY <1>2, <1>3, <2>1
<1>6. Image(e)
  BY <1>2, <1>3, <1>4, <1>5, Quiet
<1> QED
  BY <1>6 DEF e, f

\* A new symbolic link i, with its first block b.
WithLink(d, i, from, b) == TakenWith(d, i, [FreshInode("lnk", 1) EXCEPT !.target = from], b, <<>>)

\* A symbolic link that has been taken, with its block, before it is named.
LEMMA NewLink ==
  ASSUME NEW d, Image(d), NEW i \in Inode \ d.imap, NEW b \in Block \ d.bmap, NEW from \in Path,
         NEW m, m = WithLink(d, i, from, b)
  PROVE  /\ Typed(m) /\ Counted(m) /\ m.imap = d.imap \cup {i} /\ m.bmap = d.bmap \cup {b} /\ i \notin Marked(d)
         /\ Sound(m, i) /\ i \in Marked(m) /\ i \notin Dirs(m) /\ Dirs(m) = Dirs(d)
         /\ \A q \in Dirs(d) : Listed(d, m, q)
         /\ \A q \in Marked(d) : m.inode[q] = d.inode[q]
         /\ \A c \in d.bmap \cup {0} : m.data[c] = d.data[c] /\ m.word[c] = d.word[c]
         /\ \A q \in Dirs(d) : \A c \in BlocksOf(d, q) : m.data[c] = d.data[c]
<1> DEFINE f == [FreshInode("lnk", 1) EXCEPT !.target = from]
           g == Placed(f, b)
<1>1. Own(d) /\ Typed(d) /\ Counted(d) /\ Linking(d, 0)
  BY DEF Image, Sound, Own, Typed
<1>2. /\ i \in Inode \cup {Root} /\ i # 0 /\ i \notin Marked(d) /\ i # Root
      /\ b \in Block /\ b # 0 /\ b \notin d.bmap /\ 1 \in 1 .. Slots
  <2>1. i \in Inode /\ i \notin d.imap /\ 0 \notin Inode /\ Root \notin Inode
    BY <1>1, NoNumberZero
  <2>2. b \in Block /\ b # 0 /\ b \notin d.bmap
    BY DiskAssumption
  <2>3. 1 \in 1 .. Slots
    BY SpotFacts
  <2> QED
    BY <2>1, <2>2, <2>3, Zenon DEF Marked
<1>3. /\ f \in InodeRecord /\ f.i_mode = "lnk" /\ f.i_links_count = 1 /\ f.i_size = 0
      /\ f.i_block = [s \in 1 .. Slots |-> 0]
  <2> DEFINE h == FreshInode("lnk", 1)
  <2>1. /\ h \in InodeRecord /\ h.i_mode = "lnk" /\ h.i_links_count = 1 /\ h.i_size = 0
        /\ h.i_block = [s \in 1 .. Slots |-> 0]
    BY FreshIs
  <2>2. f = [h EXCEPT !.target = from]
    OBVIOUS
  <2> HIDE DEF h, f
  <2> QED
    BY <2>1, <2>2 DEF InodeRecord
<1>6. m = TakenWith(d, i, f, b, <<>>)
  BY DEF WithLink
<1> HIDE DEF f
<1>4. /\ g \in InodeRecord /\ g.i_mode = "lnk" /\ g.i_links_count = 1 /\ g.i_size = 0
      /\ \A s \in 1 .. Slots : g.i_block[s] = IF s = 1 THEN b ELSE 0
  <2> DEFINE B == [f.i_block EXCEPT ![1] = b]
  <2>1. B \in [1 .. Slots -> Block \cup {0}] /\ \A s \in 1 .. Slots : B[s] = IF s = 1 THEN b ELSE 0
    BY <1>2, <1>3
  <2>2. g = [f EXCEPT !.i_block = B]
    BY DEF Placed
  <2> HIDE DEF B, g
  <2> QED
    BY <1>3, <2>1, <2>2 DEF InodeRecord
<1>7. /\ Counted(m) /\ m.imap = d.imap \cup {i} /\ m.bmap = d.bmap \cup {b}
      /\ m.inode = [d.inode EXCEPT ![i] = g]
      /\ m.data = [d.data EXCEPT ![b] = <<>>] /\ m.word = [d.word EXCEPT ![b] = Bytes]
  <2> DEFINE es == <<>>
  <2>1. m = TakenWith(d, i, f, b, es)
    BY <1>6
  <2> HIDE DEF es
  <2> DEFINE t == TakenWith(d, i, f, b, es)
  <2>2. /\ Counted(t) /\ t.imap = d.imap \cup {i} /\ t.bmap = d.bmap \cup {b}
        /\ t.inode = [d.inode EXCEPT ![i] = g]
        /\ t.data = [d.data EXCEPT ![b] = es] /\ t.word = [d.word EXCEPT ![b] = Bytes]
    BY <1>1, TakenWithIs
  <2>3. m = t
    BY <2>1
  <2> HIDE DEF t
  <2> QED
    BY <2>2, <2>3 DEF es
<1> HIDE DEF g
<1>8. /\ m.inode \in [Inode \cup {Root} -> InodeRecord] /\ m.inode[i] = g
      /\ \A q \in Marked(d) : m.inode[q] = d.inode[q]
  <2>1. d.inode \in [Inode \cup {Root} -> InodeRecord] /\ Marked(d) \subseteq Inode \cup {Root}
    BY <1>1, NoNumberZero DEF Typed
  <2>2. m.inode = [d.inode EXCEPT ![i] = g] /\ g \in InodeRecord /\ i \in Inode \cup {Root} /\ i \notin Marked(d)
    BY <1>2, <1>4, <1>7
  <2> QED
    BY <2>1, <2>2
<1>13. /\ \A c \in Block \cup {0} : m.data[c] = IF c = b THEN <<>> ELSE d.data[c]
       /\ \A c \in Block \cup {0} : m.word[c] = IF c = b THEN Bytes ELSE d.word[c]
       /\ DOMAIN m.data = Block \cup {0}
  BY <1>1, <1>2, <1>7 DEF Typed
<1>14. m.word \in [Block \cup {0} -> [1 .. Ptrs -> Block \cup {0, Junk}]]
  <2>1. Bytes \in [1 .. Ptrs -> Block \cup {0, Junk}]
    BY DEF Bytes
  <2> QED
    BY <1>1, <1>7, <2>1 DEF Typed
<1>15. Typed(m)
  BY <1>1, <1>7, <1>8, <1>13, <1>14 DEF Typed
<1>16. d.bmap \subseteq Block
  BY <1>1 DEF Counted
<1>17. \A c \in d.bmap \cup {0} : m.data[c] = d.data[c] /\ m.word[c] = d.word[c]
  BY <1>2, <1>13, <1>16
<1>18. Shaped(m, i)
  <2>1. \A c \in BlocksOf(m, i) : c = b
    BY <1>4, <1>8 DEF BlocksOf
  <2>2. m.data[b] = <<>>
    BY <1>2, <1>13
  <2> QED
    BY <1>4, <1>8, <2>1, <2>2 DEF Shaped
<1>19. Takes(d, m, i) /\ BlocksOf(m, i) = {b}
  <2>1. \A j \in Marked(d) : SameInode(m.inode[j], d.inode[j])
    BY <1>8 DEF SameInode
  <2>2. m.inode[i].i_size = 0 /\ \A s \in 1 .. Slots : m.inode[i].i_block[s] = IF s = 1 THEN b ELSE 0
    BY <1>4, <1>8
  <2>3. m.imap = d.imap \cup {i} /\ m.bmap = d.bmap \cup {b}
    BY <1>7
  <2> QED
    BY <1>1, <1>15, <1>17, <1>18, <2>1, <2>2, <2>3, OneBlock
<1>20. /\ Own(m) /\ Marked(m) = Marked(d) \cup {i} /\ i \notin Marked(d)
       /\ \A q \in Marked(d) : /\ BlocksOf(m, q) = BlocksOf(d, q) /\ BlocksOf(d, q) \subseteq d.bmap
                               /\ \A c \in BlocksOf(d, q) : m.data[c] = d.data[c]
                               /\ m.inode[q].i_mode = d.inode[q].i_mode
       /\ \A q \in Dirs(d) : Above(m, q) = Above(d, q)
  BY <1>1, <1>15, <1>19, OwnTakes
<1>21. \A q \in Dirs(d) : Listed(d, m, q)
  BY <1>20, ListedSame DEF Dirs
<1>22. Newcomer(d, m, i)
  BY <1>1, <1>2, <1>20, <1>21 DEF Newcomer
<1>23. Linking(m, i) /\ Dirs(m) = Dirs(d)
  <2>1. \A j \in Marked(d) : m.inode[j].i_links_count = d.inode[j].i_links_count
    BY <1>8
  <2>2. m.inode[i].i_mode # "dir" /\ m.inode[i].i_links_count = 1
    BY <1>4, <1>8
  <2> QED
    BY <1>22, <2>1, <2>2, LinkTaken
<1>24. Sound(m, i)
  BY <1>20, <1>23 DEF Sound
<1>25. i \notin Dirs(m) /\ i \in Marked(m)
  BY <1>4, <1>8, <1>20 DEF Dirs
<1>26. \A q \in Dirs(d) : \A c \in BlocksOf(d, q) : m.data[c] = d.data[c]
  BY <1>20 DEF Dirs
<1> QED
  BY <1>2, <1>7, <1>8, <1>15, <1>17, <1>21, <1>23, <1>24, <1>25, <1>26

\* The type of what exists.
LEMMA TypeFacts ==
  ASSUME NEW d, NEW o, Sound(d, o), NEW path \in Path, Exists(d, path)
  PROVE  /\ TypeOf(d, path) \in {"dir", "reg", "lnk"} /\ InodeOf(d, path) \in Marked(d) \ {0}
         /\ TypeOf(d, path) = "dir" <=> InodeOf(d, path) \in Dirs(d)
<1> DEFINE x == find_dir_entry(d, path)
           p == InodeOf(d, ParentPath(path))
<1>1. InodeOf(d, path) # 0
  BY DEF Exists
<1>2. /\ p \in Dirs(d) /\ x \in Entries(d, p) /\ TypeOf(d, path) = At(d, x).file_type
      /\ InodeOf(d, path) \in Marked(d) \cup {0}
      /\ TypeOf(d, path) = "dir" <=> InodeOf(d, path) \in Dirs(d)
  BY <1>1, PathStep DEF External
<1>3. At(d, x) \in EntryRecord
  BY <1>2, EntryTyped DEF Sound
<1> HIDE DEF x, p
<1> QED
  BY <1>1, <1>2, <1>3 DEF EntryRecord

-----------------------------------------------------------------------------
(* ext2_ln. *)

\* What both kinds of link can count on.
LEMMA LinkErrorFacts ==
  ASSUME NEW d, Image(d), NEW from \in Path, NEW to \in Path
  PROVE  /\ LinkError(d, from, to) \in Results
         /\ LinkError(d, from, to) = "OK" =>
              /\ Exists(d, from) /\ TypeOf(d, from) \in {"reg", "lnk"}
              /\ InodeOf(d, from) \in Marked(d) \ {0} /\ InodeOf(d, from) \notin Dirs(d)
              /\ Parent(d, to) \in Dirs(d) /\ ~ Exists(d, to)
<1>1. LinkError(d, from, to) \in {"OK", "EEXIST", "ENOENT", "EISDIR"}
  BY DEF LinkError
<1>2. ASSUME LinkError(d, from, to) = "OK"
      PROVE  /\ Exists(d, from) /\ TypeOf(d, from) # "dir" /\ ~ Exists(d, to)
             /\ Parent(d, to) # 0 /\ TypeOf(d, ParentPath(to)) = "dir"
  BY <1>2 DEF LinkError
<1>3. ASSUME Parent(d, to) # 0, TypeOf(d, ParentPath(to)) = "dir" PROVE Parent(d, to) \in Dirs(d)
  <2> DEFINE q == ParentPath(to)
  <2>1. q \in AnyPath /\ Parent(d, to) = InodeOf(d, q)
    BY PathParts DEF Parent
  <2>2. CASE q = <<>>
    BY <2>1, <2>2, RootPath DEF Image, Sound, Linking
  <2>3. CASE q # <<>>
    <3>1. q \in Path /\ Exists(d, q)
      BY <1>3, <2>1, <2>3 DEF AnyPath, Exists
    <3> HIDE DEF q
    <3> QED
      BY <1>3, <2>1, <3>1, TypeFacts DEF Image, q
  <2> QED
    BY <2>2, <2>3
<1>4. ASSUME Exists(d, from), TypeOf(d, from) # "dir"
      PROVE  /\ TypeOf(d, from) \in {"reg", "lnk"}
             /\ InodeOf(d, from) \in Marked(d) \ {0} /\ InodeOf(d, from) \notin Dirs(d)
  BY <1>4, TypeFacts DEF Image
<1> QED
  BY <1>1, <1>2, <1>3, <1>4 DEF Results

\* What ln -s leaves.
LEMMA LnSKeeps ==
  ASSUME NEW d, Image(d), NEW from \in Path, NEW to \in Path, Len(to) = 1, Len(from) <= PathLimit,
         Fits(d, Root, FileName(to)), Room(d, Root, FileName(to)) \/ Slot(d, Root)
  PROVE  Image(ln_s(d, from, to).disk) /\ ln_s(d, from, to).result \in Results
<1> DEFINE n    == FileName(to)
           i    == find_free_inode(d)
           b    == find_free_block(d)
           made == WithLink(d, i, from, b)
           c    == find_free_block(made)
           err  == LinkError(d, from, to)
<1>1. Sound(d, 0) /\ Counted(d)
  BY DEF Image, Sound, Own, Typed
<1>2. Parent(d, to) = Root
  <2>1. ParentPath(to) = <<>>
    <3> DEFINE q == ParentPath(to)
    <3>1. q \in Seq(Name) /\ Len(q) = Len(to) - 1
      BY PathParts
    <3> HIDE DEF q
    <3>2. Len(q) = 0
      BY <3>1
    <3>3. q = <<>>
      BY <3>1, <3>2, EmptySeq
    <3> QED
      BY <3>3 DEF q
  <2> QED
    BY <2>1, RootPath DEF Parent
<1>3. \A e, r : Outcome(e, r).disk = e /\ Outcome(e, r).result = r
  BY DEF Outcome
<1>4. ~ (Len(from) > PathLimit)
  BY PathParts, SizeAssumption, DiskAssumption
<1>5. ln_s(d, from, to) =
        IF err # "OK" THEN Outcome(d, err)
        ELSE IF i = 0 THEN Outcome(d, "ENOSPC")
        ELSE IF b = 0 THEN Outcome(FreeInodes(Taken(d, i, FreshInode("lnk", 1)), {i}), "ENOSPC")
        ELSE IF RoomIn(made, Root, n) # 0 THEN Outcome(WithEntry(made, Root, i, n, "lnk"), "OK")
        ELSE IF c = 0 THEN Outcome(FreeInodes(FreeBlocks(made, {b}), {i}), "ENOSPC")
        ELSE IF FreeSlot(made, Root) # 0
             THEN Outcome(WithBlock(MarkBlock(made, c), Root, c, i, n, TypeOf(d, from)), "OK")
        ELSE Outcome(MarkBlock(made, c), "ENOSPC")
  BY <1>2, <1>4 DEF ln_s, WithLink
<1>6. err \in Results
  BY LinkErrorFacts
<1>7. CASE err # "OK" \/ i = 0
  <2>1. ln_s(d, from, to) \in {Outcome(d, err), Outcome(d, "ENOSPC")}
    BY <1>5, <1>7
  <2> QED
    BY <1>3, <1>6, <2>1 DEF Results
<1>8. CASE err = "OK" /\ i # 0 /\ b = 0
  <2>1. ln_s(d, from, to) = Outcome(FreeInodes(Taken(d, i, FreshInode("lnk", 1)), {i}), "ENOSPC")
    BY <1>5, <1>8
  <2>2. i \in Inode \ d.imap
    BY <1>1, <1>8, FreeThere
  <2> HIDE DEF i
  <2>3. Image(FreeInodes(Taken(d, i, FreshInode("lnk", 1)), {i}))
    BY <2>2, TakenBack
  <2> QED
    BY <1>3, <2>1, <2>3 DEF Results
<1>9. CASE err = "OK" /\ i # 0 /\ b # 0
  <2>1. i \in Inode \ d.imap /\ b \in Block \ d.bmap
    BY <1>1, <1>9, FreeThere
  <2>2. /\ TypeOf(d, from) \in {"reg", "lnk"} /\ Root \in Dirs(d) /\ ~ Exists(d, to)
    BY <1>2, <1>9, LinkErrorFacts
  <2> DEFINE m == made
  <2>3. m = WithLink(d, i, from, b)
    OBVIOUS
  <2> HIDE DEF m, i, b
  <2>4. /\ Typed(m) /\ Counted(m) /\ m.imap = d.imap \cup {i} /\ m.bmap = d.bmap \cup {b} /\ i \notin Marked(d)
        /\ Sound(m, i) /\ i \in Marked(m) /\ i \notin Dirs(m) /\ Dirs(m) = Dirs(d)
        /\ \A q \in Dirs(d) : Listed(d, m, q)
        /\ \A q \in Marked(d) : m.inode[q] = d.inode[q]
        /\ \A x \in d.bmap \cup {0} : m.data[x] = d.data[x] /\ m.word[x] = d.word[x]
        /\ \A q \in Dirs(d) : \A x \in BlocksOf(d, q) : m.data[x] = d.data[x]
    BY <2>1, <2>3, NewLink
  <2>5. m.inode[Root].i_block = d.inode[Root].i_block
    BY <2>2, <2>4 DEF Dirs
  <2>6. ASSUME NEW type \in {"reg", "lnk"}
        PROVE  /\ RoomIn(m, Root, n) = RoomIn(d, Root, n) /\ FreeSlot(m, Root) = FreeSlot(d, Root)
               /\ RoomIn(m, Root, n) # 0 => Image(WithEntry(m, Root, i, n, type))
               /\ \A x \in Block \ m.bmap :
                    FreeSlot(m, Root) # 0 => Image(WithBlock(MarkBlock(m, x), Root, x, i, n, type))
    <3> DEFINE p == Root
    <3>1. p = Parent(d, to) /\ p \in Dirs(d) /\ Fits(d, p, FileName(to))
      BY <1>2, <2>2
    <3>2. type \in {"dir", "reg", "lnk"} /\ (type = "dir" <=> i \in Dirs(m))
      BY <2>4, <2>6
    <3>3. m.inode[p].i_block = d.inode[p].i_block /\ \A x \in BlocksOf(d, p) : m.data[x] = d.data[x]
      BY <2>2, <2>4, <2>5
    <3> HIDE DEF n, p
    <3>4. /\ RoomIn(m, p, n) = RoomIn(d, p, n) /\ FreeSlot(m, p) = FreeSlot(d, p)
          /\ RoomIn(m, p, n) # 0 => Image(WithEntry(m, p, i, n, type))
          /\ \A x \in Block \ m.bmap :
               FreeSlot(m, p) # 0 => Image(WithBlock(MarkBlock(m, x), p, x, i, n, type))
      BY <2>2, <2>4, <3>1, <3>2, <3>3, NameAdded DEF n
    <3> QED
      BY <3>4 DEF p
  <2>7. find_free_block(m) # 0 => find_free_block(m) \in Block \ m.bmap
    BY <2>4, FreeThere
  <2>8. CASE RoomIn(m, Root, n) # 0
    <3>1. ln_s(d, from, to) = Outcome(WithEntry(m, Root, i, n, "lnk"), "OK")
      BY <1>5, <1>9, <2>8 DEF m
    <3>2. Image(WithEntry(m, Root, i, n, "lnk"))
      BY <2>6, <2>8
    <3> QED
      BY <1>3, <3>1, <3>2 DEF Results
  <2>9. CASE RoomIn(m, Root, n) = 0 /\ find_free_block(m) = 0
    <3>1. ln_s(d, from, to) = Outcome(FreeInodes(FreeBlocks(m, {b}), {i}), "ENOSPC")
      BY <1>5, <1>9, <2>9 DEF m
    <3>2. Image(FreeInodes(FreeBlocks(m, {b}), {i}))
      <4> DEFINE B == {b}
      <4>1. B \cap m.bmap = m.bmap \ d.bmap /\ d.bmap \subseteq m.bmap
        BY <2>1, <2>4
      <4> HIDE DEF B
      <4>2. Image(FreeInodes(FreeBlocks(m, B), {i}))
        BY <2>4, <4>1, Undone
      <4> QED
        BY <4>2 DEF B
    <3> QED
      BY <1>3, <3>1, <3>2 DEF Results
  <2>10. CASE RoomIn(m, Root, n) = 0 /\ find_free_block(m) # 0
    <3>1. FreeSlot(m, Root) # 0
      BY <2>6, <2>10 DEF Room, Slot, n
    <3>2. ln_s(d, from, to) =
            Outcome(WithBlock(MarkBlock(m, find_free_block(m)), Root, find_free_block(m), i, n, TypeOf(d, from)), "OK")
      BY <1>5, <1>9, <2>10, <3>1 DEF m
    <3>3. Image(WithBlock(MarkBlock(m, find_free_block(m)), Root, find_free_block(m), i, n, TypeOf(d, from)))
      BY <2>2, <2>6, <2>7, <2>10, <3>1
    <3> QED
      BY <1>3, <3>2, <3>3 DEF Results
  <2> QED
    BY <2>8, <2>9, <2>10
<1> QED
  BY <1>7, <1>8, <1>9

\* read_symbolic_link returns what is no link.
LEMMA ResolvedIs ==
  ASSUME NEW d, NEW path, InodeOf(d, path) # 0, d.inode[InodeOf(d, path)].i_mode # "lnk"
  PROVE  Resolved(d, path) = InodeOf(d, path)
<1> DEFINE N == Cardinality(Inode)
           i == InodeOf(d, path)
           IsLink(x) == x # 0 /\ d.inode[x].i_mode = "lnk"
           Follows(H) == H = [k \in 0 .. N |-> IF k = 0 THEN i
                               ELSE IF IsLink(H[k - 1]) THEN InodeOf(d, d.inode[H[k - 1]].target) ELSE H[k - 1]]
           Hop == CHOOSE H : Follows(H)
<1>1. Resolved(d, path) = Hop[N]
  BY DEF Resolved
<1>2. N \in Nat
  BY DiskAssumption, FS_CardinalityType
<1>3. ~ IsLink(i)
  OBVIOUS
<1> HIDE DEF N, i, IsLink
<1>4. \E H : Follows(H)
  <2> DEFINE G == [k \in 0 .. N |-> i]
  <2>1. \A k \in 0 .. N : G[k] = i /\ (k # 0 => G[k - 1] = i)
    BY <1>2
  <2>2. \A k \in 0 .. N : i = IF k = 0 THEN i
                             ELSE IF IsLink(G[k - 1]) THEN InodeOf(d, d.inode[G[k - 1]].target) ELSE G[k - 1]
    <3> SUFFICES ASSUME NEW k \in 0 .. N, k # 0
                 PROVE  i = IF IsLink(G[k - 1]) THEN InodeOf(d, d.inode[G[k - 1]].target) ELSE G[k - 1]
      OBVIOUS
    <3>1. G[k - 1] = i
      BY <2>1
    <3> HIDE DEF G
    <3> QED
      BY <1>3, <3>1
  <2>3. Follows(G)
    BY <2>2
  <2> QED
    BY <2>3
<1>5. Follows(Hop)
  BY <1>4
<1> HIDE DEF Hop
<1>6. \A k \in 0 .. N : Hop[k] = IF k = 0 THEN i
        ELSE IF IsLink(Hop[k - 1]) THEN InodeOf(d, d.inode[Hop[k - 1]].target) ELSE Hop[k - 1]
  BY <1>5
<1>7. \A k \in 0 .. N : Hop[k] = i
  <2> DEFINE Bad == {k \in 0 .. N : Hop[k] # i}
  <2> SUFFICES ASSUME Bad # {} PROVE FALSE
    OBVIOUS
  <2>1. Bad \in SUBSET Nat
    OBVIOUS
  <2>2. PICK k \in Bad : \A j \in Nat : j < k => j \notin Bad
    BY <2>1, Smallest
  <2>3. k \in 0 .. N /\ Hop[k] # i /\ k # 0
    BY <1>2, <1>6
  <2>4. k - 1 \in 0 .. N /\ k - 1 < k /\ k - 1 \in Nat
    BY <1>2, <2>3
  <2>5. Hop[k - 1] = i
    BY <2>2, <2>4
  <2> QED
    BY <1>3, <1>6, <2>3, <2>5
<1> QED
  BY <1>1, <1>2, <1>7 DEF i

\* A link more to a file, for a name that it has not got.
LEMMA LinkMore ==
  ASSUME NEW d, Image(d), NEW i \in Marked(d), NEW m, m = Linked(d, i, 1)
  PROVE  /\ Counted(m) /\ m.bmap = d.bmap /\ m.bfree = d.bfree /\ m.data = d.data
         /\ Sound(m, i) /\ i \in Marked(m) /\ Dirs(m) = Dirs(d)
         /\ \A q \in Dirs(d) : Listed(d, m, q)
         /\ \A q \in Marked(d) : m.inode[q].i_block = d.inode[q].i_block
<1> DEFINE g == Recounted(d.inode[i], 1)
<1>1. Own(d) /\ Typed(d) /\ Counted(d) /\ Linking(d, 0)
  BY DEF Image, Sound, Own, Typed
<1>2. /\ i \in Inode \cup {Root} /\ 0 \notin Marked(d) /\ Marked(d) \subseteq Inode \cup {Root}
      /\ d.inode \in [Inode \cup {Root} -> InodeRecord]
  BY <1>1, NoNumberZero DEF Typed
<1>3. /\ Counted(m) /\ m.imap = d.imap /\ m.bmap = d.bmap /\ m.bfree = d.bfree
      /\ m.data = d.data /\ m.word = d.word
      /\ m.inode = [d.inode EXCEPT ![i] = g] /\ m.inode[i] = g
      /\ \A j \in Inode \cup {Root} : j # i => m.inode[j] = d.inode[j]
  BY <1>1, <1>2, LinkedIs
<1>4. d.inode[i] \in InodeRecord
  BY <1>2
<1>5. /\ g \in InodeRecord /\ SameInode(g, d.inode[i])
      /\ g.i_links_count = (d.inode[i].i_links_count + 1) % CountLimit
  BY <1>4, CountChanged
<1> HIDE DEF g
<1>6. Typed(m)
  <2>1. m.inode \in [Inode \cup {Root} -> InodeRecord]
    BY <1>2, <1>3, <1>5
  <2> QED
    BY <1>1, <1>3, <2>1 DEF Typed
<1>7. \A j \in Marked(d) : SameInode(m.inode[j], d.inode[j])
  BY <1>2, <1>3, <1>5 DEF SameInode
<1> DEFINE G == {}
<1>8. Kept(d, m, G)
  <2>1. \A b \in m.bmap : KeepsDots(m.data[b], d.data[b])
    <3> SUFFICES ASSUME NEW b \in m.bmap PROVE KeepsDots(m.data[b], d.data[b])
      OBVIOUS
    <3>1. m.data[b] = d.data[b] /\ (d.data[b] = <<>> \/ GoodBlock(d.data[b]))
      BY <1>1, <1>3 DEF Typed, Counted
    <3>2. d.data[b] # <<>> => Len(d.data[b]) \in Nat
      BY <3>1, GoodFacts
    <3> QED
      BY <3>1, <3>2 DEF KeepsDots
  <2>2. \A j \in Marked(m) : SameInode(m.inode[j], d.inode[j])
    BY <1>3, <1>7 DEF Marked
  <2>3. m.imap = d.imap \ G /\ G \subseteq d.imap /\ m.bmap = d.bmap \ {Held(d, x, v) : x \in G, v \in Spot}
    BY <1>3
  <2>4. m.word = d.word
    BY <1>3
  <2> HIDE DEF G
  <2> QED
    BY <2>1, <2>2, <2>3, <2>4 DEF Kept
<1> HIDE DEF G
<1>9. /\ Own(m) /\ Marked(m) = Marked(d) \ G
      /\ \A p \in Marked(m) : /\ BlocksOf(m, p) = BlocksOf(d, p)
                              /\ m.inode[p].i_mode = d.inode[p].i_mode
      /\ \A p \in Dirs(m) : Above(m, p) = Above(d, p)
  BY <1>1, <1>6, <1>8, OwnKept
<1>10. Marked(m) = Marked(d)
  BY <1>9 DEF G
<1>11. Dirs(m) = Dirs(d)
  BY <1>9, <1>10 DEF Dirs
<1>12. \A q \in Dirs(d) : Listed(d, m, q)
  <2> SUFFICES ASSUME NEW q \in Dirs(d) PROVE Listed(d, m, q)
    OBVIOUS
  <2>1. BlocksOf(m, q) = BlocksOf(d, q) /\ \A b \in BlocksOf(d, q) : m.data[b] = d.data[b]
    BY <1>3, <1>9, <1>10 DEF Dirs
  <2> QED
    BY <2>1, ListedSame
<1>13. ASSUME NEW j \in Marked(d)
       PROVE  m.inode[j].i_links_count = Cardinality(Named(d, j)) + (IF j = i THEN 1 ELSE 0)
  <2>1. d.inode[j].i_links_count = Cardinality(Named(d, j)) + 0
    BY <1>1, <1>2 DEF Linking
  <2>2. Cardinality(Named(d, j)) \in Nat /\ Cardinality(Named(d, j)) + 1 < CountLimit
    BY <1>1, NamedBound
  <2> DEFINE c == Cardinality(Named(d, j))
  <2>3. c \in Nat /\ c + 1 < CountLimit /\ d.inode[j].i_links_count = c
    BY <2>1, <2>2
  <2> HIDE DEF c
  <2>4. CASE j = i
    <3>1. m.inode[j].i_links_count = (c + 1) % CountLimit
      BY <1>3, <1>5, <2>3, <2>4
    <3>2. (c + 1) % CountLimit = c + 1
      BY <2>3 DEF CountLimit
    <3> QED
      BY <2>3, <2>4, <3>1, <3>2 DEF c
  <2>5. CASE j # i
    <3>1. m.inode[j] = d.inode[j]
      BY <1>2, <1>3, <2>5
    <3> QED
      BY <2>3, <2>5, <3>1 DEF c
  <2> QED
    BY <2>4, <2>5
<1>14. Linking(m, i)
  <2> DEFINE o == 0
  <2>1. Linking(d, o) /\ o = 0 /\ 0 \notin Marked(d)
    BY <1>1, <1>2
  <2>2. \A p \in Dirs(d) : Listed(d, m, p) /\ Above(m, p) = Above(d, p)
    BY <1>9, <1>11, <1>12
  <2> HIDE DEF o
  <2> QED
    BY <1>10, <1>11, <1>13, <2>1, <2>2, LinkSame
<1>15. \A q \in Marked(d) : m.inode[q].i_block = d.inode[q].i_block
  BY <1>7 DEF SameInode
<1> QED
  BY <1>3, <1>9, <1>10, <1>11, <1>12, <1>14, <1>15 DEF Sound

\* What ln leaves.
LEMMA LnKeeps ==
  ASSUME NEW d, Image(d), NEW from \in Path, NEW to \in Path,
         Exists(d, from) => d.inode[InodeOf(d, from)].i_mode # "lnk",
         Parent(d, to) # 0 => /\ Fits(d, Parent(d, to), FileName(to))
                              /\ Room(d, Parent(d, to), FileName(to)) \/ d.bfree = 0
  PROVE  Image(ln(d, from, to).disk) /\ ln(d, from, to).result \in Results
<1> DEFINE n    == FileName(to)
           p    == Parent(d, to)
           i    == InodeOf(d, from)
           m    == Linked(d, i, 1)
           c    == find_free_block(d)
           err  == LinkError(d, from, to)
<1>1. Sound(d, 0) /\ Counted(d)
  BY DEF Image, Sound, Own, Typed
<1>3. \A e, r : Outcome(e, r).disk = e /\ Outcome(e, r).result = r
  BY DEF Outcome
<1>4. CASE err # "OK"
  <2>1. ln(d, from, to) = Outcome(d, err)
    BY <1>4 DEF ln
  <2> QED
    BY <1>3, <2>1, LinkErrorFacts
<1>5. CASE err = "OK"
  <2>1. /\ Exists(d, from) /\ i \in Marked(d) \ {0} /\ i \notin Dirs(d) /\ p \in Dirs(d) /\ ~ Exists(d, to)
    BY <1>5, LinkErrorFacts
  <2>2. Resolved(d, from) = i /\ i # 0 /\ d.inode[i].i_mode # "lnk" /\ p # 0
    BY <1>1, <2>1, ResolvedIs, NoNumberZero DEF Sound, Own
  <2>3. ln(d, from, to) = IF RoomIn(d, p, n) # 0 THEN Outcome(WithEntry(m, p, i, n, "reg"), "OK")
                          ELSE IF c = 0 THEN Outcome(d, "ENOSPC")
                          ELSE ln(d, from, to)
    BY <1>5, <2>2 DEF ln
  <2>4. CASE RoomIn(d, p, n) # 0
    <3>1. p = Parent(d, to) /\ i \in Marked(d) /\ m = Linked(d, i, 1)
      BY <2>1
    <3>2. Fits(d, p, FileName(to))
      BY <2>2
    <3> HIDE DEF p, i, m, n
    <3>3. /\ Sound(m, i) /\ i \in Marked(m) /\ Dirs(m) = Dirs(d) /\ m.data = d.data
          /\ \A q \in Dirs(d) : Listed(d, m, q)
          /\ \A q \in Marked(d) : m.inode[q].i_block = d.inode[q].i_block
      BY <3>1, LinkMore
    <3> DEFINE type == "reg"
    <3>4. type \in {"dir", "reg", "lnk"} /\ (type = "dir" <=> i \in Dirs(m))
      BY <2>1, <3>3
    <3>5. m.inode[p].i_block = d.inode[p].i_block /\ \A x \in BlocksOf(d, p) : m.data[x] = d.data[x]
      BY <2>1, <3>3 DEF Dirs
    <3>6. i \notin Dirs(m)
      BY <2>1, <3>3
    <3> HIDE DEF type
    <3>7. /\ RoomIn(m, p, n) = RoomIn(d, p, n)
          /\ RoomIn(m, p, n) # 0 => Image(WithEntry(m, p, i, n, type))
      BY <2>1, <3>1, <3>2, <3>3, <3>4, <3>5, <3>6, NameAdded DEF n
    <3> QED
      BY <1>3, <2>3, <2>4, <3>7 DEF Results, type
  <2>5. CASE RoomIn(d, p, n) = 0
    <3>1. d.bfree = 0
      BY <2>2, <2>5 DEF Room
    <3>2. c = 0
      BY <1>1, <3>1, FreeThere
    <3> QED
      BY <1>3, <2>3, <2>5, <3>2 DEF Results
  <2> QED
    BY <2>4, <2>5
<1> QED
  BY <1>4, <1>5

-----------------------------------------------------------------------------
(* ext2_cp: the blocks that a file of k blocks takes, in the order of their     *)
(* numbers.                                                                    *)
Rank(S, b)      == Cardinality({c \in S : c < b})
FirstOf(S, n)   == {b \in S : Rank(S, b) < n}
Nth(B, t)       == First({b \in B : Rank(B, b) = t - 1})

\* A later number has more numbers before it.
LEMMA RankLess ==
  ASSUME NEW S \in SUBSET Nat, IsFiniteSet(S), NEW b \in S
  PROVE  /\ Rank(S, b) \in Nat /\ Rank(S, b) < Cardinality(S) /\ Cardinality(S) \in Nat
         /\ \A c \in S : c < b => Rank(S, c) < Rank(S, b)
<1> DEFINE L(c) == {x \in S : x < c}
<1>1. \A c \in S : L(c) \in SUBSET S /\ IsFiniteSet(L(c)) /\ Cardinality(L(c)) \in Nat /\ Cardinality(S) \in Nat
  <2> SUFFICES ASSUME NEW c \in S
               PROVE  /\ L(c) \in SUBSET S /\ IsFiniteSet(L(c))
                      /\ Cardinality(L(c)) \in Nat /\ Cardinality(S) \in Nat
    OBVIOUS
  <2>1. L(c) \in SUBSET S
    OBVIOUS
  <2> HIDE DEF L
  <2> QED
    BY <2>1, FS_Subset, FS_CardinalityType
<1>2. b \notin L(b) /\ b \in Nat
  OBVIOUS
<1>3. ASSUME NEW c \in S, c < b PROVE L(c) \in SUBSET L(b) /\ c \in L(b) /\ c \notin L(c)
  <2>1. c \in Nat /\ b \in Nat /\ c < b /\ \A x \in S : x \in Nat
    BY <1>3
  <2>2. \A x \in S : x < c => x < b
    BY <2>1
  <2>3. ~ (c < c)
    BY <2>1
  <2> QED
    BY <1>3, <2>2, <2>3
<1>4. \A c \in S : Rank(S, c) = Cardinality(L(c))
  BY DEF Rank
<1> HIDE DEF L
<1>5. Cardinality(L(b)) < Cardinality(S)
  <2>1. Cardinality(L(b)) <= Cardinality(S) /\ Cardinality(L(b)) # Cardinality(S)
    BY <1>1, <1>2, FS_Subset
  <2> QED
    BY <1>1, <2>1
<1>6. ASSUME NEW c \in S, c < b PROVE Cardinality(L(c)) < Cardinality(L(b))
  <2>1. Cardinality(L(c)) <= Cardinality(L(b)) /\ Cardinality(L(c)) # Cardinality(L(b))
    BY <1>1, <1>3, <1>6, FS_Subset
  <2> QED
    BY <1>1, <2>1
<1> QED
  BY <1>1, <1>4, <1>5, <1>6

\* The n smallest numbers of a set, counted among themselves.
LEMMA Ranks ==
  ASSUME NEW S \in SUBSET Nat, IsFiniteSet(S), NEW n \in Nat, n <= Cardinality(S)
  PROVE  LET B == FirstOf(S, n) IN
         /\ \A b \in B : Rank(B, b) \in Nat /\ Rank(B, b) < n
         /\ \A b, c \in B : Rank(B, b) = Rank(B, c) => b = c
         /\ \A t \in Nat : t < n => \E b \in B : Rank(B, b) = t
<1> DEFINE B == FirstOf(S, n)
<1>1. \A b \in S : Rank(S, b) \in Nat /\ Rank(S, b) < Cardinality(S)
  BY RankLess
<1>2. \A b, c \in S : c < b => Rank(S, c) < Rank(S, b)
  BY RankLess
<1>3. \A b, c \in S : Rank(S, b) = Rank(S, c) => b = c
  <2> SUFFICES ASSUME NEW b \in S, NEW c \in S, Rank(S, b) = Rank(S, c), b # c PROVE FALSE
    OBVIOUS
  <2>1. b < c \/ c < b
    OBVIOUS
  <2> QED
    BY <1>1, <1>2, <2>1
<1>4. \A b \in B : b \in S /\ Rank(S, b) < n
  BY DEF FirstOf
<1> HIDE DEF B
<1>5. \A b \in B : Rank(B, b) = Rank(S, b)
  <2> SUFFICES ASSUME NEW b \in B PROVE Rank(B, b) = Rank(S, b)
    OBVIOUS
  <2>1. ASSUME NEW c \in S, c < b PROVE c \in B
    <3>1. Rank(S, c) < Rank(S, b) /\ Rank(S, b) < n /\ Rank(S, c) \in Nat /\ Rank(S, b) \in Nat
      BY <1>1, <1>2, <1>4, <2>1
    <3>2. Rank(S, c) < n
      BY <3>1
    <3> QED
      BY <3>2 DEF FirstOf, B
  <2>2. {c \in B : c < b} = {c \in S : c < b}
    BY <1>4, <2>1
  <2> QED
    BY <2>2 DEF Rank
<1> DEFINE N == Cardinality(S)
           T == 0 .. N - 1
           f == [b \in S |-> Rank(S, b)]
<1>6. N \in Nat /\ IsFiniteSet(T) /\ Cardinality(T) = N
  <2>1. N \in Nat
    BY FS_CardinalityType
  <2> HIDE DEF N
  <2>2. 0 \in Int /\ N - 1 \in Int
    BY <2>1
  <2>3. IsFiniteSet(0 .. N - 1) /\ Cardinality(0 .. N - 1) = IF 0 > N - 1 THEN 0 ELSE N - 1 - 0 + 1
    BY <2>2, FS_Interval
  <2> QED
    BY <2>1, <2>3
<1>7. f \in Injection(S, T)
  <2>1. f \in [S -> T]
    BY <1>1, <1>6
  <2> QED
    BY <1>3, <2>1 DEF Injection, IsInjective
<1>8. f \in Surjection(S, T)
  <2> HIDE DEF f, T
  <2> QED
    BY <1>6, <1>7, FS_Injection
<1>9. \A t \in T : \E b \in S : Rank(S, b) = t
  BY <1>8 DEF Surjection
<1>10. ASSUME NEW t \in Nat, t < n PROVE \E b \in B : Rank(B, b) = t
  <2>1. t \in T
    BY <1>6, <1>10
  <2>2. PICK b \in S : Rank(S, b) = t
    BY <1>9, <2>1
  <2>3. b \in B
    BY <1>10, <2>2 DEF FirstOf, B
  <2> QED
    BY <1>5, <2>2, <2>3
<1> HIDE DEF N, T, f
<1>11. \A b \in B : Rank(B, b) \in Nat /\ Rank(B, b) < n
  BY <1>1, <1>4, <1>5
<1>12. \A b, c \in B : Rank(B, b) = Rank(B, c) => b = c
  BY <1>3, <1>4, <1>5
<1> QED
  BY <1>10, <1>11, <1>12 DEF B

\* So they can be taken one by one.
LEMMA Nths ==
  ASSUME NEW S \in SUBSET Nat, IsFiniteSet(S), NEW n \in Nat, n <= Cardinality(S),
         NEW B, B = FirstOf(S, n)
  PROVE  /\ B \subseteq S
         /\ \A t \in 1 .. n : Nth(B, t) \in B
         /\ \A t \in Nat : t > n => Nth(B, t) = 0
         /\ \A t, u \in 1 .. n : Nth(B, t) = Nth(B, u) => t = u
         /\ \A b \in B : \E t \in 1 .. n : Nth(B, t) = b
<1>1. /\ \A b \in B : Rank(B, b) \in Nat /\ Rank(B, b) < n
      /\ \A b, c \in B : Rank(B, b) = Rank(B, c) => b = c
      /\ \A t \in Nat : t < n => \E b \in B : Rank(B, b) = t
  BY Ranks
<1>2. B \subseteq S
  BY DEF FirstOf
<1> DEFINE X(t) == {b \in B : Rank(B, b) = t - 1}
<1>3. ASSUME NEW t \in 1 .. n PROVE Nth(B, t) \in B /\ Rank(B, Nth(B, t)) = t - 1
  <2>1. t - 1 \in Nat /\ t - 1 < n
    OBVIOUS
  <2>2. X(t) # {} /\ X(t) \in SUBSET Nat
    BY <1>1, <1>2, <2>1
  <2>3. Nth(B, t) = Min(X(t))
    BY <2>2 DEF Nth, First
  <2>4. Min(X(t)) \in X(t)
    <3> HIDE DEF X
    <3> QED
      BY <2>2, MinOfNaturals
  <2> QED
    BY <2>3, <2>4
<1>4. ASSUME NEW t \in Nat, t > n PROVE Nth(B, t) = 0
  <2>1. X(t) = {}
    BY <1>1, <1>4
  <2> QED
    BY <2>1 DEF Nth, First
<1>5. ASSUME NEW t \in 1 .. n, NEW u \in 1 .. n, Nth(B, t) = Nth(B, u) PROVE t = u
  BY <1>3, <1>5
<1>6. ASSUME NEW b \in B PROVE \E t \in 1 .. n : Nth(B, t) = b
  <2>1. Rank(B, b) + 1 \in 1 .. n
    BY <1>1
  <2>2. Rank(B, Nth(B, Rank(B, b) + 1)) = Rank(B, b) /\ Nth(B, Rank(B, b) + 1) \in B
    BY <1>1, <1>3, <2>1
  <2> QED
    BY <1>1, <2>1, <2>2
<1> QED
  BY <1>2, <1>3, <1>4, <1>5, <1>6

\* What Written makes of the blocks B: the inode, and the words of its blocks.
Copy(B, k) ==
  [FreshInode("reg", 1) EXCEPT !.i_size = k,
     !.i_block = [s \in 1 .. Slots |-> IF s <= Direct + 1 THEN Nth(B, s) ELSE 0]]
Words(B, k, b, old) ==
  IF k > Direct /\ b = Nth(B, Direct + 1)
  THEN [w \in 1 .. Ptrs |-> IF Direct + w <= k THEN Nth(B, Direct + 1 + w) ELSE old[w]]
  ELSE Bytes
Emptied(data, B)     == [b \in DOMAIN data |-> IF b \in B THEN <<>> ELSE data[b]]
Reworded(word, B, k) == [b \in DOMAIN word |-> IF b \in B THEN Words(B, k, b, word[b]) ELSE word[b]]
NewBlocks(d, k) == FirstOf(Block \ d.bmap, BlocksTaken(k))

\* Written, field by field.
LEMMA WrittenFields ==
  ASSUME NEW d, Counted(d), NEW i, NEW k, NEW e, e = Written(d, i, k), NEW B, B = NewBlocks(d, k)
  PROVE  /\ Counted(e) /\ e.imap = d.imap /\ e.bmap = d.bmap \cup B
         /\ e.inode = [d.inode EXCEPT ![i] = Copy(B, k)]
         /\ e.data = Emptied(d.data, B) /\ e.word = Reworded(d.word, B, k)
<1> DEFINE n == Cardinality(B)
           D == [b \in DOMAIN d.data |-> IF b \in B THEN <<>> ELSE d.data[b]]
           W == [b \in DOMAIN d.word |-> IF b \in B THEN Words(B, k, b, d.word[b]) ELSE d.word[b]]
           I == [d.inode EXCEPT ![i] = Copy(B, k)]
<1>1. Counted(e)
  BY WrittenCounted
<1>2. e = [d EXCEPT !.bmap = @ \cup B, !.bfree = @ - n, !.data = D, !.word = W, !.inode = I]
  BY DEF Written, NewBlocks, FirstOf, Rank, Nth, Words, Copy
<1> HIDE DEF n, D, W, I
<1>3. e.imap = d.imap /\ e.bmap = d.bmap \cup B /\ e.inode = I /\ e.data = D /\ e.word = W
  <2>1. DOMAIN d = Fields
    BY DEF Counted
  <2> QED
    BY <1>2, <2>1 DEF Fields
<1> QED
  BY <1>1, <1>3 DEF D, W, I, Emptied, Reworded

\* The inode that Written makes.
LEMMA CopyIs ==
  ASSUME NEW B, NEW k \in 0 .. Direct + Ptrs, \A t \in Nat : Nth(B, t) \in Block \cup {0}
  PROVE  LET f == Copy(B, k) IN
         /\ f \in InodeRecord
         /\ f.i_mode = "reg" /\ f.i_links_count = 1 /\ f.i_size = k
         /\ \A s \in 1 .. Slots : f.i_block[s] = IF s <= Direct + 1 THEN Nth(B, s) ELSE 0
<1> DEFINE g == FreshInode("reg", 1)
           F == [s \in 1 .. Slots |-> IF s <= Direct + 1 THEN Nth(B, s) ELSE 0]
           f == Copy(B, k)
<1>1. /\ g \in InodeRecord /\ g.i_mode = "reg" /\ g.i_links_count = 1
  BY FreshIs
<1>2. f = [g EXCEPT !.i_size = k, !.i_block = F]
  BY DEF Copy
<1>3. F \in [1 .. Slots -> Block \cup {0}]
  <2>1. \A s \in 1 .. Slots : s \in Nat
    BY SpotFacts
  <2> QED
    BY <2>1
<1>4. \A s \in 1 .. Slots : F[s] = IF s <= Direct + 1 THEN Nth(B, s) ELSE 0
  OBVIOUS
<1> HIDE DEF F, g, f
<1> QED
  BY <1>1, <1>2, <1>3, <1>4 DEF InodeRecord, f

\* The number of the block that spot v of a file of k blocks holds: too large for
\* none.
Place(v, k) ==
  IF v <= Direct + 1 THEN v
  ELSE IF v > Slots /\ Direct + (v - Slots) <= k THEN Direct + 1 + (v - Slots)
  ELSE BlocksTaken(k) + 1

\* Where the blocks of a file of k blocks come in the order they are taken.
LEMMA PlaceFacts ==
  ASSUME NEW k \in 0 .. Direct + Ptrs
  PROVE  LET n == BlocksTaken(k) IN
         /\ n \in Nat /\ n >= k
         /\ \A v \in Spot : Place(v, k) \in Nat /\ Place(v, k) >= 1
         /\ \A u, v \in Spot : Place(u, k) = Place(v, k) /\ Place(u, k) <= n => u = v
         /\ \A t \in 1 .. n : \E v \in Spot : Place(v, k) = t
         /\ \A s \in 1 .. Direct + 1 : s <= n <=> s <= k
         /\ k > Direct => Direct + 1 <= n /\ \A w \in 1 .. Ptrs : Direct + w <= k => Direct + 1 + w <= n
<1> DEFINE n == BlocksTaken(k)
<1>1. Direct \in Nat /\ Direct >= 1 /\ Slots \in Nat /\ Slots > Direct /\ Ptrs \in Nat /\ k \in Nat
  BY SpotFacts
<1>2. n = IF k > Direct THEN k + 1 ELSE k
  BY DEF BlocksTaken
<1> HIDE DEF n
<1>3. ASSUME NEW v \in Spot
      PROVE  /\ v \in Nat /\ v >= 1 /\ v <= Slots + Ptrs
             /\ Place(v, k) = IF v <= Direct + 1 THEN v
                              ELSE IF v > Slots /\ Direct + (v - Slots) <= k THEN Direct + 1 + (v - Slots)
                              ELSE n + 1
  BY <1>1 DEF Spot, Place, n
<1>4. ASSUME NEW t \in 1 .. n PROVE \E v \in Spot : Place(v, k) = t
  <2>1. CASE t <= Direct + 1
    <3>1. t \in Spot
      BY <1>1, <1>2, <2>1 DEF Spot
    <3> QED
      BY <1>3, <2>1, <3>1
  <2>2. CASE t > Direct + 1
    <3> DEFINE v == Slots + (t - Direct - 1)
    <3>1. v \in Spot /\ v > Slots /\ v - Slots = t - Direct - 1 /\ ~ (v <= Direct + 1)
      BY <1>1, <1>2, <2>2 DEF Spot
    <3>2. Direct + (v - Slots) <= k /\ Direct + 1 + (v - Slots) = t
      BY <1>1, <1>2, <2>2
    <3> HIDE DEF v
    <3> QED
      BY <1>3, <3>1, <3>2
  <2> QED
    BY <1>1, <1>2, <2>1, <2>2
<1>5. ASSUME NEW u \in Spot, NEW v \in Spot, Place(u, k) = Place(v, k), Place(u, k) <= n PROVE u = v
  <2> DEFINE q == Place(u, k)
             w == u - Slots
             x == v - Slots
  <2>1. /\ u \in Nat /\ v \in Nat /\ q = Place(v, k) /\ q <= n /\ w = u - Slots /\ x = v - Slots
        /\ q = IF u <= Direct + 1 THEN u
               ELSE IF u > Slots /\ Direct + w <= k THEN Direct + 1 + w ELSE n + 1
        /\ q = IF v <= Direct + 1 THEN v
               ELSE IF v > Slots /\ Direct + x <= k THEN Direct + 1 + x ELSE n + 1
    BY <1>3, <1>5
  <2> HIDE DEF q, w, x
  <2>2. n \in Nat
    BY <1>1, <1>2
  <2>3. u <= Direct + 1 \/ (u > Slots /\ q = Direct + 1 + w)
    BY <1>1, <2>1, <2>2
  <2>4. v <= Direct + 1 \/ (v > Slots /\ q = Direct + 1 + x)
    BY <1>1, <2>1, <2>2
  <2> QED
    BY <1>1, <2>1, <2>3, <2>4
<1>6. \A v \in Spot : Place(v, k) \in Nat /\ Place(v, k) >= 1
  BY <1>1, <1>2, <1>3
<1>7. /\ n \in Nat /\ n >= k /\ \A s \in 1 .. Direct + 1 : s <= n <=> s <= k
      /\ k > Direct => Direct + 1 <= n /\ \A w \in 1 .. Ptrs : Direct + w <= k => Direct + 1 + w <= n
  BY <1>1, <1>2
<1> QED
  BY <1>4, <1>5, <1>6, <1>7 DEF n

\* The words of new blocks are words.
LEMMA WordsTyped ==
  ASSUME NEW B, NEW k, NEW b, NEW old \in [1 .. Ptrs -> Block \cup {0, Junk}],
         \A t \in Nat : Nth(B, t) \in Block \cup {0}
  PROVE  Words(B, k, b, old) \in [1 .. Ptrs -> Block \cup {0, Junk}]
<1>1. \A w \in 1 .. Ptrs : Direct + 1 + w \in Nat
  BY SpotFacts
<1>2. Bytes \in [1 .. Ptrs -> Block \cup {0, Junk}]
  BY DEF Bytes
<1>3. [w \in 1 .. Ptrs |-> IF Direct + w <= k THEN Nth(B, Direct + 1 + w) ELSE old[w]]
        \in [1 .. Ptrs -> Block \cup {0, Junk}]
  BY <1>1
<1> QED
  BY <1>2, <1>3 DEF Words

\* Inode i is written as a file of k blocks.
LEMMA WrittenIs ==
  ASSUME NEW d, Typed(d), NEW i \in Inode, NEW k \in 0 .. Direct + Ptrs,
         BlocksTaken(k) <= Cardinality(Block \ d.bmap), NEW e, e = Written(d, i, k)
  PROVE  /\ Typed(e) /\ e.imap = d.imap /\ d.bmap \subseteq e.bmap
         /\ \A j \in Inode \cup {Root} : j # i => e.inode[j] = d.inode[j]
         /\ e.inode[i].i_mode = "reg" /\ e.inode[i].i_links_count = 1 /\ e.inode[i].i_size = k
         /\ \A b \in d.bmap \cup {0} : e.word[b] = d.word[b] /\ e.data[b] = d.data[b]
         /\ \A b \in e.bmap \ d.bmap : e.data[b] = <<>>
         /\ \A v \in Spot : Held(e, i, v) = Nth(NewBlocks(d, k), Place(v, k))
         /\ e.bmap \ d.bmap = NewBlocks(d, k)
         /\ \A v \in Spot : Held(e, i, v) \in (e.bmap \ d.bmap) \cup {0}
         /\ \A u, v \in Spot : Held(e, i, u) = Held(e, i, v) /\ Held(e, i, u) # 0 => u = v
         /\ \A b \in e.bmap \ d.bmap : \E v \in Spot : Held(e, i, v) = b
         /\ \A v \in Spot : Held(e, i, v) # 0 <=> Place(v, k) <= BlocksTaken(k)
<1> DEFINE S == Block \ d.bmap
           n == BlocksTaken(k)
           B == NewBlocks(d, k)
           f == Copy(B, k)
<1>1. Counted(d) /\ d.bmap \subseteq Block /\ 0 \notin Block /\ d.inode \in [Inode \cup {Root} -> InodeRecord]
      /\ DOMAIN d.data = Block \cup {0} /\ d.word \in [Block \cup {0} -> [1 .. Ptrs -> Block \cup {0, Junk}]]
  BY DiskAssumption DEF Typed, Counted
<1>2. S \in SUBSET Nat /\ IsFiniteSet(S) /\ n <= Cardinality(S) /\ 0 \notin S
  <2>1. S \in SUBSET Block /\ IsFiniteSet(Block) /\ Block \in SUBSET Nat
    BY DiskAssumption
  <2>2. IsFiniteSet(S)
    BY <2>1, FS_Subset
  <2> QED
    BY <1>1, <2>1, <2>2
<1>3. /\ n \in Nat
      /\ \A v \in Spot : Place(v, k) \in Nat /\ Place(v, k) >= 1
      /\ \A u, v \in Spot : Place(u, k) = Place(v, k) /\ Place(u, k) <= n => u = v
      /\ \A t \in 1 .. n : \E v \in Spot : Place(v, k) = t
      /\ k > Direct => Direct + 1 <= n /\ \A w \in 1 .. Ptrs : Direct + w <= k => Direct + 1 + w <= n
  BY PlaceFacts
<1>4. B = FirstOf(S, n)
  BY DEF NewBlocks
<1> HIDE DEF S, n, B
<1>5. /\ B \subseteq S
      /\ \A t \in 1 .. n : Nth(B, t) \in B
      /\ \A t \in Nat : t > n => Nth(B, t) = 0
      /\ \A t, u \in 1 .. n : Nth(B, t) = Nth(B, u) => t = u
      /\ \A b \in B : \E t \in 1 .. n : Nth(B, t) = b
  BY <1>2, <1>3, <1>4, Nths
<1>6. B \subseteq Block /\ B \cap d.bmap = {} /\ 0 \notin B
  BY <1>1, <1>5 DEF S
<1>7. \A t \in Nat : t >= 1 => Nth(B, t) \in B \cup {0} /\ (Nth(B, t) # 0 <=> t <= n)
  <2> SUFFICES ASSUME NEW t \in Nat, t >= 1
               PROVE  Nth(B, t) \in B \cup {0} /\ (Nth(B, t) # 0 <=> t <= n)
    OBVIOUS
  <2>1. CASE t <= n
    <3>1. t \in 1 .. n
      BY <1>3, <2>1
    <3> QED
      BY <1>5, <1>6, <2>1, <3>1
  <2>2. CASE ~ (t <= n)
    <3>1. t > n
      BY <1>3, <2>2
    <3> QED
      BY <1>5, <2>2, <3>1
  <2> QED
    BY <2>1, <2>2
<1>8. \A t \in Nat : Nth(B, t) \in Block \cup {0}
  <2> SUFFICES ASSUME NEW t \in Nat PROVE Nth(B, t) \in Block \cup {0}
    OBVIOUS
  <2>1. CASE t >= 1
    BY <1>6, <1>7, <2>1
  <2>2. CASE t = 0
    <3>1. {b \in B : Rank(B, b) = 0 - 1} = {}
      <4>1. B \in SUBSET Nat /\ IsFiniteSet(B)
        <5>1. B \in SUBSET S
          BY <1>5
        <5> QED
          BY <1>2, <5>1, FS_Subset
      <4>2. \A b \in B : Rank(B, b) \in Nat
        BY <4>1, RankLess
      <4> QED
        BY <4>2
    <3>2. Nth(B, t) = First({b \in B : Rank(B, b) = t - 1})
      BY DEF Nth
    <3> QED
      BY <2>2, <3>1, <3>2 DEF First
  <2> QED
    BY <2>1, <2>2
<1>9. /\ Counted(e) /\ e.imap = d.imap /\ e.bmap = d.bmap \cup B
      /\ e.inode = [d.inode EXCEPT ![i] = f]
      /\ e.data = Emptied(d.data, B) /\ e.word = Reworded(d.word, B, k)
  <2>1. Counted(d) /\ e = Written(d, i, k) /\ B = NewBlocks(d, k)
    BY <1>1 DEF B
  <2> QED
    BY <2>1, WrittenFields
<1>10. /\ f \in InodeRecord
       /\ f.i_mode = "reg" /\ f.i_links_count = 1 /\ f.i_size = k
       /\ \A s \in 1 .. Slots : f.i_block[s] = IF s <= Direct + 1 THEN Nth(B, s) ELSE 0
  BY <1>8, CopyIs
<1> HIDE DEF f
<1>11. /\ e.inode[i] = f /\ \A j \in Inode \cup {Root} : j # i => e.inode[j] = d.inode[j]
       /\ e.inode \in [Inode \cup {Root} -> InodeRecord]
  BY <1>1, <1>9, <1>10
<1>12. /\ DOMAIN e.data = Block \cup {0}
       /\ \A b \in Block \cup {0} : e.data[b] = IF b \in B THEN <<>> ELSE d.data[b]
  BY <1>1, <1>9 DEF Emptied
<1>13. /\ DOMAIN d.word = Block \cup {0}
       /\ \A b \in Block \cup {0} : e.word[b] = IF b \in B THEN Words(B, k, b, d.word[b]) ELSE d.word[b]
  BY <1>1, <1>9 DEF Reworded
<1>14. e.word \in [Block \cup {0} -> [1 .. Ptrs -> Block \cup {0, Junk}]]
  <2>1. \A b \in Block \cup {0} : d.word[b] \in [1 .. Ptrs -> Block \cup {0, Junk}]
    BY <1>1
  <2>2. \A b \in Block \cup {0} : Words(B, k, b, d.word[b]) \in [1 .. Ptrs -> Block \cup {0, Junk}]
    BY <1>8, <2>1, WordsTyped
  <2> QED
    BY <1>9, <1>13, <2>1, <2>2 DEF Reworded
<1>15. Typed(e)
  <2>1. \A b \in Block \cup {0} : e.data[b] = <<>> \/ GoodBlock(e.data[b])
    BY <1>12 DEF Typed
  <2> QED
    BY <1>9, <1>11, <1>12, <1>14, <2>1 DEF Typed
<1>16. ASSUME NEW v \in Spot PROVE Held(e, i, v) = Nth(B, Place(v, k))
  <2>1. /\ v \in Nat /\ v >= 1 /\ (v <= Slots => v \in 1 .. Slots)
        /\ (~ (v <= Slots) => v - Slots \in 1 .. Ptrs)
        /\ Direct \in Nat /\ Slots \in Nat /\ Slots > Direct /\ k \in Nat /\ Direct + 1 \in 1 .. Slots
    BY SpotFacts
  <2>2. \A t \in Nat : t > n => Nth(B, t) = 0
    BY <1>5
  <2>3. Nth(B, n + 1) = 0
    BY <1>3, <2>2
  <2>4. CASE v <= Direct + 1
    <3>1. Place(v, k) = v
      BY <2>4 DEF Place
    <3>2. v <= Slots
      BY <2>1, <2>4
    <3> QED
      BY <1>10, <1>11, <2>1, <2>4, <3>1, <3>2 DEF Held
  <2>5. CASE ~ (v <= Direct + 1) /\ v <= Slots
    <3>1. Place(v, k) = n + 1
      BY <2>1, <2>5 DEF Place, n
    <3> QED
      BY <1>10, <1>11, <2>1, <2>3, <2>5, <3>1 DEF Held
  <2>6. CASE ~ (v <= Slots)
    <3> DEFINE w == v - Slots
               c == Nth(B, Direct + 1)
    <3>1. w \in 1 .. Ptrs /\ w \in Nat /\ v > Slots /\ ~ (v <= Direct + 1)
      BY <2>1, <2>6
    <3>2. Held(e, i, v) = IF k < Direct + w THEN 0 ELSE e.word[c][w]
      <4>1. e.inode[i].i_block[Direct + 1] = c /\ e.inode[i].i_size = k
        BY <1>10, <1>11, <2>1
      <4> QED
        BY <2>6, <4>1 DEF Held, Through
    <3>3. Place(v, k) = IF Direct + w <= k THEN Direct + 1 + w ELSE n + 1
      BY <3>1 DEF Place, n
    <3> HIDE DEF w
    <3>4. CASE k < Direct + w
      <4>1. ~ (Direct + w <= k)
        BY <2>1, <3>1, <3>4
      <4> QED
        BY <2>3, <3>2, <3>3, <3>4, <4>1
    <3>5. CASE ~ (k < Direct + w)
      <4>1. Direct + w <= k /\ k > Direct /\ Direct + 1 \in 1 .. n
        BY <1>3, <2>1, <3>1, <3>5
      <4>2. c \in B /\ c \in Block \cup {0}
        BY <1>5, <1>6, <4>1
      <4>3. e.word[c] = [x \in 1 .. Ptrs |-> IF Direct + x <= k THEN Nth(B, Direct + 1 + x) ELSE d.word[c][x]]
        BY <1>13, <4>1, <4>2 DEF Words
      <4>4. e.word[c][w] = Nth(B, Direct + 1 + w)
        BY <3>1, <4>1, <4>3
      <4> QED
        BY <3>2, <3>3, <3>5, <4>1, <4>4
    <3> QED
      BY <3>4, <3>5
  <2> QED
    BY <2>4, <2>5, <2>6
<1>17. e.bmap \ d.bmap = B
  BY <1>6, <1>9
<1>18. \A b \in B : \E v \in Spot : Held(e, i, v) = b
  <2> SUFFICES ASSUME NEW b \in B PROVE \E v \in Spot : Held(e, i, v) = b
    OBVIOUS
  <2>1. PICK t \in 1 .. n : Nth(B, t) = b
    BY <1>5
  <2>2. PICK v \in Spot : Place(v, k) = t
    BY <1>3
  <2> QED
    BY <1>16, <2>1, <2>2
<1>19. \A v \in Spot : Held(e, i, v) \in B \cup {0} /\ (Held(e, i, v) # 0 <=> Place(v, k) <= n)
  BY <1>3, <1>7, <1>16
<1>20. ASSUME NEW u \in Spot, NEW v \in Spot, Held(e, i, u) = Held(e, i, v), Held(e, i, u) # 0 PROVE u = v
  <2>1. Place(u, k) <= n /\ Place(v, k) <= n
    BY <1>19, <1>20
  <2>2. Place(u, k) \in 1 .. n /\ Place(v, k) \in 1 .. n
    BY <1>3, <2>1
  <2>3. Place(u, k) = Place(v, k)
    BY <1>5, <1>16, <1>20, <2>2
  <2> QED
    BY <1>3, <2>1, <2>3
<1>21. \A b \in d.bmap \cup {0} : e.word[b] = d.word[b] /\ e.data[b] = d.data[b]
  BY <1>1, <1>6, <1>12, <1>13
<1>22. \A b \in B : e.data[b] = <<>>
  BY <1>6, <1>12
<1> QED
  BY <1>9, <1>10, <1>11, <1>15, <1>16, <1>17, <1>18, <1>19, <1>20, <1>21, <1>22 DEF B, n

\* The written file has all its blocks, if its indirect block holds no other words.
LEMMA WrittenShaped ==
  ASSUME NEW d, Typed(d), NEW i \in Inode, NEW k \in 0 .. Direct + Ptrs,
         BlocksTaken(k) <= Cardinality(Block \ d.bmap), NEW e, e = Written(d, i, k),
         Unreached(e, i) \subseteq {0}
  PROVE  Shaped(e, i)
<1> DEFINE n == BlocksTaken(k)
<1>1. /\ e.inode[i].i_mode = "reg" /\ e.inode[i].i_size = k
      /\ \A b \in e.bmap \ d.bmap : e.data[b] = <<>>
      /\ \A v \in Spot : Held(e, i, v) \in (e.bmap \ d.bmap) \cup {0}
      /\ \A v \in Spot : Held(e, i, v) # 0 <=> Place(v, k) <= n
  BY WrittenIs
<1>2. /\ n \in Nat
      /\ \A s \in 1 .. Direct + 1 : s <= n <=> s <= k
      /\ k > Direct => Direct + 1 <= n /\ \A w \in 1 .. Ptrs : Direct + w <= k => Direct + 1 + w <= n
  BY PlaceFacts
<1> HIDE DEF n
<1>3. /\ Slots \in Nat /\ Direct \in Nat /\ Ptrs \in Nat /\ Direct >= 1 /\ Slots > Direct /\ k \in Nat
      /\ \A s \in 1 .. Slots : s \in Spot
      /\ \A w \in 1 .. Ptrs : Slots + w \in Spot /\ ~ (Slots + w <= Slots) /\ Slots + w - Slots = w
  BY SpotFacts
<1>4. ASSUME NEW s \in 1 .. Slots
      PROVE  /\ e.inode[i].i_block[s] = Held(e, i, s) /\ s \in Spot
             /\ e.inode[i].i_block[s] # 0 <=> s <= Direct + 1 /\ s <= k
  <2>1. s \in Spot /\ e.inode[i].i_block[s] = Held(e, i, s)
    BY <1>3 DEF Held
  <2>2. Place(s, k) = IF s <= Direct + 1 THEN s ELSE n + 1
    BY <1>3 DEF Place, n
  <2>3. e.inode[i].i_block[s] # 0 <=> Place(s, k) <= n
    BY <1>1, <2>1
  <2>4. CASE s <= Direct + 1
    <3>1. s \in 1 .. Direct + 1
      BY <1>3, <2>4
    <3> QED
      BY <1>2, <2>1, <2>2, <2>3, <2>4, <3>1
  <2>5. CASE ~ (s <= Direct + 1)
    <3>1. ~ (n + 1 <= n)
      BY <1>2
    <3> QED
      BY <2>1, <2>2, <2>3, <2>5, <3>1
  <2> QED
    BY <2>4, <2>5
<1>5. ASSUME NEW w \in 1 .. Ptrs, Direct + w <= k PROVE Through(e, i, w) # 0
  <2>1. Slots + w \in Spot /\ Held(e, i, Slots + w) = Through(e, i, w)
    BY <1>3 DEF Held
  <2>2. k > Direct /\ Slots + w > Direct + 1 /\ Slots + w > Slots /\ Slots + w - Slots = w
    BY <1>3, <1>5
  <2>3. Place(Slots + w, k) = Direct + 1 + w
    <3>1. ~ (Slots + w <= Direct + 1)
      BY <1>3, <2>2
    <3> DEFINE x == Slots + w
    <3>2. Place(x, k) = IF x <= Direct + 1 THEN x
                        ELSE IF x > Slots /\ Direct + (x - Slots) <= k THEN Direct + 1 + (x - Slots)
                        ELSE n + 1
      BY DEF Place, n
    <3>3. x > Slots /\ x - Slots = w /\ ~ (x <= Direct + 1)
      BY <1>3, <2>2
    <3> HIDE DEF x
    <3>4. Place(x, k) = Direct + 1 + w
      BY <1>5, <3>2, <3>3
    <3> QED
      BY <3>4 DEF x
  <2> QED
    BY <1>1, <1>2, <1>5, <2>1, <2>2, <2>3
<1>6. FileShape(e, i)
  BY <1>1, <1>4, <1>5 DEF FileShape
<1>7. \A b \in BlocksOf(e, i) : e.data[b] = <<>>
  BY <1>1, <1>4 DEF BlocksOf
<1> QED
  BY <1>1, <1>6, <1>7 DEF Shaped

\* A new file i of k blocks, that has no name yet.
LEMMA NewFile ==
  ASSUME NEW d, Image(d), NEW i \in Inode \ d.imap, NEW k \in 0 .. Direct + Ptrs,
         BlocksTaken(k) <= Cardinality(Block \ d.bmap),
         NEW m, m = Written(MarkInode(d, i), i, k), Unreached(m, i) \subseteq {0}
  PROVE  /\ Sound(m, i) /\ i \in Marked(m) /\ i \notin Dirs(m) /\ Dirs(m) = Dirs(d)
         /\ \A q \in Dirs(d) : Listed(d, m, q)
         /\ \A q \in Dirs(d) : m.inode[q].i_block = d.inode[q].i_block
                               /\ \A c \in BlocksOf(d, q) : m.data[c] = d.data[c]
<1> DEFINE t == MarkInode(d, i)
<1>1. Own(d) /\ Typed(d) /\ Counted(d) /\ Linking(d, 0)
  BY DEF Image, Sound, Own, Typed
<1>2. i \in Inode /\ i # 0 /\ i \notin Marked(d)
  BY <1>1, NoNumberZero DEF Marked
<1>3. /\ Counted(t) /\ t.imap = d.imap \cup {i} /\ t.bmap = d.bmap
      /\ t.inode = d.inode /\ t.data = d.data /\ t.word = d.word
  BY <1>1, MarkInodeIs
<1>4. m = Written(t, i, k)
  OBVIOUS
<1> HIDE DEF t
<1>5. Typed(t)
  BY <1>1, <1>3 DEF Typed
<1>6. BlocksTaken(k) <= Cardinality(Block \ t.bmap)
  BY <1>3
<1>7. /\ Typed(m) /\ m.imap = t.imap /\ t.bmap \subseteq m.bmap
      /\ \A j \in Inode \cup {Root} : j # i => m.inode[j] = t.inode[j]
      /\ m.inode[i].i_mode = "reg" /\ m.inode[i].i_links_count = 1
      /\ \A b \in t.bmap \cup {0} : m.word[b] = t.word[b] /\ m.data[b] = t.data[b]
      /\ \A v \in Spot : Held(m, i, v) \in (m.bmap \ t.bmap) \cup {0}
      /\ \A u, v \in Spot : Held(m, i, u) = Held(m, i, v) /\ Held(m, i, u) # 0 => u = v
      /\ \A b \in m.bmap \ t.bmap : \E v \in Spot : Held(m, i, v) = b
  BY <1>2, <1>4, <1>5, <1>6, WrittenIs
<1>8. Shaped(m, i)
  BY <1>2, <1>4, <1>5, <1>6, WrittenShaped
<1>9. \A j \in Marked(d) : m.inode[j] = d.inode[j]
  BY <1>1, <1>2, <1>3, <1>7, NoNumberZero
<1>10. Takes(d, m, i)
  BY <1>3, <1>7, <1>8, <1>9 DEF Takes, SameInode
<1>11. /\ Own(m) /\ Marked(m) = Marked(d) \cup {i}
       /\ \A q \in Marked(d) : /\ BlocksOf(m, q) = BlocksOf(d, q)
                               /\ \A c \in BlocksOf(d, q) : m.data[c] = d.data[c]
       /\ \A q \in Dirs(d) : Above(m, q) = Above(d, q)
  BY <1>1, <1>7, <1>10, OwnTakes
<1>12. \A q \in Dirs(d) : Listed(d, m, q)
  BY <1>11, ListedSame DEF Dirs
<1>13. Newcomer(d, m, i)
  BY <1>1, <1>2, <1>9, <1>11, <1>12 DEF Newcomer
<1>14. Linking(m, i) /\ Dirs(m) = Dirs(d)
  <2>1. m.inode[i].i_mode # "dir"
    BY <1>7
  <2> QED
    BY <1>7, <1>9, <1>13, <2>1, LinkTaken
<1> QED
  BY <1>2, <1>9, <1>11, <1>12, <1>14 DEF Sound, Dirs

\* free_all_blocks_of_inode frees the blocks of a file or link, no more and no fewer.
LEMMA FreedIs ==
  ASSUME NEW e, NEW i, Shaped(e, i), e.inode[i] \in InodeRecord, e.inode[i].i_mode \in {"reg", "lnk"}
  PROVE  \A b : b # 0 => (b \in FreedBlocks(e, i) <=> \E v \in Spot : Held(e, i, v) = b)
<1> DEFINE f == e.inode[i]
           x == f.i_block[Direct + 1]
           z == f.i_size
<1>1. /\ Slots \in Nat /\ Direct \in Nat /\ Ptrs \in Nat /\ Direct >= 1 /\ Slots > Direct
      /\ \A s \in 1 .. Slots : s \in Spot
      /\ \A w \in 1 .. Ptrs : Slots + w \in Spot /\ ~ (Slots + w <= Slots) /\ Slots + w - Slots = w
      /\ \A v \in Spot : v \in Nat /\ v >= 1 /\ (v <= Slots => v \in 1 .. Slots)
                         /\ (~ (v <= Slots) => v - Slots \in 1 .. Ptrs)
  BY SpotFacts
<1>2. Direct + 1 \in 1 .. Slots /\ Direct + 1 # 1 /\ z \in Nat
  BY <1>1 DEF InodeRecord
<1>3. /\ \A s \in 1 .. Slots : s > Direct + 1 => f.i_block[s] = 0
      /\ x # 0 <=> f.i_mode = "reg" /\ z > Direct
      /\ z > Direct => f.i_mode = "reg"
  <2>1. CASE f.i_mode = "lnk"
    <3>1. z = 0 /\ \A s \in 1 .. Slots : s # 1 => f.i_block[s] = 0
      BY <2>1 DEF Shaped
    <3> QED
      BY <1>1, <1>2, <2>1, <3>1
  <2>2. CASE f.i_mode = "reg"
    <3>1. \A s \in 1 .. Slots : f.i_block[s] # 0 <=> s <= Direct + 1 /\ s <= z
      BY <2>2 DEF Shaped, FileShape
    <3> QED
      BY <1>1, <1>2, <2>2, <3>1
  <2> QED
    BY <2>1, <2>2
<1>4. ASSUME NEW w \in 1 .. Ptrs
      PROVE  /\ x # 0 => e.word[x][w] = Held(e, i, Slots + w) \/ e.word[x][w] = 0
             /\ Held(e, i, Slots + w) # 0 => x # 0 /\ Held(e, i, Slots + w) = e.word[x][w]
  <2>1. Held(e, i, Slots + w) = IF z < Direct + w THEN 0 ELSE e.word[x][w]
    <3>1. Held(e, i, Slots + w) = Through(e, i, w)
      BY <1>1 DEF Held
    <3> QED
      BY <3>1 DEF Through
  <2>2. ASSUME x # 0, z < Direct + w PROVE e.word[x][w] = 0
    <3>1. f.i_mode = "reg" /\ z > Direct /\ Unreached(e, i) \subseteq {0}
      BY <1>3, <2>2 DEF Shaped, FileShape
    <3>2. Direct + w > z
      BY <1>1, <1>2, <2>2
    <3>3. e.word[x][w] \in Unreached(e, i)
      BY <3>1, <3>2 DEF Unreached
    <3> QED
      BY <3>1, <3>3
  <2>3. ASSUME ~ (z < Direct + w) PROVE x # 0
    <3>1. z > Direct
      BY <1>1, <1>2, <2>3
    <3> QED
      BY <1>3, <3>1
  <2> QED
    BY <2>1, <2>2, <2>3
<1>5. \A s \in 1 .. Slots : f.i_block[s] = Held(e, i, s)
  BY <1>1 DEF Held
<1>6. FreedBlocks(e, i) = {f.i_block[s] : s \in 1 .. Direct}
                          \cup (IF x = 0 THEN {} ELSE {x} \cup {e.word[x][w] : w \in 1 .. Ptrs})
  BY DEF FreedBlocks, Pointers
<1> HIDE DEF x, f, z
<1>7. ASSUME NEW b, b # 0, b \in FreedBlocks(e, i) PROVE \E v \in Spot : Held(e, i, v) = b
  <2>1. CASE \E s \in 1 .. Direct : b = f.i_block[s]
    <3>1. PICK s \in 1 .. Direct : b = f.i_block[s]
      BY <2>1
    <3>2. s \in 1 .. Slots
      BY <1>1
    <3> QED
      BY <1>1, <1>5, <3>1, <3>2
  <2>2. CASE b = x
    BY <1>1, <1>2, <1>5, <2>2 DEF x
  <2>3. CASE x # 0 /\ \E w \in 1 .. Ptrs : b = e.word[x][w]
    BY <1>1, <1>4, <1>7, <2>3
  <2> QED
    BY <1>6, <1>7, <2>1, <2>2, <2>3
<1>8. ASSUME NEW b, b # 0, NEW v \in Spot, Held(e, i, v) = b PROVE b \in FreedBlocks(e, i)
  <2>1. CASE v <= Slots
    <3>1. v \in 1 .. Slots /\ b = f.i_block[v]
      BY <1>1, <1>5, <1>8, <2>1
    <3>2. ~ (v > Direct + 1)
      BY <1>3, <1>8, <3>1
    <3>3. v \in 1 .. Direct \/ v = Direct + 1
      BY <1>1, <3>1, <3>2
    <3>4. b = x => x # 0 /\ b \in {x}
      BY <1>8
    <3> QED
      BY <1>6, <3>1, <3>3, <3>4 DEF x
  <2>2. CASE ~ (v <= Slots)
    <3> DEFINE w == v - Slots
    <3>1. w \in 1 .. Ptrs /\ v = Slots + w
      BY <1>1, <2>2
    <3> HIDE DEF w
    <3>2. x # 0 /\ b = e.word[x][w]
      BY <1>4, <1>8, <3>1
    <3> QED
      BY <1>6, <3>1, <3>2
  <2> QED
    BY <2>1, <2>2
<1> QED
  BY <1>7, <1>8

\* The words beyond a file's size are the same if its inode and its indirect block are.
LEMMA UnreachedSame ==
  ASSUME NEW m, NEW e, NEW i, e.inode[i] = m.inode[i],
         e.word[m.inode[i].i_block[Direct + 1]] = m.word[m.inode[i].i_block[Direct + 1]]
  PROVE  Unreached(e, i) = Unreached(m, i)
BY DEF Unreached

\* Naming a file changes neither.
LEMMA NamedWords ==
  ASSUME NEW m, Counted(m), NEW i, NEW p, i # p, NEW n, NEW type
  PROVE  /\ Unreached(WithEntry(m, p, i, n, type), i) = Unreached(m, i)
         /\ \A c \in Block \ m.bmap : c # m.inode[i].i_block[Direct + 1] =>
              Unreached(WithBlock(MarkBlock(m, c), p, c, i, n, type), i) = Unreached(m, i)
<1>1. Unreached(WithEntry(m, p, i, n, type), i) = Unreached(m, i)
  <2> DEFINE e == WithEntry(m, p, i, n, type)
             b == m.inode[p].i_block[RoomIn(m, p, n)]
  <2>1. e = [m EXCEPT !.data[b] = Added(@, i, n, type)]
    BY DEF WithEntry
  <2> HIDE DEF b, e
  <2>2. e.inode = m.inode /\ e.word = m.word
    BY <2>1 DEF Counted, Fields
  <2>3. Unreached(e, i) = Unreached(m, i)
    BY <2>2, UnreachedSame
  <2> QED
    BY <2>3 DEF e
<1>2. ASSUME NEW c \in Block \ m.bmap, c # m.inode[i].i_block[Direct + 1]
      PROVE  Unreached(WithBlock(MarkBlock(m, c), p, c, i, n, type), i) = Unreached(m, i)
  <2> DEFINE g == MarkBlock(m, c)
             s == FreeSlot(g, p)
             new == <<DirEntry(i, n, BlockSize, type)>>
             e == WithBlock(g, p, c, i, n, type)
  <2>1. Counted(g) /\ g.inode = m.inode /\ g.word = m.word
    BY <1>2, MarkBlockIs
  <2>2. e = [g EXCEPT !.data[c] = new, !.word[c] = Bytes, !.inode[p].i_block[s] = c]
    BY DEF WithBlock
  <2> HIDE DEF g, s, new, e
  <2>3. e.inode = [m.inode EXCEPT ![p].i_block[s] = c] /\ e.word = [m.word EXCEPT ![c] = Bytes]
    BY <2>1, <2>2 DEF Counted, Fields
  <2>4. e.inode[i] = m.inode[i]
    BY <2>3
  <2> DEFINE x == m.inode[i].i_block[Direct + 1]
  <2>5. e.word[x] = m.word[x]
    BY <1>2, <2>3
  <2> HIDE DEF x
  <2>6. Unreached(e, i) = Unreached(m, i)
    BY <2>4, <2>5, UnreachedSame DEF x
  <2> QED
    BY <2>6 DEF e, g
<1> QED
  BY <1>1, <1>2

\* The words that no copy reaches, in the image that a new file leaves.
StaleWords(e, d) == \A i \in Inode : i \in e.imap \cup {find_free_inode(d)} => Unreached(e, i) \subseteq {0}

\* What cp leaves of a new file.
LEMMA CopiedKeeps ==
  ASSUME NEW d, Image(d), NEW path \in Path, ~ Exists(d, path), NEW p, p = Parent(d, path), p \in Dirs(d),
         Fits(d, p, FileName(path)), Room(d, p, FileName(path)) \/ Slot(d, p),
         NEW k \in 0 .. Direct + Ptrs, BlocksTaken(k) <= Cardinality(Block \ d.bmap),
         NEW o, o = Copied(d, p, FileName(path), k), o.disk # d => StaleWords(o.disk, d)
  PROVE  Image(o.disk) /\ o.result \in Results
<1> DEFINE n == FileName(path)
           i == find_free_inode(d)
           t == MarkInode(d, i)
           m == Written(t, i, k)
           c == find_free_block(m)
           more == MarkBlock(m, c)
           F == FreedBlocks(m, i)
           back == FreeInodes(FreeBlocks(m, F), {i})
           type == "reg"
<1>1. Sound(d, 0) /\ Own(d) /\ Typed(d) /\ Counted(d)
  BY DEF Image, Sound, Own, Typed
<1>2. \A e, r : Outcome(e, r).disk = e /\ Outcome(e, r).result = r
  BY DEF Outcome
<1>3. o = IF i = 0 THEN Outcome(d, "ENOSPC")
          ELSE IF RoomIn(m, p, n) # 0 THEN Outcome(WithEntry(m, p, i, n, type), "OK")
          ELSE IF c = 0 THEN Outcome(back, "ENOSPC")
          ELSE IF FreeSlot(m, p) # 0 THEN Outcome(WithBlock(more, p, c, i, n, type), "OK")
          ELSE o
  BY DEF Copied
<1>4. o.result \in Results
  BY <1>2 DEF Copied, Results
<1>5. CASE o.disk = d
  BY <1>4, <1>5
<1>6. CASE i = 0
  BY <1>2, <1>3, <1>4, <1>6
<1>7. CASE o.disk # d /\ i # 0
  <2>1. i \in Inode \ d.imap /\ i \in Inode /\ i \notin Marked(d) /\ i # p /\ i # 0
    BY <1>1, <1>7, FreeThere, NoNumberZero DEF Dirs, Marked
  <2>2. Unreached(o.disk, i) \subseteq {0}
    BY <1>7, <2>1 DEF StaleWords
  <2>3. m = Written(t, i, k) /\ t = MarkInode(d, i) /\ F = FreedBlocks(m, i)
    OBVIOUS
  <2> HIDE DEF i, t, m, F, n, type
  <2>4. /\ Counted(t) /\ t.imap = d.imap \cup {i} /\ t.bmap = d.bmap
        /\ t.inode = d.inode /\ t.data = d.data /\ t.word = d.word
    BY <1>1, <2>1, <2>3, MarkInodeIs
  <2>5. Typed(t) /\ BlocksTaken(k) <= Cardinality(Block \ t.bmap)
    BY <1>1, <2>4 DEF Typed
  <2>6. /\ Typed(m) /\ m.imap = t.imap /\ t.bmap \subseteq m.bmap
        /\ \A j \in Inode \cup {Root} : j # i => m.inode[j] = t.inode[j]
        /\ m.inode[i].i_mode = "reg"
        /\ \A b \in t.bmap \cup {0} : m.word[b] = t.word[b] /\ m.data[b] = t.data[b]
        /\ \A v \in Spot : Held(m, i, v) \in (m.bmap \ t.bmap) \cup {0}
        /\ \A b \in m.bmap \ t.bmap : \E v \in Spot : Held(m, i, v) = b
    BY <2>1, <2>3, <2>5, WrittenIs
  <2>7. /\ Counted(m) /\ m.imap = d.imap \cup {i} /\ d.bmap \subseteq m.bmap /\ 0 \notin m.bmap
        /\ m.inode[i] \in InodeRecord
    BY <2>1, <2>4, <2>6, DiskAssumption DEF Typed, Counted
  <2>8. \A j \in Marked(d) : m.inode[j] = d.inode[j]
    BY <1>1, <2>1, <2>4, <2>6, NoNumberZero
  <2>9. m.inode[i].i_block[Direct + 1] \in m.bmap \cup {0}
    <3>1. Direct + 1 \in Spot /\ Direct + 1 <= Slots
      BY SpotFacts DEF Spot
    <3> QED
      BY <2>6, <3>1 DEF Held
  <2>10. /\ Unreached(WithEntry(m, p, i, n, type), i) = Unreached(m, i)
         /\ \A x \in Block \ m.bmap :
              Unreached(WithBlock(MarkBlock(m, x), p, x, i, n, type), i) = Unreached(m, i)
    <3>1. \A x \in Block \ m.bmap : x # m.inode[i].i_block[Direct + 1]
      BY <2>9, DiskAssumption
    <3> QED
      BY <2>1, <2>7, <3>1, NamedWords
  <2>11. ASSUME Unreached(m, i) \subseteq {0}
         PROVE  /\ RoomIn(m, p, n) = RoomIn(d, p, n) /\ FreeSlot(m, p) = FreeSlot(d, p)
                /\ RoomIn(m, p, n) # 0 => Image(WithEntry(m, p, i, n, type))
                /\ \A x \in Block \ m.bmap :
                     FreeSlot(m, p) # 0 => Image(WithBlock(MarkBlock(m, x), p, x, i, n, type))
    <3>1. /\ Sound(m, i) /\ i \in Marked(m) /\ i \notin Dirs(m) /\ Dirs(m) = Dirs(d)
          /\ \A q \in Dirs(d) : Listed(d, m, q)
          /\ \A q \in Dirs(d) : m.inode[q].i_block = d.inode[q].i_block
                                /\ \A x \in BlocksOf(d, q) : m.data[x] = d.data[x]
      BY <2>1, <2>3, <2>11, NewFile
    <3>2. type \in {"dir", "reg", "lnk"} /\ (type = "dir" <=> i \in Dirs(m))
      BY <3>1 DEF type
    <3>3. m.inode[p].i_block = d.inode[p].i_block /\ \A x \in BlocksOf(d, p) : m.data[x] = d.data[x]
      BY <3>1
    <3> QED
      BY <3>1, <3>2, <3>3, NameAdded DEF n
  <2>12. CASE RoomIn(m, p, n) # 0
    <3>1. o.disk = WithEntry(m, p, i, n, type)
      BY <1>2, <1>3, <1>7, <2>12
    <3>2. Unreached(m, i) \subseteq {0}
      BY <2>2, <2>10, <3>1
    <3> QED
      BY <1>4, <2>11, <2>12, <3>1, <3>2
  <2>13. CASE RoomIn(m, p, n) = 0 /\ c = 0
    <3>1. o.disk = back
      BY <1>2, <1>3, <1>7, <2>13
    <3> DEFINE f == FreeBlocks(m, F)
    <3>2. /\ Counted(f) /\ f.inode = m.inode /\ f.word = m.word
      <4>1. Counted(f)
        BY <2>7, FreeBlocksCounted
      <4> QED
        BY <2>7, <4>1 DEF FreeBlocks, Counted, Fields
    <3> HIDE DEF f
    <3>3. back.inode = f.inode /\ back.word = f.word
      BY <3>2 DEF FreeInodes, Counted, Fields, f
    <3>4. Unreached(back, i) = Unreached(m, i)
      BY <3>2, <3>3, UnreachedSame
    <3>5. Unreached(m, i) \subseteq {0}
      BY <2>2, <3>1, <3>4
    <3>6. Shaped(m, i)
      BY <2>1, <2>3, <2>5, <3>5, WrittenShaped
    <3>7. \A b : b # 0 => (b \in F <=> \E v \in Spot : Held(m, i, v) = b)
      BY <2>3, <2>6, <2>7, <3>6, FreedIs
    <3>8. F \cap m.bmap = m.bmap \ d.bmap
      BY <2>4, <2>6, <2>7, <3>7
    <3>9. \A b \in d.bmap \cup {0} : m.word[b] = d.word[b] /\ m.data[b] = d.data[b]
      BY <2>4, <2>6
    <3>10. Image(back)
      BY <2>1, <2>6, <2>7, <2>8, <3>8, <3>9, Undone
    <3> QED
      BY <1>4, <3>1, <3>10
  <2>14. CASE RoomIn(m, p, n) = 0 /\ c # 0 /\ FreeSlot(m, p) # 0
    <3>1. o.disk = WithBlock(MarkBlock(m, c), p, c, i, n, type)
      BY <1>2, <1>3, <1>7, <2>14
    <3>2. c \in Block \ m.bmap
      BY <2>7, <2>14, FreeThere
    <3> HIDE DEF c
    <3>3. Unreached(m, i) \subseteq {0}
      BY <2>2, <2>10, <3>1, <3>2
    <3> QED
      BY <1>4, <2>11, <2>14, <3>1, <3>2, <3>3
  <2>15. CASE RoomIn(m, p, n) = 0 /\ FreeSlot(m, p) = 0
    <3>1. p \in Marked(d) /\ BlocksOf(d, p) \subseteq d.bmap
      BY <1>1, SlotHeld DEF Own, Dirs
    <3>2. m.inode[p].i_block = d.inode[p].i_block /\ \A b \in BlocksOf(d, p) : m.data[b] = d.data[b]
      BY <2>4, <2>6, <2>8, <3>1
    <3> HIDE DEF c, back, more
    <3>3. FreeSlot(m, p) = FreeSlot(d, p)
      BY <3>2, RoomSame
    <3>4. RoomIn(m, p, n) = RoomIn(d, p, n)
      BY <3>2, RoomSame
    <3> QED
      BY <2>15, <3>3, <3>4 DEF Room, Slot, n
  <2> QED
    BY <2>12, <2>13, <2>14, <2>15
<1> QED
  BY <1>5, <1>6, <1>7

\* What cp leaves when it writes over a file that has one name: the file as if its
\* inode had been freed and taken again, under the same name.
LEMMA OverwrittenKeeps ==
  ASSUME NEW d, Image(d), NEW j \in Marked(d), d.inode[j].i_mode # "dir", d.inode[j].i_links_count = 1,
         NEW k \in 0 .. Direct + Ptrs, BlocksTaken(k) <= Cardinality(Block \ d.bmap),
         NEW e, e = Overwritten(d, j, k), e # d => Unreached(e, j) \subseteq {0}
  PROVE  Image(e)
<1> DEFINE F == FreedBlocks(d, j)
           f == FreeBlocks(d, F)
           G == {j}
           g == FreeInodes(f, G)
<1>1. Own(d) /\ Typed(d) /\ Counted(d) /\ Linking(d, 0) /\ Sound(d, 0) /\ Reached(d, 0) /\ Shaped(d, j)
  BY DEF Image, Sound, Own, Typed
<1>2. j # Root /\ j \in d.imap /\ j \in Inode /\ j # 0 /\ j \in Inode \cup {Root}
  BY <1>1, NoNumberZero DEF Linking, Dirs, Marked, Counted
<1>3. d.inode[j] \in InodeRecord /\ d.inode[j].i_mode \in {"reg", "lnk"}
  BY <1>1, <1>2 DEF Typed, Shaped, InodeRecord
<1>4. \A b : b # 0 => (b \in F <=> \E v \in Spot : Held(d, j, v) = b)
  BY <1>1, <1>3, FreedIs
<1>5. /\ Counted(f) /\ f.imap = d.imap /\ f.bmap = d.bmap \ F
      /\ f.inode = d.inode /\ f.data = d.data /\ f.word = d.word
  <2>1. Counted(f)
    BY <1>1, FreeBlocksCounted
  <2> QED
    BY <1>1, <2>1 DEF FreeBlocks, Counted, Fields
<1>6. e = Written(f, j, k)
  BY DEF Overwritten
<1> HIDE DEF f, F
<1>7. /\ Counted(g) /\ g.imap = f.imap \ G /\ g.bmap = f.bmap
      /\ g.inode = f.inode /\ g.data = f.data /\ g.word = f.word
  <2>1. Counted(g)
    BY <1>5, FreeInodesCounted
  <2> QED
    BY <1>5, <2>1 DEF FreeInodes, Counted, Fields
<1> HIDE DEF g
<1>8. Typed(f) /\ Typed(g)
  BY <1>1, <1>5, <1>7 DEF Typed
<1>9. BlocksTaken(k) <= Cardinality(Block \ f.bmap)
  <2>1. /\ IsFiniteSet(Block \ f.bmap) /\ Block \ d.bmap \in SUBSET (Block \ f.bmap)
    <3>1. IsFiniteSet(Block) /\ Block \ f.bmap \in SUBSET Block
      BY DiskAssumption
    <3> QED
      BY <1>5, <3>1, FS_Subset
  <2>2. Cardinality(Block \ d.bmap) <= Cardinality(Block \ f.bmap)
    BY <2>1, FS_Subset
  <2>3. IsFiniteSet(Block \ d.bmap)
    BY <2>1, FS_Subset
  <2>4. Cardinality(Block \ d.bmap) \in Nat /\ Cardinality(Block \ f.bmap) \in Nat
    BY <2>1, <2>3, FS_CardinalityType
  <2>5. BlocksTaken(k) \in Nat
    BY PlaceFacts
  <2> QED
    BY <2>2, <2>4, <2>5
<1>10. /\ Typed(e) /\ e.imap = f.imap /\ f.bmap \subseteq e.bmap
       /\ \A x \in Inode \cup {Root} : x # j => e.inode[x] = f.inode[x]
       /\ e.inode[j].i_mode = "reg" /\ e.inode[j].i_links_count = 1
       /\ \A b \in f.bmap \cup {0} : e.word[b] = f.word[b] /\ e.data[b] = f.data[b]
       /\ \A v \in Spot : Held(e, j, v) \in (e.bmap \ f.bmap) \cup {0}
       /\ \A u, v \in Spot : Held(e, j, u) = Held(e, j, v) /\ Held(e, j, u) # 0 => u = v
       /\ \A b \in e.bmap \ f.bmap : \E v \in Spot : Held(e, j, v) = b
  BY <1>2, <1>6, <1>8, <1>9, WrittenIs
<1>11. CASE e = d
  BY <1>11
<1>12. CASE e # d
  <2>1. Shaped(e, j)
    BY <1>2, <1>6, <1>8, <1>9, <1>12, WrittenShaped
  <2>2. Kept(d, g, G)
    <3>1. g.imap = d.imap \ G /\ G \subseteq d.imap
      BY <1>2, <1>5, <1>7
    <3>2. 0 \notin d.bmap
      BY <1>1, DiskAssumption DEF Counted
    <3>3. g.bmap = d.bmap \ {Held(d, x, v) : x \in G, v \in Spot}
      <4>1. \A b \in d.bmap : b \in F <=> b \in {Held(d, x, v) : x \in G, v \in Spot}
        BY <1>4, <3>2
      <4> QED
        BY <1>5, <1>7, <4>1
    <3>4. \A x \in Marked(g) : SameInode(g.inode[x], d.inode[x])
      BY <1>5, <1>7 DEF SameInode
    <3>5. \A b \in g.bmap : KeepsDots(g.data[b], d.data[b])
      <4> SUFFICES ASSUME NEW b \in g.bmap PROVE KeepsDots(g.data[b], d.data[b])
        OBVIOUS
      <4>1. g.data[b] = d.data[b] /\ (d.data[b] = <<>> \/ GoodBlock(d.data[b]))
        BY <1>1, <1>5, <1>7 DEF Typed, Counted
      <4>2. d.data[b] # <<>> => Len(d.data[b]) \in Nat
        BY <4>1, GoodFacts
      <4> QED
        BY <4>1, <4>2 DEF KeepsDots
    <3>6. g.word = d.word
      BY <1>5, <1>7
    <3> HIDE DEF G
    <3> QED
      BY <3>1, <3>3, <3>4, <3>5, <3>6 DEF Kept
  <2> HIDE DEF G
  <2>3. /\ Own(g) /\ Marked(g) = Marked(d) \ G
        /\ \A p \in Marked(g) : /\ BlocksOf(g, p) = BlocksOf(d, p)
                                /\ g.inode[p].i_mode = d.inode[p].i_mode
        /\ \A p \in Dirs(g) : Above(g, p) = Above(d, p)
    BY <1>1, <1>8, <2>2, OwnKept
  <2>4. Takes(g, e, j)
    <3>1. j \in Inode \ g.imap /\ e.imap = g.imap \cup {j}
      BY <1>2, <1>5, <1>7, <1>10 DEF G
    <3>2. \A x \in Marked(g) : SameInode(e.inode[x], g.inode[x])
      <4>1. \A x \in Marked(g) : x \in Inode \cup {Root} /\ x # j
        BY <1>1, <1>2, <2>3, NoNumberZero DEF G
      <4> QED
        BY <1>7, <1>10, <4>1 DEF SameInode
    <3> QED
      BY <1>7, <1>10, <2>1, <3>1, <3>2 DEF Takes
  <2>5. /\ Own(e) /\ Marked(e) = Marked(g) \cup {j}
        /\ \A p \in Marked(g) : /\ BlocksOf(e, p) = BlocksOf(g, p)
                                /\ \A b \in BlocksOf(g, p) : e.data[b] = g.data[b]
                                /\ e.inode[p].i_mode = g.inode[p].i_mode
        /\ \A p \in Dirs(g) : Above(e, p) = Above(g, p)
    BY <1>10, <2>3, <2>4, OwnTakes
  <2>6. Marked(e) = Marked(d) /\ j \notin Marked(g) /\ Marked(g) = Marked(d) \ {j}
    BY <2>3, <2>5 DEF G
  <2>7. Dirs(g) = Dirs(d) /\ Dirs(e) = Dirs(d)
    BY <1>10, <2>3, <2>5, <2>6 DEF Dirs
  <2>8. \A p \in Dirs(d) : Listed(d, e, p) /\ Above(e, p) = Above(d, p)
    <3> SUFFICES ASSUME NEW p \in Dirs(d) PROVE Listed(d, e, p) /\ Above(e, p) = Above(d, p)
      OBVIOUS
    <3>1. p \in Dirs(g) /\ p \in Marked(g)
      BY <2>7 DEF Dirs
    <3>2. BlocksOf(e, p) = BlocksOf(d, p) /\ \A b \in BlocksOf(d, p) : e.data[b] = d.data[b]
      BY <1>5, <1>7, <2>3, <2>5, <3>1
    <3>3. Listed(d, e, p)
      BY <3>2, ListedSame
    <3> QED
      BY <2>3, <2>5, <3>1, <3>3
  <2>9. ASSUME NEW x \in Marked(d) PROVE e.inode[x].i_links_count = d.inode[x].i_links_count
    <3>1. CASE x = j
      BY <1>10, <3>1
    <3>2. CASE x # j
      BY <1>1, <1>5, <1>10, <3>2, NoNumberZero
    <3> QED
      BY <3>1, <3>2
  <2>10. Linking(e, 0)
    <3> DEFINE o == 0
    <3>1. Linking(d, o) /\ o = 0
      BY <1>1
    <3>2. \A x \in Marked(d) :
            e.inode[x].i_links_count = Cardinality(Named(d, x)) + (IF x = o THEN 1 ELSE 0)
      BY <2>9, <3>1 DEF Linking
    <3> HIDE DEF o
    <3>3. Linking(e, o)
      BY <2>6, <2>7, <2>8, <3>1, <3>2, LinkSame
    <3> QED
      BY <3>1, <3>3
  <2>11. Sound(e, 0)
    BY <2>5, <2>10 DEF Sound
  <2>12. Reached(e, 0)
    <3>1. /\ \A q \in Dirs(e) : External(e, q) \subseteq External(d, q)
          /\ \A p \in Dirs(d) : \A x \in External(d, p) :
               p \in Dirs(e) /\ x \in Entries(e, p) /\ SameEntry(At(e, x), At(d, x))
      BY <2>7, <2>8 DEF Listed, External
    <3>2. Dirs(e) \subseteq Dirs(d)
      BY <2>7
    <3> QED
      BY <1>1, <2>11, <3>1, <3>2, ReachedKept
  <2> QED
    BY <2>11, <2>12 DEF Image
<1> QED
  BY <1>11, <1>12

\* What cp leaves.
LEMMA CpKeeps ==
  ASSUME NEW d, Image(d), NEW n \in Name, NEW size \in Size, NEW path \in AnyPath,
         NEW o, o = cp(d, n, size, path, TRUE), o.disk # d => StaleWords(o.disk, d),
         Exists(d, path) =>
           LET p   == InodeOf(d, path)
               dir == TypeOf(d, path) = "dir"
               old == IF dir THEN InodeOf(d, Append(path, n)) ELSE p
           IN  /\ old # 0 => d.inode[old].i_mode # "dir" /\ d.inode[old].i_links_count = 1
               /\ dir => Len(path) < MaxDepth /\ Fits(d, p, n) /\ (Room(d, p, n) \/ Slot(d, p))
  PROVE  Image(o.disk) /\ o.result \in Results
<1> DEFINE k   == BlocksIn(size)
           to  == InodeOf(d, path)
           old == IF TypeOf(d, path) # "dir" THEN to ELSE InodeOf(d, Append(path, n))
<1>1. Sound(d, 0) /\ Own(d) /\ Typed(d) /\ Counted(d)
  BY DEF Image, Sound, Own, Typed
<1>2. \A e, r : Outcome(e, r).disk = e /\ Outcome(e, r).result = r
  BY DEF Outcome
<1>3. o = IF d.bfree < BlocksNeeded(size) THEN Outcome(d, "ENOSPC")
          ELSE IF to = 0 THEN Outcome(d, "ENOENT")
          ELSE IF old # 0 THEN Outcome(Overwritten(d, old, k), "OK")
          ELSE Copied(d, to, n, k)
  BY DEF cp
<1>4. CASE d.bfree < BlocksNeeded(size) \/ to = 0
  <2>1. o = Outcome(d, "ENOSPC") \/ o = Outcome(d, "ENOENT")
    BY <1>3, <1>4
  <2>2. o.disk = d /\ o.result \in Results
    <3>1. \A r \in Results : Outcome(d, r).disk = d /\ Outcome(d, r).result \in Results
      BY DEF Outcome
    <3>2. "ENOSPC" \in Results /\ "ENOENT" \in Results
      BY DEF Results
    <3> QED
      BY <2>1, <3>1, <3>2, Zenon
  <2> QED
    BY <2>2
<1>5. CASE ~ (d.bfree < BlocksNeeded(size)) /\ to # 0
  <2>1. k \in 0 .. Direct + Ptrs /\ BlocksTaken(k) <= Cardinality(Block \ d.bmap)
    <3>1. size \in Nat /\ Direct \in Nat /\ Ptrs \in Nat
      BY SizeAssumption, DiskAssumption
    <3>2. /\ d.bfree \in Nat /\ d.bfree <= Direct + Ptrs /\ d.bfree = Cardinality(Block \ d.bmap)
      <4>1. IsFiniteSet(Block) /\ Block \ d.bmap \in SUBSET Block /\ Cardinality(Block) <= Direct + Ptrs
        BY DiskAssumption
      <4>2. IsFiniteSet(Block \ d.bmap) /\ Cardinality(Block \ d.bmap) <= Cardinality(Block)
        BY <4>1, FS_Subset
      <4>3. Cardinality(Block \ d.bmap) \in Nat /\ Cardinality(Block) \in Nat
        BY <4>1, <4>2, FS_CardinalityType
      <4>4. d.bfree = Cardinality(Block \ d.bmap)
        BY <1>1 DEF Counted
      <4> QED
        BY <3>1, <4>1, <4>2, <4>3, <4>4
    <3>3. BlocksIn(size) \in Nat
      BY <3>1, HalfBlocks
    <3>4. BlocksNeeded(size) \in Int
      BY <3>1, <3>3 DEF BlocksNeeded
    <3>5. BlocksNeeded(size) <= Direct + Ptrs
      BY <1>5, <3>1, <3>2, <3>4
    <3>6. BlocksIn(size) <= Direct + Ptrs /\ BlocksTaken(BlocksIn(size)) <= BlocksNeeded(size)
      BY <3>1, <3>5, EstimateCovers
    <3>7. k \in 0 .. Direct + Ptrs
      BY <3>1, <3>3, <3>6
    <3>8. BlocksTaken(k) \in Nat
      BY <3>7, PlaceFacts
    <3> QED
      BY <1>5, <3>2, <3>4, <3>6, <3>7, <3>8
  <2> HIDE DEF k
  <2>2. /\ to \in Marked(d) /\ Exists(d, path)
        /\ TypeOf(d, path) = "dir" => to \in Dirs(d)
        /\ TypeOf(d, path) # "dir" => to \notin Dirs(d)
    <3>1. CASE path = <<>>
      BY <1>1, <3>1, RootPath DEF Sound, Linking, Marked, Dirs, Exists, Root
    <3>2. CASE path # <<>>
      <4>1. path \in Path /\ Exists(d, path)
        BY <1>5, <3>2 DEF AnyPath, Exists
      <4> QED
        BY <1>1, <4>1, TypeFacts
    <3> QED
      BY <3>1, <3>2
  <2> DEFINE dir == TypeOf(d, path) = "dir"
  <2>3. /\ old # 0 => d.inode[old].i_mode # "dir" /\ d.inode[old].i_links_count = 1
        /\ dir => Len(path) < MaxDepth /\ Fits(d, to, n) /\ (Room(d, to, n) \/ Slot(d, to))
    BY <2>2
  <2>4. dir => /\ Append(path, n) \in Path /\ ParentPath(Append(path, n)) = path
               /\ FileName(Append(path, n)) = n
    BY <2>3, PathLonger
  <2>5. old # 0 => old \in Marked(d)
    <3>1. CASE dir
      <4>1. InodeOf(d, Append(path, n)) \in Marked(d) \cup {0}
        BY <1>1, <2>4, <3>1, PathStep
      <4> QED
        BY <3>1, <4>1
    <3>2. CASE ~ dir
      BY <2>2, <3>2
    <3> QED
      BY <3>1, <3>2
  <2>6. CASE old # 0
    <3>1. o = Outcome(Overwritten(d, old, k), "OK")
      BY <1>3, <1>5, <2>6
    <3>2. o.disk = Overwritten(d, old, k) /\ o.result \in Results
      <4> DEFINE x == Overwritten(d, old, k)
      <4>1. o = Outcome(x, "OK")
        BY <3>1
      <4> HIDE DEF x
      <4>2. o.disk = x /\ o.result \in Results
        <5>1. \A r \in Results : Outcome(x, r).disk = x /\ Outcome(x, r).result \in Results
          BY DEF Outcome
        <5>2. "OK" \in Results
          BY DEF Results
        <5> QED
          BY <4>1, <5>1, <5>2, Zenon
      <4> QED
        BY <4>2 DEF x
    <3> HIDE DEF old
    <3>3. d.inode[old].i_mode # "dir" /\ d.inode[old].i_links_count = 1 /\ old \in Marked(d)
      BY <2>3, <2>5, <2>6
    <3>4. o.disk # d => Unreached(o.disk, old) \subseteq {0}
      <4>1. old \in d.imap /\ old \in Inode
        BY <1>1, <3>3 DEF Marked, Sound, Linking, Dirs, Counted
      <4> DEFINE F == FreedBlocks(d, old)
                 f == FreeBlocks(d, F)
      <4>2. Counted(f) /\ f.imap = d.imap
        <5>1. Counted(f)
          BY <1>1, FreeBlocksCounted
        <5> QED
          BY <1>1, <5>1 DEF FreeBlocks, Counted, Fields
      <4>3. o.disk = Written(f, old, k)
        BY <3>2 DEF Overwritten
      <4> HIDE DEF f
      <4>4. o.disk.imap = d.imap
        BY <4>2, <4>3 DEF Written, Counted, Fields
      <4> QED
        BY <4>1, <4>4 DEF StaleWords
    <3>5. Image(o.disk)
      BY <2>1, <3>2, <3>3, <3>4, OverwrittenKeeps
    <3> QED
      BY <3>2, <3>5
  <2>7. CASE old = 0
    <3>1. dir /\ InodeOf(d, Append(path, n)) = 0
      BY <1>5, <2>7
    <3> DEFINE q == Append(path, n)
    <3>2. q \in Path /\ ~ Exists(d, q) /\ Parent(d, q) = to /\ FileName(q) = n /\ to \in Dirs(d)
      BY <2>2, <2>4, <3>1 DEF Exists, Parent
    <3>3. o = Copied(d, to, n, k) /\ Fits(d, to, n) /\ (Room(d, to, n) \/ Slot(d, to))
      BY <1>3, <1>5, <2>3, <2>7, <3>1
    <3> HIDE DEF q, to
    <3>4. Image(o.disk) /\ o.result \in Results
      BY <2>1, <3>2, <3>3, CopiedKeeps
    <3> QED
      BY <3>4
  <2> QED
    BY <2>6, <2>7
<1> QED
  BY <1>4, <1>5

-----------------------------------------------------------------------------
(* ext2_rm: what goes. *)

\* The entries that go with the one at x, and the directories among what they name.
Below(d, x)    == IF At(d, x).file_type = "dir" THEN External(d, At(d, x).inode) ELSE {}
Going(d, x)    == Below(d, x) \cup {x}
GoingDirs(d, E) == {At(d, y).inode : y \in {z \in E : At(d, z).file_type = "dir"}}

\* E are all the entries of the directories D and one more, and D all the directories
\* that they name, one below p and the others below that one.
Uprooted(d, p, x, E, D) ==
  /\ Sound(d, 0) /\ p \in Dirs(d) \ D /\ x \in External(d, p) /\ x \in E /\ D \subseteq Dirs(d) \ {Root}
  /\ \A y \in E : /\ \E q \in Dirs(d) : y \in External(d, q)
                  /\ At(d, y).file_type = "dir" <=> At(d, y).inode \in D
                  /\ At(d, y).inode \in Dirs(d) <=> At(d, y).inode \in D
                  /\ y # x => At(d, x).inode \in D
  /\ \A q \in D : \A y \in External(d, q) : y \in E
  /\ \A q \in Dirs(d) : \A y \in External(d, q) : At(d, y).inode \in D => y \in E
  /\ \A q \in Dirs(d) \ D : Above(d, q) \notin D
  /\ \A q \in D : Above(d, q) \in D \cup {p} /\ (Above(d, q) = p <=> q = At(d, x).inode)

\* What rm removes: the entry, what is below it if a directory, and no more.
LEMMA GoingIsUprooted ==
  ASSUME NEW d, Sound(d, 0), NEW p \in Dirs(d), NEW x \in External(d, p), At(d, x).inode # p,
         At(d, x).inode \in Dirs(d) => Shallow(d, At(d, x).inode),
         NEW E, E = Going(d, x), NEW D, D = GoingDirs(d, E)
  PROVE  Uprooted(d, p, x, E, D)
<1> DEFINE top == At(d, x).inode
           isDir(y) == At(d, y).file_type = "dir"
<1>1. Linking(d, 0) /\ Own(d) /\ x \in Entries(d, p)
  BY DEF Sound, External
<1>2. \A q \in Dirs(d) : \A y \in External(d, q) : isDir(y) <=> At(d, y).inode \in Dirs(d)
  BY <1>1 DEF Linking, External
<1>3. isDir(x) <=> top \in Dirs(d)
  BY <1>2
<1>4. E = (IF isDir(x) THEN External(d, top) ELSE {}) \cup {x}
  BY DEF Going, Below
<1>5. \A g : g \in D <=> \E y \in E : isDir(y) /\ g = At(d, y).inode
  BY DEF GoingDirs
<1> HIDE DEF top, isDir
<1>6. ASSUME NEW y \in E
      PROVE  /\ \E q \in Dirs(d) : y \in External(d, q)
             /\ y # x => top \in Dirs(d) /\ y \in External(d, top)
             /\ isDir(y) <=> At(d, y).inode \in Dirs(d)
  BY <1>2, <1>3, <1>4
<1>7. top \in Dirs(d) => top \in D
  BY <1>3, <1>4, <1>5 DEF top
<1>8. \A q \in Dirs(d) : \A y \in External(d, q) : At(d, y).inode \in Dirs(d) =>
        At(d, y).inode # Root /\ Above(d, At(d, y).inode) = q
  BY <1>1 DEF Linking
<1>9. ASSUME NEW g \in D
      PROVE  /\ g \in Dirs(d) /\ g # Root
             /\ g = top \/ (g # top /\ top \in Dirs(d) /\ Above(d, g) = top /\ External(d, g) = {})
  <2>1. PICK y \in E : isDir(y) /\ g = At(d, y).inode
    BY <1>5
  <2>2. g \in Dirs(d) /\ g # Root
    BY <1>6, <1>8, <2>1
  <2>3. CASE y = x
    BY <2>1, <2>2, <2>3 DEF top
  <2>4. CASE y # x
    <3>1. top \in Dirs(d) /\ y \in External(d, top)
      BY <1>6, <2>4
    <3>2. Above(d, g) = top
      BY <1>8, <2>1, <2>2, <3>1
    <3>3. External(d, g) = {}
      BY <2>1, <3>1 DEF Shallow, top, isDir
    <3> QED
      BY <2>2, <3>1, <3>2, <3>3
  <2> QED
    BY <2>3, <2>4
<1>10. top \in Dirs(d) => Above(d, top) = p
  BY <1>8 DEF top
<1>11. top # p
  BY DEF top
<1>12. p \notin D
  <2> SUFFICES ASSUME p \in D PROVE FALSE
    OBVIOUS
  <2>1. External(d, p) = {}
    BY <1>9, <1>11
  <2> QED
    BY <2>1
<1>13. \A q \in D : \A y \in External(d, q) : y \in E
  <2> SUFFICES ASSUME NEW q \in D, NEW y \in External(d, q) PROVE y \in E
    OBVIOUS
  <2>1. q = top /\ q \in Dirs(d)
    BY <1>9
  <2> QED
    BY <1>3, <1>4, <2>1
<1>14. ASSUME NEW q \in Dirs(d), NEW y \in External(d, q), At(d, y).inode \in D PROVE y \in E
  <2>1. PICK z \in E : isDir(z) /\ At(d, y).inode = At(d, z).inode
    BY <1>5, <1>14
  <2>2. PICK r \in Dirs(d) : z \in External(d, r)
    BY <1>6
  <2>3. At(d, y).inode \in Dirs(d)
    BY <1>9, <1>14
  <2>4. r = q
    BY <1>8, <2>1, <2>2, <2>3
  <2>5. y = z
    BY <1>1, <2>1, <2>2, <2>3, <2>4 DEF Linking
  <2> QED
    BY <2>5
<1>15. ASSUME NEW q \in Dirs(d), Above(d, q) \in D PROVE q \in D
  <2>1. q # Root
    <3>1. Above(d, Root) = Root
      BY <1>1 DEF Linking
    <3> QED
      BY <1>9, <1>15, <3>1
  <2>2. PICK z \in External(d, Above(d, q)) : At(d, z).inode = q
    BY <2>1, AboveIs
  <2>3. z \in E
    BY <1>13, <1>15, <2>2
  <2>4. isDir(z)
    BY <1>6, <2>2, <2>3
  <2> QED
    BY <1>5, <2>2, <2>3, <2>4
<1>16. ASSUME NEW q \in D PROVE Above(d, q) \in D \cup {p} /\ (Above(d, q) = p <=> q = top)
  <2>1. CASE q = top
    BY <1>9, <1>10, <2>1
  <2>2. CASE q # top
    <3>1. Above(d, q) = top /\ top \in Dirs(d)
      BY <1>9, <2>2
    <3> QED
      BY <1>7, <1>11, <2>2, <3>1
  <2> QED
    BY <2>1, <2>2
<1>17. ASSUME NEW y \in E
       PROVE  /\ isDir(y) <=> At(d, y).inode \in D
              /\ At(d, y).inode \in Dirs(d) <=> At(d, y).inode \in D
              /\ y # x => top \in D
  <2>1. At(d, y).inode \in D => At(d, y).inode \in Dirs(d)
    BY <1>9
  <2>2. isDir(y) => At(d, y).inode \in D
    BY <1>5
  <2> QED
    BY <1>6, <1>7, <2>1, <2>2
<1>18. x \in E
  BY <1>4
<1>19. D \subseteq Dirs(d) \ {Root}
  BY <1>9
<1> QED
  BY <1>6, <1>12, <1>13, <1>14, <1>15, <1>16, <1>17, <1>18, <1>19 DEF Uprooted, top, isDir

\* How often the entries E name an inode, and what its count loses with them.
TimesIn(d, E, i) == Cardinality({y \in E : At(d, y).inode = i})
LostWith(d, p, x, E, D, i) ==
  TimesIn(d, E, i) * (IF i \in D THEN 2 ELSE 1)
  + Cardinality({y \in E : At(d, y).file_type = "dir" /\ i = IF y = x THEN p ELSE At(d, x).inode})

\* The names that an inode has left.
Left(d, E, D, i) == {z \in Named(d, i) : z[1] \notin D /\ z[2] \notin E}

\* The names that go are as many as the entries that name the inode.
LEMMA NamesIn ==
  ASSUME NEW d, NEW p, NEW x, NEW E, NEW D, Uprooted(d, p, x, E, D), NEW i
  PROVE  /\ Cardinality({z \in Named(d, i) : z[2] \in E}) = TimesIn(d, E, i)
         /\ TimesIn(d, E, i) \in Nat
         /\ \A y \in E : At(d, y).inode = i => TimesIn(d, E, i) >= 1
<1> DEFINE S == {z \in Named(d, i) : z[2] \in E}
           T == {y \in E : At(d, y).inode = i}
           f == [z \in S |-> z[2]]
<1>1. Own(d) /\ \A y \in E : \E q \in Dirs(d) : y \in Entries(d, q)
  BY DEF Uprooted, Sound, External
<1>2. ASSUME NEW z \in S
      PROVE  /\ z = <<z[1], z[2]>> /\ z[1] \in Dirs(d) /\ z[2] \in Entries(d, z[1])
             /\ At(d, z[2]).inode = i /\ z[2] \in E
  BY NamedIs
<1>3. IsFiniteSet(S)
  <2>1. IsFiniteSet(Named(d, i)) /\ S \in SUBSET Named(d, i)
    BY <1>1, NamedBound
  <2> HIDE DEF S
  <2> QED
    BY <2>1, FS_Subset
<1>4. \A y \in T : \E z \in S : z[2] = y
  <2> SUFFICES ASSUME NEW y \in T PROVE \E z \in S : z[2] = y
    OBVIOUS
  <2>1. PICK q \in Dirs(d) : y \in Entries(d, q)
    BY <1>1
  <2> DEFINE z == <<q, y>>
  <2>2. z \in Named(d, i)
    BY <2>1, NamedIs
  <2>3. z[2] = y /\ y \in E
    OBVIOUS
  <2> HIDE DEF z
  <2> QED
    BY <2>2, <2>3
<1>5. \A z, w \in S : z[2] = w[2] => z = w
  <2> SUFFICES ASSUME NEW z \in S, NEW w \in S, z[2] = w[2] PROVE z = w
    OBVIOUS
  <2>1. z[1] = w[1]
    BY <1>1, <1>2, OneDirectory
  <2> QED
    BY <1>2, <2>1
<1> HIDE DEF S
<1>6. f \in [S -> T] /\ \A z \in S : f[z] = z[2]
  BY <1>2
<1>7. f \in Bijection(S, T)
  BY <1>4, <1>5, <1>6 DEF Bijection, Injection, Surjection, IsInjective
<1> HIDE DEF f, T
<1>8. IsFiniteSet(T) /\ Cardinality(T) = Cardinality(S)
  BY <1>3, <1>7, FS_Bijection DEF ExistsBijection
<1>9. Cardinality(T) \in Nat
  BY <1>8, FS_CardinalityType
<1>10. \A y \in T : Cardinality(T) >= 1
  <2>1. T # {} => Cardinality(T) # 0
    BY <1>8, FS_EmptySet
  <2> QED
    BY <1>9, <2>1
<1> QED
  BY <1>8, <1>9, <1>10 DEF TimesIn, S, T

\* A file loses what names it in E and nothing else.
LEMMA FileNamesLeft ==
  ASSUME NEW d, NEW p, NEW x, NEW E, NEW D, Uprooted(d, p, x, E, D), NEW i \in Marked(d), i \notin Dirs(d)
  PROVE  /\ LostWith(d, p, x, E, D, i) = TimesIn(d, E, i)
         /\ Cardinality(Left(d, E, D, i)) = Cardinality(Named(d, i)) - TimesIn(d, E, i)
         /\ \A z \in Left(d, E, D, i) : z[2] \in External(d, z[1])
<1> DEFINE N == Named(d, i)
           S == {z \in N : z[2] \in E}
           Q == {y \in E : At(d, y).file_type = "dir" /\ i = IF y = x THEN p ELSE At(d, x).inode}
<1>1. Own(d) /\ Sound(d, 0) /\ p \in Dirs(d) /\ D \subseteq Dirs(d)
  BY DEF Uprooted, Sound
<1>2. Q = {}
  BY <1>1 DEF Uprooted
<1>3. Cardinality(Q) = 0 /\ i \notin D
  BY <1>1, <1>2, FS_EmptySet
<1>4. Cardinality(S) = TimesIn(d, E, i) /\ TimesIn(d, E, i) \in Nat
  BY NamesIn
<1>5. LostWith(d, p, x, E, D, i) = TimesIn(d, E, i)
  <2>1. LostWith(d, p, x, E, D, i) = TimesIn(d, E, i) * (IF i \in D THEN 2 ELSE 1) + Cardinality(Q)
    BY DEF LostWith
  <2> HIDE DEF Q
  <2> QED
    BY <1>3, <1>4, <2>1
<1>6. IsFiniteSet(N)
  BY <1>1, NamedBound
<1>7. ASSUME NEW z \in N
      PROVE  z[1] \in Dirs(d) /\ z[2] \in External(d, z[1]) /\ (z[1] \in D => z[2] \in E)
  <2>1. z[1] \in Dirs(d) /\ z[2] \in Entries(d, z[1]) /\ At(d, z[2]).inode = i
    BY NamedIs
  <2>2. At(d, z[2]).name # "." /\ At(d, z[2]).name # ".."
    <3>1. Above(d, z[1]) \in Dirs(d)
      BY <1>1, <2>1, AboveIs
    <3> QED
      BY <1>1, <2>1, <3>1, DotsAre
  <2>3. z[2] \in External(d, z[1])
    BY <2>1, <2>2 DEF External
  <2> QED
    BY <2>1, <2>3 DEF Uprooted
<1>8. Left(d, E, D, i) = N \ S /\ N \cap S = S
  BY <1>7 DEF Left
<1> HIDE DEF N, S, Q
<1>9. Cardinality(N \ S) = Cardinality(N) - Cardinality(S)
  BY <1>6, <1>8, FS_Difference
<1> QED
  BY <1>4, <1>5, <1>7, <1>8, <1>9 DEF N

\* A directory that stays loses the ".." of the one that goes from it.
LEMMA DirNamesLeft ==
  ASSUME NEW d, NEW p, NEW x, NEW E, NEW D, Uprooted(d, p, x, E, D), NEW i \in Dirs(d) \ D
  PROVE  /\ LostWith(d, p, x, E, D, i) \in Nat
         /\ Cardinality(Left(d, E, D, i)) = Cardinality(Named(d, i)) - LostWith(d, p, x, E, D, i)
<1> DEFINE N == Named(d, i)
           top == At(d, x).inode
           T == {y \in E : At(d, y).inode = i}
           Q == {y \in E : At(d, y).file_type = "dir" /\ i = IF y = x THEN p ELSE top}
           v == <<d.inode[top].i_block[1], 2>>
           R == {z \in N : z[1] \in D \/ z[2] \in E}
           gone == top \in D /\ i = p
<1>1. Own(d) /\ Sound(d, 0) /\ p \in Dirs(d) /\ D \subseteq Dirs(d) /\ x \in E
  BY DEF Uprooted, Sound
<1>2. T = {}
  BY DEF Uprooted
<1>3. Q = IF gone THEN {x} ELSE {}
  <2>1. \A y \in E : y # x => top # i
    BY DEF Uprooted
  <2>2. At(d, x).file_type = "dir" <=> top \in D
    BY <1>1 DEF Uprooted
  <2> HIDE DEF top
  <2> QED
    BY <1>1, <2>1, <2>2
<1>4. LostWith(d, p, x, E, D, i) = IF gone THEN 1 ELSE 0
  <2>1. LostWith(d, p, x, E, D, i) = Cardinality(T) * (IF i \in D THEN 2 ELSE 1) + Cardinality(Q)
    BY DEF LostWith, TimesIn
  <2>2. Cardinality(T) = 0
    BY <1>2, FS_EmptySet
  <2>3. Cardinality(Q) = IF gone THEN 1 ELSE 0
    BY <1>3, FS_EmptySet, FS_Singleton
  <2> HIDE DEF T, Q, gone
  <2> QED
    BY <2>1, <2>2, <2>3
<1>5. ASSUME NEW z \in R PROVE gone /\ z = <<top, v>>
  <2>1. z = <<z[1], z[2]>> /\ z[1] \in Dirs(d) /\ z[2] \in Entries(d, z[1]) /\ At(d, z[2]).inode = i
    BY NamedIs
  <2>2. z[2] \notin E
    BY <1>2, <2>1
  <2>3. z[1] \in D
    BY <1>5, <2>2
  <2>4. z[2] \notin External(d, z[1])
    BY <2>2, <2>3 DEF Uprooted
  <2>5. At(d, z[2]).name \in {".", ".."}
    BY <2>1, <2>4 DEF External
  <2>6. i # z[1]
    BY <2>3
  <2>7. z[2] = <<d.inode[z[1]].i_block[1], 2>> /\ i = Above(d, z[1])
    <3> DEFINE q == z[1]
               y == z[2]
               b == d.inode[q].i_block[1]
    <3>1. q \in Dirs(d) /\ y \in Entries(d, q) /\ Sound(d, 0)
      BY <1>1, <2>1
    <3> HIDE DEF q, y
    <3>2. /\ At(d, <<b, 2>>).inode = Above(d, q)
          /\ \A u \in Entries(d, q) : /\ At(d, u).name = "." => At(d, u).inode = q
                                      /\ At(d, u).name = ".." => u = <<b, 2>>
      BY <3>1, DotsAre
    <3>4. At(d, y).inode = i /\ At(d, y).name \in {".", ".."} /\ i # q
      BY <2>1, <2>5, <2>6 DEF q, y
    <3> HIDE DEF b
    <3>5. At(d, y).name # "."
      <4> SUFFICES ASSUME At(d, y).name = "." PROVE FALSE
        OBVIOUS
      <4>1. At(d, y).inode = q
        BY <3>1, <3>2
      <4> QED
        BY <3>4, <4>1
    <3>6. At(d, y).name = ".." /\ At(d, y).inode = i
      BY <3>4, <3>5
    <3>3. y = <<b, 2>> /\ i = Above(d, q)
      BY <3>1, <3>2, <3>6, Zenon
    <3> QED
      BY <3>3 DEF q, y, b
  <2>8. i = p /\ z[1] = top
    BY <2>3, <2>7 DEF Uprooted
  <2> QED
    BY <2>1, <2>3, <2>7, <2>8
<1>6. ASSUME gone PROVE <<top, v>> \in R
  <2>1. top \in Dirs(d) /\ Above(d, top) = p
    BY <1>1, <1>6 DEF Uprooted
  <2>2. v \in Entries(d, top) /\ At(d, v).inode = i
    BY <1>1, <1>6, <2>1, DotsAre
  <2> DEFINE z == <<top, v>>
  <2>3. z[1] = top /\ z[2] = v /\ \E q \in Dirs(d) : \E w \in Entries(d, q) : z = <<q, w>> /\ At(d, w).inode = i
    BY <2>1, <2>2
  <2> HIDE DEF z, v, top
  <2>4. z \in N
    BY <2>3, NamedIs
  <2>5. z \in R
    BY <1>6, <2>3, <2>4
  <2> QED
    BY <2>5 DEF z
<1> DEFINE w == <<top, v>>
<1> HIDE DEF gone, v, top
<1>7. R = IF gone THEN {w} ELSE {}
  BY <1>5, <1>6
<1>8. Cardinality(R) = IF gone THEN 1 ELSE 0
  BY <1>7, FS_EmptySet, FS_Singleton
<1>9. IsFiniteSet(N)
  BY <1>1, NamedBound
<1>10. Left(d, E, D, i) = N \ R /\ N \cap R = R
  BY DEF Left
<1> HIDE DEF N, R
<1>11. Cardinality(N \ R) = Cardinality(N) - Cardinality(R)
  BY <1>9, <1>10, FS_Difference
<1> QED
  BY <1>4, <1>8, <1>10, <1>11 DEF N

-----------------------------------------------------------------------------
(* ext2_rm: what is left of the disk. *)

\* The block that update_parent_inode_block looks at holds "." and ".." and goes on.
LEMMA NotShrunk ==
  ASSUME NEW d, Sound(d, 0), NEW p \in Dirs(d)
  PROVE  Shrunk(d, p) = d
<1> DEFINE S == {t \in 1 .. Slots : d.inode[p].i_block[t] # 0}
           s == Min(S)
           b == d.inode[p].i_block[s]
           c == d.inode[p].i_block[1]
           X == {x \in Entries(d, p) : x[1] = b}
           u == <<c, 1>>
           v == <<c, 2>>
<1>1. u \in Entries(d, p) /\ v \in Entries(d, p) /\ u # v
  BY DotsAre
<1>2. 1 \in 1 .. Slots /\ Slots \in Nat
  BY DiskAssumption
<1>3. c # 0
  BY DEF Sound, Own, Shaped, DirShape, Dirs
<1>4. s = 1
  <2>1. 1 \in S /\ \A t \in S : t \in Nat /\ t >= 1
    BY <1>2, <1>3
  <2>2. s \in S /\ \A t \in S : s <= t
    <3>1. \E t \in S : \A w \in S : t <= w
      BY <2>1
    <3> HIDE DEF S
    <3> QED
      BY <3>1 DEF Min
  <2> HIDE DEF S, s
  <2> QED
    BY <2>1, <2>2
<1>5. u \in X /\ v \in X /\ u # v
  BY <1>1, <1>4
<1> HIDE DEF u, v
<1>6. Cardinality(X) # 1
  <2> SUFFICES ASSUME Cardinality(X) = 1 PROVE FALSE
    OBVIOUS
  <2> HIDE DEF X
  <2>1. IsFiniteSet(X)
    <3>1. Own(d) /\ Owned(d) /\ p \in Marked(d) /\ d.bmap \subseteq Block
      BY DEF Sound, Own, Typed, Counted, Dirs
    <3>2. \A b1 \in BlocksOf(d, p) : b1 \in d.bmap
      BY <3>1, SlotHeld
    <3>3. X \subseteq Block \X (1 .. BlockSize \div 8)
      BY <3>1, <3>2 DEF X, Entries
    <3>4. IsFiniteSet(Block \X (1 .. BlockSize \div 8))
      <4>1. IsFiniteSet(Block) /\ BlockSize \div 8 \in Int
        BY DiskAssumption
      <4>2. IsFiniteSet(1 .. BlockSize \div 8)
        BY <4>1, FS_Interval
      <4> QED
        BY <4>1, <4>2, FS_Product
    <3> QED
      BY <3>3, <3>4, FS_Subset
  <2>2. \E z : X = {z}
    BY <2>1, FS_Singleton
  <2> QED
    BY <1>5, <2>2
<1>7. Shrunk(d, p) = IF Cardinality(X) = 1 THEN [FreeBlocks(d, {b}) EXCEPT !.inode[p].i_block[s] = 0] ELSE d
  BY DEF Shrunk
<1> QED
  BY <1>6, <1>7

\* What goes with the entries E, and what is left in the fields.
GoneInodes(d, E, D) ==
  D \cup {i \in {At(d, y).inode : y \in E} : d.inode[i].i_links_count \in 1 .. TimesIn(d, E, i)}
FreedOf(d, D, i)    == IF i \in D THEN BlocksOf(d, i) ELSE FreedBlocks(d, i)
GoneBlocks(d, D, G) == UNION {FreedOf(d, D, i) : i \in G}
ClearedBlock(d, E, b) ==
  [k \in DOMAIN d.data[b] |-> IF <<b, k>> \in E THEN [d.data[b][k] EXCEPT !.inode = 0] ELSE d.data[b][k]]
ClearedData(d, E) == [b \in DOMAIN d.data |-> ClearedBlock(d, E, b)]
LeftInode(d, f, l, gone) ==
  [f EXCEPT !.i_size = IF gone THEN 0 ELSE @, !.i_links_count = (@ - l) % CountLimit]
LeftInodes(d, p, x, E, D, G) ==
  [i \in DOMAIN d.inode |-> LeftInode(d, d.inode[i], LostWith(d, p, x, E, D, i), i \in G)]

RemovedFrom(d, s, p, x, E, D, G) ==
  LET g == FreeInodes(FreeBlocks(s, GoneBlocks(d, D, G)), G)
  IN  [g EXCEPT !.data  = [b \in DOMAIN @ |-> ClearedBlock(d, E, b)],
                !.inode = [i \in DOMAIN @ |-> LeftInode(d, @[i], LostWith(d, p, x, E, D, i), i \in G)]]

\* Removed, with its local definitions named.
LEMMA RemovedIs ==
  ASSUME NEW d, NEW p, NEW x
  PROVE  LET E == Going(d, x)  D == GoingDirs(d, E)  G == GoneInodes(d, E, D) IN
         Removed(d, p, x) = RemovedFrom(d, Shrunk(d, p), p, x, E, D, G)
BY Zenon DEF Removed, RemovedFrom, Going, Below, GoingDirs, GoneInodes, FreedOf, GoneBlocks, ClearedBlock,
             LostWith, TimesIn, LeftInode

\* Removed, field by field.
LEMMA RemovedFields ==
  ASSUME NEW d, Counted(d), NEW p, NEW x, Shrunk(d, p) = d, NEW e, e = Removed(d, p, x),
         NEW E, E = Going(d, x), NEW D, D = GoingDirs(d, E), NEW G, G = GoneInodes(d, E, D)
  PROVE  /\ Counted(e) /\ e.imap = d.imap \ G /\ e.bmap = d.bmap \ GoneBlocks(d, D, G)
         /\ e.inode = LeftInodes(d, p, x, E, D, G)
         /\ e.data = ClearedData(d, E) /\ e.word = d.word
<1> DEFINE B == GoneBlocks(d, D, G)
           f == FreeBlocks(d, B)
           g == FreeInodes(f, G)
           N == LeftInodes(d, p, x, E, D, G)
           C == ClearedData(d, E)
<1>1. /\ Counted(f) /\ f.imap = d.imap /\ f.bmap = d.bmap \ B
      /\ f.inode = d.inode /\ f.data = d.data /\ f.word = d.word
  <2>1. Counted(f)
    BY FreeBlocksCounted
  <2> HIDE DEF B
  <2> QED
    BY <2>1 DEF FreeBlocks, Counted, Fields
<1>2. /\ Counted(g) /\ g.imap = f.imap \ G /\ g.bmap = f.bmap
      /\ g.inode = f.inode /\ g.data = f.data /\ g.word = f.word
  <2> HIDE DEF f
  <2>1. Counted(g)
    BY <1>1, FreeInodesCounted
  <2> QED
    BY <1>1, <2>1 DEF FreeInodes, Counted, Fields
<1>3. e = [g EXCEPT !.data = C, !.inode = N]
  <2>1. e = RemovedFrom(d, d, p, x, E, D, G)
    BY RemovedIs
  <2>3. RemovedFrom(d, d, p, x, E, D, G) =
          [g EXCEPT !.data  = [b \in DOMAIN @ |-> ClearedBlock(d, E, b)],
                    !.inode = [i \in DOMAIN @ |-> LeftInode(d, @[i], LostWith(d, p, x, E, D, i), i \in G)]]
    BY Zenon DEF RemovedFrom
  <2> HIDE DEF f, g
  <2>2. g.data = d.data /\ g.inode = d.inode
    BY <1>1, <1>2
  <2> QED
    BY <2>1, <2>2, <2>3 DEF ClearedData, LeftInodes
<1> HIDE DEF B, f, g, N, C
<1>4. Counted(e) /\ e.imap = g.imap /\ e.bmap = g.bmap /\ e.data = C /\ e.inode = N /\ e.word = g.word
  BY <1>2, <1>3 DEF Counted, Fields
<1>5. e.imap = d.imap \ G /\ e.bmap = d.bmap \ B /\ e.word = d.word
  BY <1>1, <1>2, <1>4
<1> QED
  BY <1>4, <1>5 DEF B, N, C

\* An inode keeps all but its count and the size of a file that goes.
LEMMA LeftInodeIs ==
  ASSUME NEW d, NEW f \in InodeRecord, NEW l \in Nat, NEW gone \in BOOLEAN, NEW g, g = LeftInode(d, f, l, gone)
  PROVE  /\ g \in InodeRecord /\ g.i_mode = f.i_mode /\ g.i_block = f.i_block
         /\ g.i_size = (IF gone THEN 0 ELSE f.i_size)
         /\ g.i_links_count = (f.i_links_count - l) % CountLimit
<1> DEFINE s == IF gone THEN 0 ELSE f.i_size
           c == (f.i_links_count - l) % CountLimit
<1>1. c \in 0 .. CountLimit - 1
  <2>1. f.i_links_count \in 0 .. CountLimit - 1
    BY DEF InodeRecord
  <2>2. f.i_links_count - l \in Int
    BY <2>1, CountFacts
  <2> QED
    BY <2>2, CountFacts
<1>2. s \in 0 .. Direct + Ptrs
  BY DiskAssumption DEF InodeRecord
<1>3. g = [f EXCEPT !.i_size = s, !.i_links_count = c]
  BY DEF LeftInode
<1> HIDE DEF s, c
<1>4. g \in InodeRecord /\ g.i_mode = f.i_mode /\ g.i_block = f.i_block /\ g.i_size = s /\ g.i_links_count = c
  BY <1>1, <1>2, <1>3 DEF InodeRecord
<1> QED
  BY <1>4 DEF s, c

\* An entry that is free has no number and all else as it was.
Without(e) == [e EXCEPT !.inode = 0]

\* Freeing an entry changes its number alone.
LEMMA WithoutIs ==
  ASSUME NEW a \in EntryRecord, NEW e, e = Without(a)
  PROVE  /\ e \in EntryRecord /\ e.inode = 0
         /\ e.name = a.name /\ e.file_type = a.file_type /\ e.rec_len = a.rec_len
BY DEF Without, EntryRecord

\* A block some of whose entries are freed is as well filled as before.
LEMMA ClearedFacts ==
  ASSUME NEW d, Own(d), NEW E, \A y \in E : At(d, y).name \notin {".", ".."},
         NEW b \in Block \cup {0}, NEW new, new = ClearedBlock(d, E, b)
  PROVE  /\ KeepsDots(new, d.data[b]) /\ (new = <<>> \/ GoodBlock(new)) /\ DOMAIN new = DOMAIN d.data[b]
         /\ \A k \in DOMAIN new : /\ new[k].name = d.data[b][k].name
                                  /\ new[k].file_type = d.data[b][k].file_type
                                  /\ new[k].inode = IF <<b, k>> \in E THEN 0 ELSE d.data[b][k].inode
<1> DEFINE es == d.data[b]
<1>1. es = <<>> \/ GoodBlock(es)
  BY DEF Own, Typed
<1>2. /\ DOMAIN new = DOMAIN es /\ new = [k \in DOMAIN es |-> new[k]]
      /\ \A k \in DOMAIN es : new[k] = IF <<b, k>> \in E THEN Without(es[k]) ELSE es[k]
  BY DEF ClearedBlock, Without
<1>3. \A k : <<b, k>> \in E => es[k].name \notin {".", ".."}
  <2> SUFFICES ASSUME NEW k, <<b, k>> \in E PROVE es[k].name \notin {".", ".."}
    OBVIOUS
  <2> DEFINE y == <<b, k>>
  <2>1. At(d, y).name \notin {".", ".."} /\ At(d, y) = es[k]
    BY DEF At
  <2> QED
    BY <2>1
<1> HIDE DEF es
<1>4. CASE es = <<>>
  <2>1. new = <<>>
    BY <1>2, <1>4
  <2>2. KeepsDots(new, es)
    BY <1>4, <2>1 DEF KeepsDots
  <2> QED
    BY <1>2, <1>4, <2>1, <2>2 DEF es
<1>5. CASE GoodBlock(es)
  <2>1. /\ Len(es) \in Nat /\ Len(es) >= 1 /\ DOMAIN es = 1 .. Len(es)
        /\ \A k \in 1 .. Len(es) : es[k] \in EntryRecord
    BY <1>5, GoodFacts
  <2>2. ASSUME NEW k \in 1 .. Len(es)
        PROVE  /\ new[k] \in EntryRecord /\ new[k].rec_len = es[k].rec_len
               /\ new[k].name = es[k].name /\ new[k].file_type = es[k].file_type
               /\ new[k].inode = IF <<b, k>> \in E THEN 0 ELSE es[k].inode
    <3>1. CASE <<b, k>> \in E
      <4>1. new[k] = Without(es[k])
        BY <1>2, <2>1, <3>1
      <4> QED
        BY <2>1, <3>1, <4>1, WithoutIs
    <3>2. CASE <<b, k>> \notin E
      BY <1>2, <2>1, <3>2
    <3> QED
      BY <3>1, <3>2
  <2>3. \A k \in 1 .. Len(es) : new[k].rec_len >= 8 + Length(new[k].name)
    BY <1>5, <2>2 DEF GoodBlock
  <2>4. GoodBlock(new) /\ Len(new) = Len(es)
    BY <1>2, <1>5, <2>2, <2>3, GoodAlike
  <2>5. KeepsDots(new, es)
    <3>1. new # <<>> /\ es # <<>>
      BY <1>5, <2>4 DEF GoodBlock
    <3>2. \A k \in 1 .. Len(es) : es[k].name \in {".", ".."} =>
             new[k].name = es[k].name /\ new[k].inode = es[k].inode
      <4> SUFFICES ASSUME NEW k \in 1 .. Len(es), es[k].name \in {".", ".."}
                   PROVE  new[k].name = es[k].name /\ new[k].inode = es[k].inode
        OBVIOUS
      <4>1. <<b, k>> \notin E
        BY <1>3
      <4> QED
        BY <2>2, <4>1
    <3>3. Len(new) \in Nat /\ Len(new) >= Len(es)
      BY <2>1, <2>4
    <3> QED
      BY <2>1, <3>1, <3>2, <3>3 DEF KeepsDots
  <2> QED
    BY <1>2, <2>1, <2>2, <2>4, <2>5 DEF es
<1> QED
  BY <1>1, <1>4, <1>5

\* The entries that go are on the image.
LEMMA UprootedFacts ==
  ASSUME NEW d, NEW p, NEW x, NEW E, NEW D, Uprooted(d, p, x, E, D)
  PROVE  /\ IsFiniteSet(E) /\ \A y \in E : At(d, y).name \notin {".", ".."}
         /\ \A i : LostWith(d, p, x, E, D, i) \in Nat
<1>1. Own(d) /\ Owned(d) /\ d.bmap \subseteq Block /\ \A y \in E : \E q \in Dirs(d) : y \in External(d, q)
  BY DEF Uprooted, Sound, Own, Typed, Counted
<1>2. \A y \in E : At(d, y).name \notin {".", ".."}
  BY <1>1 DEF External
<1>3. IsFiniteSet(E)
  <2>1. ASSUME NEW y \in E PROVE y \in Block \X (1 .. BlockSize \div 8)
    <3>1. PICK q \in Dirs(d) : y \in External(d, q)
      BY <1>1
    <3>2. q \in Marked(d) /\ y \in BlocksOf(d, q) \X (1 .. BlockSize \div 8)
      BY <3>1 DEF Dirs, External, Entries
    <3>3. \A b \in BlocksOf(d, q) : b \in d.bmap
      BY <1>1, <3>2, SlotHeld
    <3> QED
      BY <1>1, <3>2, <3>3
  <2>2. IsFiniteSet(Block) /\ BlockSize \div 8 \in Int
    BY DiskAssumption
  <2>3. IsFiniteSet(1 .. BlockSize \div 8)
    BY <2>2, FS_Interval
  <2>4. IsFiniteSet(Block \X (1 .. BlockSize \div 8))
    BY <2>2, <2>3, FS_Product
  <2> QED
    BY <2>1, <2>4, FS_Subset
<1>4. ASSUME NEW i PROVE LostWith(d, p, x, E, D, i) \in Nat
  <2> DEFINE Q == {y \in E : At(d, y).file_type = "dir" /\ i = IF y = x THEN p ELSE At(d, x).inode}
  <2>1. Cardinality(Q) \in Nat
    <3>1. Q \subseteq E
      OBVIOUS
    <3> HIDE DEF Q
    <3> QED
      BY <1>3, <3>1, FS_Subset, FS_CardinalityType
  <2>2. TimesIn(d, E, i) \in Nat
    BY NamesIn
  <2>3. LostWith(d, p, x, E, D, i) = TimesIn(d, E, i) * (IF i \in D THEN 2 ELSE 1) + Cardinality(Q)
    BY DEF LostWith
  <2> HIDE DEF Q
  <2> QED
    BY <2>1, <2>2, <2>3
<1> QED
  BY <1>2, <1>3, <1>4

\* A directory has no blocks but those in its slots.
LEMMA DirHolds ==
  ASSUME NEW d, NEW i, d.inode[i].i_size = 0
  PROVE  \A b : b # 0 => (b \in BlocksOf(d, i) <=> \E v \in Spot : Held(d, i, v) = b)
<1> SUFFICES ASSUME NEW b, b # 0 PROVE b \in BlocksOf(d, i) <=> \E v \in Spot : Held(d, i, v) = b
  OBVIOUS
<1>1. ASSUME b \in BlocksOf(d, i) PROVE \E v \in Spot : Held(d, i, v) = b
  <2>1. PICK s \in 1 .. Slots : b = d.inode[i].i_block[s]
    BY <1>1 DEF BlocksOf
  <2>2. s \in Spot /\ s <= Slots
    BY SpotFacts
  <2> QED
    BY <2>1, <2>2 DEF Held
<1>2. ASSUME NEW v \in Spot, Held(d, i, v) = b PROVE b \in BlocksOf(d, i)
  <2>1. CASE v <= Slots
    <3>1. v \in 1 .. Slots /\ b = d.inode[i].i_block[v]
      BY <1>2, <2>1, SpotFacts DEF Held
    <3> QED
      BY <3>1 DEF BlocksOf
  <2>2. CASE ~ (v <= Slots)
    <3>1. v - Slots \in 1 .. Ptrs /\ Held(d, i, v) = Through(d, i, v - Slots)
      BY <2>2, SpotFacts DEF Held
    <3>2. Through(d, i, v - Slots) = 0
      BY <3>1, SpotFacts DEF Through
    <3> QED
      BY <1>2, <3>1, <3>2
  <2> QED
    BY <2>1, <2>2
<1> QED
  BY <1>1, <1>2

\* What goes is marked, and it is D and files.
LEMMA GoneAre ==
  ASSUME NEW d, NEW p, NEW x, NEW E, NEW D, Uprooted(d, p, x, E, D), NEW G, G = GoneInodes(d, E, D)
  PROVE  /\ G \subseteq d.imap /\ D \subseteq G /\ Root \notin G
         /\ \A i \in G \ D : i \in Marked(d) \ Dirs(d) /\ d.inode[i].i_links_count \in 1 .. TimesIn(d, E, i)
<1>1. Linking(d, 0) /\ D \subseteq Dirs(d) \ {Root}
  BY DEF Uprooted, Sound
<1>2. ASSUME NEW y \in E
      PROVE  /\ At(d, y).inode \in Marked(d) /\ At(d, y).inode # Root
             /\ At(d, y).inode \in Dirs(d) <=> At(d, y).inode \in D
  <2>1. PICK q \in Dirs(d) : y \in External(d, q)
    BY DEF Uprooted
  <2>2. At(d, y).inode \in Marked(d)
    BY <1>1, <2>1 DEF Linking, External
  <2>3. At(d, y).inode \in Dirs(d) <=> At(d, y).inode \in D
    BY DEF Uprooted
  <2>4. At(d, y).inode # Root
    BY <1>1, <2>3 DEF Linking
  <2> QED
    BY <2>2, <2>3, <2>4
<1>3. ASSUME NEW i \in G, i \notin D
      PROVE  i \in Marked(d) /\ i \notin Dirs(d) /\ i # Root /\ d.inode[i].i_links_count \in 1 .. TimesIn(d, E, i)
  <2>1. d.inode[i].i_links_count \in 1 .. TimesIn(d, E, i) /\ \E y \in E : i = At(d, y).inode
    BY <1>3 DEF GoneInodes
  <2> QED
    BY <1>2, <1>3, <2>1
<1>4. \A i \in Dirs(d) : i \in Marked(d)
  BY DEF Dirs
<1>5. \A i \in Marked(d) : i # Root => i \in d.imap
  BY DEF Marked
<1> QED
  BY <1>1, <1>3, <1>4, <1>5 DEF GoneInodes

\* The blocks that are freed are those of the inodes that go.
LEMMA GoneBlocksAre ==
  ASSUME NEW d, NEW p, NEW x, NEW E, NEW D, Uprooted(d, p, x, E, D), NEW G, G = GoneInodes(d, E, D)
  PROVE  d.bmap \ GoneBlocks(d, D, G) = d.bmap \ {Held(d, g, v) : g \in G, v \in Spot}
<1>1. /\ Own(d) /\ 0 \notin d.bmap /\ d.inode \in [Inode \cup {Root} -> InodeRecord] /\ D \subseteq Dirs(d)
      /\ Marked(d) \subseteq Inode \cup {Root}
  BY NoNumberZero, DiskAssumption DEF Uprooted, Sound, Own, Typed, Counted
<1>2. ASSUME NEW i \in G, NEW b \in d.bmap
      PROVE  b \in FreedOf(d, D, i) <=> \E v \in Spot : Held(d, i, v) = b
  <2>1. CASE i \in D
    <3>1. d.inode[i].i_size = 0
      BY <1>1, <2>1 DEF Own, Shaped, Dirs
    <3> QED
      BY <1>1, <2>1, <3>1, DirHolds DEF FreedOf
  <2>2. CASE i \notin D
    <3>1. i \in Marked(d) /\ i \notin Dirs(d)
      BY <2>2, GoneAre
    <3>2. Shaped(d, i) /\ d.inode[i] \in InodeRecord
      BY <1>1, <3>1 DEF Own
    <3>3. d.inode[i].i_mode \in {"reg", "lnk"}
      BY <3>1, <3>2 DEF Shaped, InodeRecord, Dirs
    <3>4. \A c : c # 0 => (c \in FreedBlocks(d, i) <=> \E v \in Spot : Held(d, i, v) = c)
      BY <3>2, <3>3, FreedIs
    <3> QED
      BY <1>1, <2>2, <3>4 DEF FreedOf
  <2> QED
    BY <2>1, <2>2
<1>3. \A b : b \in GoneBlocks(d, D, G) <=> \E i \in G : b \in FreedOf(d, D, i)
  BY DEF GoneBlocks
<1> QED
  BY <1>2, <1>3

\* What rm leaves of the image, but for the links.
LEMMA RemovedKept ==
  ASSUME NEW d, NEW p, NEW x, NEW E, E = Going(d, x), NEW D, D = GoingDirs(d, E), Uprooted(d, p, x, E, D),
         NEW G, G = GoneInodes(d, E, D), NEW e, e = Removed(d, p, x)
  PROVE  /\ Typed(e) /\ Kept(d, e, G)
         /\ \A i \in Marked(d) :
              e.inode[i].i_links_count = (d.inode[i].i_links_count - LostWith(d, p, x, E, D, i)) % CountLimit
         /\ \A b \in Block \cup {0} : e.data[b] = ClearedBlock(d, E, b)
<1>1. /\ Sound(d, 0) /\ Own(d) /\ Typed(d) /\ Counted(d) /\ p \in Dirs(d)
      /\ DOMAIN d.data = Block \cup {0} /\ d.inode \in [Inode \cup {Root} -> InodeRecord]
      /\ d.bmap \subseteq Block /\ Marked(d) \subseteq Inode \cup {Root}
  BY NoNumberZero DEF Uprooted, Sound, Own, Typed, Counted
<1>2. Shrunk(d, p) = d
  BY <1>1, NotShrunk
<1>3. /\ Counted(e) /\ e.imap = d.imap \ G /\ e.bmap = d.bmap \ GoneBlocks(d, D, G)
      /\ e.inode = LeftInodes(d, p, x, E, D, G)
      /\ e.data = ClearedData(d, E) /\ e.word = d.word
  BY <1>1, <1>2, RemovedFields
<1>4. DOMAIN e.data = Block \cup {0} /\ \A b \in Block \cup {0} : e.data[b] = ClearedBlock(d, E, b)
  BY <1>1, <1>3 DEF ClearedData
<1>5. /\ DOMAIN e.inode = Inode \cup {Root} /\ e.inode = [i \in Inode \cup {Root} |-> e.inode[i]]
      /\ \A i \in Inode \cup {Root} :
           e.inode[i] = LeftInode(d, d.inode[i], LostWith(d, p, x, E, D, i), i \in G)
  BY <1>1, <1>3 DEF LeftInodes
<1>6. ASSUME NEW i \in Inode \cup {Root}
      PROVE  /\ e.inode[i] \in InodeRecord
             /\ e.inode[i].i_mode = d.inode[i].i_mode /\ e.inode[i].i_block = d.inode[i].i_block
             /\ e.inode[i].i_size = IF i \in G THEN 0 ELSE d.inode[i].i_size
             /\ e.inode[i].i_links_count = (d.inode[i].i_links_count - LostWith(d, p, x, E, D, i)) % CountLimit
  <2> DEFINE f == d.inode[i]
             l == LostWith(d, p, x, E, D, i)
             gone == i \in G
             g == e.inode[i]
  <2>1. f \in InodeRecord /\ l \in Nat /\ gone \in BOOLEAN /\ g = LeftInode(d, f, l, gone)
    <3>1. f \in InodeRecord
      BY <1>1
    <3>2. l \in Nat
      BY UprootedFacts
    <3>3. g = LeftInode(d, f, l, gone)
      BY <1>5
    <3>4. gone \in BOOLEAN
      OBVIOUS
    <3> QED
      BY <3>1, <3>2, <3>3, <3>4
  <2> HIDE DEF f, l, gone, g
  <2>2. /\ g \in InodeRecord /\ g.i_mode = f.i_mode /\ g.i_block = f.i_block
        /\ g.i_size = (IF gone THEN 0 ELSE f.i_size)
        /\ g.i_links_count = (f.i_links_count - l) % CountLimit
    BY <2>1, LeftInodeIs
  <2> QED
    BY <2>2 DEF f, l, gone, g
<1>7. \A b \in Block \cup {0} : KeepsDots(e.data[b], d.data[b]) /\ (e.data[b] = <<>> \/ GoodBlock(e.data[b]))
  <2> SUFFICES ASSUME NEW b \in Block \cup {0}
               PROVE  KeepsDots(e.data[b], d.data[b]) /\ (e.data[b] = <<>> \/ GoodBlock(e.data[b]))
    OBVIOUS
  <2>1. \A y \in E : At(d, y).name \notin {".", ".."}
    BY UprootedFacts
  <2> DEFINE new == e.data[b]
  <2>2. new = ClearedBlock(d, E, b)
    BY <1>4
  <2> HIDE DEF new
  <2>3. KeepsDots(new, d.data[b]) /\ (new = <<>> \/ GoodBlock(new))
    BY <1>1, <2>1, <2>2, ClearedFacts
  <2> QED
    BY <2>3 DEF new
<1>8. Typed(e)
  <2>1. e.inode \in [Inode \cup {Root} -> InodeRecord]
    BY <1>5, <1>6
  <2>2. e.word \in [Block \cup {0} -> [1 .. Ptrs -> Block \cup {0, Junk}]]
    BY <1>1, <1>3 DEF Typed
  <2> QED
    BY <1>3, <1>4, <1>7, <2>1, <2>2 DEF Typed
<1>9. G \subseteq d.imap
  BY GoneAre
<1>10. e.bmap = d.bmap \ {Held(d, g, v) : g \in G, v \in Spot}
  BY <1>3, GoneBlocksAre
<1>11. \A j \in Marked(e) : SameInode(e.inode[j], d.inode[j])
  <2>1. \A j \in Marked(e) : j \in Inode \cup {Root} /\ j \notin G
    BY <1>1, <1>3, GoneAre DEF Marked
  <2> QED
    BY <1>6, <2>1 DEF SameInode
<1>12. \A b \in e.bmap : KeepsDots(e.data[b], d.data[b])
  BY <1>1, <1>3, <1>7
<1>13. Kept(d, e, G)
  BY <1>3, <1>9, <1>10, <1>11, <1>12 DEF Kept
<1> QED
  BY <1>1, <1>4, <1>6, <1>8, <1>13

\* Image e is image d without the entries E and the inodes G.
Cut(d, p, x, E, D, G, e) ==
  /\ Uprooted(d, p, x, E, D) /\ G = GoneInodes(d, E, D)
  /\ Own(e) /\ Marked(e) = Marked(d) \ G /\ Dirs(e) = Dirs(d) \ D
  /\ \A q \in Dirs(e) : /\ Above(e, q) = Above(d, q)
                        /\ \A y : y \in Entries(e, q) <=> y \in Entries(d, q) /\ y \notin E
                        /\ \A y : y \in External(e, q) <=> y \in External(d, q) /\ y \notin E
                        /\ \A y \in Entries(e, q) : SameEntry(At(e, y), At(d, y))
  /\ \A i \in Marked(d) :
       e.inode[i].i_links_count = (d.inode[i].i_links_count - LostWith(d, p, x, E, D, i)) % CountLimit

\* Removed cuts what is uprooted out of the image.
LEMMA RemovedCut ==
  ASSUME NEW d, NEW p, NEW x, NEW E, E = Going(d, x), NEW D, D = GoingDirs(d, E), Uprooted(d, p, x, E, D),
         NEW G, G = GoneInodes(d, E, D), NEW e, e = Removed(d, p, x)
  PROVE  Cut(d, p, x, E, D, G, e)
<1>1. /\ Typed(e) /\ Kept(d, e, G)
      /\ \A i \in Marked(d) :
           e.inode[i].i_links_count = (d.inode[i].i_links_count - LostWith(d, p, x, E, D, i)) % CountLimit
      /\ \A b \in Block \cup {0} : e.data[b] = ClearedBlock(d, E, b)
  BY RemovedKept
<1>2. Own(d) /\ d.bmap \subseteq Block
  BY DEF Uprooted, Sound, Own, Typed, Counted
<1>3. /\ Own(e) /\ Marked(e) = Marked(d) \ G
      /\ \A q \in Marked(e) : /\ BlocksOf(e, q) = BlocksOf(d, q) /\ BlocksOf(e, q) \subseteq e.bmap
                              /\ e.inode[q].i_mode = d.inode[q].i_mode
      /\ \A q \in Dirs(e) : Above(e, q) = Above(d, q)
  BY <1>1, <1>2, OwnKept
<1>4. /\ D \subseteq G /\ \A i \in G \ D : i \notin Dirs(d)
  BY GoneAre
<1>5. Dirs(e) = Dirs(d) \ D
  BY <1>3, <1>4 DEF Dirs
<1>6. \A y \in E : At(d, y).name \notin {".", ".."} /\ \E q \in Dirs(d) : y \in External(d, q)
  <2>1. \A y \in E : At(d, y).name \notin {".", ".."}
    BY UprootedFacts
  <2>2. \A y \in E : \E q \in Dirs(d) : y \in External(d, q)
    BY DEF Uprooted
  <2> QED
    BY <2>1, <2>2
<1>7. \A y \in E : y = <<y[1], y[2]>>
  BY <1>6, EntryFacts DEF External
<1>8. ASSUME NEW q \in Dirs(e)
      PROVE  /\ \A y : y \in Entries(e, q) <=> y \in Entries(d, q) /\ y \notin E
             /\ \A y \in Entries(e, q) : SameEntry(At(e, y), At(d, y))
  <2>1. BlocksOf(e, q) = BlocksOf(d, q) /\ q \in Marked(e) /\ e.bmap \subseteq Block
    BY <1>1, <1>3 DEF Dirs, Typed, Counted
  <2>2. ASSUME NEW b \in BlocksOf(d, q)
        PROVE  /\ DOMAIN e.data[b] = DOMAIN d.data[b]
               /\ \A k \in DOMAIN d.data[b] : /\ e.data[b][k].name = d.data[b][k].name
                                              /\ e.data[b][k].file_type = d.data[b][k].file_type
                                              /\ e.data[b][k].inode = IF <<b, k>> \in E THEN 0 ELSE d.data[b][k].inode
    <3> DEFINE new == e.data[b]
    <3>1. b \in Block \cup {0}
      BY <1>3, <2>1
    <3>2. new = ClearedBlock(d, E, b)
      BY <1>1, <3>1
    <3> HIDE DEF new
    <3>3. /\ DOMAIN new = DOMAIN d.data[b]
          /\ \A k \in DOMAIN new : /\ new[k].name = d.data[b][k].name
                                   /\ new[k].file_type = d.data[b][k].file_type
                                   /\ new[k].inode = IF <<b, k>> \in E THEN 0 ELSE d.data[b][k].inode
      BY <1>2, <1>6, <3>1, <3>2, ClearedFacts
    <3> QED
      BY <3>3 DEF new
  <2>3. ASSUME NEW y, y \in Entries(e, q) PROVE y \in Entries(d, q) /\ y \notin E /\ SameEntry(At(e, y), At(d, y))
    <3> DEFINE b == y[1]
               k == y[2]
    <3>1. /\ y = <<b, k>> /\ b \in BlocksOf(d, q) /\ k \in 1 .. BlockSize \div 8 /\ k \in DOMAIN e.data[b]
          /\ e.data[b][k].inode # 0
      BY <2>1, <2>3, EntryFacts DEF At
    <3>2. /\ k \in DOMAIN d.data[b] /\ <<b, k>> \notin E /\ e.data[b][k].inode = d.data[b][k].inode
          /\ e.data[b][k].name = d.data[b][k].name /\ e.data[b][k].file_type = d.data[b][k].file_type
      BY <2>2, <3>1
    <3>3. <<b, k>> \in Entries(d, q)
      BY <3>1, <3>2, EntryAt
    <3>4. SameEntry(At(e, y), At(d, y))
      BY <3>2 DEF SameEntry, At
    <3> QED
      BY <3>1, <3>2, <3>3, <3>4
  <2>4. ASSUME NEW y, y \in Entries(d, q), y \notin E PROVE y \in Entries(e, q)
    <3> DEFINE b == y[1]
               k == y[2]
    <3>1. /\ y = <<b, k>> /\ b \in BlocksOf(d, q) /\ k \in 1 .. BlockSize \div 8 /\ k \in DOMAIN d.data[b]
          /\ d.data[b][k].inode # 0
      BY <2>4, EntryFacts DEF At
    <3>2. k \in DOMAIN e.data[b] /\ e.data[b][k].inode = d.data[b][k].inode
      BY <2>2, <2>4, <3>1
    <3>3. <<b, k>> \in Entries(e, q)
      BY <2>1, <3>1, <3>2, EntryAt
    <3> QED
      BY <3>1, <3>3
  <2> QED
    BY <2>3, <2>4
<1>9. ASSUME NEW q \in Dirs(e) PROVE \A y : y \in External(e, q) <=> y \in External(d, q) /\ y \notin E
  BY <1>8 DEF External, SameEntry
<1> QED
  BY <1>1, <1>3, <1>5, <1>8, <1>9 DEF Cut

\* The names of an inode are those that it has left.
LEMMA NamedLeft ==
  ASSUME NEW d, NEW p, NEW x, NEW E, NEW D, NEW G, NEW e, Cut(d, p, x, E, D, G, e), NEW i
  PROVE  Named(e, i) = Left(d, E, D, i)
<1>1. /\ Dirs(e) = Dirs(d) \ D
      /\ \A q \in Dirs(e) : /\ \A y : y \in Entries(e, q) <=> y \in Entries(d, q) /\ y \notin E
                            /\ \A y \in Entries(e, q) : At(e, y).inode = At(d, y).inode
  BY DEF Cut, SameEntry
<1>2. ASSUME NEW z, z \in Named(e, i) PROVE z \in Left(d, E, D, i)
  <2>6. PICK q \in Dirs(e) : \E y \in Entries(e, q) : z = <<q, y>> /\ At(e, y).inode = i
    BY <1>2, NamedIs
  <2>1. PICK y \in Entries(e, q) : z = <<q, y>> /\ At(e, y).inode = i
    BY <2>6
  <2>2. q \in Dirs(d) /\ q \notin D /\ y \in Entries(d, q) /\ y \notin E /\ At(d, y).inode = i
    BY <1>1, <2>1
  <2>3. z \in Named(d, i)
    BY <2>1, <2>2, NamedIs
  <2>4. z[1] = q /\ z[2] = y
    BY <2>1
  <2> QED
    BY <2>2, <2>3, <2>4 DEF Left
<1>3. ASSUME NEW z, z \in Left(d, E, D, i) PROVE z \in Named(e, i)
  <2>1. z \in Named(d, i) /\ z[1] \notin D /\ z[2] \notin E
    BY <1>3 DEF Left
  <2>6. PICK q \in Dirs(d) : \E y \in Entries(d, q) : z = <<q, y>> /\ At(d, y).inode = i
    BY <2>1, NamedIs
  <2>2. PICK y \in Entries(d, q) : z = <<q, y>> /\ At(d, y).inode = i
    BY <2>6
  <2>3. z[1] = q /\ z[2] = y
    BY <2>2
  <2>4. q \in Dirs(e) /\ y \in Entries(e, q)
    BY <1>1, <2>1, <2>3
  <2>5. At(e, y).inode = i
    BY <1>1, <2>2, <2>4
  <2> QED
    BY <2>2, <2>4, <2>5, NamedIs
<1> QED
  BY <1>2, <1>3

\* An inode that stays has as many names as its count says.
LEMMA CutCount ==
  ASSUME NEW d, NEW p, NEW x, NEW E, NEW D, NEW G, NEW e, Cut(d, p, x, E, D, G, e), NEW i \in Marked(d) \ D
  PROVE  /\ IsFiniteSet(Named(e, i)) /\ Cardinality(Named(e, i)) \in Nat
         /\ e.inode[i].i_links_count = Cardinality(Named(e, i))
         /\ i \notin Dirs(d) =>
              /\ Cardinality(Named(e, i)) = d.inode[i].i_links_count - TimesIn(d, E, i)
              /\ d.inode[i].i_links_count \in Nat /\ TimesIn(d, E, i) \in Nat
              /\ \A z \in Named(e, i) : z[2] \in External(d, z[1])
<1> DEFINE N == Cardinality(Named(d, i))
           M == Cardinality(Named(e, i))
           l == LostWith(d, p, x, E, D, i)
           c == d.inode[i].i_links_count
<1>1. Uprooted(d, p, x, E, D) /\ Sound(d, 0) /\ Own(d) /\ Own(e) /\ Linking(d, 0)
  BY DEF Cut, Uprooted, Sound
<1>2. IsFiniteSet(Named(e, i)) /\ M \in Nat /\ M + 1 < CountLimit
  BY <1>1, NamedBound
<1>3. N \in Nat
  BY <1>1, NamedBound
<1>4. c = N
  <2>1. i # 0
    BY <1>1, NoNumberZero DEF Own
  <2>2. c = N + 0
    BY <1>1, <2>1 DEF Linking
  <2> QED
    BY <1>3, <2>2
<1>5. Named(e, i) = Left(d, E, D, i)
  BY NamedLeft
<1>6. l \in Nat
  BY <1>1, UprootedFacts
<1>7. M = N - l
  <2>1. CASE i \in Dirs(d)
    BY <1>1, <1>5, <2>1, DirNamesLeft
  <2>2. CASE i \notin Dirs(d)
    <3>1. l = TimesIn(d, E, i) /\ M = N - TimesIn(d, E, i)
      BY <1>1, <1>5, <2>2, FileNamesLeft
    <3> QED
      BY <3>1
  <2> QED
    BY <2>1, <2>2
<1>8. e.inode[i].i_links_count = (c - l) % CountLimit
  BY DEF Cut
<1>9. M % CountLimit = M
  <2> HIDE DEF M
  <2> QED
    BY <1>2 DEF CountLimit
<1>10. i \notin Dirs(d) =>
         /\ l = TimesIn(d, E, i)
         /\ \A z \in Named(e, i) : z[2] \in External(d, z[1])
  BY <1>1, <1>5, FileNamesLeft
<1> HIDE DEF N, M, l, c
<1>11. e.inode[i].i_links_count = M
  BY <1>4, <1>7, <1>8, <1>9
<1>12. i \notin Dirs(d) => M = c - TimesIn(d, E, i) /\ c \in Nat /\ TimesIn(d, E, i) \in Nat
  BY <1>3, <1>4, <1>6, <1>7, <1>10
<1> QED
  BY <1>2, <1>10, <1>11, <1>12 DEF M, c

\* No entry that is left names what has gone.
LEMMA CutNames ==
  ASSUME NEW d, NEW p, NEW x, NEW E, NEW D, NEW G, NEW e, Cut(d, p, x, E, D, G, e),
         NEW q \in Dirs(e), NEW y \in Entries(e, q)
  PROVE  At(d, y).inode \notin G
<1> DEFINE i == At(d, y).inode
<1>1. /\ Uprooted(d, p, x, E, D) /\ Sound(d, 0) /\ Linking(d, 0) /\ G = GoneInodes(d, E, D)
      /\ q \in Dirs(d) \ D /\ y \in Entries(d, q) /\ y \notin E /\ At(e, y).inode = i
  BY DEF Cut, Uprooted, Sound, SameEntry
<1>2. ASSUME i \in D PROVE FALSE
  <2>1. CASE y \in External(d, q)
    BY <1>1, <1>2, <2>1 DEF Uprooted
  <2>2. CASE y \notin External(d, q)
    <3>1. At(d, y).name = "." \/ At(d, y).name = ".."
      BY <1>1, <2>2 DEF External
    <3> DEFINE v == <<d.inode[q].i_block[1], 2>>
    <3>2. /\ At(d, y).name = "." => At(d, y).inode = q
          /\ At(d, y).name = ".." => y = v
          /\ At(d, v).inode = Above(d, q)
      BY <1>1, DotsAre
    <3> HIDE DEF v
    <3>3. i = q \/ i = Above(d, q)
      BY <3>1, <3>2
    <3>4. Above(d, q) \notin D
      BY <1>1 DEF Uprooted
    <3> QED
      BY <1>1, <1>2, <3>3, <3>4
  <2> QED
    BY <2>1, <2>2
<1>3. ASSUME i \in G, i \notin D PROVE FALSE
  <2>1. i \in Marked(d) \ Dirs(d) /\ d.inode[i].i_links_count \in 1 .. TimesIn(d, E, i)
    BY <1>1, <1>3, GoneAre
  <2>2. /\ IsFiniteSet(Named(e, i)) /\ Cardinality(Named(e, i)) \in Nat
        /\ Cardinality(Named(e, i)) = d.inode[i].i_links_count - TimesIn(d, E, i)
        /\ d.inode[i].i_links_count \in Nat /\ TimesIn(d, E, i) \in Nat
    BY <1>3, <2>1, CutCount
  <2>3. Cardinality(Named(e, i)) = 0
    BY <2>1, <2>2
  <2>4. Named(e, i) = {}
    BY <2>2, <2>3, FS_EmptySet
  <2>5. <<q, y>> \in Named(e, i)
    BY <1>1, NamedIs
  <2> QED
    BY <2>4, <2>5
<1> QED
  BY <1>2, <1>3

\* A directory's entry stays where the directory stays.
LEMMA CutDirs ==
  ASSUME NEW d, NEW p, NEW x, NEW E, NEW D, NEW G, NEW e, Cut(d, p, x, E, D, G, e),
         NEW q \in Dirs(d), NEW y \in External(d, q), At(d, y).inode \in Dirs(e) \/ y \notin E
  PROVE  q \in Dirs(e) /\ y \in External(e, q) /\ y \in Entries(e, q) /\ SameEntry(At(e, y), At(d, y))
<1>1. Uprooted(d, p, x, E, D) /\ Dirs(e) = Dirs(d) \ D
  BY DEF Cut
<1>2. y \notin E
  BY <1>1 DEF Uprooted
<1>3. q \notin D
  BY <1>1, <1>2 DEF Uprooted
<1>4. q \in Dirs(e) /\ y \in External(e, q)
  BY <1>1, <1>2, <1>3 DEF Cut
<1>5. y \in Entries(e, q)
  BY <1>4 DEF External
<1> QED
  BY <1>4, <1>5 DEF Cut

\* What stays is named.
LEMMA CutNamed ==
  ASSUME NEW d, NEW p, NEW x, NEW E, NEW D, NEW G, NEW e, Cut(d, p, x, E, D, G, e),
         NEW i \in Marked(e) \ {Root}
  PROVE  \E q \in Dirs(e) : \E y \in External(e, q) : At(e, y).inode = i
<1>1. /\ Uprooted(d, p, x, E, D) /\ Linking(d, 0) /\ Own(d) /\ G = GoneInodes(d, E, D)
      /\ i \in Marked(d) /\ i \notin G /\ i \notin D
      /\ Dirs(e) = Dirs(d) \ D
  BY GoneAre DEF Cut, Uprooted, Sound
<1>2. i # 0
  BY <1>1, NoNumberZero DEF Own
<1>3. PICK q \in Dirs(d) : \E y \in External(d, q) : At(d, y).inode = i
  BY <1>1, <1>2 DEF Linking
<1>4. PICK y \in External(d, q) : At(d, y).inode = i
  BY <1>3
<1>5. CASE i \in Dirs(d) \/ y \notin E
  <2>1. q \in Dirs(e) /\ y \in External(e, q) /\ At(e, y).inode = At(d, y).inode
    BY <1>1, <1>4, <1>5, CutDirs DEF SameEntry
  <2> QED
    BY <1>4, <2>1
<1>6. CASE i \notin Dirs(d) /\ y \in E
  <2> DEFINE M == Cardinality(Named(e, i))
             t == TimesIn(d, E, i)
             c == d.inode[i].i_links_count
  <2>1. /\ M \in Nat /\ M = c - t /\ c \in Nat /\ t \in Nat
        /\ \A z \in Named(e, i) : z[2] \in External(d, z[1])
    BY <1>1, <1>6, CutCount
  <2>2. t >= 1
    BY <1>1, <1>4, <1>6, NamesIn
  <2>3. ~ (c \in 1 .. t)
    BY <1>1, <1>4, <1>6 DEF GoneInodes
  <2> HIDE DEF t, c
  <2>4. M # 0
    BY <2>1, <2>2, <2>3
  <2>5. Named(e, i) # {}
    BY <2>4, FS_EmptySet
  <2>6. PICK z \in Named(e, i) : TRUE
    BY <2>5
  <2>7. PICK r \in Dirs(e) : \E w \in Entries(e, r) : z = <<r, w>> /\ At(e, w).inode = i
    BY NamedIs
  <2>8. PICK w \in Entries(e, r) : z = <<r, w>> /\ At(e, w).inode = i
    BY <2>7
  <2>9. w \in External(d, r) /\ w \notin E
    <3>1. z[1] = r /\ z[2] = w
      BY <2>8
    <3>2. w \in External(d, r)
      BY <2>1, <3>1
    <3> QED
      BY <3>2 DEF Cut
  <2>10. w \in External(e, r)
    BY <2>9 DEF Cut
  <2> QED
    BY <2>8, <2>10
<1> QED
  BY <1>5, <1>6

\* The links of what is left.
LEMMA CutLinking ==
  ASSUME NEW d, NEW p, NEW x, NEW E, NEW D, NEW G, NEW e, Cut(d, p, x, E, D, G, e)
  PROVE  Linking(e, 0)
<1>1. /\ Uprooted(d, p, x, E, D) /\ Linking(d, 0) /\ Own(d) /\ Own(e) /\ G = GoneInodes(d, E, D)
      /\ Marked(e) = Marked(d) \ G /\ Dirs(e) = Dirs(d) \ D
  BY DEF Cut, Uprooted, Sound
<1>2. ASSUME NEW q \in Dirs(e)
      PROVE  /\ q \in Dirs(d) /\ Above(e, q) = Above(d, q)
             /\ \A y \in Entries(e, q) : y \in Entries(d, q) /\ SameEntry(At(e, y), At(d, y))
             /\ \A y \in External(e, q) : y \in External(d, q) /\ y \in Entries(e, q)
  BY <1>1 DEF Cut, External
<1>3. D \subseteq G /\ Root \notin D
  BY <1>1, GoneAre
<1>4. ASSUME NEW q \in Dirs(e), NEW y \in Entries(e, q)
      PROVE  At(e, y).inode \in Marked(e) /\ (At(e, y).file_type = "dir" <=> At(e, y).inode \in Dirs(e))
  <2>1. At(d, y).inode \notin G
    BY CutNames
  <2>2. /\ At(e, y).inode = At(d, y).inode /\ At(e, y).file_type = At(d, y).file_type
        /\ q \in Dirs(d) /\ y \in Entries(d, q)
    BY <1>2 DEF SameEntry
  <2>3. At(d, y).inode \in Marked(d) /\ (At(d, y).file_type = "dir" <=> At(d, y).inode \in Dirs(d))
    BY <1>1, <2>2 DEF Linking
  <2> QED
    BY <1>1, <1>3, <2>1, <2>2, <2>3
<1>5. ASSUME NEW q \in Dirs(e), NEW y \in Entries(e, q), NEW z \in Entries(e, q), At(e, y).name = At(e, z).name
      PROVE  y = z
  <2>1. At(d, y).name = At(d, z).name /\ y \in Entries(d, q) /\ z \in Entries(d, q) /\ q \in Dirs(d)
    BY <1>2, <1>5 DEF SameEntry
  <2> QED
    BY <1>1, <2>1 DEF Linking
<1>6. Root \in Dirs(e) /\ Above(e, Root) = Root
  <2>1. Root \in Dirs(d) /\ Above(d, Root) = Root
    BY <1>1 DEF Linking
  <2> QED
    BY <1>1, <1>2, <1>3, <2>1
<1>7. ASSUME NEW q \in Dirs(e), NEW y \in External(e, q), At(e, y).inode \in Dirs(e)
      PROVE  /\ At(e, y).inode # Root /\ Above(e, At(e, y).inode) = q
             /\ \A z \in External(e, q) : At(e, y).inode = At(e, z).inode => y = z
  <2>1. /\ q \in Dirs(d) /\ y \in External(d, q) /\ At(e, y).inode = At(d, y).inode
        /\ \A z \in External(e, q) : z \in External(d, q) /\ At(e, z).inode = At(d, z).inode
    BY <1>2 DEF SameEntry
  <2>2. At(d, y).inode \in Dirs(d) /\ Above(e, At(d, y).inode) = Above(d, At(d, y).inode)
    BY <1>2, <1>7, <2>1
  <2>3. At(d, y).inode # Root /\ Above(d, At(d, y).inode) = q
    BY <1>1, <2>1, <2>2 DEF Linking
  <2>4. \A z \in External(d, q) : At(d, y).inode = At(d, z).inode => y = z
    BY <1>1, <2>1, <2>2 DEF Linking
  <2> QED
    BY <2>1, <2>2, <2>3, <2>4
<1>8. \A i \in Marked(e) \ {Root, 0} : \E q \in Dirs(e) : \E y \in External(e, q) : At(e, y).inode = i
  BY CutNamed
<1>9. \A i \in Marked(e) : e.inode[i].i_links_count = Cardinality(Named(e, i)) + (IF i = 0 THEN 1 ELSE 0)
  <2> SUFFICES ASSUME NEW i \in Marked(e)
               PROVE  e.inode[i].i_links_count = Cardinality(Named(e, i)) + (IF i = 0 THEN 1 ELSE 0)
    OBVIOUS
  <2>1. i \in Marked(d) \ D
    BY <1>1, <1>3
  <2>2. Cardinality(Named(e, i)) \in Nat /\ e.inode[i].i_links_count = Cardinality(Named(e, i))
    BY <2>1, CutCount
  <2>3. i # 0
    BY <1>1, NoNumberZero DEF Own
  <2> QED
    BY <2>2, <2>3
<1> QED
  BY <1>4, <1>5, <1>6, <1>7, <1>8, <1>9 DEF Linking

\* What is left is as good as the whole.
LEMMA CutImage ==
  ASSUME NEW d, Image(d), NEW p, NEW x, NEW E, NEW D, NEW G, NEW e, Cut(d, p, x, E, D, G, e)
  PROVE  Image(e)
<1>1. Sound(d, 0) /\ Reached(d, 0)
  BY DEF Image
<1>2. Sound(e, 0)
  BY CutLinking DEF Cut, Sound
<1>3. Dirs(e) \subseteq Dirs(d) /\ \A q \in Dirs(e) : External(e, q) \subseteq External(d, q)
  BY DEF Cut
<1>4. \A q \in Dirs(d) : \A y \in External(d, q) :
        At(d, y).inode \in Dirs(e) => q \in Dirs(e) /\ y \in Entries(e, q) /\ SameEntry(At(e, y), At(d, y))
  BY CutDirs
<1>5. Reached(e, 0)
  BY <1>1, <1>2, <1>3, <1>4, ReachedKept
<1> QED
  BY <1>2, <1>5 DEF Image

\* What rm leaves.
LEMMA RmKeeps ==
  ASSUME NEW d, Image(d), NEW path \in Path, NEW r \in BOOLEAN,
         Len(path) > 1 => TypeOf(d, ParentPath(path)) \in {"dir", "none"},
         r /\ TypeOf(d, path) = "dir" => Shallow(d, InodeOf(d, path)),
         NEW o, o = rm(d, path, r)
  PROVE  Image(o.disk) /\ o.result \in Results
<1> DEFINE p == Parent(d, path)
           x == find_dir_entry(d, path)
           i == InodeOf(d, path)
           e == Removed(d, p, x)
<1>1. Sound(d, 0)
  BY DEF Image
<1>2. ASSUME Exists(d, path), TypeOf(d, path) = "dir" => r PROVE Image(e)
  <2>1. /\ i # 0 /\ p \in Dirs(d) /\ x \in External(d, p) /\ At(d, x).inode = i
        /\ TypeOf(d, path) = "dir" <=> i \in Dirs(d)
    BY <1>1, <1>2, PathStep DEF Exists, Parent
  <2>2. i # p
    BY <1>1, <2>1, NotOwnParent DEF Parent
  <2> DEFINE E == Going(d, x)
             D == GoingDirs(d, E)
             G == GoneInodes(d, E, D)
  <2>3. i \in Dirs(d) => Shallow(d, i)
    BY <1>2, <2>1
  <2> HIDE DEF p, x, i, e
  <2>4. Uprooted(d, p, x, E, D)
    BY <1>1, <2>1, <2>2, <2>3, GoingIsUprooted
  <2>5. E = Going(d, x) /\ D = GoingDirs(d, E) /\ G = GoneInodes(d, E, D)
    OBVIOUS
  <2>6. e = Removed(d, p, x)
    BY DEF e
  <2> HIDE DEF E, D, G
  <2>7. Cut(d, p, x, E, D, G, e)
    BY <2>4, <2>5, <2>6, RemovedCut
  <2> QED
    BY <2>7, CutImage
<1>3. \/ o = Outcome(d, "ENOENT") \/ o = Outcome(d, "EISDIR")
      \/ o = Outcome(e, "OK") /\ Exists(d, path) /\ (TypeOf(d, path) = "dir" => r)
  BY DEF rm
<1> HIDE DEF e
<1>4. \A f, s : Outcome(f, s).disk = f /\ Outcome(f, s).result = s
  BY DEF Outcome
<1>5. "ENOENT" \in Results /\ "EISDIR" \in Results /\ "OK" \in Results
  BY DEF Results
<1>6. CASE o = Outcome(d, "ENOENT")
  BY <1>4, <1>5, <1>6
<1>7. CASE o = Outcome(d, "EISDIR")
  BY <1>4, <1>5, <1>7
<1>8. CASE o = Outcome(e, "OK") /\ Exists(d, path) /\ (TypeOf(d, path) = "dir" => r)
  BY <1>2, <1>4, <1>5, <1>8
<1> QED
  BY <1>3, <1>6, <1>7, <1>8

-----------------------------------------------------------------------------
(* The initial disk. *)

\* An inode with one block and no size has nothing else.
LEMMA PlacedIs ==
  ASSUME NEW mode \in {"none", "dir", "reg", "lnk"}, NEW l \in 0 .. 2, NEW b \in Block,
         NEW g, g = Placed(FreshInode(mode, l), b)
  PROVE  /\ g \in InodeRecord /\ g.i_mode = mode /\ g.i_links_count = l /\ g.i_size = 0
         /\ \A s \in 1 .. Slots : g.i_block[s] = IF s = 1 THEN b ELSE 0
<1> DEFINE f == FreshInode(mode, l)
           B == [f.i_block EXCEPT ![1] = b]
<1>1. /\ f \in InodeRecord /\ f.i_mode = mode /\ f.i_links_count = l /\ f.i_size = 0
      /\ f.i_block = [s \in 1 .. Slots |-> 0]
  BY FreshIs
<1> HIDE DEF f
<1>2. 1 \in 1 .. Slots
  BY SpotFacts
<1>3. B \in [1 .. Slots -> Block \cup {0}] /\ \A s \in 1 .. Slots : B[s] = IF s = 1 THEN b ELSE 0
  BY <1>1, <1>2
<1>4. g = [f EXCEPT !.i_block = B]
  BY DEF Placed, f
<1> HIDE DEF B
<1> QED
  BY <1>1, <1>3, <1>4 DEF InodeRecord

\* An image with nothing but the root directory, which has one block.
Bare(d) ==
  /\ Typed(d) /\ d.imap = {} /\ d.bmap = {RootBlock} /\ RootBlock # 0
  /\ d.inode[Root].i_mode = "dir" /\ d.inode[Root].i_links_count = 2 /\ d.inode[Root].i_size = 0
  /\ \A s \in 1 .. Slots : d.inode[Root].i_block[s] = IF s = 1 THEN RootBlock ELSE 0
  /\ d.data[RootBlock] = DirBlock(Root, Root)

\* The fresh disk is one with a root directory and nothing else.
LEMMA FreshBare == Bare(FreshDisk)
<1> DEFINE d == FreshDisk
           f == FreshInode("none", 0)
           g == Placed(FreshInode("dir", 2), RootBlock)
           es == DirBlock(Root, Root)
           zeros == [w \in 1 .. Ptrs |-> 0]
<1>1. RootBlock \in Block /\ RootBlock # 0
  BY MinOfNaturals, DiskAssumption DEF RootBlock
<1>2. /\ d.imap = {} /\ d.bmap = {RootBlock}
      /\ d.inode = [i \in Inode \cup {Root} |-> IF i = Root THEN g ELSE f]
      /\ d.data = [b \in Block \cup {0} |-> IF b = RootBlock THEN es ELSE <<>>]
      /\ d.word = [b \in Block \cup {0} |-> IF b = RootBlock THEN Bytes ELSE zeros]
  BY DEF FreshDisk, Placed
<1>3. Counted(d)
  BY FreshCounted
<1>4. /\ g \in InodeRecord /\ g.i_mode = "dir" /\ g.i_links_count = 2 /\ g.i_size = 0
      /\ \A s \in 1 .. Slots : g.i_block[s] = IF s = 1 THEN RootBlock ELSE 0
  BY <1>1, PlacedIs
<1>5. f \in InodeRecord
  BY FreshIs
<1>6. GoodBlock(es)
  BY GoodDirBlock
<1>7. Bytes \in [1 .. Ptrs -> Block \cup {0, Junk}] /\ zeros \in [1 .. Ptrs -> Block \cup {0, Junk}]
  BY DEF Bytes
<1> HIDE DEF d, f, g, es, zeros
<1>8. d.inode \in [Inode \cup {Root} -> InodeRecord] /\ d.inode[Root] = g
  BY <1>2, <1>4, <1>5
<1>9. /\ DOMAIN d.data = Block \cup {0} /\ d.data[RootBlock] = es
      /\ \A b \in Block \cup {0} : d.data[b] = <<>> \/ GoodBlock(d.data[b])
  BY <1>1, <1>2, <1>6
<1>10. d.word \in [Block \cup {0} -> [1 .. Ptrs -> Block \cup {0, Junk}]]
  BY <1>2, <1>7
<1>11. Typed(d)
  BY <1>3, <1>8, <1>9, <1>10 DEF Typed
<1> QED
  BY <1>1, <1>2, <1>4, <1>8, <1>9, <1>11 DEF Bare, d, es

\* A disk with a root directory and nothing else is an image.
LEMMA BareImage ==
  ASSUME NEW d, Bare(d)
  PROVE  Image(d)
<1> DEFINE es == DirBlock(Root, Root)
           b == RootBlock
           u == <<b, 1>>
           v == <<b, 2>>
<1>1. Marked(d) = {Root} /\ Dirs(d) = {Root} /\ Typed(d) /\ Root # 0
  BY DEF Bare, Marked, Dirs, Root
<1>2. /\ GoodBlock(es) /\ Len(es) = 2
      /\ SameEntry(es[1], DirEntry(Root, ".", 12, "dir")) /\ SameEntry(es[2], DirEntry(Root, "..", 12, "dir"))
  BY GoodDirBlock
<1>3. DOMAIN es = 1 .. 2 /\ es # <<>>
  BY <1>2, GoodFacts DEF GoodBlock
<1> HIDE DEF es
<1>4. BlocksOf(d, Root) = {b}
  BY SpotFacts DEF Bare, BlocksOf
<1>5. \A w \in Spot : Held(d, Root, w) = IF w = 1 THEN b ELSE 0
  <2> SUFFICES ASSUME NEW w \in Spot PROVE Held(d, Root, w) = IF w = 1 THEN b ELSE 0
    OBVIOUS
  <2>1. CASE w <= Slots
    BY <2>1, SpotFacts DEF Held, Bare
  <2>2. CASE ~ (w <= Slots)
    <3>1. w - Slots \in 1 .. Ptrs /\ Held(d, Root, w) = Through(d, Root, w - Slots) /\ w # 1
      BY <2>2, SpotFacts DEF Held
    <3>2. Through(d, Root, w - Slots) = 0
      BY <3>1, SpotFacts DEF Through, Bare
    <3> QED
      BY <3>1, <3>2
  <2> QED
    BY <2>1, <2>2
<1>6. Owned(d)
  <2>1. 1 \in Spot /\ d.bmap = {b} /\ b # 0
    BY SpotFacts DEF Bare
  <2> QED
    BY <1>1, <1>5, <2>1 DEF Owned
<1>7. d.data[b] = es /\ d.inode[Root].i_block[1] = b /\ b # 0 /\ d.inode[Root].i_mode = "dir" /\ d.inode[Root].i_size = 0
  BY SpotFacts DEF Bare, es
<1>8. es[1].name = "." /\ es[1].inode = Root /\ es[2].name = ".." /\ es[2].inode = Root
      /\ es[1].file_type = "dir" /\ es[2].file_type = "dir"
  BY <1>2 DEF SameEntry, DirEntry
<1>9. DirShape(d, Root) /\ Above(d, Root) = Root
  BY <1>1, <1>2, <1>3, <1>4, <1>7, <1>8, Len(es) >= 2, Zenon DEF DirShape, Above
<1>10. Own(d)
  <2>1. Shaped(d, Root)
    BY <1>7, <1>9 DEF Shaped
  <2> QED
    BY <1>1, <1>6, <2>1 DEF Own
<1>11. Entries(d, Root) = {u, v} /\ u # v /\ At(d, u) = es[1] /\ At(d, v) = es[2]
  <2>1. 1 \in 1 .. BlockSize \div 8 /\ 2 \in 1 .. BlockSize \div 8
    BY LengthFacts
  <2>2. u \in Entries(d, Root) /\ v \in Entries(d, Root)
    <3>1. b \in BlocksOf(d, Root) /\ 1 \in DOMAIN d.data[b] /\ 2 \in DOMAIN d.data[b]
      BY <1>3, <1>4, <1>7
    <3>2. d.data[b][1].inode # 0 /\ d.data[b][2].inode # 0
      BY <1>1, <1>7, <1>8
    <3> QED
      BY <2>1, <3>1, <3>2, EntryAt
  <2>3. ASSUME NEW x \in Entries(d, Root) PROVE x \in {u, v}
    <3>1. x = <<x[1], x[2]>> /\ x[1] = b /\ x[2] \in DOMAIN d.data[x[1]]
      BY <1>4, EntryFacts
    <3>2. x[2] \in 1 .. 2
      BY <1>3, <1>7, <3>1
    <3> QED
      BY <3>1, <3>2
  <2>4. u # v /\ At(d, u) = es[1] /\ At(d, v) = es[2]
    BY <1>7 DEF At
  <2> HIDE DEF u, v
  <2> QED
    BY <2>2, <2>3, <2>4
<1> HIDE DEF u, v
<1>12. External(d, Root) = {}
  BY <1>8, <1>11 DEF External
<1>13. Cardinality(Named(d, Root)) = 2
  <2> DEFINE z == <<Root, u>>
             t == <<Root, v>>
  <2>1. \A y : y \in Named(d, Root) <=> y \in {z, t}
    BY <1>1, <1>8, <1>11, NamedIs
  <2>2. z # t
    BY <1>11
  <2> HIDE DEF z, t
  <2>3. Named(d, Root) = {z} \cup {t} /\ t \notin {z}
    BY <2>1, <2>2
  <2>4. IsFiniteSet({z}) /\ Cardinality({z}) = 1
    BY FS_Singleton
  <2>5. Cardinality({z} \cup {t}) = Cardinality({z}) + 1
    BY <2>3, <2>4, FS_AddElement
  <2> QED
    BY <2>3, <2>4, <2>5
<1>14. d.inode[Root].i_links_count = 2
  BY DEF Bare
<1>15. Linking(d, 0)
  <2>1. \A x, y \in Entries(d, Root) : At(d, x).name = At(d, y).name => x = y
    BY <1>8, <1>11
  <2>2. \A x \in Entries(d, Root) : At(d, x).inode = Root /\ At(d, x).file_type = "dir"
    BY <1>8, <1>11
  <2>3. d.inode[Root].i_links_count = Cardinality(Named(d, Root)) + (IF Root = 0 THEN 1 ELSE 0)
    BY <1>1, <1>13, <1>14
  <2> QED
    BY <1>1, <1>9, <1>12, <2>1, <2>2, <2>3 DEF Linking
<1>16. Reached(d, 0)
  <2> DEFINE q == <<>>
  <2>1. q \in AnyPath /\ InodeOf(d, q) = Root /\ Len(q) = 0
    BY RootPath
  <2> HIDE DEF q
  <2> QED
    BY <1>1, <1>12, <2>1 DEF Reached
<1> QED
  BY <1>10, <1>15, <1>16 DEF Image, Sound

\* The initial disk is an image.
LEMMA FreshImage == Image(FreshDisk)
BY FreshBare, BareImage

-----------------------------------------------------------------------------
(* Every command. *)

\* The inductive invariant.
CarefulInvariant == Image(disk) /\ result \in Results /\ tree = TreeOf(disk)

\* A walkable path leads through a directory or nothing.
LEMMA WalkableParent ==
  ASSUME NEW path \in Path, Walkable(path)
  PROVE  Len(path) > 1 => TypeOf(disk, ParentPath(path)) \in {"dir", "none"}
<1>1. Len(path) \in Nat /\ (Len(path) > 1 => Len(path) - 1 \in 1 .. Len(path) - 1)
  BY PathParts, DiskAssumption
<1> QED
  BY <1>1 DEF Walkable, ParentPath

\* Every careful command keeps it.
LEMMA CarefulKeeps ==
  ASSUME CarefulInvariant, CarefulNext
  PROVE  Image(disk') /\ result' \in Results /\ tree' = TreeOf(disk')
<1>1. Image(disk)
  BY DEF CarefulInvariant
<1>2. ASSUME NEW path \in Path, CarefulMkdir(path) PROVE Image(disk') /\ result' \in Results /\ tree' = TreeOf(disk')
  <2>1. Walkable(path) /\ disk' = mkdir(disk, path).disk /\ result' = mkdir(disk, path).result /\ tree' = TreeOf(disk')
    BY <1>2 DEF CarefulMkdir, Mkdir, Return, Tracked
  <2>2. Parent(disk, path) # 0 =>
          /\ Fits(disk, Parent(disk, path), FileName(path))
          /\ \/ Room(disk, Parent(disk, path), FileName(path)) \/ disk.bfree = 0
             \/ Slot(disk, Parent(disk, path)) /\ disk.bfree >= 2
    BY <1>2 DEF CarefulMkdir
  <2>3. Len(path) > 1 => TypeOf(disk, ParentPath(path)) \in {"dir", "none"}
    BY <2>1, WalkableParent
  <2>4. Image(mkdir(disk, path).disk) /\ mkdir(disk, path).result \in Results
    BY <1>1, <2>2, <2>3, MkdirKeeps
  <2> QED
    BY <2>1, <2>4
<1>3. ASSUME NEW n \in Name, NEW size \in Size, NEW path \in Path \cup {<<>>}, CarefulCp(n, size, path)
      PROVE  Image(disk') /\ result' \in Results /\ tree' = TreeOf(disk')
  <2> DEFINE o == cp(disk, n, size, path, TRUE)
  <2>1. disk' = o.disk /\ result' = o.result /\ tree' = TreeOf(disk')
    BY <1>3 DEF CarefulCp, Cp, Return, Tracked
  <2>2. o.disk # disk => StaleWords(o.disk, disk)
    BY <1>3, <2>1 DEF CarefulCp, StaleWords
  <2>3. Exists(disk, path) =>
          LET p   == InodeOf(disk, path)
              dir == TypeOf(disk, path) = "dir"
              old == IF dir THEN InodeOf(disk, Append(path, n)) ELSE p
          IN  /\ old # 0 => disk.inode[old].i_mode # "dir" /\ disk.inode[old].i_links_count = 1
              /\ dir => Len(path) < MaxDepth /\ Fits(disk, p, n) /\ (Room(disk, p, n) \/ Slot(disk, p))
    BY <1>3 DEF CarefulCp
  <2>4. o = cp(disk, n, size, path, TRUE) /\ path \in AnyPath
    BY DEF AnyPath
  <2> HIDE DEF o
  <2>5. Image(o.disk) /\ o.result \in Results
    BY <1>1, <2>2, <2>3, <2>4, CpKeeps
  <2> QED
    BY <2>1, <2>5
<1>4. ASSUME NEW from \in Path, NEW to \in Path, CarefulLn(from, to)
      PROVE  Image(disk') /\ result' \in Results /\ tree' = TreeOf(disk')
  <2>1. disk' = ln(disk, from, to).disk /\ result' = ln(disk, from, to).result /\ tree' = TreeOf(disk')
    BY <1>4 DEF CarefulLn, Ln, Return, Tracked
  <2>2. /\ Exists(disk, from) => disk.inode[InodeOf(disk, from)].i_mode # "lnk"
        /\ Parent(disk, to) # 0 =>
             /\ Fits(disk, Parent(disk, to), FileName(to))
             /\ Room(disk, Parent(disk, to), FileName(to)) \/ disk.bfree = 0
    BY <1>4 DEF CarefulLn
  <2>3. Image(ln(disk, from, to).disk) /\ ln(disk, from, to).result \in Results
    BY <1>1, <2>2, LnKeeps
  <2> QED
    BY <2>1, <2>3
<1>5. ASSUME NEW from \in Path, NEW to \in Path, CarefulLnS(from, to)
      PROVE  Image(disk') /\ result' \in Results /\ tree' = TreeOf(disk')
  <2>1. disk' = ln_s(disk, from, to).disk /\ result' = ln_s(disk, from, to).result /\ tree' = TreeOf(disk')
    BY <1>5 DEF CarefulLnS, LnS, Return, Tracked
  <2>2. /\ Len(to) = 1 /\ Len(from) <= PathLimit /\ Fits(disk, Root, FileName(to))
        /\ Room(disk, Root, FileName(to)) \/ Slot(disk, Root)
    BY <1>5 DEF CarefulLnS
  <2>3. Image(ln_s(disk, from, to).disk) /\ ln_s(disk, from, to).result \in Results
    BY <1>1, <2>2, LnSKeeps
  <2> QED
    BY <2>1, <2>3
<1>6. ASSUME NEW path \in Path, NEW r \in BOOLEAN, CarefulRm(path, r)
      PROVE  Image(disk') /\ result' \in Results /\ tree' = TreeOf(disk')
  <2> DEFINE o == rm(disk, path, r)
  <2>1. Walkable(path) /\ disk' = o.disk /\ result' = o.result /\ tree' = TreeOf(disk')
    BY <1>6 DEF CarefulRm, Rm, Return, Tracked
  <2>2. r /\ TypeOf(disk, path) = "dir" => Shallow(disk, InodeOf(disk, path))
    BY <1>6 DEF CarefulRm, Rm
  <2>3. Len(path) > 1 => TypeOf(disk, ParentPath(path)) \in {"dir", "none"}
    BY <2>1, WalkableParent
  <2>4. o = rm(disk, path, r)
    OBVIOUS
  <2> HIDE DEF o
  <2>5. Image(o.disk) /\ o.result \in Results
    BY <1>1, <2>2, <2>3, <2>4, RmKeeps
  <2> QED
    BY <2>1, <2>5
<1> QED
  BY <1>2, <1>3, <1>4, <1>5, <1>6 DEF CarefulNext

\* Careful commands keep the image.
LEMMA ImageStays == CarefulSpec => []CarefulInvariant
<1>1. CarefulInit => CarefulInvariant
  <2> SUFFICES ASSUME CarefulInit PROVE CarefulInvariant
    OBVIOUS
  <2>1. disk = FreshDisk /\ result = "OK" /\ tree = TreeOf(disk)
    BY DEF CarefulInit, Init
  <2>2. Image(disk)
    BY <2>1, FreshImage
  <2> QED
    BY <2>1, <2>2 DEF CarefulInvariant, Results
<1>2. CarefulInvariant /\ [CarefulNext]_CarefulVars => CarefulInvariant'
  <2> SUFFICES ASSUME CarefulInvariant, [CarefulNext]_CarefulVars PROVE CarefulInvariant'
    OBVIOUS
  <2>1. CASE CarefulNext
    BY <2>1, CarefulKeeps DEF CarefulInvariant
  <2>2. CASE UNCHANGED CarefulVars
    BY <2>2 DEF CarefulInvariant, CarefulVars
  <2> QED
    BY <2>1, <2>2
<1> QED
  BY <1>1, <1>2, PTL DEF CarefulSpec

-----------------------------------------------------------------------------
(* What the image says of the disk. *)

\* The inodes that paths lead to are those that are marked.
LEMMA ReachableIs ==
  ASSUME CarefulInvariant
  PROVE  Reachable = Marked(disk)
<1>1. Sound(disk, 0) /\ Reached(disk, 0) /\ Own(disk) /\ Linking(disk, 0) /\ tree = TreeOf(disk)
  BY DEF CarefulInvariant, Image, Sound
<1>2. /\ DOMAIN tree = {q \in Path : Exists(disk, q)}
      /\ \A q \in DOMAIN tree : tree[q].id = InodeOf(disk, q)
  BY <1>1 DEF TreeOf
<1>3. ASSUME NEW q \in Path, Exists(disk, q) PROVE InodeOf(disk, q) \in Marked(disk)
  BY <1>1, <1>3, PathStep DEF Exists
<1>4. ASSUME NEW i \in Marked(disk) \ {Root} PROVE \E q \in Path : Exists(disk, q) /\ InodeOf(disk, q) = i
  <2>1. i # 0 /\ 0 \notin Dirs(disk)
    BY <1>1, NoNumberZero DEF Own
  <2>2. PICK p \in Dirs(disk) : \E x \in External(disk, p) : At(disk, x).inode = i
    BY <1>1, <2>1 DEF Linking
  <2>3. PICK x \in External(disk, p) : At(disk, x).inode = i
    BY <2>2
  <2>4. PICK q \in AnyPath : InodeOf(disk, q) = p /\ (Len(q) < MaxDepth \/ External(disk, p) = {})
    BY <1>1, <2>1 DEF Reached
  <2> DEFINE n == At(disk, x).name
             path == Append(q, n)
  <2>5. x \in Entries(disk, p) /\ n \notin {".", ".."}
    BY DEF External
  <2>6. n \in Name
    <3>1. At(disk, x) \in EntryRecord
      BY <1>1, <2>5, EntryTyped
    <3> QED
      BY <2>5, <3>1 DEF EntryRecord
  <2> HIDE DEF n
  <2>7. path \in Path /\ ParentPath(path) = q /\ FileName(path) = n
    BY <2>3, <2>4, <2>6, PathLonger
  <2> HIDE DEF path
  <2>8. InodeOf(disk, path) = At(disk, x).inode
    BY <1>1, <2>4, <2>5, <2>7, PathStep DEF n
  <2> QED
    BY <2>1, <2>3, <2>7, <2>8 DEF Exists
<1>5. Root \in Marked(disk)
  BY DEF Marked
<1> QED
  BY <1>2, <1>3, <1>4, <1>5 DEF Reachable

\* An image is of its type.
LEMMA InvariantTyped == CarefulInvariant => TypeOK
<1> SUFFICES ASSUME CarefulInvariant PROVE TypeOK
  OBVIOUS
<1>1. Own(disk) /\ Typed(disk) /\ Counted(disk) /\ result \in Results
  BY DEF CarefulInvariant, Image, Sound, Own, Typed
<1>2. ASSUME NEW S, IsFiniteSet(S), NEW T PROVE Cardinality(S \ T) \in 0 .. Cardinality(S)
  <2>1. IsFiniteSet(S \ T) /\ Cardinality(S \ T) <= Cardinality(S)
    BY <1>2, FS_Subset, S \ T \in SUBSET S
  <2> QED
    BY <1>2, <2>1, FS_CardinalityType
<1>3. disk.ifree \in 0 .. Cardinality(Inode) /\ disk.bfree \in 0 .. Cardinality(Block)
  <2>1. disk.ifree = Cardinality(Inode \ disk.imap) /\ disk.bfree = Cardinality(Block \ disk.bmap)
    BY <1>1 DEF Counted
  <2>2. IsFiniteSet(Inode) /\ IsFiniteSet(Block)
    BY DiskAssumption
  <2> QED
    BY <1>2, <2>1, <2>2
<1>4. \A b \in Block \cup {0}, k \in 1 .. BlockSize : k \in DOMAIN disk.data[b] => disk.data[b][k] \in EntryRecord
  <2> SUFFICES ASSUME NEW b \in Block \cup {0}, NEW k, k \in DOMAIN disk.data[b]
               PROVE  disk.data[b][k] \in EntryRecord
    OBVIOUS
  <2> DEFINE es == disk.data[b]
  <2>1. es = <<>> \/ GoodBlock(es)
    BY <1>1 DEF Typed
  <2>2. k \in DOMAIN es
    OBVIOUS
  <2> HIDE DEF es
  <2>3. GoodBlock(es)
    BY <2>1, <2>2
  <2>4. es[k] \in EntryRecord
    BY <2>2, <2>3, GoodFacts
  <2> QED
    BY <2>4 DEF es
<1> QED
  BY <1>1, <1>3, <1>4 DEF TypeOK, Typed, Counted

\* The files of an image have all their blocks.
LEMMA InvariantWhole == CarefulInvariant => FilesWhole
<1> SUFFICES ASSUME CarefulInvariant PROVE FilesWhole
  OBVIOUS
<1>1. Reachable = Marked(disk) /\ \A i \in Marked(disk) : Shaped(disk, i)
  BY ReachableIs DEF CarefulInvariant, Image, Sound, Own
<1>2. \A i \in Reachable : disk.inode[i].i_mode = "reg" => FileShape(disk, i)
  BY <1>1 DEF Shaped
<1> QED
  BY <1>2 DEF FilesWhole, FileShape

\* The entries of an image fill their blocks.
LEMMA InvariantFilled == CarefulInvariant => BlocksFilled
<1> SUFFICES ASSUME CarefulInvariant, NEW i \in Reachable, disk.inode[i].i_mode = "dir",
                    NEW b \in BlocksOf(disk, i)
             PROVE  /\ SumFunction([k \in DOMAIN disk.data[b] |-> disk.data[b][k].rec_len]) = BlockSize
                    /\ \A k \in DOMAIN disk.data[b] : disk.data[b][k].rec_len >= 8 + Length(disk.data[b][k].name)
  BY DEF BlocksFilled
<1> DEFINE es == disk.data[b]
           m == Lengths(es)
<1>1. i \in Marked(disk) /\ Own(disk) /\ Typed(disk) /\ Owned(disk) /\ Shaped(disk, i)
  BY ReachableIs DEF CarefulInvariant, Image, Sound, Own
<1>2. b \in Block \cup {0}
  BY <1>1, SlotHeld DEF Typed, Counted
<1>3. es # <<>>
  BY <1>1 DEF Shaped, DirShape
<1>4. GoodBlock(es)
  BY <1>1, <1>2, <1>3 DEF Typed
<1>5. m = [k \in DOMAIN es |-> es[k].rec_len]
  BY DEF Lengths
<1> HIDE DEF es, m
<1>6. DOMAIN es = 1 .. Len(es) /\ m \in [1 .. Len(es) -> Int] /\ Total(m, 1 .. Len(es)) = BlockSize /\ Len(es) \in Nat
  BY <1>4, GoodFacts DEF m
<1>7. SumFunction(m) = BlockSize
  <2>1. IsFiniteSet(1 .. Len(es)) /\ DOMAIN m = 1 .. Len(es)
    BY <1>6, FS_Interval
  <2> QED
    BY <1>6, <2>1, TotalIsSumFunction
<1>8. \A k \in DOMAIN es : es[k].rec_len >= 8 + Length(es[k].name)
  BY <1>4, <1>6 DEF GoodBlock
<1> QED
  BY <1>5, <1>7, <1>8 DEF es

\* The link counts of an image are the numbers of its names.
LEMMA InvariantCounted == CarefulInvariant => LinksCounted
<1> SUFFICES ASSUME CarefulInvariant, NEW i \in Reachable
             PROVE  disk.inode[i].i_links_count =
                      Cardinality({x \in UNION {{d} \X Entries(disk, d) : d \in {j \in Reachable : disk.inode[j].i_mode = "dir"}} :
                         At(disk, x[2]).inode = i})
  BY DEF LinksCounted
<1> DEFINE S == {j \in Reachable : disk.inode[j].i_mode = "dir"}
           N == {x \in UNION {{d} \X Entries(disk, d) : d \in S} : At(disk, x[2]).inode = i}
<1>1. Reachable = Marked(disk) /\ Own(disk) /\ Linking(disk, 0)
  BY ReachableIs DEF CarefulInvariant, Image, Sound
<1>2. S = Dirs(disk)
  BY <1>1 DEF Dirs
<1> HIDE DEF S
<1>3. N = Named(disk, i)
  BY <1>2 DEF Named, Places
<1> HIDE DEF N
<1>4. Cardinality(Named(disk, i)) \in Nat
  BY <1>1, NamedBound
<1>5. i # 0
  BY <1>1, NoNumberZero DEF Own
<1>6. disk.inode[i].i_links_count = Cardinality(Named(disk, i)) + 0
  BY <1>1, <1>5 DEF Linking
<1>7. disk.inode[i].i_links_count = Cardinality(N)
  BY <1>3, <1>4, <1>6
<1> QED
  BY <1>7, Zenon DEF N, S

\* The maps of an image say which blocks and inodes are in use.
LEMMA InvariantMapped == CarefulInvariant => MapsTellUse
<1> SUFFICES ASSUME CarefulInvariant PROVE MapsTellUse
  OBVIOUS
<1>1. Reachable = Marked(disk) /\ Own(disk) /\ Owned(disk) /\ Typed(disk) /\ Counted(disk)
  BY ReachableIs DEF CarefulInvariant, Image, Sound, Own, Typed
<1>2. disk.imap = Reachable \ {Root}
  BY <1>1, NoNumberZero DEF Marked, Counted
<1>3. ASSUME NEW b \in Block
      PROVE  Cardinality({x \in Reachable \X (1 .. Slots) : disk.inode[x[1]].i_block[x[2]] = b})
             + Cardinality({x \in Reachable \X (1 .. Ptrs) : Through(disk, x[1], x[2]) = b})
               = IF b \in disk.bmap THEN 1 ELSE 0
  <2> DEFINE X == {x \in Reachable \X (1 .. Slots) : disk.inode[x[1]].i_block[x[2]] = b}
             Y == {x \in Reachable \X (1 .. Ptrs) : Through(disk, x[1], x[2]) = b}
  <2>1. b # 0
    BY DiskAssumption
  <2>2. ASSUME NEW x \in X
        PROVE  /\ x = <<x[1], x[2]>> /\ x[1] \in Marked(disk) /\ x[2] \in Spot /\ x[2] <= Slots
               /\ Held(disk, x[1], x[2]) = b
    BY <1>1, SpotFacts DEF Held
  <2>3. ASSUME NEW x \in Y
        PROVE  /\ x = <<x[1], x[2]>> /\ x[1] \in Marked(disk) /\ x[2] \in 1 .. Ptrs
               /\ Slots + x[2] \in Spot /\ ~ (Slots + x[2] <= Slots)
               /\ Held(disk, x[1], Slots + x[2]) = b
    BY <1>1, SpotFacts DEF Held
  <2>4. ASSUME NEW i \in Marked(disk), NEW v \in Spot, Held(disk, i, v) = b, v <= Slots
        PROVE  <<i, v>> \in X
    BY <1>1, <2>4, SpotFacts DEF Held
  <2>5. ASSUME NEW i \in Marked(disk), NEW v \in Spot, Held(disk, i, v) = b, ~ (v <= Slots)
        PROVE  <<i, v - Slots>> \in Y
    BY <1>1, <2>5, SpotFacts DEF Held
  <2> HIDE DEF X, Y
  <2>6. CASE b \notin disk.bmap
    <3>1. \A i \in Marked(disk), v \in Spot : Held(disk, i, v) # b
      BY <1>1, <2>1, <2>6 DEF Owned
    <3>2. X = {} /\ Y = {}
      BY <2>2, <2>3, <3>1
    <3>3. Cardinality(X) = 0 /\ Cardinality(Y) = 0
      BY <3>2, FS_EmptySet
    <3>4. Cardinality(X) + Cardinality(Y) = 0
      BY <3>3
    <3> QED
      BY <2>6, <3>4 DEF X, Y
  <2>7. CASE b \in disk.bmap
    <3>1. PICK i \in Marked(disk), v \in Spot : Held(disk, i, v) = b
      BY <1>1, <2>7 DEF Owned
    <3>2. \A j \in Marked(disk), u \in Spot : Held(disk, j, u) = b => j = i /\ u = v
      BY <1>1, <2>1, <3>1 DEF Owned
    <3>3. Cardinality(X) + Cardinality(Y) = 1
      <4>1. CASE v <= Slots
        <5> DEFINE z == <<i, v>>
        <5>1. z \in X
          BY <2>4, <3>1, <4>1
        <5>2. \A x \in X : x = z
          BY <2>2, <3>2
        <5>3. Y = {}
          BY <2>3, <3>2, <4>1
        <5> HIDE DEF z
        <5>4. X = {z}
          BY <5>1, <5>2
        <5>5. Cardinality(X) = 1 /\ Cardinality(Y) = 0
          BY <5>3, <5>4, FS_EmptySet, FS_Singleton
        <5> QED
          BY <5>5
      <4>2. CASE ~ (v <= Slots)
        <5> DEFINE w == v - Slots
                   z == <<i, w>>
        <5>1. z \in Y
          BY <2>5, <3>1, <4>2
        <5>2. \A x \in Y : x = z
          <6> SUFFICES ASSUME NEW x \in Y PROVE x = z
            OBVIOUS
          <6>1. x[1] = i /\ Slots + x[2] = v
            BY <2>3, <3>2
          <6>2. x[2] = w
            BY <2>3, <6>1, SpotFacts
          <6> QED
            BY <2>3, <6>1, <6>2
        <5>3. X = {}
          BY <2>2, <3>2, <4>2
        <5> HIDE DEF z
        <5>4. Y = {z}
          BY <5>1, <5>2
        <5>5. Cardinality(X) = 0 /\ Cardinality(Y) = 1
          BY <5>3, <5>4, FS_EmptySet, FS_Singleton
        <5> QED
          BY <5>5
      <4> QED
        BY <4>1, <4>2
    <3> QED
      BY <2>7, <3>3 DEF X, Y
  <2> QED
    BY <2>6, <2>7
<1> QED
  BY <1>2, <1>3 DEF MapsTellUse

-----------------------------------------------------------------------------
(* The properties of the runs. *)

\* Inodes, entries and block numbers stay within the image, and no careful command
\* ends in a segmentation fault.
THEOREM CarefulTyped == CarefulSpec => []TypeOK
<1>1. CarefulInvariant => TypeOK
  BY InvariantTyped
<1> QED
  BY <1>1, ImageStays, PTL

\* The bitmaps say what is in use: mkdir, cp, ln and rm mark what they take, free
\* what they give back, and never give a block to two.
THEOREM MapsStayTrue == CarefulSpec => []MapsTellUse
<1>1. CarefulInvariant => MapsTellUse
  BY InvariantMapped
<1> QED
  BY <1>1, ImageStays, PTL

\* i_links_count is the number of entries that name the inode, through every mkdir,
\* ln and rm that adds to it or takes from it.
THEOREM CountsStayTrue == CarefulSpec => []LinksCounted
<1>1. CarefulInvariant => LinksCounted
  BY InvariantCounted
<1> QED
  BY <1>1, ImageStays, PTL

\* allocate_space_in_block splits and reuses entries so that they still fill their
\* block.
THEOREM BlocksStayFilled == CarefulSpec => []BlocksFilled
<1>1. CarefulInvariant => BlocksFilled
  BY InvariantFilled
<1> QED
  BY <1>1, ImageStays, PTL

\* The loop of cp gives a file all the blocks of its size.
THEOREM CopiesAreWhole == CarefulSpec => []FilesWhole
<1>1. CarefulInvariant => FilesWhole
  BY InvariantWhole
<1> QED
  BY <1>1, ImageStays, PTL
==============================================================================
