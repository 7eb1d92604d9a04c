\* Two inodes and three blocks, the root's among them; the root's block has room
\* for one entry, another block for two.
SPECIFICATION CarefulSpec
CONSTANTS
  Inode = {12, 13}
  Block = {20, 21, 22}
  Name = {a, b}
  Long = {}
  NameLen <- MCNameLen
  BlockSize = 40
  Slots = 2
  Direct = 1
  Ptrs = 2
  MaxDepth = 2
  Size = {0, 1}
  PathLimit = 2
INVARIANTS TypeOK MapsTellUse CountersAgree LinksCounted BlocksFilled
PROPERTIES SaidIsDone ImplementsFileTree
SYMMETRY MCSymmetry
VIEW MCView
