\* The root directory in five blocks: files of up to three blocks, and of more than
\* there are; a long name and a short one.
SPECIFICATION CarefulSpec
CONSTANTS
  Inode = {12, 13}
  Block = {20, 21, 22, 23, 24}
  Name = {a, l}
  Long = {l}
  NameLen <- MCNameLen
  BlockSize = 60
  Slots = 2
  Direct = 1
  Ptrs = 4
  MaxDepth = 1
  Size = {1, 3, 5, 10}
  PathLimit = 1
INVARIANTS MapsTellUse BlocksFilled FilesWhole EstimateHolds
PROPERTIES ImplementsFileTree
VIEW MCView
