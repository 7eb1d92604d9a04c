\* Files of up to four blocks, the second of them behind an indirect block.
SPECIFICATION FilesOnly
CONSTANTS
  Inode = {12, 13}
  Block = {20, 21, 22, 23, 24}
  Name = {a, b}
  Long = {}
  NameLen <- MCNameLen
  BlockSize = 60
  Slots = 2
  Direct = 1
  Ptrs = 4
  MaxDepth = 1
  Size = {1, 3, 5}
  PathLimit = 1
PROPERTY FreesOwn
