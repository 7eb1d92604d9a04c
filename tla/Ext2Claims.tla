------------------------------ MODULE Ext2Claims ------------------------------
(* What a comment of the EXT2 tools says and the code does not do.             *)
EXTENDS MCExt2

\* Files come and go in the root directory, by cp to new names and rm.
FilesOnly ==
  Init /\ [][\E n \in Name :
               \/ \E size \in Size : ~Exists(disk, <<n>>) /\ Cp(n, size, <<>>, TRUE)
               \/ Rm(<<n>>, FALSE)]_vars

BlocksOfFile(i) == (BlocksOf(disk, i) \cup {Through(disk, i, w) : w \in 1 .. Ptrs}) \ {0}

\* "Free all the blocks of the given inode" (ext2general.h:96): rm takes no block from
\* a file that stays.  free_all_blocks_of_inode goes through all the words of the
\* indirect block, and cp does not clear those that the file does not reach.
FreesOwn ==
  [][\A i \in disk.imap \cap disk'.imap :
       disk'.inode[i] = disk.inode[i] => BlocksOfFile(i) \subseteq disk'.bmap]_vars
=============================================================================
