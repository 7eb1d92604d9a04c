------------------------------- MODULE FileTree -------------------------------
(* What a user of the EXT2 tools is promised: a tree of names, in which each   *)
(* command does its work at the path it is given, or nothing, and touches no   *)
(* other name.                                                                 *)
EXTENDS Naturals, Sequences

CONSTANTS Paths,  \* sequences of names, closed under non-empty prefixes
          Names,  \* names of files outside the image
          Root,   \* the root directory
          Files   \* identities of files and directories

VARIABLES tree,   \* from the paths in use to their file and whether it is a directory
          did     \* the last command

vars == <<tree, did>>

Init == tree = <<>> /\ did = [cmd |-> "none"]

Under(path, dir) == Len(dir) <= Len(path) /\ SubSeq(path, 1, Len(dir)) = dir

IsDirectory(path) == path = <<>> \/ (path \in DOMAIN tree /\ tree[path].dir)
Free(path) == path \notin DOMAIN tree /\ IsDirectory(SubSeq(path, 1, Len(path) - 1))

With(path, file) == [q \in DOMAIN tree \cup {path} |-> IF q = path THEN file ELSE tree[q]]

\* A new file or directory that no other path names.
Create(path, dir) ==
  /\ Free(path)
  /\ \E f \in Files \ ({Root} \cup {tree[q].id : q \in DOMAIN tree}) :
       tree' = With(path, [id |-> f, dir |-> dir])

\* A second path to a file.
Link(from, to) ==
  /\ from \in DOMAIN tree /\ ~tree[from].dir
  /\ Free(to)
  /\ tree' = With(to, tree[from])

\* A path goes, with all below it.
Remove(path) ==
  /\ path \in DOMAIN tree
  /\ tree' = [q \in {q \in DOMAIN tree : ~Under(q, path)} |-> tree[q]]

-----------------------------------------------------------------------------
Mkdir(path) ==
  /\ did' = [cmd |-> "mkdir", path |-> path]
  /\ Create(path, TRUE) \/ UNCHANGED tree

\* A copy into a directory has the name of the original.
Cp(n, path) ==
  /\ did' = [cmd |-> "cp", name |-> n, path |-> path]
  /\ Create(IF IsDirectory(path) THEN Append(path, n) ELSE path, FALSE) \/ UNCHANGED tree

Ln(from, to) ==
  /\ did' = [cmd |-> "ln", from |-> from, to |-> to]
  /\ Link(from, to) \/ UNCHANGED tree

LnS(from, to) ==
  /\ did' = [cmd |-> "ln -s", from |-> from, to |-> to]
  /\ Create(to, FALSE) \/ UNCHANGED tree

\* A directory goes only when r is given.
Rm(path, r) ==
  /\ did' = [cmd |-> "rm", path |-> path, r |-> r]
  /\ \/ path \in DOMAIN tree /\ (tree[path].dir => r) /\ Remove(path)
     \/ UNCHANGED tree

Next ==
  \/ \E path \in Paths : Mkdir(path) \/ \E r \in BOOLEAN : Rm(path, r)
  \/ \E n \in Names, path \in Paths \cup {<<>>} : Cp(n, path)
  \/ \E from, to \in Paths : Ln(from, to) \/ LnS(from, to)

Spec == Init /\ [][Next]_vars
=============================================================================
