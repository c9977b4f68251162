------------------------------- MODULE Ext2Tree -------------------------------
(***************************************************************************)
(* The tools on their image implement a tree of files, as long as none of  *)
(* them has damaged it, and the checker leaves it as it is.  The tree is   *)
(* read off the image after every step, into variables of its own.         *)
(***************************************************************************)
EXTENDS Ext2Checker

VARIABLES
  names,   \* history: the inode of each path there is
  file     \* history: type and size of what each inode holds, or held last

\* The paths are those of a tree: with a path, the one to its directory.
ASSUME PathAssumption == \A path \in Path : Len(path) > 1 => Front(path) \in Path

treeVars == <<disk, damage, recounted, names, file>>

\* What a path names: its last name, in any block of the directory that the
\* names before it lead to.
Entries(d, dir, name) ==
  UNION {{Content(d, dir, i)[p] : p \in Named(Content(d, dir, i), name)} :
           i \in 0 .. BlockCount(d, dir) - 1}

EntriesOf(d, path) ==
  LET at == Reached(d, path, [dir \in Inode |-> 0 .. BlockCount(d, dir) - 1])
  IN  IF at.k < Len(path) THEN {} ELSE Entries(d, at.dir, Last(path))

Existing(d) == {path \in Path : EntriesOf(d, path) # {}}

NamesOf(d) == [path \in Existing(d) |-> (CHOOSE e \in EntriesOf(d, path) : TRUE).inode]

\* A directory has no size, and a free inode keeps what rm left in it.
FilesOf(d) ==
  [ino \in Inode \ {EXT2_ROOT_INO} |->
     [type |-> d.inode[ino].i_mode,
      size |-> IF d.inode[ino].i_mode = "dir" THEN 0 ELSE BlockCount(d, ino)]]

TreeInit == CheckedInit /\ names = NamesOf(disk) /\ file = FilesOf(disk)

\* Of a damaged image no tree is read.
TreeNext ==
  /\ CheckedNext
  /\ names' = IF damage' = "none" THEN NamesOf(disk') ELSE <<>>
  /\ file' = FilesOf(IF damage' = "none" THEN disk' ELSE Formatted)

TreeSpec == TreeInit /\ [][TreeNext]_treeVars

Tree == INSTANCE FileTree WITH
  Node <- Inode \ {EXT2_ROOT_INO},
  lost <- damage # "none"

\* Every tool changes what the one path it is called with names, and nothing
\* that any other path names: neither the lengths it cuts and stretches nor the
\* blocks and inodes it takes and gives back are those of another entry or
\* file.  cp, mkdir and ln -s take an inode no name has, ln one that has a name,
\* and restore one that lost its last name and still holds a file.
ImplementsTree == Tree!Spec
=============================================================================
