----------------------------- MODULE Ext2Image -----------------------------
(***************************************************************************)
(* An ext2 image as the tools see it (ext2.h) and the helpers they share   *)
(* (helper_functions.c): search in the bitmaps, lookup of a path, and the  *)
(* new entry at the end of a directory block.                              *)
(*                                                                         *)
(* A block is a row of cells.  A name has one to three letters, so that an *)
(* entry needs twelve bytes, one cell, and rec_len counts cells; no name   *)
(* is a prefix of another, so that all the comparisons of names agree.     *)
(* The blocks of the tables, lost+found and reserved inodes are left out.  *)
(* What a file holds are zeros, so a block that is no directory's is zero; *)
(* so is the short text of a symbolic link where an entry has its length.  *)
(* Files fit in direct blocks.  The superblock and the group descriptor    *)
(* are always changed together and are one pair of counters.               *)
(***************************************************************************)
EXTENDS Integers, Sequences, FiniteSets, FiniteSetsExt, SequencesExt

CONSTANTS
  Name,              \* names of files and directories
  Path,              \* the paths the tools are called with, from the root
  Size,              \* sizes of files, in blocks
  EXT2_BLOCK_SIZE,   \* cells of a block
  s_inodes_count,    \* inodes 1 .. s_inodes_count
  s_blocks_count     \* blocks 1 .. s_blocks_count - 1

EXT2_ROOT_INO == 2
s_first_ino == 2     \* last inode the image has before the tools run

Inode == EXT2_ROOT_INO .. s_inodes_count
Block == 1 .. s_blocks_count - 1
Cell  == 0 .. EXT2_BLOCK_SIZE - 1
Slot  == 0 .. Max(Size \cup {2})    \* the part of i_block that is used: a
                                   \* directory has at most two blocks

ASSUME SizesAssumption ==
  /\ EXT2_BLOCK_SIZE \in Nat /\ EXT2_BLOCK_SIZE > 2
  /\ s_inodes_count \in Nat /\ s_inodes_count > EXT2_ROOT_INO
  /\ s_blocks_count \in Nat /\ s_blocks_count > 1
  /\ Size \subseteq 0 .. 12 /\ IsFiniteSet(Size)
ASSUME NameAssumption ==
  /\ Name \cap {"", ".", ".."} = {}
  /\ Path \subseteq Seq(Name) \ {<<>>}

\* An entry of a directory, and the bytes of one as zeros.
Entry(name, type, ino, rec) ==
  [name |-> name, file_type |-> type, inode |-> ino, rec_len |-> rec]
Zero  == Entry("", "unknown", 0, 0)
Zeros == [p \in Cell |-> Zero]

\* add_initial_directories: the block of a new directory.
NewDirectory(ino, parent) ==
  [Zeros EXCEPT ![0] = Entry(".", "dir", ino, 1),
                ![1] = Entry("..", "dir", parent, EXT2_BLOCK_SIZE - 1)]

\* An image: block and inode bitmap, the counters, the inode table and the
\* blocks.  Of an inode i_dtime only says whether it is set.
NewInode(mode, links, sectors) ==
  [i_mode |-> mode, i_links_count |-> links, i_blocks |-> sectors,
   i_block |-> [i \in Slot |-> 0], i_dtime |-> FALSE]

Formatted ==
  [bbm  |-> {1},
   ibm  |-> {EXT2_ROOT_INO},
   free_blocks |-> s_blocks_count - 2,
   free_inodes |-> s_inodes_count - EXT2_ROOT_INO,
   inode |-> [i \in Inode |->
                IF i = EXT2_ROOT_INO
                THEN [NewInode("dir", 2, 2) EXCEPT !.i_block[0] = 1]
                ELSE NewInode("none", 0, 0)],
   block |-> [b \in Block |->
                IF b = 1 THEN NewDirectory(EXT2_ROOT_INO, EXT2_ROOT_INO) ELSE Zeros]]

-----------------------------------------------------------------------------
(* The bitmaps.  -1 stands for none.                                       *)

\* find_invalid_indode_index: the last inode is never looked at.
find_invalid_indode_index(d) ==
  LET free == {i \in s_first_ino + 1 .. s_inodes_count - 1 : i \notin d.ibm}
  IN  IF free = {} THEN -1 ELSE Min(free)

\* Mutant: one block too many is looked at.
FreeBlockBeyond(d) == Min((Block \cup {s_blocks_count}) \ d.bbm)

\* find_free_block_index without the mark it sets.  What it does for i = 0,
\* a shift by -1, finds nothing on the machines it is built for.
find_free_block_index(d) ==
  IF Block \subseteq d.bbm THEN -1 ELSE Min(Block \ d.bbm)

-----------------------------------------------------------------------------
(* The entries of a block.                                                 *)

\* The block in a slot of an inode.  Slot 0 of i_block may name block 0, the
\* boot block, which is zero.
Content(d, ino, i) ==
  LET b == d.inode[ino].i_block[i] IN IF b \in Block THEN d.block[b] ELSE Zeros

\* The cells a walk along rec_len comes to.  At an entry with rec_len 0 it
\* stays for ever.
Shown(c) ==
  LET on(ps) == ps \cup ({p + c[p].rec_len : p \in ps} \cap Cell)
      at[k \in Cell] == IF k = 0 THEN {0} ELSE on(at[k - 1])
  IN  at[EXT2_BLOCK_SIZE - 1]
Stuck(c) == \E p \in Shown(c) : c[p].rec_len = 0

\* The entries with a name, and whether there is a directory among them.
Named(c, name)   == {p \in Shown(c) : c[p].name = name}
Subdirs(c, name) == {p \in Named(c, name) : c[p].file_type = "dir"}

\* new_directory_fits: is there a cell after that of the last entry?
LastShown(c) == Max(Shown(c))
new_directory_fits(c) == LastShown(c) + 2 <= EXT2_BLOCK_SIZE

\* The last entry gets the length it needs; nothing in a new block, whose
\* first rec_len was set to 0.
Trimmed(c) ==
  IF c[0].rec_len = 0 THEN c ELSE [c EXCEPT ![LastShown(c)].rec_len = 1]

\* Mutant: the new entry does not reach to the end of the block.
InsertedShort(c, name, type, ino) ==
  LET p == IF c[0].rec_len = 0 THEN 0 ELSE LastShown(c) + 1
  IN  [Trimmed(c) EXCEPT ![p] = Entry(name, type, ino, 1)]

\* add_directory, add_file_loc and add_hardlink: an entry after the last one,
\* for the rest of the block.
Inserted(c, name, type, ino) ==
  LET p == IF c[0].rec_len = 0 THEN 0 ELSE LastShown(c) + 1
  IN  [Trimmed(c) EXCEPT ![p] = Entry(name, type, ino, EXT2_BLOCK_SIZE - p)]

-----------------------------------------------------------------------------
(* path_exists                                                             *)

\* Mutant: half the slots are gone through.
SlotsHalf(d, ino) == {i \in Slot : i < d.inode[ino].i_blocks \div 2 - 1}

\* i_blocks counts sectors of half a block, and the lookup goes through all
\* slots but as many as that less one: too many in a directory of two blocks.
SlotsLookedAt(d, ino) == {i \in Slot : i < d.inode[ino].i_blocks - 1}

\* recursive_path in one directory.  Symbolic links are passed over.
Seen(c, name) == {p \in Named(c, name) : c[p].file_type \in {"reg", "dir"}}

FoundIn(c, name, last) ==
  IF Seen(c, name) = {} THEN [is |-> "hangs", inode |-> 0]
  ELSE LET e == c[Min(Seen(c, name))]
       IN  [is |-> IF e.file_type = "dir" THEN "dir" ELSE IF last THEN "file" ELSE "blocked",
            inode |-> e.inode]

FoundAt(d, ino, stops, name, last) ==
  IF stops = {} THEN [is |-> IF last THEN "new" ELSE "missing", inode |-> 0]
  ELSE FoundIn(Content(d, ino, Min(stops)), name, last)

StopsAt(c, name) == Stuck(c) \/ Seen(c, name) # {}

Found(d, ino, name, last) ==
  FoundAt(d, ino, {i \in SlotsLookedAt(d, ino) : StopsAt(Content(d, ino, i), name)}, name, last)

\* The results 2, 1, 0, 3 and -1 are "dir", "file", "blocked", "new" and
\* "missing"; "hangs" is none.
path_exists(d, path) ==
  LET found[k \in 1 .. Len(path)] ==
        IF k = 1 THEN Found(d, EXT2_ROOT_INO, path[1], Len(path) = 1)
        ELSE IF found[k - 1].is = "dir"
             THEN Found(d, found[k - 1].inode, path[k], Len(path) = k)
             ELSE found[k - 1]
  IN  found[Len(path)].is
=============================================================================
