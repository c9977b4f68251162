----------------------------- MODULE Ext2Checker -----------------------------
(***************************************************************************)
(* ext2_checker.c: the checker, run on whatever image the tools of Ext2    *)
(* leave behind, any number of times and between any two of them.          *)
(*                                                                         *)
(* What the checker changes never alters the way it takes through the      *)
(* image, so a pass is written as the set of entries it comes to and what  *)
(* it does for each inode at the first of them.  The bytes of the bitmaps  *)
(* it counts beyond the last inode and block are all ones, as mke2fs       *)
(* leaves them.                                                            *)
(***************************************************************************)
EXTENDS Ext2

VARIABLE
  recounted  \* history: the directories of two blocks at the last pass

checkedVars == <<disk, damage, recounted>>

-----------------------------------------------------------------------------
(* The way of main and check_block through the image.                      *)

\* main: the root and all inodes up to the last but one, in use or not.
CheckedDirs(d) == {i \in Inode \ {s_inodes_count} : d.inode[i].i_mode = "dir"}

\* check_block: directory, slot and cell of the entries in them, and the order
\* it comes to them.
PlacesToCheck(d) ==
  UNION {{<<x[1], x[2], p>> : p \in Shown(Content(d, x[1], x[2]))} :
           x \in {x \in CheckedDirs(d) \X Slot : x[2] < BlockCount(d, x[1])}}

EntryAt(d, x) == Content(d, x[1], x[2])[x[3]]

Before(x, y) == \/ x[1] < y[1]
                \/ x[1] = y[1] /\ x[2] < y[2]
                \/ x[1] = y[1] /\ x[2] = y[2] /\ x[3] < y[3]

\* There is no block -1 and no inode -1, and an entry of length 0 has no next.
CrashesAt(d, x) == d.inode[x[1]].i_block[x[2]] = -1 \/ EntryAt(d, x).inode = -1
EndsAt(d, x)    == CrashesAt(d, x) \/ EntryAt(d, x).rec_len = 0

\* The places a pass comes to, and how it ends.
Visits(d) ==
  LET places == PlacesToCheck(d)
      ends   == {x \in places : EndsAt(d, x)}
  IN  {x \in places : \A y \in ends : ~Before(y, x)}

Outcome(d) ==
  LET ends == {x \in Visits(d) : EndsAt(d, x)}
  IN  IF ends = {} THEN "done"
      ELSE IF \E x \in ends : CrashesAt(d, x) THEN "crashes" ELSE "hangs"

\* in_list: the first visit of each inode.  Inode 0 is in the list from the
\* start: the list comes fresh from the heap.
FirstVisits(d) ==
  LET seen == {x \in Visits(d) : ~CrashesAt(d, x)}
  IN  {x \in seen : /\ EntryAt(d, x).inode # 0
                    /\ \A y \in seen : Before(y, x) => EntryAt(d, y).inode # EntryAt(d, x).inode}

-----------------------------------------------------------------------------
(* The fixes, for the first visits or for the inodes listed in them.       *)

\* Mutant: symbolic links are forgotten.
TypeOfNoLinks(d, ino) ==
  IF d.inode[ino].i_mode \in {"none", "lnk"} THEN "unknown" ELSE d.inode[ino].i_mode

\* fix_file_type: the entries with a type that is not that of the inode.
TypeOf(d, ino) == IF d.inode[ino].i_mode = "none" THEN "unknown" ELSE d.inode[ino].i_mode

Mistyped(d, first) ==
  {x \in first : EntryAt(d, x).file_type # TypeOf(d, EntryAt(d, x).inode)}

Retyped(d, first) ==
  LET wrong == {<<d.inode[x[1]].i_block[x[2]], x[3]>> : x \in Mistyped(d, first)}
      entry(e) == [e EXCEPT !.file_type = TypeOf(d, e.inode)]
  IN  [b \in Block |-> [p \in Cell |-> IF <<b, p>> \in wrong THEN entry(d.block[b][p])
                                       ELSE d.block[b][p]]]

\* fix_inode_bitmap and fix_inode_dtime: the inodes that are not marked in use,
\* and those that are marked deleted.
Unmarked(d, listed) == listed \ d.ibm
Deceased(d, listed) == {ino \in listed : d.inode[ino].i_dtime}
Undeleted(d, ino, listed) == [d.inode[ino] EXCEPT !.i_dtime = @ /\ ino \notin listed]

\* fix_data_bitmap: the blocks of the inodes that are not marked.  Block 0 is
\* passed over, and block -1 is never found marked.
LostBlocks(d, listed) == (UNION {FileBlocks(d, ino) : ino \in listed}) \cap (Block \ d.bbm)
NoBlocks(d, listed) ==
  {x \in listed \X Slot : x[2] < BlockCount(d, x[1]) /\ d.inode[x[1]].i_block[x[2]] = -1}

\* group_counter_inconsis: the bits in the bitmaps that are zero.
FreeInodes(d) == s_inodes_count - 1 - Cardinality(d.ibm)
FreeBlocks(d) == s_blocks_count - 1 - Cardinality(d.bbm)

\* Mutants: set_in_use forgets the counters; the deletion time stays.
RepairedUncounted(d, first, listed) ==
  [d EXCEPT
     !.block = Retyped(d, first),
     !.ibm = @ \cup listed, !.bbm = @ \cup LostBlocks(d, listed),
     !.free_inodes = FreeInodes(d) - Cardinality(Unmarked(d, listed)),
     !.free_blocks = FreeBlocks(d),
     !.inode = [ino \in Inode |-> Undeleted(d, ino, listed)]]
RepairedStillDeleted(d, first, listed) ==
  [d EXCEPT
     !.block = Retyped(d, first),
     !.ibm = @ \cup listed, !.bbm = @ \cup LostBlocks(d, listed),
     !.free_inodes = FreeInodes(d) - Cardinality(Unmarked(d, listed)),
     !.free_blocks = FreeBlocks(d) - Cardinality(LostBlocks(d, listed))
                       - Cardinality(NoBlocks(d, listed))]

\* All that is repaired.
Repaired(d, first, listed) ==
  [d EXCEPT
     !.block = Retyped(d, first),
     !.ibm = @ \cup listed, !.bbm = @ \cup LostBlocks(d, listed),
     !.free_inodes = FreeInodes(d) - Cardinality(Unmarked(d, listed)),
     !.free_blocks = FreeBlocks(d) - Cardinality(LostBlocks(d, listed))
                       - Cardinality(NoBlocks(d, listed)),
     !.inode = [ino \in Inode |-> Undeleted(d, ino, listed)]]

Listed(d, first) == {EntryAt(d, x).inode : x \in first}

\* main: the image after a pass, whether it came to its end or not, and
\* total_fixed_num.  The counters of superblock and group are two.
Checked(d) ==
  LET first == FirstVisits(d) IN Repaired(d, first, Listed(d, first))

Off(n, m) == IF n < m THEN m - n ELSE n - m

Fixes(d) ==
  LET first  == FirstVisits(d)
      listed == Listed(d, first)
  IN  2 * Off(d.free_inodes, FreeInodes(d)) + 2 * Off(d.free_blocks, FreeBlocks(d))
      + Cardinality(Mistyped(d, first)) + Cardinality(Unmarked(d, listed))
      + Cardinality(Deceased(d, listed))
      + Cardinality(LostBlocks(d, listed)) + Cardinality(NoBlocks(d, listed))

TwoBlocks == {dir \in Inode : disk.inode[dir].i_mode = "dir" /\ BlockCount(disk, dir) = 2}

ext2_checker ==
  /\ disk' = Checked(disk)
  /\ recounted' = TwoBlocks
  /\ UNCHANGED damage

-----------------------------------------------------------------------------
CheckedInit == Init /\ recounted = {}
CheckedNext == (Next /\ UNCHANGED recounted) \/ ext2_checker
CheckedSpec == CheckedInit /\ [][CheckedNext]_checkedVars

-----------------------------------------------------------------------------
(* Properties of the counters and of the checker.                          *)

\* The counter of free inodes is that of the bitmap, and the counter of free
\* blocks is too high by the second blocks of directories that were taken since
\* the last pass of the checker, which are not counted, and by nothing else.
CountersOffByGrowth ==
  damage = "none" =>
    /\ disk.free_inodes = FreeInodes(disk)
    /\ disk.free_blocks = FreeBlocks(disk) + Cardinality(TwoBlocks \ recounted)

\* The checker comes to the end of every image of which no block or inode is
\* missing and no entry was wrongly restored, and it has nothing to repair in
\* an undamaged image but that counter.
CheckerSpares ==
  /\ Outcome(disk) # "done" => damage \in {"full", "stale"}
  /\ damage = "none" => Checked(disk) = [disk EXCEPT !.free_blocks = FreeBlocks(disk)]

\* Whatever the damage, after a pass that came to its end the counters are those
\* of the bitmaps, and whatever an entry of a directory in use names, the first
\* with its inode or not, is marked in use with all its blocks and is not marked
\* deleted; every entry has the type of its inode, unless a removed one is back
\* in view, wrongly restored or where a tool stopped after it had cut the entry
\* before it (the pass looks at the first entry of an inode only, and that one
\* may be a second, of the last owner); and a second pass finds nothing to repair:
\* no repair makes an inconsistency for one made before it, although the counters
\* are compared first and the bitmaps changed after.
CheckerMends ==
  damage # "none" /\ Outcome(disk) = "done" =>
    \E d \in {Checked(disk)} :
      /\ d.free_inodes = FreeInodes(d) /\ d.free_blocks = FreeBlocks(d)
      /\ \A dir \in Directories : \A x \in Places(dir) :
           LET ino == At(dir, x).inode
           IN  ino # 0 => /\ ino \in d.ibm /\ ~d.inode[ino].i_dtime
                          /\ FileBlocks(d, ino) \cap Block \subseteq d.bbm
      /\ damage \notin {"stale", "full"} =>
           \A x \in PlacesToCheck(d) :
             EntryAt(d, x).inode # 0 => EntryAt(d, x).file_type = TypeOf(d, EntryAt(d, x).inode)
      /\ Outcome(d) = "done" /\ Checked(d) = d /\ Fixes(d) = 0

\* The entry that rm leaves where it is the first of its block makes the
\* checker take the removal back, all but the link count.
CheckerRevives ==
  [][damage = "none" /\ damage' = "first" /\ disk'.ibm # disk.ibm =>
       \E ino \in disk.ibm \ disk'.ibm :
         Checked(disk') = [disk EXCEPT !.inode[ino].i_links_count = 0,
                                       !.free_blocks = FreeBlocks(disk)]]_checkedVars
=============================================================================
