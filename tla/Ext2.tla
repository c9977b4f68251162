-------------------------------- MODULE Ext2 --------------------------------
(***************************************************************************)
(* The tools mkdir, cp, ln, rm and restore working one after the other on  *)
(* an ext2 image.  A tool is one step: it maps the image, changes it in    *)
(* place and ends, and where it exits or crashes half-way the image stays  *)
(* as it is then.                                                          *)
(*                                                                         *)
(* Some paths through the code leave an image that no longer is a file     *)
(* system.  The step that does so is in the model, with the image it       *)
(* leaves and the reason in damage, and it is the last one.                *)
(***************************************************************************)
EXTENDS Ext2Image

VARIABLES
  disk,      \* the image
  damage     \* history: "none", or what the last tool did to the image
             \*   "full"    it had to do without an inode or block
             \*   "exists"  it gave a name twice, or wrote over ".."
             \*   "grown"   it enlarged a directory by half a block
             \*   "third"   it enlarged one that has a third block from the
             \*             last owner of its inode, where lookups then go
             \*   "first"   it removed the first entry of a block
             \*   "stale"   it restored what was no longer there to restore

vars == <<disk, damage>>

Init == disk = Formatted /\ damage = "none"

\* A tool leaves an image behind.
Leaves(d, harm) == disk' = d /\ damage' = harm

Write(d, b, c) == [d EXCEPT !.block[b] = c]

\* A directory has a new block in slot i, or -1 there.  The block is taken in
\* the bitmap and in none of the counters.
Grown(d, dir, i) ==
  LET b == find_free_block_index(d)
  IN  [d EXCEPT !.bbm = @ \cup ({b} \cap Block),
                !.inode[dir].i_block[i] = b,
                !.inode[dir].i_blocks = @ + 2]

\* mkdir sets the first slot of an inode, and growth the second: in the third
\* there may be a block of a removed file.
GrownHarm(d, dir, harm) == IF d.inode[dir].i_block[2] # 0 THEN "third" ELSE harm

\* The number of blocks of an inode; i_blocks is in sectors of half a block.
BlockCount(d, ino) == d.inode[ino].i_blocks \div 2

-----------------------------------------------------------------------------
(* ext2_mkdir                                                              *)

\* add_directory in block b of dir, with an inode and a block found.
AddDirectory(d, b, name, dir, ino, free) ==
  [d EXCEPT !.block[b] = Inserted(@, name, "dir", ino),
            !.block[free] = NewDirectory(ino, dir),
            !.bbm = @ \cup {free}, !.ibm = @ \cup {ino},
            !.free_blocks = @ - 1, !.free_inodes = @ - 1,
            !.inode[ino] = [@ EXCEPT !.i_mode = "dir", !.i_links_count = 2, !.i_blocks = 2,
                                     !.i_dtime = FALSE, !.i_block[0] = free],
            !.inode[dir].i_links_count = @ + 1]

\* add_directory.  Without an inode it exits when the last entry has been cut
\* short, without a block when everything but the block is done.
add_directory(d, b, name, dir, harm) ==
  LET ino  == find_invalid_indode_index(d)
      free == find_free_block_index(d)
  IN  \/ /\ ino = -1
         /\ Leaves(Write(d, b, Trimmed(d.block[b])), "full")
      \/ /\ ino # -1 /\ free = -1
         /\ Leaves([d EXCEPT !.block[b] = Inserted(@, name, "dir", ino),
                             !.ibm = @ \cup {ino}, !.free_inodes = @ - 1,
                             !.inode[ino] = [@ EXCEPT !.i_mode = "dir", !.i_links_count = 2,
                                                      !.i_blocks = 2, !.i_dtime = FALSE]],
                   "full")
      \/ /\ ino # -1 /\ free # -1
         /\ Leaves(AddDirectory(d, b, name, dir, ino, free), harm)

\* The directory that mk_dir and get_struct come to with the last name: both
\* end at the end of the first block of each directory.  0 if there is none.
SubdirIn(c, name) ==
  IF Subdirs(c, name) = {} THEN 0 ELSE c[Min(Subdirs(c, name))].inode

FirstBlocksLead(d, path) ==
  LET at[k \in 1 .. Len(path)] ==
        IF k = 1 THEN EXT2_ROOT_INO
        ELSE LET dir == at[k - 1]
             IN  IF dir = 0 THEN 0 ELSE SubdirIn(Content(d, dir, 0), path[k - 1])
  IN  at[Len(path)]

\* Is there an entry of this name in some block of the directory?
Has(d, dir, name) ==
  \E i \in 0 .. BlockCount(d, dir) - 1 : Named(Content(d, dir, i), name) # {}

\* mk_dir for the last name of the path, in directory dir and its first block
\* c.  A second block is added when the first is full, and is never searched.
mk_dir(dir, c, name) ==
  LET harm == IF Has(disk, dir, name) THEN "exists" ELSE "none"
      b    == find_free_block_index(disk)
  IN  /\ Named(c, name) = {}
      /\ \/ /\ new_directory_fits(c)
            /\ add_directory(disk, disk.inode[dir].i_block[0], name, dir, harm)
         \/ /\ ~new_directory_fits(c) /\ BlockCount(disk, dir) = 1
            /\ \/ b = -1 /\ Leaves([disk EXCEPT !.inode[dir].i_block[1] = -1], "full")
               \/ b # -1 /\ add_directory(Grown(disk, dir, 1), b, name, dir, GrownHarm(disk, dir, harm))

\* main.  The list of names was cut out of the path before the path is looked
\* up, so that only its first name is.
ext2_mkdir(path) ==
  /\ path_exists(disk, <<Head(path)>>) \in {"dir", "new"}
  /\ \E dir \in {FirstBlocksLead(disk, path)} \ {0} :
       mk_dir(dir, Content(disk, dir, 0), Last(path))

-----------------------------------------------------------------------------
(* ext2_cp                                                                 *)

\* Where get_file_entry and mk_dir2 stop: the directory and the place in the
\* path of the name they have there.  A directory of that name in one of the
\* slots they go through leads on, any other entry of that name does not.
Down(d, dir, slots, name) ==
  LET on == {i \in slots : Subdirs(Content(d, dir, i), name) # {}}
  IN  IF on = {} THEN 0 ELSE SubdirIn(Content(d, dir, Min(on)), name)

Onward(dir, k, next) ==
  IF next = 0 THEN [dir |-> dir, k |-> k] ELSE [dir |-> next, k |-> k + 1]

Reached(d, path, slots) ==
  LET step(at, k) == IF at.k < k THEN at
                     ELSE Onward(at.dir, k, Down(d, at.dir, slots[at.dir], path[k]))
      at[k \in 1 .. Len(path)] ==
        IF k = 1 THEN [dir |-> EXT2_ROOT_INO, k |-> 1] ELSE step(at[k - 1], k - 1)
  IN  at[Len(path)]

\* The way both of them write over "..": at the first entry of the directory
\* they still hold, as if it was the last one of the block.
OverDotDot(c, name, type, ino) ==
  [c EXCEPT ![0].rec_len = 1,
            ![1] = Entry(name, type, ino, EXT2_BLOCK_SIZE - 1)]

\* The new entry where either of them makes it.
Added(c, over, name, type, ino) ==
  IF over THEN OverDotDot(c, name, type, ino) ELSE Inserted(c, name, type, ino)

\* main takes the blocks of a file one by one: the bitmap after each of them,
\* and the block for slot k, -1 where there is none.
Taken(d, size) ==
  LET taken[k \in 0 .. size] ==
        IF k = 0 THEN d.bbm
        ELSE taken[k - 1] \cup ({find_free_block_index([d EXCEPT !.bbm = taken[k - 1]])} \cap Block)
  IN  taken
FileBlock(d, size, k) == find_free_block_index([d EXCEPT !.bbm = Taken(d, size)[k]])

\* What add_file_loc and main do for inode ino once the entry is there: main
\* crashes at the first slot for which it has no block.
CopyBlocks(d, ino, size, harm) ==
  LET enough == \A k \in 0 .. size - 1 : FileBlock(d, size, k) # -1
      free   == Cardinality(Block \ d.bbm)
      file   == [d.inode[ino] EXCEPT
                   !.i_mode = "reg", !.i_links_count = 0, !.i_blocks = 0, !.i_dtime = FALSE,
                   !.i_block = [k \in Slot |-> IF k < size /\ (enough \/ k <= free)
                                               THEN FileBlock(d, size, k) ELSE @[k]]]
      d1 == [d EXCEPT !.ibm = @ \cup {ino}, !.free_inodes = @ - 1, !.bbm = Taken(d, size)[size]]
  IN  \/ /\ enough
         /\ Leaves([d1 EXCEPT !.free_blocks = @ - size,
                              !.inode[ino] = [file EXCEPT !.i_blocks = 2 * size,
                                                          !.i_links_count = 1]],
                   harm)
      \/ /\ ~enough
         /\ Leaves([d1 EXCEPT !.free_blocks = @ - (free + 1), !.inode[ino] = file], "full")

\* add_file_loc and the rest of main.  The entry goes to the end of block b, or
\* over the second one there.  Without an inode it names inode -1, and main
\* crashes at its first access to that, when the counters have been changed.
add_file(d, b, name, over, size, harm) ==
  LET ino == find_invalid_indode_index(d)
      d1  == Write(d, b, Added(d.block[b], over, name, "reg", ino))
  IN  IF ino = -1 THEN Leaves([d1 EXCEPT !.free_inodes = @ - 1], "full")
      ELSE CopyBlocks(d1, ino, size, harm)

\* get_file_entry for the last name, which is not in the open blocks of the
\* directory, the first of them in slot i: NULL for a full block that is not
\* the last makes main crash before it has changed anything.
cp_new(dir, name, i, c, size) ==
  LET harm == IF Has(disk, dir, name) THEN "exists" ELSE "none"
      b    == find_free_block_index(disk)
  IN  \/ /\ new_directory_fits(c)
         /\ add_file(disk, disk.inode[dir].i_block[i], name, FALSE, size, harm)
      \/ /\ ~new_directory_fits(c) /\ i + 1 = BlockCount(disk, dir)
         /\ \/ b = -1 /\ Leaves(Grown(disk, dir, i + 1), "full")
            \/ b # -1 /\ add_file(Grown(disk, dir, i + 1), b, name, FALSE, size,
                                  GrownHarm(disk, dir, harm))

\* main and get_file_entry, which goes on with the next block where it finds
\* the name, and in the end writes over "..".
ext2_cp(path, size) ==
  LET slots == [dir \in Inode |-> 0 .. BlockCount(disk, dir) - 1]
      Open(dir, name) == {i \in slots[dir] : Named(Content(disk, dir, i), name) = {}}
  IN  /\ size + 1 <= disk.free_blocks
      /\ \E at \in {Reached(disk, path, slots)} :
           \E open \in {Open(at.dir, path[at.k])} :
             \/ /\ at.k = Len(path) /\ open # {}
                /\ cp_new(at.dir, path[at.k], Min(open),
                          Content(disk, at.dir, Min(open)), size)
             \/ /\ at.k < Len(path) \/ open = {}
                /\ add_file(disk, disk.inode[at.dir].i_block[0], path[at.k], TRUE,
                            size, "exists")

-----------------------------------------------------------------------------
(* ext2_ln                                                                 *)

\* get_struct: the inode of a file, or 0.
FileIn(c, name) ==
  LET p == {p \in Named(c, name) : c[p].file_type = "reg"}
  IN  IF p = {} THEN 0 ELSE c[Min(p)].inode

get_struct(d, path) ==
  LET dir == FirstBlocksLead(d, path)
  IN  IF dir = 0 THEN 0 ELSE FileIn(Content(d, dir, 0), Last(path))

\* Mutant: the file does not gain a link.
LinkedNot(d, ino) == d

\* add_hardlink without the flag, for inode ino.
Linked(d, ino) == [d EXCEPT !.inode[ino].i_links_count = @ + 1]

\* Mutant: the block is the one that find_free_block_index would find, unmarked.
SymlinkedUnmarked(d, ino) ==
  [d EXCEPT !.ibm = @ \cup {ino}, !.free_inodes = @ - 1, !.free_blocks = @ - 1,
            !.inode[ino] = [@ EXCEPT !.i_mode = "lnk", !.i_links_count = @ + 1, !.i_blocks = 2,
                                     !.i_dtime = FALSE,
                                     !.i_block[0] = Max({0, find_free_block_index(d)})]]

\* add_hardlink with the flag and the rest of main, for a new inode.  Where no
\* block is free, print_bitmap gives it block 0, the boot block.
Symlinked(d, ino) ==
  LET free == find_free_block_index(d)
      link == [d.inode[ino] EXCEPT !.i_mode = "lnk", !.i_links_count = @ + 1, !.i_blocks = 2,
                                   !.i_dtime = FALSE, !.i_block[0] = Max({0, free})]
  IN  [d EXCEPT !.ibm = @ \cup {ino}, !.free_inodes = @ - 1, !.inode[ino] = link,
                !.bbm = @ \cup ({free} \cap Block), !.free_blocks = @ - 1]

\* The name is written before an inode is looked for: what is left of the new
\* entry if there is none.
NameOnly(c, over, name) ==
  LET p == IF over THEN 1 ELSE IF c[0].rec_len = 0 THEN 0 ELSE LastShown(c) + 1
  IN  [IF over THEN [c EXCEPT ![0].rec_len = 1] ELSE Trimmed(c) EXCEPT ![p].name = name]

\* add_hardlink in block b, after the last entry or over the second: a link to
\* inode ino, or a symbolic link if that is 0.
add_hardlink(d, b, over, name, ino, harm) ==
  LET new == find_invalid_indode_index(d)
      c   == d.block[b]
  IN  \/ /\ ino # 0
         /\ Leaves(Linked(Write(d, b, Added(c, over, name, "reg", ino)), ino), harm)
      \/ /\ ino = 0 /\ new = -1
         /\ Leaves(Write(d, b, NameOnly(c, over, name)), "full")
      \/ /\ ino = 0 /\ new # -1
         /\ Leaves(Symlinked(Write(d, b, Added(c, over, name, "lnk", new)), new),
                   IF find_free_block_index(d) = -1 THEN "full" ELSE harm)

\* mk_dir2 for the last name of the path, where the blocks in the open slots
\* have room and not the name; c is the first of them, or of all blocks.  Of
\* its search through all slots only that matters.  A full directory is
\* enlarged by one sector.
ln_new(dir, name, ino, open, c) ==
  LET b == find_free_block_index(disk)
      d == [disk EXCEPT !.inode[dir].i_blocks = @ + 1,
                        !.inode[dir].i_block[2] = disk.inode[dir].i_block[1],
                        !.inode[dir].i_block[1] = b]
  IN  \/ /\ open # {} /\ ~Stuck(c)
         /\ add_hardlink(disk, disk.inode[dir].i_block[Min(open)], FALSE, name, ino,
                         IF Has(disk, dir, name) THEN "exists" ELSE "none")
      \/ /\ open = {} /\ Named(c, name) = {}
         /\ \/ b = -1 /\ Leaves(d, "full")
            \/ /\ b # -1
               /\ add_hardlink(Write([d EXCEPT !.bbm = @ \cup {b}], b, Zeros), b, FALSE,
                               name, ino, "grown")

\* mk_dir2, which takes i_blocks less one for the number of blocks.  In a
\* directory of two blocks the search ends in the boot block, and never.
mk_dir2(path, ino) ==
  LET slots == [dir \in Inode |-> SlotsLookedAt(disk, dir)]
      Room(c, name) == Named(c, name) = {} /\ (Stuck(c) \/ new_directory_fits(c))
      Open(dir, name) == {i \in slots[dir] : Room(Content(disk, dir, i), name)}
  IN  \E at \in {Reached(disk, path, slots)} :
      \E open \in {Open(at.dir, path[at.k])} :
        \/ /\ at.k = Len(path)
           /\ ln_new(at.dir, path[at.k], ino, open,
                     Content(disk, at.dir, IF open = {} THEN 0 ELSE Min(open)))
        \/ /\ \/ at.k < Len(path)
              \/ open = {} /\ Named(Content(disk, at.dir, 0), path[at.k]) # {}
           /\ \A i \in slots[at.dir] : ~Stuck(Content(disk, at.dir, i))
           /\ add_hardlink(disk, disk.inode[at.dir].i_block[0], TRUE, path[at.k], ino, "exists")

\* main without -s.  Where the target is no file in the first blocks, it
\* crashes at once.
ext2_ln(target, path) ==
  \E ino \in {get_struct(disk, target)} \ {0} : mk_dir2(path, ino)

\* main with -s, for any target: it is looked up, and what is found not used.
ext2_ln_s(path) == mk_dir2(path, 0)

-----------------------------------------------------------------------------
(* ext2_rm                                                                 *)

FileBlocks(d, ino) == {d.inode[ino].i_block[i] : i \in {i \in Slot : i < BlockCount(d, ino)}}

\* Mutants: one block is counted whatever the file has; the inode stays in use.
FreedCountingOne(d, ino) ==
  [d EXCEPT !.bbm = @ \ FileBlocks(d, ino), !.ibm = @ \ {ino},
            !.free_blocks = @ + 1, !.free_inodes = @ + 1,
            !.inode[ino].i_dtime = TRUE, !.inode[ino].i_links_count = @ - 1]
FreedInodeKept(d, ino) ==
  [d EXCEPT !.bbm = @ \ FileBlocks(d, ino),
            !.free_blocks = @ + BlockCount(d, ino), !.free_inodes = @ + 1,
            !.inode[ino].i_dtime = TRUE, !.inode[ino].i_links_count = @ - 1]

\* remove_file for the last link: the inode keeps its mode and its blocks.
Freed(d, ino) ==
  [d EXCEPT !.bbm = @ \ FileBlocks(d, ino), !.ibm = @ \ {ino},
            !.free_blocks = @ + BlockCount(d, ino), !.free_inodes = @ + 1,
            !.inode[ino].i_dtime = TRUE, !.inode[ino].i_links_count = @ - 1]

\* Block and cell of the entry that search_entry finds: in the first of the
\* slots it goes through that has the name.
NoVictim == [b |-> 0, p |-> 0]
InSlot(d, b, name) == [b |-> b, p |-> Min(Named(d.block[b], name))]

VictimIn(d, dir, name) ==
  LET on == {i \in SlotsLookedAt(d, dir) : Named(Content(d, dir, i), name) # {}}
  IN  IF on = {} THEN NoVictim ELSE InSlot(d, d.inode[dir].i_block[Min(on)], name)

Victim(d, path) ==
  VictimIn(d, Reached(d, path, [dir \in Inode |-> SlotsLookedAt(d, dir)]).dir, Last(path))

\* Mutant: the entry before is taken to be the first of the block.
UnshownByFirst(c, p) == [c EXCEPT ![0].rec_len = @ + c[p].rec_len]

\* remove_file: the entry before the victim spans both.  The first entry of a
\* block has none before it and stays.
Unshown(c, p) ==
  LET q == Max({q \in Shown(c) : q < p}) IN [c EXCEPT ![q].rec_len = @ + c[p].rec_len]

\* remove_file for the entry in cell p of block b.  A symbolic link is the
\* last link whatever its count.
remove_file(d, b, p) ==
  LET e  == d.block[b][p]
      d1 == IF p = 0 THEN d ELSE Write(d, b, Unshown(d.block[b], p))
  IN  IF d.inode[e.inode].i_links_count > 1 /\ e.file_type # "lnk"
      THEN [d1 EXCEPT !.inode[e.inode].i_links_count = @ - 1]
      ELSE Freed(d1, e.inode)

\* main and search_entry.  main looks up a copy of the path that lacks its end,
\* and search_entry compares a copy of the name that lacks its end: they may
\* miss the file, and then nothing changes.  The lookup takes the path of a
\* symbolic link for a new one, and main goes on.
ext2_rm(path) ==
  /\ path_exists(disk, path) \in {"file", "new"}
  /\ \E v \in {Victim(disk, path)} \ {NoVictim} :
       Leaves(remove_file(disk, v.b, v.p), IF v.p = 0 THEN "first" ELSE "none")

-----------------------------------------------------------------------------
(* ext2_restore                                                            *)

\* The entries search_entry compares in one block, where it stops at one that
\* matches: p is the entry, q the place the last length was counted from.  It
\* steps over one cell after an entry whose inode is in use, and by rec_len
\* after another, deleted or not.  A zero entry has no letters to differ.
WalkStops(e, name) == e.name = name \/ (e.name = "" /\ e.file_type # "dir")

WalkStep(d, c, name, w) ==
  IF w.p \notin Cell \/ WalkStops(c[w.p], name) THEN w
  ELSE IF c[w.p].inode \in d.ibm THEN [p |-> w.p + 1, q |-> w.p]
  ELSE [p |-> w.p + c[w.p].rec_len, q |-> w.q]

Walked(d, c, name) ==
  LET at[k \in 0 .. EXT2_BLOCK_SIZE] ==
        IF k = 0 THEN [p |-> 0, q |-> 0] ELSE WalkStep(d, c, name, at[k - 1])
  IN  at[EXT2_BLOCK_SIZE]

Stops(c, name, w) == w.p \in Cell /\ WalkStops(c[w.p], name)

\* search_entry in the blocks of one directory, of which hits are the slots it
\* stops in: the place and its type, or NoStop.
NoStop == [b |-> 0, p |-> 0, q |-> 0, dir |-> 0, to |-> 0]

StopAt(d, dir, b, w) ==
  [b |-> b, p |-> w.p, q |-> w.q, dir |-> dir,
   to |-> IF d.block[b][w.p].file_type = "dir" THEN d.block[b][w.p].inode ELSE 0]

StopIn(d, dir, name, hits) ==
  IF hits = {} THEN NoStop
  ELSE StopAt(d, dir, d.inode[dir].i_block[Min(hits)],
              Walked(d, Content(d, dir, Min(hits)), name))

Stop(d, dir, name) ==
  LET hit(c) == Stops(c, name, Walked(d, c, name))
  IN  StopIn(d, dir, name, {i \in 0 .. BlockCount(d, dir) - 1 : hit(Content(d, dir, i))})

\* search_entry: the entry it hands to restore_file, or NoStop.
Deleted(d, path) ==
  LET leads[k \in 0 .. Len(path) - 1] ==
        IF k = 0 THEN EXT2_ROOT_INO
        ELSE LET dir == leads[k - 1]
             IN  IF dir = 0 THEN 0 ELSE Stop(d, dir, path[k]).to
      dir == leads[Len(path) - 1]
      v   == Stop(d, dir, Last(path))
  IN  IF dir = 0 THEN NoStop ELSE IF v.to # 0 THEN NoStop ELSE v

\* Mutant: the time of deletion stays.
RevivedStillDeleted(d, ino) ==
  [d EXCEPT !.bbm = @ \cup FileBlocks(d, ino), !.free_blocks = @ - BlockCount(d, ino)]

\* restore_file for a file without links.  The time is reset in the loop over
\* the blocks.
Revived(d, ino) ==
  [d EXCEPT !.bbm = @ \cup FileBlocks(d, ino), !.free_blocks = @ - BlockCount(d, ino),
            !.inode[ino].i_dtime = IF BlockCount(d, ino) > 0 THEN FALSE ELSE @]

\* restore_file for inode ino, with the entry before the victim cut short: it
\* exits if a block of the file is in use.  A file that still has links gains
\* two.
RestoredInode(d, ino, type) ==
  LET d1 == IF d.inode[ino].i_links_count >= 1 /\ type # "lnk"
            THEN [d EXCEPT !.inode[ino].i_links_count = @ + 1]
            ELSE Revived(d, ino)
  IN  IF FileBlocks(d, ino) \cap d.bbm # {} THEN d
      ELSE [d1 EXCEPT !.ibm = @ \cup {ino}, !.free_inodes = @ - 1,
                      !.inode[ino].i_links_count = @ + 1]

\* restore_file.  A zero entry names inode 0: only what lies before the inode
\* table is changed, and the counters.
restore_file(d, v) ==
  LET e  == d.block[v.b][v.p]
      d1 == Write(d, v.b, [d.block[v.b] EXCEPT ![v.q].rec_len = v.p - v.q])
  IN  IF e.inode \in Inode THEN RestoredInode(d1, e.inode, e.file_type)
      ELSE [d1 EXCEPT !.free_inodes = @ - 1]

\* What has to be so for restore to do what it is for: the entry was the last
\* link of a file with blocks, it is still there in the gap after the entry
\* before it and fills what that gains, its name and blocks have not been given
\* away, and its inode is free and was last used for such a file.
Restorable(d, v, c, name) ==
  LET ino == c[v.p].inode
  IN  /\ c[v.p].name = name /\ ino \in Inode \ d.ibm /\ c[v.p].file_type = d.inode[ino].i_mode
      /\ FileBlocks(d, ino) # {} /\ FileBlocks(d, ino) \cap d.bbm = {}
      /\ v.q \in Shown(c) /\ v.q + c[v.q].rec_len = v.p + c[v.p].rec_len
      /\ ~Has(d, v.dir, name)

\* main and search_entry.  Only the first name of the path is looked up, for
\* all that its result is used.
ext2_restore(path) ==
  /\ path_exists(disk, <<Head(path)>>) # "hangs"
  /\ \E v \in {Deleted(disk, path)} \ {NoStop} :
     \E d \in {restore_file(disk, v)} \ {disk} :
       Leaves(d, IF Restorable(disk, v, disk.block[v.b], Last(path)) THEN "none" ELSE "stale")

-----------------------------------------------------------------------------
Next ==
  /\ damage = "none"
  /\ \E path \in Path :
       \/ ext2_mkdir(path)
       \/ \E size \in Size : ext2_cp(path, size)
       \/ \E target \in Path : ext2_ln(target, path)
       \/ ext2_ln_s(path)
       \/ ext2_rm(path)
       \/ ext2_restore(path)

Spec == Init /\ [][Next]_vars

-----------------------------------------------------------------------------
(* Properties of the image as long as no tool has damaged it.              *)

EntryName == Name \cup {"", ".", ".."}
EntryType == [name : EntryName, file_type : {"unknown", "reg", "dir", "lnk"},
              inode : Inode \cup {-1, 0}, rec_len : Nat]
InodeType == [i_mode : {"none", "reg", "dir", "lnk"}, i_links_count : Nat, i_blocks : Nat,
              i_block : [Slot -> {-1, 0} \cup Block], i_dtime : BOOLEAN]

\* Type invariant.  Every number the tools take for a block or an inode is
\* that of one, -1 or 0.
TypeOK ==
  /\ DOMAIN disk = {"bbm", "ibm", "free_blocks", "free_inodes", "inode", "block"}
  /\ disk.bbm \subseteq Block /\ disk.ibm \subseteq Inode
  /\ disk.free_blocks \in Int /\ disk.free_inodes \in Int
  /\ \A i \in Inode : disk.inode[i] \in InodeType
  /\ \A b \in Block : \A p \in Cell : disk.block[b][p] \in EntryType
  /\ damage \in {"none", "full", "exists", "grown", "third", "first", "stale"}

Directories == {i \in disk.ibm : disk.inode[i].i_mode = "dir"}

\* What is in a directory: slot and cell of the entries a walk comes to.
Places(dir) == {x \in (0 .. BlockCount(disk, dir) - 1) \X Cell :
                  x[2] \in Shown(Content(disk, dir, x[1]))}
At(dir, x) == Content(disk, dir, x[1])[x[2]]

\* The entries of each block of a directory follow each other to its very end,
\* "." and ".." are the first two and name it and the directory it is in, and
\* no name is there twice: what mkdir, cp, ln and restore make of the lengths
\* of two entries, and rm of those of its victim and the one before, fits.
DirectoriesWhole ==
  damage = "none" =>
    \A dir \in Directories :
      /\ \A i \in 0 .. BlockCount(disk, dir) - 1 :
           LET c == Content(disk, dir, i)
           IN  ~Stuck(c) /\ LastShown(c) + c[LastShown(c)].rec_len = EXT2_BLOCK_SIZE
      /\ \A x, y \in Places(dir) : At(dir, x).name = At(dir, y).name => x = y
      /\ {<<0, 0>>, <<0, 1>>} \subseteq Places(dir)
      /\ At(dir, <<0, 0>>) = Entry(".", "dir", dir, 1)
      /\ At(dir, <<0, 1>>).name = ".."
      /\ LET up == At(dir, <<0, 1>>).inode
         IN  /\ up \in Directories
             /\ \/ up = dir /\ dir = EXT2_ROOT_INO
                \/ \E x \in Places(up) : At(up, x).inode = dir /\ At(up, x).name \in Name

\* The inodes in use are those that the entries name, with the type the entry
\* says and no time of deletion: rm, with its two ways for a file with and
\* without further links, and restore, which looks at neither, leave no entry
\* of a free inode and no inode without an entry.
EntriesLive ==
  damage = "none" =>
    LET named == UNION {{<<At(dir, x).inode, At(dir, x).file_type>> : x \in Places(dir)} :
                          dir \in Directories}
    IN  /\ named = {<<i, disk.inode[i].i_mode>> : i \in disk.ibm}
        /\ \A i \in disk.ibm : ~disk.inode[i].i_dtime

\* The link count of an inode in use is the number of entries that name it,
\* "." and ".." among them, after any sequence of mkdir, cp, ln, rm, restore.
LinksCounted ==
  damage = "none" =>
    \A ino \in disk.ibm :
      disk.inode[ino].i_links_count =
        Cardinality({x \in Directories \X (Slot \X Cell) :
                       x[2] \in Places(x[1]) /\ At(x[1], x[2]).inode = ino})

\* The blocks marked in the bitmap are the blocks of the inodes in use, and
\* each is a block of one inode, in one slot: what cp and mkdir take from the
\* bitmap, rm gives back and restore takes again.
BlocksOwned ==
  damage = "none" =>
    LET owned == {x \in disk.ibm \X Slot : x[2] < BlockCount(disk, x[1])}
        owner(x) == disk.inode[x[1]].i_block[x[2]]
    IN  /\ {owner(x) : x \in owned} = disk.bbm
        /\ Cardinality(owned) = Cardinality(disk.bbm)

\* The path lookup finds every file and directory there is, in whatever block
\* its entry is, and runs into the boot block only in search of a name that is
\* not there, or is a symbolic link, in a directory of two blocks.
LookupRight(path, at) ==
  LET hit == {x \in Places(at.dir) : At(at.dir, x).name = path[at.k]
                                       /\ At(at.dir, x).file_type # "lnk"}
      is  == path_exists(disk, path)
  IN  /\ hit = {} => is = IF BlockCount(disk, at.dir) = 2 THEN "hangs"
                          ELSE IF at.k = Len(path) THEN "new" ELSE "missing"
      /\ \A x \in hit : is = IF At(at.dir, x).file_type = "dir" THEN "dir"
                             ELSE IF at.k = Len(path) THEN "file" ELSE "blocked"

LookupsRight ==
  damage = "none" =>
    \A path \in Path :
      LookupRight(path, Reached(disk, path, [dir \in Inode |-> 0 .. BlockCount(disk, dir) - 1]))

\* The entries that are hidden in the gaps after others: those of removed files.
\* A ghost is one of a removed hard link, that names an inode in use.
Hidden(d) == UNION {{d.block[b][p] : p \in Cell \ Shown(d.block[b])} : b \in Block}
Ghosts(d) == {e \in Hidden(d) : e.inode \in d.ibm}

\* "ext2_restore: the program is opposite of ext2_rm" (README.md:20).  Called
\* right after rm for the same path it gives back the image bit for bit, the
\* hidden entries and freed inodes in it included, if rm removed the last link
\* of a file that has a block, from any place but the first of a block, if
\* there are no ghosts, which it could take for the entry before the victim,
\* and if nothing that was removed earlier has a name of the path.
RestoreUndoesRm ==
  [][\A path \in Path :
       /\ damage = "none" /\ ext2_rm(path) /\ damage' = "none"
       /\ \E ino \in disk.ibm \ disk'.ibm : BlockCount(disk, ino) > 0
       /\ Ghosts(disk') = {}
       /\ \A e \in Hidden(disk), k \in 1 .. Len(path) : e.name # path[k]
       /\ path_exists(disk', <<Head(path)>>) # "hangs"
       => LET v == Deleted(disk', path)
          IN  v # NoStop /\ restore_file(disk', v) = disk]_vars
=============================================================================
