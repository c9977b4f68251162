-------------------------- MODULE Ext2CheckerProofs --------------------------
(* The tools and the checker one after the other, in any order: what the     *)
(* tools keep of an image, and how far its counters may be off.              *)
EXTENDS Ext2Tree, Ext2Proofs

-----------------------------------------------------------------------------
(* The checker.                                                              *)

\* The entries a pass comes to are entries of directories in use.
LEMMA PlacesChecked ==
  ASSUME NEW d \in Image, NEW P, Sound(d, P), NEW x \in PlacesToCheck(d)
  PROVE  \E y \in P : /\ EntryAt(d, x) = Ent(d, y) /\ Ent(d, y).rec_len > 0
                      /\ d.inode[x[1]].i_block[x[2]] \in Block
<1>1. PICK w \in CheckedDirs(d) \X Slot :
        /\ w[2] < BlockCount(d, w[1])
        /\ \E p \in Shown(Content(d, w[1], w[2])) : x = <<w[1], w[2], p>>
  BY DEF PlacesToCheck
<1>2. PICK p \in Shown(Content(d, w[1], w[2])) : x = <<w[1], w[2], p>>
  BY <1>1
<1> DEFINE dir == w[1]
           s == w[2]
           b == d.inode[dir].i_block[s]
           y == <<dir, <<s, p>>>>
<1>3. Own(d) /\ Laid(d, P) /\ P = PlacesOf(d) /\ d.ibm \subseteq Inode
  BY SoundParts
<1>4. dir \in Dirs(d)
  <2>1. dir \in Inode /\ d.inode[dir].i_mode = "dir"
    BY <1>1 DEF CheckedDirs
  <2>2. dir \in d.ibm
    BY <1>3, <2>1 DEF Own
  <2> QED
    BY <2>1, <2>2 DEF Dirs
<1>5. s \in Used(d.inode[dir])
  BY <1>1 DEF Used, Count, BlockCount
<1> HIDE DEF dir, s
<1>6. x = <<dir, s, p>> /\ x[1] = dir /\ x[2] = s /\ x[3] = p
  BY <1>2 DEF dir, s
<1>7. b \in Block /\ s \in Slot /\ dir \in Inode
  BY <1>3, <1>4, <1>5, DirectoryBlocks
<1>8. Content(d, dir, s) = d.block[b] /\ d.block[b] \in [Cell -> EntryType]
  BY <1>7, Fields, SMTT(30) DEF Content
<1>9. p \in Shown(d.block[b]) /\ p \in Cell
  <2>1. p \in Shown(d.block[b])
    BY <1>2, <1>8, Zenon DEF dir, s
  <2>2. Shown(d.block[b]) \subseteq Cell
    BY <1>8, ShownLeast, EntryLengths
  <2> QED
    BY <2>1, <2>2
<1>10. y \in P
  <2>1. y \in Place /\ y[1] = dir /\ y[2][1] = s /\ y[2][2] = p
    BY <1>7, <1>9 DEF Place
  <2> QED
    BY <1>3, <1>4, <1>5, <1>9, <2>1, Zenon DEF PlacesOf
<1>11. EntryAt(d, x) = Ent(d, y)
  BY <1>6, <1>8 DEF EntryAt, Ent
<1>12. Ent(d, y).rec_len > 0
  <2>1. Chain(d.block[b], InDir(P, dir, s)) /\ p \in InDir(P, dir, s)
    BY <1>3, <1>4, <1>5, <1>9, <1>10 DEF Laid, InDir
  <2> QED
    BY <2>1, Zenon DEF Chain, Ent
<1> QED
  BY <1>6, <1>7, <1>10, <1>11, <1>12, SMTT(30)

\* A pass comes to the end of an undamaged image.
LEMMA PassEnds ==
  ASSUME NEW d \in Image, NEW P, Sound(d, P)
  PROVE  /\ Visits(d) = PlacesToCheck(d) /\ \A x \in PlacesToCheck(d) : ~EndsAt(d, x)
         /\ Outcome(d) = "done"
<1>1. ASSUME NEW x \in PlacesToCheck(d) PROVE ~EndsAt(d, x)
  <2>1. PICK y \in P : /\ EntryAt(d, x) = Ent(d, y) /\ Ent(d, y).rec_len > 0
                       /\ d.inode[x[1]].i_block[x[2]] \in Block
    BY <1>1, PlacesChecked
  <2>2. Ent(d, y).inode \in Inode
    BY EntryKinds
  <2>3. EntryAt(d, x).inode # -1 /\ d.inode[x[1]].i_block[x[2]] # -1 /\ EntryAt(d, x).rec_len # 0
    <3>1. -1 \notin Inode /\ -1 \notin Block
      BY Numbers
    <3> QED
      BY <2>1, <2>2, <3>1
  <2> QED
    BY <2>3 DEF EndsAt, CrashesAt
<1>2. {x \in PlacesToCheck(d) : EndsAt(d, x)} = {}
  BY <1>1
<1>3. Visits(d) = PlacesToCheck(d)
  BY <1>2 DEF Visits
<1>4. {x \in Visits(d) : EndsAt(d, x)} = {}
  BY <1>2, <1>3
<1> QED
  BY <1>1, <1>3, <1>4 DEF Outcome

\* What a pass lists are inodes, and in an undamaged image ones in use.
LEMMA ListedInodes ==
  ASSUME NEW d \in Image, NEW P, Sound(d, P)
  PROVE  /\ Listed(d, FirstVisits(d)) \subseteq d.ibm
         /\ Mistyped(d, FirstVisits(d)) = {}
<1>1. FirstVisits(d) \subseteq PlacesToCheck(d)
  BY PassEnds DEF FirstVisits
<1>2. ASSUME NEW x \in FirstVisits(d)
      PROVE  /\ EntryAt(d, x).inode \in d.ibm
             /\ EntryAt(d, x).file_type = TypeOf(d, EntryAt(d, x).inode)
  <2>1. PICK y \in P : EntryAt(d, x) = Ent(d, y)
    BY <1>1, PlacesChecked
  <2>2. /\ Ent(d, y).inode \in d.ibm /\ Ent(d, y).file_type = d.inode[Ent(d, y).inode].i_mode
        /\ Ent(d, y).file_type \in {"reg", "dir", "lnk"}
    BY EntryKinds
  <2> QED
    BY <2>1, <2>2 DEF TypeOf
<1> HIDE DEF FirstVisits
<1> QED
  BY <1>2 DEF Listed, Mistyped

\* The checker changes nothing in an undamaged image but the two counters.
Counters(d) == [d EXCEPT !.free_inodes = FreeInodes(d), !.free_blocks = FreeBlocks(d)]

LEMMA NoRepair ==
  ASSUME NEW d \in Image, NEW first, NEW listed, listed \subseteq d.ibm, Mistyped(d, first) = {},
         \A ino \in listed : ~d.inode[ino].i_dtime,
         LostBlocks(d, listed) = {}, NoBlocks(d, listed) = {}
  PROVE  Repaired(d, first, listed) = Counters(d)
<1>1. d.ibm \subseteq Inode /\ d.bbm \subseteq Block
  BY Fields
<1>2. Unmarked(d, listed) = {}
  BY DEF Unmarked
<1>3. Retyped(d, first) = d.block
  <2>1. d.block \in [Block -> [Cell -> EntryType]]
    BY Fields
  <2>2. Retyped(d, first) = [b \in Block |-> [p \in Cell |-> d.block[b][p]]]
    BY DEF Retyped
  <2>3. \A b \in Block : [p \in Cell |-> d.block[b][p]] = d.block[b]
    BY <2>1
  <2> QED
    BY <2>1, <2>2, <2>3
<1>4. [ino \in Inode |-> Undeleted(d, ino, listed)] = d.inode
  <2>1. d.inode \in [Inode -> InodeType]
    BY Fields
  <2>2. ASSUME NEW ino \in Inode PROVE Undeleted(d, ino, listed) = d.inode[ino]
    <3>1. d.inode[ino] \in InodeType /\ d.inode[ino].i_dtime \in BOOLEAN
      BY <2>1, InodeFields
    <3>2. (d.inode[ino].i_dtime /\ ino \notin listed) = d.inode[ino].i_dtime
      BY <3>1
    <3>3. Undeleted(d, ino, listed) = [d.inode[ino] EXCEPT !.i_dtime = d.inode[ino].i_dtime]
      BY <3>2, Zenon DEF Undeleted
    <3> QED
      BY <3>1, <3>3 DEF InodeType
  <2> QED
    BY <2>1, <2>2
<1>5. FreeInodes(d) - 0 = FreeInodes(d) /\ FreeBlocks(d) - 0 - 0 = FreeBlocks(d)
  <2>1. IsFiniteSet(d.ibm) /\ IsFiniteSet(d.bbm)
    BY <1>1, Numbers, FS_Subset
  <2> QED
    BY <2>1, FS_CardinalityType, SizesAssumption DEF FreeInodes, FreeBlocks
<1>6. d.ibm \cup listed = d.ibm /\ d.bbm \cup {} = d.bbm
  OBVIOUS
<1>7. Repaired(d, first, listed) =
        [d EXCEPT !.block = d.block, !.ibm = d.ibm, !.bbm = d.bbm,
                  !.free_inodes = FreeInodes(d), !.free_blocks = FreeBlocks(d),
                  !.inode = d.inode]
  BY <1>2, <1>3, <1>4, <1>5, <1>6, FS_EmptySet DEF Repaired
<1> QED
  BY <1>7 DEF Counters, Image

LEMMA NothingToRepair ==
  ASSUME NEW d \in Image, NEW P, Sound(d, P)
  PROVE  Checked(d) = Counters(d)
<1> DEFINE first  == FirstVisits(d)
           listed == Listed(d, first)
<1>1. Own(d) /\ d.ibm \subseteq Inode /\ d.bbm \subseteq Block
  BY SoundParts, Fields
<1>2. listed \subseteq d.ibm /\ Mistyped(d, first) = {}
  BY ListedInodes
<1> HIDE DEF first, listed
<1>3. ASSUME NEW ino \in d.ibm PROVE FileBlocks(d, ino) \subseteq d.bbm
  <2>1. FileBlocks(d, ino) = BlocksOf(d.inode[ino])
    BY DEF FileBlocks, BlocksOf, Used, Count, BlockCount
  <2> QED
    BY <1>1, <2>1 DEF Own
<1>4. LostBlocks(d, listed) = {}
  BY <1>2, <1>3 DEF LostBlocks
<1>5. NoBlocks(d, listed) = {}
  <2> SUFFICES ASSUME NEW x \in listed \X Slot, x[2] < BlockCount(d, x[1]),
                      d.inode[x[1]].i_block[x[2]] = -1
               PROVE  FALSE
    BY DEF NoBlocks
  <2>1. x[1] \in Inode /\ x[2] \in Used(d.inode[x[1]])
    BY <1>1, <1>2 DEF Used, Count, BlockCount
  <2>2. d.inode[x[1]].i_block[x[2]] \in Block
    BY <1>1, <2>1 DEF Own, InodeOK
  <2> QED
    BY <2>2, Numbers
<1>6. \A ino \in listed : ~d.inode[ino].i_dtime
  BY <1>1, <1>2 DEF Own
<1>7. Checked(d) = Repaired(d, first, listed)
  BY DEF Checked, first, listed
<1> QED
  BY <1>2, <1>4, <1>5, <1>6, <1>7, NoRepair

\* Whatever the image, a pass lists inodes, and gives entries the types of them.
LEMMA VisitsTyped ==
  ASSUME NEW d \in Image, NEW x \in FirstVisits(d)
  PROVE  /\ EntryAt(d, x).inode \in Inode
         /\ \A b \in Block : b = d.inode[x[1]].i_block[x[2]] => EntryAt(d, x) = d.block[b][x[3]]
<1>1. x \in PlacesToCheck(d) /\ ~CrashesAt(d, x) /\ EntryAt(d, x).inode # 0
  BY DEF FirstVisits, Visits
<1>2. PICK w \in CheckedDirs(d) \X Slot :
        \E p \in Shown(Content(d, w[1], w[2])) : x = <<w[1], w[2], p>>
  BY <1>1 DEF PlacesToCheck
<1>3. PICK p \in Shown(Content(d, w[1], w[2])) : x = <<w[1], w[2], p>>
  BY <1>2
<1> DEFINE c == Content(d, w[1], w[2])
<1>4. c \in [Cell -> EntryType]
  BY Fields, ZerosTyped, Zenon DEF Content
<1>5. x[1] = w[1] /\ x[2] = w[2] /\ x[3] = p /\ p \in Shown(c)
  BY <1>3
<1> HIDE DEF c
<1>6. p \in Cell
  BY <1>4, <1>5, ShownLeast, EntryLengths
<1>7. EntryAt(d, x) = c[p]
  BY <1>5 DEF EntryAt, c
<1>8. c[p].inode \in Inode \cup {-1, 0} /\ c[p].inode # -1 /\ c[p].inode # 0
  BY <1>1, <1>4, <1>6, <1>7 DEF EntryType, CrashesAt
<1>9. \A b \in Block : b = d.inode[x[1]].i_block[x[2]] => c = d.block[b]
  BY <1>5 DEF c, Content
<1> QED
  BY <1>5, <1>7, <1>8, <1>9

LEMMA CountersTyped ==
  ASSUME NEW d \in Image
  PROVE  FreeInodes(d) \in Int /\ FreeBlocks(d) \in Int
<1>1. IsFiniteSet(d.ibm) /\ IsFiniteSet(d.bbm)
  BY Fields, Numbers, FS_Subset
<1> QED
  BY <1>1, FS_CardinalityType, SizesAssumption DEF FreeInodes, FreeBlocks

LEMMA CheckedTyped ==
  ASSUME NEW d \in Image
  PROVE  Checked(d) \in Image
<1> DEFINE first  == FirstVisits(d)
           listed == Listed(d, first)
<1>1. \A x \in first : /\ EntryAt(d, x).inode \in Inode
                       /\ \A b \in Block : b = d.inode[x[1]].i_block[x[2]]
                                             => EntryAt(d, x) = d.block[b][x[3]]
  BY VisitsTyped
<1>2. Checked(d) = Repaired(d, first, listed)
  BY DEF Checked
<1>3. listed \subseteq Inode
  BY <1>1 DEF Listed
<1> HIDE DEF first, listed
<1>4. Retyped(d, first) \in [Block -> [Cell -> EntryType]]
  <2> DEFINE wrong == {<<d.inode[x[1]].i_block[x[2]], x[3]>> : x \in Mistyped(d, first)}
             entry(e) == [e EXCEPT !.file_type = TypeOf(d, e.inode)]
             new(b, p) == IF <<b, p>> \in wrong THEN entry(d.block[b][p]) ELSE d.block[b][p]
  <2>1. Retyped(d, first) = [b \in Block |-> [p \in Cell |-> new(b, p)]]
    BY DEF Retyped
  <2>2. ASSUME NEW b \in Block, NEW p \in Cell PROVE new(b, p) \in EntryType
    <3>1. d.block[b][p] \in EntryType
      BY Fields
    <3>2. ASSUME <<b, p>> \in wrong PROVE entry(d.block[b][p]) \in EntryType
      <4>1. PICK x \in first : <<b, p>> = <<d.inode[x[1]].i_block[x[2]], x[3]>>
        BY <3>2 DEF Mistyped
      <4>2. b = d.inode[x[1]].i_block[x[2]] /\ p = x[3]
        BY <4>1
      <4>3. d.block[b][p].inode \in Inode
        BY <1>1, <4>2, ZenonT(30)
      <4>4. TypeOf(d, d.block[b][p].inode) \in {"unknown", "reg", "dir", "lnk"}
        <5>1. d.inode[d.block[b][p].inode] \in InodeType
          BY <4>3, Fields
        <5> QED
          BY <5>1, InodeFields DEF TypeOf
      <4> QED
        BY <3>1, <4>4 DEF EntryType
    <3> HIDE DEF entry, wrong
    <3> QED
      BY <3>1, <3>2
  <2> HIDE DEF new
  <2> QED
    BY <2>1, <2>2
<1>5. [ino \in Inode |-> Undeleted(d, ino, listed)] \in [Inode -> InodeType]
  <2>1. ASSUME NEW ino \in Inode PROVE Undeleted(d, ino, listed) \in InodeType
    <3>1. d.inode[ino] \in InodeType /\ d.inode[ino].i_dtime \in BOOLEAN
      BY Fields, InodeFields
    <3>2. (d.inode[ino].i_dtime /\ ino \notin listed) \in BOOLEAN
      OBVIOUS
    <3>3. \A v \in BOOLEAN : [d.inode[ino] EXCEPT !.i_dtime = v] \in InodeType
      BY <3>1 DEF InodeType
    <3>4. Undeleted(d, ino, listed)
            = [d.inode[ino] EXCEPT !.i_dtime = d.inode[ino].i_dtime /\ ino \notin listed]
      BY Zenon DEF Undeleted
    <3> QED
      BY <3>2, <3>3, <3>4, Zenon
  <2> QED
    BY <2>1
<1>6. d.ibm \cup listed \in SUBSET Inode /\ d.bbm \cup LostBlocks(d, listed) \in SUBSET Block
  BY <1>3, Fields DEF LostBlocks
<1>7. /\ Cardinality(Unmarked(d, listed)) \in Nat /\ Cardinality(LostBlocks(d, listed)) \in Nat
      /\ Cardinality(NoBlocks(d, listed)) \in Nat
  <2>1. IsFiniteSet(listed \X Slot)
    <3>1. IsFiniteSet(listed)
      BY <1>3, Numbers, FS_Subset
    <3> QED
      BY <3>1, Slots, FS_Product
  <2>2. /\ Unmarked(d, listed) \subseteq Inode /\ LostBlocks(d, listed) \subseteq Block
        /\ NoBlocks(d, listed) \subseteq listed \X Slot
    BY <1>3 DEF Unmarked, LostBlocks, NoBlocks
  <2> QED
    BY <2>1, <2>2, Numbers, FS_Subset, FS_CardinalityType
<1>8. FreeInodes(d) - Cardinality(Unmarked(d, listed)) \in Int
  BY <1>7, CountersTyped
<1>9. FreeBlocks(d) - Cardinality(LostBlocks(d, listed)) - Cardinality(NoBlocks(d, listed)) \in Int
  BY <1>7, CountersTyped
<1>10. Repaired(d, first, listed) \in Image
  BY <1>4, <1>5, <1>6, <1>8, <1>9, Zenon DEF Repaired, Image
<1> QED
  BY <1>2, <1>10

\* The counters are no part of what is good about an image.
LEMMA CountersUnseen ==
  ASSUME NEW d \in Image, Good(d)
  PROVE  Good(Counters(d))
<1> DEFINE P == PlacesOf(d)
           e == Counters(d)
<1>1. /\ e.bbm = d.bbm /\ e.ibm = d.ibm /\ e.inode = d.inode /\ e.block = d.block
  BY DEF Image, Counters
<1>2. Sound(d, P)
  BY DEF Good
<1> HIDE DEF e
<1>3. Dirs(e) = Dirs(d) /\ PlacesOf(e) = P
  <2>1. Dirs(e) = Dirs(d)
    BY <1>1 DEF Dirs
  <2> QED
    BY <1>1, <2>1 DEF PlacesOf
<1> HIDE DEF P
<1>4. \A x : Ent(e, x) = Ent(d, x)
  BY <1>1 DEF Ent
<1>5. \A i : Naming(e, P, i) = Naming(d, P, i)
  BY <1>4 DEF Naming
<1>6. Own(e)
  BY <1>1, <1>2 DEF Sound, Own
<1>7. Laid(e, P) /\ NothingElse(e)
  BY <1>1, <1>2, <1>3 DEF Sound, Layout, Laid, NothingElse
<1>8. Distinct(e, P) /\ Live(e, P) /\ Counted(e, P)
  BY <1>1, <1>2, <1>4, <1>5 DEF Sound, Arranged, Distinct, Live, Counted
<1>9. Rooted(e, P)
  <2>1. Rooted(d, P)
    BY <1>2 DEF Sound, Arranged
  <2> QED
    BY <1>3, <1>4, <2>1 DEF Rooted
<1>10. Sound(e, P)
  BY <1>6, <1>7, <1>8, <1>9 DEF Sound, Layout, Arranged
<1> QED
  BY <1>3, <1>10 DEF Good, e

\* The invariant holds with the checker between any two tools: the tools are
\* steps of both specifications.
THEOREM CheckedInvariance == CheckedSpec => []IInv
<1>1. CheckedInit => IInv
  BY FormattedGood DEF CheckedInit, Init, IInv, Damages
<1>2. ASSUME IInv, [CheckedNext]_checkedVars PROVE IInv'
  <2>1. CASE Next
    BY <1>2, <2>1, StepKeeps
  <2>2. CASE ext2_checker
    <3>1. disk' = Checked(disk) /\ damage' = damage /\ disk \in Image
      BY <1>2, <2>2 DEF ext2_checker, IInv
    <3>2. disk' \in Image
      BY <3>1, CheckedTyped
    <3>3. CASE damage = "none"
      <4>1. Good(disk)
        BY <1>2, <3>3 DEF IInv
      <4>2. Checked(disk) = Counters(disk)
        BY <3>1, <4>1, NothingToRepair DEF Good
      <4>3. Good(disk')
        BY <3>1, <4>1, <4>2, CountersUnseen
      <4>4. Good(disk)'
        BY <4>3 DEF Good, Sound
      <4> QED
        BY <1>2, <3>1, <3>2, <4>4 DEF IInv, Image
    <3>4. CASE damage # "none"
      BY <1>2, <3>1, <3>2, <3>4 DEF IInv, Image
    <3> QED
      BY <3>3, <3>4
  <2>3. CASE UNCHANGED checkedVars
    BY <1>2, <2>3 DEF checkedVars, IInv
  <2> QED
    BY <1>2, <2>1, <2>2, <2>3 DEF CheckedNext
<1> QED
  BY <1>1, <1>2, PTL DEF CheckedSpec

-----------------------------------------------------------------------------
(* What the tools and the checker keep.                                      *)

\* Type correctness: every number a tool or the checker takes for a block or an
\* inode is one, or -1 or 0, however a tool ends.
THEOREM TypesStay == CheckedSpec => []TypeOK
BY CheckedInvariance, WhatHolds, PTL

\* mkdir, cp, ln, rm and restore leave the entries of every block of every
\* directory in a chain to its very end, with "." and ".." and no name twice.
THEOREM DirectoriesStayWhole == CheckedSpec => []DirectoriesWhole
BY CheckedInvariance, WhatHolds, PTL

\* They leave no entry of a free inode, none with a type that is not that of
\* its inode, and no inode in use without an entry.
THEOREM EntriesStayLive == CheckedSpec => []EntriesLive
BY CheckedInvariance, WhatHolds, PTL

\* The link count of an inode in use is the number of its entries after any
\* sequence of them.
THEOREM LinksStayCounted == CheckedSpec => []LinksCounted
BY CheckedInvariance, WhatHolds, PTL

\* The marked blocks are the blocks of the inodes in use, each of one of them
\* and in one slot.
THEOREM BlocksStayOwned == CheckedSpec => []BlocksOwned
BY CheckedInvariance, WhatHolds, PTL

\* path_exists finds what there is, and nothing else, and goes into the boot
\* block only where it looks in two blocks for what is not there.
THEOREM LookupsStayRight == CheckedSpec => []LookupsRight
BY CheckedInvariance, WhatHolds, PTL

-----------------------------------------------------------------------------
(* The counters, in step with the bitmaps but for the growth of directories. *)

\* The directories of two blocks.
Twos(d) == {dir \in Inode : d.inode[dir].i_mode = "dir" /\ BlockCount(d, dir) = 2}

\* The last inode, which the tools never take and the checker never looks at.
LastUnused(d) == d.inode[s_inodes_count].i_mode = "none"

\* The counters of image d count what its bitmaps leave free, and the second
\* blocks of the directories that are not in S as well.
Tally(d, S) ==
  /\ LastUnused(d)
  /\ S \subseteq Twos(d)
  /\ d.free_inodes = FreeInodes(d)
  /\ d.free_blocks = FreeBlocks(d) + Cardinality(Twos(d) \ S)

\* Bitmaps and counters change by the same from image d to image e.
Even(d, e) ==
  /\ e.free_inodes - FreeInodes(e) = d.free_inodes - FreeInodes(d)
  /\ e.free_blocks - FreeBlocks(e) = d.free_blocks - FreeBlocks(d)
  /\ Twos(e) = Twos(d) /\ (LastUnused(e) <=> LastUnused(d))

LEMMA TwosFinite ==
  ASSUME NEW d, NEW S
  PROVE  IsFiniteSet(Twos(d)) /\ Cardinality(Twos(d) \ S) \in Nat
<1>1. Twos(d) \in SUBSET Inode /\ Twos(d) \ S \in SUBSET Inode
  BY DEF Twos
<1>2. IsFiniteSet(Twos(d)) /\ IsFiniteSet(Twos(d) \ S)
  BY <1>1, Numbers, FS_Subset
<1> QED
  BY <1>2, FS_CardinalityType

LEMMA EvenTally ==
  ASSUME NEW d \in Image, NEW e \in Image, Even(d, e), NEW S, Tally(d, S)
  PROVE  Tally(e, S)
<1> DEFINE n == Cardinality(Twos(d) \ S)
<1>1. n \in Nat
  BY TwosFinite
<1>2. /\ FreeInodes(d) \in Int /\ FreeBlocks(d) \in Int /\ FreeInodes(e) \in Int
      /\ FreeBlocks(e) \in Int
  BY CountersTyped
<1>3. /\ d.free_inodes \in Int /\ d.free_blocks \in Int /\ e.free_inodes \in Int
      /\ e.free_blocks \in Int
  BY Fields
<1>4. /\ d.free_inodes = FreeInodes(d) /\ d.free_blocks = FreeBlocks(d) + n
      /\ e.free_inodes - FreeInodes(e) = d.free_inodes - FreeInodes(d)
      /\ e.free_blocks - FreeBlocks(e) = d.free_blocks - FreeBlocks(d)
  BY DEF Tally, Even
<1>5. Twos(e) = Twos(d) /\ S \subseteq Twos(d) /\ LastUnused(e)
  BY DEF Tally, Even
<1> HIDE DEF n
<1>6. \A a, b, p, q, m \in Int : a = b + m /\ p - q = a - b => p = q + m
  OBVIOUS
<1>7. e.free_inodes = FreeInodes(e) + 0
  <2>1. d.free_inodes = FreeInodes(d) + 0 /\ 0 \in Int
    BY <1>2, <1>4
  <2> QED
    BY <1>2, <1>3, <1>4, <1>6, <2>1
<1>8. e.free_blocks = FreeBlocks(e) + n
  BY <1>1, <1>2, <1>3, <1>4, <1>6
<1> QED
  BY <1>2, <1>5, <1>7, <1>8 DEF Tally, n

LEMMA EvenSteps ==
  /\ \A d, e, f : Even(d, e) /\ Even(e, f) => Even(d, f)
  /\ \A d, e : Even(d, e) => Even(e, d)
BY DEF Even

\* From image d to image e inode ino and the blocks of B are marked, and counted.
Takes(d, e, ino, B) ==
  /\ ino \in Inode \ d.ibm /\ e.ibm = d.ibm \cup {ino}
  /\ B \subseteq Block \ d.bbm /\ e.bbm = d.bbm \cup B
  /\ e.free_inodes = d.free_inodes - 1
  /\ e.free_blocks = d.free_blocks - Cardinality(B)
  /\ Twos(e) = Twos(d) /\ (LastUnused(e) <=> LastUnused(d))

LEMMA TakesEven ==
  ASSUME NEW d \in Image, NEW e \in Image, NEW ino, NEW B, Takes(d, e, ino, B)
  PROVE  Even(d, e)
<1> USE DEF Takes
<1>1. d.bbm \in SUBSET Block /\ d.ibm \in SUBSET Inode /\ B \in SUBSET Block /\ d.bbm \cap B = {}
  BY Fields
<1>2. IsFiniteSet(d.bbm) /\ IsFiniteSet(d.ibm) /\ IsFiniteSet(B)
  BY <1>1, Numbers, FS_Subset
<1>3. Cardinality(d.bbm) \in Nat /\ Cardinality(d.ibm) \in Nat /\ Cardinality(B) \in Nat
  BY <1>2, FS_CardinalityType
<1>4. Cardinality(e.ibm) = Cardinality(d.ibm) + 1
  BY <1>2, FS_AddElement, ZenonT(30)
<1>5. Cardinality(e.bbm) = Cardinality(d.bbm) + Cardinality(B)
  <2>1. Cardinality(d.bbm \cup B) = Cardinality(d.bbm) + Cardinality(B) - Cardinality({})
    BY <1>1, <1>2, FS_Union
  <2> QED
    BY <1>3, <2>1, FS_EmptySet
<1>6. d.free_inodes \in Int /\ d.free_blocks \in Int
  BY Fields
<1>7. s_inodes_count \in Nat /\ s_blocks_count \in Nat
  BY SizesAssumption
<1>8. e.free_inodes - FreeInodes(e) = d.free_inodes - FreeInodes(d)
  BY <1>3, <1>4, <1>6, <1>7 DEF FreeInodes
<1>9. e.free_blocks - FreeBlocks(e) = d.free_blocks - FreeBlocks(d)
  BY <1>3, <1>5, <1>6, <1>7 DEF FreeBlocks
<1> QED
  BY <1>8, <1>9 DEF Even

LEMMA LastInode == s_inodes_count \in Inode
BY SizesAssumption DEF Inode, EXT2_ROOT_INO

LEMMA FreeNotLast ==
  ASSUME NEW d
  PROVE  \/ find_invalid_indode_index(d) = -1
         \/ find_invalid_indode_index(d) \in Inode \ (d.ibm \cup {s_inodes_count})
<1> DEFINE free == {i \in s_first_ino + 1 .. s_inodes_count - 1 : i \notin d.ibm}
<1>1. free \in SUBSET Nat /\ s_inodes_count \notin free
  BY SizesAssumption DEF s_first_ino
<1>2. find_invalid_indode_index(d) = IF free = {} THEN -1 ELSE Min(free)
  BY DEF find_invalid_indode_index
<1> HIDE DEF free
<1>3. free # {} => Min(free) \in free
  BY <1>1, MinIsLeast
<1> QED
  BY <1>1, <1>2, <1>3, FreeInode

\* Neither bitmaps nor counters change.
Still(d, e) ==
  /\ e \in Image /\ e.ibm = d.ibm /\ e.bbm = d.bbm
  /\ e.free_inodes = d.free_inodes /\ e.free_blocks = d.free_blocks
  /\ \A i \in Inode : /\ e.inode[i].i_mode = d.inode[i].i_mode
                      /\ e.inode[i].i_blocks = d.inode[i].i_blocks

LEMMA SameTwos ==
  ASSUME NEW d, NEW e,
         \A i \in Inode : \/ /\ e.inode[i].i_mode = d.inode[i].i_mode
                             /\ e.inode[i].i_blocks = d.inode[i].i_blocks
                          \/ /\ e.inode[i].i_mode # "dir" \/ e.inode[i].i_blocks = 2
                             /\ d.inode[i].i_mode # "dir"
  PROVE  Twos(e) = Twos(d)
<1>1. 2 \div 2 # 2
  OBVIOUS
<1>2. \A i \in Inode : /\ e.inode[i].i_mode = "dir" /\ BlockCount(e, i) = 2
                       <=> d.inode[i].i_mode = "dir" /\ BlockCount(d, i) = 2
  BY <1>1 DEF BlockCount
<1> QED
  BY <1>2 DEF Twos

LEMMA StillEven ==
  ASSUME NEW d, NEW e, Still(d, e)
  PROVE  Even(d, e)
<1>1. Twos(e) = Twos(d)
  BY SameTwos DEF Still
<1>2. LastUnused(e) <=> LastUnused(d)
  BY LastInode DEF Still, LastUnused
<1> QED
  BY <1>1, <1>2 DEF Still, Even, FreeInodes, FreeBlocks

LEMMA WrittenStill ==
  ASSUME NEW d, NEW e, NEW b, NEW c, Rewritten(d, e, b, c)
  PROVE  Still(d, e)
BY DEF Rewritten, Still

LEMMA LinkedStill ==
  ASSUME NEW d \in Image, NEW ino \in Inode
  PROVE  Still(d, Linked(d, ino))
<1> DEFINE f == Linked(d, ino)
<1>1. /\ NewFields(d, f, ino, f.inode[ino], d.bbm, d.ibm)
      /\ f.inode[ino].i_mode = d.inode[ino].i_mode
      /\ f.inode[ino].i_blocks = d.inode[ino].i_blocks
  BY LinkedFields
<1>2. f.free_blocks = d.free_blocks /\ f.free_inodes = d.free_inodes
  BY DEF Linked, Image
<1> HIDE DEF f
<1>3. Still(d, f)
  BY <1>1, <1>2 DEF NewFields, Still
<1> QED
  BY <1>3 DEF f

\* A free inode is no directory's.
DirsInUse(d) == \A i \in Inode : d.inode[i].i_mode = "dir" => i \in d.ibm

\* mkdir counts the inode and the block of the new directory.
LEMMA AddDirectoryTakes ==
  ASSUME NEW d \in Image, NEW b \in Block, NEW name \in Name, NEW dir \in d.ibm,
         NEW ino \in Inode \ (d.ibm \cup {s_inodes_count}), NEW free \in Block \ d.bbm, DirsInUse(d)
  PROVE  Even(d, AddDirectory(d, b, name, dir, ino, free))
<1> DEFINE c == Inserted(d.block[b], name, "dir", ino)
           m == NewDirectory(ino, dir)
           e == Write(d, b, c)
           f == AddDirectory(d, b, name, dir, ino, free)
<1>1. d.block[b] \in [Cell -> EntryType] /\ dir \in Inode /\ dir # ino
  BY Fields
<1>2. c \in [Cell -> EntryType]
  BY <1>1, AddedTyped
<1>3. AddedTo(e, f, dir, ino, free)
  BY <1>1, AddDirectoryFields
<1>4. f.free_blocks = d.free_blocks - 1 /\ f.free_inodes = d.free_inodes - 1
  <2> HIDE DEF c, m
  <2>1. f = [d EXCEPT !.block[b] = c, !.block[free] = m,
                      !.bbm = @ \cup {free}, !.ibm = @ \cup {ino},
                      !.free_blocks = @ - 1, !.free_inodes = @ - 1,
                      !.inode[ino] = [@ EXCEPT !.i_mode = "dir", !.i_links_count = 2, !.i_blocks = 2,
                                               !.i_dtime = FALSE, !.i_block[0] = free],
                      !.inode[dir].i_links_count = @ + 1]
    BY DEF AddDirectory, c, m
  <2> HIDE DEF f
  <2> QED
    BY <2>1 DEF Image
<1> HIDE DEF c, f
<1>5. Rewritten(d, e, b, c)
  BY <1>2, Written
<1> HIDE DEF e
<1>6. f \in Image /\ e.ibm = d.ibm /\ e.bbm = d.bbm /\ e.inode = d.inode
  BY <1>3, <1>5 DEF AddedTo, Rewritten
<1>7. Twos(f) = Twos(d)
  <2>1. f.inode[ino].i_blocks = 2 /\ d.inode[ino].i_mode # "dir"
    BY <1>3 DEF AddedTo, DirsInUse
  <2>2. \A i \in Inode \ {ino} : /\ f.inode[i].i_mode = d.inode[i].i_mode
                                 /\ f.inode[i].i_blocks = d.inode[i].i_blocks
    BY <1>3, <1>6 DEF AddedTo
  <2> QED
    BY <2>1, <2>2, SameTwos
<1>8. Takes(d, f, ino, {free})
  <2>1. Cardinality({free}) = 1
    BY FS_Singleton
  <2>2. LastUnused(f) <=> LastUnused(d)
    BY <1>3, <1>6, LastInode DEF AddedTo, LastUnused
  <2> QED
    BY <1>3, <1>4, <1>6, <1>7, <2>1, <2>2 DEF AddedTo, Takes
<1>9. Even(d, f)
  BY <1>6, <1>8, TakesEven
<1> QED
  BY <1>9 DEF f

LEMMA AddDirectoryEven ==
  ASSUME NEW d \in Image, DirsInUse(d), NEW b \in Block, NEW name \in Name, NEW dir \in d.ibm,
         NEW harm, add_directory(d, b, name, dir, harm)
  PROVE  damage' = "full" \/ Even(d, disk')
<1> DEFINE ino  == find_invalid_indode_index(d)
           free == find_free_block_index(d)
           f == AddDirectory(d, b, name, dir, ino, free)
<1>1. ino = -1 \/ ino \in Inode \ (d.ibm \cup {s_inodes_count})
  BY FreeNotLast
<1>2. free = -1 \/ free \in Block \ d.bbm
  BY FreeBlock
<1>3. ino # -1 /\ free # -1 => Even(d, f)
  <2> HIDE DEF ino, free
  <2> QED
    BY <1>1, <1>2, AddDirectoryTakes
<1> HIDE DEF f
<1>4. damage' = "full" \/ (ino # -1 /\ free # -1 /\ disk' = f)
  BY DEF add_directory, Leaves, f
<1> QED
  BY <1>3, <1>4

\* The second block of a directory is marked and not counted.
LEMMA GrownTally ==
  ASSUME NEW d \in Image, Good(d), NEW S, Tally(d, S), NEW dir \in Dirs(d),
         BlockCount(d, dir) = 1, find_free_block_index(d) # -1
  PROVE  LET g == Grown(d, dir, 1) IN g \in Image /\ DirsInUse(g) /\ Tally(g, S)
<1> DEFINE g == Grown(d, dir, 1)
           b == find_free_block_index(d)
<1>1. Own(d) /\ dir \in Inode /\ dir \in d.ibm /\ d.inode[dir].i_mode = "dir" /\ d.ibm \subseteq Inode
  BY SoundParts, Fields DEF Good, Dirs
<1>2. b \in Block \ d.bbm
  BY FreeBlock
<1>3. GrownTo(d, g, dir, 1, b)
  BY <1>1, Slots, GrownFields
<1> HIDE DEF g, b
<1> USE DEF GrownTo
<1>4. g.bbm = d.bbm \cup {b}
  BY <1>2, <1>3
<1>5. \A i \in Inode : g.inode[i].i_mode = d.inode[i].i_mode
  BY <1>3
<1>6. DirsInUse(g)
  BY <1>1, <1>3, <1>5 DEF Own, DirsInUse
<1>7. Twos(g) = Twos(d) \cup {dir} /\ dir \notin Twos(d)
  <2>1. BlockCount(g, dir) = 2
    <3>1. d.inode[dir].i_blocks \in Nat
      BY <1>1, Fields, InodeFields
    <3>2. d.inode[dir].i_blocks \div 2 = 1
      BY DEF BlockCount
    <3>3. \A n \in Nat : n \div 2 = 1 => (n + 2) \div 2 = 2
      OBVIOUS
    <3> QED
      BY <1>3, <3>1, <3>2, <3>3 DEF BlockCount
  <2>2. \A i \in Inode \ {dir} : BlockCount(g, i) = BlockCount(d, i)
    BY <1>3 DEF BlockCount
  <2> QED
    BY <1>1, <1>5, <2>1, <2>2 DEF Twos
<1>8. Cardinality(g.bbm) = Cardinality(d.bbm) + 1 /\ Cardinality(d.bbm) \in Nat
  <2>1. IsFiniteSet(d.bbm)
    BY Fields, Numbers, FS_Subset
  <2> QED
    BY <1>2, <1>4, <2>1, FS_AddElement, FS_CardinalityType
<1>9. Cardinality(Twos(g) \ S) = Cardinality(Twos(d) \ S) + 1 /\ Cardinality(Twos(d) \ S) \in Nat
  <2>1. Twos(g) \ S = (Twos(d) \ S) \cup {dir} /\ dir \notin Twos(d) \ S
    BY <1>7 DEF Tally
  <2>2. IsFiniteSet(Twos(d) \ S)
    BY TwosFinite, FS_Subset
  <2> QED
    BY <2>1, <2>2, FS_AddElement, TwosFinite
<1>10. g.free_inodes = FreeInodes(g)
  BY <1>3 DEF Tally, FreeInodes
<1>11. g.free_blocks = FreeBlocks(g) + Cardinality(Twos(g) \ S)
  <2>1. FreeBlocks(g) = FreeBlocks(d) - 1
    BY <1>8, SizesAssumption DEF FreeBlocks
  <2>2. d.free_blocks = FreeBlocks(d) + Cardinality(Twos(d) \ S) /\ FreeBlocks(d) \in Int
    BY CountersTyped DEF Tally
  <2> QED
    BY <1>3, <1>9, <2>1, <2>2
<1>12. Tally(g, S)
  BY <1>5, <1>7, <1>10, <1>11, LastInode DEF Tally, LastUnused
<1> QED
  BY <1>3, <1>6, <1>12 DEF g

\* What the tools are to keep.
Tallies(S) == damage' = "none" => Tally(disk', S)

LEMMA MkdirTally ==
  ASSUME disk \in Image, Good(disk), disk' \in Image, NEW S, Tally(disk, S),
         NEW path \in Path, ext2_mkdir(path)
  PROVE  Tallies(S)
<1>1. Sound(disk, PlacesOf(disk)) /\ Own(disk) /\ Laid(disk, PlacesOf(disk))
  BY SoundParts DEF Good
<1>2. FirstBlocksLead(disk, path) \in Dirs(disk) \cup {0} /\ Last(path) \in Name
  BY <1>1, FirstBlocks, Paths
<1>3. PICK dir \in {FirstBlocksLead(disk, path)} \ {0} : mk_dir(dir, Content(disk, dir, 0), Last(path))
  BY DEF ext2_mkdir
<1> DEFINE name == Last(path)
           b == find_free_block_index(disk)
           k == disk.inode[dir].i_block[0]
           harm == IF Has(disk, dir, name) THEN "exists" ELSE "none"
           g == Grown(disk, dir, 1)
<1>4. dir \in Dirs(disk) /\ name \in Name /\ dir \in disk.ibm /\ DirsInUse(disk)
  BY <1>1, <1>2, <1>3 DEF Dirs, DirsInUse, Own
<1>5. k \in Block
  BY <1>1, <1>4, DirectoryBlocks
<1>6. b = -1 \/ b \in Block
  BY FreeBlock
<1> HIDE DEF name, harm
<1>7. CASE add_directory(disk, k, name, dir, harm)
  BY <1>4, <1>5, <1>7, AddDirectoryEven, EvenTally DEF Tallies
<1>8. CASE damage' = "full"
  BY <1>8 DEF Tallies
<1>9. CASE /\ BlockCount(disk, dir) = 1 /\ b # -1
           /\ add_directory(g, b, name, dir, GrownHarm(disk, dir, harm))
  <2>1. g \in Image /\ DirsInUse(g) /\ Tally(g, S)
    BY <1>4, <1>9, GrownTally
  <2>2. dir \in g.ibm
    BY <1>4 DEF Grown, Image
  <2> HIDE DEF g, b
  <2>3. damage' = "full" \/ Even(g, disk')
    BY <1>4, <1>6, <1>9, <2>1, <2>2, AddDirectoryEven
  <2> QED
    BY <2>1, <2>3, EvenTally DEF Tallies
<1> QED
  BY <1>3, <1>7, <1>8, <1>9 DEF mk_dir, name, harm, Leaves

LEMMA Numbered ==
  ASSUME NEW n \in Nat, NEW B, \A j, k \in 0 .. n - 1 : B[j] = B[k] => j = k
  PROVE  Cardinality({B[k] : k \in 0 .. n - 1}) = n
<1> DEFINE T == 0 .. n - 1
           S == {B[k] : k \in T}
           f == [k \in T |-> B[k]]
<1>1. IsFiniteSet(T) /\ Cardinality(T) = n
  BY FS_Interval
<1>2. f \in [T -> S] /\ \A k \in T : f[k] = B[k]
  OBVIOUS
<1>3. \A b \in S : \E k \in T : B[k] = b
  OBVIOUS
<1> HIDE DEF T, S, f
<1>4. f \in Bijection(T, S)
  BY <1>2, <1>3 DEF T, Bijection, Injection, Surjection, IsInjective
<1>5. Cardinality(S) = Cardinality(T)
  BY <1>1, <1>4, FS_Bijection DEF ExistsBijection
<1> QED
  BY <1>1, <1>5 DEF S, T

\* An inode has as many blocks as it counts.
LEMMA InodeBlocks ==
  ASSUME NEW r \in InodeType, InodeOK(r)
  PROVE  Cardinality(BlocksOf(r)) = Count(r)
<1> DEFINE n == Count(r)
           B == r.i_block
<1>1. n \in Nat
  BY InodeFields
<1>2. Used(r) = 0 .. n - 1
  <2>1. \A s \in Slot : s \in Nat
    BY Slots
  <2>2. n - 1 \in Slot \/ n = 0
    BY <1>1 DEF InodeOK
  <2>3. \A k \in 0 .. n - 1 : k \in Slot
    BY <1>1, <2>2, Slots
  <2> HIDE DEF n
  <2>4. \A s : s \in Slot /\ s < n <=> s \in 0 .. n - 1
    BY <1>1, <2>1, <2>3
  <2> QED
    BY <2>4 DEF Used, n
<1>3. \A j, k \in 0 .. n - 1 : B[j] = B[k] => j = k
  BY <1>2 DEF InodeOK
<1>4. BlocksOf(r) = {B[k] : k \in 0 .. n - 1}
  BY <1>2 DEF BlocksOf
<1> HIDE DEF n, B
<1> QED
  BY <1>1, <1>3, <1>4, Numbered, SMTT(30) DEF n

\* cp counts the inode and the blocks it takes.
LEMMA CopyBlocksEven ==
  ASSUME NEW d \in Image, DirsInUse(d), NEW ino \in Inode \ (d.ibm \cup {s_inodes_count}),
         NEW size \in Size, NEW harm, CopyBlocks(d, ino, size, harm)
  PROVE  damage' = "full" \/ Even(d, disk')
<1> SUFFICES ASSUME damage' # "full" PROVE Even(d, disk')
  OBVIOUS
<1> DEFINE f == disk'
<1>1. f \in Image /\ Enough(d, size) /\ Copied(d, f, ino, size)
  BY CopyBlocksFields
<1>2. f.free_blocks = d.free_blocks - size /\ f.free_inodes = d.free_inodes - 1
  BY DEF CopyBlocks, Leaves, Image
<1> HIDE DEF f
<1>3. size \in Nat
  BY Slots
<1>4. /\ \A k \in 0 .. size - 1 : FileBlock(d, size, k) \in Block \ d.bbm
      /\ \A j, k \in 0 .. size - 1 : FileBlock(d, size, j) = FileBlock(d, size, k) => j = k
  BY <1>1, <1>3, TakenEnough
<1>5. Cardinality(Blocks(d, size)) = size /\ Blocks(d, size) \subseteq Block \ d.bbm
  <2> DEFINE B == [k \in 0 .. size - 1 |-> FileBlock(d, size, k)]
  <2>1. \A k \in 0 .. size - 1 : B[k] = FileBlock(d, size, k)
    OBVIOUS
  <2> HIDE DEF B
  <2>2. Blocks(d, size) = {B[k] : k \in 0 .. size - 1}
    BY <2>1 DEF Blocks
  <2>3. \A j, k \in 0 .. size - 1 : B[j] = B[k] => j = k
    BY <1>4, <2>1
  <2>4. Cardinality(Blocks(d, size)) = size
    BY <1>3, <2>2, <2>3, Numbered
  <2>5. Blocks(d, size) \subseteq Block \ d.bbm
    BY <1>4 DEF Blocks
  <2> QED
    BY <2>4, <2>5
<1>6. NewFields(d, f, ino, f.inode[ino], d.bbm \cup Blocks(d, size), d.ibm \cup {ino})
  BY <1>1 DEF Copied
<1>7. Twos(f) = Twos(d)
  <2>1. f.inode[ino].i_mode # "dir" /\ d.inode[ino].i_mode # "dir"
    BY <1>1 DEF Copied, DirsInUse
  <2> QED
    BY <1>6, <2>1, SameTwos DEF NewFields
<1>8. Takes(d, f, ino, Blocks(d, size))
  <2>1. LastUnused(f) <=> LastUnused(d)
    BY <1>6, LastInode DEF NewFields, LastUnused
  <2> QED
    BY <1>2, <1>5, <1>6, <1>7, <2>1 DEF NewFields, Takes
<1>9. Even(d, f)
  BY <1>1, <1>8, TakesEven
<1> QED
  BY <1>9 DEF f

LEMMA AddFileEven ==
  ASSUME NEW d \in Image, DirsInUse(d), NEW b \in Block, NEW name \in Name, NEW over \in BOOLEAN,
         NEW size \in Size, NEW harm, add_file(d, b, name, over, size, harm)
  PROVE  damage' = "full" \/ Even(d, disk')
<1> DEFINE ino == find_invalid_indode_index(d)
           c == Added(d.block[b], over, name, "reg", ino)
           e == Write(d, b, c)
<1>1. ino = -1 \/ ino \in Inode \ (d.ibm \cup {s_inodes_count})
  BY FreeNotLast
<1> HIDE DEF ino
<1>2. d.block[b] \in [Cell -> EntryType] /\ ino \in Inode \cup {-1} /\ "reg" \in {"reg", "dir", "lnk"}
  BY <1>1, Fields
<1>3. c \in [Cell -> EntryType]
  BY <1>2, AddedTyped
<1>4. Rewritten(d, e, b, c)
  BY <1>3, Written
<1>5. (ino = -1 /\ damage' = "full") \/ (ino # -1 /\ CopyBlocks(e, ino, size, harm))
  BY DEF add_file, Leaves, ino
<1> HIDE DEF e
<1>6. e \in Image /\ e.ibm = d.ibm /\ e.inode = d.inode
  BY <1>4 DEF Rewritten
<1>7. DirsInUse(e) /\ Even(d, e)
  BY <1>4, <1>6, WrittenStill, StillEven DEF DirsInUse
<1>8. ino # -1 => damage' = "full" \/ Even(e, disk')
  BY <1>1, <1>5, <1>6, <1>7, CopyBlocksEven
<1> QED
  BY <1>5, <1>7, <1>8, EvenSteps

LEMMA CpTally ==
  ASSUME disk \in Image, Good(disk), disk' \in Image, NEW S, Tally(disk, S),
         NEW path \in Path, NEW size \in Size, ext2_cp(path, size)
  PROVE  Tallies(S)
<1> DEFINE slots == [dir \in Inode |-> 0 .. BlockCount(disk, dir) - 1]
           at == Reached(disk, path, slots)
           dir == at.dir
           name == path[at.k]
           open == OpenBlocks(disk, dir, name)
           i == Min(open)
           b == find_free_block_index(disk)
           harm == IF Has(disk, dir, name) THEN "exists" ELSE "none"
           g == Grown(disk, dir, i + 1)
           more == GrownHarm(disk, dir, harm)
<1>1. Sound(disk, PlacesOf(disk)) /\ Own(disk) /\ Laid(disk, PlacesOf(disk))
  BY SoundParts DEF Good
<1>2. \A a \in Dirs(disk) : LooksIn(disk, a, slots[a])
  BY <1>1, SlotsToLookIn, SoundParts DEF Dirs
<1>3. dir \in Dirs(disk) /\ at.k \in 1 .. Len(path)
  BY <1>1, <1>2, LookedUp
<1>4. name \in Name /\ dir \in Inode /\ dir \in disk.ibm /\ DirsInUse(disk)
  BY <1>1, <1>3, Paths, Fields DEF Dirs, DirsInUse, Own
<1>5. open = {j \in slots[dir] : Named(Content(disk, dir, j), name) = {}}
  BY <1>4 DEF OpenBlocks
<1>6. \/ /\ open # {}
         /\ \/ add_file(disk, disk.inode[dir].i_block[i], name, FALSE, size, harm)
            \/ damage' = "full"
            \/ /\ i + 1 = BlockCount(disk, dir) /\ b # -1
               /\ add_file(g, b, name, FALSE, size, more)
      \/ add_file(disk, disk.inode[dir].i_block[0], name, TRUE, size, "exists")
  <2> HIDE DEF at
  <2> QED
    BY <1>5, ZenonT(30) DEF ext2_cp, cp_new, Leaves, at
<1> HIDE DEF at, name, harm, g
<1>7. BlockCount(disk, dir) \in {1, 2} /\ Used(disk.inode[dir]) = 0 .. BlockCount(disk, dir) - 1
      /\ 0 \in Used(disk.inode[dir])
  BY <1>1, <1>3, DirectoryBlocks DEF BlockCount, Count
<1>8. \A j \in Used(disk.inode[dir]) : disk.inode[dir].i_block[j] \in Block
  BY <1>1, <1>3, DirectoryBlocks
<1>9. open \subseteq Nat /\ open \subseteq Used(disk.inode[dir])
  BY <1>7 DEF OpenBlocks
<1>10. open # {} => i \in open /\ \A j \in open : i <= j
  <2> HIDE DEF open
  <2> QED
    BY <1>9, MinIsLeast
<1>11. ASSUME open # {}, ~Has(disk, dir, name) PROVE i = 0
  <2>1. 0 \in open /\ open # {}
    BY <1>7, <1>11 DEF Has, OpenBlocks
  <2> HIDE DEF i, open
  <2>2. i \in Nat /\ i <= 0
    BY <1>9, <1>10, <2>1
  <2> QED
    BY <2>2
<1> HIDE DEF i, open, dir
<1>12. CASE \E j \in Used(disk.inode[dir]), over \in BOOLEAN : \E h :
              add_file(disk, disk.inode[dir].i_block[j], name, over, size, h)
  BY <1>4, <1>8, <1>12, AddFileEven, EvenTally DEF Tallies
<1>13. CASE damage' = "full"
  BY <1>13 DEF Tallies
<1>14. CASE /\ open # {} /\ i + 1 = BlockCount(disk, dir) /\ b # -1
            /\ add_file(g, b, name, FALSE, size, more)
  <2>1. CASE i = 0
    <3>1. g \in Image /\ DirsInUse(g) /\ Tally(g, S)
      BY <1>3, <1>14, <2>1, GrownTally DEF g
    <3>2. b \in Block /\ FALSE \in BOOLEAN
      BY <1>14, FreeBlock
    <3> HIDE DEF b, more
    <3>3. damage' = "full" \/ Even(g, disk')
      BY <1>4, <1>14, <3>1, <3>2, AddFileEven
    <3> QED
      BY <3>1, <3>3, EvenTally DEF Tallies
  <2>2. CASE i # 0
    <3>1. harm = "exists"
      BY <1>11, <1>14, <2>2 DEF harm
    <3>2. more # "none"
      BY <3>1 DEF GrownHarm
    <3>3. damage' # "none"
      <4> HIDE DEF more
      <4> QED
        BY <1>14, <3>2, ZenonT(30) DEF add_file, CopyBlocks, Leaves
    <3> QED
      BY <3>3 DEF Tallies
  <2> QED
    BY <2>1, <2>2
<1> QED
  <2> HIDE DEF more, b
  <2>1. FALSE \in BOOLEAN /\ TRUE \in BOOLEAN
    OBVIOUS
  <2> QED
    BY <1>6, <1>7, <1>9, <1>10, <1>12, <1>13, <1>14, <2>1

\* ln -s counts the inode and the block of a symbolic link.
LEMMA SymlinkedEven ==
  ASSUME NEW d \in Image, DirsInUse(d), NEW ino \in Inode \ (d.ibm \cup {s_inodes_count}),
         find_free_block_index(d) # -1
  PROVE  Even(d, Symlinked(d, ino))
<1> DEFINE f == Symlinked(d, ino)
           free == find_free_block_index(d)
<1>1. free \in Block \ d.bbm
  BY FreeBlock
<1>2. /\ NewFields(d, f, ino, f.inode[ino], d.bbm \cup ({free} \cap Block), d.ibm \cup {ino})
      /\ f.inode[ino].i_mode = "lnk"
  BY SymlinkedFields
<1>3. f.free_blocks = d.free_blocks - 1 /\ f.free_inodes = d.free_inodes - 1
  <2> DEFINE link == [d.inode[ino] EXCEPT !.i_mode = "lnk", !.i_links_count = @ + 1, !.i_blocks = 2,
                                          !.i_dtime = FALSE, !.i_block[0] = Max({0, free})]
  <2>1. f = [d EXCEPT !.ibm = @ \cup {ino}, !.free_inodes = @ - 1, !.inode[ino] = link,
                      !.bbm = @ \cup ({free} \cap Block), !.free_blocks = @ - 1]
    BY DEF Symlinked
  <2> HIDE DEF f, link, free
  <2> QED
    BY <2>1 DEF Image
<1> HIDE DEF f, free
<1>4. f \in Image /\ f.bbm = d.bbm \cup {free} /\ f.ibm = d.ibm \cup {ino}
  BY <1>1, <1>2 DEF NewFields
<1>5. Twos(f) = Twos(d)
  <2>1. f.inode[ino].i_mode # "dir" /\ d.inode[ino].i_mode # "dir"
    BY <1>2 DEF DirsInUse
  <2> QED
    BY <1>2, <2>1, SameTwos DEF NewFields
<1>6. Takes(d, f, ino, {free})
  <2>1. Cardinality({free}) = 1
    BY FS_Singleton
  <2>2. LastUnused(f) <=> LastUnused(d)
    BY <1>2, LastInode DEF NewFields, LastUnused
  <2> QED
    BY <1>1, <1>3, <1>4, <1>5, <2>1, <2>2 DEF Takes
<1>7. Even(d, f)
  BY <1>4, <1>6, TakesEven
<1> QED
  BY <1>7 DEF f

LEMMA HardlinkEven ==
  ASSUME NEW d \in Image, DirsInUse(d), NEW b \in Block, NEW over \in BOOLEAN, NEW name \in Name,
         NEW ino \in Inode \cup {0}, NEW harm, add_hardlink(d, b, over, name, ino, harm),
         disk' \in Image
  PROVE  damage' = "full" \/ Even(d, disk')
<1> DEFINE new == find_invalid_indode_index(d)
           free == find_free_block_index(d)
           e(type, i) == Write(d, b, Added(d.block[b], over, name, type, i))
<1>1. new = -1 \/ new \in Inode \ (d.ibm \cup {s_inodes_count})
  BY FreeNotLast
<1>2. d.block[b] \in [Cell -> EntryType]
  BY Fields
<1>3. ASSUME NEW type \in {"reg", "lnk"}, NEW i \in Inode
      PROVE  /\ Even(d, e(type, i)) /\ e(type, i) \in Image /\ DirsInUse(e(type, i))
             /\ e(type, i).bbm = d.bbm /\ e(type, i).ibm = d.ibm
  <2> DEFINE c == Added(d.block[b], over, name, type, i)
             g == Write(d, b, c)
  <2>1. i \in Inode \cup {-1} /\ type \in {"reg", "dir", "lnk"}
    OBVIOUS
  <2>2. c \in [Cell -> EntryType]
    BY <1>2, <2>1, AddedTyped
  <2> HIDE DEF c
  <2>3. Rewritten(d, g, b, c)
    BY <2>2, Written
  <2> HIDE DEF g
  <2>4. Even(d, g)
    BY <2>3, WrittenStill, StillEven
  <2>5. g \in Image /\ DirsInUse(g) /\ g.bbm = d.bbm /\ g.ibm = d.ibm
    BY <2>3 DEF Rewritten, DirsInUse
  <2> QED
    BY <2>4, <2>5 DEF g, c
<1>4. CASE ino # 0 /\ disk' = Linked(e("reg", ino), ino)
  <2> DEFINE g == e("reg", ino)
  <2>1. ino \in Inode
    BY <1>4
  <2>2. Even(d, g) /\ g \in Image
    BY <1>3, <2>1
  <2>3. disk' = Linked(g, ino)
    BY <1>4
  <2> HIDE DEF g, e
  <2>4. Even(g, disk')
    BY <2>1, <2>2, <2>3, LinkedStill, StillEven
  <2> QED
    BY <2>2, <2>4, EvenSteps
<1>5. CASE new # -1 /\ free # -1 /\ disk' = Symlinked(e("lnk", new), new)
  <2> DEFINE g == e("lnk", new)
  <2>1. new \in Inode \ (d.ibm \cup {s_inodes_count})
    BY <1>1, <1>5
  <2>2. Even(d, g) /\ g \in Image /\ DirsInUse(g) /\ g.bbm = d.bbm /\ g.ibm = d.ibm
    <3> HIDE DEF new, e
    <3> QED
      BY <1>3, <2>1
  <2>3. disk' = Symlinked(g, new)
    BY <1>5
  <2> HIDE DEF g, e
  <2>4. find_free_block_index(g) # -1
    BY <1>5, <2>2 DEF find_free_block_index
  <2> HIDE DEF new, free
  <2>5. Even(g, disk')
    BY <2>1, <2>2, <2>3, <2>4, SymlinkedEven
  <2> QED
    BY <2>2, <2>5, EvenSteps
<1> QED
  BY <1>4, <1>5 DEF add_hardlink, Leaves

\* Where ln enlarges a directory it says so.
LEMMA LnTally ==
  ASSUME disk \in Image, Good(disk), disk' \in Image, NEW S, Tally(disk, S),
         NEW path \in Path, NEW ino \in Inode \cup {0}, mk_dir2(path, ino)
  PROVE  Tallies(S)
<1> DEFINE slots == [dir \in Inode |-> SlotsLookedAt(disk, dir)]
           at == Reached(disk, path, slots)
           dir == at.dir
           name == path[at.k]
           open == OpenFor(disk, dir, name)
           i == IF open = {} THEN 0 ELSE Min(open)
           c == Content(disk, dir, i)
           b == find_free_block_index(disk)
           d == [disk EXCEPT !.inode[dir].i_blocks = @ + 1,
                             !.inode[dir].i_block[2] = disk.inode[dir].i_block[1],
                             !.inode[dir].i_block[1] = b]
           e == Write([d EXCEPT !.bbm = @ \cup {b}], b, Zeros)
           harm == IF Has(disk, dir, name) THEN "exists" ELSE "none"
<1>1. Sound(disk, PlacesOf(disk)) /\ Own(disk) /\ Laid(disk, PlacesOf(disk))
  BY SoundParts DEF Good
<1>2. \A a \in Dirs(disk) : LooksIn(disk, a, slots[a])
  BY <1>1, SlotsToLookIn, SoundParts DEF Dirs
<1>3. dir \in Dirs(disk) /\ at.k \in 1 .. Len(path)
  BY <1>1, <1>2, LookedUp
<1>4. name \in Name /\ dir \in Inode /\ DirsInUse(disk)
  BY <1>1, <1>3, Paths, Fields DEF Dirs, DirsInUse, Own
<1>5. open = {j \in slots[dir] : /\ Named(Content(disk, dir, j), name) = {}
                                 /\ \/ Stuck(Content(disk, dir, j))
                                    \/ new_directory_fits(Content(disk, dir, j))}
  BY <1>4 DEF OpenFor, RoomIn
<1>6. LooksIn(disk, dir, SlotsLookedAt(disk, dir))
  BY <1>2, <1>3, <1>4
<1>7. \/ ln_new(dir, name, ino, open, c)
      \/ add_hardlink(disk, disk.inode[dir].i_block[0], TRUE, name, ino, "exists")
  <2> HIDE DEF at
  <2> QED
    BY <1>5, ZenonT(30) DEF mk_dir2, at
<1> HIDE DEF at, name, harm, open
<1>8. \/ /\ open # {} /\ ~Stuck(c)
         /\ add_hardlink(disk, disk.inode[dir].i_block[i], FALSE, name, ino, harm)
      \/ damage' = "full"
      \/ add_hardlink(e, b, FALSE, name, ino, "grown")
      \/ add_hardlink(disk, disk.inode[dir].i_block[0], TRUE, name, ino, "exists")
  <2> HIDE DEF dir
  <2> QED
    BY <1>7 DEF ln_new, Leaves, harm
<1> HIDE DEF c, b, d, e, i, dir
<1>9. CASE /\ open # {} /\ ~Stuck(c)
           /\ add_hardlink(disk, disk.inode[dir].i_block[i], FALSE, name, ino, harm)
  <2>1. open \subseteq Nat
    BY <1>6 DEF LooksIn, OpenFor, open
  <2>2. i \in open
    BY <1>9, <2>1, MinIn DEF i
  <2>3. i \in SlotsLookedAt(disk, dir)
    BY <2>2 DEF open, OpenFor
  <2>4. i \in Used(disk.inode[dir])
    BY <1>6, <1>9, <2>3, ZerosTyped DEF LooksIn, c
  <2>5. disk.inode[dir].i_block[i] \in Block /\ FALSE \in BOOLEAN
    BY <1>1, <1>3, <2>4, DirectoryBlocks
  <2>6. damage' = "full" \/ Even(disk, disk')
    BY <1>4, <1>9, <2>5, HardlinkEven
  <2> QED
    BY <2>6, EvenTally DEF Tallies
<1>10. ASSUME NEW f, NEW a, NEW over, NEW h \in {"grown", "exists"},
              add_hardlink(f, a, over, name, ino, h)
       PROVE  damage' # "none"
  BY <1>10 DEF add_hardlink, Leaves
<1> QED
  BY <1>8, <1>9, <1>10 DEF Tallies

\* rm gives back the inode of the last link and all of its blocks.
LEMMA FreedCounts ==
  ASSUME NEW d \in Image, NEW ino \in Inode
  PROVE  LET f == Freed(d, ino)
         IN  /\ f.free_blocks = d.free_blocks + BlockCount(d, ino)
             /\ f.free_inodes = d.free_inodes + 1
<1> DEFINE f == Freed(d, ino)
           bs == FileBlocks(d, ino)
           n == BlockCount(d, ino)
<1>1. f = [d EXCEPT !.bbm = @ \ bs, !.ibm = @ \ {ino},
                    !.free_blocks = @ + n, !.free_inodes = @ + 1,
                    !.inode[ino].i_dtime = TRUE, !.inode[ino].i_links_count = @ - 1]
  BY DEF Freed
<1> HIDE DEF f, bs, n
<1>2. f.free_blocks = d.free_blocks + n /\ f.free_inodes = d.free_inodes + 1
  BY <1>1 DEF Image
<1> QED
  BY <1>2 DEF n, f

LEMMA FreedEven ==
  ASSUME NEW d \in Image, NEW ino \in d.ibm, d.inode[ino].i_links_count > 0,
         InodeOK(d.inode[ino]), BlocksOf(d.inode[ino]) \subseteq d.bbm
  PROVE  Even(d, Freed(d, ino))
<1> DEFINE r == d.inode[ino]
           f == Freed(d, ino)
<1>1. ino \in Inode /\ r \in InodeType
  BY Fields
<1>2. FileBlocks(d, ino) = BlocksOf(r) /\ BlockCount(d, ino) = Count(r)
  BY DEF FileBlocks, BlocksOf, Used, Count, BlockCount
<1>3. f.free_blocks = d.free_blocks + BlockCount(d, ino) /\ f.free_inodes = d.free_inodes + 1
  BY <1>1, FreedCounts
<1>4. Released(d, f, ino)
  BY <1>1, FreedFields
<1>5. Cardinality(BlocksOf(r)) = Count(r) /\ Count(r) \in Nat
  BY <1>1, InodeBlocks, InodeFields
<1> HIDE DEF f
<1>6. Twos(f) = Twos(d) /\ (LastUnused(f) <=> LastUnused(d))
  <2>1. \A j \in Inode : /\ f.inode[j].i_mode = d.inode[j].i_mode
                         /\ f.inode[j].i_blocks = d.inode[j].i_blocks
    BY <1>4 DEF Released
  <2> QED
    BY <2>1, SameTwos, LastInode DEF LastUnused
<1>7. Takes(f, d, ino, BlocksOf(r))
  <2>1. d.free_blocks \in Int /\ d.free_inodes \in Int
    BY Fields
  <2>2. d.free_inodes = f.free_inodes - 1
    BY <1>3, <2>1
  <2>3. d.free_blocks = f.free_blocks - Cardinality(BlocksOf(r))
    <3> DEFINE n == Count(r)
    <3>1. f.free_blocks = d.free_blocks + n /\ n \in Nat /\ Cardinality(BlocksOf(r)) = n
      BY <1>2, <1>3, <1>5
    <3> HIDE DEF n
    <3> QED
      BY <2>1, <3>1
  <2>4. /\ ino \in Inode \ f.ibm /\ d.ibm = f.ibm \cup {ino}
        /\ BlocksOf(r) \subseteq Block \ f.bbm /\ d.bbm = f.bbm \cup BlocksOf(r)
    <3>1. d.bbm \subseteq Block
      BY Fields
    <3> QED
      BY <1>1, <1>4, <3>1 DEF Released
  <2> QED
    BY <1>6, <2>2, <2>3, <2>4 DEF Takes
<1>8. Even(f, d)
  BY <1>4, <1>7, TakesEven DEF Released
<1> QED
  BY <1>8, EvenSteps DEF f

LEMMA RmEven ==
  ASSUME NEW d \in Image, Good(d), NEW dir \in Dirs(d), NEW s \in Used(d.inode[dir]),
         NEW b, b = d.inode[dir].i_block[s], NEW p \in Shown(d.block[b])
  PROVE  Even(d, remove_file(d, b, p))
<1> DEFINE P == PlacesOf(d)
           x   == <<dir, <<s, p>>>>
           c   == d.block[b]
           ino == c[p].inode
           d1  == IF p = 0 THEN d ELSE Write(d, b, Unshown(c, p))
           more == d.inode[ino].i_links_count > 1 /\ c[p].file_type # "lnk"
           f == remove_file(d, b, p)
<1>1. /\ Own(d) /\ Laid(d, P) /\ Live(d, P) /\ Counted(d, P) /\ P \subseteq Place
  BY SoundParts DEF Good
<1> HIDE DEF P
<1>2. b \in Block /\ c \in [Cell -> EntryType] /\ Chain(c, Shown(c)) /\ x \in P /\ Ent(d, x) = c[p]
  BY <1>1, DirectoryBlocks, BlockShows, SMTT(30)
<1>3. ino \in d.ibm /\ ino \in Inode /\ d.inode[ino].i_links_count > 0
  BY <1>1, <1>2, Fields, FreeHasNoLinks, Zenon DEF Live
<1>4. InodeOK(d.inode[ino]) /\ BlocksOf(d.inode[ino]) \subseteq d.bbm
  <2> HIDE DEF ino
  <2> QED
    BY <1>1, <1>3 DEF Own
<1>5. Even(d, d1) /\ d1 \in Image /\ d1.inode = d.inode /\ d1.ibm = d.ibm /\ d1.bbm = d.bbm
  <2>1. CASE p = 0
    BY <2>1 DEF Even
  <2>2. CASE p # 0
    <3>1. Loses(c, Unshown(c, p), p)
      BY <1>2, <2>2, UnshownLoses, Zenon
    <3>2. Unshown(c, p) \in [Cell -> EntryType]
      BY <3>1, Zenon DEF Loses
    <3>3. Rewritten(d, d1, b, Unshown(c, p))
      BY <1>2, <2>2, <3>2, Written, Zenon
    <3> HIDE DEF d1
    <3>4. Even(d, d1)
      BY <3>3, WrittenStill, StillEven
    <3> QED
      BY <3>3, <3>4 DEF Rewritten
  <2> QED
    BY <2>1, <2>2, Zenon
<1>6. f = IF more THEN [d1 EXCEPT !.inode[ino].i_links_count = @ - 1] ELSE Freed(d1, ino)
  BY <1>5, Zenon DEF remove_file
<1> HIDE DEF d1, f, ino
<1>7. CASE more
  <2> DEFINE g == [d1 EXCEPT !.inode[ino].i_links_count = @ - 1]
  <2>1. Unlinked(d1, g, ino)
    BY <1>3, <1>5, UnlinkedFields
  <2>2. g.free_blocks = d1.free_blocks /\ g.free_inodes = d1.free_inodes
    BY <1>5 DEF Image
  <2> HIDE DEF g
  <2>3. Still(d1, g)
    BY <2>1, <2>2 DEF Unlinked, Still
  <2>4. Even(d1, g)
    BY <2>3, StillEven
  <2> QED
    BY <1>5, <1>6, <1>7, <2>4, EvenSteps DEF g, f
<1>8. CASE ~more
  <2>1. Even(d1, Freed(d1, ino))
    BY <1>3, <1>4, <1>5, FreedEven
  <2>2. f = Freed(d1, ino)
    BY <1>6, <1>8, SMTT(30)
  <2> QED
    BY <1>5, <2>1, <2>2, EvenSteps DEF f
<1> QED
  BY <1>7, <1>8, SMTT(30)

LEMMA RmTally ==
  ASSUME disk \in Image, Good(disk), disk' \in Image, NEW S, Tally(disk, S),
         NEW path \in Path, ext2_rm(path)
  PROVE  Tallies(S)
<1> DEFINE P == PlacesOf(disk)
           v == Victim(disk, path)
           f == remove_file(disk, v.b, v.p)
<1>1. path_exists(disk, path) \in {"file", "new"} /\ v # NoVictim /\ disk' = f
  BY DEF ext2_rm, Leaves
<1>2. Sound(disk, P)
  BY DEF Good
<1> HIDE DEF P, v
<1>3. v = Victim(disk, path)
  BY DEF v
<1>4. PICK dir \in Dirs(disk) : \E s \in Used(disk.inode[dir]) :
           /\ v.b = disk.inode[dir].i_block[s] /\ v.p \in Shown(disk.block[v.b])
           /\ disk.block[v.b][v.p].name \in Name /\ disk.block[v.b][v.p].file_type # "dir"
  BY <1>1, <1>2, <1>3, Removable
<1>5. Even(disk, f)
  BY <1>4, RmEven, ZenonT(30)
<1> HIDE DEF f
<1> QED
  BY <1>1, <1>5, EvenTally DEF Tallies

LEMMA RestoredCounts ==
  ASSUME NEW d \in Image, NEW ino \in Inode, NEW type, BlocksOf(d.inode[ino]) \subseteq Block,
         BlocksOf(d.inode[ino]) \cap d.bbm = {}, d.inode[ino].i_links_count = 0
  PROVE  LET f == RestoredInode(d, ino, type)
         IN  /\ f.free_blocks = d.free_blocks - BlockCount(d, ino)
             /\ f.free_inodes = d.free_inodes - 1
<1> DEFINE r == d.inode[ino]
           g == Revived(d, ino)
           f == RestoredInode(d, ino, type)
           n == Count(r)
<1>1. FileBlocks(d, ino) = BlocksOf(r) /\ BlockCount(d, ino) = n
  BY DEF FileBlocks, BlocksOf, Used, Count, BlockCount
<1>2. f = Marked(g, ino)
  <2>1. BlocksOf(r) \cap d.bbm = {}
    OBVIOUS
  <2>2. ~(r.i_links_count >= 1)
    OBVIOUS
  <2> HIDE DEF r
  <2> QED
    BY <1>1, <2>1, <2>2 DEF RestoredInode, Marked, r
<1>3. g.free_blocks = d.free_blocks - n /\ g.free_inodes = d.free_inodes
  <2> DEFINE bs == FileBlocks(d, ino)
             t == IF BlockCount(d, ino) > 0 THEN FALSE ELSE d.inode[ino].i_dtime
  <2>1. g = [d EXCEPT !.bbm = @ \cup bs, !.free_blocks = @ - n, !.inode[ino].i_dtime = t]
    BY <1>1 DEF Revived
  <2> HIDE DEF g, bs, t, n
  <2> QED
    BY <2>1 DEF Image
<1>4. g \in Image
  <2>1. BlocksOf(d.inode[ino]) \subseteq Block
    OBVIOUS
  <2> QED
    BY <2>1, RevivedFields DEF NewFields
<1> HIDE DEF g, f
<1>5. f.free_blocks = d.free_blocks - n /\ f.free_inodes = d.free_inodes - 1
  <2>1. f.free_blocks = g.free_blocks /\ f.free_inodes = g.free_inodes - 1
    BY <1>2, <1>4 DEF Marked, Image
  <2> HIDE DEF n
  <2> QED
    BY <1>3, <2>1
<1> QED
  BY <1>1, <1>5 DEF f

\* restore takes the inode and its blocks again.
LEMMA RestoredEven ==
  ASSUME NEW d \in Image, NEW ino \in Inode \ d.ibm, NEW type, InodeOK(d.inode[ino]),
         BlocksOf(d.inode[ino]) \subseteq Block \ d.bbm, d.inode[ino].i_links_count = 0
  PROVE  Even(d, RestoredInode(d, ino, type))
<1> DEFINE r == d.inode[ino]
           f == RestoredInode(d, ino, type)
           n == Count(r)
<1>1. FileBlocks(d, ino) = BlocksOf(r) /\ BlockCount(d, ino) = n
  BY DEF FileBlocks, BlocksOf, Used, Count, BlockCount
<1>2. RestoredTo(d, f, ino)
  BY RestoredFields
<1> HIDE DEF f
<1>3. f.free_blocks = d.free_blocks - n /\ f.free_inodes = d.free_inodes - 1
  <2>1. BlocksOf(r) \cap d.bbm = {} /\ BlocksOf(r) \subseteq Block
    OBVIOUS
  <2> QED
    BY <1>1, <2>1, RestoredCounts DEF f
<1>4. Cardinality(BlocksOf(r)) = n
  <2>1. r \in InodeType
    BY Fields
  <2> QED
    BY <2>1, InodeBlocks
<1>5. Twos(f) = Twos(d) /\ (LastUnused(f) <=> LastUnused(d))
  <2>1. \A j \in Inode : /\ f.inode[j].i_mode = d.inode[j].i_mode
                         /\ f.inode[j].i_blocks = d.inode[j].i_blocks
    BY <1>2 DEF RestoredTo, NewFields
  <2> QED
    BY <2>1, SameTwos, LastInode DEF LastUnused
<1> HIDE DEF n
<1>6. Takes(d, f, ino, BlocksOf(r))
  BY <1>2, <1>3, <1>4, <1>5 DEF RestoredTo, NewFields, Takes
<1>7. Even(d, f)
  BY <1>2, <1>6, TakesEven DEF RestoredTo, NewFields
<1> QED
  BY <1>7 DEF f

LEMMA RestoreEven ==
  ASSUME NEW d \in Image, Good(d), NEW dir, NEW v, Stopped(d, dir, v), NEW name \in Name,
         Restorable(d, v, d.block[v.b], name)
  PROVE  Even(d, restore_file(d, v))
<1> DEFINE P == PlacesOf(d)
           c == d.block[v.b]
           n == [c EXCEPT ![v.q].rec_len = v.p - v.q]
           e == Write(d, v.b, n)
           ino == c[v.p].inode
           type == c[v.p].file_type
           f == restore_file(d, v)
<1>1. Own(d) /\ Live(d, P) /\ Counted(d, P) /\ P \subseteq Place
  BY SoundParts DEF Good
<1> HIDE DEF P
<1>2. /\ v.b \in Block /\ v.p \in Cell /\ v.q \in Nat /\ v.q <= v.p /\ v.p \in Nat
  BY BlockSizes DEF Stopped
<1>3. c \in [Cell -> EntryType] /\ v.p - v.q \in Nat
  BY <1>2, Fields
<1>4. n \in [Cell -> EntryType]
  <2> HIDE DEF c
  <2> QED
    BY <1>3, LengthWritten
<1>5. ino \in Inode \ d.ibm /\ FileBlocks(d, ino) \cap d.bbm = {}
  BY Zenon DEF Restorable
<1>6. FileBlocks(d, ino) = BlocksOf(d.inode[ino])
  BY DEF FileBlocks, BlocksOf, Used, Count, BlockCount
<1>7. f = RestoredInode(e, ino, type)
  BY <1>5, SMTT(30) DEF restore_file
<1> HIDE DEF n
<1>8. Rewritten(d, e, v.b, n)
  BY <1>2, <1>4, Written
<1> HIDE DEF c, e, ino, type, f
<1>9. e \in Image /\ e.inode = d.inode /\ e.bbm = d.bbm /\ e.ibm = d.ibm
  BY <1>8 DEF Rewritten
<1>10. Even(d, e)
  BY <1>8, WrittenStill, StillEven
<1>11. BlocksOf(d.inode[ino]) \subseteq Block /\ InodeOK(d.inode[ino])
  BY <1>1, <1>5, OwnBlocks
<1>12. d.inode[ino].i_links_count = 0
  BY <1>1, <1>5, FreeHasNoLinks
<1>13. BlocksOf(d.inode[ino]) \subseteq Block \ d.bbm
  BY <1>5, <1>6, <1>11
<1>14. Even(e, f)
  <2>1. /\ BlocksOf(e.inode[ino]) \subseteq Block \ e.bbm /\ InodeOK(e.inode[ino])
        /\ e.inode[ino].i_links_count = 0 /\ ino \in Inode \ e.ibm
    BY <1>5, <1>9, <1>11, <1>12, <1>13
  <2> QED
    BY <1>7, <1>9, <2>1, RestoredEven
<1> QED
  BY <1>10, <1>14, EvenSteps DEF f

LEMMA RestoreTally ==
  ASSUME disk \in Image, Good(disk), disk' \in Image, NEW S, Tally(disk, S),
         NEW path \in Path, ext2_restore(path)
  PROVE  Tallies(S)
<1> DEFINE v == Deleted(disk, path)
           d == restore_file(disk, v)
           harm == IF Restorable(disk, v, disk.block[v.b], Last(path)) THEN "none" ELSE "stale"
<1>1. Sound(disk, PlacesOf(disk))
  BY DEF Good
<1>2. v # NoStop /\ disk' = d /\ damage' = harm
  BY DEF ext2_restore, Leaves
<1>3. PICK dir : Stopped(disk, dir, v)
  <2> HIDE DEF v
  <2> QED
    BY <1>1, <1>2, DeletedIs DEF v
<1>4. ASSUME harm = "none" PROVE Even(disk, d)
  <2>1. Restorable(disk, v, disk.block[v.b], Last(path)) /\ Last(path) \in Name
    BY <1>4, Paths
  <2> HIDE DEF v
  <2> QED
    BY <1>3, <2>1, RestoreEven
<1> HIDE DEF d, harm
<1> QED
  BY <1>2, <1>4, EvenTally DEF Tallies

LEMMA StepTally ==
  ASSUME IInv, Next, disk' \in Image, NEW S, Tally(disk, S)
  PROVE  Tallies(S)
<1>1. disk \in Image /\ Good(disk)
  BY DEF Next, IInv
<1>2. PICK path \in Path :
        \/ ext2_mkdir(path)
        \/ \E size \in Size : ext2_cp(path, size)
        \/ \E target \in Path : ext2_ln(target, path)
        \/ ext2_ln_s(path)
        \/ ext2_rm(path)
        \/ ext2_restore(path)
  BY DEF Next
<1>3. CASE ext2_mkdir(path)
  BY <1>1, <1>3, MkdirTally
<1>4. CASE \E size \in Size : ext2_cp(path, size)
  BY <1>1, <1>4, CpTally
<1>5. CASE \E target \in Path : ext2_ln(target, path)
  <2>1. PICK target \in Path : ext2_ln(target, path)
    BY <1>5
  <2>2. PICK ino \in {get_struct(disk, target)} \ {0} : mk_dir2(path, ino)
    BY <2>1 DEF ext2_ln
  <2>3. Sound(disk, PlacesOf(disk))
    BY <1>1 DEF Good
  <2>4. ino \in Inode \cup {0}
    BY <1>1, <2>2, <2>3, StructIs
  <2> QED
    BY <1>1, <2>2, <2>4, LnTally
<1>6. CASE ext2_ln_s(path)
  <2>1. mk_dir2(path, 0) /\ 0 \in Inode \cup {0}
    BY <1>6 DEF ext2_ln_s
  <2> QED
    BY <1>1, <2>1, LnTally
<1>7. CASE ext2_rm(path)
  BY <1>1, <1>7, RmTally
<1>8. CASE ext2_restore(path)
  BY <1>1, <1>8, RestoreTally
<1> QED
  BY <1>2, <1>3, <1>4, <1>5, <1>6, <1>7, <1>8

\* The checker makes the counters those of the bitmaps.
LEMMA CheckedTally ==
  ASSUME NEW d \in Image, Good(d), LastUnused(d)
  PROVE  Tally(Counters(d), Twos(d))
<1> DEFINE e == Counters(d)
<1>1. /\ e.bbm = d.bbm /\ e.ibm = d.ibm /\ e.inode = d.inode
      /\ e.free_inodes = FreeInodes(d) /\ e.free_blocks = FreeBlocks(d)
  BY DEF Counters, Image
<1> HIDE DEF e
<1>2. Twos(e) = Twos(d) /\ FreeInodes(e) = FreeInodes(d) /\ FreeBlocks(e) = FreeBlocks(d)
  BY <1>1 DEF Twos, BlockCount, FreeInodes, FreeBlocks
<1>3. Cardinality(Twos(e) \ Twos(d)) = 0
  <2>1. Twos(e) \ Twos(d) = {}
    BY <1>2
  <2> QED
    BY <2>1, FS_EmptySet
<1>4. FreeBlocks(d) \in Int
  BY CountersTyped
<1>5. Tally(e, Twos(d))
  BY <1>1, <1>2, <1>3, <1>4 DEF Tally, LastUnused
<1> QED
  BY <1>5 DEF e

LEMMA FormattedTally == Tally(Formatted, {})
<1> DEFINE d == Formatted
<1>1. d \in Image /\ d.bbm = {1} /\ d.ibm = {EXT2_ROOT_INO}
  BY FormattedFields
<1>2. d.free_blocks = s_blocks_count - 2 /\ d.free_inodes = s_inodes_count - 2
  BY DEF Formatted, EXT2_ROOT_INO
<1>3. Twos(d) = {}
  <2>1. \A i \in Inode : d.inode[i].i_blocks \in {0, 2}
    <3>1. NewInode("none", 0, 0).i_blocks = 0
      BY DEF NewInode
    <3>2. \A i \in Inode : d.inode[i].i_blocks = 0 \/ d.inode[i].i_blocks = 2
      BY <3>1, FormattedFields, FormattedInodes
    <3> QED
      BY <3>2
  <2>2. 0 \div 2 # 2 /\ 2 \div 2 # 2
    OBVIOUS
  <2> HIDE DEF d
  <2> QED
    BY <2>1, <2>2 DEF Twos, BlockCount
<1> HIDE DEF d
<1>4. Cardinality({1}) = 1 /\ Cardinality({EXT2_ROOT_INO}) = 1 /\ Cardinality({}) = 0
  BY FS_Singleton, FS_EmptySet
<1>5. FreeInodes(d) = s_inodes_count - 2 /\ FreeBlocks(d) = s_blocks_count - 2
  BY <1>1, <1>4, SizesAssumption DEF FreeInodes, FreeBlocks
<1>6. Twos(d) \ {} = {}
  BY <1>3
<1>7. LastUnused(d)
  <2>1. s_inodes_count \in Inode \ {EXT2_ROOT_INO} /\ NewInode("none", 0, 0).i_mode = "none"
    BY LastInode, SizesAssumption DEF EXT2_ROOT_INO, NewInode
  <2>2. d.inode[s_inodes_count] = NewInode("none", 0, 0)
    BY <2>1 DEF Formatted, d
  <2> QED
    BY <2>1, <2>2 DEF LastUnused
<1>8. Tally(d, {})
  BY <1>2, <1>4, <1>5, <1>6, <1>7, SizesAssumption DEF Tally
<1> QED
  BY <1>8 DEF d

\* With the counters the invariant says what the directories of two blocks were
\* at the last pass of the checker: none of them has become another since.
CountedIInv == IInv /\ (damage = "none" => Tally(disk, recounted))

LEMMA CountedInvariance == CheckedSpec => []CountedIInv
<1>1. CheckedInit => CountedIInv
  <2> SUFFICES ASSUME CheckedInit PROVE CountedIInv
    OBVIOUS
  <2>1. IInv
    BY FormattedGood DEF CheckedInit, Init, IInv, Damages
  <2>2. disk = Formatted /\ recounted = {}
    BY DEF CheckedInit, Init
  <2> QED
    BY <2>1, <2>2, FormattedTally DEF CountedIInv
<1>2. ASSUME CountedIInv, IInv', [CheckedNext]_checkedVars PROVE CountedIInv'
  <2>1. IInv /\ disk \in Image /\ disk' \in Image
    BY <1>2 DEF CountedIInv, IInv, Image
  <2>2. SUFFICES ASSUME damage' = "none" PROVE Tally(disk, recounted)'
    BY <1>2 DEF CountedIInv
  <2>3. CASE Next /\ UNCHANGED recounted
    <3>1. PICK S : S = recounted
      OBVIOUS
    <3>2. Tally(disk, S) /\ recounted' = S
      BY <1>2, <2>3, <3>1 DEF CountedIInv, Next
    <3>3. Tally(disk', S)
      BY <2>1, <2>2, <2>3, <3>2, StepTally DEF Tallies
    <3> QED
      BY <3>2, <3>3 DEF Tally, LastUnused, Twos, BlockCount, FreeInodes, FreeBlocks
  <2>4. CASE ext2_checker
    <3>1. disk' = Checked(disk) /\ recounted' = Twos(disk) /\ damage = "none"
      BY <2>2, <2>4 DEF ext2_checker, TwoBlocks, Twos
    <3>2. Good(disk)
      BY <2>1, <3>1 DEF IInv
    <3>3. disk' = Counters(disk)
      BY <2>1, <3>1, <3>2, NothingToRepair DEF Good
    <3>4. Tally(disk', Twos(disk))
      BY <1>2, <2>1, <3>1, <3>2, <3>3, CheckedTally DEF CountedIInv, Tally
    <3> QED
      BY <3>1, <3>4 DEF Tally, LastUnused, Twos, BlockCount, FreeInodes, FreeBlocks
  <2>5. CASE UNCHANGED checkedVars
    <3>1. disk' = disk /\ recounted' = recounted /\ damage' = damage
      BY <2>5 DEF checkedVars
    <3>2. Tally(disk, recounted)
      BY <1>2, <2>2, <3>1 DEF CountedIInv
    <3> QED
      BY <3>1, <3>2 DEF Tally, LastUnused, Twos, BlockCount, FreeInodes, FreeBlocks
  <2> QED
    BY <1>2, <2>3, <2>4, <2>5 DEF CheckedNext
<1> QED
  BY <1>1, <1>2, CheckedInvariance, PTL DEF CheckedSpec

\* The counters of superblock and group say what the bitmaps say, but for the
\* second blocks of directories since the last pass of the checker, after any
\* sequence of tools and passes that has not damaged the image.
THEOREM CountersStay == CheckedSpec => []CountersOffByGrowth
<1>1. CountedIInv => CountersOffByGrowth
  BY DEF CountedIInv, CountersOffByGrowth, Tally, Twos, TwoBlocks
<1> QED
  BY <1>1, CountedInvariance, PTL

-----------------------------------------------------------------------------
(* A pass comes to its end.                                                  *)

\* The checker comes to the end of a block: the lengths of its entries lead
\* there, and inode and type of each are in m.
Walk(c, m) ==
  Chain(c, Shown(c)) /\ \A p \in Shown(c) : <<c[p].inode, c[p].file_type>> \in m

\* Every slot of every directory has a block, and the checker comes to the end
\* of them all but b.
PassableBut(d, b, m) ==
  \A dir \in Inode : d.inode[dir].i_mode = "dir" =>
    \A s \in Used(d.inode[dir]) :
      /\ d.inode[dir].i_block[s] \in Block
      /\ d.inode[dir].i_block[s] # b => Walk(d.block[d.inode[dir].i_block[s]], m)

\* The inodes, those in use and all, with their types.
UsedModes(d) == {<<i, d.inode[i].i_mode>> : i \in d.ibm}
Modes(d)     == {<<i, d.inode[i].i_mode>> : i \in Inode}

Passable(d) == PassableBut(d, 0, Modes(d))

LEMMA WalkMore ==
  ASSUME NEW c, NEW m, NEW n, m \subseteq n, Walk(c, m)
  PROVE  Walk(c, n)
BY DEF Walk

LEMMA PassMore ==
  ASSUME NEW d, NEW b, NEW m, NEW n, m \subseteq n, PassableBut(d, b, m)
  PROVE  PassableBut(d, b, n)
BY WalkMore DEF PassableBut

LEMMA ChainWalk ==
  ASSUME NEW c \in [Cell -> EntryType], NEW T, Chain(c, T), NEW m,
         \A p \in T : <<c[p].inode, c[p].file_type>> \in m
  PROVE  Walk(c, m)
<1>1. Shown(c) = T
  BY EntryLengths, ChainShown
<1> QED
  BY <1>1 DEF Walk

\* A new entry at the end of a block, alone in one, or over "..".
LEMMA AddedWalk ==
  ASSUME NEW c \in [Cell -> EntryType], NEW name \in Name, NEW type \in {"reg", "dir", "lnk"},
         NEW ino \in Inode, NEW m, <<ino, type>> \in m
  PROVE  /\ Walk(c, m) /\ new_directory_fits(c) => Walk(Inserted(c, name, type, ino), m)
         /\ Walk(Inserted(Zeros, name, type, ino), m)
         /\ <<c[0].inode, c[0].file_type>> \in m => Walk(OverDotDot(c, name, type, ino), m)
<1>1. ino \in Inode \cup {-1}
  OBVIOUS
<1>2. Entry(name, type, ino, 0).inode = ino /\ Entry(name, type, ino, 0).file_type = type
  BY DEF Entry
<1>3. ASSUME Walk(c, m), new_directory_fits(c) PROVE Walk(Inserted(c, name, type, ino), m)
  <2> DEFINE n == Inserted(c, name, type, ino)
  <2>1. Chain(c, Shown(c))
    BY <1>3 DEF Walk
  <2>2. PICK p \in Cell : Gains(c, n, p) /\ Alike(n[p], Entry(name, type, ino, 0))
    BY <1>1, <1>3, <2>1, InsertedGains
  <2> HIDE DEF n
  <2>3. n \in [Cell -> EntryType] /\ Chain(n, Shown(c) \cup {p})
    BY <2>2 DEF Gains
  <2>4. \A q \in Shown(c) \cup {p} : <<n[q].inode, n[q].file_type>> \in m
    <3>1. n[p].inode = ino /\ n[p].file_type = type
      BY <1>2, <2>2 DEF Alike
    <3>2. \A q \in Cell \ {p} : n[q].inode = c[q].inode /\ n[q].file_type = c[q].file_type
      BY <2>2 DEF Gains, Alike
    <3>3. \A q \in Shown(c) : q \in Cell /\ <<c[q].inode, c[q].file_type>> \in m
      BY <1>3, <2>1 DEF Walk, Chain
    <3> QED
      BY <3>1, <3>2, <3>3
  <2> QED
    BY <2>3, <2>4, ChainWalk DEF n
<1>4. Walk(Inserted(Zeros, name, type, ino), m)
  <2> DEFINE n == Inserted(Zeros, name, type, ino)
  <2>1. n \in [Cell -> EntryType] /\ Chain(n, {0}) /\ Alike(n[0], Entry(name, type, ino, 0))
    BY <1>1, InsertedFirst
  <2> HIDE DEF n
  <2>2. \A q \in {0} : <<n[q].inode, n[q].file_type>> \in m
    BY <1>2, <2>1 DEF Alike
  <2> QED
    BY <2>1, <2>2, ChainWalk DEF n
<1>5. ASSUME <<c[0].inode, c[0].file_type>> \in m PROVE Walk(OverDotDot(c, name, type, ino), m)
  <2> DEFINE n == OverDotDot(c, name, type, ino)
             e == Entry(name, type, ino, EXT2_BLOCK_SIZE - 1)
             f == [c[0] EXCEPT !.rec_len = 1]
  <2>1. n = [c EXCEPT ![0] = f, ![1] = e]
    BY DEF OverDotDot
  <2>2. e.inode = ino /\ e.file_type = type /\ e.rec_len = EXT2_BLOCK_SIZE - 1
    BY DEF Entry
  <2>3. c[0] \in EntryType
    BY BlockSizes
  <2>4. f.inode = c[0].inode /\ f.file_type = c[0].file_type /\ f.rec_len = 1
    BY <2>3 DEF EntryType
  <2>5. n \in [Cell -> EntryType]
    BY <1>1, AddedTyped
  <2> HIDE DEF e, f
  <2>6. n[0] = f /\ n[1] = e
    BY <2>1, BlockSizes
  <2> HIDE DEF n
  <2>7. Chain(n, {0, 1})
    BY <2>2, <2>4, <2>6, BlockSizes DEF Chain
  <2>8. \A q \in {0, 1} : <<n[q].inode, n[q].file_type>> \in m
    BY <1>5, <2>2, <2>4, <2>6
  <2> QED
    BY <2>5, <2>7, <2>8, ChainWalk DEF n
<1> QED
  BY <1>3, <1>4, <1>5

LEMMA NewDirectoryWalk ==
  ASSUME NEW ino \in Inode, NEW parent \in Inode, NEW m, <<ino, "dir">> \in m, <<parent, "dir">> \in m
  PROVE  Walk(NewDirectory(ino, parent), m)
<1> DEFINE n == NewDirectory(ino, parent)
<1>1. /\ n \in [Cell -> EntryType] /\ Chain(n, {0, 1})
      /\ Alike(n[0], Entry(".", "dir", ino, 0)) /\ Alike(n[1], Entry("..", "dir", parent, 0))
  BY NewDirectoryTyped
<1> HIDE DEF n
<1>2. /\ n[0].inode = ino /\ n[0].file_type = "dir"
      /\ n[1].inode = parent /\ n[1].file_type = "dir"
  BY <1>1 DEF Alike, Entry
<1>3. \A p \in {0, 1} : <<n[p].inode, n[p].file_type>> \in m
  BY <1>2
<1> QED
  BY <1>1, <1>3, ChainWalk DEF n

\* Blocks that are not b, and directories but for slots that hold b, are as
\* they were.
LEMMA PassKept ==
  ASSUME NEW d, NEW e, NEW b, NEW m, PassableBut(d, b, m),
         \A a \in Block \ {b} : e.block[a] = d.block[a],
         \A i \in Inode : e.inode[i].i_mode = "dir" =>
           /\ d.inode[i].i_mode = "dir"
           /\ \A s \in Used(e.inode[i]) :
                \/ s \in Used(d.inode[i]) /\ d.inode[i].i_block[s] = e.inode[i].i_block[s]
                \/ e.inode[i].i_block[s] = b /\ b \in Block
  PROVE  PassableBut(e, b, m)
<1> SUFFICES ASSUME NEW i \in Inode, e.inode[i].i_mode = "dir", NEW s \in Used(e.inode[i])
             PROVE  /\ e.inode[i].i_block[s] \in Block
                    /\ e.inode[i].i_block[s] # b => Walk(e.block[e.inode[i].i_block[s]], m)
  BY DEF PassableBut
<1>1. CASE e.inode[i].i_block[s] = b /\ b \in Block
  BY <1>1
<1>2. CASE s \in Used(d.inode[i]) /\ d.inode[i].i_block[s] = e.inode[i].i_block[s]
  <2>1. /\ d.inode[i].i_block[s] \in Block
        /\ d.inode[i].i_block[s] # b => Walk(d.block[d.inode[i].i_block[s]], m)
    BY <1>2 DEF PassableBut
  <2> QED
    BY <1>2, <2>1
<1> QED
  BY <1>1, <1>2

\* The same directories with the same blocks.
LEMMA PassSame ==
  ASSUME NEW d, NEW e, NEW b, NEW m, PassableBut(d, b, m), e.block = d.block,
         \A i \in Inode : e.inode[i].i_mode = "dir" =>
           /\ d.inode[i].i_mode = "dir"
           /\ e.inode[i].i_blocks = d.inode[i].i_blocks /\ e.inode[i].i_block = d.inode[i].i_block
  PROVE  PassableBut(e, b, m)
<1>1. \A i \in Inode : e.inode[i].i_mode = "dir" => Used(e.inode[i]) = Used(d.inode[i])
  BY DEF Used, Count
<1> QED
  BY <1>1, PassKept

LEMMA PassWritten ==
  ASSUME NEW d, NEW e, NEW b \in Block, NEW c, NEW m, PassableBut(d, b, m), Rewritten(d, e, b, c),
         Walk(c, m)
  PROVE  PassableBut(e, 0, m)
<1>1. /\ e.inode = d.inode /\ e.block[b] = c /\ \A a \in Block \ {b} : e.block[a] = d.block[a]
  BY DEF Rewritten
<1> QED
  BY <1>1 DEF PassableBut

LEMMA PassBut ==
  ASSUME NEW d, NEW b, NEW m, PassableBut(d, 0, m)
  PROVE  PassableBut(d, b, m)
<1>1. 0 \notin Block
  BY Numbers
<1> QED
  BY <1>1 DEF PassableBut

LEMMA GoodPassable ==
  ASSUME NEW d \in Image, Good(d)
  PROVE  PassableBut(d, 0, UsedModes(d))
<1> DEFINE P == PlacesOf(d)
<1>1. Sound(d, P) /\ Own(d) /\ Laid(d, P)
  BY SoundParts DEF Good
<1> HIDE DEF P
<1>2. ASSUME NEW dir \in Inode, d.inode[dir].i_mode = "dir", NEW s \in Used(d.inode[dir])
      PROVE  /\ d.inode[dir].i_block[s] \in Block
             /\ Walk(d.block[d.inode[dir].i_block[s]], UsedModes(d))
  <2> DEFINE c == d.block[d.inode[dir].i_block[s]]
  <2>1. dir \in Dirs(d)
    BY <1>1, <1>2 DEF Own, Dirs
  <2>2. d.inode[dir].i_block[s] \in Block
    BY <1>1, <2>1, DirectoryBlocks
  <2>3. /\ Chain(c, Shown(c))
        /\ \A p \in Shown(c) : <<dir, <<s, p>>>> \in P /\ Ent(d, <<dir, <<s, p>>>>) = c[p]
    BY <1>1, <2>1, BlockShows
  <2> HIDE DEF c
  <2>4. \A p \in Shown(c) : c[p].inode \in d.ibm /\ c[p].file_type = d.inode[c[p].inode].i_mode
    BY <1>1, <2>3, EntryKinds
  <2>5. Walk(c, UsedModes(d))
    BY <2>3, <2>4 DEF Walk, UsedModes
  <2> QED
    BY <2>2, <2>5 DEF c
<1> QED
  BY <1>2 DEF PassableBut

LEMMA GoodPasses ==
  ASSUME NEW d \in Image, Good(d)
  PROVE  Passable(d)
<1>1. UsedModes(d) \subseteq Modes(d)
  BY Fields DEF UsedModes, Modes
<1> QED
  BY <1>1, GoodPassable, PassMore DEF Passable

\* mkdir in block b of a directory.
LEMMA AddDirectoryPass ==
  ASSUME NEW d \in Image, NEW b \in Block, PassableBut(d, b, UsedModes(d)), NEW name \in Name,
         NEW dir \in Dirs(d),
         \A i \in Inode : Walk(Inserted(d.block[b], name, "dir", i), UsedModes(d) \cup {<<i, "dir">>}),
         NEW harm, add_directory(d, b, name, dir, harm)
  PROVE  damage' = "full" \/ Passable(disk')
<1> DEFINE ino  == find_invalid_indode_index(d)
           free == find_free_block_index(d)
           c == Inserted(d.block[b], name, "dir", ino)
           e == Write(d, b, c)
           f == AddDirectory(d, b, name, dir, ino, free)
           m == UsedModes(d) \cup {<<ino, "dir">>}
<1>1. damage' = "full" \/ (ino # -1 /\ free # -1 /\ disk' = f)
  BY DEF add_directory, Leaves
<1>2. ASSUME ino # -1, free # -1 PROVE Passable(f)
  <2>1. ino \in Inode \ d.ibm /\ free \in Block /\ dir \in Inode /\ dir \in d.ibm
    BY <1>2, FreeInode, FreeBlock, Fields DEF Dirs
  <2> HIDE DEF ino, free
  <2>2. AddedTo(e, f, dir, ino, free) /\ ino \in Inode \ {dir}
    BY <2>1, AddDirectoryFields
  <2>3. d.block[b] \in [Cell -> EntryType] /\ ino \in Inode \cup {-1} /\ "dir" \in {"reg", "dir", "lnk"}
    BY <2>1, Fields
  <2>4. c \in [Cell -> EntryType]
    BY <2>3, AddedTyped
  <2>5. Walk(c, m)
    BY <2>1
  <2> HIDE DEF c
  <2>6. Rewritten(d, e, b, c)
    BY <2>4, Written
  <2> HIDE DEF e, f
  <2>7. PassableBut(e, 0, m)
    <3>1. PassableBut(d, b, m)
      BY PassMore
    <3> HIDE DEF m
    <3> QED
      BY <2>5, <2>6, <3>1, PassWritten
  <2>8. PassableBut(e, free, m)
    <3> HIDE DEF m
    <3> QED
      BY <2>7, PassBut
  <2>9. Used(f.inode[ino]) = {0} /\ f.inode[ino].i_block[0] = free
    <3>1. Count(f.inode[ino]) = 1
      BY <2>2 DEF AddedTo, Count
    <3> QED
      BY <2>2, <3>1, UsedSlots DEF AddedTo
  <2>10. \A i \in Inode \ {ino} : /\ f.inode[i].i_mode = e.inode[i].i_mode
                                  /\ Used(f.inode[i]) = Used(e.inode[i])
                                  /\ f.inode[i].i_block = e.inode[i].i_block
    BY <2>2 DEF AddedTo, Used, Count
  <2>11. PassableBut(f, free, m)
    <3> HIDE DEF m
    <3> SUFFICES ASSUME NEW i \in Inode, f.inode[i].i_mode = "dir", NEW s \in Used(f.inode[i])
                 PROVE  /\ f.inode[i].i_block[s] \in Block
                        /\ f.inode[i].i_block[s] # free => Walk(f.block[f.inode[i].i_block[s]], m)
      BY DEF PassableBut
    <3>1. CASE i = ino
      BY <2>1, <2>9, <3>1
    <3>2. CASE i # ino
      <4>1. /\ e.inode[i].i_block[s] \in Block
            /\ e.inode[i].i_block[s] # free => Walk(e.block[e.inode[i].i_block[s]], m)
        BY <2>8, <2>10, <3>2 DEF PassableBut
      <4> QED
        BY <2>2, <2>10, <3>2, <4>1 DEF AddedTo
    <3> QED
      BY <3>1, <3>2
  <2>12. Walk(f.block[free], m)
    <3>1. <<dir, "dir">> \in m /\ <<ino, "dir">> \in m
      BY <2>1 DEF UsedModes, Dirs
    <3> HIDE DEF m
    <3> QED
      BY <2>1, <2>2, <3>1, NewDirectoryWalk DEF AddedTo
  <2>13. PassableBut(f, 0, m)
    <3> HIDE DEF m
    <3> QED
      BY <2>1, <2>11, <2>12 DEF PassableBut
  <2>14. m \subseteq Modes(f)
    <3>1. \A i \in d.ibm : i \in Inode /\ i # ino /\ f.inode[i].i_mode = d.inode[i].i_mode
      <4>1. e.inode = d.inode /\ d.ibm \subseteq Inode
        BY <2>6, Fields DEF Rewritten
      <4> QED
        BY <2>1, <2>2, <4>1 DEF AddedTo
    <3>2. f.inode[ino].i_mode = "dir"
      BY <2>2 DEF AddedTo
    <3> QED
      BY <2>1, <3>1, <3>2 DEF UsedModes, Modes
  <2> HIDE DEF m
  <2> QED
    BY <2>13, <2>14, PassMore DEF Passable
<1> HIDE DEF f
<1> QED
  BY <1>1, <1>2

\* cp in block b of a directory.
LEMMA AddFilePass ==
  ASSUME NEW d \in Image, NEW b \in Block, PassableBut(d, b, UsedModes(d)), NEW name \in Name,
         NEW over \in BOOLEAN,
         \A i \in Inode : Walk(Added(d.block[b], over, name, "reg", i), UsedModes(d) \cup {<<i, "reg">>}),
         NEW size \in Size, NEW harm, add_file(d, b, name, over, size, harm)
  PROVE  damage' = "full" \/ Passable(disk')
<1> DEFINE ino == find_invalid_indode_index(d)
           c == Added(d.block[b], over, name, "reg", ino)
           e == Write(d, b, c)
           m == UsedModes(d) \cup {<<ino, "reg">>}
<1>1. ino = -1 \/ ino \in Inode \ d.ibm
  BY FreeInode
<1>2. (ino = -1 /\ damage' = "full") \/ (ino # -1 /\ CopyBlocks(e, ino, size, harm))
  BY DEF add_file, Leaves
<1>3. ASSUME ino \in Inode \ d.ibm, CopyBlocks(e, ino, size, harm), damage' # "full"
      PROVE  Passable(disk')
  <2> HIDE DEF ino
  <2>1. d.block[b] \in [Cell -> EntryType] /\ ino \in Inode \cup {-1} /\ "reg" \in {"reg", "dir", "lnk"}
    BY <1>3, Fields
  <2>2. c \in [Cell -> EntryType]
    BY <2>1, AddedTyped
  <2>3. Walk(c, m)
    BY <1>3
  <2> HIDE DEF c
  <2>4. Rewritten(d, e, b, c)
    BY <2>2, Written
  <2> HIDE DEF e
  <2>5. PassableBut(e, 0, m) /\ e \in Image
    <3>1. e \in Image
      BY <2>4 DEF Rewritten
    <3>2. PassableBut(d, b, m)
      BY PassMore
    <3> HIDE DEF m
    <3> QED
      BY <2>3, <2>4, <3>1, <3>2, PassWritten
  <2>6. Copied(e, disk', ino, size)
    BY <1>3, <2>5, CopyBlocksFields
  <2>7. /\ disk'.block = e.block
        /\ \A i \in Inode : disk'.inode[i].i_mode = "dir" => disk'.inode[i] = e.inode[i]
        /\ disk'.inode[ino].i_mode = "reg" /\ \A i \in Inode \ {ino} : disk'.inode[i] = e.inode[i]
    BY <2>6 DEF Copied, NewFields
  <2>8. PassableBut(disk', 0, m)
    <3> HIDE DEF m
    <3> QED
      BY <2>5, <2>7, PassSame
  <2>9. m \subseteq Modes(disk')
    <3>1. e.inode = d.inode /\ d.ibm \subseteq Inode
      BY <2>4, Fields DEF Rewritten
    <3> DEFINE f == disk'
    <3>2. \A i \in d.ibm : i \in Inode /\ i # ino /\ f.inode[i].i_mode = d.inode[i].i_mode
      BY <1>3, <2>7, <3>1
    <3>3. f.inode[ino].i_mode = "reg"
      BY <2>7
    <3> HIDE DEF f
    <3>4. m \subseteq Modes(f)
      BY <1>3, <3>2, <3>3 DEF UsedModes, Modes
    <3> QED
      BY <3>4 DEF f
  <2> HIDE DEF m
  <2> QED
    BY <2>8, <2>9, PassMore DEF Passable
<1> HIDE DEF ino, e
<1> QED
  BY <1>1, <1>2, <1>3

\* ln in block b of a directory.
LEMMA HardlinkPass ==
  ASSUME NEW d \in Image, NEW b \in Block, PassableBut(d, b, UsedModes(d)), NEW over \in BOOLEAN,
         NEW name \in Name, NEW ino \in Inode \cup {0}, ino # 0 => <<ino, "reg">> \in UsedModes(d),
         \A i \in Inode, type \in {"reg", "lnk"} :
           Walk(Added(d.block[b], over, name, type, i), UsedModes(d) \cup {<<i, type>>}),
         NEW harm, add_hardlink(d, b, over, name, ino, harm)
  PROVE  damage' = "full" \/ Passable(disk')
<1> DEFINE new == find_invalid_indode_index(d)
           free == find_free_block_index(d)
           e(type, i) == Write(d, b, Added(d.block[b], over, name, type, i))
           m(type, i) == UsedModes(d) \cup {<<i, type>>}
<1>1. new = -1 \/ new \in Inode \ d.ibm
  BY FreeInode
<1>2. d.block[b] \in [Cell -> EntryType]
  BY Fields
<1>3. ASSUME NEW type \in {"reg", "lnk"}, NEW i \in Inode
      PROVE  /\ PassableBut(e(type, i), 0, m(type, i)) /\ e(type, i) \in Image
             /\ e(type, i).inode = d.inode
  <2> DEFINE c == Added(d.block[b], over, name, type, i)
             g == Write(d, b, c)
  <2>1. i \in Inode \cup {-1} /\ type \in {"reg", "dir", "lnk"}
    OBVIOUS
  <2>2. c \in [Cell -> EntryType]
    BY <1>2, <2>1, AddedTyped
  <2>3. Walk(c, m(type, i)) /\ PassableBut(d, b, m(type, i))
    BY PassMore
  <2> HIDE DEF c, m
  <2>4. Rewritten(d, g, b, c)
    BY <2>2, Written
  <2> HIDE DEF g
  <2>5. PassableBut(g, 0, m(type, i))
    BY <2>3, <2>4, PassWritten
  <2>6. g \in Image /\ g.inode = d.inode
    BY <2>4 DEF Rewritten
  <2> QED
    BY <2>5, <2>6 DEF g, c
<1>4. CASE ino # 0 /\ disk' = Linked(e("reg", ino), ino)
  <2> DEFINE g == e("reg", ino)
             f == Linked(g, ino)
  <2>1. ino \in Inode
    BY <1>4
  <2>2. PassableBut(g, 0, UsedModes(d)) /\ g \in Image /\ g.inode = d.inode
    <3>1. m("reg", ino) = UsedModes(d)
      BY <1>4
    <3> HIDE DEF m
    <3> QED
      BY <1>3, <2>1, <3>1
  <2>3. disk' = f
    BY <1>4
  <2> HIDE DEF g, e
  <2>4. /\ NewFields(g, f, ino, f.inode[ino], g.bbm, g.ibm)
        /\ f.inode[ino].i_mode = g.inode[ino].i_mode
        /\ f.inode[ino].i_blocks = g.inode[ino].i_blocks
        /\ f.inode[ino].i_block = g.inode[ino].i_block
    BY <2>1, <2>2, LinkedFields
  <2> HIDE DEF f
  <2>5. PassableBut(f, 0, UsedModes(d))
    BY <2>2, <2>4, PassSame DEF NewFields
  <2>6. UsedModes(d) \subseteq Modes(f)
    <3>1. \A i \in d.ibm : i \in Inode /\ f.inode[i].i_mode = d.inode[i].i_mode
      BY <2>2, <2>4, Fields DEF NewFields
    <3> QED
      BY <3>1 DEF UsedModes, Modes
  <2> QED
    BY <2>3, <2>5, <2>6, PassMore DEF Passable
<1>5. CASE new # -1 /\ disk' = Symlinked(e("lnk", new), new)
  <2> DEFINE g == e("lnk", new)
             f == Symlinked(g, new)
             n == m("lnk", new)
  <2>1. new \in Inode \ d.ibm
    BY <1>1, <1>5
  <2>2. PassableBut(g, 0, n) /\ g \in Image /\ g.inode = d.inode
    <3> HIDE DEF new, e, m
    <3> QED
      BY <1>3, <2>1
  <2>3. disk' = f
    BY <1>5
  <2> HIDE DEF g, e, new
  <2>4. /\ \E bb, ib : NewFields(g, f, new, f.inode[new], bb, ib)
        /\ f.inode[new].i_mode = "lnk"
    BY <2>1, <2>2, SymlinkedFields
  <2> HIDE DEF f
  <2>5. PassableBut(f, 0, n)
    <3> HIDE DEF n, m
    <3> QED
      BY <2>2, <2>4, PassSame DEF NewFields
  <2>6. n \subseteq Modes(f)
    <3>1. \A i \in d.ibm : i \in Inode /\ f.inode[i].i_mode = d.inode[i].i_mode
      BY <2>1, <2>2, <2>4, Fields DEF NewFields
    <3> QED
      BY <2>1, <2>4, <3>1 DEF UsedModes, Modes
  <2> HIDE DEF n, m
  <2> QED
    BY <2>3, <2>5, <2>6, PassMore DEF Passable
<1> QED
  BY <1>4, <1>5 DEF add_hardlink, Leaves

\* A directory with one more block, b, in the slot after those it uses.
LEMMA GrownPass ==
  ASSUME NEW d \in Image, Good(d), NEW dir \in Dirs(d), NEW i, i = BlockCount(d, dir),
         find_free_block_index(d) # -1
  PROVE  LET g == Grown(d, dir, i)
             b == find_free_block_index(d)
         IN  /\ g \in Image /\ b \in Block /\ dir \in Dirs(g) /\ i \in Slot
             /\ PassableBut(g, b, UsedModes(g)) /\ g.block[b] = Zeros
<1> DEFINE g == Grown(d, dir, i)
           b == find_free_block_index(d)
<1>1. Own(d) /\ NothingElse(d)
  BY SoundParts DEF Good
<1>2. b \in Block \ d.bbm
  BY FreeBlock
<1>3. /\ dir \in Inode /\ dir \in d.ibm /\ Count(d.inode[dir]) \in {1, 2}
      /\ d.inode[dir].i_blocks = 2 * Count(d.inode[dir])
      /\ Used(d.inode[dir]) = 0 .. Count(d.inode[dir]) - 1
  BY <1>1, DirectoryBlocks
<1>4. i = Count(d.inode[dir]) /\ i \in Slot
  BY <1>3, Slots DEF BlockCount, Count
<1>5. GrownTo(d, g, dir, i, b)
  BY <1>3, <1>4, GrownFields
<1> HIDE DEF g, b
<1>6. Count(g.inode[dir]) = i + 1
  <2> DEFINE m == d.inode[dir].i_blocks
             n == g.inode[dir].i_blocks
  <2>1. n = m + 2 /\ m = 2 * i /\ i \in {1, 2}
    BY <1>3, <1>4, <1>5 DEF GrownTo
  <2> HIDE DEF m, n
  <2>2. n \div 2 = i + 1
    BY <2>1
  <2> QED
    BY <2>2 DEF Count, n
<1>7. \A s \in Slot : s \in Nat
  BY Slots
<1>8. \A s \in Used(g.inode[dir]) : s = i \/ (s # i /\ s \in Used(d.inode[dir]))
  BY <1>3, <1>4, <1>6, <1>7 DEF Used
<1>9. PassableBut(d, b, UsedModes(d))
  BY GoodPassable, PassBut
<1>10. d.inode[dir].i_block \in [Slot -> {-1, 0} \cup Block]
  BY <1>3, Fields, InodeFields
<1>11. PassableBut(g, b, UsedModes(d))
  <2>1. \A a \in Block \ {b} : g.block[a] = d.block[a]
    BY <1>5 DEF GrownTo
  <2>2. \A s \in Slot : g.inode[dir].i_block[s] = IF s = i THEN b ELSE d.inode[dir].i_block[s]
    BY <1>4, <1>5, <1>10 DEF GrownTo
  <2>3. \A s \in Used(g.inode[dir]) :
          \/ s \in Used(d.inode[dir]) /\ d.inode[dir].i_block[s] = g.inode[dir].i_block[s]
          \/ g.inode[dir].i_block[s] = b /\ b \in Block
    BY <1>2, <1>8, <2>2 DEF Used
  <2>4. \A j \in Inode \ {dir} : g.inode[j] = d.inode[j]
    BY <1>5 DEF GrownTo
  <2>5. g.inode[dir].i_mode = d.inode[dir].i_mode
    BY <1>5 DEF GrownTo
  <2> QED
    BY <1>9, <2>1, <2>3, <2>4, <2>5, PassKept
<1>12. g.block[b] = Zeros
  <2>1. \A j \in Dirs(d) : BlocksOf(d.inode[j]) \subseteq d.bbm
    BY <1>1 DEF Own, Dirs
  <2>2. d.block[b] = Zeros
    BY <1>1, <1>2, <2>1 DEF NothingElse
  <2> QED
    BY <1>5, <2>2 DEF GrownTo
<1>13. g \in Image /\ dir \in Dirs(g) /\ UsedModes(g) = UsedModes(d)
  <2>1. \A j \in Inode : g.inode[j].i_mode = d.inode[j].i_mode
    BY <1>5 DEF GrownTo
  <2>2. g \in Image /\ g.ibm = d.ibm /\ d.ibm \subseteq Inode
    BY <1>5, Fields DEF GrownTo
  <2>3. UsedModes(g) = UsedModes(d)
    BY <2>1, <2>2 DEF UsedModes
  <2> QED
    BY <2>1, <2>2, <2>3 DEF Dirs
<1> QED
  BY <1>2, <1>4, <1>11, <1>12, <1>13 DEF g, b

\* What a tool leaves that does not lack an inode or a block.
Passes == damage' = "full" \/ Passable(disk')

\* A block in use, and what tools make of it.
LEMMA BlockPass ==
  ASSUME NEW d \in Image, Good(d), NEW dir \in Dirs(d), NEW s \in Used(d.inode[dir])
  PROVE  LET b == d.inode[dir].i_block[s]
             m(ino, type) == UsedModes(d) \cup {<<ino, type>>}
         IN  /\ b \in Block /\ Content(d, dir, s) = d.block[b] /\ PassableBut(d, b, UsedModes(d))
             /\ \A name \in Name, type \in {"reg", "dir", "lnk"}, ino \in Inode :
                  /\ new_directory_fits(d.block[b])
                       => Walk(Inserted(d.block[b], name, type, ino), m(ino, type))
                  /\ s = 0 => Walk(OverDotDot(d.block[b], name, type, ino), m(ino, type))
<1> DEFINE b == d.inode[dir].i_block[s]
           c == d.block[b]
           m(ino, type) == UsedModes(d) \cup {<<ino, type>>}
<1>1. b \in Block /\ dir \in Inode /\ d.inode[dir].i_mode = "dir"
  BY SoundParts, DirectoryBlocks DEF Good, Dirs
<1>2. Content(d, dir, s) = c /\ c \in [Cell -> EntryType]
  BY <1>1, Fields DEF Content
<1>3. PassableBut(d, 0, UsedModes(d)) /\ PassableBut(d, b, UsedModes(d))
  BY GoodPassable, PassBut
<1>4. Walk(c, UsedModes(d))
  <2>1. 0 \notin Block
    BY Numbers
  <2> QED
    BY <1>1, <1>3, <2>1 DEF PassableBut
<1> HIDE DEF b, c
<1>5. <<c[0].inode, c[0].file_type>> \in UsedModes(d)
  BY <1>4 DEF Walk, Chain
<1>6. ASSUME NEW name \in Name, NEW type \in {"reg", "dir", "lnk"}, NEW ino \in Inode
      PROVE  /\ new_directory_fits(c) => Walk(Inserted(c, name, type, ino), m(ino, type))
             /\ Walk(OverDotDot(c, name, type, ino), m(ino, type))
  <2>1. /\ Walk(c, m(ino, type)) /\ <<ino, type>> \in m(ino, type)
        /\ <<c[0].inode, c[0].file_type>> \in m(ino, type)
    BY <1>4, <1>5, WalkMore
  <2> HIDE DEF m
  <2> QED
    BY <1>2, <2>1, AddedWalk
<1> QED
  BY <1>1, <1>2, <1>3, <1>6, Zenon DEF b, c

LEMMA MkdirPass ==
  ASSUME disk \in Image, Good(disk), NEW path \in Path, ext2_mkdir(path)
  PROVE  Passes
<1>1. Sound(disk, PlacesOf(disk)) /\ Own(disk) /\ Laid(disk, PlacesOf(disk))
  BY SoundParts DEF Good
<1>2. FirstBlocksLead(disk, path) \in Dirs(disk) \cup {0} /\ Last(path) \in Name
  BY <1>1, FirstBlocks, Paths
<1>3. PICK dir \in {FirstBlocksLead(disk, path)} \ {0} : mk_dir(dir, Content(disk, dir, 0), Last(path))
  BY DEF ext2_mkdir
<1> DEFINE name == Last(path)
           c == Content(disk, dir, 0)
           b == find_free_block_index(disk)
           k == disk.inode[dir].i_block[0]
           harm == IF Has(disk, dir, name) THEN "exists" ELSE "none"
           g == Grown(disk, dir, 1)
<1>4. dir \in Dirs(disk) /\ name \in Name /\ dir \in disk.ibm /\ 0 \in Used(disk.inode[dir])
  BY <1>1, <1>2, <1>3, DirectoryBlocks DEF Dirs
<1>5. /\ k \in Block /\ c = disk.block[k] /\ PassableBut(disk, k, UsedModes(disk))
      /\ new_directory_fits(c) =>
           \A i \in Inode : Walk(Inserted(disk.block[k], name, "dir", i),
                                 UsedModes(disk) \cup {<<i, "dir">>})
  BY <1>4, BlockPass, ZenonT(30)
<1>6. \/ new_directory_fits(c) /\ add_directory(disk, k, name, dir, harm)
      \/ damage' = "full"
      \/ /\ BlockCount(disk, dir) = 1 /\ b # -1
         /\ add_directory(g, b, name, dir, GrownHarm(disk, dir, harm))
  BY <1>3 DEF mk_dir, Leaves
<1> HIDE DEF name, harm, c, k
<1>7. CASE new_directory_fits(c) /\ add_directory(disk, k, name, dir, harm)
  BY <1>4, <1>5, <1>7, AddDirectoryPass DEF Passes
<1>8. CASE /\ BlockCount(disk, dir) = 1 /\ b # -1
           /\ add_directory(g, b, name, dir, GrownHarm(disk, dir, harm))
  <2>1. /\ g \in Image /\ b \in Block /\ dir \in Dirs(g) /\ PassableBut(g, b, UsedModes(g))
        /\ g.block[b] = Zeros
    BY <1>4, <1>8, GrownPass
  <2> HIDE DEF g, b
  <2>2. \A i \in Inode : Walk(Inserted(g.block[b], name, "dir", i), UsedModes(g) \cup {<<i, "dir">>})
    BY <1>4, <2>1, AddedWalk, ZerosTyped
  <2> QED
    BY <1>4, <1>8, <2>1, <2>2, AddDirectoryPass DEF Passes
<1> QED
  BY <1>6, <1>7, <1>8 DEF Passes

LEMMA CpPass ==
  ASSUME disk \in Image, Good(disk), NEW path \in Path, NEW size \in Size, ext2_cp(path, size)
  PROVE  Passes
<1> DEFINE slots == [dir \in Inode |-> 0 .. BlockCount(disk, dir) - 1]
           at == Reached(disk, path, slots)
           dir == at.dir
           name == path[at.k]
           open == OpenBlocks(disk, dir, name)
           i == Min(open)
           b == find_free_block_index(disk)
           harm == IF Has(disk, dir, name) THEN "exists" ELSE "none"
           g == Grown(disk, dir, i + 1)
           more == GrownHarm(disk, dir, harm)
           k(s) == disk.inode[dir].i_block[s]
<1>1. Sound(disk, PlacesOf(disk)) /\ Own(disk) /\ Laid(disk, PlacesOf(disk))
  BY SoundParts DEF Good
<1>2. \A a \in Dirs(disk) : LooksIn(disk, a, slots[a])
  BY <1>1, SlotsToLookIn, SoundParts DEF Dirs
<1>3. dir \in Dirs(disk) /\ at.k \in 1 .. Len(path)
  BY <1>1, <1>2, LookedUp
<1>4. name \in Name /\ dir \in Inode
  BY <1>1, <1>3, Paths, Fields DEF Dirs
<1>5. open = {j \in slots[dir] : Named(Content(disk, dir, j), name) = {}}
  BY <1>4 DEF OpenBlocks
<1>6. \/ /\ open # {} /\ new_directory_fits(Content(disk, dir, i))
         /\ add_file(disk, k(i), name, FALSE, size, harm)
      \/ damage' = "full"
      \/ /\ i + 1 = BlockCount(disk, dir) /\ b # -1
         /\ add_file(g, b, name, FALSE, size, more)
      \/ add_file(disk, k(0), name, TRUE, size, "exists")
  <2> HIDE DEF at
  <2> QED
    BY <1>5, ZenonT(30) DEF ext2_cp, cp_new, Leaves, at
<1> HIDE DEF at, name, harm, g
<1>7. Used(disk.inode[dir]) = 0 .. BlockCount(disk, dir) - 1 /\ 0 \in Used(disk.inode[dir])
  BY <1>1, <1>3, DirectoryBlocks DEF BlockCount, Count
<1>8. open \subseteq Nat /\ open \subseteq Used(disk.inode[dir])
  BY <1>7 DEF OpenBlocks
<1> HIDE DEF open
<1>9. open # {} => i \in Used(disk.inode[dir])
  BY <1>8, MinIsLeast
<1> HIDE DEF i, dir, more
<1>10. CASE /\ open # {} /\ new_directory_fits(Content(disk, dir, i))
            /\ add_file(disk, k(i), name, FALSE, size, harm)
  <2>1. /\ k(i) \in Block /\ PassableBut(disk, k(i), UsedModes(disk))
        /\ \A j \in Inode : Walk(Added(disk.block[k(i)], FALSE, name, "reg", j),
                                 UsedModes(disk) \cup {<<j, "reg">>})
    BY <1>3, <1>4, <1>9, <1>10, BlockPass, ZenonT(30) DEF Added
  <2> HIDE DEF k
  <2>2. FALSE \in BOOLEAN
    OBVIOUS
  <2> QED
    BY <1>4, <1>10, <2>1, <2>2, AddFilePass DEF Passes
<1>11. CASE add_file(disk, k(0), name, TRUE, size, "exists")
  <2>1. /\ k(0) \in Block /\ PassableBut(disk, k(0), UsedModes(disk))
        /\ \A j \in Inode : Walk(Added(disk.block[k(0)], TRUE, name, "reg", j),
                                 UsedModes(disk) \cup {<<j, "reg">>})
    BY <1>3, <1>4, <1>7, BlockPass, ZenonT(30) DEF Added
  <2> HIDE DEF k
  <2>2. TRUE \in BOOLEAN
    OBVIOUS
  <2> QED
    BY <1>4, <1>11, <2>1, <2>2, AddFilePass DEF Passes
<1>12. CASE /\ i + 1 = BlockCount(disk, dir) /\ b # -1
            /\ add_file(g, b, name, FALSE, size, more)
  <2>1. g \in Image /\ b \in Block /\ PassableBut(g, b, UsedModes(g)) /\ g.block[b] = Zeros
    BY <1>3, <1>12, GrownPass DEF g
  <2> HIDE DEF b
  <2>2. \A j \in Inode : Walk(Added(g.block[b], FALSE, name, "reg", j), UsedModes(g) \cup {<<j, "reg">>})
    BY <1>4, <2>1, AddedWalk, ZerosTyped DEF Added
  <2>3. FALSE \in BOOLEAN
    OBVIOUS
  <2> QED
    BY <1>4, <1>12, <2>1, <2>2, <2>3, AddFilePass DEF Passes
<1> QED
  BY <1>6, <1>10, <1>11, <1>12 DEF Passes

\* ln enlarges a directory of one block by the half of one: the count of its
\* blocks is as before, and so is the first of them.
WithHalf(d, e, b) ==
  /\ e \in Image /\ PassableBut(e, b, UsedModes(e)) /\ e.block[b] = Zeros
  /\ UsedModes(e) = UsedModes(d)

LEMMA HalfGrownPass ==
  ASSUME NEW d \in Image, Good(d), NEW dir \in Dirs(d), NEW name \in Name, NEW b \in Block,
         OpenFor(d, dir, name) = {}
  PROVE  LET g == [d EXCEPT !.inode[dir].i_blocks = @ + 1,
                            !.inode[dir].i_block[2] = d.inode[dir].i_block[1],
                            !.inode[dir].i_block[1] = b]
             e == Write([g EXCEPT !.bbm = @ \cup {b}], b, Zeros)
         IN  WithHalf(d, e, b)
<1> DEFINE n  == d.inode[dir].i_blocks + 1
           m  == d.inode[dir].i_block[1]
           d1 == [d EXCEPT !.inode[dir].i_blocks = n]
           d2 == [d1 EXCEPT !.inode[dir].i_block[2] = m]
           g  == [d2 EXCEPT !.inode[dir].i_block[1] = b]
           e  == Write([g EXCEPT !.bbm = @ \cup {b}], b, Zeros)
<1>1. Own(d) /\ dir \in Inode
  BY SoundParts, Fields DEF Good, Dirs
<1>2. /\ Count(d.inode[dir]) \in {1, 2} /\ d.inode[dir].i_blocks = 2 * Count(d.inode[dir])
      /\ Count(d.inode[dir]) = 2 => d.inode[dir].i_block[2] = 0
  BY <1>1, DirectoryBlocks
<1>3. Count(d.inode[dir]) = 1
  <2> SUFFICES ASSUME Count(d.inode[dir]) = 2 PROVE FALSE
    BY <1>2
  <2>1. Content(d, dir, 2) = Zeros
    BY <1>2, Numbers DEF Content
  <2>2. 2 \in SlotsLookedAt(d, dir)
    BY <1>2, Slots DEF SlotsLookedAt
  <2>3. RoomIn(Zeros, name)
    BY NoNameInZeros, ZerosTyped DEF RoomIn
  <2>4. 2 \in OpenFor(d, dir, name)
    BY <2>1, <2>2, <2>3 DEF OpenFor
  <2> QED
    BY <2>4
<1>4. n = 3
  BY <1>2, <1>3
<1>5. d.inode[dir] \in InodeType
  BY <1>1, Fields
<1>7. n \in Nat /\ m \in Block \cup {-1, 0} /\ 1 \in Slot /\ 2 \in Slot
  BY <1>4, <1>5, InodeFields, Slots
<1> HIDE DEF n, m
<1>8. /\ d1 \in Image /\ d1.block = d.block /\ d1.ibm = d.ibm
      /\ d1.inode[dir] = [d.inode[dir] EXCEPT !.i_blocks = n]
      /\ \A j \in Inode \ {dir} : d1.inode[j] = d.inode[j]
  <2>1. d1 \in Image
    BY <1>1, <1>7, SectorsWritten
  <2>2. /\ d1.block = d.block /\ d1.ibm = d.ibm
        /\ d1.inode = [d.inode EXCEPT ![dir] = [d.inode[dir] EXCEPT !.i_blocks = n]]
    BY DEF Image
  <2> QED
    BY <1>1, <2>1, <2>2, Fields
<1> HIDE DEF d1
<1>9. /\ d2 \in Image /\ d2.block = d1.block /\ d2.ibm = d1.ibm
      /\ d2.inode[dir] = [d1.inode[dir] EXCEPT !.i_block[2] = m]
      /\ \A j \in Inode \ {dir} : d2.inode[j] = d1.inode[j]
  <2>1. d2 \in Image
    BY <1>1, <1>7, <1>8, SlotWritten
  <2>2. /\ d2.block = d1.block /\ d2.ibm = d1.ibm
        /\ d2.inode = [d1.inode EXCEPT ![dir] = [d1.inode[dir] EXCEPT !.i_block[2] = m]]
    BY <1>8 DEF Image
  <2> QED
    BY <1>1, <1>8, <2>1, <2>2, Fields
<1> HIDE DEF d2
<1>10. /\ g.block = d2.block /\ g.ibm = d2.ibm
       /\ g.inode[dir] = [d2.inode[dir] EXCEPT !.i_block[1] = b]
       /\ \A j \in Inode \ {dir} : g.inode[j] = d2.inode[j]
  <2>1. /\ g.block = d2.block /\ g.ibm = d2.ibm
        /\ g.inode = [d2.inode EXCEPT ![dir] = [d2.inode[dir] EXCEPT !.i_block[1] = b]]
    BY <1>9 DEF Image
  <2> QED
    BY <1>1, <1>9, <2>1, Fields
<1>11. e.inode = g.inode /\ e.ibm = g.ibm /\ e.block = [g.block EXCEPT ![b] = Zeros]
  <2>1. g \in Image
    BY <1>1, <1>7, <1>9, SlotWritten
  <2> HIDE DEF g
  <2> QED
    BY <2>1 DEF Write, Image
<1> HIDE DEF e, g
<1>12. /\ \A j \in Inode \ {dir} : e.inode[j] = d.inode[j]
       /\ e.block[b] = Zeros /\ \A a \in Block \ {b} : e.block[a] = d.block[a]
  BY <1>8, <1>9, <1>10, <1>11, Fields
<1>13. /\ e.inode[dir].i_blocks = 3 /\ e.inode[dir].i_block[0] = d.inode[dir].i_block[0]
       /\ e.inode[dir].i_mode = d.inode[dir].i_mode
  <2>1. /\ d1.inode[dir].i_blocks = 3 /\ d1.inode[dir].i_block = d.inode[dir].i_block
        /\ d1.inode[dir].i_mode = d.inode[dir].i_mode
    BY <1>4, <1>5, <1>8 DEF InodeType
  <2>2. d1.inode[dir] \in InodeType /\ d2.inode[dir] \in InodeType
    BY <1>1, <1>8, <1>9, Fields
  <2>3. /\ d2.inode[dir].i_blocks = 3 /\ d2.inode[dir].i_block[0] = d.inode[dir].i_block[0]
        /\ d2.inode[dir].i_mode = d.inode[dir].i_mode
    BY <1>9, <2>1, <2>2, Slots DEF InodeType
  <2>4. /\ g.inode[dir].i_blocks = 3 /\ g.inode[dir].i_block[0] = d.inode[dir].i_block[0]
        /\ g.inode[dir].i_mode = d.inode[dir].i_mode
    BY <1>10, <2>2, <2>3, Slots DEF InodeType
  <2> QED
    BY <1>11, <2>4
<1>14. Used(e.inode[dir]) = {0} /\ Used(d.inode[dir]) = {0}
  <2>1. Count(e.inode[dir]) = 1
    BY <1>13 DEF Count
  <2> QED
    BY <1>3, <2>1, UsedSlots
<1>15. PassableBut(d, b, UsedModes(d))
  BY GoodPassable, PassBut
<1>16. d.inode[dir].i_mode = "dir"
  BY DEF Dirs
<1>17. \A i \in Inode : e.inode[i].i_mode = "dir" =>
         /\ d.inode[i].i_mode = "dir"
         /\ \A s \in Used(e.inode[i]) :
              s \in Used(d.inode[i]) /\ d.inode[i].i_block[s] = e.inode[i].i_block[s]
  BY <1>12, <1>13, <1>14, <1>16
<1>18. PassableBut(e, b, UsedModes(d))
  BY <1>12, <1>15, <1>17, PassKept
<1>19. e \in Image
  BY <1>1, HalfGrown, Zenon DEF e, g, d2, d1, n, m
<1>20. UsedModes(e) = UsedModes(d)
  <2>1. e.ibm = d.ibm /\ d.ibm \subseteq Inode
    BY <1>8, <1>9, <1>10, <1>11, Fields
  <2>2. \A i \in Inode : e.inode[i].i_mode = d.inode[i].i_mode
    BY <1>12, <1>13
  <2> QED
    BY <2>1, <2>2 DEF UsedModes
<1> QED
  <2>1. WithHalf(d, e, b)
    BY <1>12, <1>18, <1>19, <1>20 DEF WithHalf
  <2> QED
    BY <2>1, Zenon DEF e, g, d2, d1, n, m

LEMMA LnPass ==
  ASSUME disk \in Image, Good(disk), NEW path \in Path, NEW ino \in Inode \cup {0}, Linkable(disk, ino),
         mk_dir2(path, ino)
  PROVE  Passes
<1> DEFINE slots == [dir \in Inode |-> SlotsLookedAt(disk, dir)]
           at == Reached(disk, path, slots)
           dir == at.dir
           name == path[at.k]
           open == OpenFor(disk, dir, name)
           i == IF open = {} THEN 0 ELSE Min(open)
           c == Content(disk, dir, i)
           b == find_free_block_index(disk)
           d == [disk EXCEPT !.inode[dir].i_blocks = @ + 1,
                             !.inode[dir].i_block[2] = disk.inode[dir].i_block[1],
                             !.inode[dir].i_block[1] = b]
           e == Write([d EXCEPT !.bbm = @ \cup {b}], b, Zeros)
           harm == IF Has(disk, dir, name) THEN "exists" ELSE "none"
           k(s) == disk.inode[dir].i_block[s]
<1>1. Sound(disk, PlacesOf(disk)) /\ Own(disk) /\ Laid(disk, PlacesOf(disk))
  BY SoundParts DEF Good
<1>2. \A a \in Dirs(disk) : LooksIn(disk, a, slots[a])
  BY <1>1, SlotsToLookIn, SoundParts DEF Dirs
<1>3. dir \in Dirs(disk) /\ at.k \in 1 .. Len(path)
  BY <1>1, <1>2, LookedUp
<1>4. name \in Name /\ dir \in Inode /\ 0 \in Used(disk.inode[dir])
  BY <1>1, <1>3, Paths, Fields, DirectoryBlocks DEF Dirs
<1>5. open = {j \in slots[dir] : /\ Named(Content(disk, dir, j), name) = {}
                                 /\ \/ Stuck(Content(disk, dir, j))
                                    \/ new_directory_fits(Content(disk, dir, j))}
  BY <1>4 DEF OpenFor, RoomIn
<1>6. /\ LooksIn(disk, dir, SlotsLookedAt(disk, dir))
      /\ ino # 0 => <<ino, "reg">> \in UsedModes(disk)
  BY <1>2, <1>3, <1>4 DEF Linkable, UsedModes
<1>7. \/ ln_new(dir, name, ino, open, c)
      \/ add_hardlink(disk, k(0), TRUE, name, ino, "exists")
  <2> HIDE DEF at
  <2> QED
    BY <1>5, ZenonT(30) DEF mk_dir2, at
<1> HIDE DEF at, name, harm, open
<1>8. \/ /\ open # {} /\ ~Stuck(c)
         /\ add_hardlink(disk, k(i), FALSE, name, ino, harm)
      \/ damage' = "full"
      \/ open = {} /\ b # -1 /\ add_hardlink(e, b, FALSE, name, ino, "grown")
      \/ add_hardlink(disk, k(0), TRUE, name, ino, "exists")
  <2> HIDE DEF dir
  <2> QED
    BY <1>7 DEF ln_new, Leaves, harm
<1> HIDE DEF c, i, dir
<1>9. CASE /\ open # {} /\ ~Stuck(c)
           /\ add_hardlink(disk, k(i), FALSE, name, ino, harm)
  <2>1. open \subseteq Nat
    BY <1>6 DEF LooksIn, OpenFor, open
  <2>2. i \in open
    BY <1>9, <2>1, MinIn DEF i
  <2>3. i \in SlotsLookedAt(disk, dir) /\ RoomIn(c, name)
    BY <2>2 DEF open, OpenFor, c
  <2>4. i \in Used(disk.inode[dir]) /\ new_directory_fits(c)
    BY <1>6, <1>9, <2>3, ZerosTyped DEF LooksIn, c, RoomIn
  <2>5. /\ k(i) \in Block /\ PassableBut(disk, k(i), UsedModes(disk)) /\ c = disk.block[k(i)]
        /\ \A j \in Inode, type \in {"reg", "lnk"} :
             Walk(Added(disk.block[k(i)], FALSE, name, type, j), UsedModes(disk) \cup {<<j, type>>})
    BY <1>3, <1>4, <2>4, BlockPass, ZenonT(30) DEF Added, c
  <2> HIDE DEF k
  <2>6. FALSE \in BOOLEAN
    OBVIOUS
  <2> QED
    BY <1>4, <1>6, <1>9, <2>5, <2>6, HardlinkPass DEF Passes
<1>10. CASE add_hardlink(disk, k(0), TRUE, name, ino, "exists")
  <2>1. /\ k(0) \in Block /\ PassableBut(disk, k(0), UsedModes(disk))
        /\ \A j \in Inode, type \in {"reg", "lnk"} :
             Walk(Added(disk.block[k(0)], TRUE, name, type, j), UsedModes(disk) \cup {<<j, type>>})
    BY <1>3, <1>4, BlockPass, ZenonT(30) DEF Added
  <2> HIDE DEF k
  <2>2. TRUE \in BOOLEAN
    OBVIOUS
  <2> QED
    BY <1>4, <1>6, <1>10, <2>1, <2>2, HardlinkPass DEF Passes
<1>11. CASE open = {} /\ b # -1 /\ add_hardlink(e, b, FALSE, name, ino, "grown")
  <2>1. b \in Block
    BY <1>11, FreeBlock
  <2> HIDE DEF b
  <2>2. WithHalf(disk, e, b)
    BY <1>3, <1>4, <1>11, <2>1, HalfGrownPass, ZenonT(30) DEF open
  <2> HIDE DEF e
  <2> USE DEF WithHalf
  <2>3. \A j \in Inode, type \in {"reg", "lnk"} :
          Walk(Added(e.block[b], FALSE, name, type, j), UsedModes(e) \cup {<<j, type>>})
    <3> SUFFICES ASSUME NEW j \in Inode, NEW type \in {"reg", "lnk"}
                 PROVE  Walk(Inserted(Zeros, name, type, j), UsedModes(e) \cup {<<j, type>>})
      BY <2>2 DEF Added
    <3> DEFINE m == UsedModes(e) \cup {<<j, type>>}
    <3>1. <<j, type>> \in m
      OBVIOUS
    <3> HIDE DEF m
    <3>2. Walk(Inserted(Zeros, name, type, j), m)
      BY <1>4, <3>1, AddedWalk, ZerosTyped
    <3> QED
      BY <3>2 DEF m
  <2>4. FALSE \in BOOLEAN
    OBVIOUS
  <2> QED
    BY <1>4, <1>6, <1>11, <2>1, <2>2, <2>3, <2>4, HardlinkPass DEF Passes
<1> QED
  BY <1>8, <1>9, <1>10, <1>11 DEF Passes

\* rm, where it can remove no entry: the inode of the first entry of a block of
\* a directory loses a link, or is freed.
LEMMA RmFirst ==
  ASSUME disk \in Image, Good(disk), NEW path \in Path, ext2_rm(path), damage' = "first"
  PROVE  \E ino \in disk.ibm :
           /\ \E dir \in Dirs(disk) : \E s \in Used(disk.inode[dir]) :
                \E p \in Shown(disk.block[disk.inode[dir].i_block[s]]) :
                  ino = disk.block[disk.inode[dir].i_block[s]][p].inode
           /\ \/ Unlinked(disk, disk', ino)
              \/ Released(disk, disk', ino) /\ disk' = Freed(disk, ino)
                 /\ disk.inode[ino].i_links_count = 1
<1> DEFINE P == PlacesOf(disk)
           v == Victim(disk, path)
           ino == disk.block[v.b][v.p].inode
           type == disk.block[v.b][v.p].file_type
           f == remove_file(disk, v.b, v.p)
<1>1. path_exists(disk, path) \in {"file", "new"} /\ v # NoVictim /\ disk' = f /\ v.p = 0
  BY DEF ext2_rm, Leaves
<1>2. Sound(disk, P) /\ Own(disk) /\ Laid(disk, P)
  BY SoundParts DEF Good
<1> HIDE DEF P
<1>3. PICK dir \in Dirs(disk) : \E s \in Used(disk.inode[dir]) :
           /\ v.b = disk.inode[dir].i_block[s] /\ v.p \in Shown(disk.block[v.b])
  <2> HIDE DEF v
  <2> QED
    BY <1>1, <1>2, Removable DEF v
<1>4. /\ ino \in Inode /\ ino \in disk.ibm /\ type = disk.inode[ino].i_mode
      /\ \E s \in Used(disk.inode[dir]) : \E p \in Shown(disk.block[disk.inode[dir].i_block[s]]) :
           ino = disk.block[disk.inode[dir].i_block[s]][p].inode
  <2> HIDE DEF v
  <2>1. PICK s \in Used(disk.inode[dir]) :
           /\ v.b = disk.inode[dir].i_block[s] /\ v.p \in Shown(disk.block[v.b])
    BY <1>3
  <2>2. /\ <<dir, <<s, v.p>>>> \in P
        /\ Ent(disk, <<dir, <<s, v.p>>>>) = disk.block[v.b][v.p]
    BY <1>2, <2>1, BlockShows, SMTT(30)
  <2>3. ino \in Inode /\ ino \in disk.ibm /\ type = disk.inode[ino].i_mode
    BY <1>2, <2>2, EntryKinds
  <2> QED
    BY <2>1, <2>3
<1> HIDE DEF v
<1>5. disk.inode[ino].i_links_count > 0 /\ disk.inode[ino].i_links_count \in Nat
      /\ (type = "lnk" => disk.inode[ino].i_links_count = 1)
  <2> HIDE DEF ino
  <2>1. disk.inode[ino].i_links_count > 0
    BY <1>2, <1>4, SoundParts, FreeHasNoLinks
  <2>2. disk.inode[ino].i_links_count \in Nat
    BY <1>4, Fields, InodeFields
  <2> QED
    BY <1>2, <1>4, <2>1, <2>2 DEF Own
<1>6. \/ f = [disk EXCEPT !.inode[ino].i_links_count = @ - 1]
      \/ f = Freed(disk, ino) /\ ~(disk.inode[ino].i_links_count > 1 /\ type # "lnk")
  BY <1>1, Zenon DEF remove_file
<1> HIDE DEF ino, type, f
<1>7. ~(disk.inode[ino].i_links_count > 1 /\ type # "lnk") => disk.inode[ino].i_links_count = 1
  <2> DEFINE n == disk.inode[ino].i_links_count
  <2>1. n \in Nat /\ n > 0 /\ (type = "lnk" => n = 1)
    BY <1>5
  <2> HIDE DEF n
  <2>2. ~(n > 1 /\ type # "lnk") => n = 1
    BY <2>1
  <2> QED
    BY <2>2 DEF n
<1>8. \/ Unlinked(disk, f, ino)
      \/ Released(disk, f, ino) /\ f = Freed(disk, ino) /\ disk.inode[ino].i_links_count = 1
  BY <1>4, <1>5, <1>6, <1>7, UnlinkedFields, FreedFields
<1> QED
  BY <1>1, <1>3, <1>4, <1>8

LEMMA RmPass ==
  ASSUME disk \in Image, Good(disk), NEW path \in Path, ext2_rm(path), damage' = "first"
  PROVE  Passable(disk')
<1>1. PICK ino \in disk.ibm : Unlinked(disk, disk', ino) \/ Released(disk, disk', ino)
  BY RmFirst
<1> DEFINE f == disk'
<1> HIDE DEF f
<1>2. /\ f.block = disk.block
      /\ \A i \in Inode : /\ f.inode[i].i_mode = disk.inode[i].i_mode
                          /\ f.inode[i].i_blocks = disk.inode[i].i_blocks
                          /\ f.inode[i].i_block = disk.inode[i].i_block
  BY <1>1 DEF Unlinked, Released, f
<1>3. PassableBut(disk, 0, UsedModes(disk))
  BY GoodPassable
<1>4. PassableBut(f, 0, UsedModes(disk))
  BY <1>2, <1>3, PassSame
<1>5. UsedModes(disk) \subseteq Modes(f)
  BY <1>2, Fields DEF UsedModes, Modes
<1> QED
  BY <1>4, <1>5, PassMore DEF Passable, f

\* A pass changes neither the blocks of an inode nor where an entry leads.
LEMMA CheckedKeeps ==
  ASSUME NEW d \in Image
  PROVE  /\ \A i \in Inode : /\ Checked(d).inode[i].i_mode = d.inode[i].i_mode
                             /\ Checked(d).inode[i].i_blocks = d.inode[i].i_blocks
                             /\ Checked(d).inode[i].i_block = d.inode[i].i_block
         /\ \A b \in Block, p \in Cell :
              /\ Checked(d).block[b][p].rec_len = d.block[b][p].rec_len
              /\ Checked(d).block[b][p].inode = d.block[b][p].inode
              /\ Checked(d).block[b][p].file_type
                   \in {d.block[b][p].file_type, TypeOf(d, d.block[b][p].inode)}
<1> DEFINE first  == FirstVisits(d)
           listed == Listed(d, first)
           e == Checked(d)
           it == [ino \in Inode |-> Undeleted(d, ino, listed)]
           bt == Retyped(d, first)
<1>1. e = Repaired(d, first, listed)
  BY DEF Checked
<1> HIDE DEF first, listed, e
<1>2. e.inode = it /\ e.block = bt
  <2> HIDE DEF it, bt
  <2> QED
    BY <1>1 DEF Repaired, Image, it, bt
<1>3. ASSUME NEW i \in Inode
      PROVE  /\ e.inode[i].i_mode = d.inode[i].i_mode /\ e.inode[i].i_blocks = d.inode[i].i_blocks
             /\ e.inode[i].i_block = d.inode[i].i_block
  <2>1. e.inode[i] = Undeleted(d, i, listed)
    BY <1>2
  <2>2. d.inode[i] \in InodeType
    BY Fields
  <2> QED
    BY <2>1, <2>2 DEF Undeleted, InodeType
<1>4. ASSUME NEW b \in Block, NEW p \in Cell
      PROVE  /\ e.block[b][p].rec_len = d.block[b][p].rec_len
             /\ e.block[b][p].inode = d.block[b][p].inode
             /\ e.block[b][p].file_type \in {d.block[b][p].file_type, TypeOf(d, d.block[b][p].inode)}
  <2> DEFINE r == d.block[b][p]
             t == TypeOf(d, r.inode)
  <2>1. e.block[b][p] = r \/ e.block[b][p] = [r EXCEPT !.file_type = t]
    BY <1>2 DEF Retyped
  <2>2. r \in EntryType
    BY Fields
  <2> HIDE DEF r, t
  <2>3. /\ e.block[b][p].rec_len = r.rec_len /\ e.block[b][p].inode = r.inode
        /\ e.block[b][p].file_type \in {r.file_type, t}
    BY <2>1, <2>2 DEF EntryType
  <2> QED
    BY <2>3 DEF r, t
<1> QED
  BY <1>3, <1>4 DEF e

LEMMA CheckedPass ==
  ASSUME NEW d \in Image, Passable(d)
  PROVE  Passable(Checked(d))
<1> DEFINE e == Checked(d)
<1>1. /\ \A i \in Inode : /\ e.inode[i].i_mode = d.inode[i].i_mode
                          /\ e.inode[i].i_blocks = d.inode[i].i_blocks
                          /\ e.inode[i].i_block = d.inode[i].i_block
      /\ \A b \in Block, p \in Cell : /\ e.block[b][p].rec_len = d.block[b][p].rec_len
                                      /\ e.block[b][p].inode = d.block[b][p].inode
                                      /\ e.block[b][p].file_type
                                           \in {d.block[b][p].file_type, TypeOf(d, d.block[b][p].inode)}
      /\ e \in Image
  BY CheckedKeeps, CheckedTyped, ZenonT(30)
<1> HIDE DEF e
<1>2. ASSUME NEW b \in Block, Walk(d.block[b], Modes(d)) PROVE Walk(e.block[b], Modes(e))
  <2>1. /\ Chain(d.block[b], Shown(d.block[b]))
        /\ \A p \in Shown(d.block[b]) : <<d.block[b][p].inode, d.block[b][p].file_type>> \in Modes(d)
    BY <1>2 DEF Walk
  <2>2. /\ Chain(e.block[b], Shown(d.block[b]))
        /\ \A p \in Shown(d.block[b]) : <<e.block[b][p].inode, e.block[b][p].file_type>> \in Modes(e)
    <3> DEFINE S == Shown(d.block[b])
    <3>1. S \subseteq Cell
      BY <2>1 DEF Chain
    <3> HIDE DEF S
    <3>2. \A p \in S : /\ e.block[b][p].rec_len = d.block[b][p].rec_len
                       /\ e.block[b][p].inode = d.block[b][p].inode
      BY <1>1, <3>1
    <3>3. ASSUME NEW p \in S PROVE <<e.block[b][p].inode, e.block[b][p].file_type>> \in Modes(e)
      <4> DEFINE r == d.block[b][p]
                 i == r.inode
      <4>1. r \in EntryType /\ p \in Cell
        BY <3>1, Fields
      <4>2. i \in Inode /\ r.file_type = d.inode[i].i_mode
        BY <2>1, <3>3 DEF Modes, S
      <4>3. TypeOf(d, i) = r.file_type
        BY <4>1, <4>2 DEF TypeOf, EntryType
      <4>4. e.block[b][p].inode = i /\ e.block[b][p].file_type = r.file_type
        BY <1>1, <4>1, <4>3
      <4> HIDE DEF r, i
      <4> QED
        BY <1>1, <4>2, <4>4 DEF Modes
    <3> QED
      BY <2>1, <3>2, <3>3 DEF Chain, S
  <2>3. e.block[b] \in [Cell -> EntryType]
    BY <1>1, Fields
  <2> QED
    BY <2>2, <2>3, ChainWalk
<1>3. \A i \in Inode : Used(e.inode[i]) = Used(d.inode[i])
  BY <1>1 DEF Used, Count
<1>4. Passable(e)
  BY <1>1, <1>2, <1>3 DEF Passable, PassableBut
<1> QED
  BY <1>4 DEF e

\* What the tools leave, but for a missing inode or block and a wrongly
\* restored entry.
LEMMA StepPass ==
  ASSUME IInv, Next, damage' = "none" => Passable(disk'), damage' \notin {"full", "stale"}
  PROVE  Passable(disk')
<1>1. disk \in Image /\ Good(disk)
  BY DEF Next, IInv
<1>2. CASE damage' = "none"
  BY <1>2
<1>3. PICK path \in Path :
        \/ ext2_mkdir(path)
        \/ \E size \in Size : ext2_cp(path, size)
        \/ \E target \in Path : ext2_ln(target, path)
        \/ ext2_ln_s(path)
        \/ ext2_rm(path)
        \/ ext2_restore(path)
  BY DEF Next
<1>4. CASE ext2_mkdir(path)
  BY <1>1, <1>4, MkdirPass DEF Passes
<1>5. CASE \E size \in Size : ext2_cp(path, size)
  BY <1>1, <1>5, CpPass DEF Passes
<1>6. CASE \E target \in Path : ext2_ln(target, path)
  <2>1. PICK target \in Path : ext2_ln(target, path)
    BY <1>6
  <2>2. PICK ino \in {get_struct(disk, target)} \ {0} : mk_dir2(path, ino)
    BY <2>1 DEF ext2_ln
  <2>3. Sound(disk, PlacesOf(disk))
    BY <1>1 DEF Good
  <2>4. ino \in Inode \cup {0} /\ Linkable(disk, ino)
    BY <1>1, <2>2, <2>3, StructIs
  <2> QED
    BY <1>1, <2>2, <2>4, LnPass DEF Passes
<1>7. CASE ext2_ln_s(path)
  <2>1. mk_dir2(path, 0) /\ 0 \in Inode \cup {0} /\ Linkable(disk, 0)
    BY <1>7 DEF ext2_ln_s, Linkable
  <2> QED
    BY <1>1, <2>1, LnPass DEF Passes
<1>8. CASE ext2_rm(path) /\ damage' # "none"
  <2>1. damage' = "first"
    BY <1>8 DEF ext2_rm, Leaves
  <2> QED
    BY <1>1, <1>8, <2>1, RmPass
<1>9. CASE ext2_restore(path)
  <2>1. damage' \in {"none", "stale"}
    BY <1>9 DEF ext2_restore, Leaves
  <2> QED
    BY <1>2, <2>1
<1> QED
  BY <1>2, <1>3, <1>4, <1>5, <1>6, <1>7, <1>8, <1>9

\* The checker comes to the end of such an image.
LEMMA PassableEnds ==
  ASSUME NEW d \in Image, Passable(d)
  PROVE  Outcome(d) = "done"
<1>1. ASSUME NEW x \in PlacesToCheck(d) PROVE ~EndsAt(d, x)
  <2>1. PICK w \in CheckedDirs(d) \X Slot :
          /\ w[2] < BlockCount(d, w[1])
          /\ \E p \in Shown(Content(d, w[1], w[2])) : x = <<w[1], w[2], p>>
    BY <1>1 DEF PlacesToCheck
  <2>2. PICK p \in Shown(Content(d, w[1], w[2])) : x = <<w[1], w[2], p>>
    BY <2>1
  <2> DEFINE dir == w[1]
             s == w[2]
             b == d.inode[dir].i_block[s]
  <2>3. dir \in Inode /\ d.inode[dir].i_mode = "dir" /\ s \in Used(d.inode[dir])
    BY <2>1 DEF CheckedDirs, Used, Count, BlockCount
  <2> HIDE DEF dir, s
  <2>4. x[1] = dir /\ x[2] = s /\ x[3] = p /\ p \in Shown(Content(d, dir, s))
    BY <2>2 DEF dir, s
  <2>5. b \in Block /\ Walk(d.block[b], Modes(d))
    <3>1. 0 \notin Block
      BY Numbers
    <3> QED
      BY <2>3, <3>1 DEF Passable, PassableBut
  <2>6. Content(d, dir, s) = d.block[b]
    BY <2>5 DEF Content
  <2>7. EntryAt(d, x) = d.block[b][p] /\ p \in Shown(d.block[b])
    BY <2>4, <2>6 DEF EntryAt
  <2>8. EntryAt(d, x).rec_len # 0 /\ EntryAt(d, x).inode # -1
    <3> DEFINE c == d.block[b]
    <3>1. /\ EntryAt(d, x) = c[p] /\ p \in Shown(c) /\ Chain(c, Shown(c))
          /\ <<c[p].inode, c[p].file_type>> \in Modes(d)
      BY <2>5, <2>7, Zenon DEF Walk
    <3>2. c[p].inode \in Inode /\ -1 \notin Inode
      BY <3>1, Numbers DEF Modes
    <3> HIDE DEF c
    <3> QED
      BY <3>1, <3>2 DEF Chain
  <2>9. d.inode[x[1]].i_block[x[2]] # -1
    BY <2>4, <2>5, Numbers
  <2> QED
    BY <2>8, <2>9 DEF EndsAt, CrashesAt
<1>2. {x \in Visits(d) : EndsAt(d, x)} = {}
  BY <1>1 DEF Visits
<1> QED
  BY <1>2 DEF Outcome

\* Only where an inode or a block is missing or an entry was wrongly restored
\* may a pass not come to its end.
Unharmed == damage = "none" => Passable(disk)
PassIInv == IInv /\ (damage \notin {"full", "stale"} => Passable(disk))

LEMMA UnharmedInvariance == CheckedSpec => []Unharmed
<1>1. IInv => Unharmed
  BY GoodPasses DEF IInv, Unharmed
<1> QED
  BY <1>1, CheckedInvariance, PTL

LEMMA PassInvariance == CheckedSpec => []PassIInv
<1>1. CheckedInit => PassIInv
  <2> SUFFICES ASSUME CheckedInit PROVE PassIInv
    OBVIOUS
  <2>1. IInv /\ Good(disk)
    BY FormattedGood DEF CheckedInit, Init, IInv, Damages
  <2>2. disk \in Image
    BY <2>1 DEF IInv
  <2> QED
    BY <2>1, <2>2, GoodPasses DEF PassIInv
<1>2. ASSUME PassIInv, IInv', Unharmed', [CheckedNext]_checkedVars PROVE PassIInv'
  <2>1. IInv /\ disk \in Image /\ (damage' = "none" => Passable(disk'))
    <3>1. IInv /\ disk \in Image
      BY <1>2 DEF PassIInv, IInv
    <3>2. damage' = "none" => Passable(disk')
      BY <1>2, Zenon DEF Unharmed, Passable, PassableBut, Walk, Chain, Used, Count, Modes
    <3> QED
      BY <3>1, <3>2
  <2>2. SUFFICES ASSUME damage' \notin {"full", "stale"} PROVE Passable(disk')
    BY <1>2, Zenon DEF PassIInv, Passable, PassableBut, Walk, Chain, Used, Count, Modes
  <2>3. CASE Next /\ UNCHANGED recounted
    BY <2>1, <2>2, <2>3, StepPass
  <2>4. CASE ext2_checker
    <3>1. disk' = Checked(disk) /\ damage' = damage
      BY <2>4 DEF ext2_checker
    <3>2. Passable(disk)
      BY <1>2, <2>2, <3>1 DEF PassIInv
    <3> QED
      BY <2>1, <3>1, <3>2, CheckedPass
  <2>5. CASE UNCHANGED checkedVars
    <3>1. disk' = disk /\ damage' = damage
      BY <2>5 DEF checkedVars
    <3>2. Passable(disk)
      BY <1>2, <2>2, <3>1 DEF PassIInv
    <3> QED
      BY <3>1, <3>2
  <2> QED
    BY <1>2, <2>3, <2>4, <2>5 DEF CheckedNext
<1> QED
  BY <1>1, <1>2, CheckedInvariance, UnharmedInvariance, PTL DEF CheckedSpec

\* The checker comes to the end of every image of which no block or inode is
\* missing and no entry was wrongly restored, and it has nothing to repair in an
\* undamaged image but the counter of free blocks, after any sequence of tools
\* and passes.
THEOREM CheckerSparesStay == CheckedSpec => []CheckerSpares
<1> DEFINE I == PassIInv /\ CountedIInv
<1>1. ASSUME I PROVE CheckerSpares
  <2>1. IInv /\ disk \in Image
    BY <1>1 DEF PassIInv, IInv
  <2>2. Outcome(disk) # "done" => damage \in {"full", "stale"}
    BY <1>1, <2>1, PassableEnds DEF PassIInv
  <2>3. ASSUME damage = "none"
        PROVE  Checked(disk) = [disk EXCEPT !.free_blocks = FreeBlocks(disk)]
    <3>1. Sound(disk, PlacesOf(disk))
      BY <2>1, <2>3 DEF IInv, Good
    <3>2. Checked(disk) = Counters(disk)
      BY <2>1, <3>1, NothingToRepair
    <3>3. disk.free_inodes = FreeInodes(disk)
      BY <1>1, <2>3 DEF CountedIInv, Tally
    <3> QED
      BY <2>1, <3>2, <3>3 DEF Counters, Image
  <2> QED
    BY <2>2, <2>3 DEF CheckerSpares
<1> QED
  BY <1>1, PassInvariance, CountedInvariance, PTL

-----------------------------------------------------------------------------
(* What the checker makes of a removal that it takes back.                   *)

\* Only rm leaves the first entry of a block where it is and says so.
LEMMA FirstIsRm ==
  ASSUME Next, damage' = "first"
  PROVE  \E path \in Path : ext2_rm(path)
<1>1. PICK path \in Path :
        \/ ext2_mkdir(path)
        \/ \E size \in Size : ext2_cp(path, size)
        \/ \E target \in Path : ext2_ln(target, path)
        \/ ext2_ln_s(path)
        \/ ext2_rm(path)
        \/ ext2_restore(path)
  BY DEF Next
<1>2. ASSUME NEW d, NEW b, NEW name, NEW dir, NEW harm, harm # "first",
             add_directory(d, b, name, dir, harm)
      PROVE  FALSE
  BY <1>2 DEF add_directory, Leaves
<1>3. ASSUME NEW d, NEW b, NEW name, NEW over, NEW size, NEW harm, harm # "first",
             add_file(d, b, name, over, size, harm)
      PROVE  FALSE
  BY <1>3, ZenonT(30) DEF add_file, CopyBlocks, Leaves
<1>4. ASSUME NEW d, NEW b, NEW over, NEW name, NEW ino, NEW harm, harm # "first",
             add_hardlink(d, b, over, name, ino, harm)
      PROVE  FALSE
  BY <1>4 DEF add_hardlink, Leaves
<1>5. \A d, dir, harm : harm # "first" => GrownHarm(d, dir, harm) # "first"
  BY DEF GrownHarm
<1>6. ~ext2_mkdir(path)
  BY <1>2, <1>5, ZenonT(60) DEF ext2_mkdir, mk_dir, Leaves
<1>7. ASSUME NEW size \in Size, ext2_cp(path, size) PROVE FALSE
  <2>1. ASSUME NEW dir, NEW name, NEW i, NEW c, cp_new(dir, name, i, c, size) PROVE FALSE
    BY <1>3, <1>5, <2>1, ZenonT(60) DEF cp_new, Leaves
  <2> QED
    BY <1>3, <1>7, <2>1, ZenonT(60) DEF ext2_cp
<1>8. ASSUME NEW ino, mk_dir2(path, ino) PROVE FALSE
  <2>1. ASSUME NEW dir, NEW name, NEW open, NEW c, ln_new(dir, name, ino, open, c) PROVE FALSE
    BY <1>4, <2>1, ZenonT(60) DEF ln_new, Leaves
  <2> QED
    BY <1>4, <1>8, <2>1, ZenonT(60) DEF mk_dir2
<1>9. ~ext2_ln_s(path) /\ \A target \in Path : ~ext2_ln(target, path)
  BY <1>8 DEF ext2_ln, ext2_ln_s
<1>10. ~ext2_restore(path)
  BY DEF ext2_restore, Leaves
<1> QED
  BY <1>1, <1>6, <1>7, <1>9, <1>10

\* A set of places that is not empty has a first one.
LEMMA FirstOf ==
  ASSUME NEW T \in SUBSET (Nat \X Nat \X Nat), T # {}
  PROVE  \E x \in T : \A y \in T : ~Before(y, x)
<1> DEFINE A == {x[1] : x \in T}
           B == {x[2] : x \in {x \in T : x[1] = Min(A)}}
           C == {x[3] : x \in {x \in T : x[1] = Min(A) /\ x[2] = Min(B)}}
<1>1. \A x \in T : x[1] \in Nat /\ x[2] \in Nat /\ x[3] \in Nat
  OBVIOUS
<1>2. Min(A) \in A /\ \A y \in A : Min(A) <= y
  <2>1. A \in SUBSET Nat /\ A # {}
    BY <1>1
  <2> HIDE DEF A
  <2> QED
    BY <2>1, MinIsLeast
<1>3. Min(B) \in B /\ \A y \in B : Min(B) <= y
  <2>1. B \in SUBSET Nat /\ B # {}
    BY <1>1, <1>2
  <2> HIDE DEF B
  <2> QED
    BY <2>1, MinIsLeast
<1>4. Min(C) \in C /\ \A y \in C : Min(C) <= y
  <2>1. C \in SUBSET Nat /\ C # {}
    BY <1>1, <1>3
  <2> HIDE DEF C
  <2> QED
    BY <2>1, MinIsLeast
<1>5. PICK x \in T : x[1] = Min(A) /\ x[2] = Min(B) /\ x[3] = Min(C)
  BY <1>4
<1>6. ASSUME NEW y \in T, Before(y, x) PROVE FALSE
  <2>1. y[1] \in A /\ (y[1] = Min(A) => y[2] \in B)
        /\ (y[1] = Min(A) /\ y[2] = Min(B) => y[3] \in C)
    OBVIOUS
  <2> HIDE DEF A, B, C
  <2> QED
    BY <1>1, <1>2, <1>3, <1>4, <1>5, <1>6, <2>1 DEF Before
<1> QED
  BY <1>5, <1>6

\* The way through the image depends on where its entries lead and on whose the
\* blocks are.
LEMMA SameVisits ==
  ASSUME NEW d, NEW f,
         \A b \in Block : /\ Shown(f.block[b]) = Shown(d.block[b])
                          /\ \A p \in Shown(d.block[b]) :
                               /\ f.block[b][p].inode = d.block[b][p].inode
                               /\ f.block[b][p].rec_len = d.block[b][p].rec_len,
         \A i \in Inode : /\ f.inode[i].i_mode = d.inode[i].i_mode
                          /\ f.inode[i].i_blocks = d.inode[i].i_blocks
                          /\ f.inode[i].i_block = d.inode[i].i_block
  PROVE  /\ PlacesToCheck(f) = PlacesToCheck(d)
         /\ \A x \in PlacesToCheck(d) : x[1] \in Inode /\ EntryAt(f, x).inode = EntryAt(d, x).inode
         /\ FirstVisits(f) = FirstVisits(d) /\ FirstVisits(d) \subseteq PlacesToCheck(d)
         /\ Outcome(f) = Outcome(d)
<1> DEFINE In(e) == {x \in CheckedDirs(e) \X Slot : x[2] < BlockCount(e, x[1])}
           There(e, x) == {<<x[1], x[2], p>> : p \in Shown(Content(e, x[1], x[2]))}
<1>1. \A i \in Inode : BlockCount(f, i) = BlockCount(d, i)
  BY DEF BlockCount
<1>2. \A i \in Inode : \A s : /\ Shown(Content(f, i, s)) = Shown(Content(d, i, s))
                             /\ \A p \in Shown(Content(d, i, s)) :
                                  /\ Content(f, i, s)[p].inode = Content(d, i, s)[p].inode
                                  /\ Content(f, i, s)[p].rec_len = Content(d, i, s)[p].rec_len
  <2> SUFFICES ASSUME NEW i \in Inode, NEW s
               PROVE  /\ Shown(Content(f, i, s)) = Shown(Content(d, i, s))
                      /\ \A p \in Shown(Content(d, i, s)) :
                           /\ Content(f, i, s)[p].inode = Content(d, i, s)[p].inode
                           /\ Content(f, i, s)[p].rec_len = Content(d, i, s)[p].rec_len
    OBVIOUS
  <2> DEFINE b == d.inode[i].i_block[s]
  <2>1. /\ Content(d, i, s) = IF b \in Block THEN d.block[b] ELSE Zeros
        /\ Content(f, i, s) = IF b \in Block THEN f.block[b] ELSE Zeros
    BY DEF Content
  <2> HIDE DEF b
  <2>2. CASE b \in Block
    BY <2>1, <2>2
  <2>3. CASE b \notin Block
    BY <2>1, <2>3
  <2> QED
    BY <2>2, <2>3
<1>3. CheckedDirs(f) = CheckedDirs(d) /\ CheckedDirs(d) \subseteq Inode
  BY DEF CheckedDirs
<1>4. In(f) = In(d) /\ \A x \in In(d) : x[1] \in Inode /\ There(f, x) = There(d, x)
  <2>1. In(f) = In(d) /\ \A x \in In(d) : x[1] \in Inode
    BY <1>1, <1>3
  <2>2. \A x \in In(d) : There(f, x) = There(d, x)
    BY <1>2, <2>1
  <2> QED
    BY <2>1, <2>2
<1>5. PlacesToCheck(f) = UNION {There(f, x) : x \in In(f)}
      /\ PlacesToCheck(d) = UNION {There(d, x) : x \in In(d)}
  BY DEF PlacesToCheck
<1>6. \A x \in PlacesToCheck(d) : x[1] \in Inode /\ x[3] \in Shown(Content(d, x[1], x[2]))
  BY <1>4, <1>5
<1> HIDE DEF In, There
<1>7. PlacesToCheck(f) = PlacesToCheck(d)
  BY <1>4, <1>5
<1>8. \A x \in PlacesToCheck(d) : /\ EntryAt(f, x).inode = EntryAt(d, x).inode
                                  /\ CrashesAt(f, x) <=> CrashesAt(d, x)
                                  /\ EndsAt(f, x) <=> EndsAt(d, x)
  <2>1. \A x \in PlacesToCheck(d) : /\ EntryAt(f, x).inode = EntryAt(d, x).inode
                                    /\ EntryAt(f, x).rec_len = EntryAt(d, x).rec_len
    BY <1>2, <1>6 DEF EntryAt
  <2> QED
    BY <1>6, <2>1 DEF CrashesAt, EndsAt
<1>9. Visits(f) = Visits(d) /\ Visits(d) \subseteq PlacesToCheck(d)
  <2>1. {x \in PlacesToCheck(f) : EndsAt(f, x)} = {x \in PlacesToCheck(d) : EndsAt(d, x)}
    BY <1>7, <1>8
  <2> QED
    BY <1>7, <2>1 DEF Visits
<1>10. {x \in Visits(f) : ~CrashesAt(f, x)} = {x \in Visits(d) : ~CrashesAt(d, x)}
  BY <1>8, <1>9
<1>11. FirstVisits(f) = FirstVisits(d) /\ FirstVisits(d) \subseteq PlacesToCheck(d)
  <2> DEFINE seen == {x \in Visits(d) : ~CrashesAt(d, x)}
             news(e) == {x \in seen : /\ EntryAt(e, x).inode # 0
                                      /\ \A y \in seen : Before(y, x) =>
                                           EntryAt(e, y).inode # EntryAt(e, x).inode}
  <2>1. FirstVisits(f) = news(f) /\ FirstVisits(d) = news(d)
    BY <1>10 DEF FirstVisits
  <2>2. seen \subseteq PlacesToCheck(d)
    BY <1>9
  <2> HIDE DEF seen
  <2>3. news(f) = news(d)
    BY <1>8, <2>2
  <2> QED
    BY <2>1, <2>2, <2>3
<1>12. Outcome(f) = Outcome(d)
  <2>1. {x \in Visits(f) : EndsAt(f, x)} = {x \in Visits(d) : EndsAt(d, x)}
    BY <1>8, <1>9
  <2>2. \A x \in {x \in Visits(d) : EndsAt(d, x)} : CrashesAt(f, x) <=> CrashesAt(d, x)
    BY <1>8, <1>9
  <2> QED
    BY <2>1, <2>2, Zenon DEF Outcome
<1> QED
  BY <1>6, <1>7, <1>8, <1>11, <1>12

LEMMA SamePass ==
  ASSUME NEW d, NEW f, f.block = d.block,
         \A i \in Inode : /\ f.inode[i].i_mode = d.inode[i].i_mode
                          /\ f.inode[i].i_blocks = d.inode[i].i_blocks
                          /\ f.inode[i].i_block = d.inode[i].i_block
  PROVE  /\ FirstVisits(f) = FirstVisits(d)
         /\ \A x \in FirstVisits(d) : x[1] \in Inode /\ EntryAt(f, x) = EntryAt(d, x)
<1>1. /\ FirstVisits(f) = FirstVisits(d) /\ FirstVisits(d) \subseteq PlacesToCheck(d)
      /\ \A x \in PlacesToCheck(d) : x[1] \in Inode
  BY SameVisits
<1>2. \A i \in Inode : \A s : Content(f, i, s) = Content(d, i, s)
  BY DEF Content
<1> QED
  BY <1>1, <1>2 DEF EntryAt

\* Places are numbered, and where a pass comes to every place it lists what each
\* of them names.
LEMMA PlacesNumbered ==
  ASSUME NEW d \in Image
  PROVE  PlacesToCheck(d) \in SUBSET (Nat \X Nat \X Nat)
<1>1. ASSUME NEW x \in PlacesToCheck(d) PROVE x \in Nat \X Nat \X Nat
  <2>1. PICK w \in CheckedDirs(d) \X Slot :
          \E q \in Shown(Content(d, w[1], w[2])) : x = <<w[1], w[2], q>>
    BY DEF PlacesToCheck
  <2>2. PICK q \in Shown(Content(d, w[1], w[2])) : x = <<w[1], w[2], q>>
    BY <2>1
  <2>3. w[1] \in Nat /\ w[2] \in Nat
    BY <2>1, Numbers, Slots DEF CheckedDirs
  <2>4. q \in Nat
    <3>1. Content(d, w[1], w[2]) \in [Cell -> EntryType]
      BY Fields, ZerosTyped, Zenon DEF Content
    <3>2. Shown(Content(d, w[1], w[2])) \subseteq Cell
      BY <3>1, ShownLeast, EntryLengths
    <3> QED
      BY <3>2, BlockSizes
  <2> QED
    BY <2>2, <2>3, <2>4
<1> QED
  BY <1>1

LEMMA VisitedIsListed ==
  ASSUME NEW d \in Image, \A x \in PlacesToCheck(d) : ~EndsAt(d, x),
         NEW y \in PlacesToCheck(d), EntryAt(d, y).inode # 0
  PROVE  EntryAt(d, y).inode \in Listed(d, FirstVisits(d))
<1> DEFINE ino  == EntryAt(d, y).inode
           seen == {x \in Visits(d) : ~CrashesAt(d, x)}
           T    == {x \in seen : EntryAt(d, x).inode = ino}
<1>1. seen = PlacesToCheck(d)
  <2>1. {x \in PlacesToCheck(d) : EndsAt(d, x)} = {}
    OBVIOUS
  <2>2. Visits(d) = PlacesToCheck(d)
    BY <2>1 DEF Visits
  <2> QED
    BY <2>2 DEF EndsAt
<1>2. y \in T /\ seen \subseteq Nat \X Nat \X Nat
  BY <1>1, PlacesNumbered
<1> HIDE DEF seen
<1>3. PICK x \in T : \A z \in T : ~Before(z, x)
  <2>1. T \in SUBSET (Nat \X Nat \X Nat) /\ T # {}
    BY <1>2
  <2> HIDE DEF T
  <2> QED
    BY <2>1, FirstOf
<1>4. x \in FirstVisits(d) /\ EntryAt(d, x).inode = ino
  <2>1. \A z \in seen : Before(z, x) => EntryAt(d, z).inode # EntryAt(d, x).inode
    BY <1>3
  <2>2. x \in seen /\ EntryAt(d, x).inode = ino /\ ino # 0
    OBVIOUS
  <2> HIDE DEF ino, T
  <2> QED
    BY <2>1, <2>2 DEF FirstVisits, seen
<1> QED
  BY <1>4 DEF Listed

\* An inode that is named in an undamaged directory is listed, unless the
\* directory is the last inode.
LEMMA NamedIsListed ==
  ASSUME NEW d \in Image, NEW P, Sound(d, P), NEW dir \in Dirs(d), dir # s_inodes_count,
         NEW s \in Used(d.inode[dir]), NEW c, c = d.block[d.inode[dir].i_block[s]],
         NEW p \in Shown(c)
  PROVE  c[p].inode \in Listed(d, FirstVisits(d))
<1> DEFINE y == <<dir, s, p>>
<1>1. /\ dir \in Inode /\ d.inode[dir].i_mode = "dir" /\ s \in Slot /\ s < BlockCount(d, dir)
      /\ Content(d, dir, s) = c
      /\ <<dir, <<s, p>>>> \in P /\ Ent(d, <<dir, <<s, p>>>>) = c[p]
  <2>1. Own(d) /\ Laid(d, P) /\ dir \in Inode /\ d.inode[dir].i_mode = "dir"
    BY SoundParts, Fields DEF Dirs
  <2>2. s \in Slot /\ s < BlockCount(d, dir)
    BY DEF Used, Count, BlockCount
  <2> QED
    BY <2>1, <2>2, BlockShows
<1>2. y \in PlacesToCheck(d) /\ EntryAt(d, y) = c[p]
  <2> DEFINE z == <<dir, s>>
             there == {<<z[1], z[2], q>> : q \in Shown(Content(d, z[1], z[2]))}
  <2>1. z \in {x \in CheckedDirs(d) \X Slot : x[2] < BlockCount(d, x[1])}
    BY <1>1 DEF CheckedDirs
  <2>2. y \in there
    BY <1>1
  <2>3. there \subseteq PlacesToCheck(d)
    <3> HIDE DEF z
    <3> QED
      BY <2>1 DEF PlacesToCheck
  <2>4. EntryAt(d, y) = c[p]
    BY <1>1 DEF EntryAt
  <2> HIDE DEF y, there
  <2> QED
    BY <2>2, <2>3, <2>4
<1> HIDE DEF y
<1>3. EntryAt(d, y).inode # 0
  BY <1>1, <1>2, EntryKinds
<1> QED
  BY <1>2, <1>3, PassEnds, VisitedIsListed

LEMMA SameInode ==
  ASSUME NEW r \in InodeType, NEW s \in InodeType, s.i_mode = r.i_mode,
         s.i_links_count = r.i_links_count, s.i_blocks = r.i_blocks, s.i_block = r.i_block,
         s.i_dtime = r.i_dtime
  PROVE  s = r
BY DEF InodeType

\* An inode without links whose time of deletion is reset.
LEMMA Cleared ==
  ASSUME NEW r \in InodeType, NEW g \in InodeType, g.i_mode = r.i_mode, g.i_blocks = r.i_blocks,
         g.i_block = r.i_block, g.i_links_count = 0, r.i_dtime = FALSE
  PROVE  [g EXCEPT !.i_dtime = FALSE] = [r EXCEPT !.i_links_count = 0]
<1> DEFINE s == [g EXCEPT !.i_dtime = FALSE]
           t == [r EXCEPT !.i_links_count = 0]
<1>1. /\ s \in InodeType /\ s.i_mode = g.i_mode /\ s.i_blocks = g.i_blocks
      /\ s.i_block = g.i_block /\ s.i_links_count = g.i_links_count /\ s.i_dtime = FALSE
  BY DEF InodeType
<1>2. /\ t \in InodeType /\ t.i_mode = r.i_mode /\ t.i_blocks = r.i_blocks
      /\ t.i_block = r.i_block /\ t.i_links_count = 0 /\ t.i_dtime = r.i_dtime
  BY DEF InodeType
<1> HIDE DEF s, t
<1>3. s = t
  BY <1>1, <1>2, SameInode
<1> QED
  BY <1>3 DEF s, t

\* The pass after the removal of a last link that left the entry where it is.
LEMMA TakenBack ==
  ASSUME NEW d \in Image, Good(d), NEW S, Tally(d, S),
         NEW ino \in Listed(d, FirstVisits(d)), d.inode[ino].i_links_count = 1
  PROVE  Checked(Freed(d, ino)) = [d EXCEPT !.inode[ino].i_links_count = 0,
                                            !.free_blocks = FreeBlocks(d)]
<1> DEFINE P == PlacesOf(d)
           f == Freed(d, ino)
           first == FirstVisits(d)
           listed == Listed(d, first)
           r == d.inode[ino]
           B == BlocksOf(r)
<1>1. Sound(d, P) /\ Own(d)
  BY SoundParts DEF Good
<1> HIDE DEF P
<1>2. ino \in listed /\ listed \subseteq d.ibm /\ Mistyped(d, first) = {}
  BY <1>1, ListedInodes
<1>3. ino \in d.ibm /\ ino \in Inode /\ r \in InodeType /\ d.ibm \subseteq Inode /\ d.bbm \subseteq Block
  BY <1>2, Fields
<1>4. InodeOK(r) /\ B \subseteq d.bbm /\ B \subseteq Block
  BY <1>1, <1>3 DEF Own
<1>5. Released(d, f, ino) /\ Even(d, f)
  <2>1. d.inode[ino].i_links_count > 0
    OBVIOUS
  <2> HIDE DEF f
  <2>2. Released(d, f, ino)
    BY <1>3, <2>1, FreedFields DEF f
  <2>3. Even(d, f)
    BY <1>3, <1>4, <2>1, FreedEven DEF f
  <2> QED
    BY <2>2, <2>3
<1>6. f.inode[ino].i_links_count = 0
  <2>1. f.inode[ino].i_links_count = d.inode[ino].i_links_count - 1
    BY <1>5 DEF Released
  <2> HIDE DEF f
  <2> QED
    BY <2>1
<1>7. f.free_blocks = d.free_blocks + Count(r) /\ f.free_inodes = d.free_inodes + 1
  <2> DEFINE bs == FileBlocks(d, ino)
             n == Count(r)
  <2>1. f = [d EXCEPT !.bbm = @ \ bs, !.ibm = @ \ {ino},
                      !.free_blocks = @ + n, !.free_inodes = @ + 1,
                      !.inode[ino].i_dtime = TRUE, !.inode[ino].i_links_count = @ - 1]
    BY DEF Freed, BlockCount, Count
  <2> HIDE DEF f, bs, n
  <2>2. f.free_blocks = d.free_blocks + n /\ f.free_inodes = d.free_inodes + 1
    BY <2>1 DEF Image
  <2> QED
    BY <2>2 DEF n
<1> HIDE DEF f
<1>8. /\ f.block = d.block /\ f \in Image
      /\ \A i \in Inode : /\ f.inode[i].i_mode = d.inode[i].i_mode
                          /\ f.inode[i].i_blocks = d.inode[i].i_blocks
                          /\ f.inode[i].i_block = d.inode[i].i_block
  BY <1>5 DEF Released
<1>9. /\ FirstVisits(f) = first
      /\ \A x \in first : x[1] \in Inode /\ EntryAt(f, x) = EntryAt(d, x)
  BY <1>8, SamePass
<1> HIDE DEF first
<1>10. Listed(f, first) = listed
  BY <1>9 DEF Listed
<1>11. Mistyped(f, first) = {}
  <2>1. \A x \in first : TypeOf(f, EntryAt(f, x).inode) = TypeOf(d, EntryAt(d, x).inode)
    <3>1. \A x \in first : EntryAt(d, x).inode \in Inode
      BY <1>2, <1>3 DEF Listed
    <3> QED
      BY <1>8, <1>9, <3>1 DEF TypeOf
  <2> QED
    BY <1>2, <1>9, <2>1 DEF Mistyped
<1>12. Retyped(f, first) = d.block
  <2>1. d.block \in [Block -> [Cell -> EntryType]]
    BY Fields
  <2>2. Retyped(f, first) = [b \in Block |-> [q \in Cell |-> d.block[b][q]]]
    BY <1>8, <1>11 DEF Retyped
  <2>3. \A b \in Block : [q \in Cell |-> d.block[b][q]] = d.block[b]
    BY <2>1
  <2> QED
    BY <2>1, <2>2, <2>3
<1> HIDE DEF listed
<1>13. \A i \in listed : FileBlocks(f, i) = BlocksOf(d.inode[i]) /\ BlocksOf(d.inode[i]) \subseteq d.bbm
  <2>1. \A i \in listed : i \in Inode /\ BlocksOf(d.inode[i]) \subseteq d.bbm
    BY <1>1, <1>2, <1>3 DEF Own
  <2>2. \A i \in Inode : FileBlocks(f, i) = BlocksOf(d.inode[i])
    BY <1>8 DEF FileBlocks, BlocksOf, Used, Count, BlockCount
  <2> QED
    BY <2>1, <2>2
<1>14. Unmarked(f, listed) = {ino} /\ f.ibm \cup listed = d.ibm
  BY <1>2, <1>3, <1>5 DEF Unmarked, Released
<1>15. LostBlocks(f, listed) = B /\ f.bbm \cup B = d.bbm
  <2>1. f.bbm = d.bbm \ B
    BY <1>5 DEF Released
  <2>2. UNION {FileBlocks(f, i) : i \in listed} \subseteq d.bbm
    BY <1>13
  <2>3. B \subseteq UNION {FileBlocks(f, i) : i \in listed}
    BY <1>2, <1>13
  <2> HIDE DEF B
  <2> QED
    BY <1>3, <1>4, <2>1, <2>2, <2>3 DEF LostBlocks
<1>16. NoBlocks(f, listed) = {}
  <2> SUFFICES ASSUME NEW x \in listed \X Slot, x[2] < BlockCount(f, x[1]),
                      f.inode[x[1]].i_block[x[2]] = -1
               PROVE  FALSE
    BY DEF NoBlocks
  <2>1. x[1] \in Inode /\ x[2] \in Used(d.inode[x[1]])
    BY <1>2, <1>3, <1>8 DEF Used, Count, BlockCount
  <2>2. d.inode[x[1]].i_block[x[2]] \in Block
    BY <1>1, <2>1 DEF Own, InodeOK
  <2> QED
    BY <1>8, <2>1, <2>2, Numbers
<1> DEFINE kept == [r EXCEPT !.i_links_count = 0]
           it == [i \in Inode |-> Undeleted(f, i, listed)]
<1>17. it = [d.inode EXCEPT ![ino] = kept]
  <2>1. d.inode \in [Inode -> InodeType] /\ f.inode \in [Inode -> InodeType]
    BY <1>8, Fields
  <2>2. ASSUME NEW i \in Inode, i # ino PROVE Undeleted(f, i, listed) = d.inode[i]
    <3>1. d.inode[i] \in InodeType /\ d.inode[i].i_dtime \in BOOLEAN /\ f.inode[i] = d.inode[i]
      BY <1>5, <2>1, <2>2, InodeFields DEF Released
    <3>2. (d.inode[i].i_dtime /\ i \notin listed) = d.inode[i].i_dtime
      BY <1>1, <1>2, <3>1 DEF Own
    <3>3. Undeleted(f, i, listed) = [d.inode[i] EXCEPT !.i_dtime = d.inode[i].i_dtime]
      BY <3>1, <3>2, Zenon DEF Undeleted
    <3> QED
      BY <3>1, <3>3 DEF InodeType
  <2>3. Undeleted(f, ino, listed) = kept
    <3>1. ~r.i_dtime /\ r.i_dtime \in BOOLEAN
      BY <1>1, <1>3, InodeFields DEF Own
    <3>2. f.inode[ino] \in InodeType /\ f.inode[ino].i_dtime \in BOOLEAN
      BY <1>3, <2>1, InodeFields
    <3>3. Undeleted(f, ino, listed) = [f.inode[ino] EXCEPT !.i_dtime = FALSE]
      BY <1>2, <3>2 DEF Undeleted
    <3>4. /\ f.inode[ino].i_mode = r.i_mode /\ f.inode[ino].i_blocks = r.i_blocks
          /\ f.inode[ino].i_block = r.i_block /\ f.inode[ino].i_links_count = 0
      BY <1>5, <1>6 DEF Released
    <3> HIDE DEF r
    <3>5. r.i_dtime = FALSE
      BY <3>1
    <3>6. [f.inode[ino] EXCEPT !.i_dtime = FALSE] = kept
      BY <1>3, <3>2, <3>4, <3>5, Cleared
    <3> QED
      BY <3>3, <3>6
  <2> HIDE DEF kept
  <2> QED
    BY <1>3, <2>1, <2>2, <2>3
<1>18. FreeInodes(f) - 1 = d.free_inodes /\ FreeBlocks(f) - Cardinality(B) - 0 = FreeBlocks(d)
  <2>1. Cardinality(B) = Count(r) /\ Count(r) \in Nat
    BY <1>3, <1>4, InodeBlocks, InodeFields
  <2>2. /\ FreeInodes(d) \in Int /\ FreeBlocks(d) \in Int /\ FreeInodes(f) \in Int
        /\ FreeBlocks(f) \in Int /\ d.free_inodes \in Int /\ d.free_blocks \in Int
    BY <1>8, CountersTyped, Fields
  <2>3. /\ f.free_inodes - FreeInodes(f) = d.free_inodes - FreeInodes(d)
        /\ f.free_blocks - FreeBlocks(f) = d.free_blocks - FreeBlocks(d)
        /\ d.free_inodes = FreeInodes(d)
    BY <1>5 DEF Even, Tally
  <2> DEFINE n == Count(r)
  <2>4. Cardinality(B) = n /\ n \in Nat /\ f.free_blocks = d.free_blocks + n
    BY <1>7, <2>1
  <2> HIDE DEF n, B, r
  <2>5. \A u, v, w, z \in Int : w = z + 1 /\ w - u = z - v /\ z = v => u - 1 = z
    OBVIOUS
  <2>6. \A u, v, w, z \in Int : w = z + n /\ w - u = z - v => u - n - 0 = v
    BY <2>4
  <2>7. f.free_inodes \in Int /\ f.free_blocks \in Int
    BY <1>8, Fields
  <2>8. FreeInodes(f) - 1 = d.free_inodes
    BY <1>7, <2>2, <2>3, <2>5, <2>7
  <2>9. FreeBlocks(f) - n - 0 = FreeBlocks(d)
    BY <2>2, <2>3, <2>4, <2>6, <2>7
  <2> QED
    BY <2>4, <2>8, <2>9
<1>19. Checked(f) = [f EXCEPT !.block = d.block, !.ibm = d.ibm, !.bbm = d.bbm,
                              !.free_inodes = d.free_inodes, !.free_blocks = FreeBlocks(d),
                              !.inode = it]
  <2>1. Checked(f) = Repaired(f, first, listed)
    BY <1>9, <1>10 DEF Checked
  <2>2. Cardinality({ino}) = 1 /\ Cardinality({}) = 0
    BY FS_Singleton, FS_EmptySet
  <2> HIDE DEF B
  <2> QED
    BY <1>12, <1>14, <1>15, <1>16, <1>18, <2>1, <2>2, Zenon DEF Repaired
<1> DEFINE g == [d EXCEPT !.inode[ino].i_links_count = 0, !.free_blocks = FreeBlocks(d)]
<1>20. g = [d EXCEPT !.inode = [d.inode EXCEPT ![ino] = kept], !.free_blocks = FreeBlocks(d)]
  BY DEF Image
<1> HIDE DEF it, g, kept, r, B
<1>21. Checked(f) = g
  <2> DEFINE n == FreeBlocks(d)
             of(e) == [bbm |-> d.bbm, ibm |-> d.ibm, free_blocks |-> n,
                       free_inodes |-> d.free_inodes, inode |-> e, block |-> d.block]
  <2>1. Checked(f) = [f EXCEPT !.block = d.block, !.ibm = d.ibm, !.bbm = d.bbm,
                               !.free_inodes = d.free_inodes, !.free_blocks = n, !.inode = it]
    BY <1>19
  <2>2. g = [d EXCEPT !.inode = [d.inode EXCEPT ![ino] = kept], !.free_blocks = n]
    BY <1>20
  <2> HIDE DEF n
  <2>3. Checked(f) = of(it)
    BY <1>8, <2>1 DEF Image
  <2>4. g = of([d.inode EXCEPT ![ino] = kept])
    BY <2>2 DEF Image
  <2> QED
    BY <1>17, <2>3, <2>4
<1> QED
  BY <1>21 DEF f, g

\* The entry that rm leaves where it is the first of its block makes the checker
\* take the removal back, all but the link count: it marks the inode and its
\* blocks again, resets the deletion time and brings the counters back, and
\* repairs nothing else, after any sequence of tools and passes.
THEOREM CheckerRevivesStay == CheckedSpec => CheckerRevives
<1>1. ASSUME CountedIInv, [CheckedNext]_checkedVars, damage = "none", damage' = "first",
             disk'.ibm # disk.ibm
      PROVE  \E ino \in disk.ibm \ disk'.ibm :
               Checked(disk') = [disk EXCEPT !.inode[ino].i_links_count = 0,
                                             !.free_blocks = FreeBlocks(disk)]
  <2>1. disk \in Image /\ Good(disk) /\ Tally(disk, recounted)
    BY <1>1 DEF CountedIInv, IInv
  <2>2. Next
    BY <1>1 DEF CheckedNext, checkedVars, ext2_checker
  <2>3. PICK path \in Path : ext2_rm(path)
    BY <1>1, <2>2, FirstIsRm
  <2>4. PICK ino \in disk.ibm :
           /\ \E dir \in Dirs(disk) : \E s \in Used(disk.inode[dir]) :
                \E p \in Shown(disk.block[disk.inode[dir].i_block[s]]) :
                  ino = disk.block[disk.inode[dir].i_block[s]][p].inode
           /\ \/ Unlinked(disk, disk', ino)
              \/ Released(disk, disk', ino) /\ disk' = Freed(disk, ino)
                 /\ disk.inode[ino].i_links_count = 1
    BY <1>1, <2>1, <2>3, RmFirst
  <2>5. ~Unlinked(disk, disk', ino)
    BY <1>1 DEF Unlinked
  <2>6. ino \in disk.ibm \ disk'.ibm
    BY <2>4, <2>5 DEF Released
  <2>7. ino \in Listed(disk, FirstVisits(disk))
    <3>1. PICK dir \in Dirs(disk) : \E s \in Used(disk.inode[dir]) :
            \E p \in Shown(disk.block[disk.inode[dir].i_block[s]]) :
              ino = disk.block[disk.inode[dir].i_block[s]][p].inode
      BY <2>4
    <3>2. dir # s_inodes_count /\ Sound(disk, PlacesOf(disk))
      BY <2>1 DEF Tally, LastUnused, Dirs, Good
    <3> QED
      BY <2>1, <3>1, <3>2, NamedIsListed
  <2>8. Checked(Freed(disk, ino)) = [disk EXCEPT !.inode[ino].i_links_count = 0,
                                                 !.free_blocks = FreeBlocks(disk)]
    BY <2>1, <2>4, <2>5, <2>7, TakenBack
  <2> QED
    BY <2>4, <2>5, <2>6, <2>8
<1>2. CountedIInv /\ [CheckedNext]_checkedVars
        => [damage = "none" /\ damage' = "first" /\ disk'.ibm # disk.ibm =>
             \E ino \in disk.ibm \ disk'.ibm :
               Checked(disk') = [disk EXCEPT !.inode[ino].i_links_count = 0,
                                             !.free_blocks = FreeBlocks(disk)]]_checkedVars
  BY <1>1
<1> QED
  BY <1>2, CountedInvariance, PTL DEF CheckedSpec, CheckerRevives

-----------------------------------------------------------------------------
(* What a pass that came to its end leaves.                                  *)

\* A directory is not the last inode and has no more slots than there are, and
\* no slot of another inode is without a block, whatever the damage.
FilledInode(i, r) ==
  IF r.i_mode = "dir" THEN i # s_inodes_count /\ Count(r) <= 3
  ELSE \A s \in Used(r) : r.i_block[s] # -1

Filled(d) == \A i \in Inode : FilledInode(i, d.inode[i])

\* One inode is written, or a directory gains a slot.
LEMMA FilledOne ==
  ASSUME NEW d, Filled(d), NEW e, NEW ino, FilledInode(ino, e.inode[ino]),
         \A i \in Inode \ {ino} : e.inode[i] = d.inode[i]
  PROVE  Filled(e)
<1> HIDE DEF FilledInode
<1> QED
  BY DEF Filled

LEMMA FilledSame ==
  ASSUME NEW d, Filled(d), NEW e,
         \A i \in Inode : /\ e.inode[i].i_mode = d.inode[i].i_mode
                          /\ e.inode[i].i_blocks = d.inode[i].i_blocks
                          /\ e.inode[i].i_block = d.inode[i].i_block
  PROVE  Filled(e)
<1>1. \A i \in Inode : Count(e.inode[i]) = Count(d.inode[i]) /\ Used(e.inode[i]) = Used(d.inode[i])
  BY DEF Count, Used
<1> QED
  BY <1>1 DEF Filled, FilledInode

\* A directory with room for one more slot.
Roomy(d, dir) == dir \in Inode /\ d.inode[dir].i_mode = "dir" /\ d.inode[dir].i_blocks <= 5

LEMMA FilledGrows ==
  ASSUME NEW d \in Image, Filled(d), NEW dir, Roomy(d, dir), NEW e,
         e.inode[dir].i_mode = "dir", NEW n \in 0 .. 2,
         e.inode[dir].i_blocks = d.inode[dir].i_blocks + n,
         \A i \in Inode \ {dir} : e.inode[i] = d.inode[i]
  PROVE  Filled(e)
<1>1. dir # s_inodes_count
  BY DEF Filled, FilledInode, Roomy
<1>2. d.inode[dir].i_blocks \in Nat /\ d.inode[dir].i_blocks <= 5
  BY Fields, InodeFields DEF Roomy
<1> DEFINE m == d.inode[dir].i_blocks
<1> HIDE DEF m
<1>3. (m + n) \div 2 <= 3
  <2>1. m + n \in 0 .. 7
    BY <1>2 DEF m
  <2> QED
    BY <2>1
<1>4. FilledInode(dir, e.inode[dir])
  BY <1>1, <1>3 DEF FilledInode, Count, m
<1> QED
  BY <1>4, FilledOne

\* An undamaged image.
LEMMA GoodFilled ==
  ASSUME NEW d \in Image, Good(d), LastUnused(d)
  PROVE  Filled(d) /\ \A dir \in Dirs(d) : Roomy(d, dir)
<1>1. Own(d)
  BY SoundParts DEF Good
<1>2. ASSUME NEW i \in Inode PROVE FilledInode(i, d.inode[i])
  <2>1. InodeOK(d.inode[i])
    BY <1>1 DEF Own
  <2>2. d.inode[i].i_mode = "dir" => i # s_inodes_count /\ Count(d.inode[i]) <= 3
    BY <2>1 DEF InodeOK, LastUnused
  <2>3. \A s \in Used(d.inode[i]) : d.inode[i].i_block[s] # -1
    BY <2>1, Numbers DEF InodeOK
  <2> QED
    BY <2>2, <2>3 DEF FilledInode
<1>3. ASSUME NEW dir \in Dirs(d) PROVE Roomy(d, dir)
  BY <1>1, DirectoryBlocks DEF Roomy, Dirs
<1> QED
  BY <1>2, <1>3 DEF Filled

\* mkdir in block b of a directory.
LEMMA AddDirectoryFilled ==
  ASSUME NEW d \in Image, Filled(d), NEW b \in Block, NEW name \in Name, NEW dir \in d.ibm,
         NEW harm, add_directory(d, b, name, dir, harm)
  PROVE  Filled(disk')
<1> DEFINE ino  == find_invalid_indode_index(d)
           free == find_free_block_index(d)
           c == Inserted(d.block[b], name, "dir", ino)
           t == Trimmed(d.block[b])
           q == [d.inode[ino] EXCEPT !.i_mode = "dir", !.i_links_count = 2,
                                     !.i_blocks = 2, !.i_dtime = FALSE]
           part == [d EXCEPT !.block[b] = c, !.ibm = @ \cup {ino}, !.free_inodes = @ - 1,
                             !.inode[ino] = q]
           f == AddDirectory(d, b, name, dir, ino, free)
<1>1. /\ ino = -1 \/ (ino \in Inode \ d.ibm /\ ino # s_inodes_count)
      /\ free = -1 \/ free \in Block
  BY FreeNotLast, FreeBlock
<1>2. \/ disk' = Write(d, b, t)
      \/ ino # -1 /\ disk' = part
      \/ ino # -1 /\ free # -1 /\ disk' = f
  BY DEF add_directory, Leaves
<1>3. CASE disk' = Write(d, b, t)
  <2> DEFINE w == Write(d, b, t)
  <2>1. w.inode = d.inode
    BY DEF Write, Image
  <2> HIDE DEF w
  <2>2. Filled(w)
    BY <2>1, FilledSame
  <2> QED
    BY <1>3, <2>2 DEF w
<1> HIDE DEF ino, free
<1>4. CASE ino # -1 /\ disk' = part
  <2>1. d.inode[ino] \in InodeType /\ ino \in Inode
    BY <1>1, <1>4, Fields
  <2>2. q.i_mode = "dir" /\ q.i_blocks = 2
    BY <2>1 DEF InodeType
  <2> HIDE DEF q
  <2>3. part.inode = [d.inode EXCEPT ![ino] = q]
    <3> HIDE DEF c
    <3> QED
      BY DEF Image
  <2> HIDE DEF part
  <2>4. part.inode[ino] = q /\ \A i \in Inode \ {ino} : part.inode[i] = d.inode[i]
    BY <2>1, <2>3, Fields
  <2>5. FilledInode(ino, q)
    BY <1>1, <1>4, <2>2 DEF FilledInode, Count
  <2>6. Filled(part)
    BY <2>4, <2>5, FilledOne
  <2> QED
    BY <1>4, <2>6
<1>5. CASE ino # -1 /\ free # -1 /\ disk' = f
  <2>1. ino \in Inode \ d.ibm /\ ino # s_inodes_count /\ free \in Block /\ dir \in Inode
    BY <1>1, <1>5, Fields
  <2>2. AddedTo(Write(d, b, c), f, dir, ino, free) /\ ino \in Inode \ {dir}
    BY <2>1, AddDirectoryFields
  <2>3. Write(d, b, c).inode = d.inode
    BY DEF Write, Image
  <2> HIDE DEF f, c
  <2>4. /\ f.inode[ino].i_mode = "dir" /\ f.inode[ino].i_blocks = 2
        /\ f.inode[dir].i_mode = d.inode[dir].i_mode /\ f.inode[dir].i_blocks = d.inode[dir].i_blocks
        /\ f.inode[dir].i_block = d.inode[dir].i_block
        /\ \A i \in Inode \ {ino, dir} : f.inode[i] = d.inode[i]
    BY <2>2, <2>3 DEF AddedTo
  <2>5. FilledInode(ino, f.inode[ino])
    BY <2>1, <2>4 DEF FilledInode, Count
  <2>6. FilledInode(dir, f.inode[dir])
    BY <2>1, <2>4 DEF Filled, FilledInode, Count, Used
  <2>7. Filled(f)
    <3> HIDE DEF FilledInode
    <3> QED
      BY <2>4, <2>5, <2>6 DEF Filled
  <2> QED
    BY <1>5, <2>7
<1> QED
  BY <1>2, <1>3, <1>4, <1>5

\* cp in block b of a directory.
LEMMA AddFileFilled ==
  ASSUME NEW d \in Image, Filled(d), NEW b \in Block, NEW name \in Name, NEW over \in BOOLEAN,
         NEW size \in Size, NEW harm, add_file(d, b, name, over, size, harm)
  PROVE  Filled(disk')
<1> DEFINE ino == find_invalid_indode_index(d)
           c == Added(d.block[b], over, name, "reg", ino)
           e == Write(d, b, c)
           lost == [e EXCEPT !.free_inodes = @ - 1]
<1>1. ino = -1 \/ ino \in Inode \ d.ibm
  BY FreeInode
<1>2. (ino = -1 /\ disk' = lost) \/ (ino # -1 /\ CopyBlocks(e, ino, size, harm))
  BY DEF add_file, Leaves
<1>3. c \in [Cell -> EntryType]
  <2>1. d.block[b] \in [Cell -> EntryType] /\ ino \in Inode \cup {-1} /\ "reg" \in {"reg", "dir", "lnk"}
    BY <1>1, Fields
  <2> HIDE DEF ino
  <2> QED
    BY <2>1, AddedTyped
<1> HIDE DEF ino, c
<1>4. e \in Image /\ e.inode = d.inode
  BY <1>3, Written DEF Rewritten
<1> HIDE DEF e
<1>5. Filled(e)
  BY <1>4, FilledSame
<1>6. CASE disk' = lost
  <2>1. lost.inode = e.inode
    BY <1>4 DEF Image
  <2> HIDE DEF lost
  <2>2. Filled(lost)
    BY <1>5, <2>1, FilledSame
  <2> QED
    BY <1>6, <2>2
<1>7. CASE ino # -1 /\ CopyBlocks(e, ino, size, harm)
  <2>1. ino \in Inode
    BY <1>1, <1>7
  <2> DEFINE f == disk'
  <2>2. Emptied(e, f, ino) \/ (Enough(e, size) /\ Copied(e, f, ino, size))
    BY <1>4, <1>7, <2>1, CopyBlocksFields
  <2> HIDE DEF f
  <2>3. \A i \in Inode \ {ino} : f.inode[i] = e.inode[i]
    BY <2>2 DEF Emptied, Copied, NewFields
  <2>4. f.inode[ino].i_mode = "reg" /\ \A s \in Used(f.inode[ino]) : f.inode[ino].i_block[s] # -1
    <3>1. CASE Emptied(e, f, ino)
      <4>1. Count(f.inode[ino]) = 0
        BY <3>1 DEF Emptied, Count
      <4>2. Used(f.inode[ino]) = {}
        <5>1. \A s \in Slot : ~(s < 0)
          BY Slots
        <5> QED
          BY <4>1, <5>1 DEF Used
      <4> QED
        BY <3>1, <4>2 DEF Emptied
    <3>2. CASE Enough(e, size) /\ Copied(e, f, ino, size)
      <4>1. size \in Nat /\ f.inode[ino].i_blocks = 2 * size
        BY <3>2, Slots DEF Copied
      <4>2. Count(f.inode[ino]) = size
        BY <4>1 DEF Count
      <4>3. \A s \in Used(f.inode[ino]) : s \in 0 .. size - 1
        <5>1. \A s \in Slot : s < size => s \in 0 .. size - 1
          BY <4>1, Slots
        <5> QED
          BY <4>2, <5>1 DEF Used
      <4> QED
        BY <3>2, <4>3 DEF Copied, Enough
    <3> QED
      BY <2>2, <3>1, <3>2
  <2>5. FilledInode(ino, f.inode[ino])
    BY <2>4 DEF FilledInode
  <2>6. Filled(f)
    BY <1>5, <2>3, <2>5, FilledOne
  <2> QED
    BY <2>6 DEF f
<1> QED
  BY <1>2, <1>6, <1>7

\* ln in block b of a directory.
LEMMA HardlinkFilled ==
  ASSUME NEW d \in Image, Filled(d), NEW b \in Block, NEW over \in BOOLEAN, NEW name \in Name,
         NEW ino \in Inode \cup {0}, NEW harm, add_hardlink(d, b, over, name, ino, harm)
  PROVE  Filled(disk')
<1> DEFINE new == find_invalid_indode_index(d)
           c(type, i) == Added(d.block[b], over, name, type, i)
           e(type, i) == Write(d, b, c(type, i))
           n == NameOnly(d.block[b], over, name)
<1>1. new = -1 \/ new \in Inode \ d.ibm
  BY FreeInode
<1>2. \/ ino # 0 /\ disk' = Linked(e("reg", ino), ino)
      \/ disk' = Write(d, b, n)
      \/ new # -1 /\ disk' = Symlinked(e("lnk", new), new)
  BY DEF add_hardlink, Leaves
<1>3. \A m \in [Cell -> EntryType] : /\ Write(d, b, m) \in Image /\ Write(d, b, m).inode = d.inode
                                     /\ Filled(Write(d, b, m))
  <2> SUFFICES ASSUME NEW m \in [Cell -> EntryType]
               PROVE  /\ Write(d, b, m) \in Image /\ Write(d, b, m).inode = d.inode
                      /\ Filled(Write(d, b, m))
    OBVIOUS
  <2> DEFINE w == Write(d, b, m)
  <2>1. w \in Image /\ w.inode = d.inode
    BY Written DEF Rewritten
  <2> HIDE DEF w
  <2>2. Filled(w)
    BY <2>1, FilledSame
  <2> QED
    BY <2>1, <2>2 DEF w
<1>4. d.block[b] \in [Cell -> EntryType]
  BY Fields
<1>5. n \in [Cell -> EntryType] /\ \A type \in {"reg", "dir", "lnk"}, i \in Inode : c(type, i) \in [Cell -> EntryType]
  <2>1. ASSUME NEW type \in {"reg", "dir", "lnk"}, NEW i \in Inode
        PROVE  c(type, i) \in [Cell -> EntryType] /\ n \in [Cell -> EntryType]
    <3>1. i \in Inode \cup {-1}
      OBVIOUS
    <3> QED
      BY <1>4, <3>1, AddedTyped
  <2>2. EXT2_ROOT_INO \in Inode
    BY Numbers
  <2> QED
    BY <2>1, <2>2
<1> HIDE DEF n, c
<1>6. CASE disk' = Write(d, b, n)
  BY <1>3, <1>5, <1>6
<1>7. CASE ino # 0 /\ disk' = Linked(e("reg", ino), ino)
  <2> DEFINE g == e("reg", ino)
             f == Linked(g, ino)
  <2>1. ino \in Inode /\ disk' = f
    BY <1>7
  <2>2. g \in Image /\ Filled(g)
    BY <1>3, <1>5, <2>1
  <2> HIDE DEF g
  <2>3. /\ NewFields(g, f, ino, f.inode[ino], g.bbm, g.ibm)
        /\ f.inode[ino].i_mode = g.inode[ino].i_mode
        /\ f.inode[ino].i_blocks = g.inode[ino].i_blocks
        /\ f.inode[ino].i_block = g.inode[ino].i_block
    BY <2>1, <2>2, LinkedFields
  <2> HIDE DEF f
  <2>4. Filled(f)
    BY <2>2, <2>3, FilledSame DEF NewFields
  <2> QED
    BY <2>1, <2>4
<1>8. CASE new # -1 /\ disk' = Symlinked(e("lnk", new), new)
  <2> DEFINE g == e("lnk", new)
             f == Symlinked(g, new)
  <2>1. new \in Inode /\ disk' = f
    BY <1>1, <1>8
  <2> HIDE DEF new
  <2>2. g \in Image /\ Filled(g)
    BY <1>3, <1>5, <2>1
  <2> HIDE DEF g
  <2>3. /\ \E bb, ib : NewFields(g, f, new, f.inode[new], bb, ib)
        /\ f.inode[new].i_mode = "lnk" /\ f.inode[new].i_blocks = 2
        /\ f.inode[new].i_block[0] # -1
    BY <2>1, <2>2, SymlinkedFields
  <2> HIDE DEF f
  <2>4. Used(f.inode[new]) = {0}
    BY <2>3, UsedSlots DEF Count
  <2>5. FilledInode(new, f.inode[new])
    BY <2>3, <2>4 DEF FilledInode
  <2>6. Filled(f)
    BY <2>2, <2>3, <2>5, FilledOne DEF NewFields
  <2> QED
    BY <2>1, <2>6
<1> QED
  BY <1>2, <1>6, <1>7, <1>8

\* A directory that gains a slot, or half of one, or only -1 in one.
LEMMA GrownFilled ==
  ASSUME NEW d \in Image, Filled(d), NEW dir, Roomy(d, dir), NEW i \in Slot
  PROVE  Grown(d, dir, i) \in Image /\ Filled(Grown(d, dir, i))
<1> DEFINE g == Grown(d, dir, i)
<1>1. dir \in Inode /\ d.inode[dir].i_mode = "dir"
  BY DEF Roomy
<1>2. GrownTo(d, g, dir, i, find_free_block_index(d))
  BY <1>1, GrownFields
<1> HIDE DEF g
<1>3. /\ g \in Image /\ g.inode[dir].i_mode = "dir"
      /\ g.inode[dir].i_blocks = d.inode[dir].i_blocks + 2
      /\ \A j \in Inode \ {dir} : g.inode[j] = d.inode[j]
  BY <1>1, <1>2 DEF GrownTo
<1>4. 2 \in 0 .. 2
  OBVIOUS
<1>5. Filled(g)
  BY <1>3, <1>4, FilledGrows
<1> QED
  BY <1>3, <1>5 DEF g

\* The slots of ln's half of a block, and mkdir's where no block was left.
LEMMA HalfGrownFilled ==
  ASSUME NEW d \in Image, Filled(d), NEW dir, Roomy(d, dir), NEW b \in Block \cup {-1}
  PROVE  LET e == [d EXCEPT !.inode[dir].i_blocks = @ + 1,
                            !.inode[dir].i_block[2] = d.inode[dir].i_block[1],
                            !.inode[dir].i_block[1] = b]
         IN  /\ Filled(e) /\ Filled([d EXCEPT !.inode[dir].i_block[1] = b])
             /\ b \in Block => Filled(Write([e EXCEPT !.bbm = @ \cup {b}], b, Zeros))
<1> DEFINE n  == d.inode[dir].i_blocks + 1
           m  == d.inode[dir].i_block[1]
           d1 == [d EXCEPT !.inode[dir].i_blocks = n]
           d2 == [d1 EXCEPT !.inode[dir].i_block[2] = m]
           e  == [d2 EXCEPT !.inode[dir].i_block[1] = b]
           w  == Write([e EXCEPT !.bbm = @ \cup {b}], b, Zeros)
           h  == [d EXCEPT !.inode[dir].i_block[1] = b]
<1>1. /\ dir \in Inode /\ d.inode[dir].i_mode = "dir" /\ d.inode[dir] \in InodeType
      /\ d.inode[dir].i_blocks \in Nat
  BY Fields, InodeFields DEF Roomy
<1>2. n \in Nat /\ m \in Block \cup {-1, 0} /\ 1 \in Slot /\ 2 \in Slot
  BY <1>1, InodeFields, Slots
<1> HIDE DEF n, m
<1>3. /\ d1 \in Image /\ d1.inode[dir].i_mode = "dir" /\ d1.inode[dir].i_blocks = n
      /\ \A j \in Inode \ {dir} : d1.inode[j] = d.inode[j]
  BY <1>1, <1>2, SectorsWritten DEF Image, InodeType
<1> HIDE DEF d1
<1>4. ASSUME NEW k \in Image, NEW s \in Slot, NEW a \in Block \cup {-1, 0}
      PROVE  LET f == [k EXCEPT !.inode[dir].i_block[s] = a]
             IN  /\ f \in Image /\ f.inode[dir].i_mode = k.inode[dir].i_mode
                 /\ f.inode[dir].i_blocks = k.inode[dir].i_blocks
                 /\ \A j \in Inode \ {dir} : f.inode[j] = k.inode[j]
  <2> DEFINE r == k.inode[dir]
             v == [r.i_block EXCEPT ![s] = a]
             q == [r EXCEPT !.i_block = v]
             t == [k.inode EXCEPT ![dir] = q]
             f == [k EXCEPT !.inode = t]
  <2>1. f \in Image
    BY <1>1, SlotWritten
  <2>2. r \in InodeType
    BY <1>1, Fields
  <2>3. q.i_mode = r.i_mode /\ q.i_blocks = r.i_blocks
    <3> HIDE DEF r, v
    <3> QED
      BY <2>2 DEF InodeType
  <2>4. t[dir] = q /\ \A j \in Inode \ {dir} : t[j] = k.inode[j]
    <3> HIDE DEF q
    <3> QED
      BY <1>1, Fields
  <2>5. f.inode = t
    <3> HIDE DEF t
    <3> QED
      BY DEF Image
  <2> HIDE DEF t, q
  <2>6. /\ f.inode[dir].i_mode = k.inode[dir].i_mode /\ f.inode[dir].i_blocks = k.inode[dir].i_blocks
        /\ \A j \in Inode \ {dir} : f.inode[j] = k.inode[j]
    BY <2>3, <2>4, <2>5
  <2> QED
    BY <2>1, <2>6 DEF t, q
<1>5. /\ d2 \in Image /\ d2.inode[dir].i_mode = "dir" /\ d2.inode[dir].i_blocks = n
      /\ \A j \in Inode \ {dir} : d2.inode[j] = d.inode[j]
  BY <1>2, <1>3, <1>4
<1>6. h.inode[dir].i_mode = "dir" /\ h.inode[dir].i_blocks = d.inode[dir].i_blocks
      /\ \A j \in Inode \ {dir} : h.inode[j] = d.inode[j]
  BY <1>1, <1>2, <1>4
<1> HIDE DEF d2, h
<1>7. /\ e \in Image /\ e.inode[dir].i_mode = "dir" /\ e.inode[dir].i_blocks = n
      /\ \A j \in Inode \ {dir} : e.inode[j] = d.inode[j]
  BY <1>2, <1>4, <1>5
<1> HIDE DEF e
<1>8. Filled(e)
  <2>1. n = d.inode[dir].i_blocks + 1 /\ 1 \in 0 .. 2
    BY DEF n
  <2> QED
    BY <1>7, <2>1, FilledGrows
<1>9. Filled(h)
  <2>1. d.inode[dir].i_blocks = d.inode[dir].i_blocks + 0 /\ 0 \in 0 .. 2
    BY <1>1
  <2> QED
    BY <1>6, <2>1, FilledGrows
<1>10. Filled(w)
  <2>1. w.inode = e.inode
    BY <1>7 DEF Write, Image
  <2> HIDE DEF w
  <2> QED
    BY <1>8, <2>1, FilledSame
<1> QED
  <2>1. Filled(e) /\ Filled(h) /\ Filled(w)
    BY <1>8, <1>9, <1>10
  <2> QED
    BY <2>1, Zenon DEF w, h, e, d2, d1, n, m

LEMMA MkdirFilled ==
  ASSUME disk \in Image, Good(disk), Filled(disk), \A dir \in Dirs(disk) : Roomy(disk, dir),
         NEW path \in Path, ext2_mkdir(path)
  PROVE  Filled(disk')
<1>1. Sound(disk, PlacesOf(disk)) /\ Own(disk)
  BY SoundParts DEF Good
<1>2. FirstBlocksLead(disk, path) \in Dirs(disk) \cup {0} /\ Last(path) \in Name
  BY <1>1, FirstBlocks, Paths
<1>3. PICK dir \in {FirstBlocksLead(disk, path)} \ {0} : mk_dir(dir, Content(disk, dir, 0), Last(path))
  BY DEF ext2_mkdir
<1> DEFINE name == Last(path)
           c == Content(disk, dir, 0)
           b == find_free_block_index(disk)
           k == disk.inode[dir].i_block[0]
           harm == IF Has(disk, dir, name) THEN "exists" ELSE "none"
           g == Grown(disk, dir, 1)
           h == [disk EXCEPT !.inode[dir].i_block[1] = -1]
<1>4. /\ dir \in Dirs(disk) /\ name \in Name /\ dir \in disk.ibm /\ Roomy(disk, dir)
      /\ k \in Block
  BY <1>1, <1>2, <1>3, DirectoryBlocks DEF Dirs
<1>5. \/ add_directory(disk, k, name, dir, harm)
      \/ disk' = h
      \/ b # -1 /\ add_directory(g, b, name, dir, GrownHarm(disk, dir, harm))
  BY <1>3 DEF mk_dir, Leaves
<1> HIDE DEF name, harm, c, k
<1>6. CASE add_directory(disk, k, name, dir, harm)
  BY <1>4, <1>6, AddDirectoryFilled
<1>7. CASE disk' = h
  <2>1. -1 \in Block \cup {-1}
    OBVIOUS
  <2>2. Filled(h)
    BY <1>4, <2>1, HalfGrownFilled
  <2> HIDE DEF h
  <2> QED
    BY <1>7, <2>2
<1>8. CASE b # -1 /\ add_directory(g, b, name, dir, GrownHarm(disk, dir, harm))
  <2>1. 1 \in Slot /\ b \in Block
    BY <1>8, Slots, FreeBlock
  <2>2. g \in Image /\ Filled(g)
    BY <1>4, <2>1, GrownFilled
  <2>3. dir \in g.ibm
    BY <1>4, <2>1, GrownFields DEF GrownTo, Dirs, Roomy
  <2> HIDE DEF g, b
  <2> QED
    BY <1>4, <1>8, <2>1, <2>2, <2>3, AddDirectoryFilled
<1> QED
  BY <1>5, <1>6, <1>7, <1>8

LEMMA CpFilled ==
  ASSUME disk \in Image, Good(disk), Filled(disk), \A dir \in Dirs(disk) : Roomy(disk, dir),
         NEW path \in Path, NEW size \in Size, ext2_cp(path, size)
  PROVE  Filled(disk')
<1> DEFINE slots == [dir \in Inode |-> 0 .. BlockCount(disk, dir) - 1]
           at == Reached(disk, path, slots)
           dir == at.dir
           name == path[at.k]
           open == OpenBlocks(disk, dir, name)
           i == Min(open)
           b == find_free_block_index(disk)
           harm == IF Has(disk, dir, name) THEN "exists" ELSE "none"
           g == Grown(disk, dir, i + 1)
           more == GrownHarm(disk, dir, harm)
           k(s) == disk.inode[dir].i_block[s]
<1>1. Sound(disk, PlacesOf(disk)) /\ Own(disk) /\ Laid(disk, PlacesOf(disk))
  BY SoundParts DEF Good
<1>2. \A a \in Dirs(disk) : LooksIn(disk, a, slots[a])
  BY <1>1, SlotsToLookIn, SoundParts DEF Dirs
<1>3. dir \in Dirs(disk) /\ at.k \in 1 .. Len(path)
  BY <1>1, <1>2, LookedUp
<1>4. name \in Name /\ dir \in Inode
  BY <1>1, <1>3, Paths, Fields DEF Dirs
<1>5. open = {j \in slots[dir] : Named(Content(disk, dir, j), name) = {}}
  BY <1>4 DEF OpenBlocks
<1>6. \/ open # {} /\ add_file(disk, k(i), name, FALSE, size, harm)
      \/ open # {} /\ i + 1 = BlockCount(disk, dir) /\ disk' = g
      \/ /\ open # {} /\ i + 1 = BlockCount(disk, dir) /\ b # -1
         /\ add_file(g, b, name, FALSE, size, more)
      \/ add_file(disk, k(0), name, TRUE, size, "exists")
  <2> HIDE DEF at
  <2> QED
    BY <1>5, ZenonT(30) DEF ext2_cp, cp_new, Leaves, at
<1> HIDE DEF at, name, harm, g
<1>7. /\ Used(disk.inode[dir]) = 0 .. BlockCount(disk, dir) - 1 /\ 0 \in Used(disk.inode[dir])
      /\ BlockCount(disk, dir) \in {1, 2}
      /\ \A s \in Used(disk.inode[dir]) : k(s) \in Block
  BY <1>1, <1>3, DirectoryBlocks DEF BlockCount, Count
<1>8. open \subseteq Nat /\ open \subseteq Used(disk.inode[dir])
  BY <1>7 DEF OpenBlocks
<1> HIDE DEF open
<1>9. open # {} => i \in Used(disk.inode[dir])
  BY <1>8, MinIsLeast
<1>10. Roomy(disk, dir)
  BY <1>3
<1> HIDE DEF i, dir, more, k
<1>11. i + 1 = BlockCount(disk, dir) => g \in Image /\ Filled(g)
  <2>1. i + 1 = BlockCount(disk, dir) => i + 1 \in Slot
    BY <1>7, Slots
  <2> QED
    BY <1>10, <2>1, GrownFilled DEF g
<1>12. TRUE \in BOOLEAN /\ FALSE \in BOOLEAN
  OBVIOUS
<1>13. CASE open # {} /\ add_file(disk, k(i), name, FALSE, size, harm)
  BY <1>4, <1>7, <1>9, <1>12, <1>13, AddFileFilled
<1>14. CASE open # {} /\ i + 1 = BlockCount(disk, dir) /\ disk' = g
  BY <1>11, <1>14
<1>15. CASE /\ open # {} /\ i + 1 = BlockCount(disk, dir) /\ b # -1
            /\ add_file(g, b, name, FALSE, size, more)
  <2>1. b \in Block
    BY <1>15, FreeBlock
  <2> HIDE DEF b
  <2> QED
    BY <1>4, <1>11, <1>12, <1>15, <2>1, AddFileFilled
<1>16. CASE add_file(disk, k(0), name, TRUE, size, "exists")
  BY <1>4, <1>7, <1>12, <1>16, AddFileFilled
<1> QED
  BY <1>6, <1>13, <1>14, <1>15, <1>16

LEMMA LnFilled ==
  ASSUME disk \in Image, Good(disk), Filled(disk), \A dir \in Dirs(disk) : Roomy(disk, dir),
         NEW path \in Path, NEW ino \in Inode \cup {0}, mk_dir2(path, ino)
  PROVE  Filled(disk')
<1> DEFINE slots == [dir \in Inode |-> SlotsLookedAt(disk, dir)]
           at == Reached(disk, path, slots)
           dir == at.dir
           name == path[at.k]
           open == OpenFor(disk, dir, name)
           i == IF open = {} THEN 0 ELSE Min(open)
           c == Content(disk, dir, i)
           b == find_free_block_index(disk)
           d == [disk EXCEPT !.inode[dir].i_blocks = @ + 1,
                             !.inode[dir].i_block[2] = disk.inode[dir].i_block[1],
                             !.inode[dir].i_block[1] = b]
           e == Write([d EXCEPT !.bbm = @ \cup {b}], b, Zeros)
           harm == IF Has(disk, dir, name) THEN "exists" ELSE "none"
           k(s) == disk.inode[dir].i_block[s]
<1>1. Sound(disk, PlacesOf(disk)) /\ Own(disk) /\ Laid(disk, PlacesOf(disk))
  BY SoundParts DEF Good
<1>2. \A a \in Dirs(disk) : LooksIn(disk, a, slots[a])
  BY <1>1, SlotsToLookIn, SoundParts DEF Dirs
<1>3. dir \in Dirs(disk) /\ at.k \in 1 .. Len(path)
  BY <1>1, <1>2, LookedUp
<1>4. /\ name \in Name /\ dir \in Inode /\ 0 \in Used(disk.inode[dir]) /\ Roomy(disk, dir)
      /\ \A s \in Used(disk.inode[dir]) : k(s) \in Block
  BY <1>1, <1>3, Paths, Fields, DirectoryBlocks DEF Dirs
<1>5. open = {j \in slots[dir] : /\ Named(Content(disk, dir, j), name) = {}
                                 /\ \/ Stuck(Content(disk, dir, j))
                                    \/ new_directory_fits(Content(disk, dir, j))}
  BY <1>4 DEF OpenFor, RoomIn
<1>6. LooksIn(disk, dir, SlotsLookedAt(disk, dir))
  BY <1>2, <1>3, <1>4
<1>7. \/ ln_new(dir, name, ino, open, c)
      \/ add_hardlink(disk, k(0), TRUE, name, ino, "exists")
  <2> HIDE DEF at
  <2> QED
    BY <1>5, ZenonT(30) DEF mk_dir2, at
<1> HIDE DEF at, name, harm, open
<1>8. \/ /\ open # {} /\ ~Stuck(c)
         /\ add_hardlink(disk, k(i), FALSE, name, ino, harm)
      \/ disk' = d
      \/ b # -1 /\ add_hardlink(e, b, FALSE, name, ino, "grown")
      \/ add_hardlink(disk, k(0), TRUE, name, ino, "exists")
  <2> HIDE DEF dir
  <2> QED
    BY <1>7 DEF ln_new, Leaves, harm
<1> HIDE DEF c, i, dir, k
<1>9. TRUE \in BOOLEAN /\ FALSE \in BOOLEAN
  OBVIOUS
<1>10. CASE open # {} /\ ~Stuck(c) /\ add_hardlink(disk, k(i), FALSE, name, ino, harm)
  <2>1. open \subseteq Nat
    BY <1>6 DEF LooksIn, OpenFor, open
  <2>2. i \in open
    BY <1>10, <2>1, MinIn DEF i
  <2>3. i \in SlotsLookedAt(disk, dir) /\ RoomIn(c, name)
    BY <2>2 DEF open, OpenFor, c
  <2>4. i \in Used(disk.inode[dir])
    BY <1>6, <1>10, <2>3, ZerosTyped DEF LooksIn, c, RoomIn
  <2> QED
    BY <1>4, <1>9, <1>10, <2>4, HardlinkFilled
<1>11. b \in Block \cup {-1} /\ (b # -1 => b \in Block)
  BY FreeBlock
<1> HIDE DEF b
<1>12. CASE disk' = d
  <2>1. Filled(d)
    BY <1>4, <1>11, HalfGrownFilled, ZenonT(30)
  <2> HIDE DEF d
  <2> QED
    BY <1>12, <2>1
<1>13. CASE b # -1 /\ add_hardlink(e, b, FALSE, name, ino, "grown")
  <2>1. b \in Block
    BY <1>11, <1>13
  <2>2. e \in Image
    BY <1>4, <1>11, <2>1, HalfGrown, ZenonT(30)
  <2>3. Filled(e)
    BY <1>4, <1>11, <2>1, HalfGrownFilled, ZenonT(30)
  <2> HIDE DEF e, d
  <2> QED
    BY <1>4, <1>9, <1>13, <2>1, <2>2, <2>3, HardlinkFilled
<1>14. CASE add_hardlink(disk, k(0), TRUE, name, ino, "exists")
  BY <1>4, <1>9, <1>14, HardlinkFilled
<1> QED
  BY <1>8, <1>10, <1>12, <1>13, <1>14

\* restore_file, whatever it finds: it writes the length of an entry, and a link
\* count and a deletion time.
LEMMA RestoredFilled ==
  ASSUME NEW d \in Image, Good(d), Filled(d), NEW dir, NEW v, Stopped(d, dir, v)
  PROVE  Filled(restore_file(d, v))
<1> DEFINE c == d.block[v.b]
           n == [c EXCEPT ![v.q].rec_len = v.p - v.q]
           e == Write(d, v.b, n)
           ino == c[v.p].inode
           type == c[v.p].file_type
           f == restore_file(d, v)
           lost == [e EXCEPT !.free_inodes = @ - 1]
<1>1. Own(d) /\ v.b \in Block
  BY SoundParts DEF Good, Stopped
<1>2. e.inode = d.inode /\ e \in Image
  <2>1. v.p \in Cell /\ v.q \in Nat /\ v.q <= v.p /\ v.p \in Nat
    BY BlockSizes DEF Stopped
  <2>2. c \in [Cell -> EntryType] /\ v.p - v.q \in Nat /\ v.q \in Cell
    BY <1>1, <2>1, Fields, BlockSizes DEF Cell
  <2> HIDE DEF c
  <2>3. n \in [Cell -> EntryType]
    BY <2>2, LengthWritten
  <2> HIDE DEF n
  <2> QED
    BY <1>1, <2>3, Written DEF Rewritten
<1>3. f = IF ino \in Inode THEN RestoredInode(e, ino, type) ELSE lost
  BY Zenon DEF restore_file
<1> HIDE DEF e, ino, type, f
<1>4. Filled(e)
  BY <1>2, FilledSame
<1>5. ASSUME f = lost PROVE Filled(f)
  <2>1. lost.inode = e.inode
    BY <1>2 DEF Image
  <2> HIDE DEF lost
  <2> QED
    BY <1>4, <1>5, <2>1, FilledSame
<1>6. ASSUME ino \in Inode, f = RestoredInode(e, ino, type) PROVE Filled(f)
  <2> DEFINE r == Revived(e, ino)
             l == Linked(e, ino)
             m(g) == Marked(g, ino)
  <2>1. f = e \/ f = m(r) \/ f = m(l)
    BY <1>6 DEF RestoredInode, Marked, Linked
  <2> HIDE DEF f, m
  <2>2. BlocksOf(e.inode[ino]) \subseteq Block
    BY <1>1, <1>2, <1>6, OwnBlocks
  <2>3. /\ r \in Image
        /\ \A i \in Inode : /\ r.inode[i].i_mode = e.inode[i].i_mode
                            /\ r.inode[i].i_blocks = e.inode[i].i_blocks
                            /\ r.inode[i].i_block = e.inode[i].i_block
    BY <1>2, <1>6, <2>2, RevivedFields DEF NewFields
  <2>4. /\ l \in Image
        /\ \A i \in Inode : /\ l.inode[i].i_mode = e.inode[i].i_mode
                            /\ l.inode[i].i_blocks = e.inode[i].i_blocks
                            /\ l.inode[i].i_block = e.inode[i].i_block
    BY <1>2, <1>6, LinkedFields DEF NewFields
  <2> HIDE DEF r, l
  <2>5. ASSUME NEW g \in Image PROVE
          \A i \in Inode : /\ m(g).inode[i].i_mode = g.inode[i].i_mode
                           /\ m(g).inode[i].i_blocks = g.inode[i].i_blocks
                           /\ m(g).inode[i].i_block = g.inode[i].i_block
    <3> DEFINE h == m(g)
    <3>1. /\ \E bb, ib : NewFields(g, h, ino, h.inode[ino], bb, ib)
          /\ h.inode[ino].i_mode = g.inode[ino].i_mode
          /\ h.inode[ino].i_blocks = g.inode[ino].i_blocks
          /\ h.inode[ino].i_block = g.inode[ino].i_block
      BY <1>6, MarkedFields DEF m
    <3> HIDE DEF h
    <3>2. \A i \in Inode : /\ h.inode[i].i_mode = g.inode[i].i_mode
                           /\ h.inode[i].i_blocks = g.inode[i].i_blocks
                           /\ h.inode[i].i_block = g.inode[i].i_block
      BY <3>1 DEF NewFields
    <3> QED
      BY <3>2 DEF h
  <2>6. Filled(r) /\ Filled(l)
    BY <1>4, <2>3, <2>4, FilledSame
  <2>7. Filled(m(r)) /\ Filled(m(l))
    BY <2>3, <2>4, <2>5, <2>6, FilledSame
  <2> QED
    BY <1>4, <2>1, <2>7
<1>7. Filled(f)
  BY <1>3, <1>5, <1>6
<1> QED
  BY <1>7 DEF f

\* Every tool keeps it, and a pass.
LEMMA StepFilled ==
  ASSUME IInv, CountedIInv, Next, IInv', damage' = "none" => LastUnused(disk')
  PROVE  Filled(disk')
<1>1. disk \in Image /\ Good(disk) /\ LastUnused(disk)
  BY DEF Next, IInv, CountedIInv, Tally
<1>2. Filled(disk) /\ \A dir \in Dirs(disk) : Roomy(disk, dir)
  BY <1>1, GoodFilled
<1>3. PICK path \in Path :
        \/ ext2_mkdir(path)
        \/ \E size \in Size : ext2_cp(path, size)
        \/ \E target \in Path : ext2_ln(target, path)
        \/ ext2_ln_s(path)
        \/ ext2_rm(path)
        \/ ext2_restore(path)
  BY DEF Next
<1>4. CASE ext2_mkdir(path)
  BY <1>1, <1>2, <1>4, MkdirFilled
<1>5. CASE \E size \in Size : ext2_cp(path, size)
  BY <1>1, <1>2, <1>5, CpFilled
<1>6. CASE \E target \in Path : ext2_ln(target, path)
  <2>1. PICK target \in Path : ext2_ln(target, path)
    BY <1>6
  <2>2. PICK ino \in {get_struct(disk, target)} \ {0} : mk_dir2(path, ino)
    BY <2>1 DEF ext2_ln
  <2>3. Sound(disk, PlacesOf(disk))
    BY <1>1 DEF Good
  <2>4. ino \in Inode \cup {0}
    BY <1>1, <2>2, <2>3, StructIs
  <2> QED
    BY <1>1, <1>2, <2>2, <2>4, LnFilled
<1>7. CASE ext2_ln_s(path)
  <2>1. mk_dir2(path, 0) /\ 0 \in Inode \cup {0}
    BY <1>7 DEF ext2_ln_s
  <2> QED
    BY <1>1, <1>2, <2>1, LnFilled
<1>8. CASE ext2_rm(path)
  <2>1. CASE damage' = "first"
    <3>1. PICK ino \in disk.ibm : Unlinked(disk, disk', ino) \/ Released(disk, disk', ino)
      BY <1>1, <1>8, <2>1, RmFirst
    <3> DEFINE f == disk'
    <3>2. \A i \in Inode : /\ f.inode[i].i_mode = disk.inode[i].i_mode
                           /\ f.inode[i].i_blocks = disk.inode[i].i_blocks
                           /\ f.inode[i].i_block = disk.inode[i].i_block
      BY <3>1 DEF Unlinked, Released
    <3> HIDE DEF f
    <3>3. Filled(f)
      BY <1>2, <3>2, FilledSame
    <3> QED
      BY <3>3 DEF f
  <2>2. CASE damage' = "none"
    <3> DEFINE f == disk'
    <3>1. f \in Image /\ Good(f) /\ LastUnused(f)
      <4>1. Good(disk)'
        BY <2>2 DEF IInv
      <4>2. Good(disk')
        BY <4>1
      <4>3. disk' \in Image
        BY DEF IInv, Image
      <4> QED
        BY <2>2, <4>2, <4>3
    <3> HIDE DEF f
    <3>2. Filled(f)
      BY <3>1, GoodFilled
    <3> QED
      BY <3>2 DEF f
  <2>3. damage' \in {"none", "first"}
    BY <1>8 DEF ext2_rm, Leaves
  <2> QED
    BY <2>1, <2>2, <2>3
<1>9. CASE ext2_restore(path)
  <2>1. PICK v \in {Deleted(disk, path)} \ {NoStop} : disk' = restore_file(disk, v)
    BY <1>9 DEF ext2_restore, Leaves
  <2>2. \E dir : Stopped(disk, dir, v)
    BY <1>1, <2>1, DeletedIs DEF Good
  <2> QED
    BY <1>1, <1>2, <2>1, <2>2, RestoredFilled
<1> QED
  BY <1>3, <1>4, <1>5, <1>6, <1>7, <1>8, <1>9

\* The way along the entries of a block depends on their lengths only.
LEMMA SameShown ==
  ASSUME NEW c, Lengths(c), NEW f, \A p \in Cell : f[p].rec_len = c[p].rec_len
  PROVE  Shown(f) = Shown(c)
<1>1. Lengths(f)
  BY DEF Lengths
<1>2. \A S \in SUBSET Cell : Closed(c, S) <=> Closed(f, S)
  BY DEF Closed
<1>3. /\ Shown(c) \in SUBSET Cell /\ 0 \in Shown(c) /\ Closed(c, Shown(c))
      /\ Shown(f) \in SUBSET Cell /\ 0 \in Shown(f) /\ Closed(f, Shown(f))
  BY <1>1, ShownLeast
<1>4. Shown(c) \subseteq Shown(f)
  BY <1>2, <1>3, ShownLeast
<1>5. Shown(f) \subseteq Shown(c)
  BY <1>1, <1>2, <1>3, ShownLeast
<1> QED
  BY <1>4, <1>5

\* A pass that comes to its end has come to every place, ...
LEMMA DoneVisits ==
  ASSUME NEW d \in Image, Outcome(d) = "done"
  PROVE  \A x \in PlacesToCheck(d) : ~EndsAt(d, x)
<1> DEFINE T == {x \in PlacesToCheck(d) : EndsAt(d, x)}
<1> SUFFICES ASSUME T # {} PROVE FALSE
  OBVIOUS
<1>1. T \in SUBSET (Nat \X Nat \X Nat)
  BY PlacesNumbered
<1>2. PICK x \in T : \A y \in T : ~Before(y, x)
  <2> HIDE DEF T
  <2> QED
    BY <1>1, FirstOf
<1>3. x \in Visits(d) /\ EndsAt(d, x)
  BY <1>2 DEF Visits
<1>4. {y \in Visits(d) : EndsAt(d, y)} # {}
  BY <1>3
<1> QED
  BY <1>4 DEF Outcome

LEMMA PlaceThere ==
  ASSUME NEW d, NEW dir \in CheckedDirs(d), NEW s \in Used(d.inode[dir]),
         NEW p \in Shown(Content(d, dir, s))
  PROVE  /\ <<dir, s, p>> \in PlacesToCheck(d)
         /\ EntryAt(d, <<dir, s, p>>) = Content(d, dir, s)[p]
<1> DEFINE y == <<dir, s, p>>
           z == <<dir, s>>
           there == {<<z[1], z[2], q>> : q \in Shown(Content(d, z[1], z[2]))}
<1>1. z \in {x \in CheckedDirs(d) \X Slot : x[2] < BlockCount(d, x[1])}
  BY DEF Used, Count, BlockCount
<1>2. y \in there
  OBVIOUS
<1>3. there \subseteq PlacesToCheck(d)
  <2> HIDE DEF z
  <2> QED
    BY <1>1 DEF PlacesToCheck
<1>4. EntryAt(d, y) = Content(d, dir, s)[p]
  BY DEF EntryAt
<1> HIDE DEF y, there
<1>5. y \in PlacesToCheck(d)
  BY <1>2, <1>3
<1> QED
  BY <1>4, <1>5 DEF y

LEMMA FirstCell ==
  ASSUME NEW d \in Image, NEW x \in PlacesToCheck(d)
  PROVE  /\ x[1] \in CheckedDirs(d) /\ x[2] \in Used(d.inode[x[1]])
         /\ x[3] \in Shown(Content(d, x[1], x[2])) /\ x[3] \in Cell
<1>1. PICK w \in CheckedDirs(d) \X Slot :
        /\ w[2] < BlockCount(d, w[1])
        /\ \E q \in Shown(Content(d, w[1], w[2])) : x = <<w[1], w[2], q>>
  BY DEF PlacesToCheck
<1>2. PICK q \in Shown(Content(d, w[1], w[2])) : x = <<w[1], w[2], q>>
  BY <1>1
<1>3. x[1] = w[1] /\ x[2] = w[2] /\ x[3] = q
  BY <1>2
<1>4. x[1] \in CheckedDirs(d) /\ x[2] \in Used(d.inode[x[1]]) /\ x[3] \in Shown(Content(d, x[1], x[2]))
  BY <1>1, <1>2, <1>3 DEF Used, Count, BlockCount
<1>5. Content(d, x[1], x[2]) \in [Cell -> EntryType]
  BY Fields, ZerosTyped, Zenon DEF Content
<1>6. Shown(Content(d, x[1], x[2])) \subseteq Cell
  BY <1>5, ShownLeast, EntryLengths
<1> QED
  BY <1>4, <1>6

\* ... and found a block in every slot.
LEMMA DoneBlocks ==
  ASSUME NEW d \in Image, \A x \in PlacesToCheck(d) : ~EndsAt(d, x),
         NEW dir \in CheckedDirs(d), NEW s \in Used(d.inode[dir])
  PROVE  d.inode[dir].i_block[s] \in Block
<1> DEFINE b == d.inode[dir].i_block[s]
<1>1. b \in {-1, 0} \cup Block
  <2>1. dir \in Inode /\ s \in Slot
    BY DEF CheckedDirs, Used
  <2>2. d.inode[dir].i_block \in [Slot -> {-1, 0} \cup Block]
    BY <2>1, Fields, InodeFields
  <2> QED
    BY <2>1, <2>2
<1>2. SUFFICES ASSUME b \notin Block PROVE FALSE
  OBVIOUS
<1>3. Content(d, dir, s) = Zeros
  BY <1>2 DEF Content
<1>4. /\ <<dir, s, 0>> \in PlacesToCheck(d) /\ EntryAt(d, <<dir, s, 0>>) = Zero
  BY <1>3, PlaceThere, ZerosTyped, BlockSizes
<1>5. EndsAt(d, <<dir, s, 0>>)
  <2>1. Zero.rec_len = 0
    BY DEF Zero, Entry
  <2> QED
    BY <1>4, <2>1 DEF EndsAt
<1> QED
  BY <1>4, <1>5

\* No block is missing then.
LEMMA NoneMissing ==
  ASSUME NEW d \in Image, Filled(d), \A x \in PlacesToCheck(d) : ~EndsAt(d, x),
         NEW listed, listed \subseteq Inode
  PROVE  NoBlocks(d, listed) = {}
<1> SUFFICES ASSUME NEW x \in listed \X Slot, x[2] < BlockCount(d, x[1]),
                    d.inode[x[1]].i_block[x[2]] = -1
             PROVE  FALSE
  BY DEF NoBlocks
<1> DEFINE i == x[1]
           s == x[2]
<1>1. i \in Inode /\ s \in Used(d.inode[i]) /\ d.inode[i].i_block[s] = -1
  BY DEF Used, Count, BlockCount
<1> HIDE DEF i, s
<1>2. FilledInode(i, d.inode[i])
  BY <1>1 DEF Filled
<1>3. CASE d.inode[i].i_mode = "dir"
  <2>1. i \in CheckedDirs(d)
    BY <1>1, <1>2, <1>3 DEF FilledInode, CheckedDirs
  <2>2. d.inode[i].i_block[s] \in Block
    BY <1>1, <2>1, DoneBlocks
  <2> QED
    BY <1>1, <2>2, Numbers
<1>4. CASE d.inode[i].i_mode # "dir"
  BY <1>1, <1>2, <1>4 DEF FilledInode
<1> QED
  BY <1>3, <1>4

\* What a pass repairs.
LEMMA CheckedRepairs ==
  ASSUME NEW d \in Image, NEW first, first = FirstVisits(d), NEW listed, listed = Listed(d, first)
  PROVE  /\ Checked(d).ibm = d.ibm \cup listed
         /\ Checked(d).bbm = d.bbm \cup LostBlocks(d, listed)
         /\ Checked(d).free_inodes = FreeInodes(d) - Cardinality(Unmarked(d, listed))
         /\ Checked(d).free_blocks = FreeBlocks(d) - Cardinality(LostBlocks(d, listed))
                                       - Cardinality(NoBlocks(d, listed))
         /\ \A i \in listed : i \in Inode /\ ~Checked(d).inode[i].i_dtime
         /\ \A x \in first : \A b \in Block : b = d.inode[x[1]].i_block[x[2]] =>
              Checked(d).block[b][x[3]].file_type = TypeOf(d, d.block[b][x[3]].inode)
<1> DEFINE e == Checked(d)
           it == [ino \in Inode |-> Undeleted(d, ino, listed)]
           bt == Retyped(d, first)
           fi == FreeInodes(d) - Cardinality(Unmarked(d, listed))
           fb == FreeBlocks(d) - Cardinality(LostBlocks(d, listed)) - Cardinality(NoBlocks(d, listed))
<1>1. e = Repaired(d, first, listed)
  BY DEF Checked
<1>2. \A x \in first : /\ EntryAt(d, x).inode \in Inode
                       /\ \A b \in Block : b = d.inode[x[1]].i_block[x[2]]
                                             => EntryAt(d, x) = d.block[b][x[3]]
  BY VisitsTyped
<1>3. listed \subseteq Inode
  BY <1>2 DEF Listed
<1> HIDE DEF e
<1>4. /\ e.ibm = d.ibm \cup listed /\ e.bbm = d.bbm \cup LostBlocks(d, listed)
      /\ e.free_inodes = fi /\ e.free_blocks = fb /\ e.inode = it /\ e.block = bt
  <2>1. e = [d EXCEPT !.block = bt, !.ibm = d.ibm \cup listed,
                      !.bbm = d.bbm \cup LostBlocks(d, listed),
                      !.free_inodes = fi, !.free_blocks = fb, !.inode = it]
    BY <1>1, Zenon DEF Repaired
  <2> HIDE DEF it, bt, fi, fb
  <2> QED
    BY <2>1 DEF Image
<1>5. ASSUME NEW i \in listed PROVE i \in Inode /\ ~e.inode[i].i_dtime
  <2>1. i \in Inode /\ d.inode[i] \in InodeType
    BY <1>3, Fields
  <2>2. e.inode[i] = Undeleted(d, i, listed)
    BY <1>4, <2>1
  <2> QED
    BY <2>1, <2>2 DEF Undeleted, InodeType
<1>6. ASSUME NEW x \in first, NEW b \in Block, b = d.inode[x[1]].i_block[x[2]]
      PROVE  e.block[b][x[3]].file_type = TypeOf(d, d.block[b][x[3]].inode)
  <2> DEFINE p == x[3]
             r == d.block[b][p]
             t == TypeOf(d, r.inode)
             wrong == {<<d.inode[z[1]].i_block[z[2]], z[3]>> : z \in Mistyped(d, first)}
  <2>1. EntryAt(d, x) = r
    BY <1>2, <1>6
  <2>2. p \in Cell
    <3>1. x \in PlacesToCheck(d)
      BY <1>6 DEF FirstVisits, Visits
    <3> QED
      BY <3>1, FirstCell
  <2>3. e.block[b][p] = IF <<b, p>> \in wrong THEN [r EXCEPT !.file_type = t] ELSE r
    BY <1>4, <2>2 DEF Retyped
  <2>4. r \in EntryType
    BY <2>2, Fields
  <2>5. r.file_type # t => <<b, p>> \in wrong
    BY <1>6, <2>1 DEF Mistyped
  <2> HIDE DEF p, r, t, wrong
  <2>6. e.block[b][p].file_type = t
    BY <2>3, <2>4, <2>5 DEF EntryType
  <2> QED
    BY <2>6 DEF p, r, t
<1> QED
  BY <1>4, <1>5, <1>6 DEF e

\* A second pass takes the way of the first.
LEMMA SameWay ==
  ASSUME NEW d \in Image, NEW e, e = Checked(d)
  PROVE  /\ PlacesToCheck(e) = PlacesToCheck(d) /\ FirstVisits(e) = FirstVisits(d)
         /\ Outcome(e) = Outcome(d)
         /\ \A x \in PlacesToCheck(d) : EntryAt(e, x).inode = EntryAt(d, x).inode
<1>1. /\ \A i \in Inode : /\ e.inode[i].i_mode = d.inode[i].i_mode
                          /\ e.inode[i].i_blocks = d.inode[i].i_blocks
                          /\ e.inode[i].i_block = d.inode[i].i_block
      /\ \A b \in Block, p \in Cell : /\ e.block[b][p].rec_len = d.block[b][p].rec_len
                                      /\ e.block[b][p].inode = d.block[b][p].inode
  BY CheckedKeeps, ZenonT(30)
<1>2. ASSUME NEW b \in Block
      PROVE  /\ Shown(e.block[b]) = Shown(d.block[b])
             /\ \A p \in Shown(d.block[b]) : /\ e.block[b][p].inode = d.block[b][p].inode
                                             /\ e.block[b][p].rec_len = d.block[b][p].rec_len
  <2>1. Lengths(d.block[b])
    BY Fields, EntryLengths
  <2>2. Shown(e.block[b]) = Shown(d.block[b]) /\ Shown(d.block[b]) \subseteq Cell
    BY <1>1, <2>1, SameShown, ShownLeast
  <2> QED
    BY <1>1, <2>2
<1> QED
  BY <1>1, <1>2, SameVisits

\* What is marked more is counted as used.
LEMMA MarkedMore ==
  ASSUME NEW A, IsFiniteSet(A), NEW B, IsFiniteSet(B)
  PROVE  /\ Cardinality(A \cup B) = Cardinality(A) + Cardinality(B \ A)
         /\ Cardinality(A) \in Nat /\ Cardinality(B \ A) \in Nat
<1>1. IsFiniteSet(B \ A) /\ A \cap (B \ A) = {} /\ A \cup (B \ A) = A \cup B
  BY FS_Difference
<1>2. Cardinality(A) \in Nat /\ Cardinality(B \ A) \in Nat
  BY <1>1, FS_CardinalityType
<1>3. Cardinality(A \cup B) = Cardinality(A) + Cardinality(B \ A) - Cardinality({})
  BY <1>1, FS_Union
<1> QED
  BY <1>2, <1>3, FS_EmptySet

\* There is nothing left to repair for it.
LEMMA SecondPass ==
  ASSUME NEW d \in Image, Filled(d), Outcome(d) = "done", NEW e, e = Checked(d)
  PROVE  /\ e.free_inodes = FreeInodes(e) /\ e.free_blocks = FreeBlocks(e)
         /\ Outcome(e) = "done" /\ Checked(e) = e /\ Fixes(e) = 0
         /\ \A ino \in Listed(d, FirstVisits(d)) :
              /\ ino \in e.ibm /\ ~e.inode[ino].i_dtime
              /\ FileBlocks(e, ino) \cap Block \subseteq e.bbm
<1> DEFINE first  == FirstVisits(d)
           listed == Listed(d, first)
<1>1. e \in Image /\ d.ibm \subseteq Inode /\ d.bbm \subseteq Block
  BY CheckedTyped, Fields
<1>2. \A x \in PlacesToCheck(d) : ~EndsAt(d, x)
  BY DoneVisits
<1>3. /\ PlacesToCheck(e) = PlacesToCheck(d) /\ FirstVisits(e) = first
      /\ Outcome(e) = "done"
      /\ \A x \in PlacesToCheck(d) : EntryAt(e, x).inode = EntryAt(d, x).inode
  BY SameWay
<1>4. first \subseteq PlacesToCheck(d)
  BY DEF FirstVisits, Visits
<1>5. Listed(e, first) = listed
  BY <1>3, <1>4 DEF Listed
<1>6. /\ e.ibm = d.ibm \cup listed /\ e.bbm = d.bbm \cup LostBlocks(d, listed)
      /\ e.free_inodes = FreeInodes(d) - Cardinality(Unmarked(d, listed))
      /\ e.free_blocks = FreeBlocks(d) - Cardinality(LostBlocks(d, listed))
                           - Cardinality(NoBlocks(d, listed))
      /\ \A i \in listed : i \in Inode /\ ~e.inode[i].i_dtime
      /\ \A x \in first : \A b \in Block : b = d.inode[x[1]].i_block[x[2]] =>
           e.block[b][x[3]].file_type = TypeOf(d, d.block[b][x[3]].inode)
  BY CheckedRepairs
<1>7. /\ \A i \in Inode : /\ e.inode[i].i_mode = d.inode[i].i_mode
                          /\ e.inode[i].i_blocks = d.inode[i].i_blocks
                          /\ e.inode[i].i_block = d.inode[i].i_block
      /\ \A b \in Block, p \in Cell : e.block[b][p].inode = d.block[b][p].inode
  BY CheckedKeeps, ZenonT(30)
<1>8. \A x \in PlacesToCheck(e) : ~EndsAt(e, x)
  BY <1>1, <1>3, DoneVisits
<1>9. Filled(e)
  BY <1>7, FilledSame
<1> HIDE DEF first
<1>10. listed \subseteq Inode
  BY <1>6
<1> HIDE DEF listed
<1>11. NoBlocks(d, listed) = {} /\ NoBlocks(e, listed) = {}
  BY <1>1, <1>2, <1>8, <1>9, <1>10, NoneMissing
<1>12. \A i \in listed : FileBlocks(e, i) = FileBlocks(d, i)
  BY <1>7, <1>10 DEF FileBlocks, BlockCount
<1>13. LostBlocks(e, listed) = {} /\ \A i \in listed : FileBlocks(e, i) \cap Block \subseteq e.bbm
  BY <1>6, <1>12 DEF LostBlocks
<1>14. Unmarked(e, listed) = {} /\ Deceased(e, listed) = {}
  BY <1>6 DEF Unmarked, Deceased
<1>15. Mistyped(e, first) = {}
  <2> SUFFICES ASSUME NEW x \in first PROVE EntryAt(e, x).file_type = TypeOf(e, EntryAt(e, x).inode)
    BY DEF Mistyped
  <2> DEFINE b == d.inode[x[1]].i_block[x[2]]
             p == x[3]
  <2>1. x \in PlacesToCheck(d) /\ x[1] \in CheckedDirs(d) /\ x[2] \in Used(d.inode[x[1]]) /\ p \in Cell
    BY <1>4, FirstCell
  <2>2. b \in Block
    BY <1>2, <2>1, DoneBlocks
  <2>3. e.inode[x[1]].i_block[x[2]] = b
    BY <1>7, <2>1 DEF CheckedDirs
  <2>4. EntryAt(e, x) = e.block[b][p]
    BY <2>2, <2>3 DEF EntryAt, Content
  <2>5. EntryAt(d, x).inode \in Inode /\ EntryAt(d, x) = d.block[b][p]
    <3>1. x \in FirstVisits(d)
      BY DEF first
    <3> QED
      BY <2>2, <3>1, VisitsTyped
  <2> HIDE DEF b, p
  <2>6. e.block[b][p].file_type = TypeOf(d, d.block[b][p].inode)
    BY <1>6, <2>2 DEF b, p
  <2>7. e.block[b][p].inode = d.block[b][p].inode /\ d.block[b][p].inode \in Inode
    BY <1>7, <2>1, <2>2, <2>5
  <2>8. TypeOf(e, d.block[b][p].inode) = TypeOf(d, d.block[b][p].inode)
    BY <1>7, <2>7 DEF TypeOf
  <2> QED
    BY <2>4, <2>6, <2>7, <2>8
<1>16. e.free_inodes = FreeInodes(e)
  <2>1. IsFiniteSet(d.ibm) /\ IsFiniteSet(listed)
    BY <1>1, <1>10, Numbers, FS_Subset
  <2>2. /\ Cardinality(e.ibm) = Cardinality(d.ibm) + Cardinality(Unmarked(d, listed))
        /\ Cardinality(d.ibm) \in Nat /\ Cardinality(Unmarked(d, listed)) \in Nat
    BY <1>6, <2>1, MarkedMore DEF Unmarked
  <2> QED
    BY <1>6, <2>2, SizesAssumption DEF FreeInodes
<1>17. e.free_blocks = FreeBlocks(e)
  <2> DEFINE L == LostBlocks(d, listed)
  <2>1. L \subseteq Block /\ L \ d.bbm = L
    BY DEF LostBlocks
  <2>2. IsFiniteSet(d.bbm) /\ IsFiniteSet(L)
    BY <1>1, <2>1, Numbers, FS_Subset
  <2> HIDE DEF L
  <2>3. Cardinality(d.bbm \cup L) = Cardinality(d.bbm) + Cardinality(L)
        /\ Cardinality(d.bbm) \in Nat /\ Cardinality(L) \in Nat
    BY <2>1, <2>2, MarkedMore
  <2>4. e.free_blocks = FreeBlocks(d) - Cardinality(L) - 0 /\ e.bbm = d.bbm \cup L
    BY <1>6, <1>11, FS_EmptySet DEF L
  <2> QED
    BY <2>3, <2>4, SizesAssumption DEF FreeBlocks
<1>18. Checked(e) = e
  <2>1. Checked(e) = Repaired(e, first, listed)
    BY <1>3, <1>5 DEF Checked
  <2>2. Repaired(e, first, listed) = Counters(e)
    BY <1>1, <1>6, <1>11, <1>13, <1>15, NoRepair
  <2>3. Counters(e) = e
    BY <1>1, <1>16, <1>17 DEF Counters, Image
  <2> QED
    BY <2>1, <2>2, <2>3
<1>19. Fixes(e) = 0
  <2>1. \A n \in Int : Off(n, n) = 0
    BY DEF Off
  <2>2. Off(e.free_inodes, FreeInodes(e)) = 0 /\ Off(e.free_blocks, FreeBlocks(e)) = 0
    BY <1>1, <1>16, <1>17, <2>1, CountersTyped
  <2>3. Fixes(e) = 2 * 0 + 2 * 0 + Cardinality({}) + Cardinality({}) + Cardinality({})
                     + Cardinality({}) + Cardinality({})
    BY <1>3, <1>5, <1>11, <1>13, <1>14, <1>15, <2>2, Zenon DEF Fixes
  <2> QED
    BY <2>3, FS_EmptySet
<1>20. \A i \in listed : i \in e.ibm /\ ~e.inode[i].i_dtime
  BY <1>6
<1> QED
  BY <1>3, <1>13, <1>16, <1>17, <1>18, <1>19, <1>20 DEF listed, first

\* What a directory in use names is listed.
LEMMA EntryListed ==
  ASSUME disk \in Image, Filled(disk), \A x \in PlacesToCheck(disk) : ~EndsAt(disk, x),
         NEW dir \in Directories, NEW x \in Places(dir), At(dir, x).inode # 0
  PROVE  At(dir, x).inode \in Listed(disk, FirstVisits(disk))
<1>1. dir \in Inode /\ disk.inode[dir].i_mode = "dir"
  BY Fields DEF Directories
<1>2. dir # s_inodes_count /\ Count(disk.inode[dir]) <= 3
  BY <1>1 DEF Filled, FilledInode
<1>3. dir \in CheckedDirs(disk)
  BY <1>1, <1>2 DEF CheckedDirs
<1> DEFINE s == x[1]
           p == x[2]
           n == Count(disk.inode[dir])
<1>4. /\ s \in 0 .. n - 1 /\ p \in Shown(Content(disk, dir, s))
      /\ At(dir, x) = Content(disk, dir, s)[p]
  BY DEF Places, At, BlockCount, Count
<1>5. n \in Nat /\ n <= 3
  BY <1>1, <1>2, Fields, InodeFields
<1>6. s \in Used(disk.inode[dir])
  <2> HIDE DEF s, n
  <2>1. s \in {0, 1, 2} /\ s < n
    BY <1>4, <1>5
  <2>2. s \in Slot
    BY <2>1, Slots
  <2> QED
    BY <2>1, <2>2 DEF Used, n
<1> HIDE DEF s, p, n
<1>7. /\ <<dir, s, p>> \in PlacesToCheck(disk)
      /\ EntryAt(disk, <<dir, s, p>>) = At(dir, x)
  BY <1>3, <1>4, <1>6, PlaceThere
<1> DEFINE y == <<dir, s, p>>
<1>8. y \in PlacesToCheck(disk) /\ EntryAt(disk, y) = At(dir, x)
  BY <1>7
<1> HIDE DEF y
<1> QED
  BY <1>8, VisitedIsListed

\* Where a pass comes to its end the entries have the types of their inodes.
LEMMA PassableTypes ==
  ASSUME NEW d \in Image, Passable(d), NEW x \in PlacesToCheck(d)
  PROVE  EntryAt(d, x).file_type = TypeOf(d, EntryAt(d, x).inode)
<1> DEFINE dir == x[1]
           s == x[2]
           p == x[3]
           b == d.inode[dir].i_block[s]
<1>1. /\ dir \in CheckedDirs(d) /\ s \in Used(d.inode[dir])
      /\ p \in Shown(Content(d, dir, s)) /\ p \in Cell
      /\ EntryAt(d, x) = Content(d, dir, s)[p]
  BY FirstCell DEF EntryAt
<1> HIDE DEF dir, s, p
<1>2. b \in Block /\ Walk(d.block[b], Modes(d))
  <2>1. 0 \notin Block
    BY Numbers
  <2> QED
    BY <1>1, <2>1 DEF CheckedDirs, Passable, PassableBut
<1>3. Content(d, dir, s) = d.block[b]
  BY <1>2 DEF Content
<1> DEFINE r == d.block[b][p]
<1>4. EntryAt(d, x) = r /\ <<r.inode, r.file_type>> \in Modes(d) /\ r \in EntryType
  BY <1>1, <1>2, <1>3, Fields DEF Walk
<1> HIDE DEF r
<1>5. r.file_type = d.inode[r.inode].i_mode /\ r.file_type # "none"
  BY <1>4 DEF Modes, EntryType
<1> QED
  BY <1>4, <1>5 DEF TypeOf

\* No tool and no pass leaves a slot of a file without a block, or takes a
\* directory beyond its third slot or for the last inode.
LEMMA FilledInvariance == CheckedSpec => []Filled(disk)
<1>1. CheckedInit => Filled(disk)
  <2> SUFFICES ASSUME CheckedInit PROVE Filled(disk)
    OBVIOUS
  <2>1. disk = Formatted /\ Good(disk) /\ disk \in Image
    BY FormattedGood DEF CheckedInit, Init, IInv, Damages
  <2>2. LastUnused(disk)
    BY <2>1, FormattedTally DEF Tally
  <2> QED
    BY <2>1, <2>2, GoodFilled
<1>2. ASSUME IInv, CountedIInv, Filled(disk), IInv', CountedIInv', [CheckedNext]_checkedVars
      PROVE  Filled(disk)'
  <2>1. disk \in Image
    BY <1>2 DEF IInv
  <2>2. damage' = "none" => LastUnused(disk')
    BY <1>2 DEF CountedIInv, Tally, LastUnused
  <2>3. Filled(disk')
    <3>1. CASE Next /\ UNCHANGED recounted
      BY <1>2, <2>2, <3>1, StepFilled
    <3>2. CASE ext2_checker
      <4>1. disk' = Checked(disk)
        BY <3>2 DEF ext2_checker
      <4>2. \A i \in Inode : /\ Checked(disk).inode[i].i_mode = disk.inode[i].i_mode
                             /\ Checked(disk).inode[i].i_blocks = disk.inode[i].i_blocks
                             /\ Checked(disk).inode[i].i_block = disk.inode[i].i_block
        BY <2>1, CheckedKeeps, ZenonT(30)
      <4>3. Filled(Checked(disk))
        BY <1>2, <4>2, FilledSame
      <4> QED
        BY <4>1, <4>3
    <3>3. CASE UNCHANGED checkedVars
      BY <1>2, <3>3 DEF checkedVars
    <3> QED
      BY <1>2, <3>1, <3>2, <3>3 DEF CheckedNext
  <2> QED
    BY <2>3, Zenon DEF Filled, FilledInode, Count, Used
<1> QED
  BY <1>1, <1>2, CheckedInvariance, CountedInvariance, PTL DEF CheckedSpec

\* Whatever the damage, after a pass that came to its end the counters are those
\* of the bitmaps, all that an entry of a directory in use names is marked in use
\* with its blocks and not marked deleted, every entry has the type of its inode
\* but where a removed one is back in view, and a second pass comes to its end and
\* finds nothing to repair, after any sequence of tools and passes.
THEOREM CheckerMendsStay == CheckedSpec => []CheckerMends
<1>1. ASSUME PassIInv, Filled(disk) PROVE CheckerMends
  <2> SUFFICES ASSUME damage # "none", Outcome(disk) = "done"
               PROVE  \E d \in {Checked(disk)} :
                        /\ d.free_inodes = FreeInodes(d) /\ d.free_blocks = FreeBlocks(d)
                        /\ \A dir \in Directories : \A x \in Places(dir) :
                             LET ino == At(dir, x).inode
                             IN  ino # 0 => /\ ino \in d.ibm /\ ~d.inode[ino].i_dtime
                                            /\ FileBlocks(d, ino) \cap Block \subseteq d.bbm
                        /\ damage \notin {"stale", "full"} =>
                             \A x \in PlacesToCheck(d) :
                               EntryAt(d, x).inode # 0 =>
                                 EntryAt(d, x).file_type = TypeOf(d, EntryAt(d, x).inode)
                        /\ Outcome(d) = "done" /\ Checked(d) = d /\ Fixes(d) = 0
    BY Zenon DEF CheckerMends
  <2>1. disk \in Image
    BY <1>1 DEF PassIInv, IInv
  <2>2. PICK e : e = Checked(disk)
    OBVIOUS
  <2>3. /\ e.free_inodes = FreeInodes(e) /\ e.free_blocks = FreeBlocks(e)
        /\ Outcome(e) = "done" /\ Checked(e) = e /\ Fixes(e) = 0
        /\ \A ino \in Listed(disk, FirstVisits(disk)) :
             /\ ino \in e.ibm /\ ~e.inode[ino].i_dtime
             /\ FileBlocks(e, ino) \cap Block \subseteq e.bbm
    BY <1>1, <2>1, <2>2, SecondPass
  <2>4. \A x \in PlacesToCheck(disk) : ~EndsAt(disk, x)
    BY <2>1, DoneVisits
  <2>5. ASSUME NEW dir \in Directories, NEW x \in Places(dir), At(dir, x).inode # 0
        PROVE  /\ At(dir, x).inode \in e.ibm /\ ~e.inode[At(dir, x).inode].i_dtime
               /\ FileBlocks(e, At(dir, x).inode) \cap Block \subseteq e.bbm
    <3>1. At(dir, x).inode \in Listed(disk, FirstVisits(disk))
      BY <1>1, <2>1, <2>4, <2>5, EntryListed
    <3> QED
      BY <2>3, <3>1
  <2>6. ASSUME damage \notin {"stale", "full"}, NEW x \in PlacesToCheck(e)
        PROVE  EntryAt(e, x).file_type = TypeOf(e, EntryAt(e, x).inode)
    <3>1. Passable(disk)
      BY <1>1, <2>6 DEF PassIInv
    <3>2. e \in Image /\ Passable(e)
      BY <2>1, <2>2, <3>1, CheckedTyped, CheckedPass
    <3> QED
      BY <2>6, <3>2, PassableTypes
  <2> e \in {Checked(disk)}
    BY <2>2
  <2> WITNESS e \in {Checked(disk)}
  <2> QED
    BY <2>3, <2>5, <2>6, Zenon
<1> QED
  BY <1>1, PassInvariance, FilledInvariance, PTL

-----------------------------------------------------------------------------
(* The tree of names.                                                      *)

\* A path is read along the edges: the names before the last lead to a
\* directory, and there is an edge from it.
Reads(E, path, ino) ==
  \E w : Route(E, path, w) /\ <<w[Len(path)], Last(path), ino>> \in E

\* Edges from directories of D, one for each name, none to the root, and no two
\* to the same directory.
OneWay(E, D) ==
  /\ \A a, m, i : <<a, m, i>> \in E => a \in D /\ i # EXT2_ROOT_INO
  /\ \A a, m, i, j : <<a, m, i>> \in E /\ <<a, m, j>> \in E => i = j
  /\ \A a, b, m, n, i : <<a, m, i>> \in E /\ <<b, n, i>> \in E /\ i \in D => a = b /\ m = n

\* There is one route along a path.
LEMMA SameRoute ==
  ASSUME NEW E, NEW D, OneWay(E, D), NEW path \in Path, NEW v, NEW w,
         Route(E, path, v), Route(E, path, w)
  PROVE  \A k \in 1 .. Len(path) : v[k] = w[k]
<1> DEFINE n == Len(path)
           T == {k \in 1 .. n : v[k] = w[k]}
<1>1. n \in Nat /\ 1 <= n /\ 1 \in Nat
  BY Paths
<1>2. /\ v[1] = w[1]
      /\ \A k \in 1 .. n - 1 : <<v[k], path[k], v[k + 1]>> \in E /\ <<w[k], path[k], w[k + 1]>> \in E
  BY DEF Route
<1> HIDE DEF n
<1>3. 1 \in T
  BY <1>1, <1>2
<1>4. \A k \in 1 + 1 .. n : k - 1 \in T => k \in T
  <2> SUFFICES ASSUME NEW k \in 1 + 1 .. n, v[k - 1] = w[k - 1] PROVE k \in 1 .. n /\ v[k] = w[k]
    OBVIOUS
  <2>1. k \in 1 .. n /\ k - 1 \in 1 .. n - 1 /\ (k - 1) + 1 = k
    BY <1>1
  <2>2. <<v[k - 1], path[k - 1], v[k]>> \in E /\ <<v[k - 1], path[k - 1], w[k]>> \in E
    BY <1>2, <2>1
  <2> QED
    BY <2>1, <2>2 DEF OneWay
<1>5. 1 .. n \subseteq T
  <2> HIDE DEF T
  <2> QED
    BY <1>1, <1>3, <1>4, StepByStep
<1> QED
  BY <1>5 DEF n

\* And one path to a directory.
LEMMA SamePathUpto ==
  ASSUME NEW E, NEW D, OneWay(E, D), NEW p \in Path, NEW q \in Path, NEW v, NEW w,
         Route(E, p, v), Route(E, q, w), v[Len(p)] = w[Len(q)], v[Len(p)] \in D,
         Len(p) <= Len(q)
  PROVE  Len(p) = Len(q) /\ \A k \in 1 .. Len(p) - 1 : p[k] = q[k]
<1> DEFINE m == Len(p)
           n == Len(q)
           T == {j \in 0 .. m - 1 : /\ v[m - j] = w[n - j] /\ v[m - j] \in D
                                    /\ \A i \in 1 .. j : p[m - i] = q[n - i]}
<1>1. m \in Nat /\ n \in Nat /\ 1 <= m /\ m <= n /\ 0 \in Nat /\ m - 1 \in Nat
  BY Paths
<1>2. /\ v[1] = EXT2_ROOT_INO /\ w[1] = EXT2_ROOT_INO /\ v[m] = w[n] /\ v[m] \in D
      /\ \A k \in 1 .. m - 1 : <<v[k], p[k], v[k + 1]>> \in E
      /\ \A k \in 1 .. n - 1 : <<w[k], q[k], w[k + 1]>> \in E
  BY DEF Route
<1> HIDE DEF m, n
<1>3. 0 \in T
  BY <1>1, <1>2
<1>4. \A j \in 0 + 1 .. m - 1 : j - 1 \in T => j \in T
  <2> SUFFICES ASSUME NEW j \in 0 + 1 .. m - 1, j - 1 \in T
               PROVE  /\ j \in 0 .. m - 1 /\ v[m - j] = w[n - j] /\ v[m - j] \in D
                      /\ \A i \in 1 .. j : p[m - i] = q[n - i]
    OBVIOUS
  <2>1. /\ m - j \in 1 .. m - 1 /\ n - j \in 1 .. n - 1 /\ j \in 0 .. m - 1
        /\ (m - j) + 1 = m - (j - 1) /\ (n - j) + 1 = n - (j - 1)
        /\ \A i \in 1 .. j : i = j \/ i \in 1 .. j - 1
    BY <1>1
  <2>2. /\ v[(m - j) + 1] = w[(n - j) + 1] /\ v[(m - j) + 1] \in D
        /\ \A i \in 1 .. j - 1 : p[m - i] = q[n - i]
    BY <2>1
  <2>3. /\ <<v[m - j], p[m - j], v[(m - j) + 1]>> \in E
        /\ <<w[n - j], q[n - j], v[(m - j) + 1]>> \in E
    BY <1>2, <2>1, <2>2
  <2>4. v[m - j] = w[n - j] /\ p[m - j] = q[n - j] /\ v[m - j] \in D
    BY <2>2, <2>3 DEF OneWay
  <2> QED
    BY <2>1, <2>2, <2>4
<1>5. 0 .. m - 1 \subseteq T
  <2> HIDE DEF T
  <2> QED
    BY <1>1, <1>3, <1>4, StepByStep
<1>6. m - 1 \in T
  <2> HIDE DEF T
  <2>1. m - 1 \in 0 .. m - 1
    BY <1>1
  <2> QED
    BY <1>5, <2>1
<1>7. w[n - (m - 1)] = EXT2_ROOT_INO /\ \A i \in 1 .. m - 1 : p[m - i] = q[n - i]
  <2>1. m - (m - 1) = 1
    BY <1>1
  <2> QED
    BY <1>2, <1>6, <2>1
<1>8. m = n
  <2> SUFFICES ASSUME m # n PROVE FALSE
    OBVIOUS
  <2>1. n - m \in 1 .. n - 1 /\ (n - m) + 1 = n - (m - 1)
    BY <1>1
  <2>2. <<w[n - m], q[n - m], w[n - (m - 1)]>> \in E
    BY <1>2, <2>1
  <2> QED
    BY <1>7, <2>2 DEF OneWay
<1>9. ASSUME NEW k \in 1 .. m - 1 PROVE p[k] = q[k]
  <2>1. m - k \in 1 .. m - 1 /\ m - (m - k) = k /\ n - (m - k) = k
    BY <1>1, <1>8
  <2> QED
    BY <1>7, <2>1
<1> QED
  BY <1>8, <1>9 DEF m, n

LEMMA SamePath ==
  ASSUME NEW E, NEW D, OneWay(E, D), NEW p \in Path, NEW q \in Path, NEW v, NEW w,
         Route(E, p, v), Route(E, q, w), v[Len(p)] = w[Len(q)], v[Len(p)] \in D,
         Last(p) = Last(q)
  PROVE  p = q
<1>1. /\ Len(p) \in Nat /\ Len(q) \in Nat /\ Last(p) = p[Len(p)] /\ Last(q) = q[Len(q)]
      /\ p \in Seq(Name) /\ q \in Seq(Name)
  BY Paths, NameAssumption
<1>2. Len(p) = Len(q) /\ \A k \in 1 .. Len(p) - 1 : p[k] = q[k]
  <2>1. CASE Len(p) <= Len(q)
    BY <2>1, SamePathUpto
  <2>2. CASE Len(q) <= Len(p)
    <3>1. Len(q) = Len(p) /\ \A k \in 1 .. Len(q) - 1 : q[k] = p[k]
      BY <2>2, SamePathUpto
    <3> QED
      BY <3>1
  <2> QED
    BY <1>1, <2>1, <2>2
<1>3. \A k \in 1 .. Len(p) : p[k] = q[k]
  <2> SUFFICES ASSUME NEW k \in 1 .. Len(p) PROVE p[k] = q[k]
    OBVIOUS
  <2>1. k = Len(p) \/ k \in 1 .. Len(p) - 1
    BY <1>1
  <2> QED
    BY <1>1, <1>2, <2>1
<1> QED
  BY <1>1, <1>2, <1>3

\* So a path names one thing.
LEMMA ReadsOne ==
  ASSUME NEW E, NEW D, OneWay(E, D), NEW path \in Path, NEW i, NEW j,
         Reads(E, path, i), Reads(E, path, j)
  PROVE  i = j
<1>1. PICK v : Route(E, path, v) /\ <<v[Len(path)], Last(path), i>> \in E
  BY DEF Reads
<1>2. PICK w : Route(E, path, w) /\ <<w[Len(path)], Last(path), j>> \in E
  BY DEF Reads
<1>3. v[Len(path)] = w[Len(path)]
  <2>1. Len(path) \in 1 .. Len(path)
    BY Paths
  <2> QED
    BY <1>1, <1>2, <2>1, SameRoute
<1> QED
  BY <1>1, <1>2, <1>3 DEF OneWay

\* Along a path to an edge there are only directories.
LEMMA RouteWithin ==
  ASSUME NEW E, NEW D, \A a, m, i : <<a, m, i>> \in E => a \in D,
         NEW p \in Path, NEW w, NEW i, Route(E, p, w), <<w[Len(p)], Last(p), i>> \in E
  PROVE  \A k \in 1 .. Len(p) - 1 : w[k + 1] \in D
<1> SUFFICES ASSUME NEW k \in 1 .. Len(p) - 1 PROVE w[k + 1] \in D
  OBVIOUS
<1>1. Len(p) \in Nat /\ (k + 1 = Len(p) \/ k + 1 \in 1 .. Len(p) - 1)
  BY Paths
<1>2. CASE k + 1 = Len(p)
  BY <1>2
<1>3. CASE k + 1 \in 1 .. Len(p) - 1
  <2>1. <<w[k + 1], p[k + 1], w[(k + 1) + 1]>> \in E
    BY <1>3 DEF Route
  <2> QED
    BY <2>1
<1> QED
  BY <1>1, <1>2, <1>3

\* What is read when a path is given a name, of something that is new or no
\* directory.
LEMMA ReadsMore ==
  ASSUME NEW E, NEW D, OneWay(E, D), NEW path \in Path, NEW v, Route(E, path, v),
         v[Len(path)] \in D, NEW ino, ino \notin D,
         NEW F, F = E \cup {<<v[Len(path)], Last(path), ino>>}, NEW p \in Path, NEW i
  PROVE  Reads(F, p, i) <=> Reads(E, p, i) \/ (p = path /\ i = ino)
<1> DEFINE dir == v[Len(path)]
<1>1. \A a, m, j : <<a, m, j>> \in F => a \in D
  BY DEF OneWay
<1>2. ASSUME Reads(F, p, i) PROVE Reads(E, p, i) \/ (p = path /\ i = ino)
  <2>1. PICK w : Route(F, p, w) /\ <<w[Len(p)], Last(p), i>> \in F
    BY <1>2 DEF Reads
  <2>2. \A k \in 1 .. Len(p) - 1 : w[k + 1] \in D
    BY <1>1, <2>1, RouteWithin
  <2>3. ASSUME NEW k \in 1 .. Len(p) - 1 PROVE <<w[k], p[k], w[k + 1]>> \in E
    <3>1. <<w[k], p[k], w[k + 1]>> \in F /\ w[k + 1] # ino
      BY <2>1, <2>2 DEF Route
    <3> QED
      BY <3>1
  <2>4. Route(E, p, w)
    BY <2>1, <2>3 DEF Route
  <2>5. CASE <<w[Len(p)], Last(p), i>> \in E
    BY <2>4, <2>5 DEF Reads
  <2>6. CASE <<w[Len(p)], Last(p), i>> = <<dir, Last(path), ino>>
    <3>1. w[Len(p)] = v[Len(path)] /\ Last(p) = Last(path) /\ i = ino
      BY <2>6
    <3>2. p = path
      BY <2>4, <3>1, SamePath
    <3> QED
      BY <3>1, <3>2
  <2> QED
    BY <2>1, <2>5, <2>6
<1>3. ASSUME Reads(E, p, i) PROVE Reads(F, p, i)
  <2>1. PICK w : Route(E, p, w) /\ <<w[Len(p)], Last(p), i>> \in E
    BY <1>3 DEF Reads
  <2>2. Route(F, p, w) /\ <<w[Len(p)], Last(p), i>> \in F
    BY <2>1 DEF Route
  <2> QED
    BY <2>2 DEF Reads
<1>4. Reads(F, path, ino)
  <2>1. Route(F, path, v) /\ <<v[Len(path)], Last(path), ino>> \in F
    BY DEF Route
  <2> QED
    BY <2>1 DEF Reads
<1> QED
  BY <1>2, <1>3, <1>4

\* And when a name of something that is no directory goes.
LEMMA ReadsLess ==
  ASSUME NEW E, NEW D, OneWay(E, D), NEW path \in Path, NEW v, Route(E, path, v),
         NEW ino, ino \notin D, <<v[Len(path)], Last(path), ino>> \in E,
         NEW F, F = E \ {<<v[Len(path)], Last(path), ino>>}, NEW p \in Path, NEW i
  PROVE  Reads(F, p, i) <=> Reads(E, p, i) /\ p # path
<1> DEFINE dir == v[Len(path)]
<1>1. ASSUME Reads(F, p, i) PROVE Reads(E, p, i) /\ p # path
  <2>1. PICK w : Route(F, p, w) /\ <<w[Len(p)], Last(p), i>> \in F
    BY <1>1 DEF Reads
  <2>2. Route(E, p, w) /\ <<w[Len(p)], Last(p), i>> \in E
    BY <2>1 DEF Route
  <2>3. Reads(E, p, i)
    BY <2>2 DEF Reads
  <2>4. ASSUME p = path PROVE FALSE
    <3>1. Len(path) \in 1 .. Len(path)
      BY Paths
    <3>2. w[Len(path)] = v[Len(path)]
      BY <2>2, <2>4, <3>1, SameRoute
    <3>3. i = ino
      BY <2>2, <2>4, <3>2 DEF OneWay
    <3> QED
      BY <2>1, <2>4, <3>2, <3>3
  <2> QED
    BY <2>3, <2>4
<1>2. ASSUME Reads(E, p, i), p # path PROVE Reads(F, p, i)
  <2>1. PICK w : Route(E, p, w) /\ <<w[Len(p)], Last(p), i>> \in E
    BY <1>2 DEF Reads
  <2>2. \A k \in 1 .. Len(p) - 1 : w[k + 1] \in D
    <3>1. \A a, m, j : <<a, m, j>> \in E => a \in D
      BY DEF OneWay
    <3> QED
      BY <2>1, <3>1, RouteWithin
  <2>3. ASSUME NEW k \in 1 .. Len(p) - 1 PROVE <<w[k], p[k], w[k + 1]>> \in F
    <3>1. <<w[k], p[k], w[k + 1]>> \in E /\ w[k + 1] # ino
      BY <2>1, <2>2 DEF Route
    <3> QED
      BY <3>1
  <2>4. Route(F, p, w)
    BY <2>1, <2>3 DEF Route
  <2>5. ASSUME <<w[Len(p)], Last(p), i>> = <<dir, Last(path), ino>> PROVE FALSE
    <3>1. w[Len(p)] = v[Len(path)] /\ Last(p) = Last(path) /\ v[Len(path)] \in D
      BY <2>5 DEF OneWay
    <3>2. p = path
      BY <2>1, <3>1, SamePath
    <3> QED
      BY <1>2, <3>2
  <2>6. <<w[Len(p)], Last(p), i>> \in F
    BY <2>1, <2>5
  <2> QED
    BY <2>4, <2>6 DEF Reads
<1> QED
  BY <1>1, <1>2

\* The directory of a path is what the path without its last name names.
LEMMA FrontReads ==
  ASSUME NEW E, NEW path \in Path, Len(path) > 1, NEW v, Route(E, path, v)
  PROVE  Front(path) \in Path /\ Reads(E, Front(path), v[Len(path)])
<1> DEFINE n == Len(path)
           w == [k \in 1 .. n - 1 |-> v[k]]
<1>1. /\ Front(path) \in Path /\ n \in Nat /\ 1 <= n - 1 /\ n - 1 \in Nat
      /\ path \in Seq(Name)
  <2>1. path \in Seq(Name)
    BY NameAssumption, Zenon
  <2> QED
    BY <2>1, Paths, PathAssumption
<1>2. /\ Len(Front(path)) = n - 1 /\ \A k \in 1 .. n - 1 : Front(path)[k] = path[k]
  BY <1>1 DEF Front
<1>3. Last(Front(path)) = path[n - 1]
  BY <1>1, <1>2, Paths
<1>4. /\ v \in [1 .. n -> Inode] /\ v[1] = EXT2_ROOT_INO
      /\ \A k \in 1 .. n - 1 : <<v[k], path[k], v[k + 1]>> \in E
  BY DEF Route
<1> HIDE DEF n
<1>5. (n - 1) + 1 = n
  BY <1>1
<1>6. <<w[n - 1], Last(Front(path)), v[n]>> \in E
  <2>1. <<v[n - 1], path[n - 1], v[(n - 1) + 1]>> \in E
    BY <1>1, <1>4
  <2> QED
    BY <1>1, <1>3, <1>5, <2>1
<1>7. Route(E, Front(path), w)
  <2>1. w \in [1 .. n - 1 -> Inode] /\ w[1] = EXT2_ROOT_INO
    BY <1>1, <1>4
  <2>2. \A k \in 1 .. (n - 1) - 1 : <<w[k], Front(path)[k], w[k + 1]>> \in E
    <3> SUFFICES ASSUME NEW k \in 1 .. (n - 1) - 1 PROVE <<w[k], Front(path)[k], w[k + 1]>> \in E
      OBVIOUS
    <3>1. k \in 1 .. n - 1 /\ k + 1 \in 1 .. n - 1
      BY <1>1
    <3> QED
      BY <1>2, <1>4, <3>1
  <2> HIDE DEF w
  <2> QED
    BY <1>2, <2>1, <2>2 DEF Route
<1> HIDE DEF w
<1>8. Reads(E, Front(path), v[n])
  BY <1>2, <1>6, <1>7 DEF Reads
<1> QED
  BY <1>1, <1>8 DEF n

-----------------------------------------------------------------------------
(* The tree that is read off an image.                                       *)

OneTree(d) == OneWay(Edges(d), Dirs(d))

LEMMA FormattedOneTree == OneTree(Formatted)
BY FormattedGood DEF OneTree, OneWay

\* A new entry of something that is no directory, or was not in use.
LEMMA OneTreeMore ==
  ASSUME NEW d \in Image, Good(d), OneTree(d), NEW f \in Image, Good(f),
         NEW dir, NEW name, NEW ino, Gives(d, f, dir, name, ino),
         ino \notin Dirs(d), ino \notin d.ibm \/ ino \notin Dirs(f)
  PROVE  OneTree(f)
<1> DEFINE t == <<dir, name, ino>>
<1>1. /\ Sound(d, PlacesOf(d)) /\ Sound(f, PlacesOf(f))
      /\ EXT2_ROOT_INO \in Dirs(d) /\ d.ibm \subseteq Inode
  BY SoundParts DEF Good, Rooted
<1>2. /\ \A a, m, i : <<a, m, i>> \in Edges(f) => a \in Dirs(f)
      /\ \A a, m, i : <<a, m, i>> \in Edges(d) => i \in d.ibm
  BY <1>1, EdgeAt
<1>3. Edges(f) = Edges(d) \cup {t} /\ f.ibm = d.ibm \cup {ino} /\ \A i : <<dir, name, i>> \notin Edges(d)
  BY DEF Gives
<1>4. Dirs(f) \subseteq Dirs(d) \cup {ino}
  <2> SUFFICES ASSUME NEW i \in Dirs(f), i # ino PROVE i \in Dirs(d)
    OBVIOUS
  <2>1. i \in d.ibm /\ i \in Inode /\ f.inode[i].i_mode = "dir"
    BY <1>1, <1>3 DEF Dirs
  <2>2. Held(f.inode[i]) = Held(d.inode[i])
    BY <2>1 DEF Gives
  <2>3. d.inode[i].i_mode = "dir"
    BY <2>1, <2>2 DEF Held
  <2> QED
    BY <2>1, <2>3 DEF Dirs
<1>5. ASSUME NEW a, NEW m, NEW i, <<a, m, i>> \in Edges(f) PROVE i # EXT2_ROOT_INO
  BY <1>1, <1>3, <1>5 DEF OneTree, OneWay
<1>6. ASSUME NEW a, NEW m, NEW i, NEW j, <<a, m, i>> \in Edges(f), <<a, m, j>> \in Edges(f)
      PROVE  i = j
  BY <1>3, <1>6 DEF OneTree, OneWay
<1>7. ASSUME NEW a, NEW b, NEW m, NEW n, NEW i \in Dirs(f),
             <<a, m, i>> \in Edges(f), <<b, n, i>> \in Edges(f)
      PROVE  a = b /\ m = n
  <2>1. CASE i \in Dirs(d)
    BY <1>3, <1>7, <2>1 DEF OneTree, OneWay
  <2>2. CASE i = ino
    <3>1. ino \notin d.ibm
      BY <1>7, <2>2
    <3> QED
      BY <1>2, <1>3, <1>7, <2>2, <3>1
  <2> QED
    BY <1>4, <2>1, <2>2
<1> QED
  BY <1>2, <1>5, <1>6, <1>7 DEF OneTree, OneWay

LEMMA OneTreeLess ==
  ASSUME NEW d \in Image, Good(d), OneTree(d), NEW f \in Image, Good(f),
         NEW dir, NEW name, NEW ino, Removes(d, f, dir, name, ino)
  PROVE  OneTree(f)
<1>1. Sound(f, PlacesOf(f)) /\ d.ibm \subseteq Inode
  BY Fields DEF Good
<1>2. \A a, m, i : <<a, m, i>> \in Edges(f) => a \in Dirs(f)
  BY <1>1, EdgeAt
<1>3. Edges(f) \subseteq Edges(d) /\ f.ibm \subseteq d.ibm
  BY DEF Removes
<1>4. Dirs(f) \subseteq Dirs(d)
  <2> SUFFICES ASSUME NEW i \in Dirs(f) PROVE i \in Dirs(d)
    OBVIOUS
  <2>1. i \in d.ibm /\ i \in Inode /\ f.inode[i].i_mode = "dir"
    BY <1>1, <1>3 DEF Dirs
  <2>2. Held(f.inode[i]) = Held(d.inode[i])
    BY <2>1 DEF Removes
  <2>3. d.inode[i].i_mode = "dir"
    BY <2>1, <2>2 DEF Held
  <2> QED
    BY <2>1, <2>3 DEF Dirs
<1> QED
  BY <1>2, <1>3, <1>4 DEF OneTree, OneWay

\* An entry is found under a path if and only if the path reads it.
LEMMA EntriesRead ==
  ASSUME NEW d \in Image, Good(d), NEW path \in Path
  PROVE  /\ \A e \in EntriesOf(d, path) : Reads(Edges(d), path, e.inode)
         /\ \A i : Reads(Edges(d), path, i) => \E e \in EntriesOf(d, path) : e.inode = i
<1> DEFINE P     == PlacesOf(d)
           slots == [dir \in Inode |-> 0 .. BlockCount(d, dir) - 1]
           at    == Reached(d, path, slots)
           name  == Last(path)
           In(dir, s) == Content(d, dir, s)
<1>1. Sound(d, P) /\ Dirs(d) \subseteq Inode /\ Own(d)
  BY SoundParts DEF Good, Dirs
<1>2. \A dir \in Dirs(d) : 0 .. BlockCount(d, dir) - 1 = Used(d.inode[dir])
  BY <1>1, DirectoryBlocks DEF Count, BlockCount
<1>3. \A dir \in Dirs(d) : LooksIn(d, dir, slots[dir])
  <2>1. \A dir \in Dirs(d) : slots[dir] = Used(d.inode[dir])
    BY <1>1, <1>2, Zenon
  <2>2. \A dir \in Dirs(d) : Used(d.inode[dir]) \subseteq Nat
    BY Slots DEF Used
  <2> HIDE DEF slots
  <2> QED
    BY <2>1, <2>2 DEF LooksIn
<1>4. name \in Name /\ Len(path) \in Nat
  BY Paths
<1>5. EntriesOf(d, path) = IF at.k < Len(path) THEN {} ELSE Entries(d, at.dir, name)
  BY DEF EntriesOf
<1>6. at.dir \in Dirs(d) /\ at.k \in 1 .. Len(path)
  <2> HIDE DEF slots, P
  <2>1. PICK w : StepsTo(d, path, slots, w)
    BY <1>1, <1>3, ReachedIs
  <2>2. Len(path) \in 1 .. Len(path)
    BY Paths
  <2> QED
    BY <2>1, <2>2 DEF StepsTo
<1>7. ASSUME NEW dir \in Dirs(d), NEW e \in Entries(d, dir, name)
      PROVE  <<dir, name, e.inode>> \in Edges(d)
  <2>1. PICK s \in 0 .. BlockCount(d, dir) - 1 : \E p \in Named(In(dir, s), name) : e = In(dir, s)[p]
    BY <1>7 DEF Entries
  <2>2. PICK p \in Named(In(dir, s), name) : e = In(dir, s)[p]
    BY <2>1
  <2> DEFINE x == <<dir, <<s, p>>>>
  <2>3. x \in P /\ Ent(d, x) = e /\ e.name = name
    <3> HIDE DEF P, name
    <3>1. s \in Used(d.inode[dir])
      BY <1>2
    <3> QED
      BY <1>1, <2>2, <3>1, ShownUnder
  <2>4. x[1] = dir
    OBVIOUS
  <2> HIDE DEF P, x
  <2> QED
    BY <1>1, <1>4, <2>3, <2>4, EdgeAt
<1>8. ASSUME NEW dir, NEW i, <<dir, name, i>> \in Edges(d)
      PROVE  dir \in Dirs(d) /\ \E e \in Entries(d, dir, name) : e.inode = i
  <2> HIDE DEF P
  <2>1. dir \in Dirs(d)
    BY <1>1, <1>8, EdgeAt
  <2>2. PICK x \in P : x[1] = dir /\ Ent(d, x).name = name /\ Ent(d, x).inode = i
    BY <1>1, <1>8, EdgeAt
  <2>3. /\ x[2][1] \in Used(d.inode[dir]) /\ x[2][2] \in Named(In(dir, x[2][1]), name)
        /\ Ent(d, x) = In(dir, x[2][1])[x[2][2]]
    BY <1>1, <2>1, <2>2, ShownUnder
  <2>4. x[2][1] \in 0 .. BlockCount(d, dir) - 1
    BY <1>2, <2>1, <2>3
  <2>5. Ent(d, x) \in Entries(d, dir, name)
    BY <2>3, <2>4 DEF Entries
  <2> QED
    BY <2>1, <2>2, <2>5
<1> HIDE DEF P, slots, name, at
<1>9. ASSUME NEW e \in EntriesOf(d, path) PROVE Reads(Edges(d), path, e.inode)
  <2>1. at.k = Len(path) /\ e \in Entries(d, at.dir, name)
    BY <1>4, <1>5, <1>6, <1>9
  <2>2. Leads(d, path, at.dir)
    BY <1>1, <1>3, <2>1, ReachedLeads DEF at
  <2>3. <<at.dir, name, e.inode>> \in Edges(d)
    BY <1>6, <1>7, <2>1
  <2> QED
    BY <2>2, <2>3 DEF Leads, Reads, name
<1>10. ASSUME NEW i, Reads(Edges(d), path, i) PROVE \E e \in EntriesOf(d, path) : e.inode = i
  <2>1. PICK w : Route(Edges(d), path, w) /\ <<w[Len(path)], name, i>> \in Edges(d)
    BY <1>10 DEF Reads, name
  <2>2. w[Len(path)] \in Dirs(d) /\ \E e \in Entries(d, w[Len(path)], name) : e.inode = i
    BY <1>8, <2>1
  <2>3. Leads(d, path, w[Len(path)])
    BY <2>1 DEF Leads
  <2>4. at.dir = w[Len(path)] /\ at.k = Len(path)
    BY <1>1, <1>3, <2>2, <2>3, LeadsReached DEF at
  <2> QED
    BY <1>4, <1>5, <2>2, <2>4
<1> QED
  BY <1>9, <1>10

LEMMA NamesAre ==
  ASSUME NEW d \in Image, Good(d), OneTree(d)
  PROVE  /\ \A path, i : path \in Path /\ Reads(Edges(d), path, i) =>
              path \in DOMAIN NamesOf(d) /\ NamesOf(d)[path] = i
         /\ \A path \in DOMAIN NamesOf(d) :
              path \in Path /\ Reads(Edges(d), path, NamesOf(d)[path])
<1> DEFINE entry(path) == CHOOSE e \in EntriesOf(d, path) : TRUE
<1>1. NamesOf(d) = [path \in Existing(d) |-> entry(path).inode]
  BY DEF NamesOf
<1>2. ASSUME NEW path \in Existing(d)
      PROVE  path \in Path /\ Reads(Edges(d), path, entry(path).inode)
  <2>1. path \in Path /\ entry(path) \in EntriesOf(d, path)
    BY DEF Existing
  <2> HIDE DEF entry
  <2> QED
    BY <2>1, EntriesRead
<1> HIDE DEF entry
<1>3. ASSUME NEW path \in Path, NEW i, Reads(Edges(d), path, i)
      PROVE  path \in Existing(d) /\ entry(path).inode = i
  <2>1. path \in Existing(d)
    BY <1>3, EntriesRead DEF Existing
  <2>2. Reads(Edges(d), path, entry(path).inode)
    BY <1>2, <2>1
  <2> QED
    BY <1>3, <2>1, <2>2, ReadsOne DEF OneTree
<1> QED
  BY <1>1, <1>2, <1>3

LEMMA FilesAre == \A d : FilesOf(d) = [ino \in Inode \ {EXT2_ROOT_INO} |-> Held(d.inode[ino])]
BY DEF FilesOf, Held, BlockCount, Count

\* A step that gives something a name, or takes one away, in the names read.
LEMMA NamesMore ==
  ASSUME NEW d \in Image, Good(d), OneTree(d), NEW f \in Image, Good(f), OneTree(f),
         NEW path \in Path, NEW dir, Leads(d, path, dir),
         NEW ino, ino \notin Dirs(d), Gives(d, f, dir, Last(path), ino)
  PROVE  /\ path \notin DOMAIN NamesOf(d)
         /\ NamesOf(f) = [p \in DOMAIN NamesOf(d) \cup {path} |->
                            IF p = path THEN ino ELSE NamesOf(d)[p]]
<1> DEFINE N(p) == IF p = path THEN ino ELSE NamesOf(d)[p]
<1>1. PICK v : Route(Edges(d), path, v) /\ v[Len(path)] = dir
  BY DEF Leads
<1>2. /\ dir \in Dirs(d) /\ Edges(f) = Edges(d) \cup {<<v[Len(path)], Last(path), ino>>}
      /\ \A i : <<dir, Last(path), i>> \notin Edges(d)
  BY <1>1 DEF Gives
<1>3. \A p \in Path : \A i : Reads(Edges(f), p, i) <=> Reads(Edges(d), p, i) \/ (p = path /\ i = ino)
  BY <1>1, <1>2, ReadsMore DEF OneTree
<1>4. path \notin DOMAIN NamesOf(d)
  <2> SUFFICES ASSUME NEW i, Reads(Edges(d), path, i) PROVE FALSE
    BY NamesAre
  <2>1. PICK w : Route(Edges(d), path, w) /\ <<w[Len(path)], Last(path), i>> \in Edges(d)
    BY DEF Reads
  <2>2. Len(path) \in 1 .. Len(path)
    BY Paths
  <2>3. w[Len(path)] = v[Len(path)]
    BY <1>1, <2>1, <2>2, SameRoute DEF OneTree
  <2> QED
    BY <1>1, <1>2, <2>1, <2>3
<1>5. DOMAIN NamesOf(f) = DOMAIN NamesOf(d) \cup {path}
  BY <1>3, NamesAre
<1>6. \A p \in DOMAIN NamesOf(f) : NamesOf(f)[p] = N(p)
  <2> SUFFICES ASSUME NEW p \in DOMAIN NamesOf(f) PROVE NamesOf(f)[p] = N(p)
    OBVIOUS
  <2>1. CASE p = path
    <3>1. Reads(Edges(f), path, ino)
      BY <1>3
    <3> QED
      BY <2>1, <3>1, NamesAre
  <2>2. CASE p # path
    <3>1. p \in DOMAIN NamesOf(d)
      BY <1>5, <2>2
    <3>2. p \in Path /\ Reads(Edges(f), p, NamesOf(d)[p])
      BY <1>3, <3>1, NamesAre
    <3> QED
      BY <2>2, <3>2, NamesAre
  <2> QED
    BY <2>1, <2>2
<1> HIDE DEF N
<1>7. NamesOf(f) = [p \in DOMAIN NamesOf(f) |-> NamesOf(f)[p]]
  BY DEF NamesOf
<1>8. NamesOf(f) = [p \in DOMAIN NamesOf(d) \cup {path} |-> N(p)]
  BY <1>5, <1>6, <1>7
<1> QED
  BY <1>4, <1>8 DEF N

LEMMA NamesLess ==
  ASSUME NEW d \in Image, Good(d), OneTree(d), NEW f \in Image, Good(f), OneTree(f),
         NEW path \in Path, NEW dir, Leads(d, path, dir),
         NEW ino, Removes(d, f, dir, Last(path), ino)
  PROVE  /\ path \in DOMAIN NamesOf(d) /\ NamesOf(d)[path] = ino
         /\ NamesOf(f) = [p \in DOMAIN NamesOf(d) \ {path} |-> NamesOf(d)[p]]
<1>1. PICK v : Route(Edges(d), path, v) /\ v[Len(path)] = dir
  BY DEF Leads
<1>2. /\ <<v[Len(path)], Last(path), ino>> \in Edges(d) /\ ino \notin Dirs(d)
      /\ Edges(f) = Edges(d) \ {<<v[Len(path)], Last(path), ino>>}
  BY <1>1 DEF Removes
<1>3. \A p \in Path : \A i : Reads(Edges(f), p, i) <=> Reads(Edges(d), p, i) /\ p # path
  BY <1>1, <1>2, ReadsLess DEF OneTree
<1>4. path \in DOMAIN NamesOf(d) /\ NamesOf(d)[path] = ino
  <2>1. Reads(Edges(d), path, ino)
    BY <1>1, <1>2 DEF Reads
  <2> QED
    BY <2>1, NamesAre
<1>5. DOMAIN NamesOf(f) = DOMAIN NamesOf(d) \ {path}
  BY <1>3, NamesAre
<1>6. \A p \in DOMAIN NamesOf(f) : NamesOf(f)[p] = NamesOf(d)[p]
  <2> SUFFICES ASSUME NEW p \in DOMAIN NamesOf(f) PROVE NamesOf(f)[p] = NamesOf(d)[p]
    OBVIOUS
  <2>1. p \in Path /\ Reads(Edges(d), p, NamesOf(f)[p])
    BY <1>3, NamesAre
  <2> QED
    BY <2>1, NamesAre
<1>7. NamesOf(f) = [p \in DOMAIN NamesOf(f) |-> NamesOf(f)[p]]
  BY DEF NamesOf
<1> QED
  BY <1>4, <1>5, <1>6, <1>7

\* The directory of a path that leads somewhere is named, or the root.
LEMMA DirectoryNamed ==
  ASSUME NEW d \in Image, Good(d), OneTree(d), NEW path \in Path,
         NEW dir \in Dirs(d), Leads(d, path, dir)
  PROVE  \/ Len(path) = 1
         \/ \E p \in DOMAIN NamesOf(d) : p = Front(path) /\ FilesOf(d)[NamesOf(d)[p]].type = "dir"
<1>1. PICK v : Route(Edges(d), path, v) /\ v[Len(path)] = dir
  BY DEF Leads
<1>2. Len(path) \in Nat /\ Len(path) >= 1
  BY Paths
<1>3. ASSUME Len(path) > 1
      PROVE  \E p \in DOMAIN NamesOf(d) : p = Front(path) /\ FilesOf(d)[NamesOf(d)[p]].type = "dir"
  <2> DEFINE p == Front(path)
  <2>1. p \in Path /\ Reads(Edges(d), p, dir)
    BY <1>1, <1>3, FrontReads
  <2> HIDE DEF p
  <2>2. p \in DOMAIN NamesOf(d) /\ NamesOf(d)[p] = dir
    BY <2>1, NamesAre
  <2>3. dir # EXT2_ROOT_INO
    BY <2>1 DEF Reads, OneTree, OneWay
  <2>4. dir \in Inode /\ d.inode[dir].i_mode = "dir"
    BY Fields DEF Dirs
  <2>5. FilesOf(d)[dir].type = "dir"
    BY <2>3, <2>4, FilesAre DEF Held
  <2> QED
    BY <2>2, <2>5 DEF p
<1> DEFINE n == Len(path)
<1>4. n = 1 \/ n > 1
  <2> HIDE DEF n
  <2>1. n \in Nat /\ n >= 1
    BY <1>2 DEF n
  <2> QED
    BY <2>1
<1> QED
  BY <1>3, <1>4, Zenon

-----------------------------------------------------------------------------
(* Each tool takes a step of FileTree.                                       *)

\* The names and files read of images d and f, before and after a step.
ReadOff(d)  == names = NamesOf(d) /\ file = FilesOf(d)
ReadThen(f)  == names' = NamesOf(f) /\ file' = FilesOf(f)

Between(d, f) ==
  /\ d \in Image /\ Good(d) /\ OneTree(d) /\ ReadOff(d)
  /\ f \in Image /\ Good(f) /\ OneTree(f) /\ ReadThen(f)

LEMMA Given ==
  ASSUME NEW d, NEW f, Between(d, f), NEW path \in Path, NEW dir, Leads(d, path, dir),
         NEW ino, ino \notin Dirs(d), Gives(d, f, dir, Last(path), ino)
  PROVE  /\ Tree!Vacant(path) /\ Tree!Give(path, ino)
         /\ ino \in Inode \ {EXT2_ROOT_INO}
         /\ file' = [file EXCEPT ![ino] = Held(f.inode[ino])]
         /\ Held(f.inode[ino]) = Held(d.inode[ino]) => file' = file
<1>1. dir \in Dirs(d) /\ ino \in Inode /\ \A i \in Inode \ {ino} : Held(f.inode[i]) = Held(d.inode[i])
  BY DEF Gives
<1>2. /\ path \notin DOMAIN names
      /\ names' = [p \in DOMAIN names \cup {path} |-> IF p = path THEN ino ELSE names[p]]
  <2>1. /\ d \in Image /\ Good(d) /\ OneTree(d) /\ f \in Image /\ Good(f) /\ OneTree(f)
        /\ names = NamesOf(d) /\ names' = NamesOf(f)
    BY DEF Between, ReadOff, ReadThen
  <2>2. /\ path \notin DOMAIN NamesOf(d)
        /\ NamesOf(f) = [p \in DOMAIN NamesOf(d) \cup {path} |->
                           IF p = path THEN ino ELSE NamesOf(d)[p]]
    BY <2>1, NamesMore
  <2> QED
    BY <2>1, <2>2
<1>3. Len(path) = 1 \/ \E p \in DOMAIN names : p = Front(path) /\ file[names[p]].type = "dir"
  BY <1>1, DirectoryNamed DEF Between, ReadOff
<1>4. Tree!Vacant(path) /\ Tree!Give(path, ino)
  BY <1>2, <1>3 DEF Tree!Vacant, Tree!Give, Tree!Front, Front
<1>5. ino # EXT2_ROOT_INO
  BY SoundParts DEF Between, Good, Rooted
<1>6. /\ file = [i \in Inode \ {EXT2_ROOT_INO} |-> Held(d.inode[i])]
      /\ file' = [i \in Inode \ {EXT2_ROOT_INO} |-> Held(f.inode[i])]
  BY FilesAre DEF Between, ReadOff, ReadThen
<1> QED
  BY <1>1, <1>4, <1>5, <1>6

\* What has a name is in use.
LEMMA NamedInUse ==
  ASSUME NEW d, NEW f, Between(d, f), NEW ino, Tree!Named(ino)
  PROVE  ino \in d.ibm
<1>1. PICK p \in DOMAIN names : names[p] = ino
  BY DEF Tree!Named
<1>2. d \in Image /\ Sound(d, PlacesOf(d)) /\ Reads(Edges(d), p, ino)
  BY <1>1, NamesAre DEF Between, ReadOff, Good
<1>3. PICK w : <<w[Len(p)], Last(p), ino>> \in Edges(d)
  BY <1>2 DEF Reads
<1> QED
  BY <1>2, <1>3, EdgeAt

LEMMA MadeNew ==
  ASSUME NEW d, NEW f, Between(d, f), NEW path \in Path, NEW type, NEW size,
         Made(d, f, path, type, size)
  PROVE  Tree!New(path, type, size)
<1>1. PICK dir : Leads(d, path, dir) /\ Adds(d, f, dir, Last(path), type, size)
  BY DEF Made
<1>2. PICK ino \in Inode \ d.ibm : /\ Gives(d, f, dir, Last(path), ino)
                                  /\ Held(f.inode[ino]) = [type |-> type, size |-> size]
  BY <1>1 DEF Adds
<1>3. ino \notin Dirs(d)
  BY DEF Dirs
<1>4. ~Tree!Named(ino)
  BY NamedInUse
<1> QED
  BY <1>1, <1>2, <1>3, <1>4, Given DEF Tree!New

LEMMA JoinedLink ==
  ASSUME NEW d, NEW f, Between(d, f), NEW path \in Path, NEW target \in Path,
         Joined(d, f, path, target)
  PROVE  Tree!Link(target, path)
<1>1. PICK dir, dir1, ino : /\ Leads(d, path, dir) /\ Links(d, f, dir, Last(path), ino)
                           /\ Leads(d, target, dir1) /\ <<dir1, Last(target), ino>> \in Edges(d)
  BY DEF Joined
<1>2. /\ ino \in d.ibm /\ d.inode[ino].i_mode = "reg"
      /\ Gives(d, f, dir, Last(path), ino) /\ Held(f.inode[ino]) = Held(d.inode[ino])
  BY <1>1 DEF Links
<1>3. ino \notin Dirs(d)
  BY <1>2 DEF Dirs
<1>4. /\ Tree!Vacant(path) /\ Tree!Give(path, ino) /\ file' = file
      /\ ino \in Inode \ {EXT2_ROOT_INO}
  BY <1>1, <1>2, <1>3, Given
<1>5. Reads(Edges(d), target, ino)
  BY <1>1 DEF Leads, Reads
<1>6. target \in DOMAIN names /\ names[target] = ino
  BY <1>5, NamesAre DEF Between, ReadOff
<1>7. file[ino].type = "reg"
  BY <1>2, <1>4, FilesAre DEF Between, ReadOff, Held
<1> QED
  BY <1>4, <1>6, <1>7 DEF Tree!Link

LEMMA UnnamedUnlink ==
  ASSUME NEW d, NEW f, Between(d, f), NEW path \in Path, Unnamed(d, f, path)
  PROVE  Tree!Unlink(path)
<1>1. PICK dir, ino : Leads(d, path, dir) /\ Removes(d, f, dir, Last(path), ino)
  BY DEF Unnamed
<1>2. /\ path \in DOMAIN names /\ names[path] = ino
      /\ names' = [p \in DOMAIN names \ {path} |-> names[p]]
  BY <1>1, NamesLess DEF Between, ReadOff, ReadThen
<1>3. /\ <<dir, Last(path), ino>> \in Edges(d) /\ ino \notin Dirs(d)
      /\ \A i \in Inode : Held(f.inode[i]) = Held(d.inode[i])
  BY <1>1 DEF Removes
<1>4. d \in Image /\ Sound(d, PlacesOf(d)) /\ EXT2_ROOT_INO \in Dirs(d)
  BY SoundParts DEF Between, Good, Rooted
<1>5. PICK x \in PlacesOf(d) : Ent(d, x).inode = ino
  BY <1>3, <1>4, EdgeAt
<1>6. ino \in Inode /\ d.inode[ino].i_mode \in {"reg", "lnk"}
  <2>1. /\ ino \in Inode /\ Ent(d, x).file_type = d.inode[ino].i_mode
        /\ Ent(d, x).file_type \in {"reg", "dir", "lnk"}
        /\ Ent(d, x).file_type = "dir" <=> ino \in Dirs(d)
    BY <1>4, <1>5, EntryKinds
  <2> QED
    BY <1>3, <2>1
<1>7. /\ file = [i \in Inode \ {EXT2_ROOT_INO} |-> Held(d.inode[i])]
      /\ file' = [i \in Inode \ {EXT2_ROOT_INO} |-> Held(f.inode[i])]
  BY FilesAre DEF Between, ReadOff, ReadThen
<1>8. file' = file
  BY <1>3, <1>7
<1>9. file[ino].type \in {"reg", "lnk"}
  BY <1>3, <1>4, <1>6, <1>7 DEF Held
<1> QED
  BY <1>2, <1>8, <1>9 DEF Tree!Unlink

LEMMA UndoneUndelete ==
  ASSUME NEW d, NEW f, Between(d, f), NEW path \in Path, Undone(d, f, path)
  PROVE  Tree!Undelete(path)
<1>1. PICK dir : Leads(d, path, dir) /\ Revives(d, f, dir, Last(path))
  BY DEF Undone
<1>2. PICK ino \in Inode \ d.ibm :
        /\ Gives(d, f, dir, Last(path), ino) /\ Held(f.inode[ino]) = Held(d.inode[ino])
        /\ Held(d.inode[ino]).type \in {"reg", "lnk"} /\ Held(d.inode[ino]).size > 0
  BY <1>1 DEF Revives
<1>3. ino \notin Dirs(d)
  BY DEF Dirs
<1>4. ~Tree!Named(ino)
  BY NamedInUse
<1>5. /\ Tree!Vacant(path) /\ Tree!Give(path, ino) /\ file' = file
      /\ ino \in Inode \ {EXT2_ROOT_INO}
  BY <1>1, <1>2, <1>3, Given
<1>6. file[ino] = Held(d.inode[ino])
  BY <1>5, FilesAre DEF Between, ReadOff
<1> QED
  BY <1>2, <1>4, <1>5, <1>6 DEF Tree!Undelete

LEMMA WorkedOneTree ==
  ASSUME NEW d \in Image, Good(d), OneTree(d), NEW f \in Image, Good(f), Worked(d, f)
  PROVE  OneTree(f)
<1>1. ASSUME NEW dir, NEW name, NEW ino, Gives(d, f, dir, name, ino), ino \notin d.ibm
      PROVE  OneTree(f)
  BY <1>1, OneTreeMore DEF Dirs
<1>2. ASSUME NEW dir, NEW name, NEW ino, Links(d, f, dir, name, ino) PROVE OneTree(f)
  <2>1. /\ ino \notin Dirs(d) /\ ino \notin Dirs(f) /\ Gives(d, f, dir, name, ino)
    BY <1>2 DEF Links, Dirs, Held
  <2> QED
    BY <2>1, OneTreeMore
<1>3. ASSUME NEW path, NEW type, NEW size, Made(d, f, path, type, size) PROVE OneTree(f)
  BY <1>1, <1>3 DEF Made, Adds
<1>4. ASSUME NEW path, NEW target, Joined(d, f, path, target) PROVE OneTree(f)
  BY <1>2, <1>4 DEF Joined
<1>5. ASSUME NEW path, Undone(d, f, path) PROVE OneTree(f)
  BY <1>1, <1>5 DEF Undone, Revives
<1>6. ASSUME NEW path, Unnamed(d, f, path) PROVE OneTree(f)
  BY <1>6, OneTreeLess DEF Unnamed
<1> QED
  BY <1>3, <1>4, <1>5, <1>6 DEF Worked

LEMMA WorkedNext ==
  ASSUME NEW d, NEW f, Between(d, f), Worked(d, f), damage = "none", damage' = "none"
  PROVE  Tree!Next
<1>1. PICK path \in Path :
        \/ Made(d, f, path, "dir", 0) \/ Made(d, f, path, "lnk", 1)
        \/ \E size \in Size : Made(d, f, path, "reg", size)
        \/ \E target \in Path : Joined(d, f, path, target)
        \/ Unnamed(d, f, path) \/ Undone(d, f, path)
  BY DEF Worked
<1>2. \/ Tree!New(path, "dir", 0)
      \/ \E size \in Size : Tree!New(path, "reg", size)
      \/ Tree!New(path, "lnk", 1)
      \/ \E target \in Path : Tree!Link(target, path)
      \/ Tree!Unlink(path)
      \/ Tree!Undelete(path)
  BY <1>1, MadeNew, JoinedLink, UnnamedUnlink, UndoneUndelete, Zenon
<1> QED
  BY <1>2 DEF Tree!Next

\* Of a new image nothing is read.
LEMMA FormattedRead ==
  /\ NamesOf(Formatted) = <<>>
  /\ FilesOf(Formatted) = [n \in Inode \ {EXT2_ROOT_INO} |-> Tree!NoFile]
<1>1. Formatted \in Image /\ Good(Formatted) /\ Edges(Formatted) = {} /\ OneTree(Formatted)
  BY FormattedGood, FormattedOneTree
<1>2. DOMAIN NamesOf(Formatted) = {}
  BY <1>1, NamesAre DEF Reads
<1>3. NamesOf(Formatted) = <<>>
  BY <1>2 DEF NamesOf
<1>4. ASSUME NEW n \in Inode \ {EXT2_ROOT_INO} PROVE Held(Formatted.inode[n]) = Tree!NoFile
  <2>1. Formatted.inode[n] = NewInode("none", 0, 0)
    BY FormattedFields
  <2> QED
    BY <2>1 DEF Held, Count, NewInode, Tree!NoFile
<1> QED
  BY <1>3, <1>4, FilesAre

\* Images that show the same read the same.
LEMMA SameTree ==
  ASSUME NEW d \in Image, Good(d), OneTree(d), NEW f \in Image, Good(f),
         f.inode = d.inode, f.block = d.block, f.ibm = d.ibm
  PROVE  OneTree(f) /\ NamesOf(f) = NamesOf(d) /\ FilesOf(f) = FilesOf(d)
<1>1. Dirs(f) = Dirs(d)
  BY DEF Dirs
<1>2. PlacesOf(f) = PlacesOf(d) /\ \A x : Ent(f, x) = Ent(d, x)
  BY <1>1 DEF PlacesOf, Ent
<1>3. Edges(f) = Edges(d)
  BY <1>2 DEF Edges
<1>4. OneTree(f)
  BY <1>1, <1>3 DEF OneTree
<1>5. DOMAIN NamesOf(f) = DOMAIN NamesOf(d)
  BY <1>3, <1>4, NamesAre
<1>6. \A p \in DOMAIN NamesOf(f) : NamesOf(f)[p] = NamesOf(d)[p]
  BY <1>3, <1>4, NamesAre
<1>7. /\ NamesOf(f) = [p \in DOMAIN NamesOf(f) |-> NamesOf(f)[p]]
      /\ NamesOf(d) = [p \in DOMAIN NamesOf(d) |-> NamesOf(d)[p]]
  BY DEF NamesOf
<1>8. FilesOf(f) = FilesOf(d)
  BY FilesAre
<1> QED
  BY <1>4, <1>5, <1>6, <1>7, <1>8

-----------------------------------------------------------------------------
(* The refinement.                                                           *)

TreeIInv ==
  /\ IInv /\ (damage = "none" => OneTree(disk))
  /\ names = IF damage = "none" THEN NamesOf(disk) ELSE <<>>
  /\ file = FilesOf(IF damage = "none" THEN disk ELSE Formatted)

LEMMA TreeIsChecked == TreeSpec => CheckedSpec
<1>1. TreeInit => CheckedInit
  BY DEF TreeInit
<1>2. [TreeNext]_treeVars => [CheckedNext]_checkedVars
  BY DEF TreeNext, treeVars, checkedVars, vars
<1> QED
  BY <1>1, <1>2, PTL DEF TreeSpec, CheckedSpec

\* The checker does not change the tree.
LEMMA CheckerReads ==
  ASSUME TreeIInv, IInv', CheckerSpares, ext2_checker, damage = "none"
  PROVE  /\ OneTree(disk') /\ NamesOf(disk') = NamesOf(disk) /\ FilesOf(disk') = FilesOf(disk)
         /\ damage' = "none"
<1>1. disk \in Image /\ Good(disk) /\ OneTree(disk)
  BY DEF TreeIInv, IInv
<1>2. damage' = "none" /\ disk' = [disk EXCEPT !.free_blocks = FreeBlocks(disk)]
  BY DEF ext2_checker, CheckerSpares
<1>3. disk' \in Image /\ Good(disk')
  BY <1>2 DEF IInv, Good, Sound, Image
<1>4. disk'.inode = disk.inode /\ disk'.block = disk.block /\ disk'.ibm = disk.ibm
  BY <1>1, <1>2 DEF Image
<1> QED
  BY <1>1, <1>2, <1>3, <1>4, SameTree

LEMMA TreeInitKeeps ==
  ASSUME TreeInit PROVE TreeIInv /\ Tree!Init
<1>1. disk = Formatted /\ damage = "none" /\ names = NamesOf(disk) /\ file = FilesOf(disk)
  BY DEF TreeInit, CheckedInit, Init
<1>2. TreeIInv
  BY <1>1, FormattedGood, FormattedOneTree DEF TreeIInv, IInv, Damages
<1>3. Tree!Init
  BY <1>1, FormattedRead DEF Tree!Init
<1> QED
  BY <1>2, <1>3

\* A step of the tools or of the checker keeps the invariant and is one of
\* FileTree.
LEMMA TreeStep ==
  ASSUME TreeIInv, IInv', CheckerSpares, TreeNext
  PROVE  TreeIInv' /\ [Tree!Next]_(Tree!vars)
<1>1. /\ names' = IF damage' = "none" THEN NamesOf(disk') ELSE <<>>
      /\ file' = FilesOf(IF damage' = "none" THEN disk' ELSE Formatted)
      /\ Next \/ ext2_checker
  BY DEF TreeNext, CheckedNext
<1>2. SUFFICES (damage' = "none" => OneTree(disk')) /\ [Tree!Next]_(Tree!vars)
  BY <1>1 DEF TreeIInv
<1>3. CASE Next
  <2>1. damage = "none" /\ disk \in Image /\ Good(disk) /\ OneTree(disk)
    BY <1>3 DEF Next, TreeIInv, IInv
  <2>2. CASE damage' = "none"
    <3>1. disk' \in Image /\ Good(disk') /\ Worked(disk, disk')
      BY <1>3, <2>1, <2>2, StepFits DEF Fit
    <3>2. OneTree(disk')
      BY <2>1, <3>1, WorkedOneTree
    <3>3. Between(disk, disk')
      BY <1>1, <2>1, <2>2, <3>1, <3>2 DEF Between, ReadOff, ReadThen, TreeIInv
    <3> QED
      BY <2>1, <2>2, <3>1, <3>2, <3>3, WorkedNext
  <2>3. CASE damage' # "none"
    <3>1. names' = <<>> /\ file' = [n \in Inode \ {EXT2_ROOT_INO} |-> Tree!NoFile]
      BY <1>1, <2>3, FormattedRead
    <3>2. Tree!Lose
      BY <2>3, <3>1 DEF Tree!Lose
    <3> QED
      BY <2>1, <2>3, <3>2 DEF Tree!Next
  <2> QED
    BY <2>2, <2>3
<1>4. CASE ext2_checker
  <2>1. CASE damage = "none"
    <3>1. /\ OneTree(disk') /\ NamesOf(disk') = NamesOf(disk)
          /\ FilesOf(disk') = FilesOf(disk) /\ damage' = "none"
      BY <1>4, <2>1, CheckerReads
    <3>2. names' = names /\ file' = file
      BY <1>1, <2>1, <3>1 DEF TreeIInv
    <3> QED
      BY <2>1, <3>1, <3>2 DEF Tree!vars
  <2>2. CASE damage # "none"
    <3>1. damage' = damage
      BY <1>4 DEF ext2_checker
    <3>2. names' = names /\ file' = file
      BY <1>1, <2>2, <3>1 DEF TreeIInv
    <3> QED
      BY <2>2, <3>1, <3>2 DEF Tree!vars
  <2> QED
    BY <2>1, <2>2
<1> QED
  BY <1>1, <1>3, <1>4

LEMMA TreeInvariance == TreeSpec => [](TreeIInv /\ CheckerSpares)
<1>1. TreeInit => TreeIInv
  BY TreeInitKeeps
<1>2. ASSUME TreeIInv, IInv', CheckerSpares, [TreeNext]_treeVars PROVE TreeIInv'
  <2>1. CASE TreeNext
    BY <1>2, <2>1, TreeStep
  <2>2. CASE UNCHANGED treeVars
    BY <1>2, <2>2 DEF treeVars, TreeIInv, IInv
  <2> QED
    BY <1>2, <2>1, <2>2
<1> QED
  BY <1>1, <1>2, TreeIsChecked, CheckedInvariance, CheckerSparesStay, PTL DEF TreeSpec

\* The tools on their image implement the tree of files, for every set of names
\* and paths and every image: what a tool does to the one path it is called
\* with, and to nothing that another path names, holds whatever the lengths,
\* blocks and inodes before.
THEOREM TreeRefinement == TreeSpec => ImplementsTree
<1>1. TreeInit => Tree!Init
  BY TreeInitKeeps
<1>2. ASSUME TreeIInv, IInv', CheckerSpares, [TreeNext]_treeVars
      PROVE  [Tree!Next]_(Tree!vars)
  <2>1. CASE TreeNext
    BY <1>2, <2>1, TreeStep
  <2>2. CASE UNCHANGED treeVars
    BY <2>2 DEF treeVars, Tree!vars
  <2> QED
    BY <1>2, <2>1, <2>2
<1>3. TreeIInv => IInv
  BY DEF TreeIInv
<1> QED
  BY <1>1, <1>2, <1>3, TreeInvariance, PTL DEF TreeSpec, ImplementsTree, Tree!Spec
-----------------------------------------------------------------------------
(* What restore finds after rm: the hidden entries of an undamaged image.     *)

\* The cells with a name.
Lettered(c) == {p \in Cell : c[p].name # ""}

\* Entries with a name lie in the block, with a name in each cell before, and
\* of two of them one ends before the other begins, or where that ends or
\* before it.
Neat(c) ==
  /\ Shown(c) \subseteq Lettered(c)
  /\ \A p \in Lettered(c) :
       /\ c[p].rec_len > 0 /\ p + c[p].rec_len <= EXT2_BLOCK_SIZE
       /\ \A t \in Cell : t < p =>
            t \in Lettered(c) /\ (t + c[t].rec_len <= p \/ p + c[p].rec_len <= t + c[t].rec_len)

\* The blocks are neat, and the first block of a directory of two is full.
Tidy(d) ==
  /\ \A b \in Block : d.block[b] # Zeros => Neat(d.block[b])
  /\ \A dir \in Dirs(d) : 1 \in Used(d.inode[dir]) =>
       Lettered(d.block[d.inode[dir].i_block[0]]) = Cell

LEMMA CellNumbers ==
  ASSUME NEW c \in [Cell -> EntryType]
  PROVE  /\ \A p \in Cell : p \in Nat /\ p < EXT2_BLOCK_SIZE
         /\ \A p \in Cell : c[p].rec_len \in Nat
         /\ EXT2_BLOCK_SIZE \in Nat
BY BlockSizes, EntryLengths DEF Lengths

LEMMA ChainNotZeros ==
  ASSUME NEW c, NEW S, Chain(c, S)
  PROVE  c # Zeros
BY ZerosTyped, ZeroTyped, BlockSizes DEF Chain

\* Every entry before one that is shown, hidden or not, ends before it.
LEMMA NeatReach ==
  ASSUME NEW c \in [Cell -> EntryType], Chain(c, Shown(c)), Neat(c)
  PROVE  \A r \in Shown(c), t \in Cell : t < r =>
           t \in Lettered(c) /\ c[t].rec_len > 0 /\ t + c[t].rec_len <= r
<1> SUFFICES ASSUME NEW r \in Shown(c), NEW t \in Cell, t < r
             PROVE  t \in Lettered(c) /\ c[t].rec_len > 0 /\ t + c[t].rec_len <= r
  OBVIOUS
<1> DEFINE S == Shown(c)
           Lower == {x \in S : x <= t}
           s == Max(Lower)
<1>1. /\ S \subseteq Cell /\ 0 \in S
      /\ \A x \in S : x + c[x].rec_len \in S \cup {EXT2_BLOCK_SIZE}
      /\ \A x, y \in S : x < y => x + c[x].rec_len <= y
  BY DEF Chain
<1>2. /\ \A p \in Cell : p \in Nat /\ p < EXT2_BLOCK_SIZE
      /\ \A p \in Cell : c[p].rec_len \in Nat
      /\ EXT2_BLOCK_SIZE \in Nat
  BY CellNumbers
<1>3. r \in S /\ r \in Cell /\ r \in Lettered(c)
  BY <1>1 DEF Neat
<1>4. t \in Lettered(c) /\ c[t].rec_len > 0
  BY <1>3 DEF Neat
<1> HIDE DEF S
<1>5. Lower \in SUBSET (0 .. t) /\ 0 \in Lower /\ t \in Nat
  BY <1>1, <1>2
<1>6. s \in Lower /\ \A x \in Lower : x <= s
  <2> HIDE DEF Lower
  <2> QED
    BY <1>5, MaxIsGreatest
<1>7. s \in S /\ s <= t /\ s \in Cell
  BY <1>1, <1>6
<1> HIDE DEF s
<1>8. s + c[s].rec_len <= r
  <2>1. s < r
    BY <1>2, <1>3, <1>7
  <2> QED
    BY <1>1, <1>3, <1>7, <2>1
<1>9. CASE s = t
  BY <1>4, <1>8, <1>9
<1>10. CASE s # t
  <2>1. s < t
    BY <1>2, <1>7, <1>10
  <2>2. ~(s + c[s].rec_len <= t)
    <3> SUFFICES ASSUME s + c[s].rec_len <= t PROVE FALSE
      OBVIOUS
    <3>1. s + c[s].rec_len # EXT2_BLOCK_SIZE
      BY <1>2
    <3>2. s + c[s].rec_len \in Lower
      BY <1>1, <1>7, <3>1
    <3>3. s + c[s].rec_len <= s
      BY <1>6, <3>2
    <3>4. c[s].rec_len > 0
      BY <1>7 DEF Chain, S
    <3> QED
      BY <1>2, <1>7, <3>3, <3>4
  <2>3. t + c[t].rec_len <= s + c[s].rec_len
    BY <1>4, <1>7, <2>1, <2>2 DEF Neat
  <2>4. t + c[t].rec_len \in Nat /\ s + c[s].rec_len \in Nat /\ r \in Nat
    BY <1>2, <1>3, <1>7
  <2> QED
    BY <1>4, <1>8, <2>3, <2>4
<1> QED
  BY <1>9, <1>10

\* A new entry after the last one.
LEMMA InsertedNeat ==
  ASSUME NEW c \in [Cell -> EntryType], Chain(c, Shown(c)), Neat(c), new_directory_fits(c),
         NEW name \in Name, NEW type \in {"reg", "dir", "lnk"}, NEW ino \in Inode,
         NEW n, n = Inserted(c, name, type, ino)
  PROVE  Neat(n) /\ Lettered(c) \subseteq Lettered(n)
<1> DEFINE S == Shown(c)
           L == LastShown(c)
           p == L + 1
           e == Entry(name, type, ino, EXT2_BLOCK_SIZE - p)
<1>1. Lengths(c) /\ ino \in Inode \cup {-1} /\ name # ""
  BY EntryLengths, NameAssumption
<1>2. /\ \A x \in Cell : x \in Nat /\ x < EXT2_BLOCK_SIZE
      /\ \A x \in Cell : c[x].rec_len \in Nat
      /\ EXT2_BLOCK_SIZE \in Nat
  BY CellNumbers
<1>3. L \in S /\ L \in Cell /\ L \in Nat /\ p <= EXT2_BLOCK_SIZE - 1 /\ \A x \in S : x <= L
  <2>1. L \in S /\ \A x \in S : x <= L
    BY <1>1, ChainShown, Zenon
  <2>2. L \in Cell
    BY <2>1 DEF Chain
  <2> QED
    BY <1>2, <2>1, <2>2 DEF new_directory_fits
<1>4. p \in Cell /\ p \in Nat
  BY <1>3, BlockSizes
<1>5. n = [[c EXCEPT ![L].rec_len = 1] EXCEPT ![p] = e]
  <2>1. c[0].rec_len # 0
    BY DEF Chain
  <2> QED
    BY <2>1 DEF Inserted, Trimmed
<1>6. e.name = name /\ e.rec_len = EXT2_BLOCK_SIZE - p
  BY DEF Entry
<1> HIDE DEF L, e
<1>7. /\ n[L].name = c[L].name /\ n[L].rec_len = 1 /\ n[p] = e
      /\ \A x \in Cell \ {L, p} : n[x] = c[x]
  <2>1. c[L] \in EntryType
    BY <1>3
  <2> QED
    BY <1>3, <1>4, <1>5, <2>1 DEF EntryType
<1> HIDE DEF p
<1>8. p = L + 1
  BY DEF p
<1>9. PICK y \in Cell : Gains(c, n, y) /\ Alike(n[y], Entry(name, type, ino, 0))
  BY <1>1, InsertedGains
<1>10. Shown(n) = S \cup {y} /\ n[y].name = name
  <2>1. n \in [Cell -> EntryType] /\ Chain(n, S \cup {y})
    BY <1>9 DEF Gains
  <2> QED
    BY <1>9, <2>1, EntryLengths, ChainShown, Zenon DEF Alike, Entry
<1>11. S \subseteq Lettered(c)
  BY DEF Neat
<1>12. Lettered(n) = Lettered(c) \cup {p}
  BY <1>1, <1>3, <1>4, <1>6, <1>7, <1>11 DEF Lettered
<1>13. Shown(n) \subseteq Lettered(n)
  <2>1. y \in Lettered(n)
    BY <1>1, <1>10 DEF Lettered
  <2> QED
    BY <1>10, <1>11, <1>12, <2>1
<1>14. \A x \in Cell : x < L => x \in Lettered(c) /\ c[x].rec_len > 0 /\ x + c[x].rec_len <= L
  BY <1>3, NeatReach
<1>15. n[p].rec_len = EXT2_BLOCK_SIZE - p /\ n[p].rec_len > 0 /\ p + n[p].rec_len = EXT2_BLOCK_SIZE
  BY <1>2, <1>4, <1>6, <1>7
<1>16. ASSUME NEW x \in Lettered(n)
       PROVE  /\ n[x].rec_len > 0 /\ x + n[x].rec_len <= EXT2_BLOCK_SIZE
              /\ \A t \in Cell : t < x =>
                   /\ t \in Lettered(n)
                   /\ t + n[t].rec_len <= x \/ x + n[x].rec_len <= t + n[t].rec_len
  <2>1. CASE x = p
    <3>1. \A t \in Cell : t < p => t = L \/ (t < L /\ t # L /\ t # p)
      BY <1>2, <1>3, <1>8
    <3>2. ASSUME NEW t \in Cell, t < p PROVE t \in Lettered(n) /\ t + n[t].rec_len <= p
      <4>1. CASE t = L
        BY <1>3, <1>7, <1>8, <1>11, <1>12, <4>1
      <4>2. CASE t < L /\ t # L /\ t # p
        <5>1. n[t] = c[t] /\ t + c[t].rec_len <= L /\ t \in Lettered(n)
          BY <1>7, <1>12, <1>14, <4>2
        <5>2. t + c[t].rec_len \in Nat
          BY <1>2
        <5> QED
          BY <1>3, <1>8, <5>1, <5>2
      <4> QED
        BY <3>1, <3>2, <4>1, <4>2
    <3> QED
      BY <1>2, <1>15, <2>1, <3>2
  <2>2. CASE x = L
    <3>1. \A t \in Cell : t < L => t # L /\ t # p
      BY <1>2, <1>3, <1>8
    <3>2. \A t \in Cell : t < L => t \in Lettered(n) /\ t + n[t].rec_len <= L
      BY <1>7, <1>12, <1>14, <3>1
    <3>3. n[L].rec_len = 1 /\ L + n[L].rec_len <= EXT2_BLOCK_SIZE
      BY <1>2, <1>3, <1>7
    <3> QED
      BY <2>2, <3>2, <3>3
  <2>3. CASE x \notin {p, L}
    <3>1. n[x] = c[x] /\ x \in Lettered(c) /\ x \in Cell
      BY <1>7, <1>12, <2>3 DEF Lettered
    <3>2. /\ c[x].rec_len > 0 /\ x + c[x].rec_len <= EXT2_BLOCK_SIZE
          /\ \A t \in Cell : t < x =>
               /\ t \in Lettered(c)
               /\ t + c[t].rec_len <= x \/ x + c[x].rec_len <= t + c[t].rec_len
      BY <3>1 DEF Neat
    <3>3. ASSUME NEW t \in Cell, t < x
          PROVE  /\ t \in Lettered(n)
                 /\ t + n[t].rec_len <= x \/ x + n[x].rec_len <= t + n[t].rec_len
      <4>1. CASE t = p
        BY <1>12, <1>15, <3>1, <3>2, <4>1
      <4>2. CASE t = L
        <5>1. t + 1 <= x
          BY <1>2, <3>1, <3>3
        <5> QED
          BY <1>7, <1>11, <1>3, <1>12, <4>2, <5>1
      <4>3. CASE t \notin {p, L}
        BY <1>7, <1>12, <3>1, <3>2, <3>3, <4>3
      <4> QED
        BY <4>1, <4>2, <4>3
    <3> QED
      BY <3>1, <3>2, <3>3
  <2> QED
    BY <2>1, <2>2, <2>3
<1> QED
  BY <1>12, <1>13, <1>16 DEF Neat

\* The only entry of a new block, and the first two of a new directory.
LEMMA FirstNeat ==
  ASSUME NEW name \in Name, NEW type \in {"reg", "dir", "lnk"}, NEW ino \in Inode
  PROVE  Neat(Inserted(Zeros, name, type, ino))
<1> DEFINE n == Inserted(Zeros, name, type, ino)
<1>1. ino \in Inode \cup {-1} /\ name # ""
  BY NameAssumption
<1>2. /\ n \in [Cell -> EntryType] /\ Chain(n, {0})
      /\ Alike(n[0], Entry(name, type, ino, 0)) /\ \A q \in Cell \ {0} : n[q] = Zero
  BY <1>1, InsertedFirst
<1> HIDE DEF n
<1>3. Shown(n) = {0} /\ Lettered(n) = {0}
  <2>1. Shown(n) = {0}
    BY <1>2, EntryLengths, ChainShown, Zenon
  <2>2. Zero.name = "" /\ Entry(name, type, ino, 0).name = name
    BY DEF Zero, Entry
  <2>3. n[0].name # "" /\ \A q \in Cell \ {0} : n[q].name = ""
    BY <1>1, <1>2, <2>2, Zenon DEF Alike
  <2> QED
    BY <2>1, <2>3, BlockSizes DEF Lettered
<1>4. n[0].rec_len > 0 /\ 0 + n[0].rec_len \in {0} \cup {EXT2_BLOCK_SIZE} /\ n[0].rec_len \in Nat
  BY <1>2, CellNumbers, BlockSizes DEF Chain
<1>5. 0 + n[0].rec_len <= EXT2_BLOCK_SIZE
  BY <1>4, BlockSizes
<1>6. \A t \in Cell : ~(t < 0)
  BY BlockSizes
<1>7. Neat(n)
  BY <1>3, <1>4, <1>5, <1>6 DEF Neat
<1> QED
  BY <1>7 DEF n

LEMMA NewDirectoryNeat ==
  ASSUME NEW ino \in Inode, NEW parent \in Inode
  PROVE  Neat(NewDirectory(ino, parent))
<1> DEFINE n == NewDirectory(ino, parent)
<1>1. /\ n \in [Cell -> EntryType] /\ Chain(n, {0, 1})
      /\ Alike(n[0], Entry(".", "dir", ino, 0)) /\ Alike(n[1], Entry("..", "dir", parent, 0))
      /\ \A q \in Cell \ {0, 1} : n[q] = Zero
  BY NewDirectoryTyped
<1> HIDE DEF n
<1>2. Shown(n) = {0, 1} /\ Lettered(n) = {0, 1}
  <2>1. Shown(n) = {0, 1}
    BY <1>1, EntryLengths, ChainShown, Zenon
  <2>2. /\ Zero.name = "" /\ Entry(".", "dir", ino, 0).name = "."
        /\ Entry("..", "dir", parent, 0).name = ".."
    BY DEF Zero, Entry
  <2>3. n[0].name = "." /\ n[1].name = ".." /\ \A q \in Cell \ {0, 1} : n[q].name = ""
    BY <1>1, <2>2, Zenon DEF Alike
  <2> QED
    BY <2>1, <2>3, BlockSizes DEF Lettered
<1>3. \A p \in {0, 1} : n[p].rec_len > 0 /\ n[p].rec_len \in Nat
  BY <1>1, CellNumbers, BlockSizes DEF Chain
<1>4. 0 + n[0].rec_len <= 1 /\ 1 + n[1].rec_len \in {0, 1} \cup {EXT2_BLOCK_SIZE}
  BY <1>1 DEF Chain
<1>5. n[0].rec_len = 1 /\ 1 + n[1].rec_len = EXT2_BLOCK_SIZE
  BY <1>3, <1>4, BlockSizes
<1>6. \A t \in Cell : ~(t < 0) /\ (t < 1 => t = 0)
  BY BlockSizes
<1>7. 0 + n[0].rec_len <= EXT2_BLOCK_SIZE /\ 1 + n[1].rec_len <= EXT2_BLOCK_SIZE
  BY <1>5, BlockSizes
<1>8. ASSUME NEW x \in Lettered(n)
      PROVE  /\ n[x].rec_len > 0 /\ x + n[x].rec_len <= EXT2_BLOCK_SIZE
             /\ \A t \in Cell : t < x =>
                  /\ t \in Lettered(n)
                  /\ t + n[t].rec_len <= x \/ x + n[x].rec_len <= t + n[t].rec_len
  <2>1. CASE x = 0
    BY <1>3, <1>6, <1>7, <2>1
  <2>2. CASE x = 1
    BY <1>2, <1>3, <1>4, <1>6, <1>7, <2>2
  <2> QED
    BY <1>2, <2>1, <2>2
<1>9. Neat(n)
  BY <1>2, <1>8 DEF Neat
<1> QED
  BY <1>9 DEF n

\* remove_file: the entry before the victim, and what it spans afterwards.
Spans(c, n, q, p) ==
  /\ q \in Shown(c) /\ q < p /\ q + c[q].rec_len = p /\ \A s \in Shown(c) : s < p => s <= q
  /\ n \in [Cell -> EntryType] /\ Shown(n) = Shown(c) \ {p}
  /\ n = [c EXCEPT ![q].rec_len = c[q].rec_len + c[p].rec_len]

LEMMA UnshownSpans ==
  ASSUME NEW c \in [Cell -> EntryType], Chain(c, Shown(c)), NEW p \in Shown(c), p # 0,
         NEW n, n = Unshown(c, p)
  PROVE  \E q \in Cell : Spans(c, n, q, p)
<1> DEFINE S == Shown(c)
           Lower == {x \in S : x < p}
           q == Max(Lower)
<1>1. /\ S \subseteq Cell /\ 0 \in S
      /\ \A x \in S : x + c[x].rec_len \in S \cup {EXT2_BLOCK_SIZE} /\ c[x].rec_len > 0
      /\ \A x, y \in S : x < y => x + c[x].rec_len <= y
  BY DEF Chain
<1>2. /\ \A x \in Cell : x \in Nat /\ x < EXT2_BLOCK_SIZE
      /\ \A x \in Cell : c[x].rec_len \in Nat
      /\ EXT2_BLOCK_SIZE \in Nat
  BY CellNumbers
<1>3. p \in S /\ p \in Cell /\ p \in Nat
  BY <1>1, <1>2
<1>4. n = [c EXCEPT ![q].rec_len = c[q].rec_len + c[p].rec_len]
  BY DEF Unshown
<1>5. Loses(c, n, p)
  BY UnshownLoses
<1>6. n \in [Cell -> EntryType] /\ Shown(n) = S \ {p}
  <2>1. n \in [Cell -> EntryType] /\ Chain(n, S \ {p})
    BY <1>5 DEF Loses
  <2> QED
    BY <2>1, EntryLengths, ChainShown, Zenon
<1> HIDE DEF S
<1>7. Lower \in SUBSET (0 .. p) /\ 0 \in Lower
  <2>1. 0 < p
    BY <1>3
  <2>2. \A x \in Lower : x \in 0 .. p
    BY <1>1, <1>2, <1>3
  <2>3. 0 \in Lower
    BY <1>1, <2>1
  <2> QED
    BY <2>2, <2>3
<1>8. q \in Lower /\ \A x \in Lower : x <= q
  <2> HIDE DEF Lower
  <2> QED
    BY <1>3, <1>7, MaxIsGreatest
<1>9. q \in S /\ q \in Cell /\ q < p /\ \A x \in S : x < p => x <= q
  BY <1>1, <1>8
<1> HIDE DEF q
<1>10. q + c[q].rec_len = p
  <2>1. q + c[q].rec_len <= p /\ q + c[q].rec_len \in Nat /\ q < q + c[q].rec_len
    BY <1>1, <1>2, <1>3, <1>9
  <2>2. q + c[q].rec_len # EXT2_BLOCK_SIZE
    BY <1>2, <1>3, <2>1
  <2>3. q + c[q].rec_len \in S
    BY <1>1, <1>9, <2>2
  <2>4. q \in Nat
    BY <1>2, <1>9
  <2> QED
    BY <1>3, <1>9, <2>1, <2>3, <2>4
<1>11. Spans(c, n, q, p)
  BY <1>4, <1>6, <1>9, <1>10 DEF Spans, S
<1> QED
  BY <1>9, <1>11

\* Only a length is another, and the blocks are neat, if what that now spans is.
LEMMA LengthNeat ==
  ASSUME NEW c \in [Cell -> EntryType], Chain(c, Shown(c)), Neat(c), NEW q \in Shown(c), NEW m \in Nat,
         m > 0, q + m <= EXT2_BLOCK_SIZE, NEW n, n = [c EXCEPT ![q].rec_len = m],
         Shown(n) \subseteq Lettered(c),
         \A x \in Lettered(c) : q < x => q + m <= x \/ x + c[x].rec_len <= q + m
  PROVE  Neat(n) /\ Lettered(n) = Lettered(c)
<1>1. /\ \A x \in Cell : x \in Nat /\ x < EXT2_BLOCK_SIZE
      /\ \A x \in Cell : c[x].rec_len \in Nat
      /\ EXT2_BLOCK_SIZE \in Nat
  BY CellNumbers
<1>2. q \in Cell /\ q \in Lettered(c)
  BY DEF Chain, Neat
<1>3. n[q].rec_len = m /\ n[q].name = c[q].name /\ \A x \in Cell \ {q} : n[x] = c[x]
  <2>1. c[q] \in EntryType
    BY <1>2
  <2> QED
    BY <1>2, <2>1 DEF EntryType
<1>4. Lettered(n) = Lettered(c)
  BY <1>2, <1>3 DEF Lettered
<1>5. \A t \in Cell : t < q => t \in Lettered(c) /\ t + c[t].rec_len <= q
  BY NeatReach
<1>6. ASSUME NEW x \in Lettered(c)
      PROVE  /\ n[x].rec_len > 0 /\ x + n[x].rec_len <= EXT2_BLOCK_SIZE
             /\ \A t \in Cell : t < x =>
                  /\ t \in Lettered(c)
                  /\ t + n[t].rec_len <= x \/ x + n[x].rec_len <= t + n[t].rec_len
  <2>1. x \in Cell /\ x \in Nat
    BY <1>1 DEF Lettered
  <2>2. CASE x = q
    <3>1. \A t \in Cell : t < q => n[t] = c[t]
      BY <1>1, <1>2, <1>3
    <3> QED
      BY <1>3, <1>5, <2>2, <3>1
  <2>3. CASE x # q
    <3>1. n[x] = c[x]
      BY <1>3, <2>1, <2>3
    <3>2. /\ c[x].rec_len > 0 /\ x + c[x].rec_len <= EXT2_BLOCK_SIZE
          /\ \A t \in Cell : t < x =>
               /\ t \in Lettered(c)
               /\ t + c[t].rec_len <= x \/ x + c[x].rec_len <= t + c[t].rec_len
      BY DEF Neat
    <3>3. ASSUME NEW t \in Cell, t < x
          PROVE  /\ t \in Lettered(c)
                 /\ t + n[t].rec_len <= x \/ x + n[x].rec_len <= t + n[t].rec_len
      <4>1. CASE t = q
        BY <1>2, <1>3, <3>1, <3>3, <4>1
      <4>2. CASE t # q
        BY <1>3, <3>1, <3>2, <3>3, <4>2
      <4> QED
        BY <4>1, <4>2
    <3> QED
      BY <3>1, <3>2, <3>3
  <2> QED
    BY <2>2, <2>3
<1>7. Neat(n)
  BY <1>4, <1>6 DEF Neat
<1> QED
  BY <1>4, <1>7

LEMMA UnshownNeat ==
  ASSUME NEW c \in [Cell -> EntryType], Chain(c, Shown(c)), Neat(c), NEW p \in Shown(c), p # 0,
         NEW n, n = Unshown(c, p)
  PROVE  Neat(n) /\ Lettered(n) = Lettered(c)
<1>1. PICK q \in Cell : Spans(c, n, q, p)
  BY UnshownSpans
<1> DEFINE m == c[q].rec_len + c[p].rec_len
<1>2. /\ q \in Shown(c) /\ q < p /\ q + c[q].rec_len = p
      /\ Shown(n) \subseteq Shown(c) /\ n = [c EXCEPT ![q].rec_len = m]
  BY <1>1 DEF Spans
<1>3. /\ \A x \in Cell : x \in Nat /\ x < EXT2_BLOCK_SIZE
      /\ \A x \in Cell : c[x].rec_len \in Nat
      /\ EXT2_BLOCK_SIZE \in Nat
  BY CellNumbers
<1>4. p \in Cell /\ p \in Lettered(c) /\ Shown(c) \subseteq Lettered(c)
  BY DEF Chain, Neat
<1>5. c[p].rec_len > 0 /\ p + c[p].rec_len <= EXT2_BLOCK_SIZE
  BY <1>4 DEF Neat
<1>6. m \in Nat /\ m > 0 /\ q + m = p + c[p].rec_len
  BY <1>2, <1>3, <1>4, <1>5
<1>7. q + m <= EXT2_BLOCK_SIZE
  BY <1>5, <1>6
<1> HIDE DEF m
<1>8. ASSUME NEW x \in Lettered(c), q < x PROVE q + m <= x \/ x + c[x].rec_len <= q + m
  <2>1. x \in Cell /\ x \in Nat /\ c[x].rec_len \in Nat /\ p \in Nat /\ c[p].rec_len \in Nat
    BY <1>3, <1>4 DEF Lettered
  <2>2. CASE x < p
    <3>1. x + c[x].rec_len <= p
      BY <2>1, <2>2, NeatReach
    <3> QED
      BY <1>6, <2>1, <3>1
  <2>3. CASE x = p
    BY <1>6, <2>1, <2>3
  <2>4. CASE p < x
    <3>1. p + c[p].rec_len <= x \/ x + c[x].rec_len <= p + c[p].rec_len
      BY <1>4, <2>4 DEF Neat
    <3> QED
      BY <1>6, <3>1
  <2> QED
    BY <2>1, <2>2, <2>3, <2>4
<1> QED
  BY <1>2, <1>4, <1>6, <1>7, <1>8, LengthNeat

\* Entry q is cut short to the gap that entry p is in, and p takes the rest.
Refits(c, n, q, p) ==
  /\ q \in Shown(c) /\ p \in Lettered(c) \ Shown(c)
  /\ q + c[q].rec_len = p + c[p].rec_len /\ q < p
  /\ \A x \in Lettered(c) : q < x /\ x < p => x + c[x].rec_len <= p
  /\ n = [c EXCEPT ![q].rec_len = p - q]

\* restore_file, where all entries between the two end before the second.
LEMMA RestoredNeat ==
  ASSUME NEW c \in [Cell -> EntryType], Chain(c, Shown(c)), Neat(c),
         NEW q, NEW p, NEW n, Refits(c, n, q, p)
  PROVE  Neat(n) /\ Lettered(n) = Lettered(c)
<1> USE DEF Refits
<1> DEFINE m == p - q
<1>1. /\ \A x \in Cell : x \in Nat /\ x < EXT2_BLOCK_SIZE
      /\ \A x \in Cell : c[x].rec_len \in Nat
      /\ EXT2_BLOCK_SIZE \in Nat
  BY CellNumbers
<1>2. p \in Cell /\ q \in Cell /\ Shown(c) \subseteq Lettered(c)
  BY DEF Chain, Neat, Lettered
<1>3. m \in Nat /\ m > 0 /\ q + m = p /\ p < EXT2_BLOCK_SIZE
  BY <1>1, <1>2
<1>4. Gains(c, n, p)
  <2>1. q <= p
    BY <1>1, <1>2
  <2> QED
    BY <1>2, <2>1, RestoredGains
<1>5. Shown(n) = Shown(c) \cup {p}
  <2>1. n \in [Cell -> EntryType] /\ Chain(n, Shown(c) \cup {p})
    BY <1>4 DEF Gains
  <2> QED
    BY <2>1, EntryLengths, ChainShown, Zenon
<1>6. Shown(n) \subseteq Lettered(c)
  BY <1>2, <1>5
<1>7. ASSUME NEW x \in Lettered(c), q < x PROVE q + m <= x \/ x + c[x].rec_len <= q + m
  <2>1. x \in Nat /\ p \in Nat
    BY <1>1, <1>2 DEF Lettered
  <2> QED
    BY <1>3, <1>7, <2>1
<1>8. n = [c EXCEPT ![q].rec_len = m] /\ q + m <= EXT2_BLOCK_SIZE
  <2>1. p \in Nat /\ EXT2_BLOCK_SIZE \in Nat
    BY <1>1, <1>2
  <2> QED
    BY <1>3, <2>1
<1> HIDE DEF m
<1> QED
  BY <1>3, <1>6, <1>7, <1>8, LengthNeat

\* The walk of search_entry does not pass over a cell that an entry between it
\* and the place q reaches beyond.
LEMMA WalkPassed ==
  ASSUME NEW d, NEW c \in [Cell -> EntryType], Neat(c), NEW name
  PROVE  LET w == Walked(d, c, name)
         IN  \A x \in Lettered(c) : w.q < x /\ x < w.p => x + c[x].rec_len <= w.p
<1> DEFINE n == EXT2_BLOCK_SIZE
           Passed(w) == /\ w.p \in Nat /\ w.q \in Nat
                        /\ \A x \in Lettered(c) : w.q < x /\ x < w.p => x + c[x].rec_len <= w.p
<1>1. PICK at : Turns(d, c, name, at)
  BY WalkTurns
<1>2. /\ at[0] = [p |-> 0, q |-> 0] /\ Walked(d, c, name) = at[n]
      /\ \A k \in 0 + 1 .. n : at[k] = WalkStep(d, c, name, at[k - 1])
  BY <1>1 DEF Turns
<1>3. /\ \A x \in Cell : x \in Nat /\ x < EXT2_BLOCK_SIZE
      /\ \A x \in Cell : c[x].rec_len \in Nat
      /\ EXT2_BLOCK_SIZE \in Nat
  BY CellNumbers
<1>4. \A x \in Lettered(c) : x \in Cell /\ x \in Nat
  BY <1>3 DEF Lettered
<1>5. ASSUME NEW w, Passed(w) PROVE Passed(WalkStep(d, c, name, w))
  <2> DEFINE v == WalkStep(d, c, name, w)
  <2>1. CASE w.p \notin Cell \/ WalkStops(c[w.p], name)
    BY <1>5, <2>1 DEF WalkStep
  <2>2. CASE w.p \in Cell /\ ~WalkStops(c[w.p], name) /\ c[w.p].inode \in d.ibm
    <3>1. v.p = w.p + 1 /\ v.q = w.p
      BY <2>2 DEF WalkStep
    <3> HIDE DEF v
    <3>2. \A x \in Lettered(c) : ~(v.q < x /\ x < v.p)
      BY <1>4, <1>5, <3>1
    <3>3. v.p \in Nat /\ v.q \in Nat
      BY <1>5, <3>1
    <3> QED
      BY <3>2, <3>3 DEF v
  <2>3. CASE w.p \in Cell /\ ~WalkStops(c[w.p], name) /\ c[w.p].inode \notin d.ibm
    <3>1. v.p = w.p + c[w.p].rec_len /\ v.q = w.q
      BY <2>3 DEF WalkStep
    <3> DEFINE p == w.p
               m == c[p].rec_len
    <3>2. p \in Cell /\ p \in Nat /\ m \in Nat /\ v.p = p + m
      BY <1>3, <2>3, <3>1
    <3> HIDE DEF v
    <3>3. ASSUME NEW x \in Lettered(c), v.q < x, x < v.p PROVE x + c[x].rec_len <= v.p
      <4>1. x \in Nat /\ c[x].rec_len \in Nat
        BY <1>3, <1>4
      <4>2. CASE x < p
        <5>1. x + c[x].rec_len <= p
          BY <1>5, <3>1, <3>3, <4>2
        <5> HIDE DEF p, m
        <5> QED
          BY <3>2, <4>1, <5>1
      <4>3. CASE x = p
        BY <3>1, <3>2, <4>3
      <4>4. CASE p < x
        <5>1. p + m <= x \/ x + c[x].rec_len <= p + m
          BY <3>2, <4>4 DEF Neat
        <5> HIDE DEF p, m
        <5> QED
          BY <3>2, <3>3, <4>1, <5>1
      <4> HIDE DEF p, m
      <4> QED
        BY <3>2, <4>1, <4>2, <4>3, <4>4
    <3>4. v.p \in Nat /\ v.q \in Nat
      <4> HIDE DEF p, m
      <4> QED
        BY <1>5, <3>1, <3>2
    <3> HIDE DEF p, m
    <3> QED
      BY <3>3, <3>4 DEF v
  <2> QED
    BY <2>1, <2>2, <2>3
<1> DEFINE T == {k \in 0 .. n : Passed(at[k])}
<1>6. 0 \in T
  <2>1. Passed([p |-> 0, q |-> 0])
    BY <1>4
  <2> QED
    BY <1>2, <1>3, <2>1
<1>7. \A k \in 0 + 1 .. n : k - 1 \in T => k \in T
  <2> HIDE DEF Passed
  <2> QED
    BY <1>2, <1>3, <1>5
<1>8. n \in T
  <2> HIDE DEF T
  <2>1. 0 .. n \subseteq T
    BY <1>3, <1>6, <1>7, StepByStep
  <2> QED
    BY <1>3, <2>1
<1> QED
  BY <1>2, <1>8

\* On the way to cell t there is none to stop at, the entries of S are those in
\* use, and no other reaches beyond the next of S or beyond t.
WayTo(d, c, name, t, S) ==
  /\ t \in Cell /\ S \in SUBSET Cell /\ 0 \in S
  /\ \A u \in Cell : u < t => ~WalkStops(c[u], name)
  /\ WalkStops(c[t], name)
  /\ \A u \in Cell : u < t => (c[u].inode \in d.ibm <=> u \in S)
  /\ \A u \in Cell \ S : u < t =>
       c[u].rec_len > 0 /\ u + c[u].rec_len <= t /\ \A s \in S : u < s => u + c[u].rec_len <= s

\* It comes to cell t, and the place before it is the last entry of S.
LEMMA WalkTo ==
  ASSUME NEW d, NEW c \in [Cell -> EntryType], NEW name, NEW t, NEW S, WayTo(d, c, name, t, S)
  PROVE  LET w == Walked(d, c, name)
         IN  /\ w.p = t /\ w.q \in Cell
             /\ t # 0 => w.q \in S /\ w.q < t /\ \A s \in S : s < t => s <= w.q
<1> USE DEF WayTo
<1> DEFINE n == EXT2_BLOCK_SIZE
           Right(w) == /\ w.p \in Nat /\ w.p <= t /\ w.q \in Cell
                       /\ w.p # 0 => w.q \in S /\ w.q < w.p /\ \A s \in S : s < w.p => s <= w.q
           Near(w, k) == w.p = t \/ k <= w.p
<1>1. PICK at : Turns(d, c, name, at)
  BY WalkTurns
<1>2. /\ at[0] = [p |-> 0, q |-> 0] /\ Walked(d, c, name) = at[n]
      /\ \A k \in 0 + 1 .. n : at[k] = WalkStep(d, c, name, at[k - 1])
  BY <1>1 DEF Turns
<1>3. /\ \A x \in Cell : x \in Nat /\ x < EXT2_BLOCK_SIZE
      /\ \A x \in Cell : c[x].rec_len \in Nat
      /\ EXT2_BLOCK_SIZE \in Nat /\ t \in Nat /\ t < n
  BY CellNumbers
<1>4. ASSUME NEW w, Right(w), NEW k \in Nat, Near(w, k)
      PROVE  Right(WalkStep(d, c, name, w)) /\ Near(WalkStep(d, c, name, w), k + 1)
  <2> DEFINE v == WalkStep(d, c, name, w)
             p == w.p
  <2>1. CASE p = t
    <3>1. v = w
      BY <2>1 DEF WalkStep
    <3> QED
      BY <1>4, <2>1, <3>1
  <2>2. CASE p # t
    <3>1. p \in Cell /\ p \in Nat /\ p < t /\ k <= p
      BY <1>3, <1>4, <2>2, BlockSizes
    <3>2. ~WalkStops(c[p], name) /\ (c[p].inode \in d.ibm <=> p \in S)
      BY <3>1
    <3>3. CASE p \in S
      <4>1. v.p = p + 1 /\ v.q = p
        BY <3>1, <3>2, <3>3 DEF WalkStep
      <4> HIDE DEF v, p
      <4>2. \A s \in S : s < p + 1 => s <= p
        BY <1>3, <3>1
      <4>3. v.p \in Nat /\ v.p <= t /\ v.q \in Cell /\ v.q \in S /\ v.q < v.p /\ k + 1 <= v.p
        BY <1>3, <3>1, <3>3, <4>1
      <4> QED
        BY <4>1, <4>2, <4>3 DEF v
    <3>4. CASE p \notin S
      <4> DEFINE m == c[p].rec_len
      <4>1. v.p = p + m /\ v.q = w.q
        BY <3>1, <3>2, <3>4 DEF WalkStep
      <4>2. p # 0 /\ w.q \in S /\ w.q < p /\ \A s \in S : s < p => s <= w.q
        BY <1>4, <3>4
      <4>3. m \in Nat /\ m > 0 /\ p + m <= t /\ \A s \in S : p < s => p + m <= s
        BY <1>3, <3>1, <3>4
      <4>4. w.q \in Cell /\ w.q \in Nat
        BY <1>3, <1>4
      <4> DEFINE q == w.q
      <4> HIDE DEF v, p, m, q
      <4>5. \A s \in S : s < p + m => s <= q
        <5>1. \A s \in S : s \in Nat
          BY <1>3
        <5>2. \A s \in S : s < p => s <= q
          BY <4>2 DEF q
        <5>3. p \in Nat /\ m \in Nat /\ p \notin S /\ \A s \in S : p < s => p + m <= s
          BY <3>1, <3>4, <4>3
        <5> QED
          BY <5>1, <5>2, <5>3
      <4>6. q \in S /\ q \in Nat /\ q < p
        BY <4>2, <4>4 DEF q
      <4>7. p + m \in Nat /\ p + m # 0 /\ q < p + m /\ k + 1 <= p + m
        BY <3>1, <4>3, <4>6
      <4>8. v.p = p + m /\ v.q = q /\ q \in Cell
        BY <4>1, <4>4 DEF q
      <4> QED
        BY <4>3, <4>5, <4>6, <4>7, <4>8 DEF v
    <3> QED
      BY <3>3, <3>4
  <2> QED
    BY <2>1, <2>2
<1> DEFINE T == {k \in 0 .. n : Right(at[k]) /\ Near(at[k], k)}
<1>5. 0 \in T
  <2>1. Right([p |-> 0, q |-> 0]) /\ Near([p |-> 0, q |-> 0], 0)
    BY <1>3
  <2> QED
    BY <1>2, <1>3, <2>1
<1>6. \A k \in 0 + 1 .. n : k - 1 \in T => k \in T
  <2> SUFFICES ASSUME NEW k \in 0 + 1 .. n, k - 1 \in T PROVE k \in T
    OBVIOUS
  <2>1. k \in 0 .. n /\ k - 1 \in Nat /\ (k - 1) + 1 = k
    BY <1>3
  <2>2. at[k] = WalkStep(d, c, name, at[k - 1]) /\ Right(at[k - 1]) /\ Near(at[k - 1], k - 1)
    BY <1>2
  <2> HIDE DEF Right, Near
  <2>3. Right(at[k]) /\ Near(at[k], (k - 1) + 1)
    BY <1>4, <2>1, <2>2
  <2> QED
    BY <2>1, <2>3
<1>7. n \in T
  <2> HIDE DEF T
  <2>1. 0 .. n \subseteq T
    BY <1>3, <1>5, <1>6, StepByStep
  <2> QED
    BY <1>3, <2>1
<1>8. Right(at[n]) /\ Near(at[n], n)
  BY <1>7
<1>9. at[n].p = t
  BY <1>3, <1>8
<1> QED
  BY <1>2, <1>8, <1>9

\* Image d has room for an entry in block b, and f has the entry there: the
\* other blocks are as before or new, and so are the directories of two blocks.
Ready(d, b) ==
  /\ Tidy(d) /\ \A a \in Block \ d.bbm : d.block[a] = Zeros
  /\ \A dir \in Dirs(d) : d.inode[dir].i_block[0] \in Block
  /\ \/ d.block[b] = Zeros
     \/ Chain(d.block[b], Shown(d.block[b])) /\ new_directory_fits(d.block[b])

Enters(d, f, b, name) ==
  /\ \E type \in {"reg", "dir", "lnk"}, ino \in Inode :
       f.block[b] = Inserted(d.block[b], name, type, ino)
  /\ \A a \in Block \ {b} : f.block[a] = d.block[a] \/ (a \notin d.bbm /\ Neat(f.block[a]))
  /\ \A dir \in Dirs(f) : 1 \in Used(f.inode[dir]) =>
       /\ dir \in Dirs(d) /\ 1 \in Used(d.inode[dir])
       /\ f.inode[dir].i_block[0] = d.inode[dir].i_block[0]

LEMMA NoLetters == Lettered(Zeros) = {}
<1>1. Zero.name = ""
  BY DEF Zero, Entry
<1> QED
  BY <1>1, ZerosTyped, Zenon DEF Lettered

\* No name is lost.
LEMMA TidyKept ==
  ASSUME NEW d, Tidy(d), NEW f,
         \A a \in Block : f.block[a] = d.block[a]
                            \/ (Neat(f.block[a]) /\ Lettered(d.block[a]) \subseteq Lettered(f.block[a])),
         \A dir \in Dirs(f) : 1 \in Used(f.inode[dir]) =>
           /\ dir \in Dirs(d) /\ 1 \in Used(d.inode[dir])
           /\ f.inode[dir].i_block[0] = d.inode[dir].i_block[0] /\ f.inode[dir].i_block[0] \in Block
  PROVE  Tidy(f)
<1>1. \A b \in Block : f.block[b] # Zeros => Neat(f.block[b])
  BY DEF Tidy
<1>2. ASSUME NEW dir \in Dirs(f), 1 \in Used(f.inode[dir])
      PROVE  Lettered(f.block[f.inode[dir].i_block[0]]) = Cell
  <2> DEFINE a == f.inode[dir].i_block[0]
  <2>1. a \in Block /\ Lettered(d.block[a]) = Cell
    BY <1>2 DEF Tidy
  <2> HIDE DEF a
  <2>2. Lettered(d.block[a]) \subseteq Lettered(f.block[a])
    BY <2>1
  <2>3. Lettered(f.block[a]) \subseteq Cell
    BY DEF Lettered
  <2> QED
    BY <2>1, <2>2, <2>3 DEF a
<1> QED
  BY <1>1, <1>2 DEF Tidy

LEMMA EntersTidy ==
  ASSUME NEW d \in Image, NEW b \in Block, Ready(d, b), NEW name \in Name,
         NEW f, Enters(d, f, b, name)
  PROVE  Tidy(f)
<1>1. PICK type \in {"reg", "dir", "lnk"}, ino \in Inode :
        f.block[b] = Inserted(d.block[b], name, type, ino)
  BY DEF Enters
<1>2. Neat(f.block[b]) /\ Lettered(d.block[b]) \subseteq Lettered(f.block[b])
  <2>1. CASE d.block[b] = Zeros
    BY <1>1, <2>1, FirstNeat, NoLetters
  <2>2. CASE d.block[b] # Zeros
    <3> DEFINE c == d.block[b]
               n == f.block[b]
    <3>1. c \in [Cell -> EntryType] /\ Chain(c, Shown(c)) /\ Neat(c) /\ new_directory_fits(c)
      BY <2>2, Fields DEF Ready, Tidy
    <3>2. n = Inserted(c, name, type, ino)
      BY <1>1
    <3> HIDE DEF c, n
    <3>3. Neat(n) /\ Lettered(c) \subseteq Lettered(n)
      BY <3>1, <3>2, InsertedNeat
    <3> QED
      BY <3>3 DEF c, n
  <2> QED
    BY <2>1, <2>2
<1>3. ASSUME NEW a \in Block
      PROVE  f.block[a] = d.block[a]
               \/ (Neat(f.block[a]) /\ Lettered(d.block[a]) \subseteq Lettered(f.block[a]))
  <2>1. CASE a = b
    BY <1>2, <2>1
  <2>2. CASE a # b
    <3>1. f.block[a] = d.block[a] \/ (Neat(f.block[a]) /\ d.block[a] = Zeros)
      BY <2>2 DEF Enters, Ready
    <3> QED
      BY <3>1, NoLetters
  <2> QED
    BY <2>1, <2>2
<1>4. Tidy(d) /\ \A dir \in Dirs(f) : 1 \in Used(f.inode[dir]) =>
        /\ dir \in Dirs(d) /\ 1 \in Used(d.inode[dir])
        /\ f.inode[dir].i_block[0] = d.inode[dir].i_block[0] /\ f.inode[dir].i_block[0] \in Block
  BY DEF Enters, Ready
<1> QED
  BY <1>3, <1>4, TidyKept

LEMMA AddDirectoryEnters ==
  ASSUME NEW d \in Image, NEW b \in d.bbm, NEW name \in Name, NEW dir \in Dirs(d),
         NEW harm, add_directory(d, b, name, dir, harm)
  PROVE  damage' = "full" \/ Enters(d, disk', b, name)
<1> DEFINE ino  == find_invalid_indode_index(d)
           free == find_free_block_index(d)
           c == Inserted(d.block[b], name, "dir", ino)
           e == Write(d, b, c)
           f == AddDirectory(d, b, name, dir, ino, free)
<1>1. damage' = "full" \/ (ino # -1 /\ free # -1 /\ disk' = f)
  BY DEF add_directory, Leaves
<1>2. ASSUME ino # -1, free # -1 PROVE Enters(d, f, b, name)
  <2>1. /\ ino \in Inode \ d.ibm /\ free \in Block \ d.bbm /\ dir \in Inode /\ dir \in d.ibm
        /\ d.ibm \subseteq Inode /\ b \in Block
    BY <1>2, FreeInode, FreeBlock, Fields DEF Dirs
  <2> HIDE DEF ino, free
  <2>2. AddedTo(e, f, dir, ino, free) /\ ino \in Inode \ {dir} /\ free # b
    BY <2>1, AddDirectoryFields
  <2>3. d.block[b] \in [Cell -> EntryType] /\ ino \in Inode \cup {-1} /\ "dir" \in {"reg", "dir", "lnk"}
    BY <2>1, Fields
  <2>4. c \in [Cell -> EntryType]
    BY <2>3, AddedTyped
  <2>5. c = Inserted(d.block[b], name, "dir", ino)
    OBVIOUS
  <2> HIDE DEF c
  <2>6. Rewritten(d, e, b, c)
    BY <2>1, <2>4, Written
  <2> HIDE DEF e, f
  <2>7. Used(f.inode[ino]) = {0}
    <3>1. Count(f.inode[ino]) = 1
      BY <2>2 DEF AddedTo, Count
    <3> QED
      BY <3>1, UsedSlots
  <2>8. \A i \in Inode \ {ino} : /\ f.inode[i].i_mode = d.inode[i].i_mode
                                 /\ Used(f.inode[i]) = Used(d.inode[i])
                                 /\ f.inode[i].i_block = d.inode[i].i_block
    BY <2>2, <2>6 DEF AddedTo, Used, Count, Rewritten
  <2>9. f.block[b] = c /\ \A a \in Block \ {b} : f.block[a] = d.block[a] \/ (a = free /\ Neat(f.block[a]))
    <3>1. Neat(NewDirectory(ino, dir))
      BY <2>1, NewDirectoryNeat
    <3> QED
      BY <2>1, <2>2, <2>6, <3>1 DEF AddedTo, Rewritten
  <2>10. ASSUME NEW i \in Dirs(f), 1 \in Used(f.inode[i])
         PROVE  /\ i \in Dirs(d) /\ 1 \in Used(d.inode[i])
                /\ f.inode[i].i_block[0] = d.inode[i].i_block[0]
    <3>1. i \in d.ibm \cup {ino} /\ i # ino
      BY <2>2, <2>6, <2>7, <2>10 DEF AddedTo, Rewritten, Dirs
    <3> QED
      BY <2>1, <2>8, <2>10, <3>1 DEF Dirs
  <2> QED
    BY <2>1, <2>3, <2>5, <2>9, <2>10 DEF Enters
<1> HIDE DEF f
<1> QED
  BY <1>1, <1>2

LEMMA AddFileEnters ==
  ASSUME NEW d \in Image, NEW b \in Block, NEW name \in Name,
         NEW size \in Size, NEW harm, add_file(d, b, name, FALSE, size, harm)
  PROVE  damage' = "full" \/ Enters(d, disk', b, name)
<1> DEFINE ino == find_invalid_indode_index(d)
           c == Inserted(d.block[b], name, "reg", ino)
           e == Write(d, b, c)
<1>1. ino = -1 \/ ino \in Inode \ d.ibm
  BY FreeInode
<1>2. (ino = -1 /\ damage' = "full") \/ (ino # -1 /\ CopyBlocks(e, ino, size, harm))
  BY DEF add_file, Leaves, Added
<1>3. ASSUME ino \in Inode \ d.ibm, CopyBlocks(e, ino, size, harm), damage' # "full"
      PROVE  Enters(d, disk', b, name)
  <2> HIDE DEF ino
  <2>1. /\ d.block[b] \in [Cell -> EntryType] /\ ino \in Inode \cup {-1} /\ "reg" \in {"reg", "dir", "lnk"}
        /\ d.ibm \subseteq Inode
    BY <1>3, Fields
  <2>2. c \in [Cell -> EntryType]
    BY <2>1, AddedTyped
  <2>3. c = Inserted(d.block[b], name, "reg", ino)
    OBVIOUS
  <2> HIDE DEF c
  <2>4. Rewritten(d, e, b, c) /\ e \in Image
    BY <2>2, Written DEF Rewritten
  <2> HIDE DEF e
  <2>6. Copied(e, disk', ino, size)
    BY <1>3, <2>4, CopyBlocksFields
  <2> DEFINE f == disk'
  <2>7. /\ f.block = e.block /\ f.ibm = d.ibm \cup {ino} /\ f.inode[ino].i_mode = "reg"
        /\ \A i \in Inode \ {ino} : f.inode[i] = d.inode[i]
    BY <2>4, <2>6 DEF Copied, NewFields, Rewritten
  <2> HIDE DEF f
  <2>8. f.block[b] = c /\ \A a \in Block \ {b} : f.block[a] = d.block[a]
    BY <2>4, <2>7 DEF Rewritten
  <2>9. \A i \in Dirs(f) : i \in Dirs(d) /\ f.inode[i] = d.inode[i]
    BY <1>3, <2>1, <2>7 DEF Dirs
  <2>10. Enters(d, f, b, name)
    BY <1>3, <2>1, <2>3, <2>8, <2>9 DEF Enters
  <2> QED
    BY <2>10 DEF f
<1> HIDE DEF ino, e
<1> QED
  BY <1>1, <1>2, <1>3

LEMMA HardlinkEnters ==
  ASSUME NEW d \in Image, NEW b \in Block, NEW name \in Name, NEW ino \in Inode \cup {0},
         NEW harm, add_hardlink(d, b, FALSE, name, ino, harm)
  PROVE  damage' = "full" \/ Enters(d, disk', b, name)
<1> DEFINE new == find_invalid_indode_index(d)
           free == find_free_block_index(d)
           c(type, i) == Inserted(d.block[b], name, type, i)
           e(type, i) == Write(d, b, c(type, i))
<1>1. new = -1 \/ new \in Inode \ d.ibm
  BY FreeInode
<1>2. d.block[b] \in [Cell -> EntryType] /\ d.ibm \subseteq Inode
  BY Fields
<1>3. ASSUME NEW type \in {"reg", "lnk"}, NEW i \in Inode
      PROVE  Rewritten(d, e(type, i), b, c(type, i)) /\ e(type, i) \in Image
  <2>1. i \in Inode \cup {-1} /\ type \in {"reg", "dir", "lnk"}
    OBVIOUS
  <2>2. c(type, i) \in [Cell -> EntryType]
    BY <1>2, <2>1, AddedTyped
  <2> HIDE DEF c
  <2>3. Rewritten(d, e(type, i), b, c(type, i))
    BY <2>2, Written
  <2> HIDE DEF e
  <2> QED
    BY <2>3 DEF Rewritten
<1>4. ASSUME NEW type \in {"reg", "lnk"}, NEW i \in Inode, NEW f, f.block = e(type, i).block,
             \A j \in Dirs(f) : j \in Dirs(d) /\ f.inode[j].i_blocks = d.inode[j].i_blocks
                                 /\ f.inode[j].i_block = d.inode[j].i_block
      PROVE  Enters(d, f, b, name)
  <2>1. Rewritten(d, e(type, i), b, c(type, i))
    BY <1>3
  <2>2. c(type, i) = Inserted(d.block[b], name, type, i)
    OBVIOUS
  <2> HIDE DEF c, e
  <2>3. f.block[b] = c(type, i) /\ \A a \in Block \ {b} : f.block[a] = d.block[a]
    BY <1>4, <2>1 DEF Rewritten
  <2>4. \A j \in Dirs(f) : Used(f.inode[j]) = Used(d.inode[j])
    BY <1>4 DEF Used, Count
  <2> QED
    BY <1>4, <2>2, <2>3, <2>4 DEF Enters
<1>5. CASE ino # 0 /\ disk' = Linked(e("reg", ino), ino)
  <2> DEFINE g == e("reg", ino)
             f == Linked(g, ino)
  <2>1. ino \in Inode
    BY <1>5
  <2>2. g \in Image /\ g.inode = d.inode /\ g.ibm = d.ibm
    <3> HIDE DEF e, c
    <3> QED
      BY <1>3, <2>1 DEF Rewritten
  <2>3. disk' = f
    BY <1>5
  <2> HIDE DEF e, c, g
  <2>4. /\ NewFields(g, f, ino, f.inode[ino], g.bbm, g.ibm)
        /\ f.inode[ino].i_mode = g.inode[ino].i_mode
        /\ f.inode[ino].i_blocks = g.inode[ino].i_blocks
        /\ f.inode[ino].i_block = g.inode[ino].i_block
    BY <2>1, <2>2, LinkedFields
  <2> HIDE DEF f
  <2>5. f.block = g.block /\ f.ibm = d.ibm
        /\ \A j \in Inode : /\ f.inode[j].i_mode = d.inode[j].i_mode
                            /\ f.inode[j].i_blocks = d.inode[j].i_blocks
                            /\ f.inode[j].i_block = d.inode[j].i_block
    BY <2>2, <2>4 DEF NewFields
  <2>6. Enters(d, f, b, name)
    BY <1>2, <1>4, <2>1, <2>5 DEF Dirs, g
  <2> QED
    BY <2>3, <2>6
<1>6. CASE new # -1 /\ disk' = Symlinked(e("lnk", new), new)
  <2> DEFINE g == e("lnk", new)
             f == Symlinked(g, new)
  <2>1. new \in Inode \ d.ibm
    BY <1>1, <1>6
  <2> HIDE DEF new
  <2>2. g \in Image /\ g.inode = d.inode /\ g.ibm = d.ibm
    <3> HIDE DEF e, c
    <3> QED
      BY <1>3, <2>1 DEF Rewritten
  <2>3. disk' = f
    BY <1>6
  <2> HIDE DEF e, c, g
  <2>4. /\ \E bb : NewFields(g, f, new, f.inode[new], bb, g.ibm \cup {new})
        /\ f.inode[new].i_mode = "lnk"
    BY <2>1, <2>2, SymlinkedFields
  <2> HIDE DEF f
  <2>5. f.block = g.block /\ f.ibm = d.ibm \cup {new} /\ f.inode[new].i_mode = "lnk"
        /\ \A j \in Inode \ {new} : f.inode[j] = d.inode[j]
    BY <2>2, <2>4 DEF NewFields
  <2>6. \A j \in Dirs(f) : j \in Dirs(d) /\ f.inode[j] = d.inode[j]
    BY <1>2, <2>1, <2>5 DEF Dirs
  <2>7. Enters(d, f, b, name)
    BY <1>4, <2>1, <2>5, <2>6 DEF g
  <2> QED
    BY <2>3, <2>7
<1> QED
  BY <1>5, <1>6 DEF add_hardlink, Leaves, Added

\* A block in use with room, and a new one.
LEMMA FreeBlocksZero ==
  ASSUME NEW d, Own(d), NothingElse(d)
  PROVE  \A a \in Block \ d.bbm : d.block[a] = Zeros
<1>1. \A j \in Dirs(d) : BlocksOf(d.inode[j]) \subseteq d.bbm
  BY DEF Own, Dirs
<1> QED
  BY <1>1 DEF NothingElse

LEMMA BlockReady ==
  ASSUME NEW d \in Image, Good(d), Tidy(d), NEW dir \in Dirs(d), NEW s \in Used(d.inode[dir]),
         NEW b, b = d.inode[dir].i_block[s]
  PROVE  /\ b \in d.bbm /\ b \in Block /\ Content(d, dir, s) = d.block[b]
         /\ new_directory_fits(d.block[b]) => Ready(d, b)
<1>1. Own(d) /\ Laid(d, PlacesOf(d)) /\ NothingElse(d)
  BY SoundParts DEF Good
<1>2. b \in d.bbm /\ b \in Block
  BY <1>1, DirectoryBlocks
<1>3. Chain(d.block[b], Shown(d.block[b])) /\ Content(d, dir, s) = d.block[b]
  BY <1>1, BlockShows
<1>4. \A i \in Dirs(d) : d.inode[i].i_block[0] \in Block
  BY <1>1, DirectoryBlocks
<1> QED
  BY <1>1, <1>2, <1>3, <1>4, FreeBlocksZero DEF Ready

\* Where no entry fits, there is a name in every cell.
LEMMA FullLettered ==
  ASSUME NEW c \in [Cell -> EntryType], Chain(c, Shown(c)), Neat(c), ~new_directory_fits(c)
  PROVE  Lettered(c) = Cell
<1>1. LastShown(c) \in Shown(c)
  BY EntryLengths, ChainShown, Zenon
<1> DEFINE L == LastShown(c)
<1>2. L \in Cell /\ L \in Lettered(c)
  BY <1>1 DEF Chain, Neat
<1>3. ~(L + 2 <= EXT2_BLOCK_SIZE)
  BY DEF new_directory_fits
<1> HIDE DEF L
<1>4. \A t \in Cell : t < L \/ t = L
  BY <1>2, <1>3, BlockSizes
<1>5. \A t \in Cell : t < L => t \in Lettered(c)
  BY <1>2 DEF Neat
<1> QED
  BY <1>2, <1>4, <1>5 DEF Lettered

LEMMA GrownReady ==
  ASSUME NEW d \in Image, Good(d), Tidy(d), NEW dir \in Dirs(d), BlockCount(d, dir) = 1,
         ~new_directory_fits(Content(d, dir, 0)), find_free_block_index(d) # -1
  PROVE  LET g == Grown(d, dir, 1)
             b == find_free_block_index(d)
         IN  g \in Image /\ b \in g.bbm /\ b \in Block /\ dir \in Dirs(g) /\ Ready(g, b)
<1> DEFINE g == Grown(d, dir, 1)
           b == find_free_block_index(d)
<1>1. Own(d) /\ NothingElse(d) /\ Laid(d, PlacesOf(d))
  BY SoundParts DEF Good
<1>2. b \in Block \ d.bbm
  BY FreeBlock
<1>3. /\ dir \in Inode /\ dir \in d.ibm /\ 0 \in Used(d.inode[dir])
      /\ d.inode[dir].i_block \in [Slot -> {-1, 0} \cup Block] /\ 0 \in Slot /\ 1 \in Slot
      /\ \A i \in Dirs(d) : d.inode[i].i_block[0] \in Block /\ i \in Inode
  BY <1>1, DirectoryBlocks, Fields, InodeFields, Slots
<1>4. GrownTo(d, g, dir, 1, b)
  BY <1>3, GrownFields
<1> HIDE DEF g, b
<1>5. /\ g \in Image /\ g.ibm = d.ibm /\ g.block = d.block /\ g.bbm = d.bbm \cup {b}
      /\ \A i \in Inode : /\ g.inode[i].i_mode = d.inode[i].i_mode
                          /\ g.inode[i].i_block[0] = d.inode[i].i_block[0]
      /\ \A i \in Inode \ {dir} : g.inode[i] = d.inode[i]
  <2>1. g.inode[dir].i_block[0] = d.inode[dir].i_block[0]
    <3>1. g.inode[dir].i_block = [d.inode[dir].i_block EXCEPT ![1] = b]
      BY <1>4 DEF GrownTo
    <3> QED
      BY <1>3, <3>1
  <2> QED
    BY <1>2, <1>4, <2>1 DEF GrownTo
<1>6. Dirs(g) = Dirs(d)
  <2>1. d.ibm \subseteq Inode
    BY Fields
  <2> QED
    BY <1>5, <2>1 DEF Dirs
<1>7. Lettered(d.block[d.inode[dir].i_block[0]]) = Cell
  <2> DEFINE c == d.block[d.inode[dir].i_block[0]]
  <2>1. c \in [Cell -> EntryType] /\ Chain(c, Shown(c)) /\ Content(d, dir, 0) = c
    BY <1>1, <1>3, BlockShows
  <2>2. d.inode[dir].i_block[0] \in Block
    BY <1>3
  <2>3. Neat(c)
    <3>1. c # Zeros
      <4> HIDE DEF c
      <4> QED
        BY <2>1, ChainNotZeros
    <3> QED
      BY <2>2, <3>1 DEF Tidy
  <2> HIDE DEF c
  <2>4. Lettered(c) = Cell
    BY <2>1, <2>3, FullLettered
  <2> QED
    BY <2>4 DEF c
<1>8. Tidy(g)
  <2>1. \A i \in Dirs(g) : 1 \in Used(g.inode[i]) =>
          Lettered(g.block[g.inode[i].i_block[0]]) = Cell
    BY <1>3, <1>5, <1>6, <1>7 DEF Tidy
  <2> QED
    BY <1>5, <2>1 DEF Tidy
<1>9. \A a \in Block \ d.bbm : d.block[a] = Zeros
  BY <1>1, FreeBlocksZero
<1>10. Ready(g, b)
  BY <1>2, <1>3, <1>5, <1>6, <1>8, <1>9 DEF Ready
<1> QED
  BY <1>2, <1>5, <1>6, <1>10 DEF g, b

\* What a tool leaves of a tidy image.
Tidies == damage' = "none" => Tidy(disk')

LEMMA MkdirTidy ==
  ASSUME disk \in Image, Good(disk), Tidy(disk), NEW path \in Path, ext2_mkdir(path)
  PROVE  Tidies
<1>1. Sound(disk, PlacesOf(disk)) /\ Own(disk)
  BY SoundParts DEF Good
<1>2. FirstBlocksLead(disk, path) \in Dirs(disk) \cup {0} /\ Last(path) \in Name
  BY <1>1, FirstBlocks, Paths
<1>3. PICK dir \in {FirstBlocksLead(disk, path)} \ {0} : mk_dir(dir, Content(disk, dir, 0), Last(path))
  BY DEF ext2_mkdir
<1> DEFINE name == Last(path)
           c == Content(disk, dir, 0)
           b == find_free_block_index(disk)
           k == disk.inode[dir].i_block[0]
           harm == IF Has(disk, dir, name) THEN "exists" ELSE "none"
           g == Grown(disk, dir, 1)
<1>4. dir \in Dirs(disk) /\ name \in Name /\ 0 \in Used(disk.inode[dir])
  BY <1>1, <1>2, <1>3, DirectoryBlocks
<1>5. k \in disk.bbm /\ k \in Block /\ c = disk.block[k] /\ (new_directory_fits(c) => Ready(disk, k))
  BY <1>4, BlockReady
<1>6. \/ new_directory_fits(c) /\ add_directory(disk, k, name, dir, harm)
      \/ damage' = "full"
      \/ /\ BlockCount(disk, dir) = 1 /\ b # -1 /\ ~new_directory_fits(c)
         /\ add_directory(g, b, name, dir, GrownHarm(disk, dir, harm))
  BY <1>3 DEF mk_dir, Leaves
<1>7. CASE new_directory_fits(c) /\ add_directory(disk, k, name, dir, harm)
  <2> HIDE DEF name, harm, c, k
  <2>1. damage' = "full" \/ Enters(disk, disk', k, name)
    BY <1>4, <1>5, <1>7, AddDirectoryEnters
  <2> QED
    BY <1>4, <1>5, <1>7, <2>1, EntersTidy DEF Tidies
<1>8. CASE /\ BlockCount(disk, dir) = 1 /\ b # -1 /\ ~new_directory_fits(c)
           /\ add_directory(g, b, name, dir, GrownHarm(disk, dir, harm))
  <2>1. g \in Image /\ b \in g.bbm /\ b \in Block /\ dir \in Dirs(g) /\ Ready(g, b)
    BY <1>4, <1>8, GrownReady
  <2> HIDE DEF name, harm, c, k, g, b
  <2>2. damage' = "full" \/ Enters(g, disk', b, name)
    BY <1>4, <1>8, <2>1, AddDirectoryEnters
  <2> QED
    BY <1>4, <2>1, <2>2, EntersTidy DEF Tidies
<1> QED
  BY <1>6, <1>7, <1>8 DEF Tidies

LEMMA CpTidy ==
  ASSUME disk \in Image, Good(disk), Tidy(disk), NEW path \in Path, NEW size \in Size,
         ext2_cp(path, size)
  PROVE  Tidies
<1> DEFINE slots == [dir \in Inode |-> 0 .. BlockCount(disk, dir) - 1]
           at == Reached(disk, path, slots)
           dir == at.dir
           name == path[at.k]
           open == OpenBlocks(disk, dir, name)
           i == Min(open)
           b == find_free_block_index(disk)
           harm == IF Has(disk, dir, name) THEN "exists" ELSE "none"
           g == Grown(disk, dir, i + 1)
           more == GrownHarm(disk, dir, harm)
           k(s) == disk.inode[dir].i_block[s]
<1>1. Sound(disk, PlacesOf(disk)) /\ Own(disk) /\ Laid(disk, PlacesOf(disk))
  BY SoundParts DEF Good
<1>2. \A a \in Dirs(disk) : LooksIn(disk, a, slots[a])
  BY <1>1, SlotsToLookIn, SoundParts DEF Dirs
<1>3. dir \in Dirs(disk) /\ at.k \in 1 .. Len(path)
  BY <1>1, <1>2, LookedUp
<1>4. name \in Name /\ dir \in Inode
  BY <1>1, <1>3, Paths, Fields DEF Dirs
<1>5. open = {j \in slots[dir] : Named(Content(disk, dir, j), name) = {}}
  BY <1>4 DEF OpenBlocks
<1>6. \/ /\ open # {} /\ new_directory_fits(Content(disk, dir, i))
         /\ add_file(disk, k(i), name, FALSE, size, harm)
      \/ damage' = "full"
      \/ /\ open # {} /\ i + 1 = BlockCount(disk, dir) /\ b # -1
         /\ ~new_directory_fits(Content(disk, dir, i))
         /\ add_file(g, b, name, FALSE, size, more)
      \/ add_file(disk, k(0), name, TRUE, size, "exists")
  <2> HIDE DEF at
  <2> QED
    BY <1>5, ZenonT(30) DEF ext2_cp, cp_new, Leaves, at
<1>7. Used(disk.inode[dir]) = 0 .. BlockCount(disk, dir) - 1 /\ BlockCount(disk, dir) \in {1, 2}
      /\ 0 \in Used(disk.inode[dir])
  BY <1>1, <1>3, DirectoryBlocks DEF BlockCount, Count
<1>8. open \subseteq Nat /\ open \subseteq Used(disk.inode[dir])
  BY <1>7 DEF OpenBlocks
<1>9. open # {} => i \in open /\ \A j \in open : i <= j
  <2> HIDE DEF open
  <2> QED
    BY <1>8, MinIsLeast
<1>10. ~Has(disk, dir, name) => 0 \in open
  BY <1>7 DEF Has, OpenBlocks
<1> HIDE DEF at, name, open, i, dir
<1>11. CASE /\ open # {} /\ new_directory_fits(Content(disk, dir, i))
            /\ add_file(disk, k(i), name, FALSE, size, harm)
  <2>1. i \in Used(disk.inode[dir])
    BY <1>8, <1>9, <1>11
  <2>2. k(i) \in Block /\ Ready(disk, k(i))
    BY <1>3, <1>11, <2>1, BlockReady
  <2> HIDE DEF k, harm
  <2>3. damage' = "full" \/ Enters(disk, disk', k(i), name)
    BY <1>4, <1>11, <2>2, AddFileEnters
  <2> QED
    BY <1>4, <2>2, <2>3, EntersTidy DEF Tidies
<1>12. CASE add_file(disk, k(0), name, TRUE, size, "exists")
  <2>1. k(0) \in Block
    BY <1>1, <1>3, <1>7, DirectoryBlocks
  <2> HIDE DEF k
  <2>2. "exists" \in Damages /\ TRUE \in BOOLEAN /\ "exists" # "none"
    BY DEF Damages
  <2>3. damage' \in {"exists", "full"}
    BY <1>4, <1>12, <2>1, <2>2, AddFileFits
  <2> QED
    BY <2>3 DEF Tidies
<1>13. CASE /\ open # {} /\ i + 1 = BlockCount(disk, dir) /\ b # -1
            /\ ~new_directory_fits(Content(disk, dir, i))
            /\ add_file(g, b, name, FALSE, size, more)
  <2>1. CASE more = "none"
    <3>1. ~Has(disk, dir, name)
      BY <2>1 DEF more, GrownHarm, harm
    <3>2. i = 0 /\ i + 1 = 1
      <4>1. 0 \in open
        BY <1>10, <3>1
      <4>2. i \in open /\ i <= 0
        BY <1>9, <4>1, Zenon
      <4>3. i \in Nat
        BY <1>8, <4>2, Zenon
      <4> HIDE DEF g, b, more, harm
      <4> QED
        BY <4>2, <4>3
    <3>3. g \in Image /\ b \in Block /\ Ready(g, b)
      BY <1>3, <1>13, <3>2, GrownReady
    <3> HIDE DEF g, b, more
    <3>4. damage' = "full" \/ Enters(g, disk', b, name)
      BY <1>4, <1>13, <3>3, AddFileEnters
    <3> QED
      BY <1>4, <3>3, <3>4, EntersTidy DEF Tidies
  <2>2. CASE more # "none"
    <3>1. more \in Damages /\ FALSE \in BOOLEAN
      BY DEF Damages, GrownHarm
    <3>2. g \in Image /\ b \in Block
      <4>1. i = BlockCount(disk, dir) - 1 /\ i + 1 = BlockCount(disk, dir)
        <5>1. i + 1 = BlockCount(disk, dir) /\ open # {}
          BY <1>13, Zenon
        <5>2. i \in open
          BY <1>9, <5>1, Zenon
        <5>3. i \in Nat
          BY <1>8, <5>2, Zenon
        <5> HIDE DEF g, b, more, harm
        <5> QED
          BY <5>1, <5>3
      <4> QED
        BY <1>3, <1>13, <4>1, GrownPass
    <3> HIDE DEF g, b, more
    <3>3. damage' \in {more, "full"}
      BY <1>4, <1>13, <2>2, <3>1, <3>2, AddFileFits
    <3> QED
      BY <2>2, <3>3 DEF Tidies
  <2> QED
    BY <2>1, <2>2
<1> QED
  BY <1>6, <1>11, <1>12, <1>13 DEF Tidies

LEMMA LnTidy ==
  ASSUME disk \in Image, Good(disk), Tidy(disk), NEW path \in Path, NEW ino \in Inode \cup {0},
         mk_dir2(path, ino)
  PROVE  Tidies
<1> DEFINE slots == [dir \in Inode |-> SlotsLookedAt(disk, dir)]
           at == Reached(disk, path, slots)
           dir == at.dir
           name == path[at.k]
           open == OpenFor(disk, dir, name)
           i == IF open = {} THEN 0 ELSE Min(open)
           c == Content(disk, dir, i)
           harm == IF Has(disk, dir, name) THEN "exists" ELSE "none"
           k(s) == disk.inode[dir].i_block[s]
<1>1. Sound(disk, PlacesOf(disk)) /\ Own(disk) /\ Laid(disk, PlacesOf(disk))
  BY SoundParts DEF Good
<1>2. \A a \in Dirs(disk) : LooksIn(disk, a, slots[a])
  BY <1>1, SlotsToLookIn, SoundParts DEF Dirs
<1>3. dir \in Dirs(disk) /\ at.k \in 1 .. Len(path)
  BY <1>1, <1>2, LookedUp
<1>4. name \in Name /\ dir \in Inode
  BY <1>1, <1>3, Paths, Fields DEF Dirs
<1>5. open = {j \in slots[dir] : /\ Named(Content(disk, dir, j), name) = {}
                                 /\ \/ Stuck(Content(disk, dir, j))
                                    \/ new_directory_fits(Content(disk, dir, j))}
  BY <1>4 DEF OpenFor, RoomIn
<1>6. LooksIn(disk, dir, SlotsLookedAt(disk, dir))
  BY <1>2, <1>3, <1>4
<1>7. \/ ln_new(dir, name, ino, open, c)
      \/ \E b : add_hardlink(disk, b, TRUE, name, ino, "exists")
  <2> HIDE DEF at
  <2> QED
    BY <1>5, ZenonT(30) DEF mk_dir2, at
<1> HIDE DEF at, name, open
<1>8. \/ /\ open # {} /\ ~Stuck(c)
         /\ add_hardlink(disk, k(i), FALSE, name, ino, harm)
      \/ damage' = "full"
      \/ \E d, b : add_hardlink(d, b, FALSE, name, ino, "grown")
      \/ \E b : add_hardlink(disk, b, TRUE, name, ino, "exists")
  <2> HIDE DEF dir
  <2> QED
    BY <1>7, ZenonT(30) DEF ln_new, Leaves, harm
<1>9. \A d, b, over, h : add_hardlink(d, b, over, name, ino, h) => damage' \in {h, "full"}
  BY DEF add_hardlink, Leaves
<1> HIDE DEF c, i, dir
<1>10. CASE /\ open # {} /\ ~Stuck(c)
            /\ add_hardlink(disk, k(i), FALSE, name, ino, harm)
  <2>1. open \subseteq Nat
    BY <1>6 DEF LooksIn, OpenFor, open
  <2>2. i \in open
    BY <1>10, <2>1, MinIn DEF i
  <2>3. i \in SlotsLookedAt(disk, dir) /\ RoomIn(c, name)
    BY <2>2 DEF open, OpenFor, c
  <2>4. i \in Used(disk.inode[dir]) /\ new_directory_fits(c)
    BY <1>6, <1>10, <2>3, ZerosTyped DEF LooksIn, c, RoomIn
  <2>5. k(i) \in Block /\ Ready(disk, k(i))
    BY <1>3, <2>4, BlockReady DEF c
  <2> HIDE DEF k, harm
  <2>6. damage' = "full" \/ Enters(disk, disk', k(i), name)
    BY <1>4, <1>10, <2>5, HardlinkEnters
  <2> QED
    BY <1>4, <2>5, <2>6, EntersTidy DEF Tidies
<1>11. CASE \E d, b : add_hardlink(d, b, FALSE, name, ino, "grown")
  <2>1. damage' \in {"grown", "full"}
    BY <1>9, <1>11, Zenon
  <2> QED
    BY <2>1 DEF Tidies
<1>12. CASE \E b : add_hardlink(disk, b, TRUE, name, ino, "exists")
  <2>1. damage' \in {"exists", "full"}
    BY <1>9, <1>12, Zenon
  <2> QED
    BY <2>1 DEF Tidies
<1>13. damage' = "full" => Tidies
  BY DEF Tidies
<1> QED
  BY <1>8, <1>10, <1>11, <1>12, <1>13, Zenon

\* What rm makes of image d: entry p in slot s of directory dir, not the first
\* of the block, goes out of view, and the file if it was its last link.
Hides(d, f, dir, s, p, name) ==
  LET b   == d.inode[dir].i_block[s]
      c   == d.block[b]
      ino == c[p].inode
      e   == Write(d, b, Unshown(c, p))
  IN  /\ b \in Block /\ p \in Shown(c) /\ p # 0 /\ c[p].name = name /\ c[p].file_type # "dir"
      /\ c[p].file_type = d.inode[ino].i_mode
      /\ ino \in d.ibm /\ ino \in Inode /\ f \in Image
      /\ f.block[b] = Unshown(c, p) /\ \A a \in Block \ {b} : f.block[a] = d.block[a]
      /\ \A i \in Inode : /\ f.inode[i].i_mode = d.inode[i].i_mode
                          /\ f.inode[i].i_blocks = d.inode[i].i_blocks
                          /\ f.inode[i].i_block = d.inode[i].i_block
      /\ \/ f.ibm = d.ibm
         \/ f = Freed(e, ino) /\ f.ibm = d.ibm \ {ino} /\ d.inode[ino].i_links_count = 1

LEMMA RmHides ==
  ASSUME disk \in Image, Good(disk), NEW path \in Path, ext2_rm(path), damage' = "none"
  PROVE  \E dir \in Dirs(disk) : /\ Leads(disk, path, dir)
                                 /\ \E s \in Used(disk.inode[dir]) : \E p \in Cell :
                                      Hides(disk, disk', dir, s, p, Last(path))
<1> DEFINE P == PlacesOf(disk)
           v == Victim(disk, path)
           f == remove_file(disk, v.b, v.p)
<1>1. path_exists(disk, path) \in {"file", "new"} /\ v # NoVictim /\ disk' = f /\ v.p # 0
  <2>1. /\ path_exists(disk, path) \in {"file", "new"} /\ v # NoVictim /\ disk' = f
        /\ damage' = IF v.p = 0 THEN "first" ELSE "none"
    BY DEF ext2_rm, Leaves
  <2> QED
    BY <2>1
<1>2. Sound(disk, P) /\ Own(disk) /\ Laid(disk, P)
  BY SoundParts DEF Good
<1> HIDE DEF P
<1>3. PICK dir \in Dirs(disk) : Leads(disk, path, dir) /\ \E s \in Used(disk.inode[dir]) :
           /\ v.b = disk.inode[dir].i_block[s] /\ v.p \in Shown(disk.block[v.b])
           /\ disk.block[v.b][v.p].name = Last(path)
           /\ disk.block[v.b][v.p].file_type # "dir"
  <2> HIDE DEF v
  <2>1. v = Victim(disk, path)
    BY DEF v
  <2>2. \E dir \in Dirs(disk) : Leads(disk, path, dir) /\ \E s \in Used(disk.inode[dir]) :
           /\ v.b = disk.inode[dir].i_block[s] /\ v.p \in Shown(disk.block[v.b])
           /\ disk.block[v.b][v.p].name = Last(path) /\ disk.block[v.b][v.p].name \in Name
           /\ disk.block[v.b][v.p].file_type # "dir"
    BY <1>1, <1>2, <2>1, Removable
  <2> QED
    BY <2>2, Zenon
<1>4. PICK s \in Used(disk.inode[dir]) :
           /\ v.b = disk.inode[dir].i_block[s] /\ v.p \in Shown(disk.block[v.b])
           /\ disk.block[v.b][v.p].name = Last(path)
           /\ disk.block[v.b][v.p].file_type # "dir"
  BY <1>3, Zenon
<1> DEFINE b == v.b
           p == v.p
           c == disk.block[b]
           n == Unshown(c, p)
           ino == c[p].inode
           type == c[p].file_type
           e == Write(disk, b, n)
<1>5. f = IF disk.inode[ino].i_links_count > 1 /\ type # "lnk"
          THEN [e EXCEPT !.inode[ino].i_links_count = @ - 1] ELSE Freed(e, ino)
  BY <1>1, Zenon DEF remove_file
<1> HIDE DEF v, b, p, f
<1>6. /\ b = disk.inode[dir].i_block[s] /\ p \in Shown(c) /\ p # 0 /\ c[p].name = Last(path)
      /\ type # "dir" /\ disk' = f
  BY <1>1, <1>4, Zenon DEF b, p
<1> HIDE DEF n, ino, type, e
<1>7. b \in Block /\ c \in [Cell -> EntryType] /\ Chain(c, Shown(c))
      /\ <<dir, <<s, p>>>> \in P /\ Ent(disk, <<dir, <<s, p>>>>) = c[p]
  <2>1. b \in Block
    BY <1>2, <1>6, DirectoryBlocks
  <2>2. c = disk.block[disk.inode[dir].i_block[s]]
    BY <1>6
  <2> HIDE DEF c
  <2>3. /\ c \in [Cell -> EntryType] /\ Chain(c, Shown(c))
        /\ \A x \in Shown(c) : <<dir, <<s, x>>>> \in P /\ Ent(disk, <<dir, <<s, x>>>>) = c[x]
    BY <1>2, <2>2, BlockShows
  <2> QED
    BY <1>6, <2>1, <2>3
<1> HIDE DEF c
<1>8. ino \in disk.ibm /\ ino \in Inode /\ type = disk.inode[ino].i_mode
  BY <1>2, <1>7, EntryKinds DEF ino, type
<1>9. p \in Cell
  BY <1>6, <1>7 DEF Chain
<1>10. n \in [Cell -> EntryType]
  <2>1. Loses(c, n, p)
    BY <1>6, <1>7, UnshownLoses, Zenon DEF n
  <2> QED
    BY <2>1 DEF Loses
<1>11. Rewritten(disk, e, b, n)
  BY <1>7, <1>10, Written DEF e
<1>12. /\ disk.inode[ino].i_links_count > 0 /\ disk.inode[ino].i_links_count \in Nat
       /\ type = "lnk" => disk.inode[ino].i_links_count = 1
  <2>1. disk.inode[ino].i_links_count > 0
    BY <1>2, <1>8, SoundParts, FreeHasNoLinks
  <2>2. disk.inode[ino].i_links_count \in Nat
    BY <1>8, Fields, InodeFields
  <2> QED
    BY <1>2, <1>8, <2>1, <2>2 DEF Own
<1>13. ~(disk.inode[ino].i_links_count > 1 /\ type # "lnk") => disk.inode[ino].i_links_count = 1
  <2> DEFINE m == disk.inode[ino].i_links_count
  <2>1. m \in Nat /\ m > 0 /\ (type = "lnk" => m = 1)
    BY <1>12
  <2> HIDE DEF m
  <2>2. ~(m > 1 /\ type # "lnk") => m = 1
    BY <2>1
  <2> QED
    BY <2>2 DEF m
<1>14. /\ e \in Image /\ e.inode = disk.inode /\ e.ibm = disk.ibm
       /\ e.block[b] = n /\ \A a \in Block \ {b} : e.block[a] = disk.block[a]
  BY <1>11 DEF Rewritten
<1>15. e.inode[ino].i_links_count > 0
  BY <1>12, <1>14
<1>16. \/ Unlinked(e, f, ino)
       \/ Released(e, f, ino) /\ f = Freed(e, ino) /\ disk.inode[ino].i_links_count = 1
  BY <1>5, <1>8, <1>13, <1>14, <1>15, UnlinkedFields, FreedFields, ZenonT(30)
<1>17. /\ f \in Image /\ f.block = e.block
       /\ \A i \in Inode : /\ f.inode[i].i_mode = e.inode[i].i_mode
                           /\ f.inode[i].i_blocks = e.inode[i].i_blocks
                           /\ f.inode[i].i_block = e.inode[i].i_block
       /\ \/ f.ibm = e.ibm
          \/ f.ibm = e.ibm \ {ino} /\ f = Freed(e, ino) /\ disk.inode[ino].i_links_count = 1
  BY <1>16 DEF Unlinked, Released
<1>18. Hides(disk, f, dir, s, p, Last(path))
  <2>1. /\ f.block[b] = n /\ \A a \in Block \ {b} : f.block[a] = disk.block[a]
        /\ \A i \in Inode : /\ f.inode[i].i_mode = disk.inode[i].i_mode
                            /\ f.inode[i].i_blocks = disk.inode[i].i_blocks
                            /\ f.inode[i].i_block = disk.inode[i].i_block
        /\ \/ f.ibm = disk.ibm
           \/ f = Freed(e, ino) /\ f.ibm = disk.ibm \ {ino} /\ disk.inode[ino].i_links_count = 1
    BY <1>14, <1>17
  <2> QED
    BY <1>6, <1>7, <1>8, <1>17, <2>1, Zenon DEF Hides, e, n, ino, type, c
<1> QED
  BY <1>3, <1>6, <1>9, <1>18

LEMMA RmTidy ==
  ASSUME disk \in Image, Good(disk), Tidy(disk), NEW path \in Path, ext2_rm(path)
  PROVE  Tidies
<1> SUFFICES ASSUME damage' = "none" PROVE Tidy(disk')
  BY DEF Tidies
<1>1. PICK dir \in Dirs(disk) : \E s \in Used(disk.inode[dir]) : \E p \in Cell :
        Hides(disk, disk', dir, s, p, Last(path))
  BY RmHides
<1>2. PICK s \in Used(disk.inode[dir]), p \in Cell : Hides(disk, disk', dir, s, p, Last(path))
  BY <1>1
<1> DEFINE f == disk'
           b == disk.inode[dir].i_block[s]
           c == disk.block[b]
           n == f.block[b]
<1> HIDE DEF f
<1>3. Hides(disk, f, dir, s, p, Last(path))
  BY <1>2 DEF f
<1>4. Own(disk) /\ Laid(disk, PlacesOf(disk))
  BY SoundParts DEF Good
<1>5. c \in [Cell -> EntryType] /\ Chain(c, Shown(c))
  BY <1>4, BlockShows
<1>6. /\ b \in Block /\ p \in Shown(c) /\ p # 0 /\ n = Unshown(c, p)
      /\ \A a \in Block \ {b} : f.block[a] = disk.block[a]
  BY <1>3, Zenon DEF Hides
<1>7. /\ \A i \in Inode : /\ f.inode[i].i_mode = disk.inode[i].i_mode
                          /\ f.inode[i].i_blocks = disk.inode[i].i_blocks
                          /\ f.inode[i].i_block = disk.inode[i].i_block
      /\ f.ibm \subseteq disk.ibm
  BY <1>3, Zenon DEF Hides
<1>8. Neat(c)
  <2>1. c # Zeros
    <3> HIDE DEF c
    <3> QED
      BY <1>5, ChainNotZeros
  <2> QED
    BY <1>6, <2>1 DEF Tidy
<1>9. Neat(n) /\ Lettered(n) = Lettered(c)
  <2> HIDE DEF n, c
  <2> QED
    BY <1>5, <1>6, <1>8, UnshownNeat
<1>10. \A a \in Block : f.block[a] = disk.block[a]
                          \/ (Neat(f.block[a]) /\ Lettered(disk.block[a]) \subseteq Lettered(f.block[a]))
  BY <1>6, <1>9
<1>11. \A i \in Dirs(f) : 1 \in Used(f.inode[i]) =>
         /\ i \in Dirs(disk) /\ 1 \in Used(disk.inode[i])
         /\ f.inode[i].i_block[0] = disk.inode[i].i_block[0] /\ f.inode[i].i_block[0] \in Block
  <2>1. \A i \in Dirs(f) : i \in Dirs(disk) /\ i \in Inode
    BY <1>7, Fields DEF Dirs
  <2>2. \A i \in Dirs(disk) : disk.inode[i].i_block[0] \in Block
    BY <1>4, DirectoryBlocks
  <2> QED
    BY <1>7, <2>1, <2>2 DEF Used, Count
<1>12. Tidy(f)
  BY <1>10, <1>11, TidyKept
<1> QED
  BY <1>12 DEF f

\* The place that restore goes to is where a walk stops.
StopsAtSlot(d, dir, s, name, v) ==
  LET w == Walked(d, Content(d, dir, s), name)
  IN  /\ v = StopAt(d, dir, d.inode[dir].i_block[s], w) /\ Stops(Content(d, dir, s), name, w)
      /\ v.b = d.inode[dir].i_block[s] /\ v.p = w.p /\ v.q = w.q /\ v.dir = dir

LEMMA StopAtFields ==
  ASSUME NEW d, NEW dir, NEW b, NEW w
  PROVE  LET v == StopAt(d, dir, b, w) IN v.b = b /\ v.p = w.p /\ v.q = w.q /\ v.dir = dir
<1> DEFINE to == IF d.block[b][w.p].file_type = "dir" THEN d.block[b][w.p].inode ELSE 0
<1>1. StopAt(d, dir, b, w) = [b |-> b, p |-> w.p, q |-> w.q, dir |-> dir, to |-> to]
  BY DEF StopAt
<1> HIDE DEF to
<1> QED
  BY <1>1

LEMMA StopWalked ==
  ASSUME NEW d, NEW dir, NEW name, NEW v, v = Stop(d, dir, name), v # NoStop
  PROVE  \E s \in 0 .. BlockCount(d, dir) - 1 : StopsAtSlot(d, dir, s, name, v)
<1> DEFINE hit(c) == Stops(c, name, Walked(d, c, name))
           hits == {i \in 0 .. BlockCount(d, dir) - 1 : hit(Content(d, dir, i))}
           s == Min(hits)
           w == Walked(d, Content(d, dir, s), name)
<1>1. v = StopIn(d, dir, name, hits)
  BY DEF Stop
<1>2. hits # {} /\ v = StopAt(d, dir, d.inode[dir].i_block[s], w)
  BY <1>1 DEF StopIn
<1>3. s \in hits
  <2>1. hits \subseteq Nat
    OBVIOUS
  <2> HIDE DEF hits
  <2> QED
    BY <1>2, <2>1, MinIn
<1>4. s \in 0 .. BlockCount(d, dir) - 1 /\ hit(Content(d, dir, s))
  BY <1>3
<1> HIDE DEF s, hits
<1>5. v.b = d.inode[dir].i_block[s] /\ v.p = w.p /\ v.q = w.q /\ v.dir = dir
  <2> HIDE DEF w
  <2> QED
    BY <1>2, StopAtFields
<1>6. StopsAtSlot(d, dir, s, name, v)
  BY <1>2, <1>4, <1>5, Zenon DEF StopsAtSlot
<1> QED
  BY <1>4, <1>6

LEMMA DeletedStop ==
  ASSUME NEW d, NEW path
  PROVE  Deleted(d, path) = NoStop \/ \E dir : Deleted(d, path) = Stop(d, dir, Last(path))
BY Zenon DEF Deleted

LEMMA RestoredTidy ==
  ASSUME NEW d \in Image, Good(d), Tidy(d), NEW dir, NEW v, Stopped(d, dir, v), NEW name \in Name,
         Restorable(d, v, d.block[v.b], name),
         \A x \in Lettered(d.block[v.b]) : v.q < x /\ x < v.p => x + d.block[v.b][x].rec_len <= v.p
  PROVE  Tidy(restore_file(d, v))
<1> DEFINE P == PlacesOf(d)
           c == d.block[v.b]
           n == [c EXCEPT ![v.q].rec_len = v.p - v.q]
           e == Write(d, v.b, n)
           ino == c[v.p].inode
           type == c[v.p].file_type
           f == restore_file(d, v)
<1>1. Sound(d, P)
  BY DEF Good
<1>2. /\ Own(d) /\ Laid(d, P) /\ NothingElse(d) /\ Live(d, P) /\ Counted(d, P) /\ P \subseteq Place
  BY <1>1, SoundParts
<1>3. PICK s \in Used(d.inode[dir]) : v.b = d.inode[dir].i_block[s]
  BY DEF Stopped
<1>4. /\ dir \in Dirs(d) /\ v.b \in Block /\ v.p \in Cell /\ v.q \in Nat /\ v.q <= v.p /\ v.p \in Nat
      /\ v.dir = dir
  BY BlockSizes DEF Stopped
<1>5. /\ c \in [Cell -> EntryType] /\ Chain(c, Shown(c)) /\ Content(d, dir, s) = c
  <2>1. c = d.block[d.inode[dir].i_block[s]]
    BY <1>3
  <2> HIDE DEF c, n, e, ino, type, f, P
  <2>2. Own(d) /\ Laid(d, P) /\ dir \in Dirs(d) /\ s \in Used(d.inode[dir])
    BY <1>2, <1>3, <1>4
  <2> QED
    BY <2>1, <2>2, BlockShows
<1>6. /\ c[v.p].name = name /\ ino \in Inode \ d.ibm /\ type = d.inode[ino].i_mode
      /\ FileBlocks(d, ino) \cap d.bbm = {}
      /\ v.q \in Shown(c) /\ v.q + c[v.q].rec_len = v.p + c[v.p].rec_len
      /\ ~Has(d, dir, name)
  BY <1>4, Zenon DEF Restorable
<1>7. v.p \notin Shown(c)
  <2>1. s \in 0 .. BlockCount(d, dir) - 1
    <3> HIDE DEF c, n, e, ino, type, f, P
    <3> QED
      BY <1>2, <1>3, <1>4, DirectoryBlocks DEF BlockCount, Count
  <2>2. Named(c, name) = {}
    BY <1>5, <1>6, <2>1, Zenon DEF Has
  <2> HIDE DEF c
  <2> QED
    BY <1>6, <2>2 DEF Named
<1>8. type # "dir"
  BY <1>2, <1>4, <1>7 DEF NothingElse
<1>9. f = RestoredInode(e, ino, type)
  BY <1>6, Zenon DEF restore_file
<1> HIDE DEF ino, type, f, e
<1>10. Neat(c)
  <2>1. c # Zeros
    <3> HIDE DEF c
    <3> QED
      BY <1>5, ChainNotZeros
  <2> QED
    BY <1>4, <2>1 DEF Tidy
<1>11. v.p \in Lettered(c)
  <2>1. name # ""
    BY NameAssumption
  <2> QED
    BY <1>4, <1>6, <2>1 DEF Lettered
<1>12. v.p # v.q /\ v.p - v.q \in Nat /\ v.q < v.p
  BY <1>4, <1>6, <1>7
<1>13. \A x \in Lettered(c) : v.q < x /\ x < v.p => x + c[x].rec_len <= v.p
  OBVIOUS
<1>14. n \in [Cell -> EntryType] /\ Neat(n) /\ Lettered(n) = Lettered(c)
  <2> HIDE DEF c
  <2>1. n \in [Cell -> EntryType]
    BY <1>5, <1>12, LengthWritten
  <2> DEFINE p == v.p
             q == v.q
  <2>2. /\ p \in Lettered(c) \ Shown(c) /\ q \in Shown(c) /\ q + c[q].rec_len = p + c[p].rec_len
        /\ q < p /\ \A x \in Lettered(c) : q < x /\ x < p => x + c[x].rec_len <= p
    BY <1>6, <1>7, <1>11, <1>12, <1>13
  <2>3. n = [c EXCEPT ![q].rec_len = p - q]
    OBVIOUS
  <2> HIDE DEF p, q, n
  <2> QED
    <3>1. Refits(c, n, q, p)
      BY <2>2, <2>3 DEF Refits
    <3> QED
      BY <1>5, <1>10, <2>1, <3>1, RestoredNeat
<1> HIDE DEF n
<1>15. Rewritten(d, e, v.b, n)
  BY <1>4, <1>14, Written DEF e
<1>16. e \in Image /\ e.inode = d.inode /\ e.bbm = d.bbm /\ e.ibm = d.ibm
  BY <1>15 DEF Rewritten
<1>17. BlocksOf(e.inode[ino]) \subseteq Block /\ BlocksOf(e.inode[ino]) \cap e.bbm = {}
  <2>1. FileBlocks(d, ino) = BlocksOf(d.inode[ino])
    BY DEF FileBlocks, BlocksOf, Used, Count, BlockCount
  <2> QED
    BY <1>2, <1>6, <1>16, <2>1, OwnBlocks
<1>18. e.inode[ino].i_links_count = 0
  BY <1>2, <1>6, <1>16, FreeHasNoLinks
<1>19. RestoredTo(e, f, ino)
  BY <1>6, <1>9, <1>16, <1>17, <1>18, RestoredFields
<1>20. /\ f.block = e.block /\ f.ibm = d.ibm \cup {ino}
       /\ \A i \in Inode : /\ f.inode[i].i_mode = d.inode[i].i_mode
                           /\ f.inode[i].i_blocks = d.inode[i].i_blocks
                           /\ f.inode[i].i_block = d.inode[i].i_block
  BY <1>16, <1>19 DEF RestoredTo, NewFields
<1>21. \A a \in Block : f.block[a] = d.block[a]
                          \/ (Neat(f.block[a]) /\ Lettered(d.block[a]) \subseteq Lettered(f.block[a]))
  BY <1>14, <1>15, <1>20 DEF Rewritten
<1>22. \A i \in Dirs(f) : 1 \in Used(f.inode[i]) =>
         /\ i \in Dirs(d) /\ 1 \in Used(d.inode[i])
         /\ f.inode[i].i_block[0] = d.inode[i].i_block[0] /\ f.inode[i].i_block[0] \in Block
  <2>1. \A i \in Dirs(f) : i \in Dirs(d) /\ i \in Inode
    BY <1>6, <1>8, <1>20, Fields DEF Dirs
  <2>2. \A i \in Dirs(d) : d.inode[i].i_block[0] \in Block
    BY <1>2, DirectoryBlocks
  <2> QED
    BY <1>20, <2>1, <2>2 DEF Used, Count
<1>23. Tidy(f)
  BY <1>21, <1>22, TidyKept
<1> QED
  BY <1>23 DEF f

LEMMA RestoreTidy ==
  ASSUME disk \in Image, Good(disk), Tidy(disk), NEW path \in Path, ext2_restore(path)
  PROVE  Tidies
<1> SUFFICES ASSUME damage' = "none" PROVE Tidy(disk')
  BY DEF Tidies
<1> DEFINE v == Deleted(disk, path)
           name == Last(path)
           c == disk.block[v.b]
           d == restore_file(disk, v)
<1>1. v # NoStop /\ disk' = d /\ Restorable(disk, v, c, name)
  <2>1. /\ v # NoStop /\ disk' = d
        /\ damage' = IF Restorable(disk, v, c, name) THEN "none" ELSE "stale"
    BY DEF ext2_restore, Leaves
  <2> QED
    BY <2>1
<1>2. PICK dir : Stopped(disk, dir, v)
  <2>1. Sound(disk, PlacesOf(disk))
    BY DEF Good
  <2> QED
    BY <1>1, <2>1, DeletedIs
<1>3. PICK dir1 : v = Stop(disk, dir1, name)
  BY <1>1, DeletedStop
<1>4. name \in Name
  BY Paths
<1> HIDE DEF v, name, d
<1>5. PICK s \in 0 .. BlockCount(disk, dir1) - 1 : StopsAtSlot(disk, dir1, s, name, v)
  BY <1>1, <1>3, StopWalked
<1>6. v.b \in Block /\ v.b = disk.inode[dir1].i_block[s]
  BY <1>2, <1>5, Zenon DEF Stopped, StopsAtSlot
<1>7. Content(disk, dir1, s) = c
  BY <1>6 DEF Content
<1>8. c \in [Cell -> EntryType]
  BY <1>6, Fields
<1>9. v.p = Walked(disk, c, name).p /\ v.q = Walked(disk, c, name).q
  BY <1>5, <1>7, Zenon DEF StopsAtSlot
<1>10. Neat(c)
  <2>1. c # Zeros
    <3>1. v.p \in Cell /\ c[v.p].name = name /\ name # ""
      BY <1>1, <1>2, <1>4, NameAssumption, Zenon DEF Restorable, Stopped
    <3>2. Zeros[v.p].name = ""
      <4>1. Zero.name = ""
        BY DEF Zero, Entry
      <4> QED
        BY <3>1, <4>1, ZerosTyped, Zenon
    <3> QED
      BY <3>1, <3>2
  <2> QED
    BY <1>6, <2>1 DEF Tidy
<1>11. \A x \in Lettered(c) : v.q < x /\ x < v.p => x + c[x].rec_len <= v.p
  <2> HIDE DEF c
  <2>1. LET w == Walked(disk, c, name)
        IN  \A x \in Lettered(c) : w.q < x /\ x < w.p => x + c[x].rec_len <= w.p
    BY <1>8, <1>10, WalkPassed
  <2> DEFINE w == Walked(disk, c, name)
  <2> HIDE DEF w
  <2>2. \A x \in Lettered(c) : w.q < x /\ x < w.p => x + c[x].rec_len <= w.p
    BY <2>1 DEF w
  <2> QED
    BY <1>9, <2>2 DEF w
<1>12. Tidy(restore_file(disk, v))
  BY <1>1, <1>2, <1>4, <1>11, RestoredTidy
<1> QED
  BY <1>1, <1>12 DEF d

LEMMA CheckerTidy ==
  ASSUME NEW d \in Image, Good(d), Tidy(d)
  PROVE  Tidy(Checked(d))
<1> DEFINE f == Counters(d)
<1>1. Checked(d) = f
  BY NothingToRepair DEF Good
<1>2. f.block = d.block /\ f.inode = d.inode /\ f.ibm = d.ibm
  BY DEF Counters, Image
<1> HIDE DEF f
<1>3. Dirs(f) = Dirs(d)
  BY <1>2 DEF Dirs
<1>4. Tidy(f)
  BY <1>2, <1>3 DEF Tidy
<1> QED
  BY <1>1, <1>4

LEMMA FormattedTidy == Tidy(Formatted)
<1> DEFINE d == Formatted
           root == EXT2_ROOT_INO
<1>1. /\ d.ibm = {root} /\ root \in Inode
      /\ d.inode[root] = [NewInode("dir", 2, 2) EXCEPT !.i_block[0] = 1]
      /\ d.block[1] = NewDirectory(root, root) /\ \A b \in Block \ {1} : d.block[b] = Zeros
  BY FormattedFields
<1>2. d.inode[root].i_blocks = 2
  BY <1>1, FormattedInodes
<1> HIDE DEF d
<1>3. Neat(d.block[1])
  <2> HIDE DEF root
  <2> QED
    BY <1>1, NewDirectoryNeat
<1>4. \A dir \in Dirs(d) : 1 \notin Used(d.inode[dir])
  <2>1. Count(d.inode[root]) = 1
    BY <1>2 DEF Count
  <2>2. Used(d.inode[root]) = {0} /\ Dirs(d) \subseteq {root}
    BY <1>1, <2>1, UsedSlots, Zenon DEF Dirs
  <2> QED
    BY <2>2
<1>5. \A b \in Block : d.block[b] # Zeros => Neat(d.block[b])
  BY <1>1, <1>3
<1>6. Tidy(d)
  BY <1>4, <1>5 DEF Tidy
<1> QED
  BY <1>6 DEF d

LEMMA StepTidy ==
  ASSUME IInv, Next, Tidy(disk)
  PROVE  Tidies
<1>1. disk \in Image /\ Good(disk)
  BY DEF Next, IInv
<1>2. PICK path \in Path :
        \/ ext2_mkdir(path)
        \/ \E size \in Size : ext2_cp(path, size)
        \/ \E target \in Path : ext2_ln(target, path)
        \/ ext2_ln_s(path)
        \/ ext2_rm(path)
        \/ ext2_restore(path)
  BY DEF Next
<1>3. CASE ext2_mkdir(path)
  BY <1>1, <1>3, MkdirTidy
<1>4. CASE \E size \in Size : ext2_cp(path, size)
  BY <1>1, <1>4, CpTidy
<1>5. CASE \E target \in Path : ext2_ln(target, path)
  <2>1. PICK target \in Path : ext2_ln(target, path)
    BY <1>5
  <2>2. PICK ino \in {get_struct(disk, target)} \ {0} : mk_dir2(path, ino)
    BY <2>1 DEF ext2_ln
  <2>3. Sound(disk, PlacesOf(disk))
    BY <1>1 DEF Good
  <2>4. ino \in Inode \cup {0}
    BY <1>1, <2>2, <2>3, StructIs
  <2> QED
    BY <1>1, <2>2, <2>4, LnTidy
<1>6. CASE ext2_ln_s(path)
  <2>1. mk_dir2(path, 0) /\ 0 \in Inode \cup {0}
    BY <1>6 DEF ext2_ln_s
  <2> QED
    BY <1>1, <2>1, LnTidy
<1>7. CASE ext2_rm(path)
  BY <1>1, <1>7, RmTidy
<1>8. CASE ext2_restore(path)
  BY <1>1, <1>8, RestoreTidy
<1> QED
  BY <1>2, <1>3, <1>4, <1>5, <1>6, <1>7, <1>8

TidyIInv == IInv /\ (damage = "none" => Tidy(disk))

LEMMA TidyInvariance == CheckedSpec => []TidyIInv
<1>1. CheckedInit => TidyIInv
  BY FormattedGood, FormattedTidy DEF CheckedInit, Init, IInv, Damages, TidyIInv
<1>2. ASSUME TidyIInv, IInv', [CheckedNext]_checkedVars PROVE TidyIInv'
  <2>1. disk \in Image /\ (damage = "none" => Good(disk) /\ Tidy(disk))
    BY <1>2 DEF TidyIInv, IInv
  <2>2. damage' = "none" => Tidy(disk')
    <3>1. CASE Next
      <4>1. damage = "none"
        BY <3>1 DEF Next
      <4> QED
        BY <1>2, <2>1, <3>1, <4>1, StepTidy DEF Tidies, TidyIInv
    <3>2. CASE ext2_checker
      <4>1. disk' = Checked(disk) /\ damage' = damage
        BY <3>2 DEF ext2_checker
      <4> QED
        BY <2>1, <4>1, CheckerTidy
    <3>3. CASE UNCHANGED checkedVars
      BY <2>1, <3>3 DEF checkedVars
    <3> QED
      BY <1>2, <3>1, <3>2, <3>3 DEF CheckedNext
  <2>3. damage' = "none" => Tidy(disk)'
    BY <2>2, Zenon DEF Tidy, Neat, Lettered, Dirs, Used, Count
  <2> QED
    BY <1>2, <2>3 DEF TidyIInv
<1> QED
  BY <1>1, <1>2, CheckedInvariance, PTL DEF CheckedSpec

-----------------------------------------------------------------------------
(* Restore after rm finds the victim again.                                  *)

\* What the walks of restore in f need to know of the image d before rm: an
\* entry has gone out of view, its inode is free, and nothing hidden is in use.
Dimmed(d, f) ==
  /\ f \in Image /\ Good(f) /\ Ghosts(f) = {} /\ Dirs(f) = Dirs(d)
  /\ \A i \in Inode : /\ f.inode[i].i_blocks = d.inode[i].i_blocks
                      /\ f.inode[i].i_block = d.inode[i].i_block
  /\ \A b \in Block :
       /\ Shown(f.block[b]) \subseteq Shown(d.block[b])
       /\ \A t \in Cell : Alike(f.block[b][t], d.block[b][t])
       /\ \A t \in Cell \ Shown(f.block[b]) : f.block[b][t].rec_len = d.block[b][t].rec_len

LEMMA RmDimmed ==
  ASSUME NEW d \in Image, Good(d), NEW f, Good(f), Ghosts(f) = {}, NEW dir \in Dirs(d),
         NEW s \in Used(d.inode[dir]), NEW p \in Cell, NEW name, Hides(d, f, dir, s, p, name)
  PROVE  Dimmed(d, f)
<1> DEFINE b == d.inode[dir].i_block[s]
           c == d.block[b]
           n == Unshown(c, p)
           ino == c[p].inode
<1>1. /\ b \in Block /\ p \in Shown(c) /\ p # 0 /\ c[p].file_type # "dir"
      /\ c[p].file_type = d.inode[ino].i_mode
      /\ f \in Image /\ f.block[b] = n /\ \A a \in Block \ {b} : f.block[a] = d.block[a]
      /\ \A i \in Inode : /\ f.inode[i].i_mode = d.inode[i].i_mode
                          /\ f.inode[i].i_blocks = d.inode[i].i_blocks
                          /\ f.inode[i].i_block = d.inode[i].i_block
      /\ f.ibm = d.ibm \/ f.ibm = d.ibm \ {ino}
  BY DEF Hides
<1>2. c \in [Cell -> EntryType] /\ Chain(c, Shown(c))
  <2>1. Own(d) /\ Laid(d, PlacesOf(d))
    BY SoundParts DEF Good
  <2>2. c = d.block[d.inode[dir].i_block[s]]
    OBVIOUS
  <2> HIDE DEF c, n, ino, b
  <2> QED
    BY <2>1, <2>2, BlockShows
<1> HIDE DEF b, c, n, ino
<1>3. PICK q \in Cell : Spans(c, n, q, p)
  BY <1>1, <1>2, UnshownSpans DEF n
<1>4. /\ Shown(n) = Shown(c) \ {p} /\ q \in Shown(n)
      /\ \A t \in Cell : Alike(n[t], c[t])
      /\ \A t \in Cell \ {q} : n[t] = c[t]
  <2>1. /\ q \in Shown(c) /\ q < p /\ Shown(n) = Shown(c) \ {p} /\ p \in Nat
        /\ n = [c EXCEPT ![q].rec_len = c[q].rec_len + c[p].rec_len]
    BY <1>2, <1>3, CellNumbers DEF Spans
  <2>2. q # p
    BY <2>1
  <2>3. \A t \in Cell \ {q} : n[t] = c[t]
    BY <1>2, <2>1
  <2>4. Alike(n[q], c[q])
    <3>1. n[q] = [c[q] EXCEPT !.rec_len = c[q].rec_len + c[p].rec_len] /\ c[q] \in EntryType
      BY <1>2, <2>1
    <3> QED
      BY <3>1 DEF Alike, EntryType
  <2>5. \A t \in Cell : Alike(n[t], c[t])
    BY <2>3, <2>4 DEF Alike
  <2> QED
    BY <2>1, <2>2, <2>3, <2>5
<1>5. Dirs(f) = Dirs(d)
  <2>1. d.ibm \subseteq Inode
    BY Fields
  <2> QED
    BY <1>1, <2>1 DEF Dirs
<1>6. ASSUME NEW a \in Block
      PROVE  /\ Shown(f.block[a]) \subseteq Shown(d.block[a])
             /\ \A t \in Cell : Alike(f.block[a][t], d.block[a][t])
             /\ \A t \in Cell \ Shown(f.block[a]) : f.block[a][t].rec_len = d.block[a][t].rec_len
  <2>1. CASE a = b
    BY <1>1, <1>4, <2>1 DEF c
  <2>2. CASE a # b
    BY <1>1, <2>2 DEF Alike
  <2> QED
    BY <2>1, <2>2
<1> QED
  BY <1>1, <1>5, <1>6, Zenon DEF Dimmed

\* A walk that looks for a name finds the entry that had it before rm, and
\* counts its length from the entry in view before it.
WalkFinds(f, n, name, t) ==
  LET w == Walked(f, n, name)
  IN  /\ w.p = t /\ w.q \in Cell /\ n[t].name = name
      /\ t # 0 => w.q \in Shown(n) /\ w.q < t /\ \A x \in Shown(n) : x < t => x <= w.q

\* An entry in view whose name no hidden entry has.
Sought(d, a, u, t, name) ==
  /\ a \in Dirs(d) /\ u \in Used(d.inode[a]) /\ t \in Shown(d.block[d.inode[a].i_block[u]])
  /\ d.block[d.inode[a].i_block[u]][t].name = name /\ name \in Name
  /\ \A e \in Hidden(d) : e.name # name

LEMMA HiddenIn ==
  ASSUME NEW d, NEW b \in Block, NEW y \in Cell \ Shown(d.block[b])
  PROVE  d.block[b][y] \in Hidden(d)
BY DEF Hidden

\* The entries in view of a block are those of the places in it.
EntriesIn(d, P, a, i) ==
  LET c == d.block[d.inode[a].i_block[i]]
  IN  \A y \in Shown(c) : <<a, <<i, y>>>> \in P /\ Ent(d, <<a, <<i, y>>>>) = c[y]

LEMMA BlockEntries ==
  ASSUME NEW d \in Image, NEW P, Own(d), Laid(d, P), NEW a \in Dirs(d), NEW i \in Used(d.inode[a])
  PROVE  EntriesIn(d, P, a, i)
<1> DEFINE c == d.block[d.inode[a].i_block[i]]
<1>1. c = d.block[d.inode[a].i_block[i]]
  OBVIOUS
<1> HIDE DEF c
<1>2. \A y \in Shown(c) : <<a, <<i, y>>>> \in P /\ Ent(d, <<a, <<i, y>>>>) = c[y]
  BY <1>1, BlockShows
<1> QED
  BY <1>1, <1>2, Zenon DEF EntriesIn

LEMMA NamedOnce ==
  ASSUME NEW d \in Image, Good(d), NEW a, NEW u, NEW t, NEW name, Sought(d, a, u, t, name),
         NEW i \in Used(d.inode[a]), NEW x \in Cell, d.block[d.inode[a].i_block[i]][x].name = name
  PROVE  i = u /\ x = t
<1> DEFINE P == PlacesOf(d)
           b == d.inode[a].i_block[i]
           c == d.block[b]
           c1 == d.block[d.inode[a].i_block[u]]
<1>1. Sound(d, P) /\ Own(d) /\ Laid(d, P)
  BY SoundParts DEF Good
<1>2. /\ a \in Dirs(d) /\ u \in Used(d.inode[a]) /\ t \in Shown(c1) /\ c1[t].name = name
      /\ \A e \in Hidden(d) : e.name # name
  BY DEF Sought
<1>3. b \in Block
  BY <1>1, <1>2, DirectoryBlocks
<1>4. x \in Shown(c)
  <2> SUFFICES ASSUME x \notin Shown(c) PROVE FALSE
    OBVIOUS
  <2>1. c[x] \in Hidden(d)
    BY <1>3, HiddenIn
  <2> QED
    BY <1>2, <2>1
<1> HIDE DEF P
<1>5. /\ <<a, <<i, x>>>> \in P /\ Ent(d, <<a, <<i, x>>>>) = c[x]
      /\ <<a, <<u, t>>>> \in P /\ Ent(d, <<a, <<u, t>>>>) = c1[t]
  <2>1. c = d.block[d.inode[a].i_block[i]] /\ c1 = d.block[d.inode[a].i_block[u]]
    OBVIOUS
  <2>2. Own(d) /\ Laid(d, P) /\ a \in Dirs(d) /\ u \in Used(d.inode[a])
    BY <1>1, <1>2
  <2> HIDE DEF c, c1, b
  <2>3. EntriesIn(d, P, a, i) /\ EntriesIn(d, P, a, u)
    BY <2>2, BlockEntries
  <2> QED
    BY <1>2, <1>4, <2>1, <2>3, Zenon DEF EntriesIn
<1>6. Distinct(d, P)
  BY <1>1, SoundParts
<1>7. <<a, <<i, x>>>> = <<a, <<u, t>>>>
  BY <1>2, <1>5, <1>6 DEF Distinct
<1> QED
  BY <1>7

LEMMA WalkFinding ==
  ASSUME NEW d \in Image, Good(d), Tidy(d), NEW f, Dimmed(d, f),
         NEW a, NEW u, NEW t, NEW name, Sought(d, a, u, t, name)
  PROVE  WalkFinds(f, f.block[d.inode[a].i_block[u]], name, t)
<1> DEFINE P == PlacesOf(d)
           b == d.inode[a].i_block[u]
           c == d.block[b]
           n == f.block[b]
           S == Shown(n)
<1>1. Own(d) /\ Laid(d, P) /\ f \in Image /\ Good(f)
  BY SoundParts DEF Good, Dimmed
<1>2. /\ a \in Dirs(d) /\ u \in Used(d.inode[a]) /\ t \in Shown(c) /\ c[t].name = name
      /\ name \in Name /\ \A e \in Hidden(d) : e.name # name
  BY DEF Sought
<1>3. b \in Block /\ c \in [Cell -> EntryType] /\ Chain(c, Shown(c))
  <2>1. b \in Block
    BY <1>1, <1>2, DirectoryBlocks
  <2>2. c = d.block[d.inode[a].i_block[u]]
    OBVIOUS
  <2> HIDE DEF c, n, S, P, b
  <2> QED
    BY <1>1, <1>2, <2>1, <2>2, BlockShows
<1>4. n \in [Cell -> EntryType] /\ Chain(n, S)
      /\ \A y \in S : n[y].inode \in f.ibm
  <2> DEFINE Q == PlacesOf(f)
  <2>1. Sound(f, Q) /\ Own(f) /\ Laid(f, Q) /\ Live(f, Q)
    BY <1>1, SoundParts DEF Good
  <2>2. a \in Dirs(f) /\ u \in Used(f.inode[a]) /\ n = f.block[f.inode[a].i_block[u]]
    <3>1. a \in Inode
      BY <1>1, <1>2, DirectoryBlocks
    <3>2. f.inode[a].i_blocks = d.inode[a].i_blocks /\ f.inode[a].i_block = d.inode[a].i_block
          /\ Dirs(f) = Dirs(d)
      BY <3>1 DEF Dimmed
    <3> QED
      BY <1>2, <3>2 DEF Used, Count
  <2> HIDE DEF c, n, P, b, Q
  <2>3. /\ n \in [Cell -> EntryType] /\ Chain(n, Shown(n))
        /\ \A y \in Shown(n) : <<a, <<u, y>>>> \in Q /\ Ent(f, <<a, <<u, y>>>>) = n[y]
    <3>1. f \in Image /\ Own(f) /\ Laid(f, Q)
      BY <1>1, <2>1
    <3> QED
      BY <2>2, <3>1, BlockShows
  <2>4. \A y \in Q : Ent(f, y).inode \in f.ibm
    BY <2>1 DEF Live
  <2> QED
    BY <2>3, <2>4
<1>5. /\ S \subseteq Shown(c) /\ \A y \in Cell : Alike(n[y], c[y])
      /\ \A y \in Cell \ S : n[y].rec_len = c[y].rec_len
  BY <1>3 DEF Dimmed
<1>6. Neat(c)
  <2>1. c # Zeros
    <3> HIDE DEF c
    <3> QED
      BY <1>3, ChainNotZeros
  <2> QED
    BY <1>3, <2>1 DEF Tidy
<1>7. \A y \in Cell : c[y].name = name => y = t
  <2> SUFFICES ASSUME NEW y \in Cell, c[y].name = name PROVE y = t
    OBVIOUS
  <2>1. u \in Used(d.inode[a]) /\ d.block[d.inode[a].i_block[u]][y].name = name
    BY <1>2
  <2> HIDE DEF P, b, c, n, S
  <2> QED
    BY <2>1, NamedOnce
<1>8. \A y \in Cell \ S : n[y].inode \notin f.ibm
  <2>1. \A y \in Cell \ S : n[y] \in Hidden(f)
    BY <1>3, HiddenIn
  <2>2. Ghosts(f) = {}
    BY DEF Dimmed
  <2> QED
    BY <2>1, <2>2 DEF Ghosts
<1> HIDE DEF b, c, n
<1>9. S \in SUBSET Cell /\ 0 \in S /\ t \in Cell /\ Shown(c) \subseteq Cell
  BY <1>2, <1>3, <1>4 DEF Chain
<1> HIDE DEF S
<1>10. \A r \in Shown(c), y \in Cell : y < r =>
           y \in Lettered(c) /\ c[y].rec_len > 0 /\ y + c[y].rec_len <= r
  BY <1>3, <1>6, NeatReach
<1>11. \A y \in Cell : y < t => ~WalkStops(n[y], name)
  <2> SUFFICES ASSUME NEW y \in Cell, y < t PROVE ~WalkStops(n[y], name)
    OBVIOUS
  <2>1. y \in Lettered(c)
    BY <1>2, <1>10
  <2>2. y # t
    <3>1. t \in Nat
      BY <1>9, BlockSizes
    <3> QED
      BY <3>1
  <2>3. c[y].name # "" /\ c[y].name # name
    BY <1>7, <2>1, <2>2 DEF Lettered
  <2>4. n[y].name = c[y].name
    BY <1>5 DEF Alike
  <2> QED
    BY <2>3, <2>4, Zenon DEF WalkStops
<1>12. WalkStops(n[t], name) /\ n[t].name = name
  BY <1>2, <1>5, <1>9, Zenon DEF WalkStops, Alike
<1>13. \A y \in Cell : y < t => (n[y].inode \in f.ibm <=> y \in S)
  BY <1>4, <1>8
<1>14. \A y \in Cell \ S : y < t =>
           n[y].rec_len > 0 /\ y + n[y].rec_len <= t /\ \A s \in S : y < s => y + n[y].rec_len <= s
  BY <1>2, <1>5, <1>10
<1> DEFINE w == Walked(f, n, name)
<1>15. /\ w.p = t /\ w.q \in Cell
       /\ t # 0 => w.q \in S /\ w.q < t /\ \A s \in S : s < t => s <= w.q
  <2> HIDE DEF w
  <2>1. LET w1 == Walked(f, n, name)
        IN  /\ w1.p = t /\ w1.q \in Cell
            /\ t # 0 => w1.q \in S /\ w1.q < t /\ \A s \in S : s < t => s <= w1.q
    <3>1. WayTo(f, n, name, t, S)
      BY <1>9, <1>11, <1>12, <1>13, <1>14, Zenon DEF WayTo
    <3> QED
      BY <1>4, <3>1, WalkTo
  <2> QED
    BY <2>1, Zenon DEF w
<1> HIDE DEF w
<1>16. WalkFinds(f, n, name, t)
  BY <1>12, <1>15, Zenon DEF WalkFinds, w, S
<1> QED
  BY <1>16 DEF n, b

\* Of two blocks the first is full, so that no walk stops in it for the name of
\* an entry in the second.
LEMMA WalkPasses ==
  ASSUME NEW d \in Image, Good(d), Tidy(d), NEW f, Dimmed(d, f),
         NEW a, NEW u, NEW t, NEW name, Sought(d, a, u, t, name), u # 0
  PROVE  LET n == f.block[d.inode[a].i_block[0]] IN ~Stops(n, name, Walked(f, n, name))
<1> DEFINE b == d.inode[a].i_block[0]
           c == d.block[b]
           n == f.block[b]
           w == Walked(f, n, name)
<1>1. Own(d)
  BY SoundParts DEF Good
<1>2. a \in Dirs(d) /\ u \in Used(d.inode[a]) /\ name \in Name
  BY DEF Sought
<1>3. 0 \in Used(d.inode[a]) /\ u = 1 /\ b \in Block
  BY <1>1, <1>2, DirectoryBlocks
<1>4. Lettered(c) = Cell
  BY <1>2, <1>3 DEF Tidy
<1>5. \A y \in Cell : Alike(n[y], c[y])
  BY <1>3 DEF Dimmed
<1>6. \A y \in Cell : c[y].name # name
  <2> SUFFICES ASSUME NEW y \in Cell, c[y].name = name PROVE FALSE
    OBVIOUS
  <2>1. 0 \in Used(d.inode[a]) /\ d.block[d.inode[a].i_block[0]][y].name = name
    BY <1>3
  <2> HIDE DEF b, c, n, w
  <2>2. 0 = u
    BY <2>1, NamedOnce
  <2> QED
    BY <1>3, <2>2
<1> HIDE DEF b, c, n, w
<1>7. \A y \in Cell : n[y].name # "" /\ n[y].name # name
  BY <1>4, <1>5, <1>6, Zenon DEF Lettered, Alike
<1>8. ~Stops(n, name, w)
  BY <1>7, Zenon DEF Stops, WalkStops
<1> QED
  BY <1>8 DEF n, w, b

LEMMA StopFinds ==
  ASSUME NEW d \in Image, Good(d), Tidy(d), NEW f, Dimmed(d, f),
         NEW a, NEW u, NEW t, NEW name, Sought(d, a, u, t, name)
  PROVE  LET b == d.inode[a].i_block[u]
         IN  Stop(f, a, name) = StopAt(f, a, b, Walked(f, f.block[b], name))
<1> DEFINE hit(c) == Stops(c, name, Walked(f, c, name))
           hits == {i \in 0 .. BlockCount(f, a) - 1 : hit(Content(f, a, i))}
           b == d.inode[a].i_block[u]
           n == f.block[b]
           w == Walked(f, n, name)
<1>1. Own(d) /\ a \in Dirs(d) /\ u \in Used(d.inode[a]) /\ t \in Shown(d.block[b])
  BY SoundParts DEF Good, Sought
<1>2. /\ a \in Inode /\ 0 \in Used(d.inode[a]) /\ Used(d.inode[a]) \subseteq {0, 1}
      /\ Used(d.inode[a]) = 0 .. Count(d.inode[a]) - 1
      /\ \A i \in Used(d.inode[a]) : d.inode[a].i_block[i] \in Block
  BY <1>1, DirectoryBlocks
<1>3. f.inode[a].i_blocks = d.inode[a].i_blocks /\ f.inode[a].i_block = d.inode[a].i_block
  BY <1>2 DEF Dimmed
<1>4. 0 .. BlockCount(f, a) - 1 = Used(d.inode[a])
  BY <1>2, <1>3 DEF BlockCount, Count
<1>5. \A i \in Used(d.inode[a]) : Content(f, a, i) = f.block[d.inode[a].i_block[i]]
  BY <1>2, <1>3 DEF Content
<1>6. hit(n)
  <2>1. WalkFinds(f, n, name, t)
    BY WalkFinding
  <2>2. t \in Cell
    <3>1. \E c \in {d.block[b]} : c \in [Cell -> EntryType]
      BY <1>1, <1>2, Fields
    <3> QED
      BY <1>1, <3>1, EntryLengths, ShownLeast, Zenon
  <2> HIDE DEF n
  <2> QED
    BY <2>1, <2>2, Zenon DEF WalkFinds, Stops, WalkStops
<1>7. u # 0 => ~hit(f.block[d.inode[a].i_block[0]])
  BY WalkPasses
<1> HIDE DEF hit
<1>8. hits = {i \in Used(d.inode[a]) : hit(f.block[d.inode[a].i_block[i]])}
  BY <1>4, <1>5
<1>9. u \in hits /\ hits \in SUBSET {0, 1} /\ (u # 0 => 0 \notin hits) /\ u \in {0, 1}
  BY <1>1, <1>2, <1>6, <1>7, <1>8
<1>10. Stop(f, a, name) = StopIn(f, a, name, hits)
  BY DEF Stop, hit
<1> HIDE DEF hits
<1>11. Min(hits) = u /\ hits # {}
  <2>1. hits \in SUBSET Nat /\ hits # {}
    BY <1>9
  <2>2. Min(hits) \in hits /\ Min(hits) <= u
    BY <1>9, <2>1, MinIsLeast
  <2> DEFINE m == Min(hits)
  <2>3. m \in {0, 1} /\ m \in hits /\ m <= u
    BY <1>9, <2>2
  <2> HIDE DEF m
  <2>4. m = u
    BY <1>9, <2>3
  <2> QED
    BY <2>1, <2>4 DEF m
<1>12. StopIn(f, a, name, hits) = StopAt(f, a, f.inode[a].i_block[u], Walked(f, Content(f, a, u), name))
  BY <1>11, Zenon DEF StopIn
<1> QED
  BY <1>1, <1>3, <1>5, <1>10, <1>12

\* A directory is found as it was before rm.
LEMMA StopLeads ==
  ASSUME NEW d \in Image, Good(d), Tidy(d), NEW f, Dimmed(d, f),
         NEW a, NEW name, NEW i \in Dirs(d), <<a, name, i>> \in Edges(d), \A e \in Hidden(d) : e.name # name
  PROVE  Stop(f, a, name).to = i
<1> DEFINE P == PlacesOf(d)
<1>1. Sound(d, P) /\ Own(d) /\ Laid(d, P)
  BY SoundParts DEF Good
<1> HIDE DEF P
<1>2. a \in Dirs(d) /\ name \in Name
      /\ \E x \in P : x[1] = a /\ Ent(d, x).name = name /\ Ent(d, x).inode = i
  BY <1>1, EdgeAt
<1>3. PICK x \in P : x[1] = a /\ Ent(d, x).name = name /\ Ent(d, x).inode = i
  BY <1>2
<1> DEFINE u == x[2][1]
           t == x[2][2]
           b == d.inode[a].i_block[u]
           n == f.block[b]
           w == Walked(f, n, name)
<1>4. /\ u \in Used(d.inode[a]) /\ t \in Shown(d.block[b]) /\ Ent(d, x) = d.block[b][t] /\ t \in Cell
  <2>1. x \in PlacesOf(d) /\ x \in Place
    BY <1>1, <1>3, SoundParts DEF P
  <2> QED
    BY <1>3, <2>1 DEF PlacesOf, Ent, Place
<1>5. Ent(d, x).file_type = "dir"
  BY <1>1, <1>3, EntryKinds
<1> HIDE DEF u, t
<1>6. Sought(d, a, u, t, name)
  BY <1>2, <1>3, <1>4 DEF Sought
<1>7. Stop(f, a, name) = StopAt(f, a, b, w)
  BY <1>6, StopFinds
<1>8. w.p = t
  <2>1. WalkFinds(f, n, name, t)
    BY <1>6, WalkFinding
  <2> HIDE DEF n
  <2> QED
    BY <2>1, Zenon DEF WalkFinds
<1>9. n[t].file_type = "dir" /\ n[t].inode = i
  <2>1. b \in Block
    BY <1>1, <1>2, <1>4, DirectoryBlocks
  <2>2. Alike(n[t], d.block[b][t])
    BY <1>4, <2>1 DEF Dimmed
  <2> QED
    BY <1>3, <1>4, <1>5, <2>2 DEF Alike
<1> HIDE DEF w
<1>10. StopAt(f, a, b, w).to = i
  BY <1>8, <1>9 DEF StopAt
<1> QED
  BY <1>7, <1>10

\* No hidden entry has a name of the path.
Unhidden(d, path) == \A e \in Hidden(d), k \in 1 .. Len(path) : e.name # path[k]

\* The path leads restore to the directory it led rm to.
LEMMA DeletedFinds ==
  ASSUME NEW d \in Image, Good(d), Tidy(d), NEW f, Dimmed(d, f), NEW path \in Path,
         NEW dir \in Dirs(d), Leads(d, path, dir),
         Unhidden(d, path), Stop(f, dir, Last(path)).to = 0
  PROVE  Deleted(f, path) = Stop(f, dir, Last(path))
<1> DEFINE n == Len(path) - 1
           On(a, k) == IF a = 0 THEN 0 ELSE Stop(f, a, path[k]).to
           Turn(at, k) == IF k = 0 THEN EXT2_ROOT_INO ELSE On(at[k - 1], k)
           Way(at) == at = [k \in 0 .. n |-> Turn(at, k)]
           W == CHOOSE at : Way(at)
           v == Stop(f, W[n], Last(path))
<1>1. Deleted(f, path) = IF W[n] = 0 THEN NoStop ELSE IF v.to # 0 THEN NoStop ELSE v
  BY DEF Deleted
<1>2. PICK w : Route(Edges(d), path, w) /\ w[Len(path)] = dir
  BY DEF Leads
<1>3. /\ w[1] = EXT2_ROOT_INO
      /\ \A k \in 1 .. Len(path) - 1 : <<w[k], path[k], w[k + 1]>> \in Edges(d)
  BY <1>2 DEF Route
<1>4. 0 \in Nat /\ Len(path) \in Nat /\ Len(path) >= 1 /\ n \in Nat /\ n + 1 = Len(path)
  BY Paths
<1>5. ASSUME NEW k \in 0 .. n PROVE w[k + 1] \in Dirs(d) /\ w[k + 1] # 0
  <2>1. w[k + 1] \in Dirs(d)
    <3>1. CASE k = n
      BY <1>2, <1>4, <3>1
    <3>2. CASE k # n
      <4>1. k + 1 \in 1 .. Len(path) - 1
        <5> DEFINE m == Len(path)
        <5>1. m \in Nat /\ k \in 0 .. m - 1 /\ k # m - 1
          BY <1>4, <3>2
        <5> HIDE DEF m
        <5>2. k + 1 \in 1 .. m - 1
          BY <5>1
        <5> QED
          BY <5>2 DEF m
      <4>2. <<w[k + 1], path[k + 1], w[(k + 1) + 1]>> \in Edges(d)
        BY <1>3, <4>1
      <4>3. Sound(d, PlacesOf(d))
        BY DEF Good
      <4> QED
        BY <4>2, <4>3, EdgeAt
    <3> QED
      BY <3>1, <3>2
  <2>2. 0 \notin Dirs(d)
    BY Fields, Numbers DEF Dirs
  <2> QED
    BY <2>1, <2>2
<1>6. ASSUME NEW k \in 0 .. n, k # 0 PROVE On(w[k], k) = w[k + 1] /\ k - 1 \in 0 .. n /\ (k - 1) + 1 = k
  <2>1. k \in 1 .. Len(path) - 1 /\ k \in 1 .. Len(path) /\ k - 1 \in 0 .. n /\ (k - 1) + 1 = k
    BY <1>4, <1>6
  <2>2. <<w[k], path[k], w[k + 1]>> \in Edges(d) /\ w[k + 1] \in Dirs(d)
    BY <1>3, <1>5, <2>1
  <2>3. \A e \in Hidden(d) : e.name # path[k]
    BY <2>1 DEF Unhidden
  <2>4. Stop(f, w[k], path[k]).to = w[k + 1]
    BY <2>2, <2>3, StopLeads
  <2>5. w[k] # 0
    BY <1>5, <2>1
  <2> QED
    BY <2>1, <2>4, <2>5
<1> HIDE DEF On, n
<1>7. Way(W)
  <2> DEFINE g == [k \in 0 .. n |-> w[k + 1]]
  <2>1. ASSUME NEW k \in 0 .. n PROVE g[k] = Turn(g, k)
    <3>1. CASE k = 0
      BY <1>3, <3>1
    <3>2. CASE k # 0
      <4>1. On(w[k], k) = w[k + 1] /\ k - 1 \in 0 .. n /\ (k - 1) + 1 = k
        BY <1>6, <3>2
      <4>2. g[k] = w[k + 1] /\ g[k - 1] = w[k]
        BY <4>1
      <4> HIDE DEF g
      <4> QED
        BY <3>2, <4>1, <4>2
    <3> QED
      BY <3>1, <3>2
  <2>2. g = [k \in 0 .. n |-> g[k]]
    OBVIOUS
  <2>3. Way(g)
    <3> HIDE DEF Turn, g
    <3> QED
      BY <2>1, <2>2
  <2> HIDE DEF Way, g
  <2> QED
    BY <2>3
<1> HIDE DEF W
<1>8. \A k \in 0 .. n : W[k] = Turn(W, k)
  BY <1>7
<1> DEFINE T == {k \in 0 .. n : W[k] = w[k + 1]}
<1>9. 0 \in T
  BY <1>3, <1>4, <1>8
<1>10. \A k \in 0 + 1 .. n : k - 1 \in T => k \in T
  <2> SUFFICES ASSUME NEW k \in 0 + 1 .. n, W[k - 1] = w[(k - 1) + 1] PROVE k \in 0 .. n /\ W[k] = w[k + 1]
    OBVIOUS
  <2>1. k \in 0 .. n /\ k # 0
    BY <1>4
  <2>2. On(w[k], k) = w[k + 1] /\ (k - 1) + 1 = k
    BY <1>6, <2>1
  <2>3. W[k] = On(W[k - 1], k)
    BY <1>8, <2>1
  <2> QED
    BY <2>1, <2>2, <2>3
<1>11. 0 .. n \subseteq T
  <2> HIDE DEF T
  <2> QED
    BY <1>4, <1>9, <1>10, StepByStep
<1>12. W[n] = dir /\ dir # 0
  <2>1. n \in 0 .. n
    BY <1>4
  <2> QED
    BY <1>2, <1>4, <1>5, <1>11, <2>1
<1> QED
  BY <1>1, <1>12

LEMMA SameImage ==
  ASSUME NEW d \in Image, NEW e \in Image, e.bbm = d.bbm, e.ibm = d.ibm, e.block = d.block,
         e.free_blocks = d.free_blocks, e.free_inodes = d.free_inodes,
         \A i \in Inode : e.inode[i] = d.inode[i]
  PROVE  e = d
<1>1. e.inode = d.inode
  BY Fields
<1> QED
  BY <1>1 DEF Image

\* The last link of a file with blocks freed and the file restored, with the
\* entry it had: all is as it was.
LEMMA FreedRestored ==
  ASSUME NEW d \in Image, Own(d), NEW b \in Block, NEW n \in [Cell -> EntryType],
         NEW ino \in d.ibm, d.inode[ino].i_links_count = 1, BlockCount(d, ino) > 0,
         NEW f, f = Freed(Write(d, b, n), ino), NEW type,
         NEW g, g = Write(f, b, d.block[b])
  PROVE  RestoredInode(g, ino, type) = d
<1> DEFINE e == Write(d, b, n)
           r == d.inode[ino]
           B == BlocksOf(r)
           h == RestoredInode(g, ino, type)
           m == BlockCount(d, ino)
<1>1. ino \in Inode /\ r \in InodeType /\ d.block[b] \in [Cell -> EntryType]
  BY Fields
<1>2. Rewritten(d, e, b, n)
  BY Written
<1>3. /\ e \in Image /\ e.inode = d.inode /\ e.bbm = d.bbm /\ e.ibm = d.ibm
      /\ e.free_blocks = d.free_blocks /\ e.free_inodes = d.free_inodes
      /\ e.block[b] = n /\ \A a \in Block \ {b} : e.block[a] = d.block[a]
  BY <1>2 DEF Rewritten
<1> HIDE DEF e
<1>4. /\ Released(e, f, ino) /\ f.free_blocks = e.free_blocks + BlockCount(e, ino)
      /\ f.free_inodes = e.free_inodes + 1
  <2>1. e.inode[ino].i_links_count > 0
    BY <1>3
  <2> QED
    BY <1>1, <1>3, <2>1, FreedFields, FreedCounts DEF e
<1>5. BlockCount(e, ino) = m
  BY <1>3 DEF BlockCount
<1>6. /\ f \in Image /\ f.block = e.block
      /\ f.ibm = d.ibm \ {ino} /\ f.bbm = d.bbm \ B
      /\ \A i \in Inode \ {ino} : f.inode[i] = d.inode[i]
      /\ f.inode[ino].i_mode = r.i_mode /\ f.inode[ino].i_blocks = r.i_blocks
      /\ f.inode[ino].i_block = r.i_block
      /\ f.inode[ino].i_links_count = r.i_links_count - 1
  BY <1>3, <1>4 DEF Released
<1>7. Rewritten(f, g, b, d.block[b])
  BY <1>1, <1>6, Written
<1>8. /\ g \in Image /\ g.inode = f.inode /\ g.bbm = f.bbm /\ g.ibm = f.ibm
      /\ g.free_blocks = f.free_blocks /\ g.free_inodes = f.free_inodes
      /\ g.block[b] = d.block[b] /\ \A a \in Block \ {b} : g.block[a] = f.block[a]
  BY <1>7 DEF Rewritten
<1>9. g.block = d.block
  <2>1. \A a \in Block : g.block[a] = d.block[a]
    BY <1>3, <1>6, <1>8
  <2> QED
    BY <1>8, <2>1, Fields
<1>10. g.inode[ino].i_links_count = 0 /\ BlocksOf(g.inode[ino]) = B /\ BlockCount(g, ino) = m
       /\ Count(g.inode[ino]) = m
  <2>1. g.inode[ino].i_links_count = 0
    BY <1>6, <1>8
  <2>2. g.inode[ino].i_blocks = r.i_blocks /\ g.inode[ino].i_block = r.i_block
    BY <1>6, <1>8
  <2> QED
    BY <2>1, <2>2 DEF BlocksOf, Used, Count, BlockCount
<1>11. B \subseteq d.bbm /\ ~r.i_dtime /\ d.bbm \subseteq Block
  BY Fields DEF Own
<1>12. /\ RestoredTo(g, h, ino) /\ h.free_blocks = g.free_blocks - m /\ h.free_inodes = g.free_inodes - 1
  <2>1. BlocksOf(g.inode[ino]) \cap g.bbm = {} /\ BlocksOf(g.inode[ino]) \subseteq Block
    BY <1>6, <1>8, <1>10, <1>11
  <2> QED
    BY <1>1, <1>8, <1>10, <2>1, RestoredFields, RestoredCounts
<1> HIDE DEF h, B, r
<1>13. /\ h \in Image /\ h.block = d.block /\ h.bbm = g.bbm \cup B /\ h.ibm = g.ibm \cup {ino}
       /\ \A i \in Inode \ {ino} : h.inode[i] = g.inode[i]
       /\ h.inode[ino].i_mode = r.i_mode /\ h.inode[ino].i_blocks = r.i_blocks
       /\ h.inode[ino].i_block = r.i_block /\ h.inode[ino].i_links_count = 1
       /\ ~h.inode[ino].i_dtime
  BY <1>6, <1>8, <1>9, <1>10, <1>12 DEF RestoredTo, NewFields
<1>14. h.bbm = d.bbm /\ h.ibm = d.ibm
  BY <1>6, <1>8, <1>11, <1>13
<1>15. h.free_blocks = d.free_blocks /\ h.free_inodes = d.free_inodes
  <2>1. d.free_blocks \in Int /\ d.free_inodes \in Int /\ m \in Int
    BY <1>1, Fields, InodeFields DEF BlockCount, Count, r
  <2> HIDE DEF m
  <2> QED
    BY <1>3, <1>4, <1>5, <1>8, <1>12, <2>1
<1>16. h.inode[ino] = r
  <2>1. h.inode[ino] \in InodeType /\ r \in InodeType
    BY <1>1, <1>13, Fields
  <2>2. h.inode[ino].i_links_count = r.i_links_count
    BY <1>13 DEF r
  <2>3. h.inode[ino].i_dtime = r.i_dtime
    BY <1>11, <1>13, <2>1, InodeFields
  <2> QED
    BY <1>13, <2>1, <2>2, <2>3, SameInode
<1>17. \A i \in Inode : h.inode[i] = d.inode[i]
  BY <1>6, <1>8, <1>13, <1>16 DEF r
<1> QED
  BY <1>13, <1>14, <1>15, <1>17, SameImage DEF h

LEMMA LengthBack ==
  ASSUME NEW c \in [Cell -> EntryType], NEW q \in Cell, NEW m, NEW n, n = [c EXCEPT ![q].rec_len = m]
  PROVE  [n EXCEPT ![q].rec_len = c[q].rec_len] = c
<1> DEFINE e == [c[q] EXCEPT !.rec_len = m]
           g == [n EXCEPT ![q].rec_len = c[q].rec_len]
<1>1. n = [c EXCEPT ![q] = e]
  OBVIOUS
<1>2. c[q] \in EntryType
  OBVIOUS
<1>3. [e EXCEPT !.rec_len = c[q].rec_len] = c[q]
  BY <1>2 DEF EntryType
<1> HIDE DEF e
<1>4. n[q] = e /\ \A p \in Cell \ {q} : n[p] = c[p]
  BY <1>1
<1>5. DOMAIN n = Cell
  BY <1>1
<1>6. g = [p \in Cell |-> IF p = q THEN [n[q] EXCEPT !.rec_len = c[q].rec_len] ELSE n[p]]
  BY <1>5
<1> HIDE DEF g
<1>7. \A p \in Cell : g[p] = c[p]
  BY <1>3, <1>4, <1>6
<1>8. g = [p \in Cell |-> g[p]]
  BY <1>6
<1>9. g = c
  BY <1>7, <1>8
<1> QED
  BY <1>9 DEF g

\* Entry q comes before p in slot s of the directory, and is lengthened by it.
GapAfter(d, dir, s, p, q) ==
  LET c == d.block[d.inode[dir].i_block[s]] IN Spans(c, Unshown(c, p), q, p)

LandsOn(v, b, p, q) == v # NoStop /\ v.b = b /\ v.p = p /\ v.q = q

\* Restore finds the entry that rm took out of view, and the one before it.
LEMMA VictimFound ==
  ASSUME NEW d \in Image, Good(d), Tidy(d), NEW f, Dimmed(d, f), NEW path \in Path,
         NEW dir \in Dirs(d), Leads(d, path, dir), NEW s \in Used(d.inode[dir]),
         NEW p \in Cell, Hides(d, f, dir, s, p, Last(path)),
         Unhidden(d, path), NEW q \in Cell, GapAfter(d, dir, s, p, q)
  PROVE  LandsOn(Deleted(f, path), d.inode[dir].i_block[s], p, q)
<1> DEFINE b == d.inode[dir].i_block[s]
           c == d.block[b]
           n == Unshown(c, p)
           name == Last(path)
           w == Walked(f, n, name)
           v == StopAt(f, dir, b, w)
<1>1. /\ b \in Block /\ p \in Shown(c) /\ p # 0 /\ c[p].name = name /\ c[p].file_type # "dir"
      /\ f.block[b] = n
  BY DEF Hides
<1>2. name \in Name /\ Len(path) \in 1 .. Len(path) /\ name = path[Len(path)]
  BY Paths
<1>3. Sought(d, dir, s, p, name)
  <2>1. \A e \in Hidden(d) : e.name # name
    BY <1>2 DEF Unhidden
  <2> QED
    BY <1>1, <1>2, <2>1, Zenon DEF Sought
<1>4. WalkFinds(f, n, name, p)
  <2> HIDE DEF c, n, w, v, name
  <2>1. WalkFinds(f, f.block[d.inode[dir].i_block[s]], name, p)
    BY <1>3, WalkFinding
  <2> QED
    BY <1>1, <2>1
<1>5. Stop(f, dir, name) = v
  <2> HIDE DEF c, n, name
  <2>1. Stop(f, dir, name) = StopAt(f, dir, b, Walked(f, f.block[b], name))
    BY <1>3, StopFinds
  <2> QED
    BY <1>1, <2>1
<1>6. Spans(c, n, q, p)
  BY DEF GapAfter
<1>7. c \in [Cell -> EntryType]
  BY <1>1, Fields
<1> HIDE DEF b, c, n, w
<1>8. /\ w.p = p /\ w.q \in Cell /\ w.q \in Shown(n) /\ w.q < p
      /\ \A x \in Shown(n) : x < p => x <= w.q
  BY <1>1, <1>4, Zenon DEF WalkFinds, w
<1>9. w.q = q
  <2>1. q \in Shown(n) /\ w.q \in Shown(c) /\ q < p
    <3>1. q \in Shown(c) /\ q < p /\ Shown(n) = Shown(c) \ {p}
      BY <1>6 DEF Spans
    <3>2. q # p
      BY <1>7, <3>1, CellNumbers
    <3> QED
      BY <1>8, <3>1, <3>2
  <2> DEFINE r == w.q
  <2>2. r \in Nat /\ q \in Nat
    BY <1>7, <1>8, CellNumbers
  <2>3. q <= r
    BY <1>8, <2>1
  <2>4. r <= q
    BY <1>6, <1>8, <2>1 DEF Spans
  <2> HIDE DEF r
  <2>5. r = q
    BY <2>2, <2>3, <2>4
  <2> QED
    BY <2>5 DEF r
<1>10. v.to = 0
  <2>1. Alike(f.block[b][p], c[p])
    BY <1>1 DEF Dimmed, c
  <2>2. f.block[b][w.p].file_type # "dir"
    BY <1>1, <1>8, <2>1 DEF Alike
  <2> QED
    BY <2>2 DEF StopAt
<1>11. v.b = b /\ v.p = p /\ v.q = q
  BY <1>8, <1>9, StopAtFields
<1> HIDE DEF v, name
<1>12. Deleted(f, path) = v
  <2>1. Stop(f, dir, Last(path)).to = 0
    BY <1>5, <1>10 DEF name
  <2>2. Deleted(f, path) = Stop(f, dir, Last(path))
    BY <2>1, DeletedFinds
  <2> QED
    BY <1>5, <2>2 DEF name
<1>13. v # NoStop
  BY <1>1, <1>11 DEF NoStop
<1> QED
  BY <1>11, <1>12, <1>13 DEF b, LandsOn

LEMMA RmUndone ==
  ASSUME NEW d \in Image, Good(d), Tidy(d), NEW f, Good(f), Ghosts(f) = {}, NEW path \in Path,
         NEW dir \in Dirs(d), Leads(d, path, dir), NEW s \in Used(d.inode[dir]),
         NEW p \in Cell, Hides(d, f, dir, s, p, Last(path)),
         \E i \in d.ibm \ f.ibm : BlockCount(d, i) > 0,
         Unhidden(d, path)
  PROVE  LET v == Deleted(f, path) IN v # NoStop /\ restore_file(f, v) = d
<1> DEFINE b == d.inode[dir].i_block[s]
           c == d.block[b]
           n == Unshown(c, p)
           ino == c[p].inode
           type == c[p].file_type
           v == Deleted(f, path)
           g == Write(f, b, c)
<1>1. /\ b \in Block /\ p \in Shown(c) /\ p # 0 /\ f.block[b] = n /\ ino \in d.ibm /\ ino \in Inode
      /\ \/ f.ibm = d.ibm
         \/ f = Freed(Write(d, b, n), ino) /\ f.ibm = d.ibm \ {ino} /\ d.inode[ino].i_links_count = 1
  BY DEF Hides
<1>2. Dimmed(d, f)
  BY RmDimmed
<1>3. c \in [Cell -> EntryType] /\ Chain(c, Shown(c)) /\ Own(d)
  <2>1. Own(d) /\ Laid(d, PlacesOf(d))
    BY SoundParts DEF Good
  <2>2. c = d.block[d.inode[dir].i_block[s]]
    OBVIOUS
  <2> HIDE DEF c, n, ino, type, v, g, b
  <2> QED
    BY <2>1, <2>2, BlockShows
<1>4. PICK q \in Cell : Spans(c, n, q, p)
  <2> HIDE DEF c
  <2> QED
    BY <1>1, <1>3, UnshownSpans
<1>5. v # NoStop /\ v.b = b /\ v.p = p /\ v.q = q
  <2>1. GapAfter(d, dir, s, p, q)
    BY <1>4 DEF GapAfter
  <2>2. LandsOn(Deleted(f, path), d.inode[dir].i_block[s], p, q)
    BY <1>2, <2>1, VictimFound
  <2> QED
    BY <2>2 DEF LandsOn
<1>6. /\ f = Freed(Write(d, b, n), ino) /\ f.ibm = d.ibm \ {ino} /\ d.inode[ino].i_links_count = 1
      /\ BlockCount(d, ino) > 0
  BY <1>1
<1>7. Alike(f.block[b][p], c[p])
  BY <1>1, <1>2 DEF Dimmed
<1> HIDE DEF b, c, n, v
<1>8. n \in [Cell -> EntryType] /\ [n EXCEPT ![q].rec_len = p - q] = c
  <2>1. /\ n \in [Cell -> EntryType] /\ q + c[q].rec_len = p
        /\ n = [c EXCEPT ![q].rec_len = c[q].rec_len + c[p].rec_len]
    BY <1>4 DEF Spans
  <2>2. [n EXCEPT ![q].rec_len = c[q].rec_len] = c
    <3> DEFINE m == c[q].rec_len + c[p].rec_len
    <3>1. c \in [Cell -> EntryType] /\ n = [c EXCEPT ![q].rec_len = m]
      BY <1>3, <2>1
    <3> HIDE DEF m
    <3> QED
      BY <3>1, LengthBack, ZenonT(30)
  <2>3. p - q = c[q].rec_len
    <3> DEFINE m == c[q].rec_len
    <3>1. m \in Nat /\ q \in Nat /\ p \in Nat /\ q + m = p
      BY <1>3, <2>1, CellNumbers
    <3> HIDE DEF m
    <3>2. p - q = m
      BY <3>1
    <3> QED
      BY <3>2 DEF m
  <2> QED
    BY <2>1, <2>2, <2>3
<1>9. f.block[b][p].inode = ino /\ f.block[b][p].file_type = type
  BY <1>7 DEF Alike
<1> HIDE DEF ino, type
<1>10. restore_file(f, v) = RestoredInode(g, ino, type)
  BY <1>1, <1>5, <1>8, <1>9, Zenon DEF restore_file
<1>11. RestoredInode(g, ino, type) = d
  BY <1>1, <1>3, <1>6, <1>8, FreedRestored DEF c
<1> QED
  BY <1>5, <1>10, <1>11 DEF v

\* Restore, called right after rm with the same path, finds the entry that rm
\* took out of view, widens the same entry before it by what it had lost, marks
\* the inode and its blocks again and brings the counters back: the image is
\* what it was, to the last field, whatever tools and passes of the checker led
\* to it, if the removed file had a block and one link, and its entry a place
\* behind another.
THEOREM RestoreUndoes == CheckedSpec => RestoreUndoesRm
<1>1. ASSUME TidyIInv, TidyIInv', NEW path \in Path, damage = "none", ext2_rm(path), damage' = "none",
             \E ino \in disk.ibm \ disk'.ibm : BlockCount(disk, ino) > 0,
             Ghosts(disk') = {},
             \A e \in Hidden(disk), k \in 1 .. Len(path) : e.name # path[k]
      PROVE  LET v == Deleted(disk', path)
             IN  v # NoStop /\ restore_file(disk', v) = disk
  <2>1. disk \in Image /\ Good(disk) /\ Tidy(disk)
    BY <1>1 DEF TidyIInv, IInv
  <2>2. Good(disk')
    <3>1. Good(disk)'
      BY <1>1 DEF TidyIInv, IInv
    <3> QED
      BY <3>1, Zenon DEF Good
  <2>3. PICK dir \in Dirs(disk) : /\ Leads(disk, path, dir)
                                  /\ \E s \in Used(disk.inode[dir]) : \E p \in Cell :
                                       Hides(disk, disk', dir, s, p, Last(path))
    BY <1>1, <2>1, RmHides
  <2>4. PICK s \in Used(disk.inode[dir]), p \in Cell : Hides(disk, disk', dir, s, p, Last(path))
    BY <2>3
  <2> DEFINE f == disk'
  <2>5. /\ Good(f) /\ Ghosts(f) = {} /\ Hides(disk, f, dir, s, p, Last(path))
        /\ \E i \in disk.ibm \ f.ibm : BlockCount(disk, i) > 0
    BY <1>1, <2>2, <2>4
  <2> HIDE DEF f
  <2>6. LET v == Deleted(f, path) IN v # NoStop /\ restore_file(f, v) = disk
    <3>1. Unhidden(disk, path)
      BY <1>1 DEF Unhidden
    <3> QED
      BY <2>1, <2>3, <2>5, <3>1, RmUndone
  <2> QED
    BY <2>6 DEF f
<1>2. TidyIInv /\ TidyIInv'
        => [\A path \in Path :
              /\ damage = "none" /\ ext2_rm(path) /\ damage' = "none"
              /\ \E ino \in disk.ibm \ disk'.ibm : BlockCount(disk, ino) > 0
              /\ Ghosts(disk') = {}
              /\ \A e \in Hidden(disk), k \in 1 .. Len(path) : e.name # path[k]
              /\ path_exists(disk', <<Head(path)>>) # "hangs"
              => LET v == Deleted(disk', path)
                 IN  v # NoStop /\ restore_file(disk', v) = disk]_vars
  BY <1>1, Zenon
<1> QED
  BY <1>2, TidyInvariance, PTL DEF RestoreUndoesRm
=============================================================================
