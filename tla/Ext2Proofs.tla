----------------------------- MODULE Ext2Proofs -----------------------------
(* What the tools find in an image and leave in it, and the image under any  *)
(* sequence of tools, for any names, paths, sizes, blocks and inodes.        *)
EXTENDS Ext2ImageProofs

-----------------------------------------------------------------------------
(* What the tools find in a directory.                                       *)

LEMMA SoundParts ==
  ASSUME NEW d \in Image, NEW P, Sound(d, P)
  PROVE  /\ Own(d) /\ Layout(d, P) /\ Laid(d, P) /\ NothingElse(d)
         /\ Distinct(d, P) /\ Rooted(d, P) /\ Live(d, P) /\ Counted(d, P)
         /\ P \subseteq Place /\ P = PlacesOf(d) /\ d.ibm \subseteq Inode
BY LaidPlaces, PlacesShown, Fields, SMTT(30) DEF Sound, Layout, Arranged

LEMMA GoodWhenSound ==
  ASSUME NEW d \in Image, NEW P, Sound(d, P)
  PROVE  Good(d)
BY SoundParts DEF Good

\* An entry names an inode in use, of its type.
LEMMA EntryKinds ==
  ASSUME NEW d \in Image, NEW P, Sound(d, P), NEW x \in P
  PROVE  /\ Ent(d, x).inode \in d.ibm /\ Ent(d, x).inode \in Inode /\ Ent(d, x).inode # 0
         /\ Ent(d, x).file_type = d.inode[Ent(d, x).inode].i_mode
         /\ Ent(d, x).file_type \in {"reg", "dir", "lnk"}
         /\ Ent(d, x).file_type = "dir" <=> Ent(d, x).inode \in Dirs(d)
<1> DEFINE e == Ent(d, x)
<1>1. x[1] \in Dirs(d) /\ x[2][1] \in Used(d.inode[x[1]]) /\ x[2][2] \in Cell
  BY SoundParts DEF Laid, Place
<1>2. e \in EntryType
  <2>1. d.inode[x[1]].i_block[x[2][1]] \in Block
    BY <1>1, SoundParts, DirectoryBlocks
  <2> QED
    BY <1>1, <2>1, Fields, SMTT(30) DEF Ent
<1>3. e.inode \in d.ibm /\ e.file_type = d.inode[e.inode].i_mode /\ e.inode \in Inode
  BY SoundParts DEF Live
<1>4. d.inode[e.inode].i_mode \in {"none", "reg", "dir", "lnk"}
  BY <1>3, Fields, InodeFields
<1>5. e.file_type \in {"unknown", "reg", "dir", "lnk"}
  BY <1>2 DEF EntryType
<1> HIDE DEF e
<1>6. e.inode # 0
  BY <1>3, Numbers
<1>7. e.file_type \in {"reg", "dir", "lnk"}
  BY <1>3, <1>4, <1>5
<1> QED
  BY <1>3, <1>6, <1>7 DEF Dirs, e

\* The entries that a directory shows under a name, in the slots it uses and in
\* others, in which there is no block.
LEMMA ShownUnder ==
  ASSUME NEW d \in Image, NEW P, Sound(d, P), NEW dir \in Dirs(d), NEW name
  PROVE  /\ \A s \in Used(d.inode[dir]) : \A p \in Named(Content(d, dir, s), name) :
              /\ <<dir, <<s, p>>>> \in P /\ p \in Cell
              /\ Ent(d, <<dir, <<s, p>>>>) = Content(d, dir, s)[p]
              /\ Content(d, dir, s)[p].name = name
         /\ \A x \in P : x[1] = dir /\ Ent(d, x).name = name =>
              /\ x = <<dir, <<x[2][1], x[2][2]>>>> /\ x[2][1] \in Used(d.inode[dir])
              /\ x[2][2] \in Named(Content(d, dir, x[2][1]), name)
              /\ Ent(d, x) = Content(d, dir, x[2][1])[x[2][2]]
<1>1. ASSUME NEW s \in Used(d.inode[dir])
      PROVE  /\ Shown(Content(d, dir, s)) = InDir(P, dir, s)
             /\ \A p \in Shown(Content(d, dir, s)) :
                  <<dir, <<s, p>>>> \in P /\ Ent(d, <<dir, <<s, p>>>>) = Content(d, dir, s)[p]
  BY SoundParts, BlockShows
<1>2. ASSUME NEW s \in Used(d.inode[dir]), NEW p \in Named(Content(d, dir, s), name)
      PROVE  /\ <<dir, <<s, p>>>> \in P /\ p \in Cell
             /\ Ent(d, <<dir, <<s, p>>>>) = Content(d, dir, s)[p]
             /\ Content(d, dir, s)[p].name = name
  <2>1. p \in Shown(Content(d, dir, s)) /\ Content(d, dir, s)[p].name = name
    BY DEF Named
  <2>2. p \in InDir(P, dir, s)
    BY <1>1, <2>1
  <2> QED
    BY <1>1, <2>1, <2>2 DEF InDir
<1>3. ASSUME NEW x \in P, x[1] = dir, Ent(d, x).name = name
      PROVE  /\ x = <<dir, <<x[2][1], x[2][2]>>>> /\ x[2][1] \in Used(d.inode[dir])
             /\ x[2][2] \in Named(Content(d, dir, x[2][1]), name)
             /\ Ent(d, x) = Content(d, dir, x[2][1])[x[2][2]]
  <2>1. PICK s \in Slot, p \in Cell : x = <<dir, <<s, p>>>>
    BY <1>3, SoundParts DEF Place
  <2>2. x[2][1] = s /\ x[2][2] = p
    BY <2>1
  <2>3. s \in Used(d.inode[dir])
    BY <1>3, <2>2, SoundParts DEF Laid
  <2>4. p \in InDir(P, dir, s)
    BY <2>1 DEF InDir
  <2>5. p \in Shown(Content(d, dir, s)) /\ Ent(d, x) = Content(d, dir, s)[p]
    BY <1>1, <2>1, <2>3, <2>4
  <2> QED
    BY <1>3, <2>1, <2>2, <2>3, <2>5 DEF Named
<1> QED
  BY <1>2, <1>3

LEMMA NoSuchName ==
  ASSUME NEW d \in Image, NEW P, Sound(d, P), NEW dir \in Dirs(d), NEW name, ~Has(d, dir, name)
  PROVE  NameNew(d, P, dir, name)
<1>1. Used(d.inode[dir]) = 0 .. BlockCount(d, dir) - 1
  BY SoundParts, DirectoryBlocks DEF Count, BlockCount
<1>2. ASSUME NEW y \in P, y[1] = dir, Ent(d, y).name = name PROVE FALSE
  <2>1. /\ y[2][1] \in Used(d.inode[dir])
        /\ y[2][2] \in Named(Content(d, dir, y[2][1]), name)
    BY <1>2, ShownUnder
  <2> QED
    BY <1>1, <2>1 DEF Has
<1> QED
  BY <1>2 DEF NameNew

LEMMA Paths ==
  \A path \in Path : /\ Len(path) \in Nat /\ Len(path) >= 1
                     /\ \A k \in 1 .. Len(path) : path[k] \in Name
                     /\ Last(path) = path[Len(path)] /\ Last(path) \in Name
<1> SUFFICES ASSUME NEW path \in Path
             PROVE  /\ Len(path) \in Nat /\ Len(path) >= 1
                    /\ \A k \in 1 .. Len(path) : path[k] \in Name
                    /\ Last(path) = path[Len(path)] /\ Last(path) \in Name
  OBVIOUS
<1>1. path \in Seq(Name) /\ path # <<>>
  BY NameAssumption, Zenon
<1>2. Len(path) \in Nat /\ Len(path) >= 1 /\ \A k \in 1 .. Len(path) : path[k] \in Name
  BY <1>1
<1> QED
  BY <1>2 DEF Last

\* The lowest of several numbers is one of them.
LEMMA MinIn ==
  \A T \in SUBSET Nat : T # {} => Min(T) \in T
BY MinIsLeast

LEMMA Subdirectory ==
  ASSUME NEW d \in Image, NEW P, Sound(d, P), NEW dir \in Dirs(d), NEW s \in Used(d.inode[dir]),
         NEW name
  PROVE  LET c == Content(d, dir, s)
         IN  /\ SubdirIn(c, name) \in Dirs(d) \cup {0}
             /\ Subdirs(c, name) # {} => /\ Min(Subdirs(c, name)) \in Subdirs(c, name)
                                         /\ SubdirIn(c, name) = c[Min(Subdirs(c, name))].inode
             /\ SubdirIn(c, name) # 0 => \E x \in P : /\ x[1] = dir /\ Ent(d, x).name = name
                                                     /\ Ent(d, x).inode = SubdirIn(c, name)
<1> DEFINE c == Content(d, dir, s)
<1>1. CASE Subdirs(c, name) = {}
  BY <1>1 DEF SubdirIn
<1>2. CASE Subdirs(c, name) # {}
  <2> DEFINE p == Min(Subdirs(c, name))
  <2>1. Subdirs(c, name) \in SUBSET Nat
    BY ShownUnder, BlockSizes DEF Subdirs
  <2>2. p \in Subdirs(c, name)
    BY <1>2, <2>1, MinIn
  <2>3. p \in Named(c, name) /\ c[p].file_type = "dir"
    BY <2>2 DEF Subdirs
  <2> DEFINE x == <<dir, <<s, p>>>>
  <2>4. x \in P /\ Ent(d, x) = c[p]
    BY <2>3, ShownUnder
  <2>5. c[p].inode \in Dirs(d)
    BY <2>3, <2>4, EntryKinds
  <2>6. x[1] = dir /\ c[p].name = name
    BY <2>3 DEF Named
  <2> QED
    BY <1>2, <2>2, <2>4, <2>5, <2>6 DEF SubdirIn
<1> QED
  BY <1>1, <1>2

\* The entries with names, as edges.
LEMMA EdgeAt ==
  ASSUME NEW d \in Image, NEW P, Sound(d, P)
  PROVE  /\ \A x \in P : Ent(d, x).name \in Name => <<x[1], Ent(d, x).name, Ent(d, x).inode>> \in Edges(d)
         /\ \A dir, name, ino : <<dir, name, ino>> \in Edges(d) =>
              /\ dir \in Dirs(d) /\ name \in Name /\ ino \in d.ibm
              /\ \E x \in P : x[1] = dir /\ Ent(d, x).name = name /\ Ent(d, x).inode = ino
<1>1. P = PlacesOf(d) /\ \A x \in P : x[1] \in Dirs(d) /\ Ent(d, x).inode \in d.ibm
  BY SoundParts DEF Laid, Live
<1>2. \A x \in P : Ent(d, x).name \in Name => <<x[1], Ent(d, x).name, Ent(d, x).inode>> \in Edges(d)
  BY <1>1 DEF Edges
<1>3. ASSUME NEW dir, NEW name, NEW ino, <<dir, name, ino>> \in Edges(d)
      PROVE  /\ dir \in Dirs(d) /\ name \in Name /\ ino \in d.ibm
             /\ \E x \in P : x[1] = dir /\ Ent(d, x).name = name /\ Ent(d, x).inode = ino
  <2>1. PICK x \in P : /\ Ent(d, x).name \in Name
                      /\ <<dir, name, ino>> = <<x[1], Ent(d, x).name, Ent(d, x).inode>>
    BY <1>1, <1>3 DEF Edges
  <2>2. x[1] = dir /\ Ent(d, x).name = name /\ Ent(d, x).inode = ino
    BY <2>1
  <2> QED
    BY <1>1, <2>1, <2>2
<1> QED
  BY <1>2, <1>3

\* In a directory a name is that of one inode.
LEMMA EdgeSame ==
  ASSUME NEW d \in Image, NEW P, Sound(d, P), NEW dir, NEW name, NEW i, NEW j,
         <<dir, name, i>> \in Edges(d), <<dir, name, j>> \in Edges(d)
  PROVE  i = j
<1>1. PICK x \in P : x[1] = dir /\ Ent(d, x).name = name /\ Ent(d, x).inode = i
  BY EdgeAt
<1>2. PICK y \in P : y[1] = dir /\ Ent(d, y).name = name /\ Ent(d, y).inode = j
  BY EdgeAt
<1>3. x = y
  BY <1>1, <1>2, SoundParts DEF Distinct
<1> QED
  BY <1>1, <1>2, <1>3

\* The directories that the names of a path but the last lead through, from the
\* root.
Route(E, path, w) ==
  /\ w \in [1 .. Len(path) -> Inode] /\ w[1] = EXT2_ROOT_INO
  /\ \A k \in 1 .. Len(path) - 1 : <<w[k], path[k], w[k + 1]>> \in E

Leads(d, path, dir) == \E w : Route(Edges(d), path, w) /\ w[Len(path)] = dir

\* Slots that a tool goes through: those in use, and others without a block.
LooksIn(d, dir, slots) ==
  /\ Used(d.inode[dir]) \subseteq slots /\ slots \subseteq Nat
  /\ \A i \in slots : i \in Used(d.inode[dir]) \/ Content(d, dir, i) = Zeros

LEMMA SlotsToLookIn ==
  ASSUME NEW d \in Image, NEW P, Sound(d, P), NEW dir \in Dirs(d)
  PROVE  /\ LooksIn(d, dir, 0 .. BlockCount(d, dir) - 1)
         /\ LooksIn(d, dir, SlotsLookedAt(d, dir))
         /\ 0 .. BlockCount(d, dir) - 1 = Used(d.inode[dir])
         /\ BlockCount(d, dir) = 1 => SlotsLookedAt(d, dir) = Used(d.inode[dir])
         /\ BlockCount(d, dir) = 2 =>
              /\ SlotsLookedAt(d, dir) = Used(d.inode[dir]) \cup {2}
              /\ Content(d, dir, 2) = Zeros /\ \A i \in Used(d.inode[dir]) : i < 2
<1>1. /\ Count(d.inode[dir]) \in {1, 2} /\ BlockCount(d, dir) = Count(d.inode[dir])
      /\ d.inode[dir].i_blocks = 2 * Count(d.inode[dir])
      /\ Used(d.inode[dir]) = 0 .. Count(d.inode[dir]) - 1
      /\ Count(d.inode[dir]) = 2 => d.inode[dir].i_block[2] = 0
  BY SoundParts, DirectoryBlocks DEF Count, BlockCount
<1>2. CASE Count(d.inode[dir]) = 1
  <2>1. Used(d.inode[dir]) = {0}
    BY <1>2, UsedSlots
  <2>2. SlotsLookedAt(d, dir) = {0}
    <3>1. \A i \in Slot : i < 2 * 1 - 1 <=> i \in {0}
      BY Slots
    <3> QED
      BY <1>1, <1>2, <3>1, Slots DEF SlotsLookedAt
  <2> QED
    BY <1>1, <1>2, <2>1, <2>2 DEF LooksIn
<1>3. CASE Count(d.inode[dir]) = 2
  <2>1. Used(d.inode[dir]) = {0, 1}
    BY <1>3, UsedSlots
  <2>2. SlotsLookedAt(d, dir) = {0, 1, 2}
    <3>1. \A i \in Slot : i < 2 * 2 - 1 <=> i \in {0, 1, 2}
      BY Slots
    <3> QED
      BY <1>1, <1>3, <3>1, Slots DEF SlotsLookedAt
  <2>3. Content(d, dir, 2) = Zeros
    BY <1>1, <1>3, Numbers DEF Content
  <2> QED
    BY <1>1, <1>3, <2>1, <2>2, <2>3 DEF LooksIn
<1> QED
  BY <1>1, <1>2, <1>3

LEMMA NoNameInZeros ==
  \A name \in Name : Named(Zeros, name) = {} /\ Subdirs(Zeros, name) = {} /\ Seen(Zeros, name) = {}
<1> SUFFICES ASSUME NEW name \in Name PROVE Named(Zeros, name) = {}
  BY DEF Subdirs, Seen
<1>1. Shown(Zeros) = {0} /\ Zeros[0] = Zero
  BY ZerosTyped, BlockSizes
<1> QED
  BY <1>1, ZeroTyped DEF Named

\* A name is at one place of a directory.
LEMMA OneName ==
  ASSUME NEW d \in Image, NEW P, Sound(d, P), NEW dir, NEW name,
         NEW s \in Used(d.inode[dir]), NEW p \in Named(Content(d, dir, s), name)
  PROVE  \A x \in P : x[1] = dir /\ Ent(d, x).name = name =>
                        s = x[2][1] /\ p = x[2][2] /\ Content(d, dir, s)[p] = Ent(d, x)
<1> SUFFICES ASSUME NEW x \in P, x[1] = dir, Ent(d, x).name = name
             PROVE  s = x[2][1] /\ p = x[2][2] /\ Content(d, dir, s)[p] = Ent(d, x)
  OBVIOUS
<1> DEFINE y == <<dir, <<s, p>>>>
<1>1. dir \in Dirs(d)
  BY SoundParts DEF Laid
<1>2. y \in P /\ Ent(d, y) = Content(d, dir, s)[p] /\ Content(d, dir, s)[p].name = name
  BY <1>1, ShownUnder
<1>3. y[1] = x[1] /\ y[2][1] = s /\ y[2][2] = p
  OBVIOUS
<1> HIDE DEF y
<1>4. x = y
  BY <1>2, <1>3, SoundParts DEF Distinct
<1> QED
  BY <1>2, <1>3, <1>4

\* get_file_entry, mk_dir2 and search_entry go down where the name is that of a
\* directory, and stay where it is not.
LEMMA DownIs ==
  ASSUME NEW d \in Image, NEW P, Sound(d, P), NEW dir \in Dirs(d), NEW slots,
         LooksIn(d, dir, slots), NEW name \in Name
  PROVE  /\ \A x \in P : x[1] = dir /\ Ent(d, x).name = name /\ Ent(d, x).file_type = "dir" =>
              Down(d, dir, slots, name) = Ent(d, x).inode
         /\ (\A x \in P : x[1] = dir /\ Ent(d, x).name = name => Ent(d, x).file_type # "dir")
              => Down(d, dir, slots, name) = 0
         /\ Down(d, dir, slots, name) \in Dirs(d) \cup {0}
<1> DEFINE on == {i \in slots : Subdirs(Content(d, dir, i), name) # {}}
<1>1. on \in SUBSET Nat /\ \A i \in on : i \in Used(d.inode[dir])
  BY NoNameInZeros DEF LooksIn
<1>2. Down(d, dir, slots, name) = IF on = {} THEN 0 ELSE SubdirIn(Content(d, dir, Min(on)), name)
  BY DEF Down
<1>3. on # {} => Min(on) \in on
  <2> HIDE DEF on
  <2> QED
    BY <1>1, MinIn
<1>4. ASSUME NEW s \in on
      PROVE  \E p : /\ p \in Named(Content(d, dir, s), name)
                    /\ Content(d, dir, s)[p].file_type = "dir"
                    /\ SubdirIn(Content(d, dir, s), name) = Content(d, dir, s)[p].inode
  <2>1. s \in Used(d.inode[dir]) /\ Subdirs(Content(d, dir, s), name) # {}
    BY <1>1
  <2> HIDE DEF on
  <2> DEFINE p == Min(Subdirs(Content(d, dir, s), name))
  <2>2. /\ p \in Subdirs(Content(d, dir, s), name)
        /\ SubdirIn(Content(d, dir, s), name) = Content(d, dir, s)[p].inode
    BY <2>1, Subdirectory
  <2> QED
    BY <2>2 DEF Subdirs
<1>5. ASSUME NEW x \in P, x[1] = dir, Ent(d, x).name = name, Ent(d, x).file_type = "dir"
      PROVE  Down(d, dir, slots, name) = Ent(d, x).inode
  <2>1. /\ x[2][1] \in Used(d.inode[dir]) /\ x[2][2] \in Named(Content(d, dir, x[2][1]), name)
        /\ Ent(d, x) = Content(d, dir, x[2][1])[x[2][2]]
    BY <1>5, ShownUnder
  <2>2. x[2][1] \in on
    BY <1>5, <2>1 DEF LooksIn, Subdirs
  <2>3. Min(on) \in on
    BY <1>3, <2>2
  <2> HIDE DEF on
  <2>4. PICK p : /\ p \in Named(Content(d, dir, Min(on)), name)
                 /\ SubdirIn(Content(d, dir, Min(on)), name) = Content(d, dir, Min(on))[p].inode
    BY <1>4, <2>3
  <2>5. Min(on) \in Used(d.inode[dir]) /\ p \in Named(Content(d, dir, Min(on)), name)
    BY <1>1, <2>3, <2>4
  <2>6. \A y \in P : y[1] = dir /\ Ent(d, y).name = name => Content(d, dir, Min(on))[p] = Ent(d, y)
    BY <2>5, OneName
  <2> QED
    BY <1>2, <1>5, <2>2, <2>4, <2>6
<1>6. ASSUME on # {}
      PROVE  \E x \in P : /\ x[1] = dir /\ Ent(d, x).name = name /\ Ent(d, x).file_type = "dir"
                          /\ Down(d, dir, slots, name) \in Dirs(d)
  <2>1. Min(on) \in on
    BY <1>3, <1>6
  <2> HIDE DEF on
  <2>2. PICK p : /\ p \in Named(Content(d, dir, Min(on)), name)
                 /\ Content(d, dir, Min(on))[p].file_type = "dir"
                 /\ SubdirIn(Content(d, dir, Min(on)), name) = Content(d, dir, Min(on))[p].inode
    BY <1>4, <2>1
  <2> DEFINE x == <<dir, <<Min(on), p>>>>
  <2>3. x \in P /\ Ent(d, x) = Content(d, dir, Min(on))[p] /\ Ent(d, x).name = name
    BY <1>1, <2>1, <2>2, ShownUnder
  <2>4. x[1] = dir
    OBVIOUS
  <2> HIDE DEF x
  <2>5. Ent(d, x).inode \in Dirs(d)
    BY <2>2, <2>3, EntryKinds
  <2> QED
    BY <1>2, <1>6, <2>2, <2>3, <2>4, <2>5
<1> HIDE DEF on
<1> QED
  BY <1>2, <1>5, <1>6

\* recursive_path in one directory: directories and files are found wherever
\* they are, and nothing else, but in a directory of two blocks the search for
\* what is not there has no end.
LEMMA FoundIs ==
  ASSUME NEW d \in Image, NEW P, Sound(d, P), NEW dir \in Dirs(d), NEW name \in Name,
         NEW last \in BOOLEAN
  PROVE  /\ \A x \in P : x[1] = dir /\ Ent(d, x).name = name /\ Ent(d, x).file_type \in {"reg", "dir"} =>
              Found(d, dir, name, last) =
                [is |-> IF Ent(d, x).file_type = "dir" THEN "dir"
                        ELSE IF last THEN "file" ELSE "blocked",
                 inode |-> Ent(d, x).inode]
         /\ (\A x \in P : x[1] = dir /\ Ent(d, x).name = name
                            => Ent(d, x).file_type \notin {"reg", "dir"})
              => Found(d, dir, name, last) =
                   [is |-> IF BlockCount(d, dir) = 2 THEN "hangs"
                           ELSE IF last THEN "new" ELSE "missing",
                    inode |-> 0]
<1> DEFINE stops == {i \in SlotsLookedAt(d, dir) : StopsAt(Content(d, dir, i), name)}
           C(i) == Content(d, dir, i)
<1>1. /\ stops \in SUBSET Nat /\ Used(d.inode[dir]) \subseteq SlotsLookedAt(d, dir)
      /\ \A i \in stops : i \in Used(d.inode[dir]) \/ C(i) = Zeros
  BY SlotsToLookIn DEF LooksIn
<1>2. Found(d, dir, name, last) = FoundAt(d, dir, stops, name, last)
  BY DEF Found
<1>3. \A i \in Used(d.inode[dir]) : ~Stuck(C(i))
  BY SoundParts, BlockShows
<1>4. \A i \in Used(d.inode[dir]) : i \in stops <=> Seen(C(i), name) # {}
  BY <1>1, <1>3 DEF StopsAt
<1>5. BlockCount(d, dir) \in {1, 2}
  BY SoundParts, DirectoryBlocks DEF Count, BlockCount
<1>6. stops # {} => Min(stops) \in stops /\ \A i \in stops : Min(stops) <= i
  <2> HIDE DEF stops
  <2> QED
    BY <1>1, MinIsLeast
<1>7. \A i \in Used(d.inode[dir]) : i \in Nat
  BY Slots DEF Used
<1>8. ASSUME NEW x \in P, x[1] = dir, Ent(d, x).name = name, Ent(d, x).file_type \in {"reg", "dir"}
      PROVE  Found(d, dir, name, last) =
                [is |-> IF Ent(d, x).file_type = "dir" THEN "dir"
                        ELSE IF last THEN "file" ELSE "blocked",
                 inode |-> Ent(d, x).inode]
  <2> DEFINE s == x[2][1]
             p == x[2][2]
  <2>1. s \in Used(d.inode[dir]) /\ p \in Named(C(s), name) /\ Ent(d, x) = C(s)[p]
    BY <1>8, ShownUnder
  <2>2. p \in Seen(C(s), name)
    BY <1>8, <2>1 DEF Seen
  <2>3. s \in stops
    BY <1>4, <2>1, <2>2
  <2>4. ASSUME NEW i \in Used(d.inode[dir]), NEW q \in Seen(C(i), name) PROVE i = s /\ q = p
    <3>1. q \in Named(C(i), name)
      BY DEF Seen
    <3>2. \A y \in P : y[1] = dir /\ Ent(d, y).name = name => i = y[2][1] /\ q = y[2][2]
      BY <3>1, OneName
    <3> QED
      BY <1>8, <3>2
  <2> HIDE DEF stops, s, p
  <2>5. Min(stops) = s
    <3>1. Min(stops) \in stops /\ Min(stops) <= s
      BY <1>6, <2>3
    <3>2. CASE Min(stops) \in Used(d.inode[dir])
      BY <1>4, <2>4, <3>1, <3>2
    <3>3. CASE Min(stops) \notin Used(d.inode[dir])
      <4>1. BlockCount(d, dir) = 2 /\ Min(stops) = 2 /\ s < 2
        BY <1>5, <2>1, <3>1, <3>3, SlotsToLookIn DEF stops
      <4> QED
        BY <1>7, <2>1, <3>1, <4>1
    <3> QED
      BY <3>2, <3>3
  <2>6. Min(Seen(C(s), name)) = p
    <3>1. Seen(C(s), name) \in SUBSET Nat
      BY <2>1, ShownUnder, BlockSizes DEF Seen
    <3>2. Min(Seen(C(s), name)) \in Seen(C(s), name)
      BY <2>2, <3>1, MinIn
    <3> QED
      BY <2>1, <2>4, <3>2
  <2>7. Found(d, dir, name, last) = FoundIn(C(s), name, last)
    BY <1>2, <2>3, <2>5 DEF FoundAt
  <2>8. Seen(C(s), name) # {}
    BY <2>2
  <2> HIDE DEF C
  <2> QED
    BY <2>1, <2>6, <2>7, <2>8 DEF FoundIn
<1>9. ASSUME \A x \in P : x[1] = dir /\ Ent(d, x).name = name
                            => Ent(d, x).file_type \notin {"reg", "dir"}
      PROVE  Found(d, dir, name, last) =
               [is |-> IF BlockCount(d, dir) = 2 THEN "hangs"
                       ELSE IF last THEN "new" ELSE "missing",
                inode |-> 0]
  <2>1. ASSUME NEW i \in Used(d.inode[dir]) PROVE Seen(C(i), name) = {}
    <3>1. SUFFICES ASSUME NEW p \in Seen(C(i), name) PROVE FALSE
      OBVIOUS
    <3>2. p \in Named(C(i), name) /\ C(i)[p].file_type \in {"reg", "dir"}
      BY DEF Seen
    <3> DEFINE x == <<dir, <<i, p>>>>
    <3>3. x \in P /\ Ent(d, x) = C(i)[p] /\ Ent(d, x).name = name
      BY <3>2, ShownUnder
    <3>4. x[1] = dir
      OBVIOUS
    <3> HIDE DEF x
    <3> QED
      BY <1>9, <3>2, <3>3, <3>4
  <2>2. \A i \in Used(d.inode[dir]) : i \notin stops
    BY <1>4, <2>1
  <2>3. CASE BlockCount(d, dir) = 1
    <3>1. stops = {}
      BY <2>2, <2>3, SlotsToLookIn
    <3> QED
      BY <1>2, <2>3, <3>1 DEF FoundAt
  <2>4. CASE BlockCount(d, dir) = 2
    <3>1. /\ SlotsLookedAt(d, dir) = Used(d.inode[dir]) \cup {2} /\ C(2) = Zeros
      BY <2>4, SlotsToLookIn
    <3>2. stops = {2}
      <4>1. 2 \in stops
        BY <3>1, ZerosTyped DEF StopsAt
      <4>2. \A i \in stops : i \in Used(d.inode[dir]) \cup {2}
        BY <3>1
      <4> HIDE DEF stops
      <4> QED
        BY <2>2, <4>1, <4>2
    <3> HIDE DEF stops
    <3>3. Min(stops) = 2
      BY <1>6, <3>2
    <3>4. Found(d, dir, name, last) = FoundIn(Zeros, name, last)
      BY <1>2, <3>1, <3>2, <3>3 DEF FoundAt
    <3> QED
      BY <2>4, <3>4, NoNameInZeros DEF FoundIn
  <2> QED
    BY <1>5, <2>3, <2>4
<1> QED
  BY <1>8, <1>9

\* search_entry: what rm finds is an entry of the directory.
FoundVictim(d, P, dir, name, v) ==
  \E s \in Used(d.inode[dir]) :
    /\ v.b = d.inode[dir].i_block[s] /\ v.p \in Shown(d.block[v.b])
    /\ d.block[v.b][v.p].name = name
    /\ <<dir, <<s, v.p>>>> \in P /\ Ent(d, <<dir, <<s, v.p>>>>) = d.block[v.b][v.p]

LEMMA VictimIs ==
  ASSUME NEW d \in Image, NEW P, Sound(d, P), NEW dir \in Dirs(d), NEW name \in Name,
         VictimIn(d, dir, name) # NoVictim
  PROVE  FoundVictim(d, P, dir, name, VictimIn(d, dir, name))
<1> DEFINE v  == VictimIn(d, dir, name)
           on == {i \in SlotsLookedAt(d, dir) : Named(Content(d, dir, i), name) # {}}
           s == Min(on)
           b == d.inode[dir].i_block[s]
           p == Min(Named(d.block[b], name))
<1>1. on \in SUBSET Nat /\ \A i \in on : i \in Used(d.inode[dir])
  BY SlotsToLookIn, NoNameInZeros DEF LooksIn
<1>2. on # {} /\ v = InSlot(d, b, name)
  BY DEF VictimIn
<1> HIDE DEF v
<1>3. s \in on
  <2> HIDE DEF on
  <2> QED
    BY <1>1, <1>2, MinIn
<1>4. s \in Used(d.inode[dir]) /\ Named(Content(d, dir, s), name) # {}
  BY <1>1, <1>3
<1>5. v.b = b /\ v.p = p
  BY <1>2 DEF InSlot
<1> HIDE DEF on, s
<1>6. Content(d, dir, s) = d.block[b]
  BY <1>4, SoundParts, BlockShows
<1>7. Named(Content(d, dir, s), name) \in SUBSET Nat
  BY <1>4, ShownUnder, BlockSizes
<1> HIDE DEF b
<1>8. p \in Named(d.block[b], name)
  BY <1>4, <1>6, <1>7, MinIn
<1> HIDE DEF p
<1>9. /\ <<dir, <<s, p>>>> \in P /\ Ent(d, <<dir, <<s, p>>>>) = d.block[b][p]
      /\ d.block[b][p].name = name /\ p \in Shown(d.block[b])
  BY <1>4, <1>6, <1>8, ShownUnder DEF Named
<1>10. FoundVictim(d, P, dir, name, v)
  BY <1>4, <1>5, <1>9, Zenon DEF b, FoundVictim
<1> QED
  BY <1>10 DEF v

-----------------------------------------------------------------------------
(* The ways along a path.                                                    *)

\* mk_dir and get_struct come to a directory in use, or to none.
LEMMA FirstBlocks ==
  ASSUME NEW d \in Image, NEW P, Sound(d, P), NEW path \in Path
  PROVE  /\ FirstBlocksLead(d, path) \in Dirs(d) \cup {0}
         /\ FirstBlocksLead(d, path) # 0 => Leads(d, path, FirstBlocksLead(d, path))
<1> DEFINE n == Len(path)
           D == Dirs(d) \cup {0}
           On(dir, k) == IF dir = 0 THEN 0 ELSE SubdirIn(Content(d, dir, 0), path[k - 1])
           Turn(at, k) == IF k = 1 THEN EXT2_ROOT_INO ELSE On(at[k - 1], k)
           Way(at) == at = [k \in 1 .. n |-> Turn(at, k)]
           W == CHOOSE at : Way(at)
           F == [k \in 1 .. n |-> [dir \in D |-> On(dir, k)]]
<1>1. n \in Nat /\ 1 <= n /\ 1 \in Nat /\ EXT2_ROOT_INO \in D
  BY Paths, SoundParts DEF Rooted
<1>2. \A dir \in D, k \in 1 .. n : On(dir, k) \in D
  <2>1. \A dir \in Dirs(d) : 0 \in Used(d.inode[dir])
    BY SoundParts, DirectoryBlocks
  <2>2. \A dir \in Dirs(d) : \A name : SubdirIn(Content(d, dir, 0), name) \in D
    BY <2>1, Subdirectory
  <2> QED
    BY <2>2
<1>3. F \in [1 .. n -> [D -> D]] /\ \A k \in 1 .. n, dir \in D : F[k][dir] = On(dir, k)
  <2> HIDE DEF D, On, n
  <2> QED
    BY <1>2
<1> HIDE DEF F, On, D, n
<1>4. PICK f \in [1 .. n -> D] : Follows(f, 1, n, EXT2_ROOT_INO, F)
  BY <1>1, <1>3, Iterate
<1>5. ASSUME NEW k \in 1 .. n PROVE f[k] = Turn(f, k)
  <2>1. CASE k = 1
    BY <1>4, <2>1 DEF Follows
  <2>2. CASE k # 1
    <3>1. k \in 1 + 1 .. n /\ k - 1 \in 1 .. n
      BY <1>1, <2>2
    <3> QED
      BY <1>3, <1>4, <2>2, <3>1 DEF Follows
  <2> QED
    BY <2>1, <2>2
<1>6. Way(f)
  <2> HIDE DEF Turn
  <2>1. f = [k \in 1 .. n |-> f[k]]
    BY <1>4
  <2> QED
    BY <1>5, <2>1
<1>7. Way(W)
  <2> HIDE DEF Way
  <2> QED
    BY <1>6
<1>8. FirstBlocksLead(d, path) = W[n]
  BY DEF FirstBlocksLead, W, Way, On, n
<1> HIDE DEF W
<1>9. \A k \in 1 .. n : W[k] = Turn(W, k)
  BY <1>7
<1> DEFINE T == {k \in 1 .. n : W[k] \in D}
<1>10. 1 \in T
  BY <1>1, <1>9
<1>11. \A k \in 1 + 1 .. n : k - 1 \in T => k \in T
  <2> SUFFICES ASSUME NEW k \in 1 + 1 .. n, W[k - 1] \in D PROVE k \in 1 .. n /\ W[k] \in D
    OBVIOUS
  <2>1. k \in 1 .. n /\ k # 1
    BY <1>1
  <2> QED
    BY <1>2, <1>9, <2>1
<1>12. 1 .. n \subseteq T
  <2> HIDE DEF T
  <2> QED
    BY <1>1, <1>10, <1>11, StepByStep
<1>13. ASSUME W[n] # 0 PROVE Leads(d, path, W[n])
  <2> DEFINE V == {k \in 1 .. n : W[k] # 0 => \A j \in 1 .. k : W[j] # 0}
  <2>1. 1 \in V
    BY <1>1
  <2>2. \A k \in 1 + 1 .. n : k - 1 \in V => k \in V
    <3> SUFFICES ASSUME NEW k \in 1 + 1 .. n, k - 1 \in V, W[k] # 0
                 PROVE  k \in 1 .. n /\ \A j \in 1 .. k : W[j] # 0
      OBVIOUS
    <3>1. k \in 1 .. n /\ k # 1 /\ \A j \in 1 .. k : j = k \/ j \in 1 .. k - 1
      BY <1>1
    <3>2. W[k - 1] # 0
      BY <1>9, <3>1 DEF On
    <3> QED
      BY <3>1, <3>2
  <2>3. 1 .. n \subseteq V
    <3> HIDE DEF V
    <3> QED
      BY <1>1, <2>1, <2>2, StepByStep
  <2>4. \A j \in 1 .. n : W[j] # 0 /\ W[j] \in Dirs(d)
    BY <1>1, <1>12, <1>13, <2>3 DEF D
  <2>5. ASSUME NEW k \in 1 .. n - 1 PROVE <<W[k], path[k], W[k + 1]>> \in Edges(d)
    <3>1. k \in 1 .. n /\ k + 1 \in 1 .. n /\ k + 1 # 1 /\ (k + 1) - 1 = k
      BY <1>1
    <3>2. W[k + 1] = SubdirIn(Content(d, W[k], 0), path[k]) /\ path[k] \in Name
      BY <1>9, <2>4, <3>1, Paths DEF On, n
    <3>3. 0 \in Used(d.inode[W[k]]) /\ W[k] \in Dirs(d) /\ W[k + 1] # 0
      BY <2>4, <3>1, SoundParts, DirectoryBlocks
    <3>4. PICK x \in P : x[1] = W[k] /\ Ent(d, x).name = path[k] /\ Ent(d, x).inode = W[k + 1]
      BY <3>2, <3>3, Subdirectory
    <3> QED
      BY <3>2, <3>4, EdgeAt
  <2>6. \A j \in 1 .. n : W[j] \in Inode
    BY <2>4, SoundParts DEF Dirs
  <2>7. W[1] = EXT2_ROOT_INO
    BY <1>1, <1>9
  <2> DEFINE w == [k \in 1 .. n |-> W[k]]
  <2>8. w \in [1 .. n -> Inode] /\ \A k \in 1 .. n : w[k] = W[k]
    BY <2>6
  <2> HIDE DEF w
  <2>9. 1 \in 1 .. n /\ n \in 1 .. n /\ \A k \in 1 .. n - 1 : k \in 1 .. n /\ k + 1 \in 1 .. n
    BY <1>1
  <2>10. Route(Edges(d), path, w) /\ w[n] = W[n]
    BY <2>5, <2>7, <2>8, <2>9 DEF Route, n
  <2> QED
    BY <2>10 DEF Leads, n
<1> QED
  BY <1>1, <1>8, <1>12, <1>13 DEF D

\* get_file_entry, mk_dir2 and search_entry, step by step.
Onwards(d, path, slots, v, k) ==
  IF v.k < k THEN v ELSE Onward(v.dir, k, Down(d, v.dir, slots[v.dir], path[k]))

StepsTo(d, path, slots, at) ==
  /\ at \in [1 .. Len(path) -> [dir : Dirs(d), k : 1 .. Len(path)]]
  /\ at[1] = [dir |-> EXT2_ROOT_INO, k |-> 1]
  /\ \A k \in 1 + 1 .. Len(path) : at[k] = Onwards(d, path, slots, at[k - 1], k - 1)
  /\ Reached(d, path, slots) = at[Len(path)]

LEMMA ReachedIs ==
  ASSUME NEW d \in Image, NEW P, Sound(d, P), NEW path \in Path, NEW slots,
         \A dir \in Dirs(d) : LooksIn(d, dir, slots[dir])
  PROVE  \E at : StepsTo(d, path, slots, at)
<1> DEFINE n == Len(path)
           D == [dir : Dirs(d), k : 1 .. n]
           a == [dir |-> EXT2_ROOT_INO, k |-> 1]
           Go(v, k) == Onwards(d, path, slots, v, k)
           Turn(at, k) == IF k = 1 THEN a ELSE Go(at[k - 1], k - 1)
           Way(at) == at = [k \in 1 .. n |-> Turn(at, k)]
           W == CHOOSE at : Way(at)
           F == [k \in 1 .. n |-> [v \in D |-> IF k = 1 THEN v ELSE Go(v, k - 1)]]
<1>1. n \in Nat /\ 1 <= n /\ 1 \in Nat /\ a \in D
  <2>1. n \in Nat /\ 1 <= n /\ EXT2_ROOT_INO \in Dirs(d)
    BY Paths, SoundParts DEF Rooted
  <2> QED
    BY <2>1
<1>2. ASSUME NEW v \in D, NEW k \in 1 .. n, k + 1 \in 1 .. n PROVE Go(v, k) \in D
  <2>1. v.dir \in Dirs(d) /\ v.k \in 1 .. n
    OBVIOUS
  <2>2. path[k] \in Name
    BY Paths
  <2> DEFINE next == Down(d, v.dir, slots[v.dir], path[k])
  <2>3. next \in Dirs(d) \cup {0}
    BY <2>1, <2>2, DownIs
  <2> HIDE DEF next
  <2>4. Onward(v.dir, k, next) \in D
    BY <1>2, <2>1, <2>3 DEF Onward
  <2> QED
    BY <2>4 DEF Onwards, next
<1>3. F \in [1 .. n -> [D -> D]]
  <2>1. \A k \in 1 .. n, v \in D : (IF k = 1 THEN v ELSE Go(v, k - 1)) \in D
    <3> SUFFICES ASSUME NEW k \in 1 .. n, NEW v \in D, k # 1 PROVE Go(v, k - 1) \in D
      OBVIOUS
    <3>1. k - 1 \in 1 .. n /\ (k - 1) + 1 \in 1 .. n
      BY <1>1
    <3> QED
      BY <1>2, <3>1
  <2> HIDE DEF D, Go, n
  <2> QED
    BY <2>1
<1>4. \A k \in 1 .. n, v \in D : k # 1 => F[k][v] = Go(v, k - 1)
  <2> HIDE DEF D, Go, n
  <2> QED
    OBVIOUS
<1> HIDE DEF F, Go, D, n, a
<1>5. PICK f \in [1 .. n -> D] : Follows(f, 1, n, a, F)
  BY <1>1, <1>3, Iterate
<1>6. ASSUME NEW k \in 1 .. n PROVE f[k] = Turn(f, k)
  <2>1. CASE k = 1
    BY <1>5, <2>1 DEF Follows
  <2>2. CASE k # 1
    <3>1. k \in 1 + 1 .. n /\ k - 1 \in 1 .. n
      BY <1>1, <2>2
    <3> QED
      BY <1>4, <1>5, <2>2, <3>1 DEF Follows
  <2> QED
    BY <2>1, <2>2
<1>7. Way(f)
  <2> HIDE DEF Turn
  <2>1. f = [k \in 1 .. n |-> f[k]]
    BY <1>5
  <2> QED
    BY <1>6, <2>1
<1>8. Way(W)
  <2> HIDE DEF Way
  <2> QED
    BY <1>7
<1>9. Reached(d, path, slots) = W[n]
  BY DEF Reached, Onwards, W, Way, Go, n, a
<1> HIDE DEF W
<1>10. \A k \in 1 .. n : W[k] = Turn(W, k)
  BY <1>8
<1>11. W[1] = a /\ \A k \in 1 + 1 .. n : W[k] = Go(W[k - 1], k - 1)
  <2>1. 1 \in 1 .. n /\ \A k \in 1 + 1 .. n : k \in 1 .. n /\ k # 1
    BY <1>1
  <2> QED
    BY <1>10, <2>1
<1> DEFINE T == {k \in 1 .. n : W[k] \in D}
<1>12. 1 \in T
  BY <1>1, <1>11
<1>13. \A k \in 1 + 1 .. n : k - 1 \in T => k \in T
  <2> SUFFICES ASSUME NEW k \in 1 + 1 .. n, W[k - 1] \in D PROVE k \in 1 .. n /\ W[k] \in D
    OBVIOUS
  <2>1. k \in 1 .. n /\ k - 1 \in 1 .. n /\ (k - 1) + 1 \in 1 .. n
    BY <1>1
  <2> QED
    BY <1>2, <1>11, <2>1
<1>14. \A k \in 1 .. n : W[k] \in D
  <2>1. 1 .. n \subseteq T
    <3> HIDE DEF T
    <3> QED
      BY <1>1, <1>12, <1>13, StepByStep
  <2> QED
    BY <2>1
<1>15. W \in [1 .. n -> D]
  <2>1. W = [k \in 1 .. n |-> Turn(W, k)]
    BY <1>8
  <2> HIDE DEF Turn
  <2>2. W = [k \in 1 .. n |-> W[k]]
    BY <1>10, <2>1
  <2> QED
    BY <1>14, <2>2
<1>16. StepsTo(d, path, slots, W)
  BY <1>9, <1>11, <1>15 DEF StepsTo, a, n, D, Go
<1> QED
  BY <1>16

\* They go along the edges between directories.
LEMMA DownEdge ==
  ASSUME NEW d \in Image, NEW P, Sound(d, P), NEW dir \in Dirs(d), NEW slots,
         LooksIn(d, dir, slots), NEW name \in Name
  PROVE  LET next == Down(d, dir, slots, name)
         IN  /\ next \in Dirs(d) \cup {0}
             /\ next # 0 => <<dir, name, next>> \in Edges(d)
             /\ \A ino \in Dirs(d) : <<dir, name, ino>> \in Edges(d) => next = ino /\ ino # 0
<1> DEFINE next == Down(d, dir, slots, name)
<1>1. /\ \A x \in P : x[1] = dir /\ Ent(d, x).name = name /\ Ent(d, x).file_type = "dir" =>
           next = Ent(d, x).inode
      /\ (\A x \in P : x[1] = dir /\ Ent(d, x).name = name => Ent(d, x).file_type # "dir")
           => next = 0
      /\ next \in Dirs(d) \cup {0}
  BY DownIs
<1> HIDE DEF next
<1>2. ASSUME next # 0 PROVE <<dir, name, next>> \in Edges(d)
  <2>1. PICK x \in P : x[1] = dir /\ Ent(d, x).name = name /\ Ent(d, x).file_type = "dir"
    BY <1>1, <1>2
  <2>2. next = Ent(d, x).inode
    BY <1>1, <2>1
  <2> QED
    BY <2>1, <2>2, EdgeAt
<1>3. ASSUME NEW ino \in Dirs(d), <<dir, name, ino>> \in Edges(d) PROVE next = ino /\ ino # 0
  <2>1. PICK x \in P : x[1] = dir /\ Ent(d, x).name = name /\ Ent(d, x).inode = ino
    BY <1>3, EdgeAt
  <2>2. Ent(d, x).file_type = "dir" /\ Ent(d, x).inode # 0
    BY <2>1, EntryKinds
  <2> QED
    BY <1>1, <2>1, <2>2
<1> QED
  BY <1>1, <1>2, <1>3 DEF next

LEMMA ReachedLeads ==
  ASSUME NEW d \in Image, NEW P, Sound(d, P), NEW path \in Path, NEW slots,
         \A dir \in Dirs(d) : LooksIn(d, dir, slots[dir]),
         Reached(d, path, slots).k = Len(path)
  PROVE  Leads(d, path, Reached(d, path, slots).dir)
<1> DEFINE n == Len(path)
<1>1. PICK at : StepsTo(d, path, slots, at)
  BY ReachedIs
<1>2. n \in Nat /\ 1 <= n /\ 1 \in Nat
  BY Paths
<1>3. /\ \A k \in 1 .. n : at[k].dir \in Dirs(d) /\ at[k].k \in 1 .. n
      /\ at[1].dir = EXT2_ROOT_INO /\ at[1].k = 1
      /\ \A k \in 1 + 1 .. n : at[k] = Onwards(d, path, slots, at[k - 1], k - 1)
      /\ Reached(d, path, slots) = at[n]
  <2>1. at \in [1 .. n -> [dir : Dirs(d), k : 1 .. n]]
    BY <1>1 DEF StepsTo
  <2> QED
    BY <1>1, <2>1 DEF StepsTo
<1> HIDE DEF n
<1>4. ASSUME NEW k \in 1 + 1 .. n, at[k - 1].k <= k - 1
      PROVE  /\ at[k].k <= k
             /\ at[k].k = k => /\ at[k - 1].k = k - 1
                               /\ <<at[k - 1].dir, path[k - 1], at[k].dir>> \in Edges(d)
  <2> DEFINE v    == at[k - 1]
             next == Down(d, v.dir, slots[v.dir], path[k - 1])
  <2>1. k - 1 \in 1 .. n
    BY <1>2
  <2>2. v.dir \in Dirs(d) /\ v.k \in 1 .. n /\ path[k - 1] \in Name
    BY <1>3, <2>1, Paths DEF n
  <2>3. next # 0 => <<v.dir, path[k - 1], next>> \in Edges(d)
    BY <2>2, DownEdge
  <2> HIDE DEF next
  <2>4. at[k] = IF v.k < k - 1 THEN v ELSE Onward(v.dir, k - 1, next)
    BY <1>3 DEF Onwards, next
  <2> HIDE DEF v
  <2>5. v.k <= k - 1
    BY <1>4 DEF v
  <2>6. CASE v.k < k - 1
    BY <2>1, <2>2, <2>4, <2>6
  <2>7. CASE ~(v.k < k - 1) /\ next = 0
    <3>1. at[k].k = k - 1
      BY <2>4, <2>7 DEF Onward
    <3> QED
      BY <2>1, <3>1
  <2>8. CASE ~(v.k < k - 1) /\ next # 0
    <3>1. at[k].k = (k - 1) + 1 /\ at[k].dir = next
      BY <2>4, <2>8 DEF Onward
    <3>2. v.k = k - 1 /\ at[k].k = k
      BY <2>1, <2>2, <2>5, <2>8, <3>1
    <3> QED
      BY <2>3, <2>8, <3>1, <3>2 DEF v
  <2> QED
    BY <2>6, <2>7, <2>8
<1> DEFINE On(k) == \A j \in 1 .. k - 1 : <<at[j].dir, path[j], at[j + 1].dir>> \in Edges(d)
           V == {k \in 1 .. n : at[k].k <= k /\ (at[k].k = k => On(k))}
<1>5. 1 \in V
  BY <1>2, <1>3
<1>6. \A k \in 1 + 1 .. n : k - 1 \in V => k \in V
  <2> SUFFICES ASSUME NEW k \in 1 + 1 .. n, k - 1 \in V
               PROVE  k \in 1 .. n /\ at[k].k <= k /\ (at[k].k = k => On(k))
    OBVIOUS
  <2>1. k \in 1 .. n /\ \A j \in 1 .. k - 1 : j + 1 = k \/ j \in 1 .. (k - 1) - 1
    BY <1>2
  <2>2. at[k].k <= k
    BY <1>4
  <2>3. ASSUME at[k].k = k, NEW j \in 1 .. k - 1
        PROVE  <<at[j].dir, path[j], at[j + 1].dir>> \in Edges(d)
    <3>1. at[k - 1].k = k - 1 /\ <<at[k - 1].dir, path[k - 1], at[k].dir>> \in Edges(d)
      BY <1>4, <2>3
    <3>2. CASE j + 1 = k
      <4>1. j = k - 1
        BY <3>2
      <4> QED
        BY <3>1, <3>2, <4>1
    <3>3. CASE j \in 1 .. (k - 1) - 1
      BY <3>1, <3>3
    <3> QED
      BY <2>1, <3>2, <3>3
  <2> QED
    BY <2>1, <2>2, <2>3
<1>7. 1 .. n \subseteq V
  <2> HIDE DEF V
  <2> QED
    BY <1>2, <1>5, <1>6, StepByStep
<1>8. n \in 1 .. n /\ at[n].k = n
  BY <1>2, <1>3 DEF n
<1>9. On(n)
  BY <1>7, <1>8
<1> DEFINE w == [k \in 1 .. n |-> at[k].dir]
<1>10. \A k \in 1 .. n : at[k].dir \in Inode
  BY <1>3, SoundParts DEF Dirs
<1>11. w \in [1 .. n -> Inode] /\ \A k \in 1 .. n : w[k] = at[k].dir
  BY <1>10
<1> HIDE DEF w
<1>12. 1 \in 1 .. n /\ \A k \in 1 .. n - 1 : k \in 1 .. n /\ k + 1 \in 1 .. n
  BY <1>2
<1>13. Route(Edges(d), path, w) /\ w[n] = at[n].dir
  BY <1>3, <1>8, <1>9, <1>11, <1>12 DEF Route, n
<1> QED
  BY <1>3, <1>13 DEF Leads, n

LEMMA LeadsReached ==
  ASSUME NEW d \in Image, NEW P, Sound(d, P), NEW path \in Path, NEW slots,
         \A dir \in Dirs(d) : LooksIn(d, dir, slots[dir]),
         NEW dir1 \in Dirs(d), Leads(d, path, dir1)
  PROVE  Reached(d, path, slots).dir = dir1 /\ Reached(d, path, slots).k = Len(path)
<1> DEFINE n == Len(path)
<1>1. PICK at : StepsTo(d, path, slots, at)
  BY ReachedIs
<1>2. n \in Nat /\ 1 <= n /\ 1 \in Nat
  BY Paths
<1>3. /\ at[1].dir = EXT2_ROOT_INO /\ at[1].k = 1
      /\ \A k \in 1 + 1 .. n : at[k] = Onwards(d, path, slots, at[k - 1], k - 1)
      /\ Reached(d, path, slots) = at[n]
  BY <1>1 DEF StepsTo
<1>4. PICK w : Route(Edges(d), path, w) /\ w[n] = dir1
  BY DEF Leads
<1> HIDE DEF n
<1>5. /\ w[1] = EXT2_ROOT_INO
      /\ \A k \in 1 .. n - 1 : <<w[k], path[k], w[k + 1]>> \in Edges(d)
  BY <1>4 DEF Route, n
<1>6. \A k \in 1 .. n : w[k] \in Dirs(d)
  <2> SUFFICES ASSUME NEW k \in 1 .. n PROVE w[k] \in Dirs(d)
    OBVIOUS
  <2>1. CASE k = n
    BY <1>4, <2>1
  <2>2. CASE k \in 1 .. n - 1
    <3>1. <<w[k], path[k], w[k + 1]>> \in Edges(d)
      BY <1>5, <2>2
    <3> QED
      BY <3>1, EdgeAt
  <2> QED
    BY <1>2, <2>1, <2>2
<1> DEFINE V == {k \in 1 .. n : at[k].dir = w[k] /\ at[k].k = k}
<1>7. 1 \in V
  BY <1>2, <1>3, <1>5
<1>8. \A k \in 1 + 1 .. n : k - 1 \in V => k \in V
  <2> SUFFICES ASSUME NEW k \in 1 + 1 .. n, at[k - 1].dir = w[k - 1], at[k - 1].k = k - 1
               PROVE  k \in 1 .. n /\ at[k].dir = w[k] /\ at[k].k = k
    OBVIOUS
  <2> DEFINE next == Down(d, w[k - 1], slots[w[k - 1]], path[k - 1])
  <2>1. k \in 1 .. n /\ k - 1 \in 1 .. n - 1 /\ k - 1 \in 1 .. n /\ (k - 1) + 1 = k
    BY <1>2
  <2>2. <<w[k - 1], path[k - 1], w[k]>> \in Edges(d)
    BY <1>5, <2>1
  <2>3. w[k - 1] \in Dirs(d) /\ w[k] \in Dirs(d) /\ path[k - 1] \in Name
    BY <1>6, <2>1, Paths DEF n
  <2>4. next = w[k] /\ w[k] # 0
    BY <2>2, <2>3, DownEdge
  <2> HIDE DEF next
  <2>5. at[k] = Onward(w[k - 1], k - 1, next)
    BY <1>3, <2>1 DEF Onwards, next
  <2> QED
    BY <2>1, <2>4, <2>5 DEF Onward
<1>9. 1 .. n \subseteq V
  <2> HIDE DEF V
  <2> QED
    BY <1>2, <1>7, <1>8, StepByStep
<1>10. n \in 1 .. n
  BY <1>2
<1> QED
  BY <1>3, <1>4, <1>9, <1>10 DEF n

\* path_exists and the other lookups agree on what is a directory.
LEMMA DownFound ==
  ASSUME NEW d \in Image, NEW P, Sound(d, P), NEW dir \in Dirs(d), NEW slots,
         LooksIn(d, dir, slots), NEW name \in Name, NEW last \in BOOLEAN
  PROVE  LET next  == Down(d, dir, slots, name)
             found == Found(d, dir, name, last)
         IN  /\ found.is \in {"dir", "file", "blocked", "new", "missing", "hangs"}
             /\ found \in [is : {"dir", "file", "blocked", "new", "missing", "hangs"},
                           inode : Inode \cup {0}]
             /\ found.is = "dir" <=> next # 0
             /\ found.is = "dir" => found.inode = next /\ next \in Dirs(d)
             /\ last = FALSE => found.is \notin {"file", "new"}
<1> DEFINE next  == Down(d, dir, slots, name)
           found == Found(d, dir, name, last)
           Here(x) == x[1] = dir /\ Ent(d, x).name = name
<1>1. ASSUME NEW x \in P, Here(x), Ent(d, x).file_type = "dir"
      PROVE  /\ next = Ent(d, x).inode /\ next \in Dirs(d) /\ next # 0 /\ next \in Inode
             /\ found = [is |-> "dir", inode |-> Ent(d, x).inode]
  BY <1>1, DownIs, FoundIs, EntryKinds
<1>2. ASSUME NEW x \in P, Here(x), Ent(d, x).file_type = "reg"
      PROVE  /\ found = [is |-> IF last THEN "file" ELSE "blocked", inode |-> Ent(d, x).inode]
             /\ Ent(d, x).inode \in Inode
  BY <1>2, FoundIs, EntryKinds
<1>3. ASSUME \A x \in P : Here(x) => Ent(d, x).file_type \notin {"reg", "dir"}
      PROVE  found = [is |-> IF BlockCount(d, dir) = 2 THEN "hangs"
                             ELSE IF last THEN "new" ELSE "missing",
                      inode |-> 0]
  BY <1>3, FoundIs
<1>4. (\A x \in P : Here(x) => Ent(d, x).file_type # "dir") => next = 0
  BY DownIs
<1> HIDE DEF next, found, Here
<1>5. CASE \E x \in P : Here(x) /\ Ent(d, x).file_type = "dir"
  <2>1. PICK x \in P : Here(x) /\ Ent(d, x).file_type = "dir"
    BY <1>5
  <2>2. /\ next = Ent(d, x).inode /\ next \in Dirs(d) /\ next # 0 /\ next \in Inode
        /\ found = [is |-> "dir", inode |-> Ent(d, x).inode]
    BY <1>1, <2>1
  <2> QED
    BY <2>2 DEF next, found
<1>6. CASE \A x \in P : Here(x) => Ent(d, x).file_type # "dir"
  <2>1. next = 0
    BY <1>4, <1>6
  <2>2. CASE \E x \in P : Here(x) /\ Ent(d, x).file_type = "reg"
    <3>1. PICK x \in P : Here(x) /\ Ent(d, x).file_type = "reg"
      BY <2>2
    <3>2. /\ found = [is |-> IF last THEN "file" ELSE "blocked", inode |-> Ent(d, x).inode]
          /\ Ent(d, x).inode \in Inode
      BY <1>2, <3>1
    <3> QED
      BY <2>1, <3>2 DEF next, found
  <2>3. CASE \A x \in P : Here(x) => Ent(d, x).file_type \notin {"reg", "dir"}
    BY <1>3, <2>1, <2>3 DEF next, found
  <2> QED
    BY <1>6, <2>2, <2>3
<1> QED
  BY <1>5, <1>6

\* The lookup of a path and that of the directory to work in take the same way,
\* and the result is what is found under the name that the way ends with.
LEMMA LookedUp ==
  ASSUME NEW d \in Image, NEW P, Sound(d, P), NEW path \in Path, NEW slots,
         \A dir \in Dirs(d) : LooksIn(d, dir, slots[dir])
  PROVE  LET at == Reached(d, path, slots)
         IN  /\ at.dir \in Dirs(d) /\ at.k \in 1 .. Len(path)
             /\ path_exists(d, path) = Found(d, at.dir, path[at.k], at.k = Len(path)).is
             /\ at.k < Len(path) => path_exists(d, path) \notin {"dir", "file", "new"}
<1> DEFINE n == Len(path)
           R == {"dir", "file", "blocked", "new", "missing", "hangs"}
           D == {v \in [is : R, inode : Inode \cup {0}] : v.is = "dir" => v.inode \in Dirs(d)}
           a == Found(d, EXT2_ROOT_INO, path[1], Len(path) = 1)
           Go(v, k) == IF v.is = "dir" THEN Found(d, v.inode, path[k], Len(path) = k) ELSE v
           Turn(at, k) == IF k = 1 THEN a ELSE Go(at[k - 1], k)
           Way(at) == at = [k \in 1 .. n |-> Turn(at, k)]
           W == CHOOSE at : Way(at)
           F == [k \in 1 .. n |-> [v \in D |-> Go(v, k)]]
<1>1. n \in Nat /\ 1 <= n /\ 1 \in Nat /\ EXT2_ROOT_INO \in Dirs(d)
  BY Paths, SoundParts DEF Rooted
<1>2. ASSUME NEW dir \in Dirs(d), NEW k \in 1 .. n, NEW last \in BOOLEAN
      PROVE  Found(d, dir, path[k], last) \in D
  <2>1. path[k] \in Name /\ LooksIn(d, dir, slots[dir])
    BY Paths
  <2> QED
    BY <2>1, DownFound, ZenonT(30)
<1>3. a \in D /\ \A k \in 1 .. n, v \in D : Go(v, k) \in D
  <2>1. \A k \in 1 .. n : (Len(path) = k) \in BOOLEAN
    OBVIOUS
  <2>2. 1 \in 1 .. n
    BY <1>1
  <2> QED
    BY <1>1, <1>2, <2>1, <2>2, ZenonT(30)
<1>4. F \in [1 .. n -> [D -> D]] /\ \A k \in 1 .. n, v \in D : F[k][v] = Go(v, k)
  <2> HIDE DEF D, Go, n
  <2> QED
    BY <1>3
<1> HIDE DEF F, Go, D, n, a
<1>5. PICK f \in [1 .. n -> D] : Follows(f, 1, n, a, F)
  BY <1>1, <1>3, <1>4, Iterate
<1>6. ASSUME NEW k \in 1 .. n PROVE f[k] = Turn(f, k)
  <2>1. CASE k = 1
    BY <1>5, <2>1 DEF Follows
  <2>2. CASE k # 1
    <3>1. k \in 1 + 1 .. n /\ k - 1 \in 1 .. n
      BY <1>1, <2>2
    <3> QED
      BY <1>4, <1>5, <2>2, <3>1 DEF Follows
  <2> QED
    BY <2>1, <2>2
<1>7. Way(f)
  <2> HIDE DEF Turn
  <2>1. f = [k \in 1 .. n |-> f[k]]
    BY <1>5
  <2> QED
    BY <1>6, <2>1
<1>8. Way(W)
  <2> HIDE DEF Way
  <2> QED
    BY <1>7
<1>9. path_exists(d, path) = W[n].is
  BY DEF path_exists, W, Way, Go, n, a
<1> HIDE DEF W
<1>10. \A k \in 1 .. n : W[k] = Turn(W, k)
  BY <1>8
<1>11. W[1] = a /\ \A k \in 1 + 1 .. n : W[k] = Go(W[k - 1], k)
  <2>1. 1 \in 1 .. n /\ \A k \in 1 + 1 .. n : k \in 1 .. n /\ k # 1
    BY <1>1
  <2> QED
    BY <1>10, <2>1
<1>12. PICK at : StepsTo(d, path, slots, at)
  BY ReachedIs
<1>13. /\ at \in [1 .. n -> [dir : Dirs(d), k : 1 .. n]] /\ at[1] = [dir |-> EXT2_ROOT_INO, k |-> 1]
       /\ \A k \in 1 + 1 .. n : at[k] = Onwards(d, path, slots, at[k - 1], k - 1)
       /\ Reached(d, path, slots) = at[n]
  BY <1>12 DEF StepsTo, n
<1> DEFINE J(k) == /\ at[k].k <= k
                   /\ W[k] = Found(d, at[k].dir, path[at[k].k], at[k].k = n)
                   /\ at[k].k < k => W[k].is \notin {"dir", "file", "new"}
           T == {k \in 1 .. n : J(k)}
<1>14. 1 \in T
  <2>1. at[1].k = 1 /\ at[1].dir = EXT2_ROOT_INO /\ 1 \in 1 .. n
    BY <1>1, <1>13
  <2>2. (Len(path) = 1) = (at[1].k = n)
    BY <2>1 DEF n
  <2> QED
    BY <1>11, <2>1, <2>2 DEF a
<1>15. ASSUME NEW k \in 1 + 1 .. n, k - 1 \in T PROVE k \in T
  <2> DEFINE h   == k - 1
             dir == at[h].dir
             name == path[h]
             next == Down(d, dir, slots[dir], name)
             found == Found(d, dir, name, FALSE)
  <2>1. /\ h \in 1 .. n /\ k \in 1 .. n /\ h < n /\ J(h) /\ h \in Int /\ k \in Int /\ k = h + 1
    BY <1>1, <1>15
  <2>2. dir \in Dirs(d) /\ at[h].k \in 1 .. n /\ at[h] \in [dir : Dirs(d), k : 1 .. n]
    BY <1>13, <2>1
  <2>3. name \in Name /\ LooksIn(d, dir, slots[dir])
    BY <2>1, <2>2, Paths DEF n
  <2>4. /\ found.is \in R
        /\ found.is = "dir" <=> next # 0
        /\ found.is = "dir" => found.inode = next /\ next \in Dirs(d)
        /\ found.is \notin {"file", "new"}
    BY <2>2, <2>3, DownFound, ZenonT(30)
  <2>5. at[k] = Onwards(d, path, slots, at[h], h) /\ W[k] = Go(W[h], k)
    BY <1>11, <1>13
  <2> HIDE DEF h
  <2>6. CASE at[h].k < h
    <3>1. at[k] = at[h]
      BY <2>5, <2>6 DEF Onwards
    <3>2. W[h].is \notin {"dir", "file", "new"} /\ W[k] = W[h]
      BY <2>1, <2>5, <2>6 DEF Go
    <3> QED
      BY <2>1, <2>2, <2>6, <3>1, <3>2
  <2>7. CASE at[h].k >= h
    <3>1. at[h].k = h /\ (at[h].k = n) = FALSE
      BY <1>1, <2>1, <2>2, <2>7
    <3>2. W[h] = found
      BY <2>1, <3>1
    <3>3. at[k] = Onward(dir, h, next)
      BY <2>5, <3>1, <2>1 DEF Onwards
    <3> HIDE DEF next, dir
    <3>4. CASE next = 0
      <4>1. at[k] = [dir |-> dir, k |-> h]
        BY <3>3, <3>4 DEF Onward
      <4>2. W[k] = found /\ found.is # "dir"
        BY <2>4, <2>5, <3>2, <3>4 DEF Go
      <4>3. found.is \notin {"file", "new"}
        BY <2>4
      <4>4. at[k].k = h /\ at[k].dir = dir /\ (at[k].k = n) = FALSE /\ h < k /\ h <= k
        BY <2>1, <4>1
      <4> QED
        BY <2>1, <4>2, <4>3, <4>4
    <3>5. CASE next # 0
      <4>1. at[k].dir = next /\ at[k].k = k
        BY <2>1, <3>3, <3>5 DEF Onward
      <4>2. W[k] = Found(d, next, path[k], Len(path) = k)
        BY <2>4, <2>5, <3>2, <3>5 DEF Go
      <4>3. (Len(path) = k) = (at[k].k = n) /\ ~(at[k].k < k) /\ at[k].k <= k
        BY <2>1, <4>1 DEF n
      <4> QED
        BY <2>1, <4>1, <4>2, <4>3
    <3> QED
      BY <3>4, <3>5
  <2> QED
    BY <2>1, <2>2, <2>6, <2>7
<1>16. n \in T
  <2>1. 1 .. n \subseteq T
    <3> HIDE DEF T
    <3> QED
      BY <1>1, <1>14, <1>15, StepByStep
  <2> QED
    BY <1>1, <2>1
<1>17. n \in 1 .. n
  BY <1>1
<1>18. at[n].dir \in Dirs(d) /\ at[n].k \in 1 .. n
  BY <1>13, <1>17
<1> QED
  BY <1>9, <1>13, <1>16, <1>18 DEF n

-----------------------------------------------------------------------------
(* What each tool leaves behind.                                             *)

Fit(d, harm) == d \in Image /\ harm \in Damages /\ (harm = "none" => Good(d))

\* What a tool does to the tree of names: a name in a directory for a new inode
\* (mkdir, cp, ln -s), for one in use (ln), and for one that lost its last
\* (restore).
Adds(d, f, dir, name, type, size) ==
  \E ino \in Inode \ d.ibm : Gives(d, f, dir, name, ino)
                             /\ Held(f.inode[ino]) = [type |-> type, size |-> size]
Links(d, f, dir, name, ino) ==
  /\ ino \in d.ibm /\ d.inode[ino].i_mode = "reg"
  /\ Gives(d, f, dir, name, ino) /\ Held(f.inode[ino]) = Held(d.inode[ino])
Revives(d, f, dir, name) ==
  \E ino \in Inode \ d.ibm :
    /\ Gives(d, f, dir, name, ino) /\ Held(f.inode[ino]) = Held(d.inode[ino])
    /\ Held(d.inode[ino]).type \in {"reg", "lnk"} /\ Held(d.inode[ino]).size > 0

\* The same for the path the tool is called with; rm takes its name away.
Made(d, f, path, type, size) ==
  \E dir : Leads(d, path, dir) /\ Adds(d, f, dir, Last(path), type, size)
Joined(d, f, path, target) ==
  \E dir, dir1, ino : /\ Leads(d, path, dir) /\ Links(d, f, dir, Last(path), ino)
                     /\ Leads(d, target, dir1) /\ <<dir1, Last(target), ino>> \in Edges(d)
Undone(d, f, path) ==
  \E dir : Leads(d, path, dir) /\ Revives(d, f, dir, Last(path))
Unnamed(d, f, path) ==
  \E dir, ino : Leads(d, path, dir) /\ Removes(d, f, dir, Last(path), ino)

Worked(d, f) ==
  \E path \in Path :
    \/ Made(d, f, path, "dir", 0) \/ Made(d, f, path, "lnk", 1)
    \/ \E size \in Size : Made(d, f, path, "reg", size)
    \/ \E target \in Path : Joined(d, f, path, target)
    \/ Unnamed(d, f, path) \/ Undone(d, f, path)

\* The victim of rm, which is no directory: the lookup would have found it.
LEMMA Removable ==
  ASSUME NEW d \in Image, NEW P, Sound(d, P), NEW path \in Path,
         path_exists(d, path) \in {"file", "new"}, NEW v, v = Victim(d, path), v # NoVictim
  PROVE  \E dir \in Dirs(d) : Leads(d, path, dir) /\ \E s \in Used(d.inode[dir]) :
           /\ v.b = d.inode[dir].i_block[s] /\ v.p \in Shown(d.block[v.b])
           /\ d.block[v.b][v.p].name = Last(path) /\ d.block[v.b][v.p].name \in Name
           /\ d.block[v.b][v.p].file_type # "dir"
<1> DEFINE slots == [dir \in Inode |-> SlotsLookedAt(d, dir)]
           at    == Reached(d, path, slots)
           n     == Len(path)
           name  == path[n]
           last  == at.k = n
<1>1. \A dir \in Dirs(d) : LooksIn(d, dir, slots[dir])
  <2>1. \A dir \in Dirs(d) : dir \in Inode
    BY Fields DEF Dirs
  <2> QED
    BY <2>1, SlotsToLookIn
<1> HIDE DEF slots
<1>2. /\ at.dir \in Dirs(d) /\ at.k \in 1 .. n
      /\ path_exists(d, path) = Found(d, at.dir, path[at.k], last).is
      /\ at.k < n => path_exists(d, path) \notin {"dir", "file", "new"}
  BY <1>1, LookedUp
<1>3. n \in Nat /\ name \in Name /\ Last(path) = name /\ last \in BOOLEAN
  BY Paths
<1> DEFINE dir == at.dir
<1>4. at.k = n
  BY <1>2, <1>3
<1>11. Leads(d, path, dir)
  BY <1>1, <1>4, ReachedLeads
<1> HIDE DEF last
<1>5. Found(d, dir, name, last).is \in {"file", "new"}
  BY <1>2, <1>4
<1>6. v = VictimIn(d, dir, name) /\ v # NoVictim
  BY <1>3 DEF Victim, slots
<1> HIDE DEF dir, name
<1>7. dir \in Dirs(d)
  BY <1>2 DEF dir
<1>8. PICK s \in Used(d.inode[dir]) :
           /\ v.b = d.inode[dir].i_block[s] /\ v.p \in Shown(d.block[v.b])
           /\ d.block[v.b][v.p].name = name
           /\ <<dir, <<s, v.p>>>> \in P /\ Ent(d, <<dir, <<s, v.p>>>>) = d.block[v.b][v.p]
  <2>1. FoundVictim(d, P, dir, name, VictimIn(d, dir, name))
    BY <1>3, <1>6, <1>7, VictimIs
  <2> QED
    BY <1>6, <2>1, Zenon DEF FoundVictim
<1> DEFINE x == <<dir, <<s, v.p>>>>
<1>9. x[1] = dir
  OBVIOUS
<1> HIDE DEF x
<1>10. ASSUME Ent(d, x).file_type = "dir" PROVE FALSE
  <2>1. x \in P /\ Ent(d, x).name = name
    BY <1>8, SMTT(30) DEF x
  <2>2. Found(d, dir, name, last) = [is |-> "dir", inode |-> Ent(d, x).inode]
    BY <1>3, <1>7, <1>9, <1>10, <2>1, FoundIs
  <2> QED
    BY <1>5, <2>2
<1> QED
  BY <1>3, <1>7, <1>8, <1>10, <1>11, Zenon DEF x

LEMMA RmFits ==
  ASSUME NEW d \in Image, Good(d), NEW path \in Path,
         path_exists(d, path) \in {"file", "new"}, NEW v, v = Victim(d, path), v # NoVictim
  PROVE  /\ Fit(remove_file(d, v.b, v.p), IF v.p = 0 THEN "first" ELSE "none")
         /\ v.p # 0 => Unnamed(d, remove_file(d, v.b, v.p), path)
<1> DEFINE P == PlacesOf(d)
           b == v.b
           p == v.p
           f == remove_file(d, b, p)
<1>1. Sound(d, P)
  BY DEF Good
<1> HIDE DEF P
<1>2. PICK dir \in Dirs(d) : Leads(d, path, dir) /\ \E s \in Used(d.inode[dir]) :
           /\ b = d.inode[dir].i_block[s] /\ p \in Shown(d.block[b])
           /\ d.block[b][p].name = Last(path) /\ d.block[b][p].name \in Name
           /\ d.block[b][p].file_type # "dir"
  BY <1>1, Removable
<1>2a. PICK s \in Used(d.inode[dir]) :
           /\ b = d.inode[dir].i_block[s] /\ p \in Shown(d.block[b])
           /\ d.block[b][p].name = Last(path) /\ d.block[b][p].name \in Name
           /\ d.block[b][p].file_type # "dir"
  BY <1>2, Zenon
<1> HIDE DEF f, b, p
<1>3. /\ f \in Image
      /\ p # 0 => /\ Sound(f, P \ {<<dir, <<s, p>>>>})
                  /\ Removes(d, f, dir, d.block[b][p].name, d.block[b][p].inode)
  BY <1>1, <1>2a, SoundWithout, ZenonT(30) DEF f
<1>4. p # 0 => Good(f)
  BY <1>3, GoodWhenSound
<1>5. p # 0 => Unnamed(d, f, path)
  BY <1>2, <1>2a, <1>3, Zenon DEF Unnamed
<1> QED
  BY <1>3, <1>4, <1>5 DEF Fit, Damages, f, b, p

\* Whatever is written into a block leaves entries there.
LEMMA CellWritten ==
  ASSUME NEW c \in [Cell -> EntryType], NEW p, NEW f, p \in Cell => f \in EntryType
  PROVE  [c EXCEPT ![p] = f] \in [Cell -> EntryType]
<1> DEFINE n == [c EXCEPT ![p] = f]
<1>1. n = [q \in Cell |-> IF q = p THEN f ELSE c[q]]
  OBVIOUS
<1>2. \A q \in Cell : (IF q = p THEN f ELSE c[q]) \in EntryType
  OBVIOUS
<1> HIDE DEF n
<1> QED
  BY <1>1, <1>2 DEF n

LEMMA LengthWritten ==
  ASSUME NEW c \in [Cell -> EntryType], NEW p, NEW n, n \in Nat
  PROVE  [c EXCEPT ![p].rec_len = n] \in [Cell -> EntryType]
<1> DEFINE f == [c[p] EXCEPT !.rec_len = n]
<1>1. p \in Cell => f \in EntryType
  <2>1. p \in Cell => c[p] \in EntryType
    OBVIOUS
  <2> QED
    BY <2>1 DEF EntryType
<1>2. [c EXCEPT ![p].rec_len = n] = [c EXCEPT ![p] = f]
  OBVIOUS
<1> HIDE DEF f
<1> QED
  BY <1>1, <1>2, CellWritten

LEMMA NameWritten ==
  ASSUME NEW c \in [Cell -> EntryType], NEW p, NEW name \in Name
  PROVE  [c EXCEPT ![p].name = name] \in [Cell -> EntryType]
<1> DEFINE f == [c[p] EXCEPT !.name = name]
<1>1. p \in Cell => f \in EntryType
  <2>1. p \in Cell => c[p] \in EntryType
    OBVIOUS
  <2>2. name \in EntryName
    BY Names
  <2> QED
    BY <2>1, <2>2 DEF EntryType
<1>2. [c EXCEPT ![p].name = name] = [c EXCEPT ![p] = f]
  OBVIOUS
<1> HIDE DEF f
<1> QED
  BY <1>1, <1>2, CellWritten

LEMMA LastShownIs ==
  ASSUME NEW c \in [Cell -> EntryType]
  PROVE  LastShown(c) \in Cell /\ LastShown(c) \in Nat
<1> DEFINE N == EXT2_BLOCK_SIZE - 1
<1>1. N \in Nat /\ Cell = 0 .. N
  BY BlockSizes DEF Cell
<1>2. Shown(c) \in SUBSET Cell /\ Shown(c) # {}
  BY EntryLengths, ShownLeast
<1> HIDE DEF N
<1>3. Shown(c) \in SUBSET (0 .. N)
  BY <1>1, <1>2
<1>4. Max(Shown(c)) \in Shown(c)
  BY <1>1, <1>2, <1>3, MaxIsGreatest
<1> QED
  BY <1>1, <1>2, <1>4 DEF LastShown

LEMMA TrimmedTyped ==
  ASSUME NEW c \in [Cell -> EntryType]
  PROVE  Trimmed(c) \in [Cell -> EntryType]
BY LengthWritten DEF Trimmed

\* The new entry of any tool, wherever it goes.
LEMMA AddedTyped ==
  ASSUME NEW c \in [Cell -> EntryType], NEW over \in BOOLEAN, NEW name \in Name,
         NEW type \in {"reg", "dir", "lnk"}, NEW ino \in Inode \cup {-1}
  PROVE  /\ Inserted(c, name, type, ino) \in [Cell -> EntryType]
         /\ OverDotDot(c, name, type, ino) \in [Cell -> EntryType]
         /\ Added(c, over, name, type, ino) \in [Cell -> EntryType]
         /\ NameOnly(c, over, name) \in [Cell -> EntryType]
<1>1. name \in EntryName
  BY Names
<1>2. Inserted(c, name, type, ino) \in [Cell -> EntryType]
  <2> DEFINE p == IF c[0].rec_len = 0 THEN 0 ELSE LastShown(c) + 1
             f == Entry(name, type, ino, EXT2_BLOCK_SIZE - p)
             t == Trimmed(c)
  <2>1. t \in [Cell -> EntryType]
    BY TrimmedTyped
  <2>2. p \in Nat
    BY LastShownIs
  <2>3. Inserted(c, name, type, ino) = [t EXCEPT ![p] = f]
    BY DEF Inserted
  <2> HIDE DEF p, t
  <2>4. p \in Cell => EXT2_BLOCK_SIZE - p \in Nat
    BY <2>2, BlockSizes
  <2>5. p \in Cell => f \in EntryType
    BY <1>1, <2>4, EntryTyped
  <2> HIDE DEF f
  <2> QED
    BY <2>1, <2>3, <2>5, CellWritten
<1>3. OverDotDot(c, name, type, ino) \in [Cell -> EntryType]
  <2> DEFINE t == [c EXCEPT ![0].rec_len = 1]
             f == Entry(name, type, ino, EXT2_BLOCK_SIZE - 1)
  <2>1. t \in [Cell -> EntryType]
    BY LengthWritten
  <2>2. EXT2_BLOCK_SIZE - 1 \in Nat
    BY BlockSizes
  <2>3. f \in EntryType
    BY <1>1, <2>2, EntryTyped
  <2>4. OverDotDot(c, name, type, ino) = [t EXCEPT ![1] = f]
    BY DEF OverDotDot
  <2> HIDE DEF t, f
  <2> QED
    BY <2>1, <2>3, <2>4, CellWritten
<1>4. NameOnly(c, over, name) \in [Cell -> EntryType]
  <2> DEFINE t == IF over THEN [c EXCEPT ![0].rec_len = 1] ELSE Trimmed(c)
             p == IF over THEN 1 ELSE IF c[0].rec_len = 0 THEN 0 ELSE LastShown(c) + 1
  <2>1. t \in [Cell -> EntryType]
    BY LengthWritten, TrimmedTyped
  <2>2. NameOnly(c, over, name) = [t EXCEPT ![p].name = name]
    BY DEF NameOnly
  <2> HIDE DEF t, p
  <2> QED
    BY <2>1, <2>2, NameWritten
<1> QED
  BY <1>2, <1>3, <1>4 DEF Added

\* An image with inode i as r, and new bitmaps.
NewFields(d, e, i, r, bb, ib) ==
  /\ e \in Image /\ e.block = d.block /\ e.bbm = bb /\ e.ibm = ib
  /\ e.inode[i] = r /\ \A j \in Inode \ {i} : e.inode[j] = d.inode[j]

LEMMA InodeWritten ==
  ASSUME NEW d \in Image, NEW i \in Inode, NEW r \in InodeType, NEW bb \in SUBSET Block,
         NEW ib \in SUBSET Inode, NEW fb \in Int, NEW fi \in Int
  PROVE  NewFields(d, [d EXCEPT !.bbm = bb, !.ibm = ib, !.free_blocks = fb, !.free_inodes = fi,
                                !.inode = [d.inode EXCEPT ![i] = r]], i, r, bb, ib)
<1> DEFINE e == [d EXCEPT !.bbm = bb, !.ibm = ib, !.free_blocks = fb, !.free_inodes = fi,
                          !.inode = [d.inode EXCEPT ![i] = r]]
<1>1. /\ e \in Image /\ e.block = d.block /\ e.bbm = bb /\ e.ibm = ib
      /\ e.inode = [d.inode EXCEPT ![i] = r]
  BY DEF Image
<1> HIDE DEF e
<1>2. e.inode[i] = r /\ \A j \in Inode \ {i} : e.inode[j] = d.inode[j]
  BY <1>1, Fields
<1>3. NewFields(d, e, i, r, bb, ib)
  BY <1>1, <1>2 DEF NewFields
<1> QED
  BY <1>3 DEF e

LEMMA LinkedFields ==
  ASSUME NEW d \in Image, NEW ino \in Inode
  PROVE  LET f == Linked(d, ino)
         IN  /\ NewFields(d, f, ino, f.inode[ino], d.bbm, d.ibm)
             /\ f.inode[ino].i_mode = d.inode[ino].i_mode
             /\ f.inode[ino].i_blocks = d.inode[ino].i_blocks
             /\ f.inode[ino].i_block = d.inode[ino].i_block
             /\ f.inode[ino].i_dtime = d.inode[ino].i_dtime
             /\ f.inode[ino].i_links_count = d.inode[ino].i_links_count + 1
<1> DEFINE r == d.inode[ino]
           n == r.i_links_count + 1
           q == [r EXCEPT !.i_links_count = n]
           f == Linked(d, ino)
           g == [d EXCEPT !.bbm = d.bbm, !.ibm = d.ibm, !.free_blocks = d.free_blocks,
                          !.free_inodes = d.free_inodes, !.inode = [d.inode EXCEPT ![ino] = q]]
<1>1. r \in InodeType
  BY Fields
<1>2. n \in Nat
  BY <1>1, InodeFields
<1>3. /\ q \in InodeType /\ q.i_mode = r.i_mode /\ q.i_dtime = r.i_dtime
      /\ q.i_links_count = n /\ q.i_blocks = r.i_blocks /\ q.i_block = r.i_block
  <2> HIDE DEF r, n
  <2> QED
    BY <1>1, <1>2 DEF InodeType
<1>4. f = g
  BY DEF Image, Linked
<1> HIDE DEF q, f
<1>5. NewFields(d, g, ino, q, d.bbm, d.ibm)
  BY <1>3, Fields, InodeWritten, Zenon
<1> HIDE DEF g
<1>6. f.inode[ino] = q
  BY <1>4, <1>5 DEF NewFields
<1> QED
  BY <1>3, <1>4, <1>5, <1>6 DEF f

LEMMA MaxZero ==
  \A n \in Int : Max({0, n}) = IF n >= 0 THEN n ELSE 0
<1> SUFFICES ASSUME NEW n \in Int PROVE Max({0, n}) = IF n >= 0 THEN n ELSE 0
  OBVIOUS
<1> DEFINE m == IF n >= 0 THEN n ELSE 0
<1>1. m \in {0, n} /\ \A y \in {0, n} : m >= y
  OBVIOUS
<1>2. \A x \in {0, n} : (\A y \in {0, n} : x >= y) => x = m
  OBVIOUS
<1> HIDE DEF m
<1>3. Max({0, n}) = m
  BY <1>1, <1>2 DEF Max
<1> QED
  BY <1>3 DEF m

\* The inode of a new symbolic link, with block m or 0.
LEMMA SymlinkedFields ==
  ASSUME NEW d \in Image, NEW ino \in Inode
  PROVE  LET f == Symlinked(d, ino)
             b == find_free_block_index(d)
         IN  /\ NewFields(d, f, ino, f.inode[ino], d.bbm \cup ({b} \cap Block), d.ibm \cup {ino})
             /\ f.inode[ino].i_mode = "lnk" /\ f.inode[ino].i_blocks = 2
             /\ (b # -1 => f.inode[ino].i_block[0] = b) /\ f.inode[ino].i_block[0] # -1
             /\ ~f.inode[ino].i_dtime
             /\ f.inode[ino].i_links_count = d.inode[ino].i_links_count + 1
<1> DEFINE b == find_free_block_index(d)
           r == d.inode[ino]
           n == r.i_links_count + 1
           m == Max({0, b})
           k == [r.i_block EXCEPT ![0] = m]
           q == [r EXCEPT !.i_mode = "lnk", !.i_links_count = n, !.i_blocks = 2,
                          !.i_dtime = FALSE, !.i_block = k]
           bb == d.bbm \cup ({b} \cap Block)
           ib == d.ibm \cup {ino}
           fb == d.free_blocks - 1
           fi == d.free_inodes - 1
           f == Symlinked(d, ino)
           g == [d EXCEPT !.bbm = bb, !.ibm = ib, !.free_blocks = fb,
                          !.free_inodes = fi, !.inode = [d.inode EXCEPT ![ino] = q]]
<1>1. r \in InodeType
  BY Fields
<1>2. n \in Nat /\ r.i_block \in [Slot -> {-1, 0} \cup Block]
  BY <1>1, InodeFields
<1>3. b = -1 \/ b \in Block
  BY FreeBlock
<1> HIDE DEF b
<1>4. m \in {0} \cup Block /\ (b # -1 => m = b)
  <2>1. b = -1 => m = 0
    BY MaxZero
  <2>2. ASSUME b \in Block PROVE m = b
    <3>1. b \in Int /\ b >= 0
      BY <2>2, Numbers
    <3> QED
      BY <3>1, MaxZero
  <2> QED
    BY <1>3, <2>1, <2>2
<1>5. bb \in SUBSET Block /\ ib \in SUBSET Inode /\ fb \in Int /\ fi \in Int
  BY Fields
<1>6. k \in [Slot -> {-1, 0} \cup Block] /\ k[0] = m
  <2> HIDE DEF r, m
  <2> QED
    BY <1>2, <1>4, Slots
<1>7. /\ q \in InodeType /\ q.i_mode = "lnk" /\ q.i_dtime = FALSE
      /\ q.i_links_count = n /\ q.i_blocks = 2 /\ q.i_block = k
  <2> HIDE DEF r, n, k
  <2> QED
    BY <1>1, <1>2, <1>6 DEF InodeType
<1>8. f = g
  <2> DEFINE s == [r EXCEPT !.i_mode = "lnk", !.i_links_count = r.i_links_count + 1, !.i_blocks = 2,
                            !.i_dtime = FALSE, !.i_block = [r.i_block EXCEPT ![0] = Max({0, b})]]
  <2>1. f = [d EXCEPT !.ibm = d.ibm \cup {ino}, !.free_inodes = d.free_inodes - 1,
                      !.inode = [d.inode EXCEPT ![ino] = s],
                      !.bbm = d.bbm \cup ({b} \cap Block), !.free_blocks = d.free_blocks - 1]
    BY DEF Symlinked, b
  <2> HIDE DEF f
  <2>2. s = q
    OBVIOUS
  <2> HIDE DEF s, q, r, k, m
  <2>3. f = [d EXCEPT !.ibm = ib, !.free_inodes = fi, !.inode = [d.inode EXCEPT ![ino] = q],
                      !.bbm = bb, !.free_blocks = fb]
    BY <2>1, <2>2
  <2> HIDE DEF bb, ib, fb, fi
  <2> QED
    BY <2>3 DEF Image
<1> HIDE DEF q, f
<1>9. NewFields(d, g, ino, q, bb, ib)
  <2> HIDE DEF bb, ib, fb, fi
  <2> QED
    BY <1>5, <1>7, InodeWritten, Zenon
<1> HIDE DEF g, k
<1>10. f.inode[ino] = q
  BY <1>8, <1>9 DEF NewFields
<1>11. m # -1
  BY <1>4, Numbers
<1> HIDE DEF m
<1> QED
  BY <1>4, <1>6, <1>7, <1>8, <1>9, <1>10, <1>11 DEF f, b

\* A block of the directory that has room for the name, which is in none.
Enterable(d, dir, b, name) ==
  /\ Good(d) /\ dir \in Dirs(d) /\ name \in Name /\ ~Has(d, dir, name)
  /\ \E s \in Used(d.inode[dir]) : b = d.inode[dir].i_block[s]
  /\ b \in Block /\ new_directory_fits(d.block[b])

LEMMA EnterableOpens ==
  ASSUME NEW d \in Image, NEW dir, NEW b, NEW name, Enterable(d, dir, b, name),
         NEW type \in {"reg", "dir", "lnk"}, NEW ino \in Inode \cup {-1}
  PROVE  LET e == Write(d, b, Inserted(d.block[b], name, type, ino))
         IN  /\ e \in Image
             /\ \E x : Opened(d, PlacesOf(d), e, x, dir, Entry(name, type, ino, 0))
             /\ NameNew(d, PlacesOf(d), dir, name)
<1>1. Sound(d, PlacesOf(d)) /\ dir \in Dirs(d) /\ name \in Name /\ new_directory_fits(d.block[b])
  BY DEF Enterable, Good
<1>2. PICK s \in Used(d.inode[dir]) : b = d.inode[dir].i_block[s]
  BY DEF Enterable
<1>3. NameNew(d, PlacesOf(d), dir, name)
  BY <1>1, NoSuchName DEF Enterable
<1>4. LET e == Write(d, b, Inserted(d.block[b], name, type, ino))
      IN  /\ e \in Image
          /\ \E x : Opened(d, PlacesOf(d), e, x, dir, Entry(name, type, ino, 0))
  BY <1>1, <1>2, Entered, SMTT(30)
<1> QED
  BY <1>3, <1>4

\* A link to a file in use.
LEMMA LinkFits ==
  ASSUME NEW d \in Image, NEW b \in Block, NEW over \in BOOLEAN, NEW name \in Name,
         NEW ino \in Inode
  PROVE  LET f == Linked(Write(d, b, Added(d.block[b], over, name, "reg", ino)), ino)
         IN  /\ f \in Image
             /\ \A dir : Enterable(d, dir, b, name) /\ ~over /\ ino \in d.ibm
                           /\ d.inode[ino].i_mode = "reg" => Good(f) /\ Links(d, f, dir, name, ino)
<1> DEFINE c == Added(d.block[b], over, name, "reg", ino)
           e == Write(d, b, c)
           f == Linked(e, ino)
<1>1. d.block[b] \in [Cell -> EntryType]
  BY Fields
<1>2. c \in [Cell -> EntryType]
  BY <1>1, AddedTyped
<1>3. e \in Image
  <2> HIDE DEF c
  <2> QED
    BY <1>2, Written DEF Rewritten
<1> HIDE DEF e
<1>4. /\ NewFields(e, f, ino, f.inode[ino], e.bbm, e.ibm)
      /\ f.inode[ino].i_mode = e.inode[ino].i_mode
      /\ f.inode[ino].i_blocks = e.inode[ino].i_blocks
      /\ f.inode[ino].i_block = e.inode[ino].i_block
      /\ f.inode[ino].i_dtime = e.inode[ino].i_dtime
      /\ f.inode[ino].i_links_count = e.inode[ino].i_links_count + 1
  BY <1>3, LinkedFields
<1> HIDE DEF f
<1>5. f \in Image
  BY <1>4 DEF NewFields
<1>6. ASSUME NEW dir, Enterable(d, dir, b, name), ~over, ino \in d.ibm, d.inode[ino].i_mode = "reg"
      PROVE  Good(f) /\ Links(d, f, dir, name, ino)
  <2> DEFINE P == PlacesOf(d)
  <2>1. Sound(d, P)
    BY <1>6 DEF Enterable, Good
  <2>2. e = Write(d, b, Inserted(d.block[b], name, "reg", ino))
    BY <1>6 DEF Added, e
  <2>3. /\ \E x : Opened(d, P, e, x, dir, Entry(name, "reg", ino, 0))
        /\ NameNew(d, P, dir, name)
    BY <1>6, <2>2, EnterableOpens
  <2>4. PICK x : Opened(d, P, e, x, dir, Entry(name, "reg", ino, 0))
    BY <2>3
  <2>5. e.inode[ino].i_mode = "reg"
    BY <1>6, <2>4 DEF Opened
  <2>6. \A i \in Inode : Kept(f.inode[i], e.inode[i])
    BY <1>4, <2>5 DEF NewFields, Kept
  <2>7. LinkAdded(d, e, f, ino)
    BY <1>4, <1>6, <2>6 DEF NewFields, LinkAdded
  <2> HIDE DEF P
  <2>8. Sound(f, P \cup {x}) /\ Gives(d, f, dir, name, ino) /\ Held(f.inode[ino]) = Held(d.inode[ino])
    BY <2>1, <2>3, <2>4, <2>7, SoundWithLink
  <2> QED
    BY <1>5, <1>6, <2>8, GoodWhenSound DEF Links
<1> QED
  BY <1>5, <1>6 DEF f, e

\* A symbolic link, with an inode and a block for it.
LEMMA SymlinkFits ==
  ASSUME NEW d \in Image, NEW b \in Block, NEW over \in BOOLEAN, NEW name \in Name,
         NEW ino \in Inode
  PROVE  LET f == Symlinked(Write(d, b, Added(d.block[b], over, name, "lnk", ino)), ino)
         IN  /\ f \in Image
             /\ \A dir : Enterable(d, dir, b, name) /\ ~over /\ ino \notin d.ibm
                           /\ find_free_block_index(d) # -1
                             => Good(f) /\ Adds(d, f, dir, name, "lnk", 1)
<1> DEFINE c == Added(d.block[b], over, name, "lnk", ino)
           e == Write(d, b, c)
           f == Symlinked(e, ino)
           free == find_free_block_index(e)
<1>1. d.block[b] \in [Cell -> EntryType]
  BY Fields
<1>2. c \in [Cell -> EntryType]
  BY <1>1, AddedTyped
<1>3. e \in Image /\ e.bbm = d.bbm
  <2> HIDE DEF c
  <2> QED
    BY <1>2, Written DEF Rewritten
<1> HIDE DEF e
<1>4. /\ NewFields(e, f, ino, f.inode[ino], e.bbm \cup ({free} \cap Block), e.ibm \cup {ino})
      /\ f.inode[ino].i_mode = "lnk" /\ f.inode[ino].i_blocks = 2
      /\ free # -1 => f.inode[ino].i_block[0] = free
      /\ ~f.inode[ino].i_dtime
      /\ f.inode[ino].i_links_count = e.inode[ino].i_links_count + 1
  BY <1>3, SymlinkedFields
<1>5. free = -1 \/ free \in Block \ e.bbm
  BY FreeBlock
<1>6. free = find_free_block_index(d)
  BY <1>3 DEF find_free_block_index
<1> HIDE DEF f, free
<1>7. f \in Image
  BY <1>4 DEF NewFields
<1>8. ASSUME NEW dir, Enterable(d, dir, b, name), ~over, ino \notin d.ibm,
             find_free_block_index(d) # -1
      PROVE  Good(f) /\ Adds(d, f, dir, name, "lnk", 1)
  <2> DEFINE P == PlacesOf(d)
  <2>1. Sound(d, P)
    BY <1>8 DEF Enterable, Good
  <2>2. e = Write(d, b, Inserted(d.block[b], name, "lnk", ino))
    BY <1>8 DEF Added, e
  <2>3. /\ \E x : Opened(d, P, e, x, dir, Entry(name, "lnk", ino, 0))
        /\ NameNew(d, P, dir, name)
    BY <1>8, <2>2, EnterableOpens
  <2>4. PICK x : Opened(d, P, e, x, dir, Entry(name, "lnk", ino, 0))
    BY <2>3
  <2>5. e.ibm = d.ibm /\ e.inode[ino].i_links_count = d.inode[ino].i_links_count
    BY <2>4 DEF Opened
  <2>6. d.inode[ino].i_links_count = 0
    BY <1>8, <2>1, SoundParts, FreeHasNoLinks
  <2>7. free \in Block \ e.bbm
    BY <1>5, <1>6, <1>8
  <2>8. f.inode[ino].i_links_count = 1 /\ f.inode[ino].i_block[0] = free
    BY <1>4, <1>6, <1>8, <2>5, <2>6
  <2>9. Count(f.inode[ino]) = 1
    BY <1>4 DEF Count
  <2>10. Used(f.inode[ino]) = {0} /\ BlocksOf(f.inode[ino]) = {free}
    BY <2>8, <2>9, UsedSlots DEF BlocksOf
  <2>11. InodeOK(f.inode[ino])
    BY <1>4, <2>7, <2>8, <2>9, <2>10, Slots DEF InodeOK
  <2>12. /\ f.block = e.block /\ \A i \in Inode \ {ino} : f.inode[i] = e.inode[i]
         /\ f.ibm = e.ibm \cup {ino} /\ f.bbm = e.bbm \cup {free}
    BY <1>4, <2>7 DEF NewFields
  <2>13. IntoUse(e, f, ino)
    <3>1. \A i \in Inode \ {ino} : Kept(f.inode[i], e.inode[i])
      BY <2>12 DEF Kept
    <3>2. e.ibm \subseteq Inode
      BY <1>3, Fields
    <3> QED
      BY <1>4, <1>8, <2>5, <2>7, <2>8, <2>10, <2>11, <2>12, <3>1, <3>2 DEF IntoUse
  <2>14. FileMade(d, e, f, ino, "lnk")
    BY <1>4, <1>7, <1>8, <2>8, <2>12, <2>13 DEF FileMade
  <2> HIDE DEF P
  <2>15. Sound(f, P \cup {x}) /\ Gives(d, f, dir, name, ino)
    BY <2>1, <2>3, <2>4, <2>14, SoundWithFile
  <2>16. Held(f.inode[ino]) = [type |-> "lnk", size |-> 1]
    BY <1>4, <2>9 DEF Held
  <2> QED
    BY <1>7, <1>8, <2>15, <2>16, GoodWhenSound DEF Adds
<1> QED
  BY <1>7, <1>8 DEF f, e

\* What may be linked: a file in use, or nothing, for a symbolic link.
Linkable(d, ino) == ino = 0 \/ (ino \in d.ibm /\ d.inode[ino].i_mode = "reg")

Hardlinked(d, f, dir, name, ino) ==
  IF ino = 0 THEN Adds(d, f, dir, name, "lnk", 1) ELSE Links(d, f, dir, name, ino)

LEMMA HardlinkFits ==
  ASSUME NEW d \in Image, NEW b \in Block, NEW over \in BOOLEAN, NEW name \in Name,
         NEW ino \in Inode \cup {0}, NEW harm \in Damages, NEW dir,
         harm = "none" => ~over /\ Linkable(d, ino) /\ Enterable(d, dir, b, name),
         add_hardlink(d, b, over, name, ino, harm)
  PROVE  /\ Fit(disk', damage') /\ damage' \in {harm, "full"}
         /\ damage' = "none" => Hardlinked(d, disk', dir, name, ino)
<1> DEFINE new == find_invalid_indode_index(d)
<1>1. new = -1 \/ new \in Inode \ d.ibm
  BY FreeInode
<1> HIDE DEF new
<1>2. CASE ino # 0 /\ Leaves(Linked(Write(d, b, Added(d.block[b], over, name, "reg", ino)), ino), harm)
  <2> DEFINE f == Linked(Write(d, b, Added(d.block[b], over, name, "reg", ino)), ino)
  <2>1. ino \in Inode
    BY <1>2
  <2>2. f \in Image
    BY <2>1, LinkFits
  <2>3. harm = "none" => Good(f) /\ Links(d, f, dir, name, ino)
    BY <1>2, <2>1, LinkFits DEF Linkable
  <2> HIDE DEF f
  <2>4. disk' = f /\ damage' = harm
    BY <1>2 DEF Leaves, f
  <2> QED
    BY <1>2, <2>2, <2>3, <2>4 DEF Fit, Hardlinked
<1>3. CASE ino = 0 /\ new = -1 /\ Leaves(Write(d, b, NameOnly(d.block[b], over, name)), "full")
  <2> DEFINE c == NameOnly(d.block[b], over, name)
  <2>1. d.block[b] \in [Cell -> EntryType] /\ -1 \in Inode \cup {-1} /\ "reg" \in {"reg", "dir", "lnk"}
    BY Fields
  <2>2. c \in [Cell -> EntryType]
    BY <2>1, AddedTyped
  <2> HIDE DEF c
  <2>3. Write(d, b, c) \in Image
    BY <2>2, Written DEF Rewritten
  <2>4. disk' = Write(d, b, c) /\ damage' = "full"
    BY <1>3 DEF Leaves, c
  <2> QED
    BY <2>3, <2>4 DEF Fit, Damages
<1>4. CASE /\ ino = 0 /\ new # -1
           /\ Leaves(Symlinked(Write(d, b, Added(d.block[b], over, name, "lnk", new)), new),
                     IF find_free_block_index(d) = -1 THEN "full" ELSE harm)
  <2> DEFINE f == Symlinked(Write(d, b, Added(d.block[b], over, name, "lnk", new)), new)
  <2>1. new \in Inode /\ new \notin d.ibm
    BY <1>1, <1>4
  <2>2. f \in Image
    BY <2>1, SymlinkFits
  <2>3. harm = "none" /\ find_free_block_index(d) # -1 => Good(f) /\ Adds(d, f, dir, name, "lnk", 1)
    BY <2>1, SymlinkFits
  <2> HIDE DEF f
  <2>4. disk' = f /\ damage' = IF find_free_block_index(d) = -1 THEN "full" ELSE harm
    BY <1>4 DEF Leaves, f
  <2> QED
    BY <1>4, <2>2, <2>3, <2>4 DEF Fit, Damages, Hardlinked
<1> QED
  BY <1>2, <1>3, <1>4 DEF add_hardlink, new

\* get_struct finds a file in use, or nothing.
LEMMA StructIs ==
  ASSUME NEW d \in Image, NEW P, Sound(d, P), NEW path \in Path
  PROVE  /\ get_struct(d, path) \in Inode \cup {0}
         /\ Linkable(d, get_struct(d, path))
         /\ get_struct(d, path) # 0 =>
              \E dir : Leads(d, path, dir) /\ <<dir, Last(path), get_struct(d, path)>> \in Edges(d)
<1> DEFINE dir == FirstBlocksLead(d, path)
           name == Last(path)
           c == Content(d, dir, 0)
           T == {p \in Named(c, name) : c[p].file_type = "reg"}
<1>1. dir \in Dirs(d) \cup {0} /\ (dir # 0 => Leads(d, path, dir)) /\ name \in Name
  BY FirstBlocks, Paths
<1> HIDE DEF dir, name
<1>2. CASE dir = 0 \/ T = {}
  <2>1. get_struct(d, path) = 0
    BY <1>2 DEF get_struct, FileIn, dir, name
  <2> QED
    BY <2>1 DEF Linkable
<1>3. CASE dir # 0 /\ T # {}
  <2>1. dir \in Dirs(d)
    BY <1>1, <1>3
  <2>2. 0 \in Used(d.inode[dir])
    BY <2>1, DirectoryBlocks, SoundParts
  <2>3. \A p \in Named(c, name) : /\ <<dir, <<0, p>>>> \in P /\ p \in Cell
                                  /\ Ent(d, <<dir, <<0, p>>>>) = c[p]
    BY <2>1, <2>2, ShownUnder
  <2>4. T \subseteq Nat
    BY <2>3, BlockSizes
  <2> DEFINE p == Min(T)
  <2>5. p \in T
    BY <1>3, <2>4, MinIn
  <2>6. get_struct(d, path) = c[p].inode
    BY <1>3 DEF get_struct, FileIn, dir, name
  <2> HIDE DEF p, c
  <2>7. c[p].inode \in d.ibm /\ c[p].inode \in Inode /\ d.inode[c[p].inode].i_mode = "reg"
    BY <2>3, <2>5, EntryKinds, ZenonT(30)
  <2>8. <<dir, name, c[p].inode>> \in Edges(d)
    <3> DEFINE x == <<dir, <<0, p>>>>
    <3>1. x \in P /\ x[1] = dir /\ Ent(d, x) = c[p]
      BY <2>3, <2>5
    <3>2. c[p].name = name
      BY <2>5 DEF Named
    <3> HIDE DEF x
    <3> QED
      BY <1>1, <3>1, <3>2, EdgeAt
  <2> QED
    BY <1>1, <1>3, <2>6, <2>7, <2>8 DEF Linkable, dir, name
<1> QED
  BY <1>2, <1>3

\* One number in the inode table is written.
LEMMA SectorsWritten ==
  ASSUME NEW d \in Image, NEW i \in Inode, NEW n \in Nat
  PROVE  [d EXCEPT !.inode[i].i_blocks = n] \in Image
<1> DEFINE q == [d.inode[i] EXCEPT !.i_blocks = n]
           t == [d.inode EXCEPT ![i] = q]
<1>1. d.inode[i] \in InodeType /\ d.inode \in [Inode -> InodeType]
  BY Fields
<1>2. q \in InodeType
  <2> DEFINE r == d.inode[i]
  <2> HIDE DEF r
  <2>1. r \in InodeType => [r EXCEPT !.i_blocks = n] \in InodeType
    BY DEF InodeType
  <2> QED
    BY <1>1, <2>1 DEF r
<1> HIDE DEF q
<1>3. t \in [Inode -> InodeType]
  BY <1>1, <1>2
<1> HIDE DEF t
<1>4. [d EXCEPT !.inode = t] \in Image
  BY <1>3 DEF Image
<1> QED
  BY <1>4 DEF t, q

LEMMA SlotWritten ==
  ASSUME NEW d \in Image, NEW i \in Inode, NEW s \in Slot, NEW b \in Block \cup {-1, 0}
  PROVE  [d EXCEPT !.inode[i].i_block[s] = b] \in Image
<1> DEFINE k == [d.inode[i].i_block EXCEPT ![s] = b]
           q == [d.inode[i] EXCEPT !.i_block = k]
           t == [d.inode EXCEPT ![i] = q]
<1>1. d.inode[i] \in InodeType /\ d.inode \in [Inode -> InodeType]
  BY Fields
<1>2. k \in [Slot -> {-1, 0} \cup Block]
  BY <1>1, InodeFields
<1> HIDE DEF k
<1>3. q \in InodeType
  <2> DEFINE r == d.inode[i]
  <2> HIDE DEF r
  <2>1. r \in InodeType => [r EXCEPT !.i_block = k] \in InodeType
    BY <1>2 DEF InodeType
  <2> QED
    BY <1>1, <2>1 DEF r
<1> HIDE DEF q
<1>4. t \in [Inode -> InodeType]
  BY <1>1, <1>3
<1> HIDE DEF t
<1>5. [d EXCEPT !.inode = t] \in Image
  BY <1>4 DEF Image
<1> QED
  BY <1>5 DEF t, q, k

\* ln's half a block more.
LEMMA HalfGrown ==
  ASSUME NEW d \in Image, NEW dir \in Inode, NEW b \in Block \cup {-1}
  PROVE  LET e == [d EXCEPT !.inode[dir].i_blocks = @ + 1,
                            !.inode[dir].i_block[2] = d.inode[dir].i_block[1],
                            !.inode[dir].i_block[1] = b]
         IN  /\ e \in Image
             /\ b \in Block => Write([e EXCEPT !.bbm = @ \cup {b}], b, Zeros) \in Image
<1> DEFINE n  == d.inode[dir].i_blocks + 1
           m  == d.inode[dir].i_block[1]
           d1 == [d EXCEPT !.inode[dir].i_blocks = n]
           d2 == [d1 EXCEPT !.inode[dir].i_block[2] = m]
           e  == [d2 EXCEPT !.inode[dir].i_block[1] = b]
<1>1. d.inode[dir] \in InodeType
  BY Fields
<1>2. n \in Nat /\ m \in Block \cup {-1, 0} /\ 1 \in Slot /\ 2 \in Slot
  BY <1>1, InodeFields, Slots
<1> HIDE DEF n, m
<1>3. d1 \in Image
  BY <1>2, SectorsWritten
<1> HIDE DEF d1
<1>4. d2 \in Image
  BY <1>2, <1>3, SlotWritten
<1> HIDE DEF d2
<1>5. e \in Image
  BY <1>2, <1>4, SlotWritten
<1> HIDE DEF e
<1>6. ASSUME b \in Block PROVE Write([e EXCEPT !.bbm = @ \cup {b}], b, Zeros) \in Image
  <2> DEFINE f == [e EXCEPT !.bbm = @ \cup {b}]
  <2>1. f \in Image
    BY <1>5, <1>6 DEF Image
  <2> HIDE DEF f
  <2>2. Write(f, b, Zeros) \in Image
    BY <1>6, <2>1, ZerosTyped, Written DEF Rewritten
  <2> QED
    BY <2>2 DEF f
<1> QED
  BY <1>5, <1>6 DEF e, d2, d1, n, m

\* Where mk_dir2 has room for a name: no slot but those in use.
RoomIn(c, name) == Named(c, name) = {} /\ (Stuck(c) \/ new_directory_fits(c))
OpenFor(d, dir, name) == {i \in SlotsLookedAt(d, dir) : RoomIn(Content(d, dir, i), name)}

LEMMA LnNewFits ==
  ASSUME disk \in Image, Good(disk), NEW dir \in Dirs(disk), NEW name \in Name,
         NEW ino \in Inode \cup {0}, Linkable(disk, ino),
         LET open == OpenFor(disk, dir, name)
         IN  ln_new(dir, name, ino, open, Content(disk, dir, IF open = {} THEN 0 ELSE Min(open)))
  PROVE  Fit(disk', damage') /\ (damage' = "none" => Hardlinked(disk, disk', dir, name, ino))
<1> DEFINE open == OpenFor(disk, dir, name)
           i == IF open = {} THEN 0 ELSE Min(open)
           c == Content(disk, dir, i)
           b == find_free_block_index(disk)
           d == [disk EXCEPT !.inode[dir].i_blocks = @ + 1,
                             !.inode[dir].i_block[2] = disk.inode[dir].i_block[1],
                             !.inode[dir].i_block[1] = b]
           harm == IF Has(disk, dir, name) THEN "exists" ELSE "none"
<1>1. Sound(disk, PlacesOf(disk))
  BY DEF Good
<1>2. dir \in Inode /\ Own(disk) /\ Laid(disk, PlacesOf(disk))
  BY <1>1, SoundParts, DirectoryBlocks
<1>3. LooksIn(disk, dir, SlotsLookedAt(disk, dir))
  BY <1>1, SlotsToLookIn
<1>4. b = -1 \/ b \in Block
  BY FreeBlock
<1> HIDE DEF b
<1>5. d \in Image /\ (b \in Block => Write([d EXCEPT !.bbm = @ \cup {b}], b, Zeros) \in Image)
  BY <1>2, <1>4, HalfGrown, Zenon
<1> HIDE DEF d, c, open
<1>6. CASE /\ open # {} /\ ~Stuck(c)
           /\ add_hardlink(disk, disk.inode[dir].i_block[Min(open)], FALSE, name, ino, harm)
  <2>1. open \subseteq Nat
    BY <1>3 DEF LooksIn, open, OpenFor
  <2>2. i \in open
    BY <1>6, <2>1, MinIn
  <2> HIDE DEF i
  <2>3. RoomIn(c, name) /\ i \in SlotsLookedAt(disk, dir)
    BY <2>2 DEF open, OpenFor, c
  <2>4. i \in Used(disk.inode[dir])
    BY <1>3, <1>6, <2>3, ZerosTyped DEF LooksIn, c
  <2>5. new_directory_fits(c)
    BY <1>6, <2>3 DEF RoomIn
  <2>6. disk.inode[dir].i_block[i] \in Block /\ c = disk.block[disk.inode[dir].i_block[i]]
    BY <1>2, <2>4, BlockShows, DirectoryBlocks DEF c
  <2>7. harm = "none" => Enterable(disk, dir, disk.inode[dir].i_block[i], name)
    BY <2>4, <2>5, <2>6 DEF Enterable
  <2>8. add_hardlink(disk, disk.inode[dir].i_block[i], FALSE, name, ino, harm)
    BY <1>6 DEF i
  <2>9. harm \in Damages /\ FALSE \in BOOLEAN
    BY DEF Damages
  <2> HIDE DEF harm
  <2> QED
    BY <2>6, <2>7, <2>8, <2>9, HardlinkFits
<1>7. CASE b = -1 /\ Leaves(d, "full")
  BY <1>5, <1>7 DEF Leaves, Fit, Damages
<1>8. CASE /\ b # -1
           /\ add_hardlink(Write([d EXCEPT !.bbm = @ \cup {b}], b, Zeros), b, FALSE,
                           name, ino, "grown")
  <2>1. b \in Block
    BY <1>4, <1>8
  <2>2. Write([d EXCEPT !.bbm = @ \cup {b}], b, Zeros) \in Image
    BY <1>5, <2>1
  <2> DEFINE e == Write([d EXCEPT !.bbm = @ \cup {b}], b, Zeros)
  <2>3. add_hardlink(e, b, FALSE, name, ino, "grown")
    BY <1>8
  <2> HIDE DEF e
  <2>4. "grown" \in Damages /\ FALSE \in BOOLEAN /\ "grown" # "none" /\ "full" # "none"
    BY DEF Damages
  <2> QED
    BY <2>1, <2>2, <2>3, <2>4, HardlinkFits DEF e
<1> QED
  BY <1>6, <1>7, <1>8 DEF ln_new, b, d, c, open

LEMMA MkDir2Fits ==
  ASSUME disk \in Image, Good(disk), NEW path \in Path, NEW ino \in Inode \cup {0},
         Linkable(disk, ino), mk_dir2(path, ino)
  PROVE  /\ Fit(disk', damage')
         /\ damage' = "none" => \E dir : /\ Leads(disk, path, dir)
                                        /\ Hardlinked(disk, disk', dir, Last(path), ino)
<1> DEFINE slots == [dir \in Inode |-> SlotsLookedAt(disk, dir)]
           at == Reached(disk, path, slots)
           name == path[at.k]
           open == OpenFor(disk, at.dir, name)
<1>1. Sound(disk, PlacesOf(disk))
  BY DEF Good
<1>2. \A dir \in Dirs(disk) : LooksIn(disk, dir, slots[dir])
  BY <1>1, SlotsToLookIn, SoundParts DEF Dirs
<1>3. at.dir \in Dirs(disk) /\ at.k \in 1 .. Len(path)
  BY <1>1, <1>2, LookedUp
<1>4. name \in Name /\ at.dir \in Inode
  BY <1>1, <1>3, Paths, SoundParts DEF Dirs
<1>5. open = {i \in slots[at.dir] : /\ Named(Content(disk, at.dir, i), name) = {}
                                    /\ \/ Stuck(Content(disk, at.dir, i))
                                       \/ new_directory_fits(Content(disk, at.dir, i))}
  BY <1>4 DEF OpenFor, RoomIn
<1>9. at.k = Len(path) => Leads(disk, path, at.dir) /\ name = Last(path)
  BY <1>1, <1>2, ReachedLeads, Paths
<1>6. \/ /\ at.k = Len(path)
         /\ ln_new(at.dir, name, ino, open,
                   Content(disk, at.dir, IF open = {} THEN 0 ELSE Min(open)))
      \/ add_hardlink(disk, disk.inode[at.dir].i_block[0], TRUE, name, ino, "exists")
  <2> HIDE DEF at
  <2> QED
    BY <1>5, ZenonT(30) DEF mk_dir2, at
<1> HIDE DEF at, name
<1>7. CASE /\ at.k = Len(path)
           /\ ln_new(at.dir, name, ino, open,
                     Content(disk, at.dir, IF open = {} THEN 0 ELSE Min(open)))
  <2>1. Fit(disk', damage') /\ (damage' = "none" => Hardlinked(disk, disk', at.dir, name, ino))
    BY <1>3, <1>4, <1>7, LnNewFits
  <2> QED
    BY <1>7, <1>9, <2>1
<1>8. CASE add_hardlink(disk, disk.inode[at.dir].i_block[0], TRUE, name, ino, "exists")
  <2>1. disk.inode[at.dir].i_block[0] \in Block
    BY <1>1, <1>3, SoundParts, DirectoryBlocks
  <2>2. "exists" \in Damages /\ TRUE \in BOOLEAN /\ "exists" # "none" /\ "full" # "none"
    BY DEF Damages
  <2> QED
    BY <1>4, <1>8, <2>1, <2>2, HardlinkFits
<1> QED
  BY <1>6, <1>7, <1>8

LEMMA LnFits ==
  ASSUME disk \in Image, Good(disk), NEW path \in Path
  PROVE  /\ \A target \in Path : ext2_ln(target, path) =>
              Fit(disk', damage') /\ (damage' = "none" => Joined(disk, disk', path, target))
         /\ ext2_ln_s(path) =>
              Fit(disk', damage') /\ (damage' = "none" => Made(disk, disk', path, "lnk", 1))
<1>1. Sound(disk, PlacesOf(disk))
  BY DEF Good
<1>2. ASSUME NEW target \in Path, ext2_ln(target, path)
      PROVE  Fit(disk', damage') /\ (damage' = "none" => Joined(disk, disk', path, target))
  <2> DEFINE ino == get_struct(disk, target)
  <2>1. /\ ino \in Inode \cup {0} /\ Linkable(disk, ino)
        /\ ino # 0 => \E dir1 : Leads(disk, target, dir1) /\ <<dir1, Last(target), ino>> \in Edges(disk)
    BY <1>1, StructIs
  <2>2. mk_dir2(path, ino) /\ ino # 0
    BY <1>2 DEF ext2_ln
  <2> HIDE DEF ino
  <2>3. /\ Fit(disk', damage')
        /\ damage' = "none" => \E dir : /\ Leads(disk, path, dir)
                                       /\ Hardlinked(disk, disk', dir, Last(path), ino)
    BY <2>1, <2>2, MkDir2Fits
  <2> QED
    BY <2>1, <2>2, <2>3 DEF Hardlinked, Joined
<1>3. ASSUME ext2_ln_s(path)
      PROVE  Fit(disk', damage') /\ (damage' = "none" => Made(disk, disk', path, "lnk", 1))
  <2>1. /\ Fit(disk', damage')
        /\ damage' = "none" => \E dir : /\ Leads(disk, path, dir)
                                       /\ Hardlinked(disk, disk', dir, Last(path), 0)
    BY <1>3, MkDir2Fits DEF ext2_ln_s, Linkable
  <2> QED
    BY <2>1 DEF Hardlinked, Made
<1> QED
  BY <1>2, <1>3

\* The inode of a new directory, with its block or as it was.
LEMMA DirectoryInode ==
  ASSUME NEW r \in InodeType, NEW free \in Block
  PROVE  /\ [r EXCEPT !.i_mode = "dir", !.i_links_count = 2, !.i_blocks = 2, !.i_dtime = FALSE]
              \in InodeType
         /\ LET q == [r EXCEPT !.i_mode = "dir", !.i_links_count = 2, !.i_blocks = 2,
                               !.i_dtime = FALSE, !.i_block[0] = free]
            IN  /\ q \in InodeType /\ q.i_mode = "dir" /\ q.i_links_count = 2 /\ q.i_blocks = 2
                /\ ~q.i_dtime /\ q.i_block[0] = free
<1>1. [r EXCEPT !.i_mode = "dir", !.i_links_count = 2, !.i_blocks = 2, !.i_dtime = FALSE] \in InodeType
  BY DEF InodeType
<1> DEFINE k == [r.i_block EXCEPT ![0] = free]
           q == [r EXCEPT !.i_mode = "dir", !.i_links_count = 2, !.i_blocks = 2,
                          !.i_dtime = FALSE, !.i_block = k]
<1>2. r.i_block \in [Slot -> {-1, 0} \cup Block]
  BY InodeFields
<1>3. k \in [Slot -> {-1, 0} \cup Block] /\ k[0] = free
  BY <1>2, Slots
<1>4. /\ q \in InodeType /\ q.i_mode = "dir" /\ q.i_links_count = 2 /\ q.i_blocks = 2
      /\ q.i_dtime = FALSE /\ q.i_block = k
  <2> HIDE DEF k
  <2> QED
    BY <1>3 DEF InodeType
<1>5. q = [r EXCEPT !.i_mode = "dir", !.i_links_count = 2, !.i_blocks = 2,
                    !.i_dtime = FALSE, !.i_block[0] = free]
  BY DEF InodeType
<1> HIDE DEF q
<1> QED
  BY <1>1, <1>3, <1>4, <1>5

\* mkdir with an inode and a block: the entry first, then the rest.
AddedTo(e, f, dir, ino, free) ==
  /\ f \in Image
  /\ f.ibm = e.ibm \cup {ino} /\ f.bbm = e.bbm \cup {free}
  /\ f.block[free] = NewDirectory(ino, dir) /\ \A a \in Block \ {free} : f.block[a] = e.block[a]
  /\ f.inode[ino].i_mode = "dir" /\ f.inode[ino].i_links_count = 2
  /\ f.inode[ino].i_blocks = 2 /\ ~f.inode[ino].i_dtime /\ f.inode[ino].i_block[0] = free
  /\ f.inode[dir].i_mode = e.inode[dir].i_mode /\ f.inode[dir].i_blocks = e.inode[dir].i_blocks
  /\ f.inode[dir].i_block = e.inode[dir].i_block /\ f.inode[dir].i_dtime = e.inode[dir].i_dtime
  /\ f.inode[dir].i_links_count = e.inode[dir].i_links_count + 1
  /\ \A i \in Inode \ {ino, dir} : f.inode[i] = e.inode[i]

LEMMA AddDirectoryFields ==
  ASSUME NEW d \in Image, NEW b \in Block, NEW name \in Name, NEW dir \in Inode,
         NEW ino \in Inode \ {dir}, NEW free \in Block
  PROVE  AddedTo(Write(d, b, Inserted(d.block[b], name, "dir", ino)),
                 AddDirectory(d, b, name, dir, ino, free), dir, ino, free)
<1> DEFINE c == Inserted(d.block[b], name, "dir", ino)
           m == NewDirectory(ino, dir)
           e == Write(d, b, c)
           h == Write(e, free, m)
           q == [h.inode[ino] EXCEPT !.i_mode = "dir", !.i_links_count = 2, !.i_blocks = 2,
                                     !.i_dtime = FALSE, !.i_block[0] = free]
           g == [h EXCEPT !.bbm = h.bbm \cup {free}, !.ibm = h.ibm \cup {ino},
                          !.free_blocks = h.free_blocks - 1, !.free_inodes = h.free_inodes - 1,
                          !.inode = [h.inode EXCEPT ![ino] = q]]
           f == AddDirectory(d, b, name, dir, ino, free)
<1>1. f = Linked(g, dir)
  <2> HIDE DEF c, m
  <2>1. f = [d EXCEPT !.block[b] = c, !.block[free] = m,
                      !.bbm = @ \cup {free}, !.ibm = @ \cup {ino},
                      !.free_blocks = @ - 1, !.free_inodes = @ - 1,
                      !.inode[ino] = [@ EXCEPT !.i_mode = "dir", !.i_links_count = 2, !.i_blocks = 2,
                                               !.i_dtime = FALSE, !.i_block[0] = free],
                      !.inode[dir].i_links_count = @ + 1]
    BY DEF AddDirectory, c, m
  <2> HIDE DEF f
  <2> QED
    BY <2>1, ZenonT(30) DEF Linked, Write, Image
<1>2. d.block[b] \in [Cell -> EntryType]
  BY Fields
<1>3. c \in [Cell -> EntryType] /\ m \in [Cell -> EntryType]
  BY <1>2, AddedTyped, NewDirectoryTyped
<1> HIDE DEF c, m
<1>4. Rewritten(d, e, b, c)
  BY <1>3, Written
<1> HIDE DEF e
<1>5. e \in Image
  BY <1>4 DEF Rewritten
<1>6. Rewritten(e, h, free, m)
  BY <1>3, <1>5, Written
<1> HIDE DEF h
<1>7. h \in Image
  BY <1>6 DEF Rewritten
<1>8. h.inode[ino] \in InodeType
  BY <1>7, Fields
<1>9. /\ q \in InodeType /\ q.i_mode = "dir" /\ q.i_links_count = 2 /\ q.i_blocks = 2
      /\ ~q.i_dtime /\ q.i_block[0] = free
  BY <1>8, DirectoryInode, ZenonT(30)
<1> HIDE DEF q
<1>10. NewFields(h, g, ino, q, h.bbm \cup {free}, h.ibm \cup {ino})
  <2>1. /\ h.bbm \cup {free} \in SUBSET Block /\ h.ibm \cup {ino} \in SUBSET Inode
        /\ h.free_blocks - 1 \in Int /\ h.free_inodes - 1 \in Int
    BY <1>7, Fields
  <2> QED
    BY <1>7, <1>9, <2>1, InodeWritten, Zenon
<1> HIDE DEF g
<1>11. g \in Image
  BY <1>10 DEF NewFields
<1>12. /\ NewFields(g, f, dir, f.inode[dir], g.bbm, g.ibm)
       /\ f.inode[dir].i_mode = g.inode[dir].i_mode
       /\ f.inode[dir].i_blocks = g.inode[dir].i_blocks
       /\ f.inode[dir].i_block = g.inode[dir].i_block
       /\ f.inode[dir].i_dtime = g.inode[dir].i_dtime
       /\ f.inode[dir].i_links_count = g.inode[dir].i_links_count + 1
  BY <1>1, <1>11, LinkedFields
<1> HIDE DEF f
<1>13. AddedTo(e, f, dir, ino, free)
  BY <1>6, <1>9, <1>10, <1>12 DEF m, Rewritten, NewFields, AddedTo
<1> QED
  BY <1>13 DEF e, f, c

\* Block b of image d takes an entry of this name for directory dir; d0 is the
\* image before the directory was enlarged.
Opens(d0, dir, name, e, type, ino) ==
  \E x : Opened(d0, PlacesOf(d0), e, x, dir, Entry(name, type, ino, 0))
OpenTo(d0, d, b, dir, name) ==
  /\ d0 \in Image /\ Good(d0) /\ dir \in Dirs(d0) /\ name \in Name
  /\ NameNew(d0, PlacesOf(d0), dir, name)
  /\ \A type \in {"reg", "dir", "lnk"}, ino \in Inode \cup {-1} :
       Opens(d0, dir, name, Write(d, b, Inserted(d.block[b], name, type, ino)), type, ino)

LEMMA EnterableOpenTo ==
  ASSUME NEW d \in Image, NEW dir, NEW b, NEW name, Enterable(d, dir, b, name)
  PROVE  OpenTo(d, d, b, dir, name)
<1>1. ASSUME NEW type \in {"reg", "dir", "lnk"}, NEW ino \in Inode \cup {-1}
      PROVE  /\ Opens(d, dir, name, Write(d, b, Inserted(d.block[b], name, type, ino)), type, ino)
             /\ NameNew(d, PlacesOf(d), dir, name)
  BY EnterableOpens DEF Opens
<1>2. "reg" \in {"reg", "dir", "lnk"} /\ -1 \in Inode \cup {-1}
  OBVIOUS
<1>3. NameNew(d, PlacesOf(d), dir, name)
  BY <1>1, <1>2
<1> QED
  BY <1>1, <1>3, Zenon DEF OpenTo, Enterable

LEMMA GrownOpenTo ==
  ASSUME NEW d \in Image, Good(d), NEW dir \in Dirs(d), NEW name \in Name, ~Has(d, dir, name),
         BlockCount(d, dir) = 1, d.inode[dir].i_block[2] = 0, find_free_block_index(d) # -1
  PROVE  OpenTo(d, Grown(d, dir, 1), find_free_block_index(d), dir, name)
<1> DEFINE g == Grown(d, dir, 1)
           b == find_free_block_index(d)
<1>1. Sound(d, PlacesOf(d)) /\ Count(d.inode[dir]) = 1
  BY DEF Good, Count, BlockCount
<1>2. NameNew(d, PlacesOf(d), dir, name)
  BY <1>1, NoSuchName
<1>3. ASSUME NEW type \in {"reg", "dir", "lnk"}, NEW ino \in Inode \cup {-1}
      PROVE  Opens(d, dir, name, Write(g, b, Inserted(g.block[b], name, type, ino)), type, ino)
  BY <1>1, EnteredGrown DEF Opens
<1> HIDE DEF g, b
<1>4. OpenTo(d, g, b, dir, name)
  BY <1>2, <1>3 DEF OpenTo
<1> QED
  BY <1>4 DEF g, b

\* add_directory, whatever of it comes to an end.
LEMMA AddDirectoryFits ==
  ASSUME NEW d \in Image, NEW b \in Block, NEW name \in Name, NEW dir \in d.ibm,
         NEW harm \in Damages, NEW d0, harm = "none" => OpenTo(d0, d, b, dir, name),
         add_directory(d, b, name, dir, harm)
  PROVE  Fit(disk', damage') /\ (damage' = "none" => Adds(d0, disk', dir, name, "dir", 0))
<1> DEFINE ino  == find_invalid_indode_index(d)
           free == find_free_block_index(d)
           c == d.block[b]
           n == Inserted(c, name, "dir", ino)
           q == [d.inode[ino] EXCEPT !.i_mode = "dir", !.i_links_count = 2,
                                     !.i_blocks = 2, !.i_dtime = FALSE]
           part == [d EXCEPT !.block[b] = n, !.ibm = @ \cup {ino}, !.free_inodes = @ - 1,
                             !.inode[ino] = q]
           f == AddDirectory(d, b, name, dir, ino, free)
<1>1. ino = -1 \/ ino \in Inode \ d.ibm
  BY FreeInode
<1>2. free = -1 \/ free \in Block \ d.bbm
  BY FreeBlock
<1>3. c \in [Cell -> EntryType] /\ d.ibm \subseteq Inode /\ dir \in Inode
  BY Fields
<1>4. CASE ino = -1 /\ Leaves(Write(d, b, Trimmed(c)), "full")
  <2>1. Trimmed(c) \in [Cell -> EntryType]
    BY <1>3, TrimmedTyped
  <2>2. Write(d, b, Trimmed(c)) \in Image
    BY <2>1, Written DEF Rewritten
  <2> QED
    BY <1>4, <2>2 DEF Leaves, Fit, Damages
<1>5. CASE ino # -1 /\ free = -1 /\ Leaves(part, "full")
  <2>1. ino \in Inode
    BY <1>1, <1>5
  <2>2. n \in [Cell -> EntryType] /\ d.inode[ino] \in InodeType
    BY <1>3, <2>1, AddedTyped, Fields
  <2>3. q \in InodeType
    BY <2>2, Numbers, DirectoryInode, Zenon
  <2> HIDE DEF n, q, ino
  <2>4. part \in Image
    <3>1. /\ d.ibm \cup {ino} \in SUBSET Inode /\ d.free_inodes - 1 \in Int
          /\ [d.inode EXCEPT ![ino] = q] \in [Inode -> InodeType]
          /\ [d.block EXCEPT ![b] = n] \in [Block -> [Cell -> EntryType]]
      BY <1>3, <2>1, <2>2, <2>3, Fields
    <3> DEFINE ib == d.ibm \cup {ino}
               fi == d.free_inodes - 1
               t  == [d.inode EXCEPT ![ino] = q]
               u  == [d.block EXCEPT ![b] = n]
    <3>2. part = [d EXCEPT !.block = u, !.ibm = ib, !.free_inodes = fi, !.inode = t]
      BY DEF Image
    <3> HIDE DEF ib, fi, t, u, part
    <3> QED
      BY <3>1, <3>2 DEF Image, ib, fi, t, u
  <2> HIDE DEF part
  <2> QED
    BY <1>5, <2>4 DEF Leaves, Fit, Damages
<1>6. CASE ino # -1 /\ free # -1 /\ Leaves(f, harm)
  <2> DEFINE e == Write(d, b, n)
  <2>1. ino \in Inode /\ ino \notin d.ibm /\ free \in Block /\ free \notin d.bbm /\ ino # dir
    BY <1>1, <1>2, <1>6
  <2>2. n \in [Cell -> EntryType]
    BY <1>3, <2>1, AddedTyped
  <2>3. AddedTo(e, f, dir, ino, free)
    BY <1>3, <2>1, AddDirectoryFields
  <2> HIDE DEF f, ino, free
  <2>4. Rewritten(d, e, b, n)
    BY <2>2, Written
  <2>5. f \in Image
    BY <2>3 DEF AddedTo
  <2>6. ASSUME OpenTo(d0, d, b, dir, name)
        PROVE  Good(f) /\ Adds(d0, f, dir, name, "dir", 0)
    <3> DEFINE P == PlacesOf(d0)
    <3>1. Opens(d0, dir, name, e, "dir", ino)
      BY <2>1, <2>6 DEF OpenTo
    <3> HIDE DEF e, n
    <3>2. PICK x : Opened(d0, P, e, x, dir, Entry(name, "dir", ino, 0))
      BY <3>1 DEF Opens
    <3>3. d0 \in Image /\ Sound(d0, P) /\ NameNew(d0, P, dir, name) /\ dir \in Dirs(d0)
      BY <2>6 DEF OpenTo, Good
    <3>4. e.ibm = d0.ibm /\ e.ibm = d.ibm /\ e.bbm = d.bbm
      BY <2>4, <3>2 DEF Opened, Rewritten
    <3>5. \A i \in Inode \ {ino} : Kept(f.inode[i], e.inode[i])
      <4>1. Kept(f.inode[dir], e.inode[dir])
        <5>1. e.inode[dir].i_mode = "dir"
          BY <1>3, <3>2, <3>3 DEF Opened, Dirs
        <5> QED
          BY <2>3, <5>1 DEF AddedTo, Kept
      <4>2. \A i \in Inode \ {ino, dir} : Kept(f.inode[i], e.inode[i])
        BY <2>3 DEF AddedTo, Kept
      <4> QED
        BY <4>1, <4>2
    <3>6. DirectoryAdded(d0, e, f, dir, ino, free)
      <4>1. \A i \in Inode \ {ino, dir} : f.inode[i].i_links_count = e.inode[i].i_links_count
        BY <2>3 DEF AddedTo
      <4> QED
        BY <2>1, <2>3, <3>3, <3>4, <3>5, <4>1 DEF AddedTo, DirectoryAdded
    <3> HIDE DEF P
    <3>7. /\ Sound(f, (P \cup {x}) \cup {Dot(ino), DotDot(ino)})
          /\ Gives(d0, f, dir, name, ino)
      BY <3>2, <3>3, <3>6, SoundWithDirectory
    <3>8. Held(f.inode[ino]) = [type |-> "dir", size |-> 0]
      BY <2>3 DEF AddedTo, Held
    <3> QED
      BY <2>1, <2>5, <3>4, <3>7, <3>8, GoodWhenSound DEF Adds
  <2> QED
    BY <1>6, <2>5, <2>6 DEF Leaves, Fit
<1> QED
  <2> HIDE DEF f
  <2> QED
    BY <1>4, <1>5, <1>6 DEF add_directory, f

\* mkdir leaves a file system, or the damage it reports.
LEMMA NewDirectoryFits ==
  ASSUME disk \in Image, Good(disk), NEW dir \in Dirs(disk), NEW name \in Name,
         mk_dir(dir, Content(disk, dir, 0), name)
  PROVE  Fit(disk', damage') /\ (damage' = "none" => Adds(disk, disk', dir, name, "dir", 0))
<1> DEFINE c == Content(disk, dir, 0)
           b == find_free_block_index(disk)
           k == disk.inode[dir].i_block[0]
           harm == IF Has(disk, dir, name) THEN "exists" ELSE "none"
           more == GrownHarm(disk, dir, harm)
           g == Grown(disk, dir, 1)
<1>1. Sound(disk, PlacesOf(disk))
  BY DEF Good
<1>2. dir \in Inode /\ dir \in disk.ibm /\ 0 \in Used(disk.inode[dir]) /\ k \in Block /\ c = disk.block[k]
  <2>1. Own(disk) /\ Laid(disk, PlacesOf(disk))
    BY <1>1, SoundParts
  <2>2. 0 \in Used(disk.inode[dir])
    BY <2>1, DirectoryBlocks
  <2> QED
    BY <2>1, <2>2, DirectoryBlocks, BlockShows
<1>3. b = -1 \/ b \in Block
  BY FreeBlock
<1>4. harm \in Damages /\ more \in Damages
  BY DEF Damages, GrownHarm
<1>5. harm = "none" => ~Has(disk, dir, name)
  OBVIOUS
<1>6. more = "none" => ~Has(disk, dir, name) /\ disk.inode[dir].i_block[2] = 0
  BY DEF GrownHarm
<1> HIDE DEF harm, more, c
<1>7. CASE new_directory_fits(c) /\ add_directory(disk, k, name, dir, harm)
  <2>1. ASSUME harm = "none" PROVE OpenTo(disk, disk, k, dir, name)
    <3>1. Enterable(disk, dir, k, name)
      BY <1>2, <1>5, <1>7, <2>1 DEF Enterable
    <3> QED
      BY <3>1, EnterableOpenTo
  <2> QED
    BY <1>2, <1>4, <1>7, <2>1, AddDirectoryFits
<1>8. CASE b = -1 /\ Leaves([disk EXCEPT !.inode[dir].i_block[1] = -1], "full")
  <2>1. -1 \in Block \cup {-1, 0} /\ 1 \in Slot
    BY Slots
  <2>2. [disk EXCEPT !.inode[dir].i_block[1] = -1] \in Image
    BY <1>2, <2>1, SlotWritten
  <2> QED
    BY <1>8, <2>2 DEF Leaves, Fit, Damages
<1>9. CASE BlockCount(disk, dir) = 1 /\ b # -1 /\ add_directory(g, b, name, dir, more)
  <2>1. GrownTo(disk, g, dir, 1, b)
    BY <1>2, Slots, GrownFields
  <2>2. g \in Image /\ dir \in g.ibm
    BY <1>2, <2>1 DEF GrownTo
  <2>3. ASSUME more = "none" PROVE OpenTo(disk, g, b, dir, name)
    BY <1>6, <1>9, <2>3, GrownOpenTo
  <2>4. b \in Block
    BY <1>3, <1>9
  <2> HIDE DEF g, b
  <2> QED
    BY <1>4, <1>9, <2>2, <2>3, <2>4, AddDirectoryFits
<1> QED
  BY <1>7, <1>8, <1>9 DEF mk_dir, harm, more, c

LEMMA MkdirFits ==
  ASSUME disk \in Image, Good(disk), NEW path \in Path, ext2_mkdir(path)
  PROVE  Fit(disk', damage') /\ (damage' = "none" => Made(disk, disk', path, "dir", 0))
<1>1. Sound(disk, PlacesOf(disk))
  BY DEF Good
<1>2. /\ FirstBlocksLead(disk, path) \in Dirs(disk) \cup {0} /\ Last(path) \in Name
      /\ FirstBlocksLead(disk, path) # 0 => Leads(disk, path, FirstBlocksLead(disk, path))
  BY <1>1, FirstBlocks, Paths
<1>3. PICK dir \in {FirstBlocksLead(disk, path)} \ {0} : mk_dir(dir, Content(disk, dir, 0), Last(path))
  BY DEF ext2_mkdir
<1>4. Fit(disk', damage') /\ (damage' = "none" => Adds(disk, disk', dir, Last(path), "dir", 0))
  BY <1>2, <1>3, NewDirectoryFits
<1> QED
  BY <1>2, <1>3, <1>4 DEF Made

-----------------------------------------------------------------------------
(* cp takes its blocks one by one.                                         *)

LEMMA FreeBlockIn ==
  ASSUME NEW d \in Image, NEW S \in SUBSET Block
  PROVE  LET b == find_free_block_index([d EXCEPT !.bbm = S])
         IN  b = -1 \/ b \in Block \ S
<1>1. [d EXCEPT !.bbm = S].bbm = S
  BY DEF Image
<1> QED
  BY <1>1, FreeBlock

TakenBy(d, size, T) ==
  /\ T \in [0 .. size -> SUBSET Block] /\ T[0] = d.bbm
  /\ \A k \in 1 .. size : T[k] = T[k - 1] \cup ({FileBlock(d, size, k - 1)} \cap Block)
  /\ \A k \in 0 .. size : FileBlock(d, size, k) = -1 \/ FileBlock(d, size, k) \in Block \ T[k]

LEMMA TakenIs ==
  ASSUME NEW d \in Image, NEW size \in Nat
  PROVE  TakenBy(d, size, Taken(d, size))
<1> DEFINE D == SUBSET Block
           Next1(S) == find_free_block_index([d EXCEPT !.bbm = S])
           On(S) == S \cup ({Next1(S)} \cap Block)
           Turn(at, k) == IF k = 0 THEN d.bbm ELSE On(at[k - 1])
           Way(at) == at = [k \in 0 .. size |-> Turn(at, k)]
           W == CHOOSE at : Way(at)
           F == [k \in 0 .. size |-> [S \in D |-> On(S)]]
<1>1. 0 \in Nat /\ 0 <= size /\ d.bbm \in D
  BY Fields
<1>2. \A S \in D : On(S) \in D /\ (Next1(S) = -1 \/ Next1(S) \in Block \ S)
  BY FreeBlockIn
<1>3. F \in [0 .. size -> [D -> D]] /\ \A k \in 0 .. size, S \in D : F[k][S] = On(S)
  <2> HIDE DEF D, On
  <2> QED
    BY <1>2
<1>4. Taken(d, size) = W
  BY DEF Taken
<1>5. \A k : FileBlock(d, size, k) = Next1(Taken(d, size)[k])
  BY DEF FileBlock
<1> HIDE DEF F, On, D, Next1
<1>6. PICK f \in [0 .. size -> D] : Follows(f, 0, size, d.bbm, F)
  BY <1>1, <1>3, Iterate
<1>7. ASSUME NEW k \in 0 .. size PROVE f[k] = Turn(f, k)
  <2>1. CASE k = 0
    BY <1>6, <2>1 DEF Follows
  <2>2. CASE k # 0
    <3>1. k \in 0 + 1 .. size /\ k - 1 \in 0 .. size
      BY <2>2
    <3> QED
      BY <1>3, <1>6, <2>2, <3>1 DEF Follows
  <2> QED
    BY <2>1, <2>2
<1>8. Way(f)
  <2> HIDE DEF Turn
  <2>1. f = [k \in 0 .. size |-> f[k]]
    BY <1>6
  <2> QED
    BY <1>7, <2>1
<1>9. Way(W)
  <2> HIDE DEF Way
  <2> QED
    BY <1>8
<1> HIDE DEF W
<1>10. \A k \in 0 .. size : W[k] = Turn(W, k)
  BY <1>9
<1>11. W = [k \in 0 .. size |-> W[k]]
  <2>1. \E G : W = [k \in 0 .. size |-> G[k]]
    <3>1. W = [k \in 0 .. size |-> [k1 \in 0 .. size |-> Turn(W, k1)][k]]
      BY <1>9
    <3> QED
      BY <3>1
  <2> QED
    BY <2>1
<1> DEFINE T == {k \in 0 .. size : W[k] \in D}
<1>12. 0 \in T
  BY <1>1, <1>10
<1>13. \A k \in 0 + 1 .. size : k - 1 \in T => k \in T
  <2> SUFFICES ASSUME NEW k \in 0 + 1 .. size, W[k - 1] \in D PROVE k \in 0 .. size /\ W[k] \in D
    OBVIOUS
  <2>1. k \in 0 .. size /\ k # 0
    OBVIOUS
  <2> QED
    BY <1>2, <1>10, <2>1
<1>14. 0 .. size \subseteq T
  <2> HIDE DEF T
  <2> QED
    BY <1>1, <1>12, <1>13, StepByStep
<1>15. W \in [0 .. size -> D]
  BY <1>11, <1>14
<1>16. \A k \in 1 .. size : W[k] = On(W[k - 1])
  BY <1>10
<1> HIDE DEF Turn, Way, T
<1>17. \A k \in 1 .. size : W[k] = W[k - 1] \cup ({FileBlock(d, size, k - 1)} \cap Block)
  BY <1>4, <1>5, <1>16 DEF On
<1>18. \A k \in 0 .. size : FileBlock(d, size, k) = -1 \/ FileBlock(d, size, k) \in Block \ W[k]
  BY <1>2, <1>4, <1>5, <1>15
<1>19. W[0] = d.bbm
  BY <1>10 DEF Turn
<1> QED
  BY <1>4, <1>15, <1>17, <1>18, <1>19 DEF TakenBy, D

\* With enough of them they are all different, and all that is marked.
LEMMA EnoughBlocks ==
  ASSUME NEW d \in Image, NEW size \in Nat, NEW T, NEW B, 
         T \in [0 .. size -> SUBSET Block], T[0] = d.bbm,
         \A k \in 1 .. size : T[k] = T[k - 1] \cup {B[k - 1]},
         \A k \in 0 .. size - 1 : B[k] \in Block \ T[k]
  PROVE  /\ T[size] = d.bbm \cup {B[k] : k \in 0 .. size - 1}
         /\ \A k \in 0 .. size - 1 : B[k] \in Block \ d.bbm
         /\ \A j, k \in 0 .. size - 1 : B[j] = B[k] => j = k
<1> DEFINE Marked(n) == T[n] = d.bbm \cup {B[k] : k \in 0 .. n - 1}
           M == {n \in 0 .. size : Marked(n)}
<1>1. 0 \in M
  OBVIOUS
<1>2. \A n \in 0 + 1 .. size : n - 1 \in M => n \in M
  <2> SUFFICES ASSUME NEW n \in 0 + 1 .. size, Marked(n - 1) PROVE Marked(n)
    OBVIOUS
  <2>1. n \in 1 .. size /\ 0 .. n - 1 = (0 .. (n - 1) - 1) \cup {n - 1}
    OBVIOUS
  <2>2. {B[k] : k \in 0 .. n - 1} = {B[k] : k \in 0 .. (n - 1) - 1} \cup {B[n - 1]}
    BY <2>1
  <2>3. T[n] = T[n - 1] \cup {B[n - 1]}
    BY <2>1
  <2> QED
    BY <2>2, <2>3
<1>3. 0 .. size \subseteq M
  <2> HIDE DEF M
  <2> QED
    BY <1>1, <1>2, StepByStep
<1>4. \A n \in 0 .. size : Marked(n)
  BY <1>3
<1>5. size \in 0 .. size
  OBVIOUS
<1>6. \A j, k \in 0 .. size - 1 : j < k => B[j] # B[k]
  <2> SUFFICES ASSUME NEW j \in 0 .. size - 1, NEW k \in 0 .. size - 1, j < k PROVE B[j] # B[k]
    OBVIOUS
  <2>1. k \in 0 .. size /\ j \in 0 .. k - 1
    OBVIOUS
  <2>2. B[j] \in T[k]
    BY <1>4, <2>1
  <2> QED
    BY <2>2
<1>7. \A j, k \in 0 .. size - 1 : B[j] = B[k] => j = k
  BY <1>6
<1>8. \A k \in 0 .. size - 1 : B[k] \in Block \ d.bbm
  BY <1>4
<1> QED
  BY <1>4, <1>5, <1>7, <1>8

\* The blocks of a file of that size.
Blocks(d, size) == {FileBlock(d, size, k) : k \in 0 .. size - 1}
Enough(d, size) == \A k \in 0 .. size - 1 : FileBlock(d, size, k) # -1

LEMMA TakenEnough ==
  ASSUME NEW d \in Image, NEW size \in Nat
  PROVE  /\ Taken(d, size)[size] \subseteq Block
         /\ \A k \in 0 .. size - 1 : FileBlock(d, size, k) \in Block \cup {-1}
         /\ Enough(d, size) =>
              /\ Taken(d, size)[size] = d.bbm \cup Blocks(d, size)
              /\ \A k \in 0 .. size - 1 : FileBlock(d, size, k) \in Block \ d.bbm
              /\ \A j, k \in 0 .. size - 1 : FileBlock(d, size, j) = FileBlock(d, size, k) => j = k
<1> DEFINE T == Taken(d, size)
           B == [k \in 0 .. size - 1 |-> FileBlock(d, size, k)]
<1>1. TakenBy(d, size, T)
  BY TakenIs
<1> HIDE DEF T
<1>2. T[size] \subseteq Block /\ \A k \in 0 .. size - 1 : FileBlock(d, size, k) \in Block \cup {-1}
  BY <1>1 DEF TakenBy
<1>3. ASSUME Enough(d, size)
      PROVE  /\ T[size] = d.bbm \cup Blocks(d, size)
             /\ \A k \in 0 .. size - 1 : FileBlock(d, size, k) \in Block \ d.bbm
             /\ \A j, k \in 0 .. size - 1 : FileBlock(d, size, j) = FileBlock(d, size, k) => j = k
  <2>1. \A k \in 0 .. size - 1 : B[k] = FileBlock(d, size, k) /\ B[k] \in Block \ T[k]
    BY <1>1, <1>3 DEF TakenBy, Enough
  <2>2. T \in [0 .. size -> SUBSET Block] /\ T[0] = d.bbm
    BY <1>1 DEF TakenBy
  <2>3. \A k \in 1 .. size : T[k] = T[k - 1] \cup {B[k - 1]}
    <3> SUFFICES ASSUME NEW k \in 1 .. size PROVE T[k] = T[k - 1] \cup {B[k - 1]}
      OBVIOUS
    <3>1. k - 1 \in 0 .. size - 1
      OBVIOUS
    <3> QED
      BY <1>1, <2>1, <3>1 DEF TakenBy
  <2> HIDE DEF B
  <2>4. /\ T[size] = d.bbm \cup {B[k] : k \in 0 .. size - 1}
        /\ \A k \in 0 .. size - 1 : B[k] \in Block \ d.bbm
        /\ \A j, k \in 0 .. size - 1 : B[j] = B[k] => j = k
    BY <2>1, <2>2, <2>3, EnoughBlocks, SMTT(30)
  <2>5. {B[k] : k \in 0 .. size - 1} = Blocks(d, size)
    BY <2>1 DEF Blocks
  <2> QED
    BY <2>1, <2>4, <2>5
<1> QED
  BY <1>2, <1>3 DEF T

\* The inode and the image that CopyBlocks leaves, by the blocks w of the file.
EmptyFile(r, w) == [r EXCEPT !.i_mode = "reg", !.i_links_count = 0, !.i_blocks = 0,
                             !.i_dtime = FALSE, !.i_block = w]
WholeFile(r, w, n) == [EmptyFile(r, w) EXCEPT !.i_blocks = n, !.i_links_count = 1]

LEMMA CopyInode ==
  ASSUME NEW r \in InodeType, NEW w \in [Slot -> {-1, 0} \cup Block], NEW n \in Nat
  PROVE  /\ EmptyFile(r, w) \in InodeType /\ WholeFile(r, w, n) \in InodeType
         /\ WholeFile(r, w, n).i_mode = "reg" /\ WholeFile(r, w, n).i_links_count = 1
         /\ WholeFile(r, w, n).i_blocks = n
         /\ ~WholeFile(r, w, n).i_dtime /\ WholeFile(r, w, n).i_block = w
         /\ EmptyFile(r, w).i_mode = "reg" /\ EmptyFile(r, w).i_blocks = 0
<1> DEFINE file == [r EXCEPT !.i_mode = "reg", !.i_links_count = 0, !.i_blocks = 0,
                             !.i_dtime = FALSE, !.i_block = w]
<1>1. /\ file \in InodeType /\ file.i_mode = "reg" /\ file.i_dtime = FALSE /\ file.i_block = w
      /\ file.i_blocks = 0
  BY DEF InodeType
<1> HIDE DEF file
<1> DEFINE full == [file EXCEPT !.i_blocks = n, !.i_links_count = 1]
<1>2. /\ full \in InodeType /\ full.i_mode = "reg" /\ full.i_links_count = 1
      /\ full.i_blocks = n /\ full.i_dtime = FALSE /\ full.i_block = w
  BY <1>1 DEF InodeType
<1> QED
  BY <1>1, <1>2 DEF file, EmptyFile, WholeFile

Copied(d, f, ino, size) ==
  /\ NewFields(d, f, ino, f.inode[ino], d.bbm \cup Blocks(d, size), d.ibm \cup {ino})
  /\ f.inode[ino].i_mode = "reg" /\ f.inode[ino].i_links_count = 1
  /\ f.inode[ino].i_blocks = 2 * size /\ ~f.inode[ino].i_dtime
  /\ \A k \in 0 .. size - 1 : f.inode[ino].i_block[k] = FileBlock(d, size, k)

\* The inode that is left where the blocks do not suffice has none.
Emptied(d, f, ino) ==
  /\ f.inode[ino].i_mode = "reg" /\ f.inode[ino].i_blocks = 0
  /\ \A i \in Inode \ {ino} : f.inode[i] = d.inode[i]

LEMMA CopyBlocksFields ==
  ASSUME NEW d \in Image, NEW ino \in Inode, NEW size \in Size, NEW harm,
         CopyBlocks(d, ino, size, harm)
  PROVE  /\ disk' \in Image
         /\ damage' = "full" \/ (damage' = harm /\ Enough(d, size) /\ Copied(d, disk', ino, size))
         /\ Emptied(d, disk', ino) \/ (Enough(d, size) /\ Copied(d, disk', ino, size))
<1> DEFINE enough == Enough(d, size)
           free == Cardinality(Block \ d.bbm)
           r == d.inode[ino]
           w == [k \in Slot |-> IF k < size /\ (enough \/ k <= free)
                                THEN FileBlock(d, size, k) ELSE r.i_block[k]]
           file == EmptyFile(r, w)
           full == WholeFile(r, w, 2 * size)
           bb == Taken(d, size)[size]
           ib == d.ibm \cup {ino}
           fi == d.free_inodes - 1
           fb1 == d.free_blocks - size
           fb2 == d.free_blocks - (free + 1)
           f1 == [d EXCEPT !.bbm = bb, !.ibm = ib, !.free_blocks = fb1, !.free_inodes = fi,
                           !.inode = [d.inode EXCEPT ![ino] = full]]
           f2 == [d EXCEPT !.bbm = bb, !.ibm = ib, !.free_blocks = fb2, !.free_inodes = fi,
                           !.inode = [d.inode EXCEPT ![ino] = file]]
<1>1. size \in Nat /\ r \in InodeType /\ r.i_block \in [Slot -> {-1, 0} \cup Block]
  BY Slots, Fields, InodeFields
<1>2. \/ enough /\ disk' = f1 /\ damage' = harm
      \/ ~enough /\ disk' = f2 /\ damage' = "full"
  BY ZenonT(30) DEF CopyBlocks, Leaves, Image, Enough, EmptyFile, WholeFile
<1>3. /\ bb \subseteq Block /\ \A k \in 0 .. size - 1 : FileBlock(d, size, k) \in Block \cup {-1}
      /\ enough => bb = d.bbm \cup Blocks(d, size)
  BY <1>1, TakenEnough
<1>4. free \in Nat
  <2>1. IsFiniteSet(Block \ d.bbm)
    BY Numbers, FS_Subset
  <2> QED
    BY <2>1, FS_CardinalityType
<1>5. w \in [Slot -> {-1, 0} \cup Block]
  <2>1. ASSUME NEW k \in Slot PROVE w[k] \in {-1, 0} \cup Block
    <3>1. CASE k < size
      <4>1. k \in 0 .. size - 1
        BY <1>1, <3>1, Slots
      <4> QED
        BY <1>1, <1>3, <4>1
    <3>2. CASE ~(k < size)
      BY <1>1, <3>2
    <3> QED
      BY <3>1, <3>2
  <2> QED
    BY <2>1
<1>6. enough => \A k \in 0 .. size - 1 : w[k] = FileBlock(d, size, k)
  <2> SUFFICES ASSUME enough, NEW k \in 0 .. size - 1 PROVE w[k] = FileBlock(d, size, k)
    OBVIOUS
  <2>1. k \in Slot /\ k < size
    BY <1>1, Slots
  <2> QED
    BY <2>1
<1> HIDE DEF w, r, bb, free, enough
<1>7. 2 * size \in Nat /\ ib \in SUBSET Inode /\ fi \in Int /\ fb1 \in Int /\ fb2 \in Int
  BY <1>1, <1>4, Fields
<1>8. /\ file \in InodeType /\ full \in InodeType
      /\ full.i_mode = "reg" /\ full.i_links_count = 1 /\ full.i_blocks = 2 * size
      /\ ~full.i_dtime /\ full.i_block = w
      /\ file.i_mode = "reg" /\ file.i_blocks = 0
  BY <1>1, <1>5, <1>7, CopyInode, SMTT(30)
<1> HIDE DEF file, full, ib, fi, fb1, fb2
<1>9. NewFields(d, f1, ino, full, bb, ib) /\ NewFields(d, f2, ino, file, bb, ib)
  BY <1>3, <1>7, <1>8, InodeWritten, Zenon
<1> HIDE DEF f1, f2
<1>10. f1 \in Image /\ f2 \in Image
  BY <1>9 DEF NewFields
<1>11. enough => Copied(d, f1, ino, size)
  BY <1>3, <1>6, <1>8, <1>9 DEF NewFields, Copied, ib
<1>12. Emptied(d, f2, ino)
  BY <1>8, <1>9 DEF NewFields, Emptied
<1> QED
  BY <1>2, <1>10, <1>11, <1>12 DEF enough

LEMMA CopiedIntoUse ==
  ASSUME NEW e \in Image, NEW f, NEW ino \in Inode \ e.ibm, NEW size \in Size,
         Enough(e, size), Copied(e, f, ino, size)
  PROVE  IntoUse(e, f, ino)
<1> DEFINE q == f.inode[ino]
           n == size
<1>1. n \in Nat /\ \A k \in 0 .. n - 1 : k \in Slot
  BY Slots
<1>2. /\ NewFields(e, f, ino, q, e.bbm \cup Blocks(e, size), e.ibm \cup {ino})
      /\ q.i_mode = "reg" /\ q.i_blocks = 2 * n /\ ~q.i_dtime
      /\ \A k \in 0 .. n - 1 : q.i_block[k] = FileBlock(e, size, k)
  BY DEF Copied
<1>3. /\ \A k \in 0 .. n - 1 : FileBlock(e, size, k) \in Block \ e.bbm
      /\ \A j, k \in 0 .. n - 1 : FileBlock(e, size, j) = FileBlock(e, size, k) => j = k
  BY <1>1, TakenEnough
<1> HIDE DEF q
<1>4. Count(q) = n /\ Used(q) = 0 .. n - 1
  <2>1. Count(q) = n
    BY <1>1, <1>2 DEF Count
  <2> HIDE DEF n
  <2>2. \A s \in Slot : s \in Nat
    BY Slots
  <2>3. \A s : s \in Slot /\ s < n <=> s \in 0 .. n - 1
    BY <1>1, <2>2
  <2> QED
    BY <2>1, <2>3 DEF Used
<1>5. BlocksOf(q) = Blocks(e, size)
  BY <1>2, <1>4 DEF BlocksOf, Blocks
<1>6. InodeOK(q)
  <2>1. n - 1 \in Slot \cup {-1}
    BY <1>1
  <2> QED
    BY <1>2, <1>3, <1>4, <2>1 DEF InodeOK
<1>7. e.ibm \subseteq Inode
  BY Fields
<1>8. BlocksOf(q) \cap e.bbm = {}
  BY <1>3, <1>5 DEF Blocks
<1>9. \A i \in Inode \ {ino} : Kept(f.inode[i], e.inode[i])
  BY <1>2 DEF NewFields, Kept
<1> QED
  BY <1>2, <1>5, <1>6, <1>7, <1>8, <1>9 DEF IntoUse, NewFields, q

LEMMA FreeInodesWritten ==
  ASSUME NEW d \in Image
  PROVE  [d EXCEPT !.free_inodes = @ - 1] \in Image
<1>1. d.free_inodes - 1 \in Int
  BY Fields
<1> QED
  BY <1>1 DEF Image

\* add_file, whatever of it comes to an end.
LEMMA AddFileFits ==
  ASSUME NEW d \in Image, NEW b \in Block, NEW name \in Name, NEW over \in BOOLEAN,
         NEW size \in Size, NEW harm \in Damages, NEW d0, NEW dir,
         harm = "none" => ~over /\ OpenTo(d0, d, b, dir, name),
         add_file(d, b, name, over, size, harm)
  PROVE  /\ Fit(disk', damage') /\ damage' \in {harm, "full"}
         /\ damage' = "none" => Adds(d0, disk', dir, name, "reg", size)
<1> DEFINE ino == find_invalid_indode_index(d)
           c == Added(d.block[b], over, name, "reg", ino)
           e == Write(d, b, c)
<1>1. ino = -1 \/ ino \in Inode \ d.ibm
  BY FreeInode
<1> HIDE DEF ino
<1>2. d.block[b] \in [Cell -> EntryType] /\ ino \in Inode \cup {-1} /\ "reg" \in {"reg", "dir", "lnk"}
  BY <1>1, Fields
<1>3. c \in [Cell -> EntryType]
  BY <1>2, AddedTyped
<1>4. Rewritten(d, e, b, c)
  BY <1>3, Written
<1>5. e \in Image /\ e.ibm = d.ibm
  BY <1>4 DEF Rewritten
<1>6. CASE ino = -1 /\ Leaves([e EXCEPT !.free_inodes = @ - 1], "full")
  <2> HIDE DEF e
  <2>1. [e EXCEPT !.free_inodes = @ - 1] \in Image
    BY <1>5, FreeInodesWritten
  <2> QED
    BY <1>6, <2>1 DEF Leaves, Fit, Damages
<1>7. CASE ino # -1 /\ CopyBlocks(e, ino, size, harm)
  <2>1. ino \in Inode \ e.ibm
    BY <1>1, <1>5, <1>7
  <2>2. /\ disk' \in Image
        /\ damage' = "full" \/ (damage' = harm /\ Enough(e, size) /\ Copied(e, disk', ino, size))
    <3> HIDE DEF e
    <3> QED
      BY <1>5, <1>7, <2>1, CopyBlocksFields
  <2>3. CASE damage' = "full"
    BY <2>2, <2>3 DEF Fit, Damages
  <2>4. CASE damage' = harm /\ Enough(e, size) /\ Copied(e, disk', ino, size)
    <3>1. ASSUME harm = "none" PROVE Good(disk') /\ Adds(d0, disk', dir, name, "reg", size)
      <4>1. OpenTo(d0, d, b, dir, name)
        BY <3>1
      <4> DEFINE P == PlacesOf(d0)
      <4>2. e = Write(d, b, Inserted(d.block[b], name, "reg", ino))
        BY <3>1 DEF Added
      <4>3. Opens(d0, dir, name, e, "reg", ino)
        BY <1>2, <4>1, <4>2 DEF OpenTo
      <4> HIDE DEF e, c
      <4>4. PICK x : Opened(d0, P, e, x, dir, Entry(name, "reg", ino, 0))
        BY <4>3 DEF Opens
      <4>5. d0 \in Image /\ Sound(d0, P) /\ NameNew(d0, P, dir, name)
        BY <4>1 DEF OpenTo, Good
      <4>6. IntoUse(e, disk', ino)
        BY <1>5, <2>1, <2>4, CopiedIntoUse
      <4>7. e.ibm = d0.ibm
        BY <4>4 DEF Opened
      <4>8. FileMade(d0, e, disk', ino, "reg")
        BY <2>1, <2>2, <2>4, <4>6, <4>7 DEF FileMade, Copied, NewFields
      <4> HIDE DEF P
      <4>9. Sound(disk', P \cup {x}) /\ Gives(d0, disk', dir, name, ino)
        BY <4>4, <4>5, <4>8, SoundWithFile
      <4>10. Held(disk'.inode[ino]) = [type |-> "reg", size |-> size]
        <5>1. disk'.inode[ino].i_mode = "reg" /\ disk'.inode[ino].i_blocks = 2 * size
          BY <2>4 DEF Copied
        <5>2. size \in Nat /\ (2 * size) \div 2 = size
          BY SizesAssumption, SMTT(30)
        <5> QED
          BY <5>1, <5>2 DEF Held, Count
      <4> QED
        BY <1>5, <2>1, <2>2, <4>7, <4>9, <4>10, GoodWhenSound DEF Adds
    <3> QED
      BY <2>2, <2>4, <3>1 DEF Fit
  <2> QED
    BY <2>2, <2>3, <2>4
<1> QED
  BY <1>6, <1>7 DEF add_file, ino

\* cp leaves a file system, or the damage it reports.
OpenBlocks(d, dir, name) == {i \in 0 .. BlockCount(d, dir) - 1 : Named(Content(d, dir, i), name) = {}}

LEMMA CpNewFits ==
  ASSUME disk \in Image, Good(disk), NEW dir \in Dirs(disk), NEW name \in Name, NEW size \in Size,
         OpenBlocks(disk, dir, name) # {},
         LET i == Min(OpenBlocks(disk, dir, name))
         IN  cp_new(dir, name, i, Content(disk, dir, i), size)
  PROVE  Fit(disk', damage') /\ (damage' = "none" => Adds(disk, disk', dir, name, "reg", size))
<1> DEFINE open == OpenBlocks(disk, dir, name)
           i == Min(open)
           c == Content(disk, dir, i)
           b == find_free_block_index(disk)
           k == disk.inode[dir].i_block[i]
           harm == IF Has(disk, dir, name) THEN "exists" ELSE "none"
           more == GrownHarm(disk, dir, harm)
           g == Grown(disk, dir, i + 1)
<1>1. Sound(disk, PlacesOf(disk)) /\ Own(disk) /\ Laid(disk, PlacesOf(disk))
  BY SoundParts DEF Good
<1>2. BlockCount(disk, dir) \in {1, 2} /\ Used(disk.inode[dir]) = 0 .. BlockCount(disk, dir) - 1
  BY <1>1, DirectoryBlocks DEF BlockCount, Count
<1>3. open \subseteq Nat /\ open \subseteq Used(disk.inode[dir])
  BY <1>2 DEF OpenBlocks
<1>4. i \in open /\ \A j \in open : i <= j
  <2>1. open # {}
    OBVIOUS
  <2> HIDE DEF open
  <2> QED
    BY <1>3, <2>1, MinIsLeast
<1>5. ASSUME ~Has(disk, dir, name) PROVE i = 0
  <2>1. 0 \in open
    BY <1>2, <1>5 DEF Has, OpenBlocks
  <2> HIDE DEF i, open
  <2> QED
    BY <1>3, <1>4, <2>1
<1> HIDE DEF i
<1>6. i \in Used(disk.inode[dir]) /\ i \in 0 .. BlockCount(disk, dir) - 1
  BY <1>2, <1>3, <1>4
<1>7. dir \in Inode /\ dir \in disk.ibm /\ k \in Block /\ c = disk.block[k]
  BY <1>1, <1>6, DirectoryBlocks, BlockShows
<1>8. b = -1 \/ b \in Block
  BY FreeBlock
<1>9. harm \in Damages /\ more \in Damages /\ FALSE \in BOOLEAN
  BY DEF Damages, GrownHarm
<1>10. harm = "none" => ~Has(disk, dir, name)
  OBVIOUS
<1>11. more = "none" => ~Has(disk, dir, name) /\ disk.inode[dir].i_block[2] = 0
  BY DEF GrownHarm
<1>12. i + 1 \in Slot
  BY <1>2, <1>6, Slots
<1>13. GrownTo(disk, g, dir, i + 1, b)
  BY <1>7, <1>12, GrownFields
<1>14. g \in Image
  BY <1>13 DEF GrownTo
<1> HIDE DEF harm, more, c, g, open
<1>15. CASE new_directory_fits(c) /\ add_file(disk, k, name, FALSE, size, harm)
  <2>1. ASSUME harm = "none" PROVE OpenTo(disk, disk, k, dir, name)
    <3>1. Enterable(disk, dir, k, name)
      BY <1>6, <1>7, <1>10, <1>15, <2>1 DEF Enterable
    <3> QED
      BY <3>1, EnterableOpenTo
  <2> QED
    BY <1>7, <1>9, <1>15, <2>1, AddFileFits
<1>16. CASE b = -1 /\ Leaves(g, "full")
  BY <1>14, <1>16 DEF Leaves, Fit, Damages
<1>17. CASE i + 1 = BlockCount(disk, dir) /\ b # -1 /\ add_file(g, b, name, FALSE, size, more)
  <2>1. ASSUME more = "none" PROVE OpenTo(disk, g, b, dir, name)
    <3>1. i = 0 /\ BlockCount(disk, dir) = 1 /\ g = Grown(disk, dir, 1)
      BY <1>5, <1>11, <1>17, <2>1 DEF g
    <3>2. OpenTo(disk, g, b, dir, name)
      BY <1>11, <1>17, <2>1, <3>1, GrownOpenTo
    <3> QED
      BY <3>2
  <2>2. b \in Block
    BY <1>8, <1>17
  <2> HIDE DEF b
  <2> QED
    BY <1>9, <1>14, <1>17, <2>1, <2>2, AddFileFits
<1> QED
  BY <1>15, <1>16, <1>17 DEF cp_new, harm, more, c, g, open, i

LEMMA CpFits ==
  ASSUME disk \in Image, Good(disk), NEW path \in Path, NEW size \in Size, ext2_cp(path, size)
  PROVE  Fit(disk', damage') /\ (damage' = "none" => Made(disk, disk', path, "reg", size))
<1> DEFINE slots == [dir \in Inode |-> 0 .. BlockCount(disk, dir) - 1]
           at == Reached(disk, path, slots)
           name == path[at.k]
           open == OpenBlocks(disk, at.dir, name)
           k == disk.inode[at.dir].i_block[0]
<1>1. Sound(disk, PlacesOf(disk))
  BY DEF Good
<1>2. \A dir \in Dirs(disk) : LooksIn(disk, dir, slots[dir])
  BY <1>1, SlotsToLookIn, SoundParts DEF Dirs
<1>3. at.dir \in Dirs(disk) /\ at.k \in 1 .. Len(path)
  BY <1>1, <1>2, LookedUp
<1>4. name \in Name /\ at.dir \in Inode
  BY <1>1, <1>3, Paths, SoundParts DEF Dirs
<1>5. open = {i \in slots[at.dir] : Named(Content(disk, at.dir, i), name) = {}}
  BY <1>4 DEF OpenBlocks
<1>9. at.k = Len(path) => Leads(disk, path, at.dir) /\ name = Last(path)
  BY <1>1, <1>2, ReachedLeads, Paths
<1>6. \/ /\ at.k = Len(path)
         /\ open # {} /\ cp_new(at.dir, name, Min(open), Content(disk, at.dir, Min(open)), size)
      \/ add_file(disk, k, name, TRUE, size, "exists")
  <2> HIDE DEF at
  <2> QED
    BY <1>5 DEF ext2_cp, at
<1> HIDE DEF at, name
<1>7. CASE /\ at.k = Len(path)
           /\ open # {} /\ cp_new(at.dir, name, Min(open), Content(disk, at.dir, Min(open)), size)
  <2>1. Fit(disk', damage') /\ (damage' = "none" => Adds(disk, disk', at.dir, name, "reg", size))
    BY <1>3, <1>4, <1>7, CpNewFits
  <2> QED
    BY <1>7, <1>9, <2>1 DEF Made
<1>8. CASE add_file(disk, k, name, TRUE, size, "exists")
  <2>1. k \in Block
    BY <1>1, <1>3, SoundParts, DirectoryBlocks
  <2>2. "exists" \in Damages /\ TRUE \in BOOLEAN /\ "exists" # "none" /\ "full" # "none"
    BY DEF Damages
  <2> HIDE DEF k
  <2> QED
    BY <1>4, <1>8, <2>1, <2>2, AddFileFits
<1> QED
  BY <1>6, <1>7, <1>8

-----------------------------------------------------------------------------
(* What restore finds and what it leaves.                                  *)

\* The turns of the walk of search_entry.
Turns(d, c, name, at) ==
  /\ at[0] = [p |-> 0, q |-> 0] /\ Walked(d, c, name) = at[EXT2_BLOCK_SIZE]
  /\ \A k \in 0 + 1 .. EXT2_BLOCK_SIZE : at[k] = WalkStep(d, c, name, at[k - 1])

LEMMA WalkTurns ==
  ASSUME NEW d, NEW c \in [Cell -> EntryType], NEW name
  PROVE  \E at : /\ Turns(d, c, name, at)
                 /\ \A k \in 0 .. EXT2_BLOCK_SIZE : at[k].p \in Nat /\ at[k].q \in Nat /\ at[k].q <= at[k].p
<1> DEFINE D == {w \in [p : Nat, q : Nat] : w.q <= w.p}
           a == [p |-> 0, q |-> 0]
           n == EXT2_BLOCK_SIZE
           On(w) == WalkStep(d, c, name, w)
           Turn(at, k) == IF k = 0 THEN a ELSE On(at[k - 1])
           Way(at) == at = [k \in 0 .. n |-> Turn(at, k)]
           W == CHOOSE at : Way(at)
           F == [k \in 0 .. n |-> [w \in D |-> On(w)]]
<1>1. n \in Nat /\ 0 \in Nat /\ 0 <= n /\ a \in D
  BY BlockSizes
<1>2. ASSUME NEW w \in D PROVE On(w) \in D
  <2>1. w \in [p : Nat, q : Nat] /\ w.p \in Nat /\ w.q \in Nat /\ w.q <= w.p
    OBVIOUS
  <2>2. w.p \in Cell => c[w.p].rec_len \in Nat
    BY EntryLengths DEF Lengths
  <2>3. CASE w.p \notin Cell \/ WalkStops(c[w.p], name)
    BY <2>3 DEF WalkStep
  <2>4. CASE w.p \in Cell /\ ~WalkStops(c[w.p], name) /\ c[w.p].inode \in d.ibm
    <3>1. On(w) = [p |-> w.p + 1, q |-> w.p]
      BY <2>4 DEF WalkStep
    <3> HIDE DEF On
    <3> QED
      BY <2>1, <3>1
  <2>5. CASE w.p \in Cell /\ ~WalkStops(c[w.p], name) /\ c[w.p].inode \notin d.ibm
    <3>1. On(w) = [p |-> w.p + c[w.p].rec_len, q |-> w.q]
      BY <2>5 DEF WalkStep
    <3>2. w.p + c[w.p].rec_len \in Nat /\ w.q <= w.p + c[w.p].rec_len
      <4> DEFINE m == c[w.p].rec_len
      <4>1. m \in Nat
        BY <2>2, <2>5
      <4> HIDE DEF m
      <4>2. w.p + m \in Nat /\ w.q <= w.p + m
        BY <2>1, <4>1
      <4> QED
        BY <4>2 DEF m
    <3> HIDE DEF On
    <3> QED
      BY <2>1, <3>1, <3>2
  <2> QED
    BY <2>3, <2>4, <2>5
<1>3. F \in [0 .. n -> [D -> D]] /\ \A k \in 0 .. n, w \in D : F[k][w] = On(w)
  <2> HIDE DEF D, On, n
  <2> QED
    BY <1>2
<1>4. Walked(d, c, name) = W[n]
  BY DEF Walked
<1> HIDE DEF F, On, D, n, a
<1>5. PICK f \in [0 .. n -> D] : Follows(f, 0, n, a, F)
  BY <1>1, <1>3, Iterate
<1>6. ASSUME NEW k \in 0 .. n PROVE f[k] = Turn(f, k)
  <2>1. CASE k = 0
    BY <1>5, <2>1 DEF Follows
  <2>2. CASE k # 0
    <3>1. k \in 0 + 1 .. n /\ k - 1 \in 0 .. n
      BY <1>1, <2>2
    <3> QED
      BY <1>3, <1>5, <2>2, <3>1 DEF Follows
  <2> QED
    BY <2>1, <2>2
<1>7. Way(f)
  <2> HIDE DEF Turn
  <2>1. f = [k \in 0 .. n |-> f[k]]
    BY <1>5
  <2> QED
    BY <1>6, <2>1
<1>8. Way(W)
  <2> HIDE DEF Way
  <2> QED
    BY <1>7
<1> HIDE DEF W
<1>9. \A k \in 0 .. n : W[k] = Turn(W, k)
  BY <1>8
<1> DEFINE T == {k \in 0 .. n : W[k] \in D}
<1>10. 0 \in T
  BY <1>1, <1>9
<1>11. \A k \in 0 + 1 .. n : k - 1 \in T => k \in T
  <2> SUFFICES ASSUME NEW k \in 0 + 1 .. n, W[k - 1] \in D PROVE k \in 0 .. n /\ W[k] \in D
    OBVIOUS
  <2>1. k \in 0 .. n /\ k # 0
    BY <1>1
  <2> QED
    BY <1>2, <1>9, <2>1
<1>12. 0 .. n \subseteq T
  <2> HIDE DEF T
  <2> QED
    BY <1>1, <1>10, <1>11, StepByStep
<1>13. Turns(d, c, name, W)
  <2>1. \A k \in 0 + 1 .. n : k \in 0 .. n /\ k # 0
    BY <1>1
  <2>2. 0 \in 0 .. n
    BY <1>1
  <2> QED
    BY <1>4, <1>9, <2>1, <2>2 DEF Turns, On, n, a
<1>14. \A k \in 0 .. n : W[k].p \in Nat /\ W[k].q \in Nat /\ W[k].q <= W[k].p
  BY <1>12 DEF D
<1> QED
  BY <1>13, <1>14 DEF n

LEMMA WalkedIs ==
  ASSUME NEW d, NEW c \in [Cell -> EntryType], NEW name
  PROVE  LET w == Walked(d, c, name) IN w.p \in Nat /\ w.q \in Nat /\ w.q <= w.p
<1>1. PICK at : /\ Turns(d, c, name, at)
                /\ \A k \in 0 .. EXT2_BLOCK_SIZE : at[k].p \in Nat /\ at[k].q \in Nat /\ at[k].q <= at[k].p
  BY WalkTurns
<1>2. EXT2_BLOCK_SIZE \in 0 .. EXT2_BLOCK_SIZE
  BY BlockSizes
<1> QED
  BY <1>1, <1>2 DEF Turns

\* Where search_entry stops: at a cell of a block of the directory.
Stopped(d, dir, v) ==
  /\ dir \in Dirs(d) /\ v.dir = dir
  /\ \E s \in Used(d.inode[dir]) : v.b = d.inode[dir].i_block[s]
  /\ v.b \in Block /\ v.p \in Cell /\ v.q \in Nat /\ v.q <= v.p

LEMMA StopIs ==
  ASSUME NEW d \in Image, NEW P, Sound(d, P), NEW dir \in Dirs(d), NEW name
  PROVE  LET v == Stop(d, dir, name)
         IN  /\ v = NoStop \/ Stopped(d, dir, v)
             /\ v.to \in Dirs(d) \cup {0}
             /\ v.to # 0 => \E x \in P : x[1] = dir /\ Ent(d, x).name = name /\ Ent(d, x).inode = v.to
<1> DEFINE hit(c) == Stops(c, name, Walked(d, c, name))
           hits == {i \in 0 .. BlockCount(d, dir) - 1 : hit(Content(d, dir, i))}
           v == Stop(d, dir, name)
           s == Min(hits)
           b == d.inode[dir].i_block[s]
           c == Content(d, dir, s)
           w == Walked(d, c, name)
<1>1. v = StopIn(d, dir, name, hits)
  BY DEF Stop
<1>2. Own(d) /\ Laid(d, P) /\ NothingElse(d)
  BY SoundParts
<1>3. Used(d.inode[dir]) = 0 .. BlockCount(d, dir) - 1
  BY <1>2, DirectoryBlocks DEF BlockCount, Count
<1>4. CASE hits = {}
  <2>1. v = NoStop
    BY <1>1, <1>4 DEF StopIn
  <2> QED
    BY <2>1 DEF NoStop
<1>5. CASE hits # {}
  <2>1. hits \subseteq Nat
    OBVIOUS
  <2>2. s \in hits
    <3> HIDE DEF hits
    <3> QED
      BY <1>5, <2>1, MinIn
  <2>3. s \in Used(d.inode[dir]) /\ hit(c)
    BY <1>3, <2>2
  <2>4. v = StopAt(d, dir, b, w)
    BY <1>1, <1>5 DEF StopIn
  <2> HIDE DEF s, hits, v
  <2>5. /\ c \in [Cell -> EntryType] /\ c = d.block[b] /\ b \in Block
        /\ \A p \in Shown(c) : <<dir, <<s, p>>>> \in P /\ Ent(d, <<dir, <<s, p>>>>) = c[p]
    BY <1>2, <2>3, BlockShows, DirectoryBlocks
  <2>6. w.p \in Cell
    BY <2>3 DEF Stops
  <2>7. w.p \in Nat /\ w.q \in Nat /\ w.q <= w.p
    BY <2>5, WalkedIs, SMTT(30)
  <2> HIDE DEF b, c, w
  <2>8. /\ v.dir = dir /\ v.b = b /\ v.p = w.p /\ v.q = w.q
        /\ v.to = IF c[w.p].file_type = "dir" THEN c[w.p].inode ELSE 0
    BY <2>4, <2>5 DEF StopAt
  <2>9. Stopped(d, dir, v)
    BY <2>3, <2>5, <2>6, <2>7, <2>8, Zenon DEF Stopped, b
  <2>10. ASSUME c[w.p].file_type = "dir"
         PROVE  /\ c[w.p].inode \in Dirs(d)
                /\ \E x \in P : x[1] = dir /\ Ent(d, x).name = name /\ Ent(d, x).inode = c[w.p].inode
    <3>1. w.p \in Shown(c)
      BY <1>2, <2>5, <2>6, <2>10 DEF NothingElse
    <3>2. <<dir, <<s, w.p>>>> \in P /\ Ent(d, <<dir, <<s, w.p>>>>) = c[w.p]
      BY <2>5, <3>1
    <3>3. c[w.p].name = name
      BY <2>3, <2>10 DEF Stops, WalkStops, w
    <3> DEFINE x == <<dir, <<s, w.p>>>>
    <3>4. x \in P /\ x[1] = dir /\ Ent(d, x) = c[w.p]
      BY <3>2
    <3> HIDE DEF x
    <3> QED
      BY <2>10, <3>3, <3>4, EntryKinds
  <2> QED
    BY <2>8, <2>9, <2>10 DEF v
<1> QED
  BY <1>4, <1>5

LEMMA DeletedIs ==
  ASSUME NEW d \in Image, NEW P, Sound(d, P), NEW path \in Path
  PROVE  \/ Deleted(d, path) = NoStop
         \/ \E dir : Leads(d, path, dir) /\ Stopped(d, dir, Deleted(d, path))
<1> DEFINE n == Len(path) - 1
           D == Dirs(d) \cup {0}
           On(dir, k) == IF dir = 0 THEN 0 ELSE Stop(d, dir, path[k]).to
           Turn(at, k) == IF k = 0 THEN EXT2_ROOT_INO ELSE On(at[k - 1], k)
           Way(at) == at = [k \in 0 .. n |-> Turn(at, k)]
           W == CHOOSE at : Way(at)
           F == [k \in 0 .. n |-> [dir \in D |-> On(dir, k)]]
           dir1 == W[n]
           v == Stop(d, dir1, Last(path))
<1>1. n \in Nat /\ 0 \in Nat /\ 0 <= n /\ EXT2_ROOT_INO \in D
  <2>1. Len(path) \in Nat /\ Len(path) >= 1
    BY Paths
  <2>2. EXT2_ROOT_INO \in D
    BY SoundParts DEF Rooted
  <2> QED
    BY <2>1, <2>2
<1>2. \A dir \in D, k \in 0 .. n : On(dir, k) \in D
  BY StopIs
<1>3. F \in [0 .. n -> [D -> D]] /\ \A k \in 0 .. n, dir \in D : F[k][dir] = On(dir, k)
  <2> HIDE DEF D, On, n
  <2> QED
    BY <1>2
<1>4. Deleted(d, path) = IF dir1 = 0 THEN NoStop ELSE IF v.to # 0 THEN NoStop ELSE v
  BY DEF Deleted
<1> HIDE DEF F, On, D, n
<1>5. PICK f \in [0 .. n -> D] : Follows(f, 0, n, EXT2_ROOT_INO, F)
  BY <1>1, <1>3, Iterate
<1>6. ASSUME NEW k \in 0 .. n PROVE f[k] = Turn(f, k)
  <2>1. CASE k = 0
    BY <1>5, <2>1 DEF Follows
  <2>2. CASE k # 0
    <3>1. k \in 0 + 1 .. n /\ k - 1 \in 0 .. n
      BY <1>1, <2>2
    <3> QED
      BY <1>3, <1>5, <2>2, <3>1 DEF Follows
  <2> QED
    BY <2>1, <2>2
<1>7. Way(f)
  <2> HIDE DEF Turn
  <2>1. f = [k \in 0 .. n |-> f[k]]
    BY <1>5
  <2> QED
    BY <1>6, <2>1
<1>8. Way(W)
  <2> HIDE DEF Way
  <2> QED
    BY <1>7
<1> HIDE DEF W
<1>9. \A k \in 0 .. n : W[k] = Turn(W, k)
  BY <1>8
<1> DEFINE T == {k \in 0 .. n : W[k] \in D}
<1>10. 0 \in T
  BY <1>1, <1>9
<1>11. \A k \in 0 + 1 .. n : k - 1 \in T => k \in T
  <2> SUFFICES ASSUME NEW k \in 0 + 1 .. n, W[k - 1] \in D PROVE k \in 0 .. n /\ W[k] \in D
    OBVIOUS
  <2>1. k \in 0 .. n /\ k # 0
    BY <1>1
  <2> QED
    BY <1>2, <1>9, <2>1
<1>12. 0 .. n \subseteq T
  <2> HIDE DEF T
  <2> QED
    BY <1>1, <1>10, <1>11, StepByStep
<1>13. dir1 \in D
  BY <1>1, <1>12
<1>15. ASSUME W[n] # 0 PROVE Leads(d, path, W[n])
  <2> DEFINE V == {k \in 0 .. n : W[k] # 0 => \A j \in 0 .. k : W[j] # 0}
  <2>1. 0 \in V
    BY <1>1
  <2>2. \A k \in 0 + 1 .. n : k - 1 \in V => k \in V
    <3> SUFFICES ASSUME NEW k \in 0 + 1 .. n, k - 1 \in V, W[k] # 0
                 PROVE  k \in 0 .. n /\ \A j \in 0 .. k : W[j] # 0
      OBVIOUS
    <3>1. k \in 0 .. n /\ k # 0 /\ \A j \in 0 .. k : j = k \/ j \in 0 .. k - 1
      BY <1>1
    <3>2. W[k - 1] # 0
      BY <1>9, <3>1 DEF On
    <3> QED
      BY <3>1, <3>2
  <2>3. 0 .. n \subseteq V
    <3> HIDE DEF V
    <3> QED
      BY <1>1, <2>1, <2>2, StepByStep
  <2>4. \A j \in 0 .. n : W[j] # 0 /\ W[j] \in Dirs(d)
    BY <1>1, <1>12, <1>15, <2>3 DEF D
  <2> DEFINE m == Len(path)
             w == [k \in 1 .. m |-> W[k - 1]]
  <2>5. m \in Nat /\ m >= 1 /\ n = m - 1 /\ \A k \in 1 .. m : k - 1 \in 0 .. n
    BY Paths DEF n
  <2> HIDE DEF m
  <2>6. \A k \in 1 .. m : W[k - 1] \in Inode
    BY <2>4, <2>5, SoundParts DEF Dirs
  <2>7. w \in [1 .. m -> Inode] /\ \A k \in 1 .. m : w[k] = W[k - 1]
    BY <2>6
  <2> HIDE DEF w
  <2>8. ASSUME NEW k \in 1 .. m - 1 PROVE <<w[k], path[k], w[k + 1]>> \in Edges(d)
    <3>1. k \in 1 .. m /\ k + 1 \in 1 .. m /\ (k + 1) - 1 = k /\ k \in 0 .. n /\ k - 1 \in 0 .. n /\ k # 0
      BY <2>5
    <3>2. W[k] = Stop(d, W[k - 1], path[k]).to /\ path[k] \in Name
      BY <1>9, <2>4, <3>1, Paths DEF On, m
    <3>3. W[k - 1] \in Dirs(d) /\ W[k] # 0
      BY <2>4, <3>1
    <3>4. PICK x \in P : x[1] = W[k - 1] /\ Ent(d, x).name = path[k] /\ Ent(d, x).inode = W[k]
      BY <3>2, <3>3, StopIs
    <3>5. <<W[k - 1], path[k], W[k]>> \in Edges(d)
      BY <3>2, <3>4, EdgeAt
    <3> QED
      BY <2>7, <3>1, <3>5
  <2>9. W[0] = EXT2_ROOT_INO /\ w[1] = EXT2_ROOT_INO /\ w[m] = W[n]
    <3>1. W[0] = EXT2_ROOT_INO
      BY <1>1, <1>9
    <3>2. 1 \in 1 .. m /\ m \in 1 .. m /\ 1 - 1 = 0
      BY <2>5
    <3> QED
      BY <2>5, <2>7, <3>1, <3>2
  <2>10. Route(Edges(d), path, w)
    BY <2>7, <2>8, <2>9 DEF Route, m
  <2> QED
    BY <2>9, <2>10 DEF Leads, m
<1>14. dir1 # 0 => Leads(d, path, dir1) /\ (v = NoStop \/ Stopped(d, dir1, v))
  BY <1>13, <1>15, StopIs DEF D
<1> HIDE DEF dir1, v
<1> QED
  BY <1>4, <1>14

\* The inode gains a link, is marked, and has the blocks that Revived marks.
Marked(g, ino) ==
  [g EXCEPT !.ibm = @ \cup {ino}, !.free_inodes = @ - 1, !.inode[ino].i_links_count = @ + 1]

LEMMA MarkedFields ==
  ASSUME NEW g \in Image, NEW ino \in Inode
  PROVE  LET h == Marked(g, ino)
         IN  /\ NewFields(g, h, ino, h.inode[ino], g.bbm, g.ibm \cup {ino})
             /\ h.inode[ino].i_mode = g.inode[ino].i_mode
             /\ h.inode[ino].i_blocks = g.inode[ino].i_blocks
             /\ h.inode[ino].i_block = g.inode[ino].i_block
             /\ h.inode[ino].i_dtime = g.inode[ino].i_dtime
             /\ h.inode[ino].i_links_count = g.inode[ino].i_links_count + 1
<1> DEFINE l == Linked(g, ino)
           ib == g.ibm \cup {ino}
           fi == g.free_inodes - 1
           h == Marked(g, ino)
<1>1. ib \in SUBSET Inode /\ fi \in Int
  BY Fields
<1>2. h = [l EXCEPT !.ibm = ib, !.free_inodes = fi]
  BY DEF Marked, Linked, Image
<1>3. /\ NewFields(g, l, ino, l.inode[ino], g.bbm, g.ibm)
      /\ l.inode[ino].i_mode = g.inode[ino].i_mode
      /\ l.inode[ino].i_blocks = g.inode[ino].i_blocks
      /\ l.inode[ino].i_block = g.inode[ino].i_block
      /\ l.inode[ino].i_dtime = g.inode[ino].i_dtime
      /\ l.inode[ino].i_links_count = g.inode[ino].i_links_count + 1
  BY LinkedFields
<1> HIDE DEF l, h, ib, fi
<1>4. l \in Image
  BY <1>3 DEF NewFields
<1>5. /\ h \in Image /\ h.block = l.block /\ h.bbm = l.bbm /\ h.ibm = ib /\ h.inode = l.inode
  BY <1>1, <1>2, <1>4 DEF Image
<1>6. /\ NewFields(g, h, ino, h.inode[ino], g.bbm, g.ibm \cup {ino})
      /\ h.inode[ino].i_mode = g.inode[ino].i_mode
      /\ h.inode[ino].i_blocks = g.inode[ino].i_blocks
      /\ h.inode[ino].i_block = g.inode[ino].i_block
      /\ h.inode[ino].i_dtime = g.inode[ino].i_dtime
      /\ h.inode[ino].i_links_count = g.inode[ino].i_links_count + 1
  BY <1>3, <1>5 DEF NewFields, ib
<1> QED
  BY <1>6 DEF h

LEMMA RevivedFields ==
  ASSUME NEW d \in Image, NEW ino \in Inode, BlocksOf(d.inode[ino]) \subseteq Block
  PROVE  LET g == Revived(d, ino)
         IN  /\ NewFields(d, g, ino, g.inode[ino], d.bbm \cup BlocksOf(d.inode[ino]), d.ibm)
             /\ g.inode[ino].i_mode = d.inode[ino].i_mode
             /\ g.inode[ino].i_blocks = d.inode[ino].i_blocks
             /\ g.inode[ino].i_block = d.inode[ino].i_block
             /\ g.inode[ino].i_links_count = d.inode[ino].i_links_count
             /\ Count(d.inode[ino]) > 0 => ~g.inode[ino].i_dtime
<1> DEFINE r == d.inode[ino]
           n == Count(r)
           t == IF n > 0 THEN FALSE ELSE r.i_dtime
           q == [r EXCEPT !.i_dtime = t]
           bb == d.bbm \cup BlocksOf(r)
           fb == d.free_blocks - n
           g == Revived(d, ino)
           h == [d EXCEPT !.bbm = bb, !.ibm = d.ibm, !.free_blocks = fb,
                          !.free_inodes = d.free_inodes, !.inode = [d.inode EXCEPT ![ino] = q]]
<1>1. r \in InodeType
  BY Fields
<1>2. n \in Nat /\ t \in BOOLEAN
  BY <1>1, InodeFields
<1>3. bb \in SUBSET Block /\ fb \in Int /\ d.ibm \in SUBSET Inode /\ d.free_inodes \in Int
  BY <1>2, Fields
<1>4. FileBlocks(d, ino) = BlocksOf(r) /\ BlockCount(d, ino) = n
  BY DEF FileBlocks, BlocksOf, Used, Count, BlockCount
<1>5. g = h
  <2>1. g = [d EXCEPT !.bbm = bb, !.free_blocks = fb, !.inode[ino].i_dtime = t]
    BY <1>4 DEF Revived
  <2> HIDE DEF g, bb, fb, t
  <2> QED
    BY <2>1 DEF Image
<1>6. /\ q \in InodeType /\ q.i_mode = r.i_mode /\ q.i_blocks = r.i_blocks /\ q.i_block = r.i_block
      /\ q.i_links_count = r.i_links_count /\ q.i_dtime = t
  <2> HIDE DEF r, t
  <2> QED
    BY <1>1, <1>2 DEF InodeType
<1>7. n > 0 => t = FALSE
  OBVIOUS
<1> HIDE DEF q, t, n, bb, fb, g
<1>8. NewFields(d, h, ino, q, bb, d.ibm)
  BY <1>3, <1>6, InodeWritten, Zenon
<1> HIDE DEF h
<1>9. g.inode[ino] = q /\ NewFields(d, g, ino, g.inode[ino], bb, d.ibm)
  BY <1>5, <1>8 DEF NewFields
<1> QED
  BY <1>6, <1>7, <1>9 DEF g, bb, n

RestoredTo(d, f, ino) ==
  /\ NewFields(d, f, ino, f.inode[ino], d.bbm \cup BlocksOf(d.inode[ino]), d.ibm \cup {ino})
  /\ f.inode[ino].i_mode = d.inode[ino].i_mode
  /\ f.inode[ino].i_blocks = d.inode[ino].i_blocks
  /\ f.inode[ino].i_block = d.inode[ino].i_block
  /\ f.inode[ino].i_links_count = 1
  /\ Count(d.inode[ino]) > 0 => ~f.inode[ino].i_dtime

LEMMA RestoredFields ==
  ASSUME NEW d \in Image, NEW ino \in Inode, BlocksOf(d.inode[ino]) \subseteq Block, NEW type
  PROVE  LET f == RestoredInode(d, ino, type)
         IN  /\ f \in Image
             /\ d.inode[ino].i_links_count = 0 /\ BlocksOf(d.inode[ino]) \cap d.bbm = {}
                  => RestoredTo(d, f, ino)
<1> DEFINE f == RestoredInode(d, ino, type)
           r == Revived(d, ino)
           l == Linked(d, ino)
           more == d.inode[ino].i_links_count >= 1 /\ type # "lnk"
           taken == BlocksOf(d.inode[ino]) \cap d.bbm # {}
<1>1. FileBlocks(d, ino) = BlocksOf(d.inode[ino])
  BY DEF FileBlocks, BlocksOf, Used, Count, BlockCount
<1>2. f = IF taken THEN d ELSE Marked(IF more THEN l ELSE r, ino)
  BY <1>1 DEF RestoredInode, Marked, Linked
<1> HIDE DEF f
<1>3. /\ NewFields(d, r, ino, r.inode[ino], d.bbm \cup BlocksOf(d.inode[ino]), d.ibm)
      /\ r.inode[ino].i_mode = d.inode[ino].i_mode
      /\ r.inode[ino].i_blocks = d.inode[ino].i_blocks
      /\ r.inode[ino].i_block = d.inode[ino].i_block
      /\ r.inode[ino].i_links_count = d.inode[ino].i_links_count
      /\ Count(d.inode[ino]) > 0 => ~r.inode[ino].i_dtime
  BY RevivedFields
<1> HIDE DEF r
<1>4. NewFields(d, l, ino, l.inode[ino], d.bbm, d.ibm)
  BY LinkedFields
<1> HIDE DEF l
<1>5. l \in Image /\ r \in Image
  BY <1>3, <1>4 DEF NewFields
<1>6. /\ Marked(l, ino) \in Image
      /\ Marked(r, ino) \in Image
  BY <1>5, MarkedFields DEF NewFields
<1>7. f \in Image
  BY <1>2, <1>6
<1>8. ASSUME d.inode[ino].i_links_count = 0, ~taken PROVE RestoredTo(d, f, ino)
  <2>1. f = Marked(r, ino)
    BY <1>2, <1>8
  <2> DEFINE h == Marked(r, ino)
  <2>2. /\ NewFields(r, h, ino, h.inode[ino], r.bbm, r.ibm \cup {ino})
        /\ h.inode[ino].i_mode = r.inode[ino].i_mode
        /\ h.inode[ino].i_blocks = r.inode[ino].i_blocks
        /\ h.inode[ino].i_block = r.inode[ino].i_block
        /\ h.inode[ino].i_dtime = r.inode[ino].i_dtime
        /\ h.inode[ino].i_links_count = r.inode[ino].i_links_count + 1
    BY <1>5, MarkedFields
  <2> HIDE DEF h
  <2>3. NewFields(d, h, ino, h.inode[ino], d.bbm \cup BlocksOf(d.inode[ino]), d.ibm \cup {ino})
    BY <1>3, <2>2 DEF NewFields
  <2>4. RestoredTo(d, h, ino)
    BY <1>3, <1>8, <2>2, <2>3 DEF RestoredTo
  <2> QED
    BY <2>1, <2>4 DEF h
<1> QED
  BY <1>7, <1>8 DEF f

LEMMA OwnBlocks ==
  ASSUME NEW d, Own(d), NEW i \in Inode
  PROVE  BlocksOf(d.inode[i]) \subseteq Block /\ InodeOK(d.inode[i])
<1>1. InodeOK(d.inode[i])
  BY DEF Own
<1> QED
  BY <1>1 DEF InodeOK, BlocksOf

\* restore_file, whatever the cell.
LEMMA RestoreTyped ==
  ASSUME NEW d \in Image, Good(d), NEW dir, NEW v, Stopped(d, dir, v)
  PROVE  restore_file(d, v) \in Image
<1> DEFINE c == d.block[v.b]
           n == [c EXCEPT ![v.q].rec_len = v.p - v.q]
           e == Write(d, v.b, n)
           ino == c[v.p].inode
<1>1. Sound(d, PlacesOf(d)) /\ Own(d)
  BY SoundParts DEF Good
<1>2. v.b \in Block /\ v.p \in Cell /\ v.q \in Nat /\ v.q <= v.p /\ v.p \in Nat
  BY BlockSizes DEF Stopped
<1>3. c \in [Cell -> EntryType] /\ v.p - v.q \in Nat
  BY <1>2, Fields
<1>4. n \in [Cell -> EntryType]
  <2> HIDE DEF c
  <2> QED
    BY <1>3, LengthWritten
<1> HIDE DEF n
<1>5. Rewritten(d, e, v.b, n)
  BY <1>2, <1>4, Written
<1>6. e \in Image /\ e.inode = d.inode
  BY <1>5 DEF Rewritten
<1>7. restore_file(d, v) = IF ino \in Inode THEN RestoredInode(e, ino, c[v.p].file_type)
                           ELSE [e EXCEPT !.free_inodes = @ - 1]
  BY DEF restore_file, n
<1> HIDE DEF e
<1>8. [e EXCEPT !.free_inodes = @ - 1] \in Image
  BY <1>6, FreeInodesWritten
<1>9. ASSUME ino \in Inode PROVE RestoredInode(e, ino, c[v.p].file_type) \in Image
  <2>1. BlocksOf(e.inode[ino]) \subseteq Block
    <3> HIDE DEF ino, c
    <3> QED
      BY <1>1, <1>6, <1>9, OwnBlocks
  <2> HIDE DEF ino, c
  <2> QED
    BY <1>6, <1>9, <2>1, RestoredFields
<1> QED
  BY <1>7, <1>8, <1>9

\* restore of what was removed.
LEMMA RestoreSound ==
  ASSUME NEW d \in Image, Good(d), NEW dir, NEW v, Stopped(d, dir, v), NEW name \in Name,
         Restorable(d, v, d.block[v.b], name)
  PROVE  Good(restore_file(d, v)) /\ Revives(d, restore_file(d, v), dir, name)
<1> DEFINE P == PlacesOf(d)
           c == d.block[v.b]
           n == [c EXCEPT ![v.q].rec_len = v.p - v.q]
           e == Write(d, v.b, n)
           ino == c[v.p].inode
           type == c[v.p].file_type
           f == restore_file(d, v)
<1>1. Sound(d, P)
  BY DEF Good
<1>2. /\ Own(d) /\ Laid(d, P) /\ NothingElse(d) /\ Live(d, P) /\ Counted(d, P) /\ P \subseteq Place
  BY <1>1, SoundParts
<1>3. PICK s \in Used(d.inode[dir]) : v.b = d.inode[dir].i_block[s]
  BY DEF Stopped
<1>4. /\ dir \in Dirs(d) /\ v.b \in Block /\ v.p \in Cell /\ v.q \in Nat /\ v.q <= v.p /\ v.p \in Nat
      /\ v.dir = dir
  BY BlockSizes DEF Stopped
<1>5. /\ c \in [Cell -> EntryType] /\ Chain(c, Shown(c)) /\ Content(d, dir, s) = c
  BY <1>2, <1>3, <1>4, BlockShows, SMTT(30)
<1>6. v.p - v.q \in Nat
  BY <1>4
<1>7. n \in [Cell -> EntryType]
  <2> HIDE DEF c
  <2> QED
    BY <1>5, <1>6, LengthWritten
<1>8. /\ c[v.p].name = name /\ ino \in Inode \ d.ibm /\ type = d.inode[ino].i_mode
      /\ FileBlocks(d, ino) # {} /\ FileBlocks(d, ino) \cap d.bbm = {}
      /\ v.q \in Shown(c) /\ v.q + c[v.q].rec_len = v.p + c[v.p].rec_len
      /\ ~Has(d, dir, name)
  BY <1>4, Zenon DEF Restorable
<1>9. FileBlocks(d, ino) = BlocksOf(d.inode[ino])
  BY DEF FileBlocks, BlocksOf, Used, Count, BlockCount
<1>10. v.p \notin Shown(c)
  <2>1. s \in 0 .. BlockCount(d, dir) - 1
    BY <1>2, <1>3, <1>4, DirectoryBlocks, SMTT(30) DEF BlockCount, Count
  <2>2. Named(c, name) = {}
    BY <1>5, <1>8, <2>1, Zenon DEF Has
  <2> HIDE DEF c
  <2> QED
    BY <1>8, <2>2 DEF Named
<1>11. type # "dir" /\ d.inode[ino].i_links_count = 0
  <2>1. type # "dir"
    BY <1>2, <1>4, <1>10 DEF NothingElse
  <2>2. d.inode[ino].i_links_count = 0
    <3> HIDE DEF ino
    <3> QED
      BY <1>2, <1>8, FreeHasNoLinks
  <2> QED
    BY <2>1, <2>2, SMTT(30)
<1>28. type \in {"reg", "lnk"}
  <2>1. c[v.p] \in EntryType
    <3> HIDE DEF c
    <3> QED
      BY <1>4, <1>5
  <2>2. type \in {"unknown", "reg", "dir", "lnk"}
    <3> HIDE DEF c
    <3> QED
      BY <2>1 DEF EntryType
  <2> HIDE DEF ino, type
  <2>3. d.inode[ino].i_mode \in {"none", "reg", "dir", "lnk"}
    BY <1>8, Fields, InodeFields
  <2> QED
    BY <1>8, <1>11, <2>2, <2>3
<1>12. f = RestoredInode(e, ino, type)
  BY <1>8, Zenon DEF restore_file
<1> HIDE DEF n
<1>13. Rewritten(d, e, v.b, n)
  BY <1>4, <1>7, Written
<1>14. NameNew(d, P, dir, name)
  <2> HIDE DEF P
  <2> QED
    BY <1>1, <1>4, <1>8, NoSuchName, Zenon
<1>15. \E x : Opened(d, P, e, x, dir, Entry(name, type, ino, 0))
  <2>1. v.q \in Shown(c) /\ v.p \in Cell \ Shown(c) /\ v.q <= v.p
        /\ v.q + c[v.q].rec_len = v.p + c[v.p].rec_len
    BY <1>4, <1>8, <1>10, Zenon
  <2>2. e = Write(d, v.b, [c EXCEPT ![v.q].rec_len = v.p - v.q])
    BY DEF n
  <2> HIDE DEF P, c, e
  <2>3. \E x : Opened(d, P, e, x, dir, Entry(c[v.p].name, c[v.p].file_type, c[v.p].inode, 0))
    BY <1>1, <1>3, <1>4, <2>1, <2>2, EnteredAgain, Zenon DEF c
  <2> QED
    BY <1>8, <2>3, SMTT(30)
<1> HIDE DEF P, c, e, ino, type, f
<1>16. e \in Image /\ e.inode = d.inode /\ e.bbm = d.bbm /\ e.ibm = d.ibm
  BY <1>13 DEF Rewritten
<1>17. BlocksOf(d.inode[ino]) \subseteq Block /\ InodeOK(d.inode[ino])
  BY <1>2, <1>8, OwnBlocks
<1>18. f \in Image /\ RestoredTo(e, f, ino)
  <2>1. /\ e.inode[ino].i_links_count = 0 /\ BlocksOf(e.inode[ino]) \cap e.bbm = {}
        /\ BlocksOf(e.inode[ino]) \subseteq Block /\ ino \in Inode
    BY <1>8, <1>9, <1>11, <1>16, <1>17
  <2> QED
    BY <1>12, <1>16, <2>1, RestoredFields
<1>19. Count(d.inode[ino]) > 0
  <2> DEFINE r == d.inode[ino]
  <2>1. r \in InodeType
    BY <1>8, Fields
  <2> HIDE DEF r
  <2>2. Count(r) \in Nat
    BY <2>1, InodeFields
  <2>3. BlocksOf(r) # {}
    BY <1>8, <1>9 DEF r
  <2>4. PICK s1 \in Slot : s1 < Count(r)
    BY <2>3 DEF BlocksOf, Used
  <2>5. s1 \in Nat
    BY Slots
  <2>6. Count(r) > 0
    BY <2>2, <2>4, <2>5
  <2> QED
    BY <2>6 DEF r
<1>21. InodeOK(f.inode[ino]) /\ BlocksOf(f.inode[ino]) = BlocksOf(d.inode[ino])
  <2>1. /\ f.inode[ino].i_mode = d.inode[ino].i_mode /\ f.inode[ino].i_blocks = d.inode[ino].i_blocks
        /\ f.inode[ino].i_block = d.inode[ino].i_block
    BY <1>16, <1>18 DEF RestoredTo
  <2> QED
    BY <1>17, <2>1 DEF InodeOK, BlocksOf, Used, Count
<1>22. IntoUse(e, f, ino)
  <2>1. \A i \in Inode \ {ino} : Kept(f.inode[i], e.inode[i])
    BY <1>18 DEF RestoredTo, NewFields, Kept
  <2>2. e.ibm \subseteq Inode
    BY <1>16, Fields
  <2>3. ~f.inode[ino].i_dtime /\ f.inode[ino].i_links_count = 1
    BY <1>16, <1>18, <1>19 DEF RestoredTo
  <2> QED
    BY <1>8, <1>9, <1>16, <1>18, <1>21, <2>1, <2>2, <2>3 DEF IntoUse, RestoredTo, NewFields
<1>23. FileMade(d, e, f, ino, type)
  BY <1>8, <1>11, <1>16, <1>18, <1>22 DEF FileMade, RestoredTo, NewFields
<1>24. PICK x : Opened(d, P, e, x, dir, Entry(name, type, ino, 0))
  BY <1>15
<1>25. Sound(f, P \cup {x}) /\ Gives(d, f, dir, name, ino)
  BY <1>1, <1>14, <1>23, <1>24, SoundWithFile
<1>26. /\ Held(f.inode[ino]) = Held(d.inode[ino])
       /\ Held(d.inode[ino]).type = type /\ Held(d.inode[ino]).size > 0
  BY <1>8, <1>11, <1>16, <1>18, <1>19 DEF Held, Count, RestoredTo
<1>27. Revives(d, f, dir, name)
  BY <1>8, <1>25, <1>26, <1>28 DEF Revives
<1> QED
  BY <1>18, <1>25, <1>27, GoodWhenSound DEF f

LEMMA RestoreFits ==
  ASSUME disk \in Image, Good(disk), NEW path \in Path, ext2_restore(path)
  PROVE  Fit(disk', damage') /\ (damage' = "none" => Undone(disk, disk', path))
<1>1. Sound(disk, PlacesOf(disk))
  BY DEF Good
<1> DEFINE v == Deleted(disk, path)
           d == restore_file(disk, v)
           harm == IF Restorable(disk, v, disk.block[v.b], Last(path)) THEN "none" ELSE "stale"
<1>2. v # NoStop /\ disk' = d /\ damage' = harm
  BY DEF ext2_restore, Leaves
<1>3. PICK dir : Leads(disk, path, dir) /\ Stopped(disk, dir, v)
  <2> HIDE DEF v
  <2> QED
    BY <1>1, <1>2, DeletedIs DEF v
<1>4. d \in Image
  <2> HIDE DEF v
  <2> QED
    BY <1>3, RestoreTyped
<1>5. ASSUME harm = "none" PROVE Good(d) /\ Revives(disk, d, dir, Last(path))
  <2>1. Restorable(disk, v, disk.block[v.b], Last(path)) /\ Last(path) \in Name
    BY <1>5, Paths
  <2> HIDE DEF v
  <2> QED
    BY <1>3, <2>1, RestoreSound
<1> HIDE DEF d
<1>6. harm \in Damages
  BY DEF Damages
<1> QED
  BY <1>2, <1>3, <1>4, <1>5, <1>6 DEF Fit, Undone

-----------------------------------------------------------------------------
(* The new image.                                                          *)

LEMMA RmStepFits ==
  ASSUME disk \in Image, Good(disk), NEW path \in Path, ext2_rm(path)
  PROVE  Fit(disk', damage') /\ (damage' = "none" => Unnamed(disk, disk', path))
<1> DEFINE v == Victim(disk, path)
<1>1. /\ path_exists(disk, path) \in {"file", "new"} /\ v # NoVictim
      /\ Leaves(remove_file(disk, v.b, v.p), IF v.p = 0 THEN "first" ELSE "none")
  BY DEF ext2_rm
<1>2. /\ Fit(remove_file(disk, v.b, v.p), IF v.p = 0 THEN "first" ELSE "none")
      /\ v.p # 0 => Unnamed(disk, remove_file(disk, v.b, v.p), path)
  BY <1>1, RmFits
<1> HIDE DEF v
<1> QED
  BY <1>1, <1>2 DEF Leaves

LEMMA FormattedInodes ==
  /\ NewInode("none", 0, 0) \in InodeType
  /\ LET r == [NewInode("dir", 2, 2) EXCEPT !.i_block[0] = 1]
     IN  /\ r \in InodeType /\ r.i_mode = "dir" /\ r.i_links_count = 2 /\ r.i_blocks = 2
         /\ ~r.i_dtime /\ r.i_block[0] = 1 /\ r.i_block[2] = 0
<1> DEFINE z == [i \in Slot |-> 0]
           k == [z EXCEPT ![0] = 1]
           q == NewInode("dir", 2, 2)
           r == [q EXCEPT !.i_block = k]
<1>1. z \in [Slot -> {-1, 0} \cup Block] /\ 0 \in Slot /\ 2 \in Slot /\ 1 \in Block
  BY Slots, Numbers
<1>2. k \in [Slot -> {-1, 0} \cup Block] /\ k[0] = 1 /\ k[2] = 0
  BY <1>1
<1>3. NewInode("none", 0, 0) \in InodeType
  <2> HIDE DEF z
  <2>1. NewInode("none", 0, 0) = [i_mode |-> "none", i_links_count |-> 0, i_blocks |-> 0,
                                  i_block |-> z, i_dtime |-> FALSE]
    BY DEF NewInode, z
  <2>2. [i_mode |-> "none", i_links_count |-> 0, i_blocks |-> 0, i_block |-> z, i_dtime |-> FALSE]
          \in InodeType
    BY <1>1 DEF InodeType
  <2> QED
    BY <2>1, <2>2
<1>4. /\ q \in InodeType /\ q.i_mode = "dir" /\ q.i_links_count = 2 /\ q.i_blocks = 2
      /\ q.i_dtime = FALSE
  <2>1. q = [i_mode |-> "dir", i_links_count |-> 2, i_blocks |-> 2, i_block |-> z, i_dtime |-> FALSE]
    BY DEF NewInode
  <2> HIDE DEF z
  <2>2. [i_mode |-> "dir", i_links_count |-> 2, i_blocks |-> 2, i_block |-> z, i_dtime |-> FALSE]
          \in InodeType
    BY <1>1 DEF InodeType
  <2> HIDE DEF q
  <2> QED
    BY <2>1, <2>2
<1>5. r = [NewInode("dir", 2, 2) EXCEPT !.i_block[0] = 1]
  BY DEF NewInode
<1> HIDE DEF z, k, q
<1>6. /\ r \in InodeType /\ r.i_mode = "dir" /\ r.i_links_count = 2 /\ r.i_blocks = 2
      /\ r.i_dtime = FALSE /\ r.i_block = k
  BY <1>2, <1>4 DEF InodeType
<1> HIDE DEF r
<1>7. /\ r \in InodeType /\ r.i_mode = "dir" /\ r.i_links_count = 2 /\ r.i_blocks = 2
      /\ ~r.i_dtime /\ r.i_block[0] = 1 /\ r.i_block[2] = 0
  BY <1>2, <1>6
<1> QED
  BY <1>3, <1>5, <1>7

LEMMA FormattedFields ==
  LET d == Formatted
      root == EXT2_ROOT_INO
  IN  /\ d \in Image /\ d.bbm = {1} /\ d.ibm = {root} /\ root \in Inode /\ 1 \in Block
      /\ \A i \in Inode \ {root} : d.inode[i] = NewInode("none", 0, 0)
      /\ d.inode[root] = [NewInode("dir", 2, 2) EXCEPT !.i_block[0] = 1]
      /\ d.block[1] = NewDirectory(root, root) /\ \A b \in Block \ {1} : d.block[b] = Zeros
<1> DEFINE root == EXT2_ROOT_INO
           q == NewInode("none", 0, 0)
           r == [NewInode("dir", 2, 2) EXCEPT !.i_block[0] = 1]
           n == NewDirectory(root, root)
           t == [i \in Inode |-> IF i = root THEN r ELSE q]
           u == [b \in Block |-> IF b = 1 THEN n ELSE Zeros]
           fb == s_blocks_count - 2
           fi == s_inodes_count - root
           d == Formatted
<1>1. d = [bbm |-> {1}, ibm |-> {root}, free_blocks |-> fb, free_inodes |-> fi, inode |-> t, block |-> u]
  BY DEF Formatted
<1>2. q \in InodeType /\ r \in InodeType
  BY FormattedInodes
<1>3. root \in Inode /\ 1 \in Block
  BY Numbers
<1>4. n \in [Cell -> EntryType] /\ Zeros \in [Cell -> EntryType]
  BY <1>3, NewDirectoryTyped, ZerosTyped
<1>5. fb \in Int /\ fi \in Int
  BY SizesAssumption DEF EXT2_ROOT_INO
<1> HIDE DEF q, r, n, fb, fi, d, root
<1>6. t \in [Inode -> InodeType] /\ u \in [Block -> [Cell -> EntryType]]
  BY <1>2, <1>4
<1>7. /\ \A i \in Inode \ {root} : t[i] = q
      /\ t[root] = r /\ u[1] = n /\ \A b \in Block \ {1} : u[b] = Zeros
  BY <1>3
<1> HIDE DEF t, u
<1>8. d \in Image /\ d.bbm = {1} /\ d.ibm = {root} /\ d.inode = t /\ d.block = u
  BY <1>1, <1>3, <1>5, <1>6 DEF Image
<1>9. /\ d \in Image /\ d.bbm = {1} /\ d.ibm = {root} /\ root \in Inode /\ 1 \in Block
      /\ \A i \in Inode \ {root} : d.inode[i] = q
      /\ d.inode[root] = r
      /\ d.block[1] = n /\ \A b \in Block \ {1} : d.block[b] = Zeros
  BY <1>3, <1>7, <1>8
<1> QED
  BY <1>9 DEF d, q, r, n, root

LEMMA FormattedGood == Formatted \in Image /\ Good(Formatted) /\ Edges(Formatted) = {}
<1> DEFINE d == Formatted
           root == EXT2_ROOT_INO
           q == NewInode("none", 0, 0)
           r == [NewInode("dir", 2, 2) EXCEPT !.i_block[0] = 1]
           n == NewDirectory(root, root)
           x == Dot(root)
           y == DotDot(root)
           P == {x, y}
<1>1. /\ d \in Image /\ d.bbm = {1} /\ d.ibm = {root} /\ root \in Inode /\ 1 \in Block
      /\ \A i \in Inode \ {root} : d.inode[i] = q
      /\ d.inode[root] = r
      /\ d.block[1] = n /\ \A b \in Block \ {1} : d.block[b] = Zeros
  BY FormattedFields
<1>2. q.i_mode = "none" /\ q.i_links_count = 0 /\ q.i_blocks = 0
  BY DEF NewInode
<1>3. /\ r.i_mode = "dir" /\ r.i_links_count = 2 /\ r.i_blocks = 2
      /\ ~r.i_dtime /\ r.i_block[0] = 1 /\ r.i_block[2] = 0
  BY FormattedInodes
<1>4. /\ n \in [Cell -> EntryType] /\ Chain(n, {0, 1})
      /\ Alike(n[0], Entry(".", "dir", root, 0)) /\ Alike(n[1], Entry("..", "dir", root, 0))
      /\ \A p \in Cell \ {0, 1} : n[p] = Zero
  BY <1>1, NewDirectoryTyped
<1> HIDE DEF d, root, q, r, n
<1>5. Count(r) = 1 /\ Used(r) = {0} /\ BlocksOf(r) = {1}
  <2>1. Count(r) = 1
    BY <1>3 DEF Count
  <2> QED
    BY <1>3, <2>1, UsedSlots DEF BlocksOf
<1>6. Count(q) = 0 /\ Used(q) = {}
  <2>1. Count(q) = 0
    BY <1>2 DEF Count
  <2>2. \A s \in Slot : s \in Nat
    BY Slots
  <2> QED
    BY <2>1, <2>2 DEF Used
<1>7. Dirs(d) = {root}
  BY <1>1, <1>3 DEF Dirs
<1>8. Own(d)
  <2>1. InodeOK(r)
    BY <1>1, <1>3, <1>5, Slots DEF InodeOK
  <2>2. InodeOK(q)
    BY <1>2, <1>6 DEF InodeOK
  <2>3. \A i \in Inode : InodeOK(d.inode[i]) /\ (d.inode[i].i_mode = "dir" => i \in d.ibm)
    BY <1>1, <1>2, <2>1, <2>2
  <2> QED
    BY <1>1, <1>3, <1>5, <2>3 DEF Own
<1>9. /\ x \in Place /\ y \in Place /\ x # y /\ x[1] = root /\ y[1] = root
      /\ x[2][1] = 0 /\ y[2][1] = 0 /\ x[2][2] = 0 /\ y[2][2] = 1
  BY <1>1, BlockSizes, Slots DEF Dot, DotDot, Place
<1>10. InDir(P, root, 0) = {0, 1}
  BY BlockSizes DEF InDir, Dot, DotDot
<1>11. Ent(d, x) = n[0] /\ Ent(d, y) = n[1]
  BY <1>1, <1>3, <1>9 DEF Ent
<1> HIDE DEF x, y
<1>12. Laid(d, P)
  BY <1>1, <1>3, <1>4, <1>5, <1>7, <1>9, <1>10 DEF Laid
<1>13. NothingElse(d)
  <2>1. Shown(n) = {0, 1}
    BY <1>4, EntryLengths, ChainShown
  <2>2. \A p \in Cell : Zeros[p].file_type # "dir"
    BY ZerosTyped, ZeroTyped
  <2>3. \A p \in Cell \ {0, 1} : n[p].file_type # "dir"
    BY <1>4, ZeroTyped
  <2>4. \A b \in Block : \A p \in Cell \ Shown(d.block[b]) : d.block[b][p].file_type # "dir"
    BY <1>1, <2>1, <2>2, <2>3
  <2>5. \A b \in Block : (\A i \in Dirs(d) : b \notin BlocksOf(d.inode[i])) => d.block[b] = Zeros
    BY <1>1, <1>5, <1>7
  <2> QED
    BY <2>4, <2>5 DEF NothingElse
<1>14. /\ Ent(d, x).name = "." /\ Ent(d, x).file_type = "dir" /\ Ent(d, x).inode = root
       /\ Ent(d, y).name = ".." /\ Ent(d, y).file_type = "dir" /\ Ent(d, y).inode = root
  <2>1. /\ n[0].name = "." /\ n[0].file_type = "dir" /\ n[0].inode = root
        /\ n[1].name = ".." /\ n[1].file_type = "dir" /\ n[1].inode = root
    BY <1>4 DEF Alike, Entry
  <2> QED
    BY <1>11, <2>1
<1>15. Distinct(d, P)
  BY <1>14 DEF Distinct
<1>16. Rooted(d, P)
  BY <1>7, <1>14 DEF Rooted, x, y, root
<1>17. Live(d, P)
  BY <1>1, <1>3, <1>14 DEF Live, Naming
<1>18. Counted(d, P)
  <2>1. Naming(d, P, root) = {x, y}
    BY <1>14 DEF Naming
  <2>2. \A i \in Inode \ {root} : Naming(d, P, i) = {}
    BY <1>14 DEF Naming
  <2>3. Cardinality({x, y}) = 2
    BY <1>9, TwoElements
  <2>4. Cardinality({}) = 0
    BY FS_EmptySet
  <2>5. d.inode[root].i_links_count = Cardinality(Naming(d, P, root))
    BY <1>1, <1>3, <2>1, <2>3
  <2>6. \A i \in Inode \ {root} : d.inode[i].i_links_count = Cardinality(Naming(d, P, i))
    BY <1>1, <1>2, <2>2, <2>4
  <2> HIDE DEF P
  <2> QED
    BY <2>5, <2>6 DEF Counted
<1> HIDE DEF P
<1>19. Sound(d, P)
  BY <1>8, <1>12, <1>13, <1>15, <1>16, <1>17, <1>18 DEF Sound, Layout, Arranged
<1>20. Good(d)
  BY <1>1, <1>19, GoodWhenSound
<1>21. Edges(d) = {}
  <2>1. PlacesOf(d) = P
    BY <1>1, <1>19, SoundParts
  <2>2. \A z \in PlacesOf(d) : Ent(d, z).name \notin Name
    BY <1>14, <2>1, NameAssumption DEF P
  <2> QED
    BY <2>2 DEF Edges
<1> QED
  BY <1>1, <1>20, <1>21 DEF d

-----------------------------------------------------------------------------
(* The invariant.                                                          *)

LEMMA StepFits ==
  ASSUME disk \in Image, Good(disk), Next
  PROVE  Fit(disk', damage') /\ (damage' = "none" => Worked(disk, disk'))
<1>1. PICK path \in Path :
        \/ ext2_mkdir(path)
        \/ \E size \in Size : ext2_cp(path, size)
        \/ \E target \in Path : ext2_ln(target, path)
        \/ ext2_ln_s(path)
        \/ ext2_rm(path)
        \/ ext2_restore(path)
  BY DEF Next
<1>2. CASE ext2_mkdir(path)
  BY <1>2, MkdirFits DEF Worked
<1>3. CASE \E size \in Size : ext2_cp(path, size)
  BY <1>3, CpFits DEF Worked
<1>4. CASE (\E target \in Path : ext2_ln(target, path)) \/ ext2_ln_s(path)
  BY <1>4, LnFits DEF Worked
<1>5. CASE ext2_rm(path)
  BY <1>5, RmStepFits DEF Worked
<1>6. CASE ext2_restore(path)
  BY <1>6, RestoreFits DEF Worked
<1> QED
  BY <1>1, <1>2, <1>3, <1>4, <1>5, <1>6

\* A tool keeps the invariant.
LEMMA StepKeeps == IInv /\ Next => IInv'
<1> SUFFICES ASSUME IInv, Next PROVE IInv'
  OBVIOUS
<1>1. damage = "none" /\ disk \in Image /\ Good(disk)
  BY DEF Next, IInv
<1>2. Fit(disk', damage')
  BY <1>1, StepFits
<1> QED
  BY <1>2 DEF Fit, IInv, Good, Image, Sound

\* Whatever the tools are called with, one after the other and as often as one
\* likes, every number in the image stays one they can follow, and the image is
\* a good file system until one of them reports damage.
THEOREM Ext2Invariance == Spec => []IInv
<1>1. Init => IInv
  BY FormattedGood DEF Init, IInv, Damages
<1>2. ASSUME IInv, [Next]_vars PROVE IInv'
  <2>1. CASE Next
    BY <1>2, <2>1, StepKeeps
  <2>2. CASE UNCHANGED vars
    BY <1>2, <2>2 DEF vars, IInv
  <2> QED
    BY <1>2, <2>1, <2>2
<1> QED
  BY <1>1, <1>2, PTL DEF Spec

-----------------------------------------------------------------------------
(* What the invariant says of the image.                                   *)

LEMMA PlacesView ==
  ASSUME disk \in Image, Good(disk), NEW dir \in Dirs(disk)
  PROVE  /\ \A x \in Places(dir) : /\ x \in Slot \X Cell /\ x[1] \in Used(disk.inode[dir])
                                   /\ <<dir, x>> \in PlacesOf(disk)
                                   /\ At(dir, x) = Ent(disk, <<dir, x>>)
         /\ \A y \in PlacesOf(disk) : y[1] = dir =>
              /\ y[2] \in Places(dir) /\ At(dir, y[2]) = Ent(disk, y) /\ y = <<dir, y[2]>>
<1> DEFINE P == PlacesOf(disk)
<1>1. Sound(disk, P)
  BY DEF Good
<1>2. Own(disk) /\ Laid(disk, P) /\ P \subseteq Place
  BY <1>1, SoundParts
<1>3. /\ Used(disk.inode[dir]) = 0 .. BlockCount(disk, dir) - 1
      /\ Used(disk.inode[dir]) \subseteq Slot
  BY <1>2, DirectoryBlocks DEF BlockCount, Count
<1> HIDE DEF P
<1>4. \A s \in Used(disk.inode[dir]) :
        LET c == disk.block[disk.inode[dir].i_block[s]]
        IN  /\ Shown(c) = InDir(P, dir, s) /\ Content(disk, dir, s) = c
            /\ \A p \in Shown(c) : /\ <<dir, <<s, p>>>> \in P
                                   /\ Ent(disk, <<dir, <<s, p>>>>) = c[p]
  BY <1>2, BlockShows
<1>5. ASSUME NEW x \in Places(dir)
      PROVE  /\ x \in Slot \X Cell /\ x[1] \in Used(disk.inode[dir])
             /\ <<dir, x>> \in P /\ At(dir, x) = Ent(disk, <<dir, x>>)
  <2>1. /\ x \in (0 .. BlockCount(disk, dir) - 1) \X Cell
        /\ x[2] \in Shown(Content(disk, dir, x[1]))
    BY DEF Places
  <2>2. x = <<x[1], x[2]>> /\ x[1] \in Used(disk.inode[dir]) /\ x[2] \in Cell
    BY <1>3, <2>1
  <2>3. <<dir, <<x[1], x[2]>>>> \in P /\ Ent(disk, <<dir, <<x[1], x[2]>>>>) = Content(disk, dir, x[1])[x[2]]
    BY <1>4, <2>1, <2>2
  <2>4. <<dir, x>> \in P /\ Ent(disk, <<dir, x>>) = Content(disk, dir, x[1])[x[2]]
    BY <2>2, <2>3
  <2>5. x[1] \in Slot
    BY <1>3, <2>2
  <2> QED
    BY <2>2, <2>4, <2>5 DEF At
<1>6. ASSUME NEW y \in P, y[1] = dir
      PROVE  y[2] \in Places(dir) /\ At(dir, y[2]) = Ent(disk, y) /\ y = <<dir, y[2]>>
  <2> DEFINE s == y[2][1]
             p == y[2][2]
  <2>1. y \in Place
    BY <1>2
  <2>2. y = <<dir, y[2]>> /\ y[2] = <<s, p>> /\ p \in Cell
    BY <1>6, <2>1 DEF Place
  <2>3. s \in Used(disk.inode[dir])
    BY <1>2, <1>6 DEF Laid
  <2>4. <<dir, <<s, p>>>> \in P
    BY <2>2
  <2> HIDE DEF s, p
  <2>5. p \in Shown(Content(disk, dir, s))
    BY <1>4, <2>2, <2>3, <2>4 DEF InDir
  <2>6. Ent(disk, <<dir, <<s, p>>>>) = Content(disk, dir, s)[p]
    BY <1>4, <2>3, <2>5
  <2>7. y[2] \in Places(dir)
    BY <1>3, <2>2, <2>3, <2>5 DEF Places
  <2>8. At(dir, y[2]) = Content(disk, dir, s)[p]
    BY <2>2 DEF At
  <2>9. y = <<dir, <<s, p>>>>
    BY <2>2
  <2> QED
    BY <2>2, <2>6, <2>7, <2>8, <2>9
<1> QED
  BY <1>5, <1>6 DEF P

LEMMA GoodTypes == IInv => TypeOK
<1> SUFFICES ASSUME IInv PROVE TypeOK
  OBVIOUS
<1>1. disk \in Image
  BY DEF IInv
<1>2. DOMAIN disk = {"bbm", "ibm", "free_blocks", "free_inodes", "inode", "block"}
  BY <1>1 DEF Image
<1>3. /\ disk.bbm \subseteq Block /\ disk.ibm \subseteq Inode
      /\ disk.free_blocks \in Int /\ disk.free_inodes \in Int
      /\ \A i \in Inode : disk.inode[i] \in InodeType
      /\ \A b \in Block : \A p \in Cell : disk.block[b][p] \in EntryType
  BY <1>1, Fields
<1> QED
  BY <1>2, <1>3 DEF TypeOK, IInv, Damages

LEMMA GoodWhole ==
  ASSUME disk \in Image, Good(disk)
  PROVE  DirectoriesWhole
<1> DEFINE P == PlacesOf(disk)
<1>1. Sound(disk, P)
  BY DEF Good
<1>2. Own(disk) /\ Laid(disk, P) /\ Distinct(disk, P) /\ Rooted(disk, P)
  BY <1>1, SoundParts
<1>3. Directories = Dirs(disk)
  BY DEF Directories, Dirs
<1> SUFFICES ASSUME NEW dir \in Dirs(disk)
             PROVE  /\ \A i \in 0 .. BlockCount(disk, dir) - 1 :
                         LET c == Content(disk, dir, i)
                         IN  ~Stuck(c) /\ LastShown(c) + c[LastShown(c)].rec_len = EXT2_BLOCK_SIZE
                    /\ \A x, y \in Places(dir) : At(dir, x).name = At(dir, y).name => x = y
                    /\ {<<0, 0>>, <<0, 1>>} \subseteq Places(dir)
                    /\ At(dir, <<0, 0>>) = Entry(".", "dir", dir, 1)
                    /\ At(dir, <<0, 1>>).name = ".."
                    /\ LET up == At(dir, <<0, 1>>).inode
                       IN  /\ up \in Dirs(disk)
                           /\ \/ up = dir /\ dir = EXT2_ROOT_INO
                              \/ \E x \in Places(up) : At(up, x).inode = dir /\ At(up, x).name \in Name
  BY <1>3 DEF DirectoriesWhole
<1>4. Used(disk.inode[dir]) = 0 .. BlockCount(disk, dir) - 1 /\ 0 \in Used(disk.inode[dir])
  BY <1>2, DirectoryBlocks DEF BlockCount, Count
<1> HIDE DEF P
<1>5. \A i \in 0 .. BlockCount(disk, dir) - 1 :
        LET c == Content(disk, dir, i)
        IN  ~Stuck(c) /\ LastShown(c) + c[LastShown(c)].rec_len = EXT2_BLOCK_SIZE
  <2>1. ASSUME NEW i \in Used(disk.inode[dir])
        PROVE  LET c == Content(disk, dir, i)
               IN  ~Stuck(c) /\ LastShown(c) + c[LastShown(c)].rec_len = EXT2_BLOCK_SIZE
    <3> DEFINE c == disk.block[disk.inode[dir].i_block[i]]
    <3>1. /\ ~Stuck(c) /\ Content(disk, dir, i) = c
          /\ LastShown(c) + c[LastShown(c)].rec_len = EXT2_BLOCK_SIZE
      BY <1>2, <2>1, BlockShows, SMTT(30)
    <3> HIDE DEF c
    <3> QED
      BY <3>1
  <2> QED
    BY <1>4, <2>1
<1>6. /\ \A x \in Places(dir) : <<dir, x>> \in P /\ At(dir, x) = Ent(disk, <<dir, x>>)
      /\ \A y \in P : y[1] = dir => y[2] \in Places(dir) /\ At(dir, y[2]) = Ent(disk, y)
  BY PlacesView DEF P
<1>7. \A x, y \in Places(dir) : At(dir, x).name = At(dir, y).name => x = y
  <2> SUFFICES ASSUME NEW x \in Places(dir), NEW y \in Places(dir), At(dir, x).name = At(dir, y).name
               PROVE  x = y
    OBVIOUS
  <2>1. <<dir, x>> = <<dir, y>>
    BY <1>2, <1>6 DEF Distinct
  <2> QED
    BY <2>1
<1>8. /\ Dot(dir) \in P /\ DotDot(dir) \in P
      /\ Ent(disk, Dot(dir)).name = "." /\ Ent(disk, Dot(dir)).inode = dir
      /\ Ent(disk, DotDot(dir)).name = ".."
      /\ LET up == Ent(disk, DotDot(dir)).inode
         IN  /\ up \in Dirs(disk)
             /\ \/ up = dir /\ dir = EXT2_ROOT_INO
                \/ \E x \in P : x[1] = up /\ Ent(disk, x).inode = dir /\ Ent(disk, x).name \in Name
  BY <1>2 DEF Rooted
<1>9. /\ Dot(dir)[1] = dir /\ Dot(dir)[2] = <<0, 0>> /\ DotDot(dir)[1] = dir /\ DotDot(dir)[2] = <<0, 1>>
  BY DEF Dot, DotDot
<1>10. /\ {<<0, 0>>, <<0, 1>>} \subseteq Places(dir)
       /\ At(dir, <<0, 0>>) = Ent(disk, Dot(dir)) /\ At(dir, <<0, 1>>) = Ent(disk, DotDot(dir))
  BY <1>6, <1>8, <1>9
<1>11. At(dir, <<0, 0>>) = Entry(".", "dir", dir, 1)
  <2> DEFINE c == disk.block[disk.inode[dir].i_block[0]]
             e == c[0]
  <2>1. c \in [Cell -> EntryType] /\ Chain(c, InDir(P, dir, 0))
    <3>1. ASSUME NEW s \in Used(disk.inode[dir])
          PROVE  LET b == disk.block[disk.inode[dir].i_block[s]]
                 IN  b \in [Cell -> EntryType] /\ Chain(b, Shown(b)) /\ Shown(b) = InDir(P, dir, s)
      BY <1>2, BlockShows
    <3>2. c \in [Cell -> EntryType] /\ Chain(c, Shown(c)) /\ Shown(c) = InDir(P, dir, 0)
      BY <1>4, <3>1
    <3> QED
      BY <3>2, SMTT(30)
  <2>2. e = Ent(disk, Dot(dir))
    BY DEF Ent, Dot
  <2>3. 0 \in InDir(P, dir, 0) /\ 1 \in InDir(P, dir, 0)
    BY <1>8, BlockSizes DEF InDir, Dot, DotDot
  <2>4. e \in EntryType /\ e.rec_len \in Nat
    BY <2>1, BlockSizes, EntryLengths, Zenon DEF Lengths
  <2> HIDE DEF e
  <2>5. e.rec_len > 0 /\ 0 + e.rec_len <= 1
    <3> DEFINE T == InDir(P, dir, 0)
    <3>1. 0 \in T /\ 1 \in T /\ Chain(c, T)
      BY <2>1, <2>3
    <3> HIDE DEF T, c
    <3>2. c[0].rec_len > 0 /\ 0 + c[0].rec_len <= 1
      BY <3>1 DEF Chain
    <3> QED
      BY <3>2 DEF e
  <2>6. e.rec_len = 1
    BY <2>4, <2>5
  <2>7. e.file_type = "dir"
    BY <1>1, <1>8, <2>2, EntryKinds
  <2>8. e.name = "." /\ e.inode = dir
    BY <1>8, <2>2
  <2>9. e = [name |-> e.name, file_type |-> e.file_type, inode |-> e.inode, rec_len |-> e.rec_len]
    BY <2>4 DEF EntryType
  <2> QED
    BY <1>10, <2>2, <2>6, <2>7, <2>8, <2>9 DEF Entry
<1>12. LET up == At(dir, <<0, 1>>).inode
       IN  /\ up \in Dirs(disk)
           /\ \/ up = dir /\ dir = EXT2_ROOT_INO
              \/ \E x \in Places(up) : At(up, x).inode = dir /\ At(up, x).name \in Name
  <2> DEFINE up == At(dir, <<0, 1>>).inode
  <2>1. /\ up \in Dirs(disk)
        /\ \/ up = dir /\ dir = EXT2_ROOT_INO
           \/ \E x \in P : x[1] = up /\ Ent(disk, x).inode = dir /\ Ent(disk, x).name \in Name
    BY <1>8, <1>10
  <2> HIDE DEF up
  <2>2. \A y \in P : y[1] = up => y[2] \in Places(up) /\ At(up, y[2]) = Ent(disk, y)
    BY <2>1, PlacesView DEF P
  <2>3. ASSUME NEW x \in P, x[1] = up, Ent(disk, x).inode = dir, Ent(disk, x).name \in Name
        PROVE  \E z \in Places(up) : At(up, z).inode = dir /\ At(up, z).name \in Name
    <3>1. x[2] \in Places(up) /\ At(up, x[2]) = Ent(disk, x)
      BY <2>2, <2>3
    <3> QED
      BY <2>3, <3>1
  <2>4. /\ up \in Dirs(disk)
        /\ \/ up = dir /\ dir = EXT2_ROOT_INO
           \/ \E x \in Places(up) : At(up, x).inode = dir /\ At(up, x).name \in Name
    BY <2>1, <2>3
  <2> QED
    BY <2>4 DEF up
<1>13. At(dir, <<0, 1>>).name = ".."
  BY <1>8, <1>10
<1> QED
  BY <1>5, <1>7, <1>10, <1>11, <1>12, <1>13

LEMMA GoodLive ==
  ASSUME disk \in Image, Good(disk)
  PROVE  EntriesLive
<1> DEFINE P == PlacesOf(disk)
           named == UNION {{<<At(dir, x).inode, At(dir, x).file_type>> : x \in Places(dir)} :
                             dir \in Directories}
           live == {<<i, disk.inode[i].i_mode>> : i \in disk.ibm}
<1>1. Sound(disk, P)
  BY DEF Good
<1>2. Own(disk) /\ Laid(disk, P) /\ Live(disk, P)
  BY <1>1, SoundParts
<1>3. Directories = Dirs(disk)
  BY DEF Directories, Dirs
<1> HIDE DEF P
<1>4. named \subseteq live
  <2> SUFFICES ASSUME NEW dir \in Dirs(disk), NEW x \in Places(dir)
               PROVE  <<At(dir, x).inode, At(dir, x).file_type>> \in live
    BY <1>3
  <2>1. <<dir, x>> \in P /\ At(dir, x) = Ent(disk, <<dir, x>>)
    BY PlacesView DEF P
  <2>2. /\ At(dir, x).inode \in disk.ibm
        /\ At(dir, x).file_type = disk.inode[At(dir, x).inode].i_mode
    BY <1>2, <2>1 DEF Live
  <2> QED
    BY <2>2
<1>5. live \subseteq named
  <2> SUFFICES ASSUME NEW i \in disk.ibm PROVE <<i, disk.inode[i].i_mode>> \in named
    OBVIOUS
  <2>1. PICK y \in P : Ent(disk, y).inode = i
    BY <1>2 DEF Live, Naming
  <2> DEFINE dir == y[1]
             x == y[2]
  <2>2. dir \in Dirs(disk)
    BY <1>2, <2>1 DEF Laid
  <2>3. x \in Places(dir) /\ At(dir, x) = Ent(disk, y)
    BY <2>1, <2>2, PlacesView DEF P
  <2> HIDE DEF dir, x
  <2>4. At(dir, x).inode = i /\ At(dir, x).file_type = disk.inode[i].i_mode
    BY <1>2, <2>1, <2>3 DEF Live
  <2>5. <<i, disk.inode[i].i_mode>> \in {<<At(dir, z).inode, At(dir, z).file_type>> : z \in Places(dir)}
    BY <2>3, <2>4
  <2> QED
    BY <1>3, <2>2, <2>5
<1>6. \A i \in disk.ibm : ~disk.inode[i].i_dtime
  BY <1>2 DEF Own
<1> HIDE DEF named, live
<1>7. named = live
  BY <1>4, <1>5
<1> QED
  BY <1>6, <1>7 DEF EntriesLive, named, live

LEMMA GoodCounted ==
  ASSUME disk \in Image, Good(disk)
  PROVE  LinksCounted
<1> DEFINE P == PlacesOf(disk)
<1>1. Sound(disk, P)
  BY DEF Good
<1>2. Laid(disk, P) /\ Counted(disk, P) /\ disk.ibm \subseteq Inode
  BY <1>1, SoundParts
<1>3. Directories = Dirs(disk)
  BY DEF Directories, Dirs
<1> SUFFICES ASSUME NEW ino \in disk.ibm
             PROVE  disk.inode[ino].i_links_count =
                      Cardinality({x \in Directories \X (Slot \X Cell) :
                                     x[2] \in Places(x[1]) /\ At(x[1], x[2]).inode = ino})
  BY DEF LinksCounted
<1> DEFINE S == {x \in Directories \X (Slot \X Cell) :
                   x[2] \in Places(x[1]) /\ At(x[1], x[2]).inode = ino}
<1>4. ASSUME NEW x \in S PROVE x \in Naming(disk, P, ino)
  <2>1. /\ x = <<x[1], x[2]>> /\ x[1] \in Dirs(disk) /\ x[2] \in Places(x[1])
        /\ At(x[1], x[2]).inode = ino
    BY <1>3, <1>4
  <2>2. <<x[1], x[2]>> \in P /\ At(x[1], x[2]) = Ent(disk, <<x[1], x[2]>>)
    BY <2>1, PlacesView
  <2> HIDE DEF P
  <2> QED
    BY <2>1, <2>2 DEF Naming
<1>5. ASSUME NEW x \in Naming(disk, P, ino) PROVE x \in S
  <2> HIDE DEF P
  <2>1. x \in P /\ Ent(disk, x).inode = ino
    BY <1>5 DEF Naming
  <2>2. x[1] \in Dirs(disk)
    BY <1>2, <2>1 DEF Laid
  <2>3. x[2] \in Places(x[1]) /\ At(x[1], x[2]) = Ent(disk, x) /\ x = <<x[1], x[2]>>
    BY <2>1, <2>2, PlacesView DEF P
  <2>4. x[2] \in Slot \X Cell
    BY <2>2, <2>3, PlacesView
  <2> QED
    BY <1>3, <2>1, <2>2, <2>3, <2>4
<1> HIDE DEF P, S
<1>6. S = Naming(disk, P, ino)
  BY <1>4, <1>5
<1>7. disk.inode[ino].i_links_count = Cardinality(S)
  BY <1>2, <1>6 DEF Counted
<1> QED
  BY <1>7 DEF S

LEMMA GoodOwned ==
  ASSUME disk \in Image, Good(disk)
  PROVE  BlocksOwned
<1> DEFINE owned == {x \in disk.ibm \X Slot : x[2] < BlockCount(disk, x[1])}
           owner(x) == disk.inode[x[1]].i_block[x[2]]
           f == [x \in owned |-> owner(x)]
<1>1. Own(disk) /\ disk.ibm \subseteq Inode /\ disk.bbm \subseteq Block
  BY SoundParts, Fields DEF Good
<1>2. ASSUME NEW x \in owned
      PROVE  /\ x[1] \in disk.ibm /\ x[2] \in Used(disk.inode[x[1]]) /\ x = <<x[1], x[2]>>
             /\ owner(x) \in BlocksOf(disk.inode[x[1]]) /\ owner(x) \in disk.bbm
  <2>1. x[1] \in disk.ibm /\ x[2] \in Used(disk.inode[x[1]]) /\ x = <<x[1], x[2]>>
    BY DEF Used, Count, BlockCount
  <2>2. owner(x) \in BlocksOf(disk.inode[x[1]])
    BY <2>1 DEF BlocksOf
  <2> QED
    BY <1>1, <2>1, <2>2 DEF Own
<1>3. ASSUME NEW b \in disk.bbm PROVE \E x \in owned : owner(x) = b
  <2>1. PICK i \in disk.ibm : b \in BlocksOf(disk.inode[i])
    BY <1>1 DEF Own
  <2>2. PICK s \in Used(disk.inode[i]) : disk.inode[i].i_block[s] = b
    BY <2>1 DEF BlocksOf
  <2>3. <<i, s>> \in owned
    BY <2>2 DEF Used, Count, BlockCount
  <2>4. owner(<<i, s>>) = b
    BY <2>2
  <2> QED
    BY <2>3, <2>4
<1>4. ASSUME NEW x \in owned, NEW y \in owned, owner(x) = owner(y) PROVE x = y
  <2>1. x[1] = y[1]
    <3> HIDE DEF owned
    <3>1. \A i, j \in disk.ibm : i # j =>
            BlocksOf(disk.inode[i]) \cap BlocksOf(disk.inode[j]) = {}
      BY <1>1 DEF Own
    <3>2. /\ x[1] \in disk.ibm /\ owner(x) \in BlocksOf(disk.inode[x[1]])
          /\ y[1] \in disk.ibm /\ owner(x) \in BlocksOf(disk.inode[y[1]])
      BY <1>2, <1>4
    <3> QED
      BY <3>1, <3>2
  <2>2. InodeOK(disk.inode[x[1]])
    <3>1. x[1] \in Inode
      BY <1>1, <1>2
    <3> QED
      BY <1>1, <3>1 DEF Own
  <2>3. x[2] = y[2]
    <3> HIDE DEF owned
    <3>1. x[2] \in Used(disk.inode[x[1]]) /\ y[2] \in Used(disk.inode[x[1]])
      BY <1>2, <2>1
    <3> QED
      BY <1>4, <2>1, <2>2, <3>1 DEF InodeOK
  <2> HIDE DEF owned
  <2>4. x = <<x[1], x[2]>> /\ y = <<y[1], y[2]>>
    BY <1>2
  <2> QED
    BY <2>1, <2>3, <2>4
<1>5. IsFiniteSet(owned)
  <2>1. IsFiniteSet(disk.ibm)
    BY <1>1, Numbers, FS_Subset
  <2>2. IsFiniteSet(disk.ibm \X Slot)
    BY <2>1, Slots, FS_Product
  <2> QED
    BY <2>2, FS_Subset
<1> HIDE DEF owned
<1>6. f \in Bijection(owned, disk.bbm)
  <2>1. f \in [owned -> disk.bbm] /\ \A x \in owned : f[x] = owner(x)
    BY <1>2
  <2> HIDE DEF f
  <2> QED
    BY <1>3, <1>4, <2>1, SMTT(30) DEF Bijection, Injection, Surjection, IsInjective
<1>7. Cardinality(owned) = Cardinality(disk.bbm)
  BY <1>5, <1>6, FS_Bijection DEF ExistsBijection
<1>8. {owner(x) : x \in owned} = disk.bbm
  BY <1>2, <1>3
<1> QED
  BY <1>7, <1>8 DEF BlocksOwned, owned

LEMMA GoodLookups ==
  ASSUME disk \in Image, Good(disk)
  PROVE  LookupsRight
<1> DEFINE P == PlacesOf(disk)
           slots == [dir \in Inode |-> 0 .. BlockCount(disk, dir) - 1]
<1>1. Sound(disk, P)
  BY DEF Good
<1>2. disk.ibm \subseteq Inode /\ P \subseteq Place /\ Laid(disk, P)
  BY <1>1, SoundParts
<1> HIDE DEF P
<1>3. \A dir \in Dirs(disk) : LooksIn(disk, dir, slots[dir])
  <2>1. \A dir \in Dirs(disk) : slots[dir] = 0 .. BlockCount(disk, dir) - 1
    BY <1>2 DEF Dirs
  <2> HIDE DEF slots
  <2> QED
    BY <1>1, <2>1, SlotsToLookIn
<1> SUFFICES ASSUME NEW path \in Path
             PROVE  LookupRight(path, Reached(disk, path, slots))
  BY DEF LookupsRight
<1> HIDE DEF slots
<1> DEFINE at   == Reached(disk, path, slots)
           name == path[at.k]
           last == at.k = Len(path)
           is   == path_exists(disk, path)
<1>4. /\ at.dir \in Dirs(disk) /\ at.k \in 1 .. Len(path) /\ last \in BOOLEAN
      /\ is = Found(disk, at.dir, name, last).is
  BY <1>1, <1>3, LookedUp
<1>5. name \in Name
  BY <1>4, Paths
<1> HIDE DEF at, is, last, name
<1>6. /\ \A x \in P : x[1] = at.dir /\ Ent(disk, x).name = name
                        /\ Ent(disk, x).file_type \in {"reg", "dir"} =>
              is = IF Ent(disk, x).file_type = "dir" THEN "dir" ELSE IF last THEN "file" ELSE "blocked"
      /\ (\A x \in P : x[1] = at.dir /\ Ent(disk, x).name = name
                         => Ent(disk, x).file_type \notin {"reg", "dir"})
           => is = IF BlockCount(disk, at.dir) = 2 THEN "hangs"
                   ELSE IF last THEN "new" ELSE "missing"
  BY <1>1, <1>4, <1>5, FoundIs
<1> DEFINE hit == {x \in Places(at.dir) : At(at.dir, x).name = name /\ At(at.dir, x).file_type # "lnk"}
<1>7. ASSUME NEW x \in hit
      PROVE  is = IF At(at.dir, x).file_type = "dir" THEN "dir" ELSE IF last THEN "file" ELSE "blocked"
  <2> DEFINE y == <<at.dir, x>>
  <2>1. y \in P /\ At(at.dir, x) = Ent(disk, y) /\ y[1] = at.dir
    BY <1>4, PlacesView DEF P
  <2> HIDE DEF y
  <2>2. Ent(disk, y).file_type \in {"reg", "dir"}
    BY <1>1, <2>1, EntryKinds
  <2> QED
    BY <1>6, <2>1, <2>2
<1>8. ASSUME hit = {}
      PROVE  is = IF BlockCount(disk, at.dir) = 2 THEN "hangs" ELSE IF last THEN "new" ELSE "missing"
  <2>1. ASSUME NEW y \in P, y[1] = at.dir, Ent(disk, y).name = name
        PROVE  Ent(disk, y).file_type \notin {"reg", "dir"}
    <3>1. y[2] \in Places(at.dir) /\ At(at.dir, y[2]) = Ent(disk, y)
      BY <1>4, <2>1, PlacesView DEF P
    <3> QED
      BY <1>8, <2>1, <3>1
  <2> QED
    BY <1>6, <2>1
<1> HIDE DEF hit
<1> QED
  BY <1>7, <1>8 DEF LookupRight, hit, at, is, last, name

LEMMA WhatHolds ==
  IInv => TypeOK /\ DirectoriesWhole /\ EntriesLive /\ LinksCounted /\ BlocksOwned /\ LookupsRight
<1> SUFFICES ASSUME IInv
             PROVE  /\ TypeOK /\ DirectoriesWhole /\ EntriesLive
                    /\ LinksCounted /\ BlocksOwned /\ LookupsRight
  OBVIOUS
<1>1. TypeOK
  BY GoodTypes
<1>2. CASE damage = "none"
  <2>1. disk \in Image /\ Good(disk)
    BY <1>2 DEF IInv
  <2> QED
    BY <1>1, <2>1, GoodWhole, GoodLive, GoodCounted, GoodOwned, GoodLookups
<1>3. CASE damage # "none"
  BY <1>1, <1>3 DEF DirectoriesWhole, EntriesLive, LinksCounted, BlocksOwned, LookupsRight
<1> QED
  BY <1>2, <1>3
=============================================================================
