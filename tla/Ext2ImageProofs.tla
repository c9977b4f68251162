-------------------------- MODULE Ext2ImageProofs ---------------------------
(* What the tools keep of an image, its blocks and entries, its names and    *)
(* links, and what is left of that when an entry or an inode is written.     *)
EXTENDS Ext2, FiniteSetTheorems, WellFoundedInduction, TLAPS

-----------------------------------------------------------------------------
(* The invariant: of an undamaged image, which blocks are whose, where the   *)
(* entries are, and what they name.                                          *)

Image == [bbm : SUBSET Block, ibm : SUBSET Inode, free_blocks : Int, free_inodes : Int,
          inode : [Inode -> InodeType], block : [Block -> [Cell -> EntryType]]]

Dirs(d) == {i \in d.ibm : d.inode[i].i_mode = "dir"}

\* The number of blocks of an inode r, the slots they are in, and the blocks.
Count(r)    == r.i_blocks \div 2
Used(r)     == {s \in Slot : s < Count(r)}
BlocksOf(r) == {r.i_block[s] : s \in Used(r)}

\* The blocks of an inode, in use or free, are there and distinct; a directory
\* has one or two, and then none in the slot after them.
InodeOK(r) ==
  /\ r.i_blocks = 2 * Count(r) /\ Count(r) - 1 \in Slot \cup {-1}
  /\ \A s \in Used(r) : r.i_block[s] \in Block
  /\ \A s, t \in Used(r) : r.i_block[s] = r.i_block[t] => s = t
  /\ r.i_mode = "dir" => Count(r) \in {1, 2} /\ (Count(r) = 2 => r.i_block[2] = 0)

\* The blocks that are marked are those of the inodes in use, each of one.
Own(d) ==
  /\ \A i \in Inode : InodeOK(d.inode[i]) /\ (d.inode[i].i_mode = "dir" => i \in d.ibm)
  /\ \A i \in d.ibm : /\ ~d.inode[i].i_dtime
                      /\ d.inode[i].i_mode = "lnk" => d.inode[i].i_links_count = 1
                      /\ BlocksOf(d.inode[i]) \subseteq d.bbm
  /\ \A b \in d.bbm : \E i \in d.ibm : b \in BlocksOf(d.inode[i])
  /\ \A i, j \in d.ibm : i # j => BlocksOf(d.inode[i]) \cap BlocksOf(d.inode[j]) = {}

\* The cells of S follow each other by their lengths, from the first to the end
\* of the block.
Chain(c, S) ==
  /\ S \subseteq Cell /\ 0 \in S
  /\ \A p \in S :
       /\ c[p].rec_len > 0
       /\ p + c[p].rec_len \in S \cup {EXT2_BLOCK_SIZE}
       /\ \A q \in S : p < q => p + c[p].rec_len <= q

\* A place is a directory, and slot and cell in it.  The entries of the
\* directories are at the places of P.
Place == Inode \X (Slot \X Cell)
InDir(P, dir, s) == {p \in Cell : <<dir, <<s, p>>>> \in P}
Ent(d, x) == d.block[d.inode[x[1]].i_block[x[2][1]]][x[2][2]]

Laid(d, P) ==
  /\ \A x \in P : x \in Place /\ x[1] \in Dirs(d) /\ x[2][1] \in Used(d.inode[x[1]])
  /\ \A dir \in Dirs(d) : \A s \in Used(d.inode[dir]) :
       Chain(d.block[d.inode[dir].i_block[s]], InDir(P, dir, s))

\* Whatever is not shown in a block is no directory, and a block that is no
\* directory's is zero.
NothingElse(d) ==
  /\ \A b \in Block : \A p \in Cell \ Shown(d.block[b]) : d.block[b][p].file_type # "dir"
  /\ \A b \in Block : (\A i \in Dirs(d) : b \notin BlocksOf(d.inode[i])) => d.block[b] = Zeros

\* A directory has every name once, "." and ".." first, and is named in the
\* directory above.
Distinct(d, P) ==
  \A x, y \in P : x[1] = y[1] /\ Ent(d, x).name = Ent(d, y).name => x = y

Dot(dir)    == <<dir, <<0, 0>>>>
DotDot(dir) == <<dir, <<0, 1>>>>

Rooted(d, P) ==
  /\ EXT2_ROOT_INO \in Dirs(d)
  /\ \A dir \in Dirs(d) :
       /\ Dot(dir) \in P /\ Ent(d, Dot(dir)).name = "." /\ Ent(d, Dot(dir)).inode = dir
       /\ DotDot(dir) \in P /\ Ent(d, DotDot(dir)).name = ".."
       /\ LET up == Ent(d, DotDot(dir)).inode
          IN  /\ up \in Dirs(d)
              /\ \/ up = dir /\ dir = EXT2_ROOT_INO
                 \/ \E x \in P : x[1] = up /\ Ent(d, x).inode = dir /\ Ent(d, x).name \in Name

\* Entries name the inodes in use, with their types, and are counted.
Naming(d, P, i) == {x \in P : Ent(d, x).inode = i}

Live(d, P) ==
  /\ \A x \in P : /\ Ent(d, x).inode \in d.ibm
                  /\ Ent(d, x).file_type = d.inode[Ent(d, x).inode].i_mode
  /\ \A i \in d.ibm : Naming(d, P, i) # {}

Counted(d, P) ==
  \A i \in Inode : d.inode[i].i_links_count = Cardinality(Naming(d, P, i))

Layout(d, P) == Laid(d, P) /\ NothingElse(d)
Arranged(d, P) == Distinct(d, P) /\ Rooted(d, P) /\ Live(d, P) /\ Counted(d, P)

PlacesOf(d) ==
  {x \in Place : /\ x[1] \in Dirs(d) /\ x[2][1] \in Used(d.inode[x[1]])
                 /\ x[2][2] \in Shown(d.block[d.inode[x[1]].i_block[x[2][1]]])}

Sound(d, P) == Own(d) /\ Layout(d, P) /\ Arranged(d, P)
Good(d) == Sound(d, PlacesOf(d))

Damages == {"none", "full", "exists", "grown", "third", "first", "stale"}

IInv ==
  /\ disk \in Image /\ damage \in Damages
  /\ damage = "none" => Good(disk)

-----------------------------------------------------------------------------
(* Numbers, and functions that are defined step by step.                     *)

LEMMA MinIsLeast ==
  ASSUME NEW T \in SUBSET Nat, T # {}
  PROVE  Min(T) \in T /\ \A y \in T : Min(T) <= y
<1> DEFINE less == {ss \in Nat \X Nat : ss[1] < ss[2]}
<1>1. IsWellFoundedOn(less, Nat)
  BY NatLessThanWellFounded, Zenon DEF OpToRel
<1>2. \E x \in T : \A y \in T : <<y, x>> \notin less
  BY <1>1, WFMin
<1>3. PICK x \in T : \A y \in T : <<y, x>> \notin less
  BY <1>2
<1>4. ASSUME NEW y \in T PROVE x <= y
  <2>1. <<y, x>> \in Nat \X Nat /\ <<y, x>> \notin less
    BY <1>3
  <2>2. ~(<<y, x>>[1] < <<y, x>>[2])
    BY <2>1, Zenon
  <2> QED
    BY <2>2
<1> QED
  BY <1>4 DEF Min

LEMMA MaxIsGreatest ==
  ASSUME NEW n \in Nat, NEW T \in SUBSET (0 .. n), T # {}
  PROVE  Max(T) \in T /\ \A y \in T : y <= Max(T)
<1> DEFINE U == {m \in Nat : n - m \in T}
<1>1. U \in SUBSET Nat /\ U # {}
  <2>1. PICK y \in T : TRUE
    OBVIOUS
  <2>2. n - y \in Nat /\ n - (n - y) = y
    BY <2>1
  <2> QED
    BY <2>1, <2>2
<1>2. Min(U) \in U /\ \A m \in U : Min(U) <= m
  <2> HIDE DEF U
  <2> QED
    BY <1>1, MinIsLeast
<1>3. ASSUME NEW y \in T PROVE y <= n - Min(U)
  <2>1. n - y \in U
    OBVIOUS
  <2>2. Min(U) <= n - y /\ Min(U) \in Nat /\ y \in Nat
    BY <1>1, <1>2, <2>1
  <2> HIDE DEF U
  <2> QED
    BY <2>2
<1>4. n - Min(U) \in T
  BY <1>2
<1> QED
  BY <1>3, <1>4 DEF Max

\* What holds at first and after each step holds at last.
LEMMA StepByStep ==
  ASSUME NEW lo \in Nat, NEW hi \in Nat, NEW T, lo \in T,
         \A k \in lo + 1 .. hi : k - 1 \in T => k \in T
  PROVE  lo .. hi \subseteq T
<1> DEFINE Bad == {k \in lo .. hi : k \notin T}
<1>1. SUFFICES ASSUME Bad # {} PROVE FALSE
  OBVIOUS
<1>2. Bad \in SUBSET Nat
  OBVIOUS
<1>3. PICK m \in Bad : \A k \in Bad : m <= k
  <2> HIDE DEF Bad
  <2> QED
    BY <1>1, <1>2, MinIsLeast
<1>4. m - 1 \in lo .. hi /\ m \in lo + 1 .. hi
  BY <1>3
<1>5. m - 1 \notin Bad
  BY <1>3, <1>4
<1> QED
  BY <1>3, <1>4, <1>5

\* There is a function that follows from its first value step by step.
Follows(f, lo, hi, a, F) == f[lo] = a /\ \A k \in lo + 1 .. hi : f[k] = F[k][f[k - 1]]

LEMMA Iterate ==
  ASSUME NEW lo \in Nat, NEW hi \in Nat, lo <= hi, NEW D, NEW a \in D,
         NEW F \in [lo .. hi -> [D -> D]]
  PROVE  \E f \in [lo .. hi -> D] : Follows(f, lo, hi, a, F)
<1> DEFINE Upto(n, f) == f[lo] = a /\ \A k \in lo + 1 .. n : f[k] = F[k][f[k - 1]]
           T == {n \in lo .. hi : \E f \in [lo .. n -> D] : Upto(n, f)}
<1>1. lo \in T
  <2> DEFINE g == [k \in lo .. lo |-> a]
  <2>1. g \in [lo .. lo -> D] /\ g[lo] = a /\ lo + 1 .. lo = {} /\ lo \in lo .. hi
    OBVIOUS
  <2> HIDE DEF g
  <2>2. Upto(lo, g)
    BY <2>1
  <2> QED
    BY <2>1, <2>2
<1>2. ASSUME NEW n \in lo + 1 .. hi, n - 1 \in T PROVE n \in T
  <2>1. PICK f \in [lo .. n - 1 -> D] : Upto(n - 1, f)
    BY <1>2
  <2> DEFINE g == [k \in lo .. n |-> IF k = n THEN F[n][f[n - 1]] ELSE f[k]]
  <2>2. n - 1 \in lo .. n - 1 /\ n \in lo .. hi /\ n # lo /\ lo \in lo .. n
    OBVIOUS
  <2>3. F[n][f[n - 1]] \in D
    BY <2>2
  <2>4. g \in [lo .. n -> D]
    BY <2>3
  <2>5. g[lo] = a
    BY <2>1, <2>2
  <2>6. ASSUME NEW k \in lo + 1 .. n PROVE g[k] = F[k][g[k - 1]]
    <3>1. CASE k = n
      BY <2>2, <3>1
    <3>2. CASE k # n
      <4>1. k \in lo + 1 .. n - 1 /\ k - 1 \in lo .. n /\ k - 1 # n /\ k \in lo .. n
        BY <3>2
      <4> QED
        BY <2>1, <3>2, <4>1
    <3> QED
      BY <3>1, <3>2
  <2> HIDE DEF g
  <2>7. Upto(n, g)
    BY <2>5, <2>6
  <2> QED
    BY <2>2, <2>4, <2>7
<1> HIDE DEF T
<1>3. hi \in T
  <2>1. lo .. hi \subseteq T
    BY <1>1, <1>2, StepByStep
  <2> QED
    BY <2>1
<1> QED
  BY <1>3 DEF T, Follows

-----------------------------------------------------------------------------
(* The entries of a block.                                                   *)

LEMMA BlockSizes ==
  /\ EXT2_BLOCK_SIZE \in Nat /\ EXT2_BLOCK_SIZE > 2
  /\ Cell \subseteq Nat /\ 0 \in Cell /\ 1 \in Cell
  /\ \A p \in Nat : p \in Cell <=> p < EXT2_BLOCK_SIZE
BY SizesAssumption DEF Cell

Lengths(c) == \A p \in Cell : c[p].rec_len \in Nat

\* The sets that Shown goes through.
LEMMA ShownSteps ==
  ASSUME NEW c, Lengths(c)
  PROVE  \E at : /\ at[0] = {0} /\ Shown(c) = at[EXT2_BLOCK_SIZE - 1]
                 /\ \A k \in 1 .. EXT2_BLOCK_SIZE - 1 :
                      at[k] = at[k - 1] \cup ({p + c[p].rec_len : p \in at[k - 1]} \cap Cell)
<1> DEFINE N == EXT2_BLOCK_SIZE - 1
           on(ps) == ps \cup ({p + c[p].rec_len : p \in ps} \cap Cell)
           Turn(at, k) == IF k = 0 THEN {0} ELSE on(at[k - 1])
           Walk(at) == at = [k \in Cell |-> Turn(at, k)]
           W == CHOOSE at : Walk(at)
           F == [k \in 0 .. N |-> [ps \in SUBSET Cell |-> on(ps)]]
<1>1. N \in Nat /\ 0 <= N /\ Cell = 0 .. N /\ {0} \in SUBSET Cell
  BY BlockSizes DEF Cell
<1>2. F \in [0 .. N -> [SUBSET Cell -> SUBSET Cell]]
  <2>1. \A ps \in SUBSET Cell : on(ps) \in SUBSET Cell
    OBVIOUS
  <2> HIDE DEF on
  <2> QED
    BY <2>1
<1>3. \A k \in 0 .. N, ps \in SUBSET Cell : F[k][ps] = on(ps)
  <2> HIDE DEF on
  <2> QED
    OBVIOUS
<1> HIDE DEF F, on, N
<1>4. PICK f \in [0 .. N -> SUBSET Cell] :
        f[0] = {0} /\ \A k \in 0 + 1 .. N : f[k] = F[k][f[k - 1]]
  <2> DEFINE D == SUBSET Cell
             a == {0}
  <2>1. a \in D
    BY <1>1
  <2>2. F \in [0 .. N -> [D -> D]]
    BY <1>2
  <2>3. 0 \in Nat /\ N \in Nat /\ 0 <= N
    BY <1>1
  <2> HIDE DEF D, a
  <2>4. \E f \in [0 .. N -> D] : Follows(f, 0, N, a, F)
    BY <2>1, <2>2, <2>3, Iterate
  <2> QED
    BY <2>4 DEF D, a, Follows
<1>5. ASSUME NEW k \in Cell PROVE f[k] = Turn(f, k)
  <2>1. CASE k = 0
    BY <1>4, <2>1
  <2>2. CASE k # 0
    <3>1. k \in 0 + 1 .. N /\ k - 1 \in 0 .. N /\ k \in 0 .. N
      BY <1>1, <2>2
    <3>2. f[k - 1] \in SUBSET Cell
      BY <3>1
    <3> QED
      BY <1>3, <1>4, <2>2, <3>1, <3>2
  <2> QED
    BY <2>1, <2>2
<1>6. Walk(f)
  <2> HIDE DEF Turn
  <2>1. f = [k \in Cell |-> f[k]]
    BY <1>1
  <2> QED
    BY <1>5, <2>1
<1>7. Walk(W)
  <2> HIDE DEF Walk
  <2> QED
    BY <1>6
<1>8. Shown(c) = W[N]
  BY DEF Shown, W, Walk, on, N
<1> HIDE DEF W
<1>9. \A k \in Cell : W[k] = Turn(W, k)
  BY <1>7
<1> HIDE DEF Walk
<1>10. W[0] = {0} /\ \A k \in 1 .. N : W[k] = on(W[k - 1])
  <2>1. 0 \in Cell /\ \A k \in 1 .. N : k \in Cell /\ k # 0
    BY <1>1
  <2> QED
    BY <1>9, <2>1
<1> QED
  BY <1>8, <1>10 DEF on, N

\* With p an entry the next one is in S as well, if there is one.
Closed(c, S) == \A p \in S : p + c[p].rec_len \in Cell => p + c[p].rec_len \in S

\* What a walk comes to is the least set with the first entry in it and with
\* each entry the next one: N - 1 steps are enough.
LEMMA ShownLeast ==
  ASSUME NEW c, Lengths(c)
  PROVE  /\ Shown(c) \subseteq Cell /\ 0 \in Shown(c) /\ Closed(c, Shown(c))
         /\ \A S \in SUBSET Cell : 0 \in S /\ Closed(c, S) => Shown(c) \subseteq S
<1> DEFINE N == EXT2_BLOCK_SIZE - 1
           Succ(p) == p + c[p].rec_len
<1>1. PICK at : /\ at[0] = {0} /\ Shown(c) = at[N]
                /\ \A k \in 1 .. N : at[k] = at[k - 1] \cup ({Succ(p) : p \in at[k - 1]} \cap Cell)
  BY ShownSteps
<1>2. N \in Nat /\ 0 \in Cell /\ Cell = 0 .. N /\ \A p \in Cell : Succ(p) \in Nat /\ p <= Succ(p)
  BY BlockSizes DEF Lengths, Cell
<1>c. \A S : Closed(c, S) <=> \A p \in S : Succ(p) \in Cell => Succ(p) \in S
  BY DEF Closed
<1> HIDE DEF N, Succ
<1>3. ASSUME NEW S \in SUBSET Cell, 0 \in S, Closed(c, S) PROVE Shown(c) \subseteq S
  <2> DEFINE T == {k \in 0 .. N : at[k] \subseteq S}
  <2>1. 0 \in T
    BY <1>1, <1>2, <1>3
  <2>2. ASSUME NEW k \in 0 + 1 .. N, k - 1 \in T PROVE k \in T
    <3>1. k \in 1 .. N /\ at[k - 1] \subseteq S
      BY <1>2, <2>2
    <3>2. at[k] = at[k - 1] \cup ({Succ(p) : p \in at[k - 1]} \cap Cell)
      BY <1>1, <3>1
    <3>3. at[k] \subseteq S
      BY <1>3, <1>c, <3>1, <3>2
    <3> QED
      BY <1>2, <3>1, <3>3
  <2>3. 0 .. N \subseteq T
    <3> HIDE DEF T
    <3> QED
      BY <1>2, <2>1, <2>2, StepByStep
  <2> QED
    BY <1>1, <1>2, <2>3
<1>4. Shown(c) \subseteq Cell
  <2>1. Closed(c, Cell)
    BY <1>c
  <2> QED
    BY <1>2, <1>3, <2>1
<1> DEFINE Inside(ps, q) == Succ(q) \in ps \/ Succ(q) \notin Cell
           Tip(k) == \E p \in at[k] : k <= p /\ \A q \in at[k] : q # p => Inside(at[k], q)
           T == {k \in 0 .. N : /\ 0 \in at[k] /\ at[k] \subseteq Cell
                                /\ Closed(c, at[k]) \/ Tip(k)}
<1>5. 0 \in T
  <2>1. Tip(0)
    BY <1>1
  <2> HIDE DEF Tip
  <2> QED
    BY <1>1, <1>2, <2>1
<1>6. ASSUME NEW k \in 0 + 1 .. N, k - 1 \in T PROVE k \in T
  <2> DEFINE a == at[k - 1]
             b == at[k]
  <2>1. k \in 1 .. N /\ k \in 0 .. N /\ k \in Nat /\ k - 1 \in Nat
    BY <1>2
  <2>2. b = a \cup ({Succ(p) : p \in a} \cap Cell)
    BY <1>1, <2>1
  <2>3. 0 \in a /\ a \subseteq Cell /\ (Closed(c, a) \/ Tip(k - 1))
    BY <1>6
  <2>4. 0 \in b /\ b \subseteq Cell
    <3> HIDE DEF a, b
    <3> QED
      BY <2>2, <2>3
  <2>5. CASE Closed(c, a)
    <3>1. b = a
      <4> HIDE DEF a, b
      <4> QED
        BY <1>c, <2>2, <2>5
    <3> QED
      BY <2>1, <2>4, <2>5, <3>1
  <2>6. CASE ~Closed(c, a)
    <3>1. PICK p \in a : k - 1 <= p /\ \A q \in a : q # p => Inside(a, q)
      BY <2>3, <2>6
    <3> HIDE DEF a, b
    <3>2. Succ(p) \in Cell /\ Succ(p) \notin a
      BY <1>c, <2>6, <3>1
    <3>3. b = a \cup {Succ(p)}
      BY <2>2, <3>1, <3>2
    <3>4. p \in Cell /\ p \in Nat /\ Succ(p) \in Nat /\ p # Succ(p) /\ p <= Succ(p)
      BY <1>2, <2>3, <3>1, <3>2
    <3>5. k <= Succ(p)
      BY <2>1, <3>1, <3>4
    <3>6. \A q \in b : q # Succ(p) => Inside(b, q)
      BY <3>1, <3>3
    <3>7. \E x \in b : k <= x /\ \A q \in b : q # x => Inside(b, q)
      BY <3>3, <3>5, <3>6
    <3> QED
      BY <2>1, <2>4, <3>7 DEF b
  <2> QED
    BY <2>5, <2>6
<1>7. 0 .. N \subseteq T
  <2> HIDE DEF T
  <2> QED
    BY <1>2, <1>5, <1>6, StepByStep
<1>8. 0 \in at[N] /\ at[N] \subseteq Cell /\ (Closed(c, at[N]) \/ Tip(N))
  BY <1>2, <1>7
<1>9. ASSUME Tip(N) PROVE Closed(c, at[N])
  <2>1. PICK p \in at[N] : N <= p /\ \A q \in at[N] : q # p => Inside(at[N], q)
    BY <1>9
  <2>2. p \in Cell /\ p = N /\ (Succ(p) \in Cell => Succ(p) = p)
    BY <1>2, <1>8, <2>1
  <2> QED
    BY <1>c, <2>1, <2>2
<1> QED
  BY <1>1, <1>3, <1>4, <1>8, <1>9

\* A block whose entries follow each other shows just these.
LEMMA ChainShown ==
  ASSUME NEW c, Lengths(c), NEW S, Chain(c, S)
  PROVE  /\ Shown(c) = S /\ ~Stuck(c)
         /\ LastShown(c) \in S /\ \A p \in S : p <= LastShown(c)
         /\ LastShown(c) + c[LastShown(c)].rec_len = EXT2_BLOCK_SIZE
<1> DEFINE Succ(p) == p + c[p].rec_len
<1>1. /\ S \subseteq Cell /\ 0 \in S
      /\ \A p \in S : /\ p < Succ(p) /\ Succ(p) \in Nat /\ Succ(p) \in S \cup {EXT2_BLOCK_SIZE}
                      /\ \A q \in S : p < q => Succ(p) <= q
  <2>1. S \subseteq Cell /\ 0 \in S
    BY DEF Chain
  <2>2. ASSUME NEW p \in S
        PROVE  /\ p < Succ(p) /\ Succ(p) \in Nat /\ Succ(p) \in S \cup {EXT2_BLOCK_SIZE}
               /\ \A q \in S : p < q => Succ(p) <= q
    <3>1. p \in Cell /\ p \in Nat /\ c[p].rec_len \in Nat
      BY <2>1, BlockSizes DEF Lengths
    <3>2. /\ c[p].rec_len > 0 /\ p + c[p].rec_len \in S \cup {EXT2_BLOCK_SIZE}
          /\ \A q \in S : p < q => p + c[p].rec_len <= q
      BY DEF Chain
    <3> QED
      BY <3>1, <3>2
  <2> QED
    BY <2>1, <2>2
<1>2. /\ Shown(c) \subseteq Cell /\ 0 \in Shown(c)
      /\ \A p \in Shown(c) : Succ(p) \in Cell => Succ(p) \in Shown(c)
  BY ShownLeast DEF Closed
<1>3. Shown(c) \subseteq S
  <2>1. Closed(c, S)
    BY <1>1, BlockSizes DEF Closed
  <2> QED
    BY <1>1, <2>1, ShownLeast
<1> HIDE DEF Succ
<1>4. S \subseteq Shown(c)
  <2> DEFINE Bad == S \ Shown(c)
  <2>1. SUFFICES ASSUME Bad # {} PROVE FALSE
    OBVIOUS
  <2>2. Bad \in SUBSET Nat
    BY <1>1, BlockSizes
  <2>3. PICK p \in Bad : \A x \in Bad : p <= x
    <3> HIDE DEF Bad
    <3> QED
      BY <2>1, <2>2, MinIsLeast
  <2>4. p \in Cell /\ p \in Nat /\ 0 < p
    BY <1>1, <1>2, <2>3, BlockSizes
  <2> DEFINE Lower == {q \in Shown(c) : q < p}
  <2>5. Lower \in SUBSET (0 .. p) /\ Lower # {}
    <3>1. ASSUME NEW q \in Lower PROVE q \in 0 .. p
      <4>1. q \in Nat /\ q < p
        BY <1>2, BlockSizes
      <4> QED
        BY <2>4, <4>1
    <3>2. 0 \in Lower
      BY <1>2, <2>4
    <3> QED
      BY <3>1, <3>2
  <2>6. PICK q \in Lower : \A x \in Lower : x <= q
    <3> HIDE DEF Lower
    <3> QED
      BY <2>4, <2>5, MaxIsGreatest
  <2>7. q \in S /\ p \in S /\ q < p /\ q \in Nat
    BY <1>1, <1>3, <2>3, <2>6, BlockSizes
  <2>8. q < Succ(q) /\ Succ(q) <= p /\ Succ(q) \in Nat
    BY <1>1, <2>7
  <2>9. Succ(q) \in Shown(c)
    <3>1. Succ(q) \in Cell
      BY <2>4, <2>8, BlockSizes
    <3> QED
      BY <1>2, <2>6, <3>1
  <2>10. Succ(q) # p
    BY <2>3, <2>9
  <2>11. Succ(q) \in Lower
    BY <2>4, <2>8, <2>9, <2>10
  <2> QED
    BY <2>6, <2>7, <2>8, <2>11
<1>5. Shown(c) = S
  BY <1>3, <1>4
<1>6. ~Stuck(c)
  BY <1>5 DEF Chain, Stuck
<1>7. LastShown(c) \in S /\ \A p \in S : p <= LastShown(c)
  <2>1. S \in SUBSET (0 .. EXT2_BLOCK_SIZE) /\ S # {}
    BY <1>1, BlockSizes
  <2> QED
    BY <1>5, <2>1, BlockSizes, MaxIsGreatest DEF LastShown
<1>8. Succ(LastShown(c)) = EXT2_BLOCK_SIZE
  <2>1. LastShown(c) \in Nat
    BY <1>1, <1>7, BlockSizes
  <2> QED
    BY <1>1, <1>7, <2>1
<1> QED
  BY <1>5, <1>6, <1>7, <1>8 DEF Succ

\* Entries that say the same, whatever their lengths.
Alike(e, f) == e.name = f.name /\ e.file_type = f.file_type /\ e.inode = f.inode

\* The entry in cell p of block c comes into view, or goes, in block n.
Gains(c, n, p) ==
  /\ n \in [Cell -> EntryType] /\ p \in Cell \ Shown(c)
  /\ Chain(n, Shown(c) \cup {p})
  /\ \A q \in Cell \ {p} : Alike(n[q], c[q])

Loses(c, n, p) ==
  /\ n \in [Cell -> EntryType] /\ p \in Shown(c)
  /\ Chain(n, Shown(c) \ {p})
  /\ \A q \in Cell : Alike(n[q], c[q])

LEMMA EntryLengths ==
  ASSUME NEW c \in [Cell -> EntryType]
  PROVE  Lengths(c)
BY BlockSizes DEF Lengths, EntryType

LEMMA Names ==
  /\ Name \subseteq EntryName /\ "." \in EntryName /\ ".." \in EntryName
  /\ "." \notin Name /\ ".." \notin Name
BY NameAssumption, Zenon DEF EntryName

LEMMA ZeroTyped == Zero \in EntryType /\ Zero.rec_len = 0 /\ Zero.file_type = "unknown" /\ Zero.name \notin Name
BY NameAssumption, Zenon DEF Zero, Entry, EntryType, EntryName

LEMMA EntryTyped ==
  ASSUME NEW name \in EntryName, NEW type \in {"reg", "dir", "lnk"}, NEW ino \in Inode \cup {-1},
         NEW rec \in Nat
  PROVE  Entry(name, type, ino, rec) \in EntryType
BY Names DEF Entry, EntryType

\* add_directory, add_file_loc and add_hardlink: the new entry is the one after
\* the last, and nothing else changes but the length of that.
LEMMA InsertedGains ==
  ASSUME NEW c \in [Cell -> EntryType], Chain(c, Shown(c)), new_directory_fits(c),
         NEW name \in Name, NEW type \in {"reg", "dir", "lnk"}, NEW ino \in Inode \cup {-1},
         NEW n, n = Inserted(c, name, type, ino)
  PROVE  \E p \in Cell : Gains(c, n, p) /\ Alike(n[p], Entry(name, type, ino, 0))
<1> DEFINE L == LastShown(c)
           p == L + 1
           S == Shown(c)
           e == Entry(name, type, ino, EXT2_BLOCK_SIZE - p)
           t == [c EXCEPT ![L].rec_len = 1]
<1>1. Lengths(c)
  BY EntryLengths
<1>2. /\ L \in S /\ \A q \in S : q <= L
      /\ S \subseteq Cell /\ 0 \in S /\ ~Stuck(c)
  BY <1>1, ChainShown DEF Chain
<1>3. L \in Nat /\ L \in Cell /\ L + 2 <= EXT2_BLOCK_SIZE
  BY <1>2, BlockSizes DEF new_directory_fits
<1> HIDE DEF L
<1>4. p \in Cell /\ p \in Nat /\ p \notin S /\ EXT2_BLOCK_SIZE - p \in Nat
  BY <1>2, <1>3, BlockSizes
<1>5. n = [t EXCEPT ![p] = e]
  <2>1. c[0].rec_len # 0
    BY <1>2 DEF Stuck
  <2> QED
    BY <2>1 DEF Inserted, Trimmed, L
<1>6. /\ n[p] = e /\ \A q \in Cell \ {p, L} : n[q] = c[q]
      /\ n[L] = [c[L] EXCEPT !.rec_len = 1]
      /\ n = [q \in Cell |-> n[q]]
  <2>1. t = [q \in Cell |-> IF q = L THEN [c[L] EXCEPT !.rec_len = 1] ELSE c[q]]
    BY <1>3
  <2> HIDE DEF t, e
  <2>2. n = [q \in Cell |-> IF q = p THEN e ELSE t[q]]
    BY <1>5, <2>1
  <2>3. p # L
    BY <1>3
  <2> QED
    BY <1>3, <1>4, <2>1, <2>2, <2>3
<1>7. n[L] \in EntryType /\ n[L].rec_len = 1 /\ Alike(n[L], c[L])
  BY <1>3, <1>6 DEF EntryType, Alike
<1>8. n[p] \in EntryType /\ n[p].rec_len = EXT2_BLOCK_SIZE - p
      /\ Alike(n[p], Entry(name, type, ino, 0))
  BY <1>4, <1>6, Names, EntryTyped DEF Entry, Alike
<1>9. n \in [Cell -> EntryType]
  BY <1>6, <1>7, <1>8
<1>10. Chain(n, S \cup {p})
  <2>1. \A q \in S \ {L} : n[q].rec_len = c[q].rec_len /\ q \in Nat /\ q < L
    BY <1>2, <1>3, <1>4, <1>6, BlockSizes
  <2>2. \A q \in S \ {L} : /\ c[q].rec_len > 0 /\ c[q].rec_len \in Nat
                          /\ q + c[q].rec_len <= L /\ q + c[q].rec_len \in S
                          /\ \A r \in S : q < r => q + c[q].rec_len <= r
    <3>1. \A q \in S \ {L} : q + c[q].rec_len <= L /\ c[q].rec_len \in Nat
      BY <1>1, <1>2, <2>1 DEF Chain, Lengths
    <3> QED
      BY <1>3, <2>1, <3>1 DEF Chain
  <2>3. ASSUME NEW q \in S \cup {p}
        PROVE  /\ n[q].rec_len > 0
               /\ q + n[q].rec_len \in (S \cup {p}) \cup {EXT2_BLOCK_SIZE}
               /\ \A r \in S \cup {p} : q < r => q + n[q].rec_len <= r
    <3>1. CASE q = p
      BY <1>2, <1>3, <1>4, <1>8, <3>1, BlockSizes
    <3>2. CASE q = L
      <4>1. n[q].rec_len = 1 /\ q + 1 = p /\ q \in Nat
        BY <1>3, <1>7, <3>2
      <4>2. \A r \in S : ~(q < r)
        BY <1>2, <1>3, <3>2, BlockSizes
      <4>3. p <= p
        BY <1>4
      <4> HIDE DEF p, S, e, t
      <4>4. n[q].rec_len > 0 /\ q + n[q].rec_len = p
        BY <4>1
      <4>5. \A r \in S \cup {p} : q < r => p <= r
        BY <4>2, <4>3
      <4> QED
        BY <4>4, <4>5
    <3>3. CASE q \in S \ {L}
      BY <1>3, <2>1, <2>2, <3>3
    <3> QED
      BY <3>1, <3>2, <3>3
  <2> HIDE DEF p, S
  <2> QED
    BY <1>2, <1>4, <2>3 DEF Chain
<1>11. \A q \in Cell \ {p} : Alike(n[q], c[q])
  BY <1>6, <1>7 DEF Alike
<1> QED
  BY <1>4, <1>8, <1>9, <1>10, <1>11 DEF Gains

LEMMA ZerosTyped ==
  /\ Zeros \in [Cell -> EntryType] /\ \A p \in Cell : Zeros[p] = Zero
  /\ Shown(Zeros) = {0} /\ Stuck(Zeros)
<1>1. Zeros \in [Cell -> EntryType] /\ \A p \in Cell : Zeros[p] = Zero
  BY ZeroTyped DEF Zeros
<1>2. Lengths(Zeros)
  BY <1>1, EntryLengths
<1>3. 0 \in Cell /\ Zeros[0].rec_len = 0 /\ {0} \in SUBSET Cell
  BY <1>1, ZeroTyped, BlockSizes
<1>4. Closed(Zeros, {0})
  BY <1>3 DEF Closed
<1>5. 0 \in Shown(Zeros) /\ Shown(Zeros) \subseteq {0}
  BY <1>2, <1>3, <1>4, ShownLeast
<1> QED
  BY <1>1, <1>3, <1>5 DEF Stuck

\* In the new block of a directory the new entry is the only one.
LEMMA InsertedFirst ==
  ASSUME NEW name \in Name, NEW type \in {"reg", "dir", "lnk"}, NEW ino \in Inode \cup {-1},
         NEW n, n = Inserted(Zeros, name, type, ino)
  PROVE  /\ n \in [Cell -> EntryType] /\ Chain(n, {0})
         /\ Alike(n[0], Entry(name, type, ino, 0))
         /\ \A q \in Cell \ {0} : n[q] = Zero
<1> DEFINE e == Entry(name, type, ino, EXT2_BLOCK_SIZE)
<1>1. n = [Zeros EXCEPT ![0] = e]
  <2>1. Zeros[0].rec_len = 0 /\ EXT2_BLOCK_SIZE - 0 = EXT2_BLOCK_SIZE
    BY ZerosTyped, ZeroTyped, BlockSizes
  <2> QED
    BY <2>1 DEF Inserted, Trimmed
<1>2. e \in EntryType /\ e.rec_len = EXT2_BLOCK_SIZE /\ Alike(e, Entry(name, type, ino, 0))
  BY EntryTyped, Names, BlockSizes DEF Entry, Alike
<1> HIDE DEF e
<1>3. n[0] = e /\ n \in [Cell -> EntryType] /\ \A q \in Cell \ {0} : n[q] = Zero
  BY <1>1, <1>2, ZerosTyped, BlockSizes
<1> QED
  BY <1>2, <1>3, BlockSizes DEF Chain

\* remove_file: the entry before the victim spans both.
LEMMA UnshownLoses ==
  ASSUME NEW c \in [Cell -> EntryType], Chain(c, Shown(c)), NEW p \in Shown(c), p # 0,
         NEW n, n = Unshown(c, p)
  PROVE  Loses(c, n, p)
<1> DEFINE S == Shown(c)
           Lower == {x \in S : x < p}
           q == Max(Lower)
           span == c[q].rec_len + c[p].rec_len
<1>1. Lengths(c)
  BY EntryLengths
<1>2. /\ S \subseteq Cell /\ 0 \in S /\ p \in Cell /\ p \in Nat
      /\ \A x \in S : x \in Cell /\ x \in Nat /\ c[x].rec_len \in Nat
  BY <1>1, BlockSizes DEF Chain, Lengths
<1>3. /\ \A x \in S : c[x].rec_len > 0 /\ x + c[x].rec_len \in S \cup {EXT2_BLOCK_SIZE}
      /\ \A x, y \in S : x < y => x + c[x].rec_len <= y
  BY DEF Chain
<1>4. q \in S /\ q < p /\ \A x \in Lower : x <= q
  <2>1. Lower \in SUBSET (0 .. p) /\ 0 \in Lower
    <3>1. ASSUME NEW x \in Lower PROVE x \in 0 .. p
      <4>1. x \in Nat /\ x < p
        BY <1>2
      <4> QED
        BY <1>2, <4>1
    <3>2. 0 \in Lower
      BY <1>2
    <3> QED
      BY <3>1, <3>2
  <2>2. q \in Lower /\ \A x \in Lower : x <= q
    <3> HIDE DEF Lower
    <3> QED
      BY <1>2, <2>1, MaxIsGreatest
  <2> QED
    BY <2>2
<1>5. n = [c EXCEPT ![q] = [c[q] EXCEPT !.rec_len = span]]
  BY DEF Unshown
<1> HIDE DEF q
<1>6. q \in Nat /\ c[q].rec_len \in Nat /\ c[p].rec_len \in Nat /\ span \in Nat
  BY <1>2, <1>4
<1>7. q + c[q].rec_len = p
  <2>1. q + c[q].rec_len <= p /\ q < q + c[q].rec_len /\ q + c[q].rec_len \in Nat
    BY <1>3, <1>4, <1>6
  <2>2. q + c[q].rec_len \in S
    <3>1. q + c[q].rec_len # EXT2_BLOCK_SIZE
      BY <1>2, <2>1, BlockSizes
    <3> QED
      BY <1>3, <1>4, <3>1
  <2> QED
    BY <1>2, <1>4, <2>1, <2>2
<1> HIDE DEF S
<1>8. /\ \A x \in Cell \ {q} : n[x] = c[x]
      /\ n[q] = [c[q] EXCEPT !.rec_len = span] /\ n = [x \in Cell |-> n[x]]
  BY <1>2, <1>4, <1>5
<1>9. n[q] \in EntryType /\ n[q].rec_len = span /\ Alike(n[q], c[q])
  <2>1. q \in Cell /\ c[q] \in EntryType
    BY <1>2, <1>4
  <2> HIDE DEF span
  <2> QED
    BY <1>6, <1>8, <2>1 DEF EntryType, Alike
<1>10. n \in [Cell -> EntryType]
  BY <1>8, <1>9
<1>11. \A x \in Cell : Alike(n[x], c[x])
  BY <1>8, <1>9 DEF Alike
<1>12. q + span = p + c[p].rec_len
  BY <1>2, <1>6, <1>7
<1>13. Chain(n, S \ {p})
  <2>1. S \ {p} \subseteq Cell /\ 0 \in S \ {p}
    BY <1>2
  <2>2. ASSUME NEW x \in S \ {p}
        PROVE  /\ n[x].rec_len > 0
               /\ x + n[x].rec_len \in (S \ {p}) \cup {EXT2_BLOCK_SIZE}
               /\ \A y \in S \ {p} : x < y => x + n[x].rec_len <= y
    <3>1. CASE x = q
      <4>1. n[x].rec_len = span /\ x + n[x].rec_len = p + c[p].rec_len /\ span > 0
        BY <1>3, <1>4, <1>6, <1>9, <1>12, <3>1
      <4>2. p + c[p].rec_len \in (S \ {p}) \cup {EXT2_BLOCK_SIZE}
        BY <1>2, <1>3, <1>6 DEF S
      <4>3. ASSUME NEW y \in S \ {p}, q < y PROVE p + c[p].rec_len <= y
        <5>1. y \in Nat /\ ~(y < p)
          BY <1>2, <1>4, <1>6, <4>3
        <5>2. p < y
          BY <1>2, <5>1
        <5> QED
          BY <1>3, <5>2 DEF S
      <4> QED
        BY <3>1, <4>1, <4>2, <4>3
    <3>2. CASE x # q
      <4>1. n[x] = c[x] /\ x \in Nat /\ c[x].rec_len \in Nat
        BY <1>2, <1>8, <3>2
      <4>2. x + c[x].rec_len # p
        <5>1. CASE x < q
          <6>1. x + c[x].rec_len <= q
            BY <1>3, <1>4, <5>1
          <6> QED
            BY <1>2, <1>4, <1>6, <4>1, <6>1
        <5>2. CASE ~(x < q)
          <6>1. ~(x < p)
            BY <1>4, <1>6, <3>2, <4>1, <5>2
          <6> QED
            BY <1>2, <1>3, <4>1, <6>1
        <5> QED
          BY <5>1, <5>2
      <4> QED
        BY <1>3, <4>1, <4>2
    <3> QED
      BY <3>1, <3>2
  <2> QED
    BY <2>1, <2>2 DEF Chain
<1> QED
  BY <1>10, <1>11, <1>13 DEF Loses, S

\* restore_file: the entry in the gap after q that fills what is left of it.
LEMMA RestoredGains ==
  ASSUME NEW c \in [Cell -> EntryType], Chain(c, Shown(c)),
         NEW q \in Shown(c), NEW p \in Cell \ Shown(c),
         q + c[q].rec_len = p + c[p].rec_len, q <= p,
         NEW n, n = [c EXCEPT ![q].rec_len = p - q]
  PROVE  Gains(c, n, p) /\ n[p] = c[p]
<1> DEFINE S == Shown(c)
<1>1. Lengths(c)
  BY EntryLengths
<1>2. /\ S \subseteq Cell /\ 0 \in S /\ p \in Nat /\ q \in Nat /\ q \in Cell
      /\ \A x \in S : x \in Cell /\ x \in Nat /\ c[x].rec_len \in Nat
      /\ c[p].rec_len \in Nat
  BY <1>1, BlockSizes DEF Chain, Lengths
<1>3. /\ \A x \in S : c[x].rec_len > 0 /\ x + c[x].rec_len \in S \cup {EXT2_BLOCK_SIZE}
      /\ \A x, y \in S : x < y => x + c[x].rec_len <= y
  BY DEF Chain
<1> HIDE DEF S
<1>4. q \in S /\ p \notin S
  BY DEF S
<1>5. q < p /\ p - q \in Nat /\ p - q > 0 /\ q + (p - q) = p
  BY <1>2, <1>4
<1>6. c[p].rec_len > 0
  <2>1. p + c[p].rec_len \in S \cup {EXT2_BLOCK_SIZE}
    BY <1>3, <1>4
  <2>2. p # EXT2_BLOCK_SIZE
    BY <1>2, BlockSizes
  <2> QED
    BY <1>2, <1>4, <2>1, <2>2
<1>7. /\ \A x \in Cell \ {q} : n[x] = c[x]
      /\ n[q] = [c[q] EXCEPT !.rec_len = p - q] /\ n = [x \in Cell |-> n[x]]
  BY <1>2
<1>8. n[q] \in EntryType /\ n[q].rec_len = p - q /\ Alike(n[q], c[q])
  <2>1. c[q] \in EntryType
    BY <1>2
  <2> QED
    BY <1>5, <1>7, <2>1 DEF EntryType, Alike
<1>9. n \in [Cell -> EntryType]
  BY <1>7, <1>8
<1>10. \A x \in Cell : Alike(n[x], c[x])
  BY <1>7, <1>8 DEF Alike
<1>11. Chain(n, S \cup {p})
  <2>1. \A x \in S : q < x => p + c[p].rec_len <= x
    BY <1>3, <1>4
  <2>2. ASSUME NEW x \in S \cup {p}
        PROVE  /\ n[x].rec_len > 0
               /\ x + n[x].rec_len \in (S \cup {p}) \cup {EXT2_BLOCK_SIZE}
               /\ \A y \in S \cup {p} : x < y => x + n[x].rec_len <= y
    <3>1. CASE x = q
      <4>1. \A y \in S : q < y => p <= y
        BY <1>2, <2>1
      <4> QED
        BY <1>2, <1>5, <1>8, <3>1, <4>1
    <3>2. CASE x = p
      <4>1. n[x] = c[p] /\ x + n[x].rec_len \in S \cup {EXT2_BLOCK_SIZE}
        BY <1>3, <1>4, <1>7, <3>2
      <4>2. \A y \in S : p < y => q < y
        BY <1>2, <1>5
      <4> QED
        BY <1>2, <1>6, <2>1, <3>2, <4>1, <4>2
    <3>3. CASE x \in S \ {q}
      <4>1. n[x] = c[x] /\ x \in Nat /\ c[x].rec_len \in Nat
        BY <1>2, <1>7, <3>3
      <4>2. ASSUME x < p PROVE x + c[x].rec_len <= p
        <5>1. CASE x < q
          <6>1. x + c[x].rec_len <= q
            BY <1>3, <1>4, <3>3, <5>1
          <6> QED
            BY <1>2, <1>5, <4>1, <6>1
        <5>2. CASE ~(x < q)
          <6>1. p + c[p].rec_len <= x
            BY <1>2, <2>1, <3>3, <4>1, <5>2
          <6> QED
            BY <1>2, <4>1, <4>2, <6>1
        <5> QED
          BY <5>1, <5>2
      <4> QED
        BY <1>3, <3>3, <4>1, <4>2
    <3> QED
      BY <3>1, <3>2, <3>3
  <2> QED
    BY <1>2, <2>2 DEF Chain
<1> QED
  BY <1>4, <1>7, <1>9, <1>10, <1>11 DEF Gains, S

LEMMA NewDirectoryTyped ==
  ASSUME NEW ino \in Inode, NEW parent \in Inode, NEW n, n = NewDirectory(ino, parent)
  PROVE  /\ n \in [Cell -> EntryType] /\ Chain(n, {0, 1})
         /\ Alike(n[0], Entry(".", "dir", ino, 0)) /\ Alike(n[1], Entry("..", "dir", parent, 0))
         /\ \A q \in Cell \ {0, 1} : n[q] = Zero
<1> DEFINE e == Entry(".", "dir", ino, 1)
           f == Entry("..", "dir", parent, EXT2_BLOCK_SIZE - 1)
<1>1. /\ e \in EntryType /\ e.rec_len = 1 /\ Alike(e, Entry(".", "dir", ino, 0))
      /\ f \in EntryType /\ f.rec_len = EXT2_BLOCK_SIZE - 1 /\ Alike(f, Entry("..", "dir", parent, 0))
  BY EntryTyped, Names, BlockSizes DEF Entry, Alike
<1>2. n = [Zeros EXCEPT ![0] = e, ![1] = f]
  BY DEF NewDirectory
<1> HIDE DEF e, f
<1>3. n[0] = e /\ n[1] = f /\ n \in [Cell -> EntryType] /\ \A q \in Cell \ {0, 1} : n[q] = Zero
  BY <1>1, <1>2, ZerosTyped, BlockSizes
<1> QED
  BY <1>1, <1>3, BlockSizes DEF Chain

-----------------------------------------------------------------------------
(* Numbers of blocks, inodes and slots.                                      *)

LEMMA Numbers ==
  /\ EXT2_ROOT_INO \in Inode /\ Inode \subseteq Nat /\ Inode \subseteq Int /\ 0 \notin Inode /\ -1 \notin Inode
  /\ Block \subseteq Nat /\ 1 \in Block /\ 0 \notin Block /\ -1 \notin Block
  /\ IsFiniteSet(Inode) /\ IsFiniteSet(Block) /\ IsFiniteSet(Cell)
<1>1. /\ EXT2_ROOT_INO \in Inode /\ Inode \subseteq Nat /\ Inode \subseteq Int /\ 0 \notin Inode /\ -1 \notin Inode
      /\ Block \subseteq Nat /\ 1 \in Block /\ 0 \notin Block /\ -1 \notin Block
  BY SizesAssumption DEF Inode, Block, EXT2_ROOT_INO
<1>2. IsFiniteSet(Inode) /\ IsFiniteSet(Block) /\ IsFiniteSet(Cell)
  <2>1. EXT2_ROOT_INO \in Int /\ s_inodes_count \in Int /\ 1 \in Int /\ 0 \in Int
        /\ s_blocks_count - 1 \in Int /\ EXT2_BLOCK_SIZE - 1 \in Int
    BY SizesAssumption DEF EXT2_ROOT_INO
  <2> QED
    BY <2>1, FS_Interval DEF Inode, Block, Cell
<1> QED
  BY <1>1, <1>2

LEMMA Slots ==
  /\ Slot \subseteq Nat /\ 0 \in Slot /\ 1 \in Slot /\ 2 \in Slot /\ IsFiniteSet(Slot)
  /\ \A n \in Nat, s \in Slot : n <= s => n \in Slot
  /\ \A size \in Size : size \in Nat /\ \A k \in 0 .. size - 1 : k \in Slot
<1> DEFINE T == Size \cup {2}
<1>1. T \in SUBSET (0 .. 12) /\ T # {} /\ 12 \in Nat
  BY SizesAssumption
<1>2. Max(T) \in T /\ \A y \in T : y <= Max(T)
  <2> HIDE DEF T
  <2> QED
    BY <1>1, MaxIsGreatest
<1>3. Max(T) \in Nat /\ 2 <= Max(T) /\ Slot = 0 .. Max(T)
  BY <1>1, <1>2 DEF Slot
<1>4. \A size \in Size : size \in Nat /\ size <= Max(T)
  BY <1>1, <1>2
<1>5. IsFiniteSet(Slot)
  BY <1>3, FS_Interval
<1> HIDE DEF T
<1> QED
  BY <1>3, <1>4, <1>5

LEMMA PlacesFinite ==
  ASSUME NEW P, P \subseteq Place
  PROVE  IsFiniteSet(P)
<1>1. IsFiniteSet(Slot \X Cell)
  BY Numbers, Slots, FS_Product
<1>2. IsFiniteSet(Place)
  BY <1>1, Numbers, FS_Product DEF Place
<1> QED
  BY <1>2, FS_Subset

\* What a lookup of an image's fields gives.
LEMMA Fields ==
  ASSUME NEW d \in Image
  PROVE  /\ d.bbm \subseteq Block /\ d.ibm \subseteq Inode
         /\ d.free_blocks \in Int /\ d.free_inodes \in Int
         /\ d.inode \in [Inode -> InodeType]
         /\ d.block \in [Block -> [Cell -> EntryType]]
BY DEF Image

LEMMA InodeFields ==
  ASSUME NEW r \in InodeType
  PROVE  /\ r.i_mode \in {"none", "reg", "dir", "lnk"} /\ r.i_links_count \in Nat
         /\ r.i_blocks \in Nat /\ r.i_block \in [Slot -> {-1, 0} \cup Block]
         /\ r.i_dtime \in BOOLEAN /\ Count(r) \in Nat
BY DEF InodeType, Count

-----------------------------------------------------------------------------
(* Blocks and their owners.                                                  *)

\* What the owners of blocks do not see of the change of an inode.
Kept(r, s) ==
  /\ r.i_mode = s.i_mode /\ r.i_blocks = s.i_blocks /\ r.i_block = s.i_block
  /\ r.i_dtime = s.i_dtime
  /\ r.i_mode = "lnk" => r.i_links_count = s.i_links_count

LEMMA KeptBlocks ==
  ASSUME NEW r, NEW s, Kept(r, s)
  PROVE  BlocksOf(r) = BlocksOf(s) /\ (InodeOK(s) => InodeOK(r))
BY DEF Kept, BlocksOf, Used, Count, InodeOK

LEMMA UsedSlots ==
  ASSUME NEW r
  PROVE  /\ Count(r) = 1 => Used(r) = {0} /\ Used(r) = 0 .. Count(r) - 1
         /\ Count(r) = 2 => Used(r) = {0, 1} /\ Used(r) = 0 .. Count(r) - 1
<1>1. \A s \in Slot : (s < 1 <=> s = 0) /\ (s < 2 <=> s \in {0, 1})
  BY Slots
<1>2. 0 .. 1 - 1 = {0} /\ 0 .. 2 - 1 = {0, 1}
  OBVIOUS
<1>3. Count(r) = 1 => Used(r) = {0}
  BY <1>1, Slots DEF Used
<1>4. Count(r) = 2 => Used(r) = {0, 1}
  BY <1>1, Slots DEF Used
<1> QED
  BY <1>2, <1>3, <1>4

\* Only links are counted otherwise.
LEMMA OwnSame ==
  ASSUME NEW d, NEW e, Own(d), d.ibm \subseteq Inode, e.ibm = d.ibm, e.bbm = d.bbm,
         \A i \in Inode : Kept(e.inode[i], d.inode[i])
  PROVE  Own(e)
<1>1. \A i \in Inode : /\ BlocksOf(e.inode[i]) = BlocksOf(d.inode[i])
                       /\ InodeOK(d.inode[i]) => InodeOK(e.inode[i])
  BY KeptBlocks
<1>2. \A i \in Inode : InodeOK(e.inode[i]) /\ (e.inode[i].i_mode = "dir" => i \in e.ibm)
  BY <1>1 DEF Own, Kept
<1>3. \A i \in e.ibm : /\ ~e.inode[i].i_dtime
                       /\ e.inode[i].i_mode = "lnk" => e.inode[i].i_links_count = 1
                       /\ BlocksOf(e.inode[i]) \subseteq e.bbm
  BY <1>1 DEF Own, Kept
<1>4. /\ \A b \in e.bbm : \E i \in e.ibm : b \in BlocksOf(e.inode[i])
      /\ \A i, j \in e.ibm : i # j => BlocksOf(e.inode[i]) \cap BlocksOf(e.inode[j]) = {}
  BY <1>1 DEF Own
<1> QED
  BY <1>2, <1>3, <1>4 DEF Own

\* A free inode comes into use, with free blocks.
IntoUse(d, e, ino) ==
  /\ d.ibm \subseteq Inode /\ ino \in Inode \ d.ibm /\ e.ibm = d.ibm \cup {ino}
  /\ InodeOK(e.inode[ino]) /\ ~e.inode[ino].i_dtime
  /\ e.inode[ino].i_mode = "lnk" => e.inode[ino].i_links_count = 1
  /\ BlocksOf(e.inode[ino]) \cap d.bbm = {}
  /\ e.bbm = d.bbm \cup BlocksOf(e.inode[ino])
  /\ \A i \in Inode \ {ino} : Kept(e.inode[i], d.inode[i])

LEMMA OwnNew ==
  ASSUME NEW d, NEW e, NEW ino, Own(d), IntoUse(d, e, ino)
  PROVE  Own(e)
<1> USE DEF IntoUse
<1>1. \A i \in Inode \ {ino} : /\ BlocksOf(e.inode[i]) = BlocksOf(d.inode[i])
                               /\ InodeOK(d.inode[i]) => InodeOK(e.inode[i])
  BY KeptBlocks
<1>2. \A i \in Inode : InodeOK(e.inode[i]) /\ (e.inode[i].i_mode = "dir" => i \in e.ibm)
  BY <1>1 DEF Own, Kept
<1>3. \A i \in e.ibm : /\ ~e.inode[i].i_dtime
                       /\ e.inode[i].i_mode = "lnk" => e.inode[i].i_links_count = 1
                       /\ BlocksOf(e.inode[i]) \subseteq e.bbm
  BY <1>1 DEF Own, Kept
<1>4. \A b \in e.bbm : \E i \in e.ibm : b \in BlocksOf(e.inode[i])
  <2>1. \A i \in d.ibm : i \in Inode \ {ino} /\ i \in e.ibm
    OBVIOUS
  <2> QED
    BY <1>1, <2>1 DEF Own
<1>5. \A i, j \in e.ibm : i # j => BlocksOf(e.inode[i]) \cap BlocksOf(e.inode[j]) = {}
  <2>1. \A i \in d.ibm : /\ i \in Inode \ {ino} /\ BlocksOf(e.inode[i]) = BlocksOf(d.inode[i])
                         /\ BlocksOf(e.inode[i]) \subseteq d.bbm
    BY <1>1 DEF Own
  <2>2. \A i, j \in d.ibm : i # j => BlocksOf(e.inode[i]) \cap BlocksOf(e.inode[j]) = {}
    BY <2>1 DEF Own
  <2> QED
    BY <2>1, <2>2
<1> QED
  BY <1>2, <1>3, <1>4, <1>5 DEF Own

\* An inode that is no directory goes out of use, and its blocks with it.
OutOfUse(d, e, ino) ==
  /\ d.ibm \subseteq Inode /\ ino \in d.ibm /\ d.inode[ino].i_mode # "dir"
  /\ e.ibm = d.ibm \ {ino} /\ e.bbm = d.bbm \ BlocksOf(d.inode[ino])
  /\ e.inode[ino].i_mode = d.inode[ino].i_mode
  /\ e.inode[ino].i_blocks = d.inode[ino].i_blocks
  /\ e.inode[ino].i_block = d.inode[ino].i_block
  /\ \A i \in Inode \ {ino} : Kept(e.inode[i], d.inode[i])

LEMMA OwnFreed ==
  ASSUME NEW d, NEW e, NEW ino, Own(d), OutOfUse(d, e, ino)
  PROVE  Own(e)
<1> USE DEF OutOfUse
<1>1. \A i \in Inode \ {ino} : /\ BlocksOf(e.inode[i]) = BlocksOf(d.inode[i])
                               /\ InodeOK(d.inode[i]) => InodeOK(e.inode[i])
  BY KeptBlocks
<1>2. InodeOK(d.inode[ino]) => InodeOK(e.inode[ino])
  BY DEF InodeOK, Used, Count
<1>3. \A i \in Inode : InodeOK(e.inode[i]) /\ (e.inode[i].i_mode = "dir" => i \in e.ibm)
  BY <1>1, <1>2 DEF Own, Kept
<1>4. \A i \in e.ibm : /\ i \in d.ibm /\ i \in Inode \ {ino}
                       /\ BlocksOf(e.inode[i]) = BlocksOf(d.inode[i])
                       /\ BlocksOf(d.inode[i]) \cap BlocksOf(d.inode[ino]) = {}
                       /\ BlocksOf(d.inode[i]) \subseteq d.bbm
  BY <1>1 DEF Own
<1>5. \A i \in e.ibm : /\ ~e.inode[i].i_dtime
                       /\ e.inode[i].i_mode = "lnk" => e.inode[i].i_links_count = 1
                       /\ BlocksOf(e.inode[i]) \subseteq e.bbm
  <2>1. \A i \in e.ibm : BlocksOf(e.inode[i]) \subseteq e.bbm
    BY <1>4
  <2>2. \A i \in e.ibm : /\ ~e.inode[i].i_dtime
                         /\ e.inode[i].i_mode = "lnk" => e.inode[i].i_links_count = 1
    BY <1>4 DEF Own, Kept
  <2> QED
    BY <2>1, <2>2
<1>6. \A b \in e.bbm : \E i \in e.ibm : b \in BlocksOf(e.inode[i])
  <2>1. ASSUME NEW b \in e.bbm PROVE \E i \in e.ibm : b \in BlocksOf(e.inode[i])
    <3>1. PICK i \in d.ibm : b \in BlocksOf(d.inode[i])
      BY DEF Own
    <3>2. i \in e.ibm
      BY <3>1
    <3> QED
      BY <1>4, <3>1, <3>2
  <2> QED
    BY <2>1
<1>7. \A i, j \in e.ibm : i # j => BlocksOf(e.inode[i]) \cap BlocksOf(e.inode[j]) = {}
  BY <1>4 DEF Own
<1> QED
  BY <1>3, <1>5, <1>6, <1>7 DEF Own

\* A directory of one block gets a free one in its second slot.
GrownBy(d, e, dir, b) ==
  /\ dir \in Dirs(d) /\ b \in Block \ d.bbm
  /\ Count(d.inode[dir]) = 1 /\ d.inode[dir].i_block[2] = 0
  /\ e.ibm = d.ibm /\ e.bbm = d.bbm \cup {b}
  /\ e.inode[dir].i_mode = "dir" /\ e.inode[dir].i_dtime = d.inode[dir].i_dtime
  /\ e.inode[dir].i_blocks = d.inode[dir].i_blocks + 2
  /\ e.inode[dir].i_block = [d.inode[dir].i_block EXCEPT ![1] = b]
  /\ \A i \in Inode \ {dir} : Kept(e.inode[i], d.inode[i])

LEMMA OwnGrown ==
  ASSUME NEW d \in Image, NEW e, NEW dir, NEW b, Own(d), GrownBy(d, e, dir, b)
  PROVE  /\ Own(e) /\ Used(d.inode[dir]) = {0} /\ Used(e.inode[dir]) = {0, 1}
         /\ e.inode[dir].i_block[1] = b
         /\ e.inode[dir].i_block[0] = d.inode[dir].i_block[0]
<1> USE DEF GrownBy
<1> DEFINE r == d.inode[dir]
           s == e.inode[dir]
<1>1. dir \in Inode /\ dir \in d.ibm /\ r \in InodeType /\ r.i_mode = "dir" /\ InodeOK(r)
  BY Fields DEF Dirs, Own
<1>2. r.i_block \in [Slot -> {-1, 0} \cup Block] /\ r.i_blocks \in Nat
  BY <1>1, InodeFields
<1>3. s.i_block[1] = b /\ s.i_block[2] = 0 /\ s.i_block[0] = r.i_block[0]
  BY <1>2, Slots
<1>4. r.i_blocks = 2 /\ s.i_blocks = 4 /\ Count(s) = 2
  <2>1. r.i_blocks = 2
    BY <1>1 DEF InodeOK
  <2> QED
    BY <2>1 DEF Count
<1>5. Used(r) = {0} /\ Used(s) = {0, 1}
  BY <1>4, UsedSlots
<1>6. r.i_block[0] \in Block /\ r.i_block[0] \in d.bbm
  <2>1. r.i_block[0] \in BlocksOf(r) /\ BlocksOf(r) \subseteq d.bbm
    BY <1>1, <1>5 DEF Own, BlocksOf
  <2> QED
    BY <2>1, Fields
<1>7. BlocksOf(r) = {r.i_block[0]} /\ BlocksOf(s) = BlocksOf(r) \cup {b}
  BY <1>3, <1>5 DEF BlocksOf
<1>8. InodeOK(s)
  BY <1>3, <1>4, <1>5, <1>6, Slots DEF InodeOK
<1>9. \A i \in Inode \ {dir} : /\ BlocksOf(e.inode[i]) = BlocksOf(d.inode[i])
                               /\ InodeOK(d.inode[i]) => InodeOK(e.inode[i])
  BY KeptBlocks
<1>10. \A i \in Inode : InodeOK(e.inode[i]) /\ (e.inode[i].i_mode = "dir" => i \in e.ibm)
  BY <1>1, <1>8, <1>9 DEF Own, Kept
<1>11. \A i \in d.ibm \ {dir} : /\ i \in Inode \ {dir} /\ BlocksOf(e.inode[i]) = BlocksOf(d.inode[i])
                               /\ BlocksOf(d.inode[i]) \subseteq d.bbm
                               /\ BlocksOf(d.inode[i]) \cap BlocksOf(r) = {}
  BY <1>1, <1>9, Fields DEF Own
<1>12. \A i \in e.ibm : /\ ~e.inode[i].i_dtime
                        /\ e.inode[i].i_mode = "lnk" => e.inode[i].i_links_count = 1
  BY <1>1, <1>11 DEF Own, Kept
<1>13. \A i \in e.ibm : BlocksOf(e.inode[i]) \subseteq e.bbm
  BY <1>6, <1>7, <1>11
<1>14. \A c \in e.bbm : \E i \in e.ibm : c \in BlocksOf(e.inode[i])
  <2>1. \A i \in d.ibm : BlocksOf(d.inode[i]) \subseteq BlocksOf(e.inode[i])
    BY <1>7, <1>11
  <2>2. \A c \in d.bbm : \E i \in d.ibm : c \in BlocksOf(d.inode[i])
    BY DEF Own
  <2>3. b \in BlocksOf(e.inode[dir]) /\ dir \in e.ibm
    BY <1>1, <1>7
  <2> QED
    BY <2>1, <2>2, <2>3
<1>15. \A i, j \in e.ibm : i # j => BlocksOf(e.inode[i]) \cap BlocksOf(e.inode[j]) = {}
  <2>1. \A i, j \in d.ibm \ {dir} : i # j => BlocksOf(e.inode[i]) \cap BlocksOf(e.inode[j]) = {}
    BY <1>11 DEF Own
  <2>2. \A i \in d.ibm \ {dir} : BlocksOf(e.inode[i]) \cap BlocksOf(e.inode[dir]) = {}
    BY <1>7, <1>11
  <2> QED
    BY <2>1, <2>2
<1>16. Own(e)
  BY <1>10, <1>12, <1>13, <1>14, <1>15 DEF Own
<1> QED
  BY <1>3, <1>5, <1>16

\* A block is in one slot of one directory.
LEMMA OneSlot ==
  ASSUME NEW d, Own(d), d.ibm \subseteq Inode
  PROVE  \A i, j \in Dirs(d) : \A s \in Used(d.inode[i]), t \in Used(d.inode[j]) :
           d.inode[i].i_block[s] = d.inode[j].i_block[t] => i = j /\ s = t
<1> SUFFICES ASSUME NEW i \in Dirs(d), NEW j \in Dirs(d),
                    NEW s \in Used(d.inode[i]), NEW t \in Used(d.inode[j]),
                    d.inode[i].i_block[s] = d.inode[j].i_block[t]
             PROVE  i = j /\ s = t
  OBVIOUS
<1>1. i \in d.ibm /\ j \in d.ibm /\ i \in Inode
  BY DEF Dirs
<1>2. d.inode[i].i_block[s] \in BlocksOf(d.inode[i]) /\ d.inode[j].i_block[t] \in BlocksOf(d.inode[j])
  BY DEF BlocksOf
<1>3. i = j
  BY <1>1, <1>2 DEF Own
<1>4. InodeOK(d.inode[i])
  BY <1>1 DEF Own
<1>5. s = t
  BY <1>3, <1>4 DEF InodeOK
<1> QED
  BY <1>3, <1>5

\* A directory has a first block, and at most one more; they are marked.
LEMMA DirectoryBlocks ==
  ASSUME NEW d \in Image, Own(d), NEW dir \in Dirs(d)
  PROVE  /\ dir \in Inode /\ dir \in d.ibm /\ Count(d.inode[dir]) \in {1, 2}
         /\ d.inode[dir].i_blocks = 2 * Count(d.inode[dir])
         /\ Used(d.inode[dir]) = 0 .. Count(d.inode[dir]) - 1
         /\ 0 \in Used(d.inode[dir]) /\ Used(d.inode[dir]) \subseteq {0, 1}
         /\ \A s \in Used(d.inode[dir]) : /\ s \in Slot
                                          /\ d.inode[dir].i_block[s] \in Block
                                          /\ d.inode[dir].i_block[s] \in d.bbm
         /\ Count(d.inode[dir]) = 2 => d.inode[dir].i_block[2] = 0
<1>1. dir \in Inode /\ dir \in d.ibm /\ d.inode[dir].i_mode = "dir" /\ InodeOK(d.inode[dir])
  BY Fields DEF Dirs, Own
<1>2. Count(d.inode[dir]) \in {1, 2} /\ d.inode[dir].i_blocks = 2 * Count(d.inode[dir])
      /\ (Count(d.inode[dir]) = 2 => d.inode[dir].i_block[2] = 0)
  BY <1>1 DEF InodeOK
<1>3. /\ Used(d.inode[dir]) = 0 .. Count(d.inode[dir]) - 1
      /\ 0 \in Used(d.inode[dir]) /\ Used(d.inode[dir]) \subseteq {0, 1}
  BY <1>2, UsedSlots
<1>4. \A s \in Used(d.inode[dir]) : s \in Slot /\ d.inode[dir].i_block[s] \in BlocksOf(d.inode[dir])
  BY DEF Used, BlocksOf
<1>5. BlocksOf(d.inode[dir]) \subseteq d.bbm /\ d.bbm \subseteq Block
  BY <1>1, Fields DEF Own
<1> QED
  BY <1>1, <1>2, <1>3, <1>4, <1>5

-----------------------------------------------------------------------------
(* The entries of directories and their places.                              *)

\* The same directories with the same blocks.
SameDirs(d, e) ==
  /\ Dirs(e) = Dirs(d)
  /\ \A i \in Dirs(d) : /\ e.inode[i].i_block = d.inode[i].i_block
                        /\ e.inode[i].i_blocks = d.inode[i].i_blocks

LEMMA LayoutSame ==
  ASSUME NEW d, NEW e, NEW P, Layout(d, P), SameDirs(d, e), e.block = d.block
  PROVE  Layout(e, P) /\ \A y \in P : Ent(e, y) = Ent(d, y)
<1>1. \A i \in Dirs(d) : /\ Used(e.inode[i]) = Used(d.inode[i])
                         /\ BlocksOf(e.inode[i]) = BlocksOf(d.inode[i])
  BY DEF SameDirs, Used, BlocksOf, Count
<1>2. Laid(e, P)
  BY <1>1 DEF Layout, Laid, SameDirs
<1>3. NothingElse(e)
  BY <1>1 DEF Layout, NothingElse, SameDirs
<1>4. \A y \in P : Ent(e, y) = Ent(d, y)
  BY Zenon DEF Layout, Laid, SameDirs, Ent
<1> QED
  BY <1>2, <1>3, <1>4 DEF Layout

\* What a directory block shows are the entries at its places.
LEMMA BlockShows ==
  ASSUME NEW d \in Image, NEW P, Own(d), Laid(d, P), NEW dir \in Dirs(d), NEW s \in Used(d.inode[dir]),
         NEW c, c = d.block[d.inode[dir].i_block[s]]
  PROVE  /\ c \in [Cell -> EntryType] /\ Shown(c) = InDir(P, dir, s) /\ Chain(c, Shown(c)) /\ ~Stuck(c)
         /\ Content(d, dir, s) = c
         /\ \A p \in Shown(c) : <<dir, <<s, p>>>> \in P /\ Ent(d, <<dir, <<s, p>>>>) = c[p]
         /\ LastShown(c) + c[LastShown(c)].rec_len = EXT2_BLOCK_SIZE
<1>1. d.inode[dir].i_block[s] \in Block /\ c \in [Cell -> EntryType]
  BY DirectoryBlocks, Fields
<1>2. Chain(c, InDir(P, dir, s)) /\ Lengths(c)
  BY <1>1, EntryLengths DEF Laid
<1>3. /\ Shown(c) = InDir(P, dir, s) /\ ~Stuck(c)
      /\ LastShown(c) + c[LastShown(c)].rec_len = EXT2_BLOCK_SIZE
  BY <1>2, ChainShown, Zenon
<1>4. \A p \in Shown(c) : <<dir, <<s, p>>>> \in P /\ Ent(d, <<dir, <<s, p>>>>) = c[p]
  BY <1>3, Zenon DEF InDir, Ent
<1> QED
  BY <1>1, <1>2, <1>3, <1>4, Zenon DEF Content

LEMMA ShownPlaces ==
  ASSUME NEW d \in Image, NEW P, Own(d), Laid(d, P)
  PROVE  \A dir \in Dirs(d) : \A s \in Used(d.inode[dir]) :
           Shown(d.block[d.inode[dir].i_block[s]]) = InDir(P, dir, s)
BY BlockShows

\* The places are those that the blocks show, and no others.
LEMMA PlacesShown ==
  ASSUME NEW d \in Image, NEW P, Own(d), Laid(d, P)
  PROVE  P = PlacesOf(d)
<1>1. ASSUME NEW x \in P PROVE x \in PlacesOf(d)
  <2>1. /\ x \in Place /\ x[1] \in Dirs(d) /\ x[2][1] \in Used(d.inode[x[1]])
        /\ x = <<x[1], <<x[2][1], x[2][2]>>>> /\ x[2][2] \in Cell
    BY DEF Laid, Place
  <2>2. x[2][2] \in InDir(P, x[1], x[2][1])
    BY <2>1 DEF InDir
  <2>3. x[2][2] \in Shown(d.block[d.inode[x[1]].i_block[x[2][1]]])
    BY <2>1, <2>2, BlockShows
  <2> QED
    BY <2>1, <2>3, Zenon DEF PlacesOf
<1>2. ASSUME NEW x \in PlacesOf(d) PROVE x \in P
  <2>1. /\ x \in Place /\ x[1] \in Dirs(d) /\ x[2][1] \in Used(d.inode[x[1]])
        /\ x = <<x[1], <<x[2][1], x[2][2]>>>>
        /\ x[2][2] \in Shown(d.block[d.inode[x[1]].i_block[x[2][1]]])
    BY DEF PlacesOf, Place
  <2>2. \A p \in Shown(d.block[d.inode[x[1]].i_block[x[2][1]]]) : <<x[1], <<x[2][1], p>>>> \in P
    BY <2>1, BlockShows, Zenon
  <2> QED
    BY <2>1, <2>2, Zenon
<1> QED
  BY <1>1, <1>2

LEMMA LaidPlaces ==
  ASSUME NEW d, NEW P, Laid(d, P)
  PROVE  P \subseteq Place /\ \A y \in P : y[1] \in Dirs(d) /\ y[2][1] \in Used(d.inode[y[1]])
BY DEF Laid

\* The new entry in a block of a directory, and nothing else that says more.
GainsAt(d, e, b, x, p) ==
  \E dir \in Dirs(d) : \E s \in Used(d.inode[dir]) :
    /\ x = <<dir, <<s, p>>>> /\ b = d.inode[dir].i_block[s]
    /\ Gains(d.block[b], e.block[b], p)
    /\ \A a \in Block \ {b} : e.block[a] = d.block[a]

\* The entry at x is the only new one, and the others are as before.
OneMore(d, e, P, x) ==
  /\ x \in Place /\ x \notin P /\ Layout(e, P \cup {x})
  /\ \A y \in P : Alike(Ent(e, y), Ent(d, y))

LEMMA LayoutGains ==
  ASSUME NEW d \in Image, NEW e \in Image, NEW P, NEW b, NEW x, NEW p,
         Own(d), Layout(d, P), SameDirs(d, e), GainsAt(d, e, b, x, p)
  PROVE  OneMore(d, e, P, x) /\ Ent(e, x) = e.block[b][p]
<1> DEFINE Q == P \cup {x}
<1>a. PICK dir \in Dirs(d), s \in Slot :
        /\ s \in Used(d.inode[dir]) /\ x = <<dir, <<s, p>>>> /\ b = d.inode[dir].i_block[s]
        /\ Gains(d.block[b], e.block[b], p)
        /\ \A a \in Block \ {b} : e.block[a] = d.block[a]
  BY Zenon DEF GainsAt, Used
<1>b. x = <<dir, <<s, p>>>>
  BY <1>a, Zenon
<1>c. s \in Used(d.inode[dir]) /\ b = d.inode[dir].i_block[s]
  BY <1>a, Zenon
<1>d. Gains(d.block[b], e.block[b], p)
  BY <1>a, Zenon
<1>e. \A a \in Block \ {b} : e.block[a] = d.block[a]
  BY <1>a, Zenon
<1>1. /\ dir \in Inode /\ s \in Slot /\ b \in Block /\ d.ibm \subseteq Inode
      /\ \A i \in Dirs(d) : \A t \in Used(d.inode[i]) : d.inode[i].i_block[t] \in Block
  BY <1>c, DirectoryBlocks, Fields
<1>2. Laid(d, P) /\ NothingElse(d) /\ P \subseteq Place
  BY LaidPlaces DEF Layout
<1>3. Shown(d.block[b]) = InDir(P, dir, s)
  BY <1>c, <1>2, BlockShows
<1>4. /\ e.block[b] \in [Cell -> EntryType] /\ p \in Cell /\ p \notin InDir(P, dir, s)
      /\ Chain(e.block[b], InDir(P, dir, s) \cup {p})
      /\ \A q \in Cell \ {p} : Alike(e.block[b][q], d.block[b][q])
  BY <1>d, <1>3, Zenon DEF Gains
<1>5. x \in Place /\ x \notin P /\ x[1] = dir /\ x[2][1] = s /\ x[2][2] = p
  BY <1>b, <1>1, <1>4, Zenon DEF Place, InDir
<1>6. \A i \in Dirs(d) : /\ Used(e.inode[i]) = Used(d.inode[i])
                         /\ BlocksOf(e.inode[i]) = BlocksOf(d.inode[i])
                         /\ e.inode[i].i_block = d.inode[i].i_block
  BY DEF SameDirs, Used, BlocksOf, Count
<1>7. ASSUME NEW i \in Dirs(d), NEW t \in Used(d.inode[i]), d.inode[i].i_block[t] = b
      PROVE  i = dir /\ t = s
  BY <1>c, <1>1, <1>7, OneSlot
<1>8. InDir(Q, dir, s) = InDir(P, dir, s) \cup {p}
  BY <1>b, <1>4, Zenon DEF InDir
<1>9. \A i, t : i # dir \/ t # s => InDir(Q, i, t) = InDir(P, i, t)
  BY <1>b DEF InDir
<1>10. ASSUME NEW i \in Dirs(d), NEW t \in Used(d.inode[i])
       PROVE  Chain(e.block[d.inode[i].i_block[t]], InDir(Q, i, t))
  <2>1. CASE i = dir /\ t = s
    BY <1>c, <1>4, <1>8, <2>1, Zenon
  <2>2. CASE ~(i = dir /\ t = s)
    <3>1. d.inode[i].i_block[t] \in Block \ {b}
      BY <1>1, <1>7, <2>2
    <3>2. e.block[d.inode[i].i_block[t]] = d.block[d.inode[i].i_block[t]]
      BY <1>e, <3>1, SMTT(30)
    <3>3. Chain(d.block[d.inode[i].i_block[t]], InDir(P, i, t))
      BY <1>2, SMTT(30) DEF Laid
    <3>4. InDir(Q, i, t) = InDir(P, i, t)
      BY <1>9, <2>2
    <3> QED
      BY <3>2, <3>3, <3>4, Zenon
  <2> QED
    BY <2>1, <2>2
<1>11. Laid(e, Q)
  <2>1. \A y \in Q : y \in Place /\ y[1] \in Dirs(d) /\ y[2][1] \in Used(d.inode[y[1]])
    BY <1>c, <1>2, <1>5, LaidPlaces
  <2> HIDE DEF Q
  <2> QED
    BY <1>6, <1>10, <2>1, Zenon DEF Laid, SameDirs
<1>12. Shown(e.block[b]) = Shown(d.block[b]) \cup {p}
  BY <1>3, <1>4, EntryLengths, ChainShown, Zenon
<1>13. NothingElse(e)
  <2>1. ASSUME NEW a \in Block, NEW q \in Cell \ Shown(e.block[a]) PROVE e.block[a][q].file_type # "dir"
    <3>1. CASE a = b
      <4>1. q \in Cell \ {p} /\ q \notin Shown(d.block[a])
        BY <1>12, <3>1, Zenon
      <4>2. d.block[a][q].file_type # "dir" /\ Alike(e.block[a][q], d.block[a][q])
        BY <1>2, <1>4, <3>1, <4>1, Zenon DEF NothingElse
      <4> QED
        BY <4>2 DEF Alike
    <3>2. CASE a # b
      BY <1>e, <1>2, <3>2 DEF NothingElse
    <3> QED
      BY <3>1, <3>2
  <2>2. ASSUME NEW a \in Block, \A i \in Dirs(e) : a \notin BlocksOf(e.inode[i])
        PROVE  e.block[a] = Zeros
    <3>1. \A i \in Dirs(d) : a \notin BlocksOf(d.inode[i])
      BY <1>6, <2>2 DEF SameDirs
    <3>2. a # b
      BY <1>c, <3>1 DEF BlocksOf
    <3> QED
      BY <1>e, <1>2, <3>1, <3>2 DEF NothingElse
  <2> QED
    BY <2>1, <2>2 DEF NothingElse
<1>14. ASSUME NEW y \in P PROVE Alike(Ent(e, y), Ent(d, y))
  <2>1. /\ y[1] \in Dirs(d) /\ y[2][1] \in Used(d.inode[y[1]]) /\ y[2][2] \in Cell
        /\ y = <<y[1], <<y[2][1], y[2][2]>>>>
    BY <1>2, LaidPlaces DEF Place
  <2>2. CASE d.inode[y[1]].i_block[y[2][1]] = b
    <3>1. y[1] = dir /\ y[2][1] = s
      BY <1>7, <2>1, <2>2
    <3>2. y[2][2] # p
      BY <1>b, <1>5, <2>1, <3>1
    <3> QED
      BY <1>4, <1>6, <2>1, <2>2, <3>2, Zenon DEF Ent
  <2>3. CASE d.inode[y[1]].i_block[y[2][1]] # b
    BY <1>e, <1>1, <1>6, <2>1, <2>3, Zenon DEF Ent, Alike
  <2> QED
    BY <2>2, <2>3
<1>15. Ent(e, x) = e.block[b][p]
  BY <1>c, <1>5, <1>6, Zenon DEF Ent
<1> QED
  BY <1>5, <1>11, <1>13, <1>14, <1>15, Zenon DEF Layout, OneMore

NoDirectory(c, p) == c[p].file_type # "dir"

\* An entry that is no directory goes out of view.
LosesAt(d, e, b, x, p) ==
  \E dir \in Dirs(d) : \E s \in Used(d.inode[dir]) :
    /\ x = <<dir, <<s, p>>>> /\ b = d.inode[dir].i_block[s]
    /\ Loses(d.block[b], e.block[b], p) /\ NoDirectory(d.block[b], p)
    /\ \A a \in Block \ {b} : e.block[a] = d.block[a]

OneLess(d, e, P, x) ==
  /\ x \in P /\ Layout(e, P \ {x})
  /\ \A y \in P : Alike(Ent(e, y), Ent(d, y))

LEMMA LayoutLoses ==
  ASSUME NEW d \in Image, NEW e \in Image, NEW P, NEW b, NEW x, NEW p,
         Own(d), Layout(d, P), SameDirs(d, e), LosesAt(d, e, b, x, p)
  PROVE  OneLess(d, e, P, x)
<1> DEFINE Q == P \ {x}
<1>a. PICK dir \in Dirs(d), s \in Slot :
        /\ s \in Used(d.inode[dir]) /\ x = <<dir, <<s, p>>>> /\ b = d.inode[dir].i_block[s]
        /\ Loses(d.block[b], e.block[b], p) /\ NoDirectory(d.block[b], p)
        /\ \A a \in Block \ {b} : e.block[a] = d.block[a]
  BY Zenon DEF LosesAt, Used
<1>b. x = <<dir, <<s, p>>>>
  BY <1>a, Zenon
<1>c. s \in Used(d.inode[dir]) /\ b = d.inode[dir].i_block[s]
  BY <1>a, Zenon
<1>d. Loses(d.block[b], e.block[b], p) /\ NoDirectory(d.block[b], p)
  BY <1>a, Zenon
<1>e. \A a \in Block \ {b} : e.block[a] = d.block[a]
  BY <1>a, Zenon
<1>1. /\ dir \in Inode /\ s \in Slot /\ b \in Block /\ d.ibm \subseteq Inode
      /\ \A i \in Dirs(d) : \A t \in Used(d.inode[i]) : d.inode[i].i_block[t] \in Block
  BY <1>c, DirectoryBlocks, Fields, Zenon
<1>2. Laid(d, P) /\ NothingElse(d) /\ P \subseteq Place
  BY LaidPlaces DEF Layout
<1>3. Shown(d.block[b]) = InDir(P, dir, s)
  <2>1. Laid(d, P)
    BY <1>2
  <2> QED
    BY <1>c, <2>1, ShownPlaces, Zenon
<1>4. /\ e.block[b] \in [Cell -> EntryType] /\ p \in Cell /\ p \in InDir(P, dir, s)
      /\ Chain(e.block[b], InDir(P, dir, s) \ {p})
      /\ \A q \in Cell : Alike(e.block[b][q], d.block[b][q])
  BY <1>d, <1>3, Zenon DEF Loses, InDir
<1>5. x \in P /\ x[1] = dir /\ x[2][1] = s /\ x[2][2] = p
  BY <1>b, <1>1, <1>4, Zenon DEF Place, InDir
<1>6. \A i \in Dirs(d) : /\ Used(e.inode[i]) = Used(d.inode[i])
                         /\ BlocksOf(e.inode[i]) = BlocksOf(d.inode[i])
                         /\ e.inode[i].i_block = d.inode[i].i_block
  BY Zenon DEF SameDirs, Used, BlocksOf, Count
<1>7. ASSUME NEW i \in Dirs(d), NEW t \in Used(d.inode[i]), d.inode[i].i_block[t] = b
      PROVE  i = dir /\ t = s
  BY <1>c, <1>1, <1>7, OneSlot, ZenonT(30)
<1>8. InDir(Q, dir, s) = InDir(P, dir, s) \ {p}
  BY <1>b, <1>4, Zenon DEF InDir
<1>9. \A i, t : i # dir \/ t # s => InDir(Q, i, t) = InDir(P, i, t)
  BY <1>b DEF InDir
<1>10. ASSUME NEW i \in Dirs(d), NEW t \in Used(d.inode[i])
       PROVE  Chain(e.block[d.inode[i].i_block[t]], InDir(Q, i, t))
  <2>1. CASE i = dir /\ t = s
    BY <1>c, <1>4, <1>8, <2>1, Zenon
  <2>2. CASE ~(i = dir /\ t = s)
    <3>1. d.inode[i].i_block[t] \in Block \ {b}
      BY <1>1, <1>7, <2>2, Zenon
    <3>2. e.block[d.inode[i].i_block[t]] = d.block[d.inode[i].i_block[t]]
      BY <1>e, <3>1, Zenon
    <3>3. Chain(d.block[d.inode[i].i_block[t]], InDir(P, i, t))
      BY <1>2, Zenon DEF Laid
    <3>4. InDir(Q, i, t) = InDir(P, i, t)
      BY <1>9, <2>2
    <3> QED
      BY <3>2, <3>3, <3>4, Zenon
  <2> QED
    BY <2>1, <2>2, Zenon
<1>11. Laid(e, Q)
  <2>1. \A y \in Q : y \in Place /\ y[1] \in Dirs(d) /\ y[2][1] \in Used(d.inode[y[1]])
    BY <1>2, LaidPlaces
  <2> HIDE DEF Q
  <2> QED
    BY <1>6, <1>10, <2>1, Zenon DEF Laid, SameDirs
<1>12. Shown(e.block[b]) = Shown(d.block[b]) \ {p}
  BY <1>3, <1>4, EntryLengths, ChainShown, Zenon
<1>13. NothingElse(e)
  <2>1. ASSUME NEW a \in Block, NEW q \in Cell \ Shown(e.block[a]) PROVE e.block[a][q].file_type # "dir"
    <3>1. CASE a = b
      <4>1. q = p \/ q \notin Shown(d.block[a])
        BY <1>12, <3>1, Zenon
      <4>2. d.block[a][q].file_type # "dir" /\ Alike(e.block[a][q], d.block[a][q])
        BY <1>d, <1>2, <1>4, <3>1, <4>1, Zenon DEF NothingElse, NoDirectory
      <4> QED
        BY <4>2, Zenon DEF Alike
    <3>2. CASE a # b
      BY <1>e, <1>2, <3>2, SMTT(30) DEF NothingElse
    <3> QED
      BY <3>1, <3>2, SMTT(30)
  <2>2. ASSUME NEW a \in Block, \A i \in Dirs(e) : a \notin BlocksOf(e.inode[i])
        PROVE  e.block[a] = Zeros
    <3>1. \A i \in Dirs(d) : a \notin BlocksOf(d.inode[i])
      BY <1>6, <2>2, SMTT(30) DEF SameDirs
    <3>2. a # b
      BY <1>c, <3>1 DEF BlocksOf
    <3> QED
      BY <1>e, <1>2, <3>1, <3>2, SMTT(30) DEF NothingElse
  <2> QED
    BY <2>1, <2>2, Zenon DEF NothingElse
<1>14. ASSUME NEW y \in P PROVE Alike(Ent(e, y), Ent(d, y))
  <2>1. /\ y[1] \in Dirs(d) /\ y[2][1] \in Used(d.inode[y[1]]) /\ y[2][2] \in Cell
    BY <1>2, LaidPlaces DEF Place
  <2>2. CASE d.inode[y[1]].i_block[y[2][1]] = b
    BY <1>4, <1>6, <2>1, <2>2, Zenon DEF Ent
  <2>3. CASE d.inode[y[1]].i_block[y[2][1]] # b
    BY <1>e, <1>1, <1>6, <2>1, <2>3, Zenon DEF Ent, Alike
  <2> QED
    BY <2>2, <2>3, Zenon
<1> QED
  BY <1>5, <1>11, <1>13, <1>14, Zenon DEF Layout, OneLess

\* A block of a directory is marked, and so no free block is one.
LEMMA DirectoryNotFree ==
  ASSUME NEW d \in Image, Own(d)
  PROVE  \A b \in Block \ d.bbm : \A i \in Dirs(d) :
           b \notin BlocksOf(d.inode[i]) /\ \A s \in Used(d.inode[i]) : d.inode[i].i_block[s] # b
BY DEF Own, Dirs, BlocksOf

\* The new entry in the new second block of a directory.
StartsAt(d, e, dir, b) ==
  /\ dir \in Dirs(d) /\ Dirs(e) = Dirs(d) /\ b \in Block \ d.bbm
  /\ Used(d.inode[dir]) = {0} /\ Used(e.inode[dir]) = {0, 1} /\ e.inode[dir].i_block[1] = b
  /\ e.inode[dir].i_block[0] = d.inode[dir].i_block[0]
  /\ \A i \in Dirs(d) \ {dir} : /\ e.inode[i].i_block = d.inode[i].i_block
                                /\ e.inode[i].i_blocks = d.inode[i].i_blocks
  /\ Chain(e.block[b], {0}) /\ \A q \in Cell \ {0} : e.block[b][q] = Zero
  /\ \A a \in Block \ {b} : e.block[a] = d.block[a]

LEMMA LayoutGrown ==
  ASSUME NEW d \in Image, NEW e \in Image, NEW P, NEW dir, NEW b,
         Own(d), Layout(d, P), StartsAt(d, e, dir, b), NEW x, x = <<dir, <<1, 0>>>>
  PROVE  OneMore(d, e, P, x) /\ Ent(e, x) = e.block[b][0]
<1> USE DEF StartsAt
<1> DEFINE Q == P \cup {x}
<1>1. /\ dir \in Inode /\ b \in Block /\ d.ibm \subseteq Inode
      /\ \A i \in Dirs(d) : \A t \in Used(d.inode[i]) :
           d.inode[i].i_block[t] \in Block /\ d.inode[i].i_block[t] # b
  BY DirectoryBlocks, DirectoryNotFree, Fields
<1>2. Laid(d, P) /\ NothingElse(d) /\ P \subseteq Place
  BY LaidPlaces DEF Layout
<1>3. x \in Place /\ x \notin P /\ x[1] = dir /\ x[2][1] = 1 /\ x[2][2] = 0
  <2>1. x \in Place /\ x[1] = dir /\ x[2][1] = 1 /\ x[2][2] = 0
    BY <1>1, Slots, BlockSizes DEF Place
  <2>2. 1 \notin Used(d.inode[dir])
    OBVIOUS
  <2>3. \A y \in P : y[2][1] \in Used(d.inode[y[1]])
    BY <1>2, LaidPlaces
  <2>4. x \notin P
    BY <2>1, <2>2, <2>3, Zenon
  <2> QED
    BY <2>1, <2>4, Zenon
<1>4. \A i \in Dirs(d) : /\ Used(d.inode[i]) \subseteq Used(e.inode[i])
                         /\ \A t \in Used(d.inode[i]) :
                              e.inode[i].i_block[t] = d.inode[i].i_block[t]
                         /\ BlocksOf(d.inode[i]) \subseteq BlocksOf(e.inode[i])
                         /\ \A t \in Used(e.inode[i]) : t \notin Used(d.inode[i]) => i = dir /\ t = 1
  <2>1. \A i \in Dirs(d) \ {dir} : /\ Used(e.inode[i]) = Used(d.inode[i])
                                   /\ e.inode[i].i_block = d.inode[i].i_block
                                   /\ BlocksOf(e.inode[i]) = BlocksOf(d.inode[i])
    BY DEF Used, Count, BlocksOf
  <2>2. BlocksOf(d.inode[dir]) \subseteq BlocksOf(e.inode[dir])
    BY DEF BlocksOf
  <2> QED
    BY <2>1, <2>2
<1>5. InDir(Q, dir, 1) = {0}
  <2>1. InDir(P, dir, 1) = {}
    <3>1. ASSUME NEW p \in InDir(P, dir, 1) PROVE FALSE
      <4> DEFINE y == <<dir, <<1, p>>>>
      <4>1. y \in P /\ y[1] = dir /\ y[2][1] = 1
        BY <3>1 DEF InDir
      <4>2. y[2][1] \in Used(d.inode[y[1]])
        BY <1>2, <4>1, LaidPlaces
      <4> QED
        BY <4>1, <4>2
    <3> QED
      BY <3>1
  <2> QED
    BY <2>1, BlockSizes DEF InDir
<1>6. \A i, t : i # dir \/ t # 1 => InDir(Q, i, t) = InDir(P, i, t)
  BY DEF InDir
<1>7. ASSUME NEW i \in Dirs(d), NEW t \in Used(e.inode[i])
      PROVE  Chain(e.block[e.inode[i].i_block[t]], InDir(Q, i, t))
  <2>1. CASE t \in Used(d.inode[i])
    <3>1. d.inode[i].i_block[t] \in Block \ {b} /\ e.inode[i].i_block[t] = d.inode[i].i_block[t]
      BY <1>1, <1>4, <2>1
    <3>2. e.block[d.inode[i].i_block[t]] = d.block[d.inode[i].i_block[t]]
      BY <3>1
    <3>3. Chain(d.block[d.inode[i].i_block[t]], InDir(P, i, t))
      BY <1>2, <2>1 DEF Laid
    <3>4. InDir(Q, i, t) = InDir(P, i, t)
      <4>1. i # dir \/ t # 1
        BY <2>1
      <4> QED
        BY <1>6, <4>1
    <3> QED
      BY <3>1, <3>2, <3>3, <3>4, SMTT(30)
  <2>2. CASE t \notin Used(d.inode[i])
    <3>1. i = dir /\ t = 1
      BY <1>4, <2>2
    <3> HIDE DEF Q
    <3> QED
      BY <1>5, <3>1
  <2> QED
    BY <2>1, <2>2
<1>8. Laid(e, Q)
  <2>1. \A y \in Q : y \in Place /\ y[1] \in Dirs(d) /\ y[2][1] \in Used(e.inode[y[1]])
    <3>1. \A y \in P : y \in Place /\ y[1] \in Dirs(d) /\ y[2][1] \in Used(e.inode[y[1]])
      BY <1>2, <1>4, LaidPlaces, ZenonT(30)
    <3>2. x \in Place /\ x[1] \in Dirs(d) /\ x[2][1] \in Used(e.inode[x[1]])
      BY <1>3
    <3> QED
      BY <3>1, <3>2
  <2> HIDE DEF Q
  <2> QED
    BY <1>7, <2>1 DEF Laid
<1>9. Shown(e.block[b]) = {0}
  <2>1. e.block[b] \in [Cell -> EntryType]
    BY <1>1, Fields
  <2> QED
    BY <2>1, EntryLengths, ChainShown
<1>10. NothingElse(e)
  <2>1. ASSUME NEW a \in Block, NEW q \in Cell \ Shown(e.block[a]) PROVE e.block[a][q].file_type # "dir"
    <3>1. CASE a = b
      BY <1>9, <3>1, ZeroTyped
    <3>2. CASE a # b
      BY <1>2, <3>2 DEF NothingElse
    <3> QED
      BY <3>1, <3>2
  <2>2. ASSUME NEW a \in Block, \A i \in Dirs(e) : a \notin BlocksOf(e.inode[i])
        PROVE  e.block[a] = Zeros
    <3>1. \A i \in Dirs(d) : a \notin BlocksOf(d.inode[i])
      BY <1>4, <2>2
    <3>2. a # b
      BY <2>2 DEF BlocksOf
    <3> QED
      BY <1>2, <3>1, <3>2 DEF NothingElse
  <2> QED
    BY <2>1, <2>2 DEF NothingElse
<1>11. ASSUME NEW y \in P PROVE Alike(Ent(e, y), Ent(d, y))
  <2>1. y[1] \in Dirs(d) /\ y[2][1] \in Used(d.inode[y[1]])
    BY <1>2, LaidPlaces
  <2>2. /\ e.inode[y[1]].i_block[y[2][1]] = d.inode[y[1]].i_block[y[2][1]]
        /\ d.inode[y[1]].i_block[y[2][1]] \in Block \ {b}
    BY <1>1, <1>4, <2>1, SMTT(30)
  <2> QED
    BY <2>2, Zenon DEF Ent, Alike
<1>12. Ent(e, x) = e.block[b][0]
  BY <1>3 DEF Ent
<1> QED
  BY <1>3, <1>8, <1>10, <1>11, <1>12 DEF Layout, OneMore

\* The block of a new directory with its two entries.
MakesDirectory(d, e, ino, b) ==
  /\ ino \in Inode \ d.ibm /\ b \in Block \ d.bbm
  /\ Dirs(e) = Dirs(d) \cup {ino} /\ Used(e.inode[ino]) = {0} /\ e.inode[ino].i_block[0] = b
  /\ \A i \in Dirs(d) : /\ e.inode[i].i_block = d.inode[i].i_block
                        /\ e.inode[i].i_blocks = d.inode[i].i_blocks
  /\ Chain(e.block[b], {0, 1}) /\ \A q \in Cell \ {0, 1} : e.block[b][q] = Zero
  /\ \A a \in Block \ {b} : e.block[a] = d.block[a]

\* The entries of the new directory are the only new ones.
TwoMore(d, e, P, ino) ==
  /\ Dot(ino) \in Place /\ DotDot(ino) \in Place /\ Dot(ino) # DotDot(ino)
  /\ Dot(ino) \notin P /\ DotDot(ino) \notin P
  /\ Layout(e, P \cup {Dot(ino), DotDot(ino)})
  /\ \A y \in P : Alike(Ent(e, y), Ent(d, y))

LEMMA LayoutNewDirectory ==
  ASSUME NEW d \in Image, NEW e \in Image, NEW P, NEW ino, NEW b,
         Own(d), Layout(d, P), MakesDirectory(d, e, ino, b)
  PROVE  /\ TwoMore(d, e, P, ino)
         /\ Ent(e, Dot(ino)) = e.block[b][0] /\ Ent(e, DotDot(ino)) = e.block[b][1]
<1> USE DEF MakesDirectory
<1> DEFINE Q == P \cup {Dot(ino), DotDot(ino)}
<1>1. /\ b \in Block /\ d.ibm \subseteq Inode /\ ino \notin Dirs(d)
      /\ \A i \in Dirs(d) : \A t \in Used(d.inode[i]) :
           d.inode[i].i_block[t] \in Block /\ d.inode[i].i_block[t] # b
  BY DirectoryBlocks, DirectoryNotFree, Fields DEF Dirs
<1>2. Laid(d, P) /\ NothingElse(d) /\ P \subseteq Place
  BY LaidPlaces DEF Layout
<1>3. /\ Dot(ino) \in Place /\ DotDot(ino) \in Place /\ Dot(ino) # DotDot(ino)
      /\ Dot(ino)[1] = ino /\ Dot(ino)[2][1] = 0 /\ Dot(ino)[2][2] = 0
      /\ DotDot(ino)[1] = ino /\ DotDot(ino)[2][1] = 0 /\ DotDot(ino)[2][2] = 1
  BY Slots, BlockSizes DEF Place, Dot, DotDot
<1>4. Dot(ino) \notin P /\ DotDot(ino) \notin P
  BY <1>1, <1>2, <1>3, LaidPlaces
<1>5. \A i \in Dirs(d) : /\ Used(e.inode[i]) = Used(d.inode[i])
                         /\ BlocksOf(e.inode[i]) = BlocksOf(d.inode[i])
                         /\ e.inode[i].i_block = d.inode[i].i_block
  BY DEF Used, BlocksOf, Count
<1>6. InDir(Q, ino, 0) = {0, 1}
  <2>1. InDir(P, ino, 0) = {}
    <3>1. ASSUME NEW p \in InDir(P, ino, 0) PROVE FALSE
      <4> DEFINE y == <<ino, <<0, p>>>>
      <4>1. y \in P /\ y[1] = ino
        BY <3>1 DEF InDir
      <4> QED
        BY <1>1, <1>2, <4>1, LaidPlaces
    <3> QED
      BY <3>1
  <2> QED
    BY <2>1, BlockSizes DEF InDir, Dot, DotDot
<1>7. \A i, t : i # ino => InDir(Q, i, t) = InDir(P, i, t)
  BY DEF InDir, Dot, DotDot
<1>8. ASSUME NEW i \in Dirs(e), NEW t \in Used(e.inode[i])
      PROVE  Chain(e.block[e.inode[i].i_block[t]], InDir(Q, i, t))
  <2>1. CASE i \in Dirs(d)
    <3>1. d.inode[i].i_block[t] \in Block \ {b} /\ e.inode[i].i_block[t] = d.inode[i].i_block[t]
      BY <1>1, <1>5, <2>1
    <3>2. e.block[d.inode[i].i_block[t]] = d.block[d.inode[i].i_block[t]]
      BY <3>1
    <3>3. Chain(d.block[d.inode[i].i_block[t]], InDir(P, i, t))
      BY <1>2, <1>5, <2>1 DEF Laid
    <3>4. InDir(Q, i, t) = InDir(P, i, t)
      BY <1>1, <1>7, <2>1, ZenonT(30)
    <3> QED
      BY <3>1, <3>2, <3>3, <3>4, SMTT(30)
  <2>2. CASE i = ino
    <3>1. t = 0
      BY <2>2
    <3> HIDE DEF Q
    <3> QED
      BY <1>6, <2>2, <3>1
  <2> QED
    BY <2>1, <2>2
<1>9. Laid(e, Q)
  <2>1. \A y \in Q : y \in Place /\ y[1] \in Dirs(e) /\ y[2][1] \in Used(e.inode[y[1]])
    <3>1. \A y \in P : y \in Place /\ y[1] \in Dirs(e) /\ y[2][1] \in Used(e.inode[y[1]])
      BY <1>2, <1>5, LaidPlaces
    <3> QED
      BY <1>3, <3>1
  <2> HIDE DEF Q
  <2> QED
    BY <1>8, <2>1 DEF Laid
<1>10. Shown(e.block[b]) = {0, 1}
  <2>1. e.block[b] \in [Cell -> EntryType]
    BY <1>1, Fields
  <2> QED
    BY <2>1, EntryLengths, ChainShown
<1>11. NothingElse(e)
  <2>1. ASSUME NEW a \in Block, NEW q \in Cell \ Shown(e.block[a]) PROVE e.block[a][q].file_type # "dir"
    <3>1. CASE a = b
      BY <1>10, <3>1, ZeroTyped
    <3>2. CASE a # b
      BY <1>2, <3>2 DEF NothingElse
    <3> QED
      BY <3>1, <3>2
  <2>2. ASSUME NEW a \in Block, \A i \in Dirs(e) : a \notin BlocksOf(e.inode[i])
        PROVE  e.block[a] = Zeros
    <3>1. \A i \in Dirs(d) : a \notin BlocksOf(d.inode[i])
      BY <1>5, <2>2
    <3>2. a # b
      BY <2>2 DEF BlocksOf
    <3> QED
      BY <1>2, <3>1, <3>2 DEF NothingElse
  <2> QED
    BY <2>1, <2>2 DEF NothingElse
<1>12. ASSUME NEW y \in P PROVE Alike(Ent(e, y), Ent(d, y))
  <2>1. y[1] \in Dirs(d) /\ y[2][1] \in Used(d.inode[y[1]])
    BY <1>2, LaidPlaces
  <2>2. /\ e.inode[y[1]].i_block[y[2][1]] = d.inode[y[1]].i_block[y[2][1]]
        /\ d.inode[y[1]].i_block[y[2][1]] \in Block \ {b}
    BY <1>1, <1>5, <2>1
  <2> QED
    BY <2>2, Zenon DEF Ent, Alike
<1>13. Ent(e, Dot(ino)) = e.block[b][0] /\ Ent(e, DotDot(ino)) = e.block[b][1]
  BY <1>3 DEF Ent
<1> QED
  BY <1>3, <1>4, <1>9, <1>11, <1>12, <1>13 DEF Layout, TwoMore

-----------------------------------------------------------------------------
(* The names, and the links that are counted.                                *)

LEMMA NamingSets ==
  ASSUME NEW d, NEW P, P \subseteq Place
  PROVE  \A i : /\ Naming(d, P, i) \subseteq P /\ IsFiniteSet(Naming(d, P, i))
                /\ Cardinality(Naming(d, P, i)) \in Nat
                /\ (Cardinality(Naming(d, P, i)) = 0 <=> Naming(d, P, i) = {})
<1>1. \A i : Naming(d, P, i) \subseteq P
  BY DEF Naming
<1>2. \A i : IsFiniteSet(Naming(d, P, i))
  BY <1>1, PlacesFinite
<1> QED
  BY <1>1, <1>2, FS_CardinalityType, FS_EmptySet

LEMMA TwoElements ==
  ASSUME NEW x, NEW y, x # y
  PROVE  Cardinality({x, y}) = 2
<1>1. IsFiniteSet({x}) /\ Cardinality({x}) = 1
  BY FS_Singleton
<1>2. {x, y} = {x} \cup {y} /\ y \notin {x}
  OBVIOUS
<1>3. Cardinality({x} \cup {y}) = Cardinality({x}) + 1
  BY <1>1, <1>2, FS_AddElement
<1> QED
  BY <1>1, <1>2, <1>3

\* A free inode has no links, one in use has some.
LEMMA FreeHasNoLinks ==
  ASSUME NEW d \in Image, NEW P, P \subseteq Place, Live(d, P), Counted(d, P)
  PROVE  /\ \A i \in Inode \ d.ibm : d.inode[i].i_links_count = 0 /\ Naming(d, P, i) = {}
         /\ \A i \in d.ibm : d.inode[i].i_links_count > 0
<1>1. ASSUME NEW i \in Inode \ d.ibm PROVE Naming(d, P, i) = {}
  BY DEF Live, Naming
<1>2. \A i \in Inode \ d.ibm : d.inode[i].i_links_count = 0
  BY <1>1, NamingSets DEF Counted
<1>3. \A i \in d.ibm : d.inode[i].i_links_count > 0
  <2>1. \A i \in d.ibm : /\ Cardinality(Naming(d, P, i)) # 0 /\ Cardinality(Naming(d, P, i)) \in Nat
    BY NamingSets DEF Live
  <2>2. \A i \in d.ibm : d.inode[i].i_links_count = Cardinality(Naming(d, P, i))
    BY Fields DEF Counted
  <2> QED
    BY <2>1, <2>2
<1> QED
  BY <1>1, <1>2, <1>3

\* Another name for a file, or the first.
LinkMade(d, e, P, x, ino) ==
  /\ P \subseteq Place /\ x \in Place \ P /\ ino \in Inode
  /\ \A y \in P : Alike(Ent(e, y), Ent(d, y))
  /\ Ent(e, x).name \in Name /\ Ent(e, x).inode = ino
  /\ Ent(e, x).file_type = e.inode[ino].i_mode
  /\ \A y \in P : y[1] = x[1] => Ent(d, y).name # Ent(e, x).name
  /\ Dirs(e) = Dirs(d) /\ e.ibm = d.ibm \cup {ino}
  /\ \A i \in d.ibm : e.inode[i].i_mode = d.inode[i].i_mode
  /\ \A i \in Inode \ {ino} : e.inode[i].i_links_count = d.inode[i].i_links_count
  /\ e.inode[ino].i_links_count = d.inode[ino].i_links_count + 1

LEMMA TreeGains ==
  ASSUME NEW d \in Image, NEW e \in Image, NEW P, NEW x, NEW ino,
         Arranged(d, P), LinkMade(d, e, P, x, ino)
  PROVE  Arranged(e, P \cup {x})
<1> USE DEF LinkMade
<1> DEFINE Q == P \cup {x}
<1>1. Distinct(d, P) /\ Rooted(d, P) /\ Live(d, P) /\ Counted(d, P)
  BY DEF Arranged
<1>2. \A y \in P : /\ Ent(e, y).name = Ent(d, y).name /\ Ent(e, y).inode = Ent(d, y).inode
                   /\ Ent(e, y).file_type = Ent(d, y).file_type
  BY DEF Alike
<1>3. Distinct(e, Q)
  BY <1>1, <1>2 DEF Distinct
<1>4. Rooted(e, Q)
  <2>1. ASSUME NEW dir \in Dirs(d)
        PROVE  /\ Dot(dir) \in Q /\ Ent(e, Dot(dir)).name = "." /\ Ent(e, Dot(dir)).inode = dir
               /\ DotDot(dir) \in Q /\ Ent(e, DotDot(dir)).name = ".."
               /\ Ent(e, DotDot(dir)).inode \in Dirs(d)
               /\ \/ Ent(e, DotDot(dir)).inode = dir /\ dir = EXT2_ROOT_INO
                  \/ \E y \in Q : /\ y[1] = Ent(e, DotDot(dir)).inode /\ Ent(e, y).inode = dir
                                  /\ Ent(e, y).name \in Name
    <3>1. /\ Dot(dir) \in P /\ Ent(d, Dot(dir)).name = "." /\ Ent(d, Dot(dir)).inode = dir
          /\ DotDot(dir) \in P /\ Ent(d, DotDot(dir)).name = ".."
          /\ Ent(d, DotDot(dir)).inode \in Dirs(d)
          /\ \/ Ent(d, DotDot(dir)).inode = dir /\ dir = EXT2_ROOT_INO
             \/ \E y \in P : /\ y[1] = Ent(d, DotDot(dir)).inode /\ Ent(d, y).inode = dir
                             /\ Ent(d, y).name \in Name
      BY <1>1 DEF Rooted
    <3> QED
      BY <1>2, <3>1
  <2> HIDE DEF Q
  <2> QED
    BY <1>1, <2>1 DEF Rooted
<1>5. \A i \in Inode : Naming(e, Q, i) = IF i = ino THEN Naming(d, P, i) \cup {x} ELSE Naming(d, P, i)
  BY <1>2 DEF Naming
<1>6. Live(e, Q)
  <2>1. \A y \in P : /\ Ent(e, y).inode \in d.ibm
                     /\ Ent(e, y).file_type = e.inode[Ent(e, y).inode].i_mode
    BY <1>1, <1>2 DEF Live
  <2>2. \A y \in Q : /\ Ent(e, y).inode \in e.ibm
                     /\ Ent(e, y).file_type = e.inode[Ent(e, y).inode].i_mode
    BY <2>1
  <2>3. \A i \in d.ibm : Naming(d, P, i) # {} /\ i \in Inode
    BY <1>1, Fields DEF Live
  <2>4. \A i \in e.ibm : Naming(e, Q, i) # {}
    BY <1>5, <2>3
  <2> HIDE DEF Q
  <2> QED
    BY <2>2, <2>4 DEF Live
<1>7. Counted(e, Q)
  <2>1. x \notin Naming(d, P, ino) /\ IsFiniteSet(Naming(d, P, ino))
    BY NamingSets
  <2>2. Cardinality(Naming(d, P, ino) \cup {x}) = Cardinality(Naming(d, P, ino)) + 1
    BY <2>1, FS_AddElement
  <2> HIDE DEF Q
  <2> QED
    BY <1>1, <1>5, <2>2 DEF Counted
<1> QED
  BY <1>3, <1>4, <1>6, <1>7 DEF Arranged

\* A name that goes, with the inode where it was the last.
LinkGone(d, e, P, x, ino) ==
  /\ P \subseteq Place /\ x \in P /\ ino \in Inode
  /\ \A y \in P : Alike(Ent(e, y), Ent(d, y))
  /\ Ent(d, x).name \in Name /\ Ent(d, x).inode = ino /\ ino \notin Dirs(d)
  /\ Dirs(e) = Dirs(d)
  /\ e.ibm = IF d.inode[ino].i_links_count > 1 THEN d.ibm ELSE d.ibm \ {ino}
  /\ \A i \in d.ibm : e.inode[i].i_mode = d.inode[i].i_mode
  /\ \A i \in Inode \ {ino} : e.inode[i].i_links_count = d.inode[i].i_links_count
  /\ e.inode[ino].i_links_count = d.inode[ino].i_links_count - 1

LEMMA TreeLoses ==
  ASSUME NEW d \in Image, NEW e \in Image, NEW P, NEW x, NEW ino,
         Arranged(d, P), LinkGone(d, e, P, x, ino)
  PROVE  Arranged(e, P \ {x})
<1> USE DEF LinkGone
<1> DEFINE Q == P \ {x}
<1>1. Distinct(d, P) /\ Rooted(d, P) /\ Live(d, P) /\ Counted(d, P)
  BY DEF Arranged
<1>2. \A y \in P : /\ Ent(e, y).name = Ent(d, y).name /\ Ent(e, y).inode = Ent(d, y).inode
                   /\ Ent(e, y).file_type = Ent(d, y).file_type
  BY DEF Alike
<1>3. Distinct(e, Q)
  BY <1>1, <1>2 DEF Distinct
<1>4. Rooted(e, Q)
  <2>1. ASSUME NEW dir \in Dirs(d)
        PROVE  /\ Dot(dir) \in Q /\ Ent(e, Dot(dir)).name = "." /\ Ent(e, Dot(dir)).inode = dir
               /\ DotDot(dir) \in Q /\ Ent(e, DotDot(dir)).name = ".."
               /\ Ent(e, DotDot(dir)).inode \in Dirs(d)
               /\ \/ Ent(e, DotDot(dir)).inode = dir /\ dir = EXT2_ROOT_INO
                  \/ \E y \in Q : /\ y[1] = Ent(e, DotDot(dir)).inode /\ Ent(e, y).inode = dir
                                  /\ Ent(e, y).name \in Name
    <3>1. /\ Dot(dir) \in P /\ Ent(d, Dot(dir)).name = "." /\ Ent(d, Dot(dir)).inode = dir
          /\ DotDot(dir) \in P /\ Ent(d, DotDot(dir)).name = ".."
          /\ Ent(d, DotDot(dir)).inode \in Dirs(d)
          /\ \/ Ent(d, DotDot(dir)).inode = dir /\ dir = EXT2_ROOT_INO
             \/ \E y \in P : /\ y[1] = Ent(d, DotDot(dir)).inode /\ Ent(d, y).inode = dir
                             /\ Ent(d, y).name \in Name
      BY <1>1 DEF Rooted
    <3>2. dir # ino /\ x # Dot(dir) /\ x # DotDot(dir)
      BY <3>1, Names
    <3> QED
      BY <1>2, <3>1, <3>2
  <2> HIDE DEF Q
  <2> QED
    BY <1>1, <2>1 DEF Rooted
<1>5. \A i \in Inode : Naming(e, Q, i) = IF i = ino THEN Naming(d, P, i) \ {x} ELSE Naming(d, P, i)
  BY <1>2 DEF Naming
<1>6. /\ x \in Naming(d, P, ino) /\ IsFiniteSet(Naming(d, P, ino)) /\ ino \in d.ibm
      /\ Cardinality(Naming(d, P, ino) \ {x}) = Cardinality(Naming(d, P, ino)) - 1
  <2>1. x \in Naming(d, P, ino) /\ IsFiniteSet(Naming(d, P, ino)) /\ ino \in d.ibm
    <3>1. IsFiniteSet(Naming(d, P, ino))
      BY NamingSets
    <3>2. x \in Naming(d, P, ino) /\ ino \in d.ibm
      BY <1>1 DEF Naming, Live
    <3> QED
      BY <3>1, <3>2
  <2> QED
    BY <2>1, FS_RemoveElement
<1>7. Counted(e, Q)
  <2> HIDE DEF Q
  <2> QED
    BY <1>1, <1>5, <1>6 DEF Counted
<1>8. Q \subseteq Place
  OBVIOUS
<1>9. Naming(e, Q, ino) = {} <=> ~(d.inode[ino].i_links_count > 1)
  <2>1. d.inode[ino].i_links_count = Cardinality(Naming(d, P, ino)) /\ d.inode[ino].i_links_count > 0
    BY <1>1, <1>6, FreeHasNoLinks DEF Counted
  <2>2. Cardinality(Naming(e, Q, ino)) = d.inode[ino].i_links_count - 1
    BY <1>5, <1>6, <2>1
  <2>3. Cardinality(Naming(e, Q, ino)) = 0 <=> Naming(e, Q, ino) = {}
    <3> HIDE DEF Q
    <3> QED
      BY <1>8, NamingSets
  <2>4. d.inode[ino].i_links_count \in Nat
    BY Fields, InodeFields
  <2>5. \A n \in Nat : n > 0 => (n - 1 = 0 <=> ~(n > 1))
    OBVIOUS
  <2> HIDE DEF Q
  <2> QED
    BY <2>1, <2>2, <2>3, <2>4, <2>5, Zenon
<1>10. Live(e, Q)
  <2>1. \A i \in d.ibm : Naming(d, P, i) # {} /\ i \in Inode
    BY <1>1, Fields DEF Live
  <2>2. \A i \in e.ibm : Naming(e, Q, i) # {}
    BY <1>5, <1>9, <2>1, ZenonT(30)
  <2>3. \A y \in Q : /\ Ent(e, y).inode \in d.ibm
                     /\ Ent(e, y).file_type = e.inode[Ent(e, y).inode].i_mode
    BY <1>1, <1>2 DEF Live
  <2>4. \A y \in Q : Ent(e, y).inode \in e.ibm
    <3>1. \A y \in Q : Ent(e, y).inode = ino => Naming(e, Q, ino) # {}
      BY DEF Naming
    <3> HIDE DEF Q
    <3> QED
      BY <1>9, <2>3, <3>1
  <2> HIDE DEF Q
  <2> QED
    BY <2>2, <2>3, <2>4 DEF Live
<1> QED
  BY <1>3, <1>4, <1>7, <1>10 DEF Arranged

\* A new directory: one name above it, and two of its own.
DirectoryMade(d, e, P, x, ino) ==
  /\ P \subseteq Place /\ x \in Place \ P /\ ino \in Inode \ d.ibm /\ x[1] \in Dirs(d)
  /\ Dot(ino) \notin P \cup {x} /\ DotDot(ino) \notin P \cup {x} /\ Dot(ino) # DotDot(ino)
  /\ \A y \in P : y[1] \in Dirs(d)
  /\ \A y \in P : Alike(Ent(e, y), Ent(d, y))
  /\ Ent(e, x).name \in Name /\ Ent(e, x).inode = ino /\ Ent(e, x).file_type = "dir"
  /\ Alike(Ent(e, Dot(ino)), Entry(".", "dir", ino, 0))
  /\ Alike(Ent(e, DotDot(ino)), Entry("..", "dir", x[1], 0))
  /\ \A y \in P : y[1] = x[1] => Ent(d, y).name # Ent(e, x).name
  /\ e.ibm = d.ibm \cup {ino} /\ e.inode[ino].i_mode = "dir"
  /\ \A i \in d.ibm : e.inode[i].i_mode = d.inode[i].i_mode
  /\ e.inode[ino].i_links_count = 2
  /\ e.inode[x[1]].i_links_count = d.inode[x[1]].i_links_count + 1
  /\ \A i \in Inode \ {ino, x[1]} : e.inode[i].i_links_count = d.inode[i].i_links_count

LEMMA TreeNewDirectory ==
  ASSUME NEW d \in Image, NEW e \in Image, NEW P, NEW x, NEW ino,
         Arranged(d, P), DirectoryMade(d, e, P, x, ino)
  PROVE  Arranged(e, (P \cup {x}) \cup {Dot(ino), DotDot(ino)})
<1> USE DEF DirectoryMade
<1> DEFINE Q == (P \cup {x}) \cup {Dot(ino), DotDot(ino)}
           up == x[1]
<1>1. Distinct(d, P) /\ Rooted(d, P) /\ Live(d, P) /\ Counted(d, P)
  BY DEF Arranged
<1>2. \A y \in P : /\ Ent(e, y).name = Ent(d, y).name /\ Ent(e, y).inode = Ent(d, y).inode
                   /\ Ent(e, y).file_type = Ent(d, y).file_type
  BY DEF Alike
<1>3. /\ Ent(e, Dot(ino)).name = "." /\ Ent(e, Dot(ino)).file_type = "dir"
      /\ Ent(e, Dot(ino)).inode = ino
      /\ Ent(e, DotDot(ino)).name = ".." /\ Ent(e, DotDot(ino)).file_type = "dir"
      /\ Ent(e, DotDot(ino)).inode = up
      /\ Dot(ino)[1] = ino /\ DotDot(ino)[1] = ino
  BY DEF Alike, Entry, Dot, DotDot
<1>4. /\ d.ibm \subseteq Inode /\ up \in Dirs(d) /\ up \in d.ibm /\ up # ino /\ ino \notin Dirs(d)
      /\ Dirs(e) = Dirs(d) \cup {ino}
  BY Fields DEF Dirs
<1> HIDE DEF up
<1>5. Distinct(e, Q)
  <2>1. \A y, z \in P : y[1] = z[1] /\ Ent(e, y).name = Ent(e, z).name => y = z
    BY <1>1, <1>2 DEF Distinct
  <2>2. \A y \in P : /\ y[1] # ino
                     /\ y[1] = x[1] => Ent(e, y).name # Ent(e, x).name
    BY <1>2, <1>4
  <2>3. x[1] # ino
    BY <1>4 DEF up
  <2>4. ASSUME NEW y \in Q, NEW z \in Q, y[1] = z[1], Ent(e, y).name = Ent(e, z).name PROVE y = z
    <3>1. CASE y[1] = ino
      <4>1. y \in {Dot(ino), DotDot(ino)} /\ z \in {Dot(ino), DotDot(ino)}
        BY <2>2, <2>3, <2>4, <3>1
      <4>2. "." # ".."
        OBVIOUS
      <4> QED
        BY <1>3, <2>4, <4>1, <4>2
    <3>2. CASE y[1] # ino
      <4>1. y \in P \cup {x} /\ z \in P \cup {x}
        BY <1>3, <2>4, <3>2
      <4> QED
        BY <2>1, <2>2, <2>4, <4>1
    <3> QED
      BY <3>1, <3>2
  <2> HIDE DEF Q
  <2> QED
    BY <2>4 DEF Distinct
<1>6. Rooted(e, Q)
  <2>1. ASSUME NEW dir \in Dirs(d)
        PROVE  /\ Dot(dir) \in Q /\ Ent(e, Dot(dir)).name = "." /\ Ent(e, Dot(dir)).inode = dir
               /\ DotDot(dir) \in Q /\ Ent(e, DotDot(dir)).name = ".."
               /\ Ent(e, DotDot(dir)).inode \in Dirs(d)
               /\ \/ Ent(e, DotDot(dir)).inode = dir /\ dir = EXT2_ROOT_INO
                  \/ \E y \in Q : /\ y[1] = Ent(e, DotDot(dir)).inode /\ Ent(e, y).inode = dir
                                  /\ Ent(e, y).name \in Name
    <3>1. /\ Dot(dir) \in P /\ Ent(d, Dot(dir)).name = "." /\ Ent(d, Dot(dir)).inode = dir
          /\ DotDot(dir) \in P /\ Ent(d, DotDot(dir)).name = ".."
          /\ Ent(d, DotDot(dir)).inode \in Dirs(d)
          /\ \/ Ent(d, DotDot(dir)).inode = dir /\ dir = EXT2_ROOT_INO
             \/ \E y \in P : /\ y[1] = Ent(d, DotDot(dir)).inode /\ Ent(d, y).inode = dir
                             /\ Ent(d, y).name \in Name
      BY <1>1 DEF Rooted
    <3> QED
      BY <1>2, <3>1
  <2>2. /\ Dot(ino) \in Q /\ DotDot(ino) \in Q /\ x \in Q /\ x[1] = up
        /\ EXT2_ROOT_INO \in Dirs(e)
    BY <1>1, <1>4 DEF Rooted, up
  <2> HIDE DEF Q
  <2> QED
    BY <1>3, <1>4, <2>1, <2>2 DEF Rooted
<1>7. \A i \in Inode : i # ino /\ i # up => Naming(e, Q, i) = Naming(d, P, i)
  BY <1>2, <1>3 DEF Naming
<1>8. Naming(e, Q, up) = Naming(d, P, up) \cup {DotDot(ino)}
  BY <1>2, <1>3, <1>4 DEF Naming
<1>9. Naming(e, Q, ino) = {x, Dot(ino)}
  <2>1. \A y \in P : Ent(e, y).inode # ino
    BY <1>1, <1>2 DEF Live
  <2> QED
    BY <1>3, <1>4, <2>1 DEF Naming
<1> HIDE DEF Q
<1>10. Counted(e, Q)
  <2>1. DotDot(ino) \notin Naming(d, P, up) /\ IsFiniteSet(Naming(d, P, up))
    BY NamingSets
  <2>2. Cardinality(Naming(e, Q, up)) = Cardinality(Naming(d, P, up)) + 1
    <3>1. Cardinality(Naming(d, P, up) \cup {DotDot(ino)}) = Cardinality(Naming(d, P, up)) + 1
      BY <2>1, FS_AddElement
    <3> QED
      BY <1>8, <3>1
  <2>3. Cardinality(Naming(e, Q, ino)) = 2
    <3>1. Cardinality({x, Dot(ino)}) = 2
      BY x # Dot(ino), TwoElements
    <3> QED
      BY <1>9, <3>1
  <2>4. e.inode[up].i_links_count = d.inode[up].i_links_count + 1
    BY DEF up
  <2>5. \A i \in Inode \ {ino, up} : e.inode[i].i_links_count = d.inode[i].i_links_count
    BY DEF up
  <2> QED
    BY <1>1, <1>4, <1>7, <2>2, <2>3, <2>4, <2>5 DEF Counted
<1>11. Live(e, Q)
  <2>1. \A y \in P : /\ Ent(e, y).inode \in d.ibm
                     /\ Ent(e, y).file_type = e.inode[Ent(e, y).inode].i_mode
    BY <1>1, <1>2 DEF Live
  <2>2. e.inode[up].i_mode = "dir"
    BY <1>4 DEF Dirs
  <2>3. \A y \in Q : /\ Ent(e, y).inode \in e.ibm
                     /\ Ent(e, y).file_type = e.inode[Ent(e, y).inode].i_mode
    BY <1>3, <1>4, <2>1, <2>2 DEF Q
  <2>4. \A i \in e.ibm : Naming(e, Q, i) # {}
    <3>1. \A i \in d.ibm : Naming(d, P, i) # {} /\ i \in Inode
      BY <1>1, <1>4 DEF Live
    <3> QED
      BY <1>7, <1>8, <1>9, <3>1
  <2> QED
    BY <2>3, <2>4 DEF Live
<1> QED
  BY <1>5, <1>6, <1>10, <1>11 DEF Arranged, Q

-----------------------------------------------------------------------------
(* The first half of a tool: the entry is written.                           *)

LEMMA FreeBlock ==
  ASSUME NEW d
  PROVE  find_free_block_index(d) = -1 \/ find_free_block_index(d) \in Block \ d.bbm
<1>1. ASSUME ~(Block \subseteq d.bbm) PROVE Min(Block \ d.bbm) \in Block \ d.bbm
  <2>1. Block \ d.bbm \in SUBSET Nat /\ Block \ d.bbm # {}
    BY <1>1, Numbers
  <2> QED
    BY <2>1, MinIsLeast
<1> QED
  BY <1>1 DEF find_free_block_index

LEMMA FreeInode ==
  ASSUME NEW d
  PROVE  find_invalid_indode_index(d) = -1 \/ find_invalid_indode_index(d) \in Inode \ d.ibm
<1> DEFINE free == {i \in s_first_ino + 1 .. s_inodes_count - 1 : i \notin d.ibm}
<1>1. \A i \in s_first_ino + 1 .. s_inodes_count - 1 : i \in Inode /\ i \in Nat
  BY SizesAssumption DEF Inode, s_first_ino, EXT2_ROOT_INO
<1>2. free \in SUBSET Nat /\ free \subseteq Inode \ d.ibm
  BY <1>1
<1>3. find_invalid_indode_index(d) = IF free = {} THEN -1 ELSE Min(free)
  BY DEF find_invalid_indode_index
<1> HIDE DEF free
<1>4. free # {} => Min(free) \in free
  BY <1>2, MinIsLeast
<1> QED
  BY <1>2, <1>3, <1>4

\* Block b is rewritten and nothing else.
Rewritten(d, e, b, c) ==
  /\ e \in Image
  /\ e.bbm = d.bbm /\ e.ibm = d.ibm /\ e.inode = d.inode
  /\ e.free_blocks = d.free_blocks /\ e.free_inodes = d.free_inodes
  /\ e.block[b] = c /\ \A a \in Block \ {b} : e.block[a] = d.block[a]

LEMMA Written ==
  ASSUME NEW d \in Image, NEW b \in Block, NEW c \in [Cell -> EntryType]
  PROVE  Rewritten(d, Write(d, b, c), b, c)
BY DEF Image, Write, Rewritten

\* What an inode holds, for one who only uses the tree of files.
Held(r) == [type |-> r.i_mode, size |-> IF r.i_mode = "dir" THEN 0 ELSE Count(r)]

\* Which directory names which inode, "." and ".." left out.
Edges(d) ==
  {<<x[1], Ent(d, x).name, Ent(d, x).inode>> : x \in {x \in PlacesOf(d) : Ent(d, x).name \in Name}}

\* Of images d and f: f has one name more, or one less, and else the same files.
Gives(d, f, dir, name, ino) ==
  /\ dir \in Dirs(d) /\ name \in Name /\ ino \in Inode
  /\ \A i : <<dir, name, i>> \notin Edges(d)
  /\ Edges(f) = Edges(d) \cup {<<dir, name, ino>>} /\ f.ibm = d.ibm \cup {ino}
  /\ \A i \in Inode \ {ino} : Held(f.inode[i]) = Held(d.inode[i])

Removes(d, f, dir, name, ino) ==
  /\ <<dir, name, ino>> \in Edges(d) /\ Edges(f) = Edges(d) \ {<<dir, name, ino>>}
  /\ f.ibm \subseteq d.ibm /\ ino \notin Dirs(d)
  /\ \A i \in Inode : Held(f.inode[i]) = Held(d.inode[i])

LEMMA EdgesMore ==
  ASSUME NEW d, NEW f, NEW X, PlacesOf(f) = PlacesOf(d) \cup X,
         \A y \in PlacesOf(d) : Alike(Ent(f, y), Ent(d, y)),
         NEW x \in X, Ent(f, x).name \in Name, \A y \in X \ {x} : Ent(f, y).name \notin Name
  PROVE  Edges(f) = Edges(d) \cup {<<x[1], Ent(f, x).name, Ent(f, x).inode>>}
<1> DEFINE t(e, y) == <<y[1], Ent(e, y).name, Ent(e, y).inode>>
           N(e) == {y \in PlacesOf(e) : Ent(e, y).name \in Name}
<1>1. N(f) = N(d) \cup {x}
  BY DEF Alike
<1>2. \A y \in N(d) : t(f, y) = t(d, y)
  BY DEF Alike
<1>3. Edges(f) = {t(f, y) : y \in N(f)} /\ Edges(d) = {t(d, y) : y \in N(d)}
  BY DEF Edges
<1> HIDE DEF t, N
<1>4. Edges(f) = Edges(d) \cup {t(f, x)}
  BY <1>1, <1>2, <1>3
<1> QED
  BY <1>4 DEF t

LEMMA EdgesOne ==
  ASSUME NEW d, NEW f, NEW P, NEW x, PlacesOf(d) = P, PlacesOf(f) = P \cup {x},
         \A y \in P : Alike(Ent(f, y), Ent(d, y)),
         NEW dir, x[1] = dir, NEW name \in Name, Ent(f, x).name = name,
         NEW ino, Ent(f, x).inode = ino
  PROVE  Edges(f) = Edges(d) \cup {<<dir, name, ino>>}
<1> DEFINE X == {x}
<1>1. x \in X /\ \A y \in X \ {x} : Ent(f, y).name \notin Name
  OBVIOUS
<1>2. PlacesOf(f) = PlacesOf(d) \cup X /\ \A y \in PlacesOf(d) : Alike(Ent(f, y), Ent(d, y))
  OBVIOUS
<1> HIDE DEF X
<1>3. Edges(f) = Edges(d) \cup {<<x[1], Ent(f, x).name, Ent(f, x).inode>>}
  BY <1>1, <1>2, EdgesMore
<1> QED
  BY <1>3

LEMMA EdgesLess ==
  ASSUME NEW d, NEW f, NEW x \in PlacesOf(d), PlacesOf(f) = PlacesOf(d) \ {x},
         \A y \in PlacesOf(d) : Alike(Ent(f, y), Ent(d, y)),
         Distinct(d, PlacesOf(d)), Ent(d, x).name \in Name
  PROVE  LET t == <<x[1], Ent(d, x).name, Ent(d, x).inode>>
         IN  t \in Edges(d) /\ Edges(f) = Edges(d) \ {t}
<1> DEFINE t(e, y) == <<y[1], Ent(e, y).name, Ent(e, y).inode>>
           N(e) == {y \in PlacesOf(e) : Ent(e, y).name \in Name}
<1>1. N(f) = N(d) \ {x} /\ x \in N(d)
  BY DEF Alike
<1>2. \A y \in N(d) : t(f, y) = t(d, y)
  BY DEF Alike
<1>3. Edges(f) = {t(f, y) : y \in N(f)} /\ Edges(d) = {t(d, y) : y \in N(d)}
  BY DEF Edges
<1>4. \A y \in N(d) : t(d, y) = t(d, x) => y = x
  BY DEF Distinct
<1> HIDE DEF t, N
<1>5. t(d, x) \in Edges(d) /\ Edges(f) = Edges(d) \ {t(d, x)}
  BY <1>1, <1>2, <1>3, <1>4
<1> QED
  BY <1>5 DEF t

\* Without the name in the directory there is no edge of it.
LEMMA NoEdge ==
  ASSUME NEW d, NEW dir, NEW name, \A y \in PlacesOf(d) : y[1] = dir => Ent(d, y).name # name
  PROVE  \A i : <<dir, name, i>> \notin Edges(d)
BY DEF Edges

\* Of the first half of a tool on image d: image e has entry f as well, at
\* place x of directory dir.
Opened(d, P, e, x, dir, f) ==
  /\ e \in Image /\ Own(e) /\ e.ibm = d.ibm /\ d.bbm \subseteq e.bbm /\ Dirs(e) = Dirs(d)
  /\ x \in Place /\ x \notin P /\ x[1] = dir /\ Layout(e, P \cup {x})
  /\ \A y \in P : Alike(Ent(e, y), Ent(d, y))
  /\ Alike(Ent(e, x), f)
  /\ \A i \in Inode : /\ e.inode[i].i_mode = d.inode[i].i_mode
                      /\ e.inode[i].i_links_count = d.inode[i].i_links_count
                      /\ Held(e.inode[i]) = Held(d.inode[i])

\* An entry in a block of dir comes into view.
LEMMA OpenedAt ==
  ASSUME NEW d \in Image, NEW P, Sound(d, P), NEW dir \in Dirs(d), NEW s \in Used(d.inode[dir]),
         NEW b, b = d.inode[dir].i_block[s], NEW n, NEW p, Gains(d.block[b], n, p),
         NEW f, Alike(n[p], f), NEW e, e = Write(d, b, n)
  PROVE  \E x : Opened(d, P, e, x, dir, f)
<1>1. Own(d) /\ Layout(d, P) /\ Laid(d, P)
  BY DEF Sound, Layout
<1>2. b \in Block /\ n \in [Cell -> EntryType]
  BY <1>1, DirectoryBlocks, Zenon DEF Gains
<1>3. Rewritten(d, e, b, n)
  BY <1>2, Written
<1> USE <1>3 DEF Rewritten
<1>4. Own(e)
  BY <1>1, Fields, OwnSame, Zenon DEF Kept
<1>5. Dirs(e) = Dirs(d) /\ SameDirs(d, e)
  BY Zenon DEF Dirs, SameDirs
<1> DEFINE x == <<dir, <<s, p>>>>
<1>6. GainsAt(d, e, b, x, p)
  BY Zenon DEF GainsAt
<1>7. x[1] = dir
  BY SMTT(30)
<1> HIDE DEF x
<1>8. OneMore(d, e, P, x) /\ Ent(e, x) = e.block[b][p]
  <2>1. d \in Image /\ e \in Image /\ Own(d) /\ Layout(d, P) /\ SameDirs(d, e)
    BY <1>1, <1>5, Zenon
  <2> HIDE <1>3
  <2> QED
    BY ONLY <1>6, <2>1, LayoutGains
<1>9. Alike(Ent(e, x), f)
  BY <1>8, Zenon
<1>10. Opened(d, P, e, x, dir, f)
  BY <1>4, <1>5, <1>7, <1>8, <1>9, Zenon DEF Opened, OneMore
<1> QED
  BY <1>10, Zenon

\* A block of dir has room for the entry.
LEMMA Entered ==
  ASSUME NEW d \in Image, NEW P, Sound(d, P), NEW dir \in Dirs(d), NEW s \in Used(d.inode[dir]),
         NEW b, b = d.inode[dir].i_block[s], new_directory_fits(d.block[b]),
         NEW name \in Name, NEW type \in {"reg", "dir", "lnk"}, NEW ino \in Inode \cup {-1},
         NEW e, e = Write(d, b, Inserted(d.block[b], name, type, ino))
  PROVE  /\ e \in Image
         /\ \E x : Opened(d, P, e, x, dir, Entry(name, type, ino, 0))
<1> DEFINE n == Inserted(d.block[b], name, type, ino)
<1>1. Own(d) /\ Layout(d, P) /\ Laid(d, P)
  BY DEF Sound, Layout
<1>2. d.block[b] \in [Cell -> EntryType] /\ Chain(d.block[b], Shown(d.block[b]))
  BY <1>1, BlockShows, Zenon
<1>3. PICK p \in Cell : Gains(d.block[b], n, p) /\ Alike(n[p], Entry(name, type, ino, 0))
  BY <1>2, InsertedGains, Zenon
<1> DEFINE f == Entry(name, type, ino, 0)
<1>4. e = Write(d, b, n)
  OBVIOUS
<1>5. Alike(n[p], f)
  BY <1>3, Zenon
<1> HIDE DEF n, f
<1>6. \E x : Opened(d, P, e, x, dir, f)
  BY <1>3, <1>4, <1>5, OpenedAt, ZenonT(30)
<1> QED
  BY <1>6, Zenon DEF Opened, f

\* The removed entry in the gap after q is back.
LEMMA EnteredAgain ==
  ASSUME NEW d \in Image, NEW P, Sound(d, P), NEW dir \in Dirs(d), NEW s \in Used(d.inode[dir]),
         NEW b, b = d.inode[dir].i_block[s], NEW c, c = d.block[b],
         NEW q \in Shown(c), NEW p \in Cell \ Shown(c), q <= p,
         q + c[q].rec_len = p + c[p].rec_len,
         NEW e, e = Write(d, b, [c EXCEPT ![q].rec_len = p - q])
  PROVE  \E x : Opened(d, P, e, x, dir, Entry(c[p].name, c[p].file_type, c[p].inode, 0))
<1> DEFINE n == [c EXCEPT ![q].rec_len = p - q]
           f == Entry(c[p].name, c[p].file_type, c[p].inode, 0)
<1>1. Own(d) /\ Layout(d, P) /\ Laid(d, P)
  BY Zenon DEF Sound, Layout
<1>2. c \in [Cell -> EntryType] /\ Chain(c, Shown(c))
  BY <1>1, BlockShows, Zenon
<1>3. Gains(c, n, p) /\ n[p] = c[p]
  BY <1>2, RestoredGains, Zenon
<1>4. e = Write(d, b, n)
  BY Zenon
<1> HIDE DEF n
<1>5. Alike(n[p], f)
  BY <1>3, Zenon DEF Alike, Entry
<1> HIDE DEF f
<1>6. Gains(d.block[b], n, p)
  BY <1>3, Zenon
<1>7. \E x : Opened(d, P, e, x, dir, f)
  BY <1>4, <1>5, <1>6, OpenedAt, Zenon
<1> QED
  BY <1>7, Zenon DEF f

\* What Grown changes, with block b or -1.
GrownTo(d, g, dir, i, b) ==
  /\ g \in Image /\ g.ibm = d.ibm /\ g.block = d.block
  /\ g.free_blocks = d.free_blocks /\ g.free_inodes = d.free_inodes
  /\ g.bbm = d.bbm \cup ({b} \cap Block)
  /\ g.inode[dir].i_mode = d.inode[dir].i_mode /\ g.inode[dir].i_dtime = d.inode[dir].i_dtime
  /\ g.inode[dir].i_links_count = d.inode[dir].i_links_count
  /\ g.inode[dir].i_blocks = d.inode[dir].i_blocks + 2
  /\ g.inode[dir].i_block = [d.inode[dir].i_block EXCEPT ![i] = b]
  /\ \A j \in Inode \ {dir} : g.inode[j] = d.inode[j]

LEMMA GrownFields ==
  ASSUME NEW d \in Image, NEW dir \in Inode, NEW i \in Slot
  PROVE  GrownTo(d, Grown(d, dir, i), dir, i, find_free_block_index(d))
<1> DEFINE b == find_free_block_index(d)
           r == d.inode[dir]
           f == [r.i_block EXCEPT ![i] = b]
           n == r.i_blocks + 2
           q == [r EXCEPT !.i_block = f, !.i_blocks = n]
           g == Grown(d, dir, i)
<1>1. b \in {-1, 0} \cup Block
  BY FreeBlock
<1>2. r \in InodeType
  BY Fields
<1> HIDE DEF b
<1>3. /\ q \in InodeType /\ q.i_mode = r.i_mode /\ q.i_dtime = r.i_dtime
      /\ q.i_links_count = r.i_links_count /\ q.i_blocks = n /\ q.i_block = f
  <2>1. f \in [Slot -> {-1, 0} \cup Block] /\ n \in Nat
    BY <1>1, <1>2 DEF InodeType
  <2>2. r \in InodeType
    BY <1>2
  <2> HIDE DEF f, n, r
  <2> QED
    BY <2>1, <2>2 DEF InodeType
<1>4. g = [d EXCEPT !.bbm = d.bbm \cup ({b} \cap Block), !.inode = [d.inode EXCEPT ![dir] = q]]
  BY DEF Grown, b, Image
<1> HIDE DEF q, g
<1>5. /\ g \in Image /\ g.ibm = d.ibm /\ g.block = d.block
      /\ g.free_blocks = d.free_blocks /\ g.free_inodes = d.free_inodes
      /\ g.bbm = d.bbm \cup ({b} \cap Block) /\ g.inode = [d.inode EXCEPT ![dir] = q]
  BY <1>3, <1>4 DEF Image
<1>6. g.inode[dir] = q /\ \A j \in Inode \ {dir} : g.inode[j] = d.inode[j]
  BY <1>5, Fields
<1>7. GrownTo(d, g, dir, i, b)
  BY <1>3, <1>5, <1>6 DEF GrownTo
<1> QED
  BY <1>7 DEF b, g

\* A directory of one block grows, and the entry is the only one in the new
\* block.
LEMMA EnteredGrown ==
  ASSUME NEW d \in Image, NEW P, Sound(d, P), NEW dir \in Dirs(d),
         Count(d.inode[dir]) = 1, d.inode[dir].i_block[2] = 0,
         NEW b, b = find_free_block_index(d), b # -1,
         NEW name \in Name, NEW type \in {"reg", "dir", "lnk"}, NEW ino \in Inode \cup {-1},
         NEW g, g = Grown(d, dir, 1),
         NEW e, e = Write(g, b, Inserted(g.block[b], name, type, ino))
  PROVE  \E x : Opened(d, P, e, x, dir, Entry(name, type, ino, 0))
<1> DEFINE n == Inserted(Zeros, name, type, ino)
<1>1. Own(d) /\ Layout(d, P) /\ Laid(d, P) /\ NothingElse(d)
  BY DEF Sound, Layout
<1>2. b \in Block \ d.bbm
  BY FreeBlock
<1>3. dir \in Inode
  BY <1>1, DirectoryBlocks
<1>4. GrownTo(d, g, dir, 1, b) /\ g.bbm = d.bbm \cup {b}
  <2>1. d.bbm \cup ({b} \cap Block) = d.bbm \cup {b}
    BY <1>2
  <2>2. GrownTo(d, g, dir, 1, b)
    BY <1>3, GrownFields, Slots
  <2> QED
    BY <2>1, <2>2 DEF GrownTo
<1> USE <1>4 DEF GrownTo
<1>5. d.block[b] = Zeros
  BY <1>1, <1>2, DirectoryNotFree DEF NothingElse
<1>6. /\ n \in [Cell -> EntryType] /\ Chain(n, {0}) /\ Alike(n[0], Entry(name, type, ino, 0))
      /\ \A q \in Cell \ {0} : n[q] = Zero
  BY InsertedFirst
<1>7. e = Write(g, b, n)
  BY <1>4, <1>5
<1> HIDE DEF n
<1>8. Rewritten(g, e, b, n)
  BY <1>2, <1>6, <1>7, Written
<1> USE <1>8 DEF Rewritten
<1>9. \A i \in Inode \ {dir} : Kept(e.inode[i], d.inode[i])
  BY DEF Kept
<1>10. GrownBy(d, e, dir, b)
  BY <1>2, <1>9 DEF GrownBy, Dirs
<1>11. /\ Own(e) /\ Used(d.inode[dir]) = {0} /\ Used(e.inode[dir]) = {0, 1}
       /\ e.inode[dir].i_block[1] = b /\ e.inode[dir].i_block[0] = d.inode[dir].i_block[0]
  BY <1>1, <1>10, OwnGrown, SMTT(30)
<1>12. \A i \in Inode : /\ e.inode[i].i_mode = d.inode[i].i_mode
                        /\ e.inode[i].i_links_count = d.inode[i].i_links_count
                        /\ Held(e.inode[i]) = Held(d.inode[i])
  <2>1. d.inode[dir].i_mode = "dir"
    BY DEF Dirs
  <2> QED
    BY <2>1 DEF Held
<1>13. Dirs(e) = Dirs(d) /\ d.ibm \subseteq Inode /\ e.ibm = d.ibm /\ d.bbm \subseteq e.bbm
  BY <1>12, Fields, SMTT(30) DEF Dirs
<1>14. \A i \in Dirs(d) \ {dir} : /\ e.inode[i].i_block = d.inode[i].i_block
                                  /\ e.inode[i].i_blocks = d.inode[i].i_blocks
  BY <1>13, SMTT(30) DEF Dirs
<1>15. Chain(e.block[b], {0}) /\ (\A q \in Cell \ {0} : e.block[b][q] = Zero)
       /\ \A a \in Block \ {b} : e.block[a] = d.block[a]
  BY <1>6, SMTT(30)
<1>16. StartsAt(d, e, dir, b)
  BY <1>2, <1>11, <1>13, <1>14, <1>15, Zenon DEF StartsAt
<1> DEFINE x == <<dir, <<1, 0>>>>
<1>17. OneMore(d, e, P, x) /\ Ent(e, x) = e.block[b][0] /\ x[1] = dir
  BY <1>1, <1>16, LayoutGrown
<1> HIDE DEF x
<1>18. Alike(Ent(e, x), Entry(name, type, ino, 0))
  BY <1>6, <1>17
<1>19. Opened(d, P, e, x, dir, Entry(name, type, ino, 0))
  BY <1>11, <1>12, <1>13, <1>17, <1>18, Zenon DEF Opened, OneMore
<1> QED
  BY <1>19

-----------------------------------------------------------------------------
(* The second half: what the entry names.                                    *)

\* No entry of the directory has the name.
NameNew(d, P, dir, name) == \A y \in P : y[1] = dir => Ent(d, y).name # name

\* The entry of image e names inode ino, which was free, as a file with blocks
\* that were.
FileMade(d, e, f, ino, type) ==
  /\ f \in Image /\ type # "dir" /\ ino \in Inode \ d.ibm
  /\ IntoUse(e, f, ino) /\ f.block = e.block
  /\ f.inode[ino].i_mode = type /\ f.inode[ino].i_links_count = 1
  /\ \A i \in Inode \ {ino} : f.inode[i] = e.inode[i]

LEMMA SoundWithFile ==
  ASSUME NEW d \in Image, NEW P, Sound(d, P), NEW e, NEW x, NEW dir, NEW name \in Name, NEW type,
         NEW ino, Opened(d, P, e, x, dir, Entry(name, type, ino, 0)), NameNew(d, P, dir, name),
         NEW f, FileMade(d, e, f, ino, type)
  PROVE  Sound(f, P \cup {x}) /\ Gives(d, f, dir, name, ino)
<1> USE DEF Opened, FileMade
<1>1. Own(f)
  BY OwnNew
<1>2. Dirs(f) = Dirs(e) /\ f.ibm = d.ibm \cup {ino} /\ d.ibm \subseteq Inode
  BY Fields DEF Dirs, IntoUse
<1>3. SameDirs(e, f)
  BY <1>2, Fields DEF SameDirs, Dirs
<1>4. Layout(f, P \cup {x}) /\ \A y \in P \cup {x} : Ent(f, y) = Ent(e, y)
  BY <1>3, LayoutSame
<1>5. P \subseteq Place /\ Live(d, P) /\ Counted(d, P)
  BY LaidPlaces DEF Sound, Layout, Arranged
<1>6. d.inode[ino].i_links_count = 0
  BY <1>5, FreeHasNoLinks
<1>7. \A y \in P : Alike(Ent(f, y), Ent(d, y))
  BY <1>4
<1>8. Ent(f, x).name = name /\ Ent(f, x).inode = ino /\ Ent(f, x).file_type = type
  BY <1>4 DEF Alike, Entry
<1>9. \A y \in P : y[1] = x[1] => Ent(d, y).name # Ent(f, x).name
  BY <1>8 DEF NameNew
<1>10. /\ \A i \in d.ibm : f.inode[i].i_mode = d.inode[i].i_mode
       /\ \A i \in Inode \ {ino} : f.inode[i].i_links_count = d.inode[i].i_links_count
  BY <1>2
<1>11. LinkMade(d, f, P, x, ino)
  BY <1>2, <1>5, <1>6, <1>7, <1>8, <1>9, <1>10 DEF LinkMade
<1>12. Arranged(f, P \cup {x})
  BY <1>11, TreeGains DEF Sound
<1>13. PlacesOf(d) = P /\ PlacesOf(f) = P \cup {x}
  BY <1>1, <1>4, PlacesShown DEF Sound, Layout
<1>14. Gives(d, f, dir, name, ino)
  <2>1. Edges(f) = Edges(d) \cup {<<dir, name, ino>>}
    BY <1>7, <1>8, <1>13, EdgesOne
  <2>2. \A i : <<dir, name, i>> \notin Edges(d)
    BY <1>13, NoEdge DEF NameNew
  <2>3. dir \in Dirs(d)
    BY <1>2, <1>4, LaidPlaces DEF Layout
  <2>4. \A i \in Inode \ {ino} : Held(f.inode[i]) = Held(d.inode[i])
    OBVIOUS
  <2> QED
    BY <1>2, <2>1, <2>2, <2>3, <2>4 DEF Gives
<1> QED
  BY <1>1, <1>4, <1>12, <1>14 DEF Sound

\* The entry names a file that is there.
LinkAdded(d, e, f, ino) ==
  /\ f \in Image /\ ino \in d.ibm /\ d.inode[ino].i_mode = "reg"
  /\ f.ibm = e.ibm /\ f.bbm = e.bbm /\ f.block = e.block
  /\ \A i \in Inode : Kept(f.inode[i], e.inode[i])
  /\ f.inode[ino].i_links_count = e.inode[ino].i_links_count + 1
  /\ \A i \in Inode \ {ino} : f.inode[i].i_links_count = e.inode[i].i_links_count

LEMMA SoundWithLink ==
  ASSUME NEW d \in Image, NEW P, Sound(d, P), NEW e, NEW x, NEW dir, NEW name \in Name,
         NEW ino, Opened(d, P, e, x, dir, Entry(name, "reg", ino, 0)), NameNew(d, P, dir, name),
         NEW f, LinkAdded(d, e, f, ino)
  PROVE  Sound(f, P \cup {x}) /\ Gives(d, f, dir, name, ino) /\ Held(f.inode[ino]) = Held(d.inode[ino])
<1> USE DEF Opened, LinkAdded
<1>1. d.ibm \subseteq Inode /\ ino \in Inode
  BY Fields
<1>2. Own(f)
  BY <1>1, OwnSame
<1>3. Dirs(f) = Dirs(e)
  BY <1>1 DEF Dirs, Kept
<1>4. SameDirs(e, f)
  BY <1>1, <1>3 DEF SameDirs, Dirs, Kept
<1>5. Layout(f, P \cup {x}) /\ \A y \in P \cup {x} : Ent(f, y) = Ent(e, y)
  BY <1>4, LayoutSame
<1>6. P \subseteq Place
  BY LaidPlaces DEF Sound, Layout
<1>7. \A y \in P : Alike(Ent(f, y), Ent(d, y))
  BY <1>5
<1>8. Ent(f, x).name = name /\ Ent(f, x).inode = ino /\ Ent(f, x).file_type = "reg"
  BY <1>5 DEF Alike, Entry
<1>9. \A y \in P : y[1] = x[1] => Ent(d, y).name # Ent(f, x).name
  BY <1>8 DEF NameNew
<1>10. /\ \A i \in d.ibm : f.inode[i].i_mode = d.inode[i].i_mode
       /\ \A i \in Inode \ {ino} : f.inode[i].i_links_count = d.inode[i].i_links_count
       /\ f.inode[ino].i_links_count = d.inode[ino].i_links_count + 1
       /\ f.inode[ino].i_mode = "reg"
  BY <1>1 DEF Kept
<1>11. f.ibm = d.ibm \cup {ino}
  OBVIOUS
<1>12. LinkMade(d, f, P, x, ino)
  BY <1>1, <1>3, <1>6, <1>7, <1>8, <1>9, <1>10, <1>11 DEF LinkMade
<1>13. Arranged(f, P \cup {x})
  BY <1>12, TreeGains DEF Sound
<1>14. PlacesOf(d) = P /\ PlacesOf(f) = P \cup {x}
  BY <1>2, <1>5, PlacesShown DEF Sound, Layout
<1>15. \A i \in Inode : Held(f.inode[i]) = Held(d.inode[i])
  BY DEF Held, Kept, Count
<1>16. Gives(d, f, dir, name, ino)
  <2>1. Edges(f) = Edges(d) \cup {<<dir, name, ino>>}
    BY <1>7, <1>8, <1>14, EdgesOne
  <2>2. \A i : <<dir, name, i>> \notin Edges(d)
    BY <1>14, NoEdge DEF NameNew
  <2>3. dir \in Dirs(d)
    BY <1>3, <1>5, LaidPlaces DEF Layout
  <2> QED
    BY <1>1, <1>11, <1>15, <2>1, <2>2, <2>3 DEF Gives
<1> QED
  BY <1>1, <1>2, <1>5, <1>13, <1>15, <1>16 DEF Sound

\* The entry names a new directory, which is named in it and names it as "..".
DirectoryAdded(d, e, f, dir, ino, free) ==
  /\ f \in Image /\ dir \in Dirs(d) /\ ino \in Inode \ d.ibm /\ free \in Block \ e.bbm
  /\ f.ibm = e.ibm \cup {ino} /\ f.bbm = e.bbm \cup {free}
  /\ f.block[free] = NewDirectory(ino, dir) /\ \A a \in Block \ {free} : f.block[a] = e.block[a]
  /\ f.inode[ino].i_mode = "dir" /\ f.inode[ino].i_links_count = 2
  /\ f.inode[ino].i_blocks = 2 /\ ~f.inode[ino].i_dtime /\ f.inode[ino].i_block[0] = free
  /\ \A i \in Inode \ {ino} : Kept(f.inode[i], e.inode[i])
  /\ f.inode[dir].i_links_count = e.inode[dir].i_links_count + 1
  /\ \A i \in Inode \ {ino, dir} : f.inode[i].i_links_count = e.inode[i].i_links_count

LEMMA SoundWithDirectory ==
  ASSUME NEW d \in Image, NEW P, Sound(d, P), NEW e, NEW x, NEW dir, NEW name \in Name,
         NEW ino, Opened(d, P, e, x, dir, Entry(name, "dir", ino, 0)), NameNew(d, P, dir, name),
         NEW f, NEW free, DirectoryAdded(d, e, f, dir, ino, free)
  PROVE  /\ Sound(f, (P \cup {x}) \cup {Dot(ino), DotDot(ino)})
         /\ Gives(d, f, dir, name, ino)
<1> USE DEF Opened, DirectoryAdded
<1>1. /\ d.ibm \subseteq Inode /\ dir \in Inode /\ dir # ino /\ dir \in d.ibm
      /\ d.inode[dir].i_mode = "dir"
  BY Fields DEF Dirs
<1>2. /\ Count(f.inode[ino]) = 1 /\ Used(f.inode[ino]) = {0} /\ BlocksOf(f.inode[ino]) = {free}
      /\ f.inode[ino].i_blocks = 2 * Count(f.inode[ino])
  <2>1. Count(f.inode[ino]) = 1
    BY DEF Count
  <2>2. Used(f.inode[ino]) = {0}
    BY <2>1, UsedSlots
  <2> QED
    BY <2>1, <2>2 DEF BlocksOf
<1>3. InodeOK(f.inode[ino])
  BY <1>2, Slots DEF InodeOK
<1>4. IntoUse(e, f, ino)
  BY <1>1, <1>2, <1>3 DEF IntoUse
<1>5. Own(f)
  BY <1>4, OwnNew
<1>6. Dirs(f) = Dirs(e) \cup {ino}
  BY <1>1 DEF Dirs, Kept
<1>7. \A i \in Dirs(e) : /\ f.inode[i].i_block = e.inode[i].i_block
                         /\ f.inode[i].i_blocks = e.inode[i].i_blocks
  BY <1>1 DEF Dirs, Kept
<1>8. /\ Chain(f.block[free], {0, 1}) /\ \A q \in Cell \ {0, 1} : f.block[free][q] = Zero
      /\ Alike(f.block[free][0], Entry(".", "dir", ino, 0))
      /\ Alike(f.block[free][1], Entry("..", "dir", dir, 0))
  BY <1>1, NewDirectoryTyped
<1>9. MakesDirectory(e, f, ino, free)
  BY <1>2, <1>6, <1>7, <1>8 DEF MakesDirectory
<1>10. /\ TwoMore(e, f, P \cup {x}, ino)
       /\ Ent(f, Dot(ino)) = f.block[free][0] /\ Ent(f, DotDot(ino)) = f.block[free][1]
  BY <1>9, LayoutNewDirectory
<1>11. P \subseteq Place /\ \A y \in P : y[1] \in Dirs(d)
  BY LaidPlaces DEF Sound, Layout
<1>12. \A y \in P : Alike(Ent(f, y), Ent(d, y))
  BY <1>10 DEF TwoMore, Alike
<1>13. Ent(f, x).name = name /\ Ent(f, x).inode = ino /\ Ent(f, x).file_type = "dir"
  BY <1>10 DEF TwoMore, Alike, Entry
<1>14. \A y \in P : y[1] = x[1] => Ent(d, y).name # Ent(f, x).name
  BY <1>13 DEF NameNew
<1>15. /\ \A i \in d.ibm : f.inode[i].i_mode = d.inode[i].i_mode
       /\ \A i \in Inode \ {ino, x[1]} : f.inode[i].i_links_count = d.inode[i].i_links_count
       /\ f.inode[x[1]].i_links_count = d.inode[x[1]].i_links_count + 1
  BY <1>1 DEF Kept
<1>16. /\ Dot(ino) \notin P \cup {x} /\ DotDot(ino) \notin P \cup {x} /\ Dot(ino) # DotDot(ino)
  BY <1>10 DEF TwoMore
<1>17. /\ Alike(Ent(f, Dot(ino)), Entry(".", "dir", ino, 0))
       /\ Alike(Ent(f, DotDot(ino)), Entry("..", "dir", x[1], 0))
  BY <1>8, <1>10
<1>18. DirectoryMade(d, f, P, x, ino)
  BY <1>1, <1>11, <1>12, <1>13, <1>14, <1>15, <1>16, <1>17 DEF DirectoryMade
<1>19. Arranged(f, (P \cup {x}) \cup {Dot(ino), DotDot(ino)})
  BY <1>18, TreeNewDirectory DEF Sound
<1> DEFINE X == {x, Dot(ino), DotDot(ino)}
<1>20. PlacesOf(d) = P /\ PlacesOf(f) = P \cup X
  BY <1>5, <1>10, PlacesShown DEF Sound, Layout, TwoMore
<1>21. Gives(d, f, dir, name, ino)
  <2>1. Ent(f, Dot(ino)).name \notin Name /\ Ent(f, DotDot(ino)).name \notin Name
    BY <1>17, Names DEF Alike, Entry
  <2>2. \A y \in X \ {x} : Ent(f, y).name \notin Name
    BY <2>1
  <2>3. Edges(f) = Edges(d) \cup {<<dir, name, ino>>}
    <3> HIDE DEF X
    <3>1. x \in X
      BY DEF X
    <3> QED
      BY <1>12, <1>13, <1>20, <2>2, <3>1, EdgesMore
  <2>4. \A i : <<dir, name, i>> \notin Edges(d)
    BY <1>20, NoEdge DEF NameNew
  <2>5. \A i \in Inode \ {ino} : Held(f.inode[i]) = Held(d.inode[i])
    BY DEF Held, Kept, Count
  <2> QED
    BY <2>3, <2>4, <2>5 DEF Gives
<1> QED
  BY <1>5, <1>10, <1>19, <1>21 DEF Sound, TwoMore

\* remove_file for a link that is not the last, and Freed for one that is.
Unlinked(d, f, ino) ==
  /\ f \in Image /\ f.ibm = d.ibm /\ f.bbm = d.bbm /\ f.block = d.block
  /\ \A i \in Inode \ {ino} : f.inode[i] = d.inode[i]
  /\ f.inode[ino].i_mode = d.inode[ino].i_mode /\ f.inode[ino].i_blocks = d.inode[ino].i_blocks
  /\ f.inode[ino].i_block = d.inode[ino].i_block /\ f.inode[ino].i_dtime = d.inode[ino].i_dtime
  /\ f.inode[ino].i_links_count = d.inode[ino].i_links_count - 1

LEMMA UnlinkedFields ==
  ASSUME NEW d \in Image, NEW ino \in Inode, d.inode[ino].i_links_count > 0
  PROVE  Unlinked(d, [d EXCEPT !.inode[ino].i_links_count = @ - 1], ino)
<1> DEFINE r == d.inode[ino]
           n == r.i_links_count - 1
           q == [r EXCEPT !.i_links_count = n]
           f == [d EXCEPT !.inode[ino].i_links_count = @ - 1]
<1>1. r \in InodeType
  BY Fields
<1>2. n \in Nat
  BY <1>1, InodeFields
<1>3. /\ q \in InodeType /\ q.i_mode = r.i_mode /\ q.i_dtime = r.i_dtime
      /\ q.i_links_count = n /\ q.i_blocks = r.i_blocks /\ q.i_block = r.i_block
  <2> HIDE DEF r, n
  <2> QED
    BY <1>1, <1>2 DEF InodeType
<1>4. f = [d EXCEPT !.inode = [d.inode EXCEPT ![ino] = q]]
  BY DEF Image
<1> HIDE DEF q, f
<1>5. /\ f \in Image /\ f.ibm = d.ibm /\ f.bbm = d.bbm /\ f.block = d.block
      /\ f.inode = [d.inode EXCEPT ![ino] = q]
  BY <1>3, <1>4 DEF Image
<1>6. f.inode[ino] = q /\ \A j \in Inode \ {ino} : f.inode[j] = d.inode[j]
  BY <1>5, Fields
<1>7. Unlinked(d, f, ino)
  BY <1>3, <1>5, <1>6 DEF Unlinked
<1> QED
  BY <1>7 DEF f

Released(d, f, ino) ==
  /\ f \in Image /\ f.block = d.block
  /\ f.ibm = d.ibm \ {ino} /\ f.bbm = d.bbm \ BlocksOf(d.inode[ino])
  /\ \A i \in Inode \ {ino} : f.inode[i] = d.inode[i]
  /\ f.inode[ino].i_mode = d.inode[ino].i_mode /\ f.inode[ino].i_blocks = d.inode[ino].i_blocks
  /\ f.inode[ino].i_block = d.inode[ino].i_block
  /\ f.inode[ino].i_links_count = d.inode[ino].i_links_count - 1

LEMMA FreedFields ==
  ASSUME NEW d \in Image, NEW ino \in Inode, d.inode[ino].i_links_count > 0
  PROVE  Released(d, Freed(d, ino), ino)
<1> DEFINE r == d.inode[ino]
           n == r.i_links_count - 1
           q == [r EXCEPT !.i_dtime = TRUE, !.i_links_count = n]
           f == Freed(d, ino)
           bs == FileBlocks(d, ino)
           fb == d.free_blocks + BlockCount(d, ino)
           fi == d.free_inodes + 1
<1>1. r \in InodeType
  BY Fields
<1>2. n \in Nat /\ fb \in Int /\ fi \in Int
  <2>1. BlockCount(d, ino) = Count(r) /\ Count(r) \in Nat /\ r.i_links_count \in Nat
    BY <1>1, InodeFields DEF BlockCount, Count
  <2>2. d.free_blocks \in Int /\ d.free_inodes \in Int
    BY Fields
  <2> QED
    BY <2>1, <2>2
<1>3. /\ q \in InodeType /\ q.i_mode = r.i_mode
      /\ q.i_links_count = n /\ q.i_blocks = r.i_blocks /\ q.i_block = r.i_block
  <2> HIDE DEF r, n
  <2> QED
    BY <1>1, <1>2 DEF InodeType
<1>4. bs = BlocksOf(r)
  BY DEF FileBlocks, BlocksOf, BlockCount, Used, Count
<1>5. f = [d EXCEPT !.bbm = d.bbm \ bs, !.ibm = d.ibm \ {ino}, !.free_blocks = fb,
                    !.free_inodes = fi, !.inode = [d.inode EXCEPT ![ino] = q]]
  <2> HIDE DEF bs, fb
  <2> QED
    BY ZenonT(30) DEF Image, Freed, bs, fb
<1> HIDE DEF q, f, bs, fb, fi
<1>6. /\ f \in Image /\ f.ibm = d.ibm \ {ino} /\ f.bbm = d.bbm \ bs /\ f.block = d.block
      /\ f.inode = [d.inode EXCEPT ![ino] = q]
  BY <1>2, <1>3, <1>5 DEF Image
<1>7. f.inode[ino] = q /\ \A j \in Inode \ {ino} : f.inode[j] = d.inode[j]
  BY <1>6, Fields
<1>8. Released(d, f, ino)
  BY <1>3, <1>4, <1>6, <1>7 DEF Released
<1> QED
  BY <1>8 DEF f

\* rm takes an entry out of view that is no directory and not the first of its
\* block, with the file if it was its last link.
LEMMA SoundWithout ==
  ASSUME NEW d \in Image, NEW P, Sound(d, P), NEW dir \in Dirs(d), NEW s \in Used(d.inode[dir]),
         NEW b, b = d.inode[dir].i_block[s], NEW p \in Shown(d.block[b]),
         NEW f, f = remove_file(d, b, p)
  PROVE  /\ f \in Image
         /\ p # 0 /\ d.block[b][p].file_type # "dir" /\ d.block[b][p].name \in Name
            => /\ Sound(f, P \ {<<dir, <<s, p>>>>})
               /\ Removes(d, f, dir, d.block[b][p].name, d.block[b][p].inode)
<1> DEFINE x   == <<dir, <<s, p>>>>
           c   == d.block[b]
           ino == c[p].inode
           d1  == IF p = 0 THEN d ELSE Write(d, b, Unshown(c, p))
<1>1. /\ Own(d) /\ Layout(d, P) /\ Laid(d, P) /\ Arranged(d, P) /\ Live(d, P) /\ Counted(d, P)
      /\ P \subseteq Place
  BY LaidPlaces DEF Sound, Layout, Arranged
<1>2. b \in Block /\ c \in [Cell -> EntryType] /\ Chain(c, Shown(c)) /\ x \in P /\ Ent(d, x) = c[p]
  BY <1>1, DirectoryBlocks, BlockShows, SMTT(30)
<1>3. /\ ino \in d.ibm /\ ino \in Inode /\ c[p].file_type = d.inode[ino].i_mode
      /\ d.inode[ino].i_links_count > 0
  BY <1>1, <1>2, Fields, FreeHasNoLinks, Zenon DEF Live
<1>4. p # 0 => Loses(c, Unshown(c, p), p) /\ Unshown(c, p) \in [Cell -> EntryType]
  <2>1. p # 0 => Loses(c, Unshown(c, p), p)
    BY <1>2, UnshownLoses, Zenon
  <2> QED
    BY <2>1, Zenon DEF Loses
<1>5. /\ d1 \in Image /\ d1.inode = d.inode /\ d1.ibm = d.ibm /\ d1.bbm = d.bbm
      /\ p # 0 => Rewritten(d, d1, b, Unshown(c, p))
  <2>1. p # 0 => Rewritten(d, d1, b, Unshown(c, p))
    BY <1>2, <1>4, Written, Zenon
  <2> QED
    BY <2>1, Zenon DEF Rewritten
<1> DEFINE more == d.inode[ino].i_links_count > 1 /\ c[p].file_type # "lnk"
<1>6. f = IF more THEN [d1 EXCEPT !.inode[ino].i_links_count = @ - 1] ELSE Freed(d1, ino)
  BY <1>5, Zenon DEF remove_file
<1> HIDE DEF d1
<1>7. IF more THEN Unlinked(d1, f, ino) ELSE Released(d1, f, ino)
  BY <1>3, <1>5, <1>6, UnlinkedFields, FreedFields, ZenonT(30)
<1>8. f \in Image
  BY <1>7, Zenon DEF Unlinked, Released
<1>9. ASSUME p # 0, c[p].file_type # "dir", c[p].name \in Name
      PROVE  Sound(f, P \ {x}) /\ Removes(d, f, dir, c[p].name, ino)
  <2>1. ino \notin Dirs(d) /\ d.inode[ino].i_mode # "dir"
    BY <1>3, <1>9, Zenon DEF Dirs
  <2>2. d.inode[ino].i_mode = "lnk" => d.inode[ino].i_links_count = 1
    BY <1>1, <1>3, Zenon DEF Own
  <2>3. /\ d.inode[ino].i_links_count \in Nat
        /\ more <=> d.inode[ino].i_links_count > 1
    <3>1. d.inode[ino] \in InodeType
      BY <1>3, Fields, Zenon
    <3>2. d.inode[ino].i_links_count \in Nat
      BY <3>1, InodeFields, Zenon
    <3> HIDE DEF ino, c
    <3> QED
      BY <1>3, <2>2, <3>2
  <2> HIDE DEF more
  <2>4. Own(f)
    <3>1. CASE more
      <4> HIDE DEF ino
      <4>1. d.inode[ino].i_mode # "lnk"
        BY <2>2, <2>3, <3>1
      <4> USE <1>7, <3>1 DEF Unlinked
      <4>2. \A i \in Inode \ {ino} : Kept(f.inode[i], d.inode[i])
        BY <1>5, Zenon DEF Kept
      <4>3. Kept(f.inode[ino], d.inode[ino])
        BY <1>5, <4>1, Zenon DEF Kept
      <4> QED
        BY <1>1, <1>5, <4>2, <4>3, Fields, OwnSame, Zenon
    <3>2. CASE ~more
      <4> USE <1>7, <3>2 DEF Released
      <4>1. \A i \in Inode \ {ino} : Kept(f.inode[i], d.inode[i])
        BY <1>5, ZenonT(30) DEF Kept
      <4>2. OutOfUse(d, f, ino)
        BY <1>3, <1>5, <2>1, <4>1, Fields, ZenonT(30) DEF OutOfUse
      <4> QED
        BY <1>1, <4>2, OwnFreed, Zenon
    <3> QED
      BY <3>1, <3>2
  <2>5. /\ f.block = d1.block
        /\ f.ibm = IF d.inode[ino].i_links_count > 1 THEN d.ibm ELSE d.ibm \ {ino}
        /\ \A i \in Inode : /\ f.inode[i].i_mode = d.inode[i].i_mode
                            /\ f.inode[i].i_blocks = d.inode[i].i_blocks
                            /\ f.inode[i].i_block = d.inode[i].i_block
        /\ \A i \in Inode \ {ino} : f.inode[i].i_links_count = d.inode[i].i_links_count
        /\ f.inode[ino].i_links_count = d.inode[ino].i_links_count - 1
    <3>1. CASE more
      <4>1. Unlinked(d1, f, ino)
        BY <1>7, <3>1, Zenon
      <4> HIDE DEF ino
      <4> QED
        BY <1>5, <2>3, <3>1, <4>1, ZenonT(30) DEF Unlinked
    <3>2. CASE ~more
      <4>1. Released(d1, f, ino)
        BY <1>7, <3>2, Zenon
      <4> HIDE DEF ino
      <4> QED
        BY <1>5, <2>3, <3>2, <4>1, ZenonT(30) DEF Released
    <3> QED
      BY <3>1, <3>2, Zenon
  <2>6. Dirs(f) = Dirs(d) /\ d.ibm \subseteq Inode
    <3>1. d.ibm \subseteq Inode
      BY Fields
    <3> HIDE DEF ino
    <3> QED
      BY <2>1, <2>5, <3>1, ZenonT(30) DEF Dirs
  <2>7. SameDirs(d, f)
    BY <2>5, <2>6, Zenon DEF SameDirs, Dirs
  <2>8. LosesAt(d, f, b, x, p)
    BY <1>4, <1>5, <1>9, <2>5, ZenonT(30) DEF LosesAt, Rewritten, NoDirectory
  <2> HIDE DEF x, c
  <2>9. OneLess(d, f, P, x)
    BY ONLY <1>1, <1>8, <2>7, <2>8, d \in Image, LayoutLoses
  <2>10. LinkGone(d, f, P, x, ino)
    BY <1>1, <1>2, <1>3, <1>9, <2>1, <2>5, <2>6, <2>9, Zenon DEF LinkGone, OneLess
  <2>11. Arranged(f, P \ {x})
    BY <1>1, <1>8, <2>10, TreeLoses
  <2>12. PlacesOf(d) = P /\ PlacesOf(f) = P \ {x}
    BY <1>1, <1>8, <2>4, <2>9, PlacesShown, Zenon DEF Layout, OneLess
  <2>13. Removes(d, f, dir, Ent(d, x).name, ino)
    <3>1. x[1] = dir
      BY DEF x
    <3>2. LET t == <<x[1], Ent(d, x).name, Ent(d, x).inode>>
          IN  t \in Edges(d) /\ Edges(f) = Edges(d) \ {t}
      BY <1>1, <2>9, <2>10, <2>12, EdgesLess, Zenon DEF Arranged, OneLess, LinkGone
    <3>3. Ent(d, x).inode = ino
      BY <2>10 DEF LinkGone
    <3>4. f.ibm \subseteq d.ibm
      BY <2>5
    <3>5. \A i \in Inode : Held(f.inode[i]) = Held(d.inode[i])
      BY <2>5 DEF Held, Count
    <3> HIDE DEF ino
    <3> QED
      BY <2>1, <3>1, <3>2, <3>3, <3>4, <3>5 DEF Removes
  <2> QED
    BY <1>2, <2>4, <2>9, <2>11, <2>13 DEF Sound, OneLess
<1> QED
  BY <1>8, <1>9, Zenon
=============================================================================
