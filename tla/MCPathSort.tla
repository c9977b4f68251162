----------------------------- MODULE MCPathSort -----------------------------
EXTENDS PathSort

\* Every list of four entries that are quadrants or filler; the sixteen lists
\* of compute_path are among them.
AllLists == [0 .. 3 -> Quad \cup {Unused}]
=============================================================================
