------------------------------- MODULE FileTree -------------------------------
(***************************************************************************)
(* What mkdir, cp, ln, rm and restore promise, without blocks, bitmaps and *)
(* entries: names for files.  Each of them changes what one path names and *)
(* leaves every other path and file alone.                                 *)
(***************************************************************************)
EXTENDS Integers, Sequences, SequencesExt

CONSTANTS
  Path,    \* paths
  Node,    \* what can be named: files, directories and symbolic links
  Size     \* sizes of files

VARIABLES
  names,   \* the node each existing path names
  file,    \* type and size of each node; those of a removed one are kept
  lost     \* has a tool given up what it promises?

vars == <<names, file, lost>>

NoFile == [type |-> "none", size |-> 0]

Init ==
  /\ names = <<>>
  /\ file = [n \in Node |-> NoFile]
  /\ lost = FALSE

Named(n) == \E p \in DOMAIN names : names[p] = n

\* The path is free, and in the root or in a directory.
Vacant(path) ==
  /\ path \notin DOMAIN names
  /\ Len(path) = 1 \/ \E p \in DOMAIN names : p = Front(path) /\ file[names[p]].type = "dir"

Give(path, n) ==
  names' = [p \in DOMAIN names \cup {path} |-> IF p = path THEN n ELSE names[p]]

\* mkdir, cp and ln -s: a new node.
New(path, type, size) ==
  /\ Vacant(path)
  /\ \E n \in Node :
       /\ ~Named(n) /\ Give(path, n)
       /\ file' = [file EXCEPT ![n] = [type |-> type, size |-> size]]

\* ln: one more name for a file.
Link(target, path) ==
  /\ target \in DOMAIN names /\ file[names[target]].type = "reg"
  /\ Vacant(path) /\ Give(path, names[target])
  /\ UNCHANGED file

\* rm: one name less for a file or a symbolic link.
Unlink(path) ==
  /\ path \in DOMAIN names /\ file[names[path]].type \in {"reg", "lnk"}
  /\ names' = [p \in DOMAIN names \ {path} |-> names[p]]
  /\ UNCHANGED file

\* restore: a file without names has one again.
Undelete(path) ==
  /\ Vacant(path)
  /\ \E n \in Node :
       /\ ~Named(n) /\ file[n].type \in {"reg", "lnk"} /\ file[n].size > 0
       /\ Give(path, n)
  /\ UNCHANGED file

\* A tool that finds no block or inode, or one of the flaws of the others.
Lose ==
  /\ names' = <<>> /\ file' = [n \in Node |-> NoFile]
  /\ lost' = TRUE

Next ==
  /\ ~lost
  /\ \/ /\ UNCHANGED lost
        /\ \E path \in Path :
             \/ New(path, "dir", 0)
             \/ \E size \in Size : New(path, "reg", size)
             \/ New(path, "lnk", 1)
             \/ \E target \in Path : Link(target, path)
             \/ Unlink(path)
             \/ Undelete(path)
     \/ Lose

Spec == Init /\ [][Next]_vars
=============================================================================
