------------------------------- MODULE MCExt2 -------------------------------
EXTENDS Ext2Tree

\* Two names in the root and two in a directory of it: as many as fit into
\* the first blocks of both, or with blocks of three cells two too many.
Paths == {<<"x">>, <<"y">>, <<"x", "y">>, <<"x", "z">>}
=============================================================================
