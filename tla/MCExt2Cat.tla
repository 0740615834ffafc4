----------------------------- MODULE MCExt2Cat -----------------------------
EXTENDS Ext2Cat

\* Three direct blocks, two pointers in a block, two bytes in a block: nine blocks
\* before the triple indirect ones.
Blocks(bytes) == 0..((bytes - 1) \div 2)

DenseFiles == {[size |-> n, used |-> Blocks(n), zeros |-> {}] : n \in 0..20}

\* Files with holes: in the direct, the single and the double indirect blocks, alone
\* and together, so that a whole table of pointers may be missing.
SparseFiles ==
  {[size |-> 18, used |-> Blocks(18) \ H, zeros |-> {}] : H \in SUBSET {0, 2, 3, 4, 5, 6, 7, 8}}

\* One that has a triple indirect block and nothing in the double indirect one.
HoleBeforeTriple == {[size |-> 20, used |-> {0, 1, 2, 3, 4, 9}, zeros |-> {}]}

\* Files with zero bytes: at the beginning, in the middle and at the end of a chunk, next
\* to each other and alone.
ZeroFiles ==
  {[size |-> n, used |-> Blocks(n), zeros |-> Z] :
     n \in {5, 18}, Z \in {{0}, {1, 6}, {2, 3}, {4, 16}}}

MCFiles == DenseFiles \cup SparseFiles \cup HoleBeforeTriple \cup ZeroFiles
=============================================================================
