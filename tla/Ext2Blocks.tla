----------------------------- MODULE Ext2Blocks -----------------------------
(***************************************************************************)
(* How an ext2 image maps the blocks of a file: i_block[0..14] of          *)
(* ext2_fs.h, of which the last three point to blocks of pointers, one,    *)
(* two and three levels deep.  The image is made by other programs; it is  *)
(* modelled as the code in src/CENG334/HW3 reads it.                       *)
(***************************************************************************)
EXTENDS Integers

CONSTANTS
  Direct,  \* direct pointers in an inode: 12
  Fan      \* pointers in a block: 256, as the images have blocks of 1024 bytes

ASSUME BlocksAssumption == Direct \in Nat \ {0} /\ Fan \in Nat \ {0}

\* The blocks of data behind a pointer of level 0 to 3.
Span(lvl) == <<1, Fan, Fan * Fan, Fan * Fan * Fan>>[lvl + 1]

\* A block number.  <<0, n>> is block n of the file's data; <<lvl, n>> is a block of
\* pointers that covers Span(lvl) blocks of data from n on; NoBlock is the number 0.
NoBlock == << >>

\* The pointer to the blocks from n on at a level; there is none when the file uses
\* none of them.
Pointer(lvl, n, used) ==
  IF \E b \in used : n <= b /\ b < n + Span(lvl) THEN <<lvl, n>> ELSE NoBlock

\* Where the single, double and triple indirect blocks begin: 12, 268, 268+65536.
SingleBase == Direct
DoubleBase == Direct + Fan
TripleBase == Direct + Fan + Fan * Fan

i_block(i, used) ==
  CASE i < Direct      -> Pointer(0, i, used)
    [] i = Direct      -> Pointer(1, SingleBase, used)
    [] i = Direct + 1  -> Pointer(2, DoubleBase, used)
    [] i = Direct + 2  -> Pointer(3, TripleBase, used)

\* What a block of pointers holds.
Pointers(block, used) ==
  LET lvl == block[1] - 1
  IN [m \in 0..(Fan - 1) |-> Pointer(lvl, block[2] + m * Span(lvl), used)]
=============================================================================
