------------------------------ MODULE Ext2Cat ------------------------------
(***************************************************************************)
(* `cat file [offset]` of the ext2 shell: the loop of cat_func (main.c),   *)
(* readfile (vfs/fs.c) and ext2_read (ext2_fs/ext2.c), one action per      *)
(* round of a loop.  A byte is named by its position in the file; of its   *)
(* value it matters only whether it is zero, where a string ends.          *)
(*                                                                         *)
(* Blocks have 1024 bytes: for any other size the offsets                  *)
(* BASE_OFFSET + (block_n-1)*block_size are not those of the blocks.       *)
(***************************************************************************)
EXTENDS Ext2Blocks, Sequences

CONSTANTS
  BlockSize,  \* block_size
  Chunk,      \* what cat asks for at a time: 1024
  Files,      \* files [size, used, zeros]: length in bytes, blocks present, zero bytes
  Offsets     \* argv[2]

ASSUME ConstantsAssumption ==
  /\ BlockSize \in Nat \ {0} /\ Chunk \in Nat \ {0}
  /\ Files \subseteq [size : Nat, used : SUBSET Nat, zeros : SUBSET Nat]
  /\ \A f \in Files : f.size <= (TripleBase + Span(3)) * BlockSize  \* i_block reaches no further
  /\ Offsets \subseteq Nat

VARIABLES
  file,         \* f->f_inode
  start,        \* atoll(argv[2])
  totalread,    \* of cat_func
  f_pos,        \* f->f_pos
  block_index, offset, size,  \* of ext2_read
  k, l,         \* its loop counters
  buf,          \* content: the bytes read by this call
  out,          \* the bytes printed so far
  pc

vars == <<file, start, totalread, f_pos, block_index, offset, size, k, l, buf, out, pc>>

Init ==
  /\ file \in Files /\ start \in Offsets
  /\ totalread = start /\ f_pos = 0
  /\ block_index = 0 /\ offset = 0 /\ size = 0 /\ k = 0 /\ l = 0
  /\ buf = << >> /\ out = << >>
  /\ pc = "cat"

\* What readfile asks for: less than a chunk at the end of the file.
Asked == IF totalread + Chunk >= file.size THEN file.size - totalread ELSE Chunk

\* readfile and the beginning of ext2_read: lines 443-444.
Readfile ==
  /\ pc = "cat" /\ totalread < file.size
  /\ size' = Asked
  /\ block_index' = totalread \div BlockSize
  /\ offset' = totalread % BlockSize
  /\ buf' = << >>
  /\ pc' = "while"
  /\ UNCHANGED <<file, start, totalread, f_pos, k, l, out>>

\* readfile finds nothing left; cat_func closes the file.
EndOfFile ==
  /\ pc = "cat" /\ totalread >= file.size
  /\ pc' = "closed"
  /\ UNCHANGED <<file, start, totalread, f_pos, block_index, offset, size, k, l, buf, out>>

\* Mutants: a block is copied to its end although less was asked for; every call starts
\* the table of single indirect blocks anew; l is not counted from the table at k.
Mutant_CopyBlock(block) ==
  LET n == BlockSize - offset
  IN /\ buf' = buf \o [i \in 1..n |-> block[2] * BlockSize + offset + i - 1]
     /\ size' = IF size <= n THEN 0 ELSE size - n
     /\ offset' = 0
     /\ block_index' = block_index + 1

\* The bytes of a block from offset on that are still asked for are appended.
CopyBlock(block) ==
  LET n == IF size <= BlockSize - offset THEN size ELSE BlockSize - offset
  IN /\ buf' = buf \o [i \in 1..n |-> block[2] * BlockSize + offset + i - 1]
     /\ size' = size - n
     /\ offset' = IF size <= BlockSize - offset THEN offset ELSE 0
     /\ block_index' = block_index + 1

SkipBlock == UNCHANGED <<buf, size, offset, block_index>>

\* The rounds of the loop at 446, by where block_index is.
InWhile(first, next) ==
  pc = "while" /\ size # 0 /\ first <= block_index /\ block_index < next

\* The pointer of the inode with which a round begins.  The triple indirect blocks
\* are looked for behind i_block[13] too (line 550).
Root == i_block(IF block_index < Direct THEN block_index
                ELSE IF block_index < DoubleBase THEN Direct ELSE Direct + 1, file.used)

ReadDirect ==
  /\ InWhile(0, Direct) /\ Root # NoBlock
  /\ CopyBlock(Root)
  /\ UNCHANGED <<file, start, totalread, f_pos, k, l, out, pc>>

Mutant_EnterSingle ==
  /\ InWhile(SingleBase, DoubleBase) /\ Root # NoBlock
  /\ k' = 0
  /\ pc' = "single"
  /\ UNCHANGED <<file, start, totalread, f_pos, l, buf, out, size, offset, block_index>>

EnterSingle ==
  /\ InWhile(SingleBase, DoubleBase) /\ Root # NoBlock
  /\ k' = block_index - SingleBase
  /\ pc' = "single"
  /\ UNCHANGED <<file, start, totalread, f_pos, l, buf, out, size, offset, block_index>>

EnterDouble ==
  /\ InWhile(DoubleBase, TripleBase) /\ Root # NoBlock
  /\ k' = 0
  /\ pc' = "double"
  /\ UNCHANGED <<file, start, totalread, f_pos, l, buf, out, size, offset, block_index>>

\* The block of data that the branch at 547 takes for a block of pointers: where the
\* loops over k, l and m meet block_index, in the tree behind i_block[13].
TripleLeaf ==
  LET x == block_index - TripleBase
      outer == Pointers(Root, file.used)[x \div Span(2)]
  IN IF Root = NoBlock \/ outer = NoBlock THEN NoBlock
     ELSE Pointers(outer, file.used)[(x \div Fan) % Fan]

\* The bytes of a file are followed as if they were block numbers.
ReadTriple ==
  /\ InWhile(TripleBase, TripleBase + Span(3)) /\ TripleLeaf # NoBlock
  /\ pc' = "undefined"
  /\ UNCHANGED <<file, start, totalread, f_pos, block_index, offset, size, k, l, buf, out>>

\* `continue` in lines 450, 475, 509, 551 for a pointer that is 0, and a triple branch
\* whose loops find nothing: the round changes nothing and is repeated.
Spin ==
  /\ \/ InWhile(0, TripleBase) /\ Root = NoBlock
     \/ InWhile(TripleBase, TripleBase + Span(3)) /\ TripleLeaf = NoBlock
  /\ UNCHANGED vars

\* The loop at 478.  A hole is passed without counting it in block_index.
SingleRound ==
  /\ pc = "single" /\ size # 0 /\ k < Fan
  /\ LET block == Pointers(Root, file.used)[k]
     IN IF block = NoBlock THEN SkipBlock ELSE CopyBlock(block)
  /\ k' = k + 1
  /\ UNCHANGED <<file, start, totalread, f_pos, l, out, pc>>

SingleEnds ==
  /\ pc = "single" /\ (size = 0 \/ k = Fan)
  /\ pc' = "while"
  /\ UNCHANGED <<file, start, totalread, f_pos, block_index, offset, size, k, l, buf, out>>

\* The block of pointers that was loaded from i_block[13], and the one at k in it.
DoubleTable == Pointers(i_block(Direct + 1, file.used), file.used)
InnerTable == Pointers(DoubleTable[k], file.used)

Mutant_DoubleRound ==
  /\ pc = "double" /\ size # 0 /\ k < Fan
  /\ IF DoubleTable[k] = NoBlock
       THEN k' = k + 1 /\ UNCHANGED <<l, pc>>
       ELSE /\ l' = block_index - DoubleBase
            /\ pc' = "inner"
            /\ UNCHANGED k
  /\ UNCHANGED <<file, start, totalread, f_pos, block_index, offset, size, buf, out>>

\* The loop over k at 512, down to the start of the one over l at 519.
DoubleRound ==
  /\ pc = "double" /\ size # 0 /\ k < Fan
  /\ IF DoubleTable[k] = NoBlock
       THEN k' = k + 1 /\ UNCHANGED <<l, pc>>
       ELSE /\ l' = block_index - k * Fan - DoubleBase
            /\ pc' = "inner"
            /\ UNCHANGED k
  /\ UNCHANGED <<file, start, totalread, f_pos, block_index, offset, size, buf, out>>

DoubleEnds ==
  /\ pc = "double" /\ (size = 0 \/ k = Fan)
  /\ pc' = "while"
  /\ UNCHANGED <<file, start, totalread, f_pos, block_index, offset, size, k, l, buf, out>>

\* The loop over l at 519.  Its condition compares l as an unsigned number, so that a
\* negative l ends it.
InnerRound ==
  /\ pc = "inner" /\ size # 0 /\ l \in 0..(Fan - 1)
  /\ IF InnerTable[l] = NoBlock THEN SkipBlock ELSE CopyBlock(InnerTable[l])
  /\ l' = l + 1
  /\ UNCHANGED <<file, start, totalread, f_pos, k, out, pc>>

InnerEnds ==
  /\ pc = "inner" /\ (size = 0 \/ l \notin 0..(Fan - 1))
  /\ k' = k + 1
  /\ pc' = "double"
  /\ UNCHANGED <<file, start, totalread, f_pos, block_index, offset, size, l, buf, out>>

\* Lines 600-602, and the body of the loop in cat_func.  printf stops at the first zero
\* byte of content; totalread counts what was read.
Return ==
  /\ pc = "while" /\ size = 0
  /\ f_pos' = f_pos + Len(buf)
  /\ totalread' = totalread + Len(buf)
  /\ \E n \in 0..Len(buf) :
       /\ \A i \in 1..n : buf[i] \notin file.zeros
       /\ n < Len(buf) => buf[n + 1] \in file.zeros
       /\ out' = out \o SubSeq(buf, 1, n)
  /\ pc' = "cat"
  /\ UNCHANGED <<file, start, block_index, offset, size, k, l, buf>>

Ended == pc \in {"closed", "undefined"} /\ UNCHANGED vars

Step == \/ Readfile \/ EndOfFile \/ Return
        \/ ReadDirect \/ EnterSingle \/ EnterDouble \/ ReadTriple
        \/ SingleRound \/ SingleEnds
        \/ DoubleRound \/ DoubleEnds \/ InnerRound \/ InnerEnds

Next == Step \/ Spin \/ Ended

Spec == Init /\ [][Next]_vars

\* The shell runs.
FairSpec == Spec /\ WF_vars(Step)
-----------------------------------------------------------------------------
(***************************************************************************)
(* Properties                                                              *)
(***************************************************************************)
\* The files that ext2_read can read: all their blocks are present and none is behind
\* the triple indirect pointer.
Readable(f) ==
  /\ f.used = 0..((f.size - 1) \div BlockSize)
  /\ f.size <= TripleBase * BlockSize

\* Types.  A call never reads more than it was asked for: buf fits the caller's array
\* whatever the file looks like.
TypeOK ==
  /\ file \in Files /\ start \in Offsets
  /\ totalread \in Nat /\ f_pos \in Nat
  /\ block_index \in 0..(TripleBase + Span(3))
  /\ offset \in 0..(BlockSize - 1)
  /\ size \in 0..Chunk
  /\ k \in 0..Fan /\ l \in Int
  /\ buf \in Seq(Nat) /\ Len(buf) + size <= Chunk
  /\ out \in Seq(Nat)
  /\ pc \in {"cat", "while", "single", "double", "inner", "closed", "undefined"}

\* For a file that can be read, cat passes the bytes of the file from the offset on in
\* chunks, each byte once and in order, wherever the offset lies and whichever of the
\* three branches of ext2_read the blocks fall into, and prints each chunk up to its
\* first zero byte (main.c 175-179): without zero bytes, exactly the file.
Service == INSTANCE FileService
  WITH MaxPiece <- Chunk,
       length <- IF Readable(file) THEN file.size ELSE 0,
       zeros <- file.zeros,
       at <- IF Readable(file) THEN totalread ELSE start,
       out <- IF Readable(file) THEN out ELSE << >>,
       closed <- Readable(file) /\ pc = "closed"
ImplementsService == Service!Spec

\* cat ends for a file that can be read.
CatEnds == <>(Readable(file) => pc = "closed")

\* "cat file_name [offset]: This command prints the contents of file file_name" (HW3.pdf
\* page 3): when cat has closed a file that can be read it has printed all its bytes
\* from the offset on.
PrintsAll ==
  (Readable(file) /\ pc = "closed") => start + Len(out) >= file.size

\* "The read operation starts from the o byte of the file and reads len bytes" (ext2.c
\* 429): cat comes to an end with any file, as a file with holes has bytes too.
CatAlwaysEnds == <>(pc \in {"closed", "undefined"})

=============================================================================
