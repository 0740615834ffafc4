--------------------------- MODULE Ext2CatProofs ---------------------------
(***************************************************************************)
(* Proofs about Ext2Cat for every file, with holes or without, and every   *)
(* offset, with parameters for the 1024 bytes of a block and of a chunk,   *)
(* the 256 pointers in a block and the 12 in an inode.                     *)
(***************************************************************************)
EXTENDS Ext2Cat, Ext2BlocksProofs, SequenceTheorems

-----------------------------------------------------------------------------
(* Sizes.                                                                  *)

LEMMA Sizes ==
  /\ BlockSize \in Nat \ {0} /\ Chunk \in Nat \ {0}
  /\ Direct \in Nat \ {0} /\ Fan \in Nat \ {0}
  /\ SingleBase \in Nat /\ DoubleBase \in Nat /\ TripleBase \in Nat /\ Span(3) \in Nat
  /\ SingleBase <= DoubleBase /\ DoubleBase <= TripleBase
BY ConstantsAssumption, Bases
-----------------------------------------------------------------------------
(* Copying a block.                                                        *)

\* c bytes of block n, from offset on, are appended; if more are asked for,
\* they are those up to the end of the block.
Appends(n, c) ==
  /\ c \in Nat
  /\ buf' \in Seq(Nat) /\ Len(buf') = Len(buf) + c
  /\ \A i \in 1 .. Len(buf) : buf'[i] = buf[i]
  /\ \A i \in 1 .. c : buf'[Len(buf) + i] = n * BlockSize + offset + i - 1
  /\ size' \in 0 .. Chunk /\ Len(buf') + size' = Len(buf) + size
  /\ offset' \in 0 .. (BlockSize - 1) /\ block_index' = block_index + 1
  /\ size' # 0 => offset + c = BlockSize /\ offset' = 0

LEMMA Copied ==
  ASSUME TypeOK, NEW n \in Nat, CopyBlock(<<0, n>>)
  PROVE  \E c : Appends(n, c)
<1>1. /\ BlockSize \in Nat \ {0} /\ offset \in 0 .. (BlockSize - 1) /\ size \in 0 .. Chunk
      /\ Chunk \in Nat /\ buf \in Seq(Nat)
  BY Sizes DEF TypeOK
<1> DEFINE c == IF size <= BlockSize - offset THEN size ELSE BlockSize - offset
           add == [i \in 1 .. c |-> n * BlockSize + offset + i - 1]
<1>2. /\ buf' = buf \o add
      /\ size' = size - c
      /\ offset' = IF size <= BlockSize - offset THEN offset ELSE 0
      /\ block_index' = block_index + 1
  BY DEF CopyBlock
<1>3. c \in Nat /\ c <= size
  BY <1>1
<1>4. /\ size' \in 0 .. Chunk /\ c + size' = size
      /\ offset' \in 0 .. (BlockSize - 1)
      /\ size' # 0 => offset + c = BlockSize /\ offset' = 0
  BY <1>1, <1>2
<1>5. PICK at : at = n * BlockSize + offset
  OBVIOUS
<1>6. at \in Nat
  <2>1. n * BlockSize \in Nat
    BY <1>1
  <2> QED BY <1>1, <1>5, <2>1
<1> HIDE DEF c
<1>7. add = [i \in 1 .. c |-> at + i - 1]
  BY <1>5
<1> HIDE DEF add
<1>8. add \in Seq(Nat) /\ Len(add) = c /\ \A i \in 1 .. c : add[i] = at + i - 1
  BY <1>3, <1>6, <1>7
<1>9. /\ buf' \in Seq(Nat) /\ Len(buf') = Len(buf) + c
      /\ \A i \in 1 .. Len(buf) : buf'[i] = buf[i]
      /\ \A i \in 1 .. c : buf'[Len(buf) + i] = at + i - 1
  <2>1. /\ buf \o add \in Seq(Nat) /\ Len(buf \o add) = Len(buf) + Len(add)
        /\ \A i \in 1 .. Len(buf) + Len(add) :
             (buf \o add)[i] = IF i <= Len(buf) THEN buf[i] ELSE add[i - Len(buf)]
    BY <1>1, <1>8, ConcatProperties, Zenon
  <2>2. PICK all : all = buf \o add
    OBVIOUS
  <2>3. PICK len : len = Len(buf)
    OBVIOUS
  <2>4. len \in Nat
    BY <1>1, <2>3
  <2>5. /\ all \in Seq(Nat) /\ Len(all) = len + c
        /\ \A i \in 1 .. len + c : all[i] = IF i <= len THEN buf[i] ELSE add[i - len]
    BY <1>8, <2>1, <2>2, <2>3, Zenon
  <2>6. \A i \in 1 .. len : all[i] = buf[i]
    BY <1>3, <2>4, <2>5
  <2>7. ASSUME NEW i \in 1 .. c PROVE all[len + i] = at + i - 1
    <3>1. PICK x : x = len + i
      OBVIOUS
    <3>2. x \in 1 .. len + c /\ ~(x <= len) /\ x - len = i
      BY <1>3, <2>4, <3>1
    <3>3. all[x] = add[i]
      BY <2>5, <3>2, Zenon
    <3> QED BY <1>8, <3>1, <3>3, Zenon
  <2> QED BY <1>2, <2>2, <2>3, <2>5, <2>6, <2>7, Zenon
<1>10. Len(buf') + size' = Len(buf) + size
  <2>1. PICK a : a = Len(buf)
    OBVIOUS
  <2>2. PICK b : b = size'
    OBVIOUS
  <2>3. a \in Nat /\ b \in Nat /\ c + b = size
    BY <1>1, <1>4, <2>1, <2>2
  <2>4. a + c + b = a + size
    BY <1>3, <2>3
  <2> QED BY <1>9, <2>1, <2>2, <2>4, Zenon
<1>11. Appends(n, c)
  BY <1>2, <1>3, <1>4, <1>5, <1>9, <1>10 DEF Appends
<1> QED BY <1>11
-----------------------------------------------------------------------------
(* Types, and where the loops are, for any file.                           *)

LoopInv ==
  /\ pc = "single" => /\ i_block(Direct, file.used) # NoBlock
                      /\ SingleBase <= block_index /\ block_index <= SingleBase + k
  /\ pc \in {"double", "inner"} =>
       /\ i_block(Direct + 1, file.used) # NoBlock
       /\ DoubleBase <= block_index /\ block_index <= TripleBase
  /\ pc = "inner" => /\ k < Fan /\ DoubleTable[k] # NoBlock
                     /\ block_index <= DoubleBase + k * Fan + l

LEMMA FileType ==
  ASSUME TypeOK
  PROVE  /\ file.used \in SUBSET Nat /\ file.size \in Nat /\ start \in Nat
         /\ file.zeros \in SUBSET Nat
         /\ file.size <= (TripleBase + Span(3)) * BlockSize
<1>1. file \in [size : Nat, used : SUBSET Nat, zeros : SUBSET Nat]
  BY ConstantsAssumption DEF TypeOK
<1>2. file.size <= (TripleBase + Span(3)) * BlockSize /\ start \in Nat
  BY ConstantsAssumption DEF TypeOK
<1> QED BY <1>1, <1>2

LEMMA TypeInit == Init => TypeOK /\ LoopInv
<1> SUFFICES ASSUME Init PROVE TypeOK /\ LoopInv
  OBVIOUS
<1>1. start \in Nat
  BY ConstantsAssumption DEF Init
<1>2. TypeOK
  <2>1. << >> \in Seq(Nat) /\ Len(<< >>) = 0
    OBVIOUS
  <2>2. 0 \in 0 .. (TripleBase + Span(3)) /\ 0 \in 0 .. (BlockSize - 1) /\ 0 \in 0 .. Chunk
        /\ 0 \in 0 .. Fan /\ 0 + 0 <= Chunk
    BY Sizes
  <2> QED BY <1>1, <2>1, <2>2 DEF Init, TypeOK
<1>3. LoopInv
  BY DEF Init, LoopInv
<1> QED BY <1>2, <1>3

\* The number of the block in which a byte lies.
LEMMA Division ==
  ASSUME NEW a \in Nat, NEW b \in Nat \ {0}
  PROVE  /\ a \div b \in Nat /\ a % b \in 0 .. (b - 1)
         /\ a = (a \div b) * b + (a % b)
OBVIOUS

LEMMA Monotone ==
  ASSUME NEW a \in Nat, NEW b \in Nat, NEW c \in Nat, a <= b
  PROVE  a * c <= b * c
OBVIOUS

LEMMA BlockBelow ==
  ASSUME NEW a \in Nat, NEW b \in Nat \ {0}, NEW c \in Nat, a < c * b
  PROVE  a \div b < c
<1>1. PICK x : x = a \div b
  OBVIOUS
<1>2. x \in Nat /\ x * b <= a
  BY <1>1, Division
<1>3. x * b < c * b
  BY <1>2
<1>4. ~(c <= x)
  <2> SUFFICES ASSUME c <= x PROVE FALSE
    OBVIOUS
  <2>1. c * b <= x * b
    BY <1>2
  <2>2. c * b \in Nat /\ x * b \in Nat
    BY <1>2
  <2> QED BY <1>3, <2>1, <2>2
<1> QED BY <1>1, <1>2, <1>4

\* The branch of a table is copied, or a hole in it passed.
LEMMA CopyOrSkip ==
  ASSUME TypeOK, NEW n \in Nat,
         NEW block, block # NoBlock => block = <<0, n>>,
         IF block = NoBlock THEN SkipBlock ELSE CopyBlock(block)
  PROVE  /\ buf' \in Seq(Nat) /\ Len(buf') + size' <= Chunk
         /\ size' \in 0 .. Chunk /\ offset' \in 0 .. (BlockSize - 1)
         /\ block_index' \in {block_index, block_index + 1}
<1>1. CASE block = NoBlock
  BY <1>1 DEF SkipBlock, TypeOK
<1>2. CASE block # NoBlock
  <2>1. CopyBlock(<<0, n>>)
    BY <1>2
  <2>2. PICK c : Appends(n, c)
    BY <2>1, Copied
  <2> QED BY <2>2 DEF Appends, TypeOK
<1> QED BY <1>1, <1>2

LEMMA DirectBlock ==
  ASSUME TypeOK, block_index < Direct
  PROVE  block_index \in Nat /\ Root = Pointer(0, block_index, file.used)
<1>1. block_index \in 0 .. (Direct - 1)
  BY Sizes DEF TypeOK
<1>2. file.used \in SUBSET Nat
  BY FileType
<1> QED BY <1>1, <1>2, RootIs DEF Root

LEMMA SingleBlock ==
  ASSUME TypeOK, LoopInv, pc = "single", k < Fan
  PROVE  /\ Pointers(Root, file.used)[k] = Pointer(0, SingleBase + k, file.used)
         /\ SingleBase + k \in Nat /\ block_index < DoubleBase
<1>1. /\ k \in 0 .. (Fan - 1) /\ SingleBase = Direct /\ DoubleBase = Direct + Fan
      /\ Direct \in Nat /\ Fan \in Nat /\ block_index \in Int
  BY Sizes DEF TypeOK, SingleBase, DoubleBase
<1>2. block_index < DoubleBase /\ ~(block_index < Direct)
  BY <1>1 DEF LoopInv
<1>3. Root = i_block(Direct, file.used)
  BY <1>2 DEF Root
<1>4. Root = <<1, SingleBase>>
  BY <1>3, RootIs, FileType DEF LoopInv
<1>5. SingleBase \in Nat /\ SingleBase + k \in Nat
  BY <1>1
<1>6. Pointers(<<1, SingleBase>>, file.used)[k] = Pointer(0, SingleBase + k, file.used)
  BY <1>1, <1>5, TableIs, Zenon
<1> QED BY <1>2, <1>4, <1>5, <1>6, Zenon

LEMMA DoubleBlock ==
  ASSUME TypeOK, LoopInv, pc \in {"double", "inner"}, k < Fan
  PROVE  /\ DoubleTable[k] = Pointer(1, DoubleBase + k * Fan, file.used)
         /\ k \in 0 .. (Fan - 1) /\ DoubleBase + k * Fan \in Nat
<1>1. k \in 0 .. (Fan - 1) /\ DoubleBase \in Nat
  BY Sizes DEF TypeOK
<1>2. i_block(Direct + 1, file.used) = <<2, DoubleBase>>
  BY RootIs, FileType DEF LoopInv
<1>3. k * Fan \in Nat
  BY <1>1, RowEnds
<1>4. DoubleBase + k * Fan \in Nat
  BY <1>1, <1>3
<1>5. /\ Pointers(<<2, DoubleBase>>, file.used)[k] = Pointer(1, DoubleBase + k * Fan, file.used)
  BY <1>1, TableIs, Zenon
<1> QED BY <1>1, <1>2, <1>4, <1>5, Zenon DEF DoubleTable

LEMMA InnerBlock ==
  ASSUME TypeOK, LoopInv, pc = "inner", l \in 0 .. (Fan - 1)
  PROVE  /\ InnerTable[l] = Pointer(0, DoubleBase + k * Fan + l, file.used)
         /\ DoubleBase + k * Fan + l \in Nat
         /\ block_index < TripleBase
<1>1. /\ DoubleTable[k] = Pointer(1, DoubleBase + k * Fan, file.used)
      /\ k \in 0 .. (Fan - 1) /\ DoubleBase + k * Fan \in Nat
  BY DoubleBlock DEF LoopInv
<1>2. DoubleTable[k] = <<1, DoubleBase + k * Fan>>
  BY <1>1, PointerIs, FileType DEF LoopInv
<1>3. PICK n : n = DoubleBase + k * Fan
  OBVIOUS
<1>4. InnerTable[l] = Pointer(0, n + l, file.used)
  BY <1>1, <1>2, <1>3, TableIs, ZenonT(40) DEF InnerTable
<1>5. n \in Nat /\ n + Fan <= TripleBase
  <2>1. PICK x : x = k * Fan
    OBVIOUS
  <2>2. PICK y : y = Fan * Fan
    OBVIOUS
  <2>3. x \in Nat /\ y \in Nat /\ x + Fan <= y
    BY <1>1, <2>1, <2>2, RowEnds, Sizes
  <2>4. n = Direct + Fan + x /\ TripleBase = Direct + Fan + y
    BY <1>3, <2>1, <2>2 DEF DoubleBase, TripleBase
  <2>5. Direct \in Nat /\ Fan \in Nat
    BY Sizes
  <2> QED BY <2>3, <2>4, <2>5
<1>6. block_index <= n + l
  BY <1>3 DEF LoopInv
<1>7. n + l \in Nat /\ block_index < TripleBase
  <2>1. block_index \in Int /\ TripleBase \in Int /\ Fan \in Nat
    BY Sizes DEF TypeOK
  <2> QED BY <1>5, <1>6, <2>1
<1> QED BY <1>3, <1>4, <1>7

LEMMA TypeReadfile ==
  ASSUME TypeOK, Readfile
  PROVE  TypeOK' /\ block_index' < TripleBase + Span(3)
<1>1. /\ file.size \in Nat /\ totalread \in Nat /\ BlockSize \in Nat \ {0} /\ Chunk \in Nat
      /\ TripleBase + Span(3) \in Nat
      /\ file.size <= (TripleBase + Span(3)) * BlockSize
  BY FileType, Sizes DEF TypeOK
<1>2. totalread < (TripleBase + Span(3)) * BlockSize
  <2>1. PICK x : x = (TripleBase + Span(3)) * BlockSize
    OBVIOUS
  <2>2. x \in Nat
    BY <1>1, <2>1
  <2> QED BY <1>1, <2>1, <2>2 DEF Readfile
<1>3. block_index' \in Nat /\ block_index' < TripleBase + Span(3) /\ offset' \in 0 .. (BlockSize - 1)
  BY <1>1, <1>2, BlockBelow, Division DEF Readfile
<1>4. size' \in 0 .. Chunk
  <2>1. totalread < file.size
    BY DEF Readfile
  <2>2. size' = IF totalread + Chunk >= file.size THEN file.size - totalread ELSE Chunk
    BY DEF Readfile, Asked
  <2>3. PICK s \in Nat : s = file.size
    BY <1>1
  <2> QED BY <1>1, <2>1, <2>2, <2>3
<1>5. buf' \in Seq(Nat) /\ Len(buf') = 0
  BY DEF Readfile
<1>6. block_index' \in 0 .. (TripleBase + Span(3)) /\ Len(buf') + size' <= Chunk
  <2>1. PICK top \in Nat : top = TripleBase + Span(3)
    BY <1>1
  <2>2. block_index' \in 0 .. top
    BY <1>3, <2>1
  <2>3. Len(buf') + size' <= Chunk
    <3>1. PICK s : s = size'
      OBVIOUS
    <3>2. 0 + s <= Chunk
      <4>1. Chunk \in Nat
        BY <1>1
      <4>2. s \in 0 .. Chunk
        BY <1>4, <3>1
      <4> QED BY <4>1, <4>2
    <3> QED BY <1>5, <3>1, <3>2, Zenon
  <2> QED BY <2>1, <2>2, <2>3
<1> QED BY <1>3, <1>4, <1>5, <1>6 DEF Readfile, TypeOK

\* The beginning of a chunk.
LEMMA Shown ==
  ASSUME NEW b \in Seq(Nat), NEW n \in 0 .. Len(b)
  PROVE  /\ SubSeq(b, 1, n) \in Seq(Nat)
         /\ SubSeq(b, 1, n) = [i \in 1 .. n |-> b[i]]
OBVIOUS

LEMMA TypeStep ==
  ASSUME TypeOK, LoopInv, [Next]_vars
  PROVE  TypeOK' /\ LoopInv'
<1> USE DEF LoopInv, InWhile
<1>1. /\ Direct \in Nat /\ Fan \in Nat /\ Span(3) \in Nat
      /\ SingleBase \in Nat /\ DoubleBase \in Nat /\ TripleBase \in Nat
      /\ SingleBase = Direct /\ DoubleBase = Direct + Fan /\ DoubleBase <= TripleBase
  BY Sizes DEF SingleBase, DoubleBase
<1>2. CASE Readfile
  BY <1>2, TypeReadfile DEF Readfile
<1>3. CASE EndOfFile \/ ReadTriple
  BY <1>3 DEF EndOfFile, ReadTriple, TypeOK
<1>4. CASE Return
  <2>1. /\ totalread' = totalread + Len(buf) /\ f_pos' = f_pos + Len(buf)
        /\ pc' = "cat"
        /\ UNCHANGED <<file, start, block_index, offset, size, k, l, buf>>
    BY <1>4 DEF Return
  <2>2. out \in Seq(Nat) /\ buf \in Seq(Nat) /\ totalread \in Nat /\ f_pos \in Nat
    BY DEF TypeOK
  <2>3. PICK n \in 0 .. Len(buf) : out' = out \o SubSeq(buf, 1, n)
    BY <1>4 DEF Return
  <2>4. SubSeq(buf, 1, n) \in Seq(Nat)
    BY <2>2, Shown
  <2>5. out' \in Seq(Nat)
    BY <2>2, <2>3, <2>4, ConcatProperties
  <2>6. totalread' \in Nat /\ f_pos' \in Nat
    BY <2>1, <2>2
  <2> QED BY <2>1, <2>5, <2>6 DEF TypeOK
<1>5. CASE ReadDirect
  <2>1. block_index < Direct /\ CopyBlock(Root) /\ Root # NoBlock
    BY <1>5 DEF ReadDirect
  <2>2. block_index \in Nat /\ Root = <<0, block_index>>
    BY <2>1, DirectBlock, PointerIs, FileType
  <2>3. PICK c : Appends(block_index, c)
    BY <2>1, <2>2, Copied
  <2>4. block_index' \in 0 .. (TripleBase + Span(3))
    BY <1>1, <2>1, <2>2, <2>3, SMTT(30) DEF Appends
  <2>5. Len(buf') + size' <= Chunk
    BY <2>3 DEF Appends, TypeOK
  <2> QED BY <1>5, <2>3, <2>4, <2>5 DEF Appends, ReadDirect, TypeOK
<1>6. CASE EnterSingle
  <2>1. /\ SingleBase <= block_index /\ block_index < DoubleBase /\ Root # NoBlock
        /\ k' = block_index - SingleBase /\ pc' = "single"
        /\ UNCHANGED <<file, start, totalread, f_pos, l, buf, out, size, offset, block_index>>
    BY <1>6 DEF EnterSingle
  <2>2. block_index \in Int
    BY DEF TypeOK
  <2>3. Root = i_block(Direct, file.used)
    BY <1>1, <2>1, <2>2 DEF Root
  <2>4. k' \in 0 .. Fan /\ block_index <= SingleBase + k'
    BY <1>1, <2>1, <2>2
  <2> QED BY <2>1, <2>3, <2>4 DEF TypeOK
<1>7. CASE EnterDouble
  <2>1. /\ DoubleBase <= block_index /\ block_index < TripleBase /\ Root # NoBlock
        /\ k' = 0 /\ pc' = "double"
        /\ UNCHANGED <<file, start, totalread, f_pos, l, buf, out, size, offset, block_index>>
    BY <1>7 DEF EnterDouble
  <2>2. block_index \in Int
    BY DEF TypeOK
  <2>3. Root = i_block(Direct + 1, file.used)
    BY <1>1, <2>1, <2>2 DEF Root
  <2>4. k' \in 0 .. Fan
    BY <1>1, <2>1
  <2>5. block_index <= TripleBase
    BY <1>1, <2>1, <2>2
  <2> QED BY <2>1, <2>3, <2>4, <2>5 DEF TypeOK
<1>8. CASE SingleRound
  <2> DEFINE block == Pointers(Root, file.used)[k]
  <2>1. /\ pc = "single" /\ k < Fan /\ k' = k + 1
        /\ IF block = NoBlock THEN SkipBlock ELSE CopyBlock(block)
        /\ UNCHANGED <<file, start, totalread, f_pos, l, out, pc>>
    BY <1>8 DEF SingleRound
  <2>2. block = Pointer(0, SingleBase + k, file.used) /\ SingleBase + k \in Nat
        /\ block_index < DoubleBase
    BY <2>1, SingleBlock
  <2>3. block # NoBlock => block = <<0, SingleBase + k>>
    BY <2>2, PointerIs, FileType
  <2> HIDE DEF block
  <2>4. /\ buf' \in Seq(Nat) /\ Len(buf') + size' <= Chunk
        /\ size' \in 0 .. Chunk /\ offset' \in 0 .. (BlockSize - 1)
        /\ block_index' \in {block_index, block_index + 1}
    BY <2>1, <2>2, <2>3, CopyOrSkip
  <2>5. /\ block_index \in Nat /\ k \in 0 .. Fan /\ block_index <= SingleBase + k
        /\ SingleBase <= block_index
    BY <2>1 DEF TypeOK
  <2>6. /\ k' \in 0 .. Fan /\ block_index' <= SingleBase + k' /\ SingleBase <= block_index'
        /\ block_index' \in 0 .. (TripleBase + Span(3))
    BY <1>1, <2>1, <2>2, <2>4, <2>5, SMTT(30)
  <2> QED BY <2>1, <2>4, <2>6 DEF TypeOK
<1>9. CASE SingleEnds \/ DoubleEnds
  BY <1>9 DEF SingleEnds, DoubleEnds, TypeOK
<1>10. CASE DoubleRound
  <2>1. /\ pc = "double" /\ k < Fan
        /\ UNCHANGED <<file, start, totalread, f_pos, block_index, offset, size, buf, out>>
    BY <1>10 DEF DoubleRound
  <2>2. CASE DoubleTable[k] = NoBlock
    <3>1. k' = k + 1 /\ UNCHANGED <<l, pc>>
      BY <1>10, <2>2 DEF DoubleRound
    <3>2. k' \in 0 .. Fan
      BY <1>1, <2>1, <3>1 DEF TypeOK
    <3> QED BY <2>1, <3>1, <3>2 DEF TypeOK
  <2>3. CASE DoubleTable[k] # NoBlock
    <3>1. l' = block_index - k * Fan - DoubleBase /\ pc' = "inner" /\ k' = k
      BY <1>10, <2>3 DEF DoubleRound
    <3>2. PICK x : x = k * Fan
      OBVIOUS
    <3>3. x \in Int /\ block_index \in Int
      BY <1>1, <3>2 DEF TypeOK
    <3>4. l' \in Int /\ block_index <= DoubleBase + k * Fan + l'
      BY <1>1, <3>1, <3>2, <3>3
    <3>5. DoubleTable' = DoubleTable
      BY <2>1 DEF DoubleTable
    <3>6. /\ pc' = "inner" => /\ k' < Fan /\ DoubleTable'[k'] # NoBlock
                              /\ block_index' <= DoubleBase + k' * Fan + l'
      BY <2>1, <2>3, <3>1, <3>4, <3>5
    <3> QED BY <2>1, <3>1, <3>4, <3>6 DEF TypeOK
  <2> QED BY <2>2, <2>3
<1>11. CASE InnerRound
  <2>1. /\ pc = "inner" /\ l \in 0 .. (Fan - 1) /\ l' = l + 1
        /\ IF InnerTable[l] = NoBlock THEN SkipBlock ELSE CopyBlock(InnerTable[l])
        /\ UNCHANGED <<file, start, totalread, f_pos, k, out, pc>>
    BY <1>11 DEF InnerRound
  <2>2. PICK n : n = DoubleBase + k * Fan
    OBVIOUS
  <2>3. /\ InnerTable[l] = Pointer(0, n + l, file.used) /\ n + l \in Nat
        /\ block_index < TripleBase
    BY <2>1, <2>2, InnerBlock
  <2>4. InnerTable[l] # NoBlock => InnerTable[l] = <<0, n + l>>
    BY <2>3, PointerIs, FileType
  <2>5. /\ buf' \in Seq(Nat) /\ Len(buf') + size' <= Chunk
        /\ size' \in 0 .. Chunk /\ offset' \in 0 .. (BlockSize - 1)
        /\ block_index' \in {block_index, block_index + 1}
    BY <2>1, <2>3, <2>4, CopyOrSkip
  <2>6. block_index \in Nat /\ DoubleBase <= block_index /\ block_index <= n + l
    BY <2>1, <2>2 DEF TypeOK
  <2>7. n \in Int
    BY <1>1, <2>2 DEF TypeOK
  <2>8. /\ block_index' <= n + l' /\ DoubleBase <= block_index' /\ block_index' <= TripleBase
        /\ block_index' \in 0 .. (TripleBase + Span(3)) /\ l' \in Int
    <3>1. PICK x : x = block_index'
      OBVIOUS
    <3>2. x \in {block_index, block_index + 1} /\ l' = l + 1 /\ l \in Nat
      BY <1>1, <2>1, <2>5, <3>1
    <3>3. x <= n + (l + 1) /\ DoubleBase <= x /\ x <= TripleBase
      BY <1>1, <2>3, <2>6, <2>7, <3>2
    <3>4. x \in 0 .. (TripleBase + Span(3)) /\ l' \in Int
      BY <1>1, <3>2, <3>3, <2>6
    <3> QED BY <3>1, <3>2, <3>3, <3>4
  <2>9. DoubleTable' = DoubleTable
    BY <2>1 DEF DoubleTable
  <2>10. LoopInv'
    BY <2>1, <2>2, <2>8, <2>9
  <2>11. TypeOK'
    BY <2>1, <2>5, <2>8 DEF TypeOK
  <2> QED BY <2>1, <2>10, <2>11
<1>12. CASE InnerEnds
  <2>1. k' \in 0 .. Fan
    BY <1>1, <1>12 DEF InnerEnds, TypeOK
  <2> QED BY <1>12, <2>1 DEF InnerEnds, TypeOK
<1>13. CASE UNCHANGED vars
  BY <1>13 DEF vars, TypeOK, DoubleTable
<1> QED BY <1>2, <1>3, <1>4, <1>5, <1>6, <1>7, <1>8, <1>9, <1>10, <1>11, <1>12, <1>13
        DEF Next, Step, Spin, Ended
-----------------------------------------------------------------------------
(* What has been read, for a file that can be read.                        *)

InCall == pc \in {"while", "single", "double", "inner"}

\* buf holds the bytes from totalread on, what is still asked for is in the
\* file and makes up what readfile asked for, and block_index and offset are where its next byte is.
PieceInv ==
  Readable(file) /\ InCall =>
    /\ Len(buf) + size >= 1 /\ Len(buf) + size = Asked
    /\ totalread + (Len(buf) + size) <= file.size
    /\ \A i \in 1 .. Len(buf) : buf[i] = totalread + i - 1
    /\ size # 0 => block_index * BlockSize + offset = totalread + Len(buf)

\* The loops go through the tables in step with block_index.
PlaceInv ==
  Readable(file) /\ size # 0 =>
    /\ pc = "single" => block_index = SingleBase + k
    /\ pc = "double" => DoubleBase + k * Fan <= block_index
    /\ pc = "inner" => l >= 0 /\ block_index = DoubleBase + k * Fan + l

\* No block up to the one that is due is missing.
LEMMA Present ==
  ASSUME TypeOK, PieceInv, Readable(file), InCall, size # 0
  PROVE  \A n \in 0 .. block_index : n \in file.used
<1>1. /\ file.size \in Nat /\ BlockSize \in Nat \ {0} /\ block_index \in Nat
      /\ offset \in Nat /\ size \in Nat /\ totalread \in Nat /\ Len(buf) \in Nat
  BY FileType, Sizes DEF TypeOK
<1>2. PICK len \in Nat : len = Len(buf)
  BY <1>1
<1>3. PICK from \in Nat : from = block_index * BlockSize
  BY <1>1
<1>4. from + offset = totalread + len /\ totalread + (len + size) <= file.size
  BY <1>2, <1>3 DEF PieceInv
<1>5. file.size - 1 \in Nat /\ from <= file.size - 1
  BY <1>1, <1>4
<1>6. ~((file.size - 1) \div BlockSize < block_index)
  <2> SUFFICES ASSUME (file.size - 1) \div BlockSize < block_index PROVE FALSE
    OBVIOUS
  <2>1. PICK q : q = (file.size - 1) \div BlockSize
    OBVIOUS
  <2>2. PICK r : r = (file.size - 1) % BlockSize
    OBVIOUS
  <2>3. q \in Nat /\ r \in 0 .. (BlockSize - 1) /\ file.size - 1 = q * BlockSize + r
    BY <1>1, <1>5, <2>1, <2>2, Division
  <2>4. (q + 1) * BlockSize <= from
    <3>1. q + 1 \in Nat /\ q + 1 <= block_index
      <4>1. q \in Nat /\ block_index \in Nat
        BY <1>1, <2>3
      <4>2. q < block_index
        BY <2>1, Zenon
      <4> QED BY <4>1, <4>2
    <3>2. (q + 1) * BlockSize <= block_index * BlockSize
      BY <1>1, <3>1, Monotone
    <3> QED BY <1>3, <3>2, Zenon
  <2>5. (q + 1) * BlockSize = q * BlockSize + BlockSize
    BY <1>1, <2>3
  <2>6. PICK x \in Nat : x = q * BlockSize
    BY <1>1, <2>3
  <2> QED BY <1>1, <1>5, <2>3, <2>4, <2>5, <2>6
<1>7. file.used = 0 .. ((file.size - 1) \div BlockSize)
  BY DEF Readable
<1>8. (file.size - 1) \div BlockSize \in Nat
  BY <1>1, <1>5, Division
<1> QED BY <1>1, <1>6, <1>7, <1>8

\* The block that is due is copied.
LEMMA CopyOn ==
  ASSUME TypeOK, PieceInv, Readable(file), InCall, size # 0,
         CopyBlock(<<0, block_index>>), UNCHANGED <<file, totalread>>
  PROVE  PieceInv' /\ block_index' = block_index + 1
<1>1. /\ BlockSize \in Nat \ {0} /\ block_index \in Nat /\ offset \in Nat /\ size \in Nat
      /\ totalread \in Nat /\ Len(buf) \in Nat
  BY Sizes DEF TypeOK
<1>2. PICK c : Appends(block_index, c)
  BY <1>1, Copied
<1>3. PICK len \in Nat : len = Len(buf)
  BY <1>1
<1>4. PICK from \in Nat : from = block_index * BlockSize
  BY <1>1
<1>5. /\ len + size >= 1 /\ totalread + (len + size) <= file.size
      /\ \A i \in 1 .. len : buf[i] = totalread + i - 1
      /\ from + offset = totalread + len
  BY <1>3, <1>4 DEF PieceInv
<1>6. /\ c \in Nat /\ Len(buf') = len + c /\ Len(buf') + size' = len + size
      /\ \A i \in 1 .. len : buf'[i] = buf[i]
      /\ \A i \in 1 .. c : buf'[len + i] = from + offset + i - 1
      /\ block_index' = block_index + 1
      /\ size' # 0 => offset + c = BlockSize /\ offset' = 0
  BY <1>2, <1>3, <1>4 DEF Appends
<1>7. ASSUME NEW i \in 1 .. (len + c) PROVE buf'[i] = totalread + i - 1
  <2>1. CASE i <= len
    BY <1>5, <1>6, <2>1
  <2>2. CASE ~(i <= len)
    <3>1. PICK h : h = i - len
      OBVIOUS
    <3>2. h \in 1 .. c /\ len + h = i
      BY <1>6, <2>2, <3>1
    <3>3. buf'[i] = from + offset + h - 1
      BY <1>6, <3>2, Zenon
    <3>4. from + offset + h - 1 = totalread + i - 1
      BY <1>1, <1>5, <3>2
    <3> QED BY <3>3, <3>4, Zenon
  <2> QED BY <2>1, <2>2
<1>8. size' # 0 => block_index' * BlockSize + offset' = totalread + (len + c)
  <2> SUFFICES ASSUME size' # 0 PROVE block_index' * BlockSize + offset' = totalread + (len + c)
    OBVIOUS
  <2>1. offset + c = BlockSize /\ offset' = 0
    BY <1>6
  <2>2. (block_index + 1) * BlockSize = from + BlockSize
    BY <1>1, <1>4
  <2>3. from + BlockSize + 0 = totalread + (len + c)
    BY <1>1, <1>5, <1>6, <2>1
  <2> QED BY <1>6, <2>1, <2>2, <2>3, Zenon
<1>9. PieceInv'
  <2>1. totalread' = totalread /\ file' = file
    OBVIOUS
  <2>2. Len(buf') + size' >= 1 /\ totalread' + (Len(buf') + size') <= file'.size
    BY <1>5, <1>6, <2>1, Zenon
  <2>5. Len(buf') + size' = Asked'
    <3>1. Len(buf) + size = Asked
      BY DEF PieceInv
    <3>2. Asked' = Asked
      BY <2>1 DEF Asked
    <3> QED BY <1>3, <1>6, <3>1, <3>2, Zenon
  <2>3. \A i \in 1 .. Len(buf') : buf'[i] = totalread' + i - 1
    BY <1>6, <1>7, <2>1, Zenon
  <2>4. size' # 0 => block_index' * BlockSize + offset' = totalread' + Len(buf')
    BY <1>6, <1>8, <2>1, Zenon
  <2> QED BY <2>2, <2>3, <2>4, <2>5, Zenon DEF PieceInv
<1> QED BY <1>6, <1>9

\* A step that leaves the piece alone, or is outside a call.
LEMMA PieceKept ==
  ASSUME PieceInv, InCall, UNCHANGED <<file, totalread, buf, size, offset, block_index>>
  PROVE  PieceInv'
BY DEF PieceInv, Asked

LEMMA PieceStep ==
  ASSUME TypeOK, LoopInv, PieceInv, PlaceInv, [Next]_vars
  PROVE  PieceInv' /\ PlaceInv'
<1>1. /\ Direct \in Nat /\ Fan \in Nat /\ BlockSize \in Nat \ {0}
      /\ SingleBase \in Nat /\ DoubleBase \in Nat
      /\ block_index \in Nat /\ size \in Nat /\ k \in 0 .. Fan /\ l \in Int
  BY Sizes DEF TypeOK
<1>2. CASE Readfile
  <2>1. /\ totalread < file.size /\ file' = file /\ totalread' = totalread /\ pc' = "while"
        /\ size' = IF totalread + Chunk >= file.size THEN file.size - totalread ELSE Chunk
        /\ block_index' = totalread \div BlockSize /\ offset' = totalread % BlockSize
        /\ Len(buf') = 0 /\ size' = Asked
    BY <1>2 DEF Readfile, Asked
  <2>2. totalread \in Nat /\ file.size \in Nat /\ Chunk \in Nat \ {0}
    BY FileType, Sizes DEF TypeOK
  <2>3. 0 + size' >= 1 /\ totalread + (0 + size') <= file.size
    <3>1. PICK s : s = size'
      OBVIOUS
    <3>2. PICK fs \in Nat : fs = file.size
      BY <2>2
    <3>3. s = IF totalread + Chunk >= fs THEN fs - totalread ELSE Chunk
      BY <2>1, <3>1, <3>2, Zenon
    <3>4. totalread < fs
      BY <2>1, <3>2
    <3>5. 0 + s >= 1 /\ totalread + (0 + s) <= fs
      BY <2>2, <3>3, <3>4
    <3> QED BY <3>1, <3>2, <3>5, Zenon
  <2>4. block_index' * BlockSize + offset' = totalread + 0
    BY <1>1, <2>1, <2>2, Division
  <2>5. \A i \in 1 .. 0 : buf'[i] = totalread + i - 1
    OBVIOUS
  <2>6. 0 + size' = Asked'
    <3>1. Asked' = size' /\ Asked \in Int
      BY <2>1, <2>2 DEF Asked
    <3> QED BY <2>1, <3>1
  <2>7. PieceInv'
    BY <2>1, <2>3, <2>4, <2>5, <2>6, Zenon DEF PieceInv
  <2> QED BY <2>1, <2>7 DEF PlaceInv
<1>3. CASE EndOfFile \/ ReadTriple
  BY <1>3 DEF EndOfFile, ReadTriple, PieceInv, PlaceInv, InCall
<1>4. CASE Return
  BY <1>4 DEF Return, PieceInv, PlaceInv, InCall
<1>5. CASE ReadDirect
  <2>1. /\ pc = "while" /\ size # 0 /\ block_index < Direct /\ CopyBlock(Root) /\ Root # NoBlock
        /\ UNCHANGED <<file, totalread, pc>>
    BY <1>5 DEF ReadDirect, InWhile
  <2>2. Root = <<0, block_index>>
    BY <2>1, DirectBlock, PointerIs, FileType
  <2>3. PieceInv'
    <3>1. CASE Readable(file)
      BY <2>1, <2>2, <3>1, CopyOn DEF InCall
    <3>2. CASE ~Readable(file)
      BY <2>1, <3>2 DEF PieceInv, Readable
    <3> QED BY <3>1, <3>2
  <2> QED BY <2>1, <2>3 DEF PlaceInv
<1>6. CASE EnterSingle
  <2>1. /\ pc = "while" /\ pc' = "single" /\ k' = block_index - SingleBase
        /\ UNCHANGED <<file, totalread, buf, size, offset, block_index>>
    BY <1>6 DEF EnterSingle, InWhile
  <2>2. block_index = SingleBase + k'
    BY <1>1, <2>1
  <2> QED BY <2>1, <2>2, PieceKept DEF InCall, PlaceInv
<1>7. CASE EnterDouble
  <2>1. /\ pc = "while" /\ pc' = "double" /\ k' = 0 /\ DoubleBase <= block_index
        /\ UNCHANGED <<file, totalread, buf, size, offset, block_index>>
    BY <1>7 DEF EnterDouble, InWhile
  <2>2. DoubleBase + k' * Fan <= block_index
    BY <1>1, <2>1
  <2> QED BY <2>1, <2>2, PieceKept DEF InCall, PlaceInv
<1>8. CASE SingleRound
  <2> DEFINE block == Pointers(Root, file.used)[k]
  <2>1. /\ pc = "single" /\ size # 0 /\ k < Fan /\ k' = k + 1
        /\ IF block = NoBlock THEN SkipBlock ELSE CopyBlock(block)
        /\ UNCHANGED <<file, totalread, pc>>
    BY <1>8 DEF SingleRound
  <2>2. block = Pointer(0, SingleBase + k, file.used) /\ SingleBase + k \in Nat
    BY <2>1, SingleBlock
  <2> HIDE DEF block
  <2>3. CASE Readable(file)
    <3>1. block_index = SingleBase + k
      BY <2>1, <2>3 DEF PlaceInv
    <3>2. block_index \in file.used
      BY <1>1, <2>1, <2>3, Present DEF InCall
    <3>3. block = <<0, block_index>> /\ block # NoBlock
      BY <1>1, <2>2, <3>1, <3>2, PointerIs, FileType
    <3>4. PieceInv' /\ block_index' = block_index + 1
      BY <2>1, <2>3, <3>3, CopyOn DEF InCall
    <3>5. block_index' = SingleBase + k'
      BY <1>1, <2>1, <3>1, <3>4
    <3> QED BY <2>1, <3>4, <3>5 DEF PlaceInv
  <2>4. CASE ~Readable(file)
    BY <2>1, <2>4 DEF PieceInv, PlaceInv, Readable
  <2> QED BY <2>3, <2>4
<1>9. CASE SingleEnds \/ DoubleEnds
  <2>1. /\ InCall /\ pc' = "while"
        /\ UNCHANGED <<file, totalread, buf, size, offset, block_index>>
    BY <1>9 DEF SingleEnds, DoubleEnds, InCall
  <2> QED BY <2>1, PieceKept DEF PlaceInv
<1>10. CASE DoubleRound
  <2>1. /\ pc = "double" /\ size # 0 /\ k < Fan
        /\ UNCHANGED <<file, totalread, buf, size, offset, block_index>>
    BY <1>10 DEF DoubleRound
  <2>2. PieceInv'
    BY <2>1, PieceKept DEF InCall
  <2>3. CASE Readable(file)
    <3>1. PICK n : n = DoubleBase + k * Fan
      OBVIOUS
    <3>2. /\ DoubleTable[k] = Pointer(1, n, file.used) /\ n \in Nat
      BY <2>1, <3>1, DoubleBlock
    <3>3. n <= block_index
      BY <2>1, <2>3, <3>1 DEF PlaceInv
    <3>4. n \in 0 .. block_index
      BY <1>1, <3>2, <3>3
    <3>5. n \in file.used
      BY <2>1, <2>3, <3>4, Present DEF InCall
    <3>6. DoubleTable[k] # NoBlock
      BY <3>2, <3>5, PointerIs, FileType
    <3>7. l' = block_index - k * Fan - DoubleBase /\ pc' = "inner" /\ k' = k
      BY <1>10, <3>6 DEF DoubleRound
    <3>8. l' >= 0 /\ block_index = DoubleBase + k * Fan + l'
      <4>1. PICK x \in Nat : x = k * Fan
        BY <1>1
      <4> QED BY <1>1, <3>1, <3>3, <3>7, <4>1
    <3>9. block_index' = block_index
      BY <2>1
    <3> QED BY <2>2, <3>7, <3>8, <3>9, Zenon DEF PlaceInv
  <2>4. CASE ~Readable(file)
    BY <2>1, <2>2, <2>4 DEF PlaceInv, Readable
  <2> QED BY <2>3, <2>4
<1>11. CASE InnerRound
  <2>1. /\ pc = "inner" /\ size # 0 /\ l \in 0 .. (Fan - 1) /\ l' = l + 1
        /\ IF InnerTable[l] = NoBlock THEN SkipBlock ELSE CopyBlock(InnerTable[l])
        /\ UNCHANGED <<file, totalread, k, pc>>
    BY <1>11 DEF InnerRound
  <2>2. PICK n : n = DoubleBase + k * Fan
    OBVIOUS
  <2>3. CASE Readable(file)
    <3>1. block_index = n + l
      BY <2>1, <2>2, <2>3 DEF PlaceInv
    <3>2. InnerTable[l] = Pointer(0, block_index, file.used)
      BY <2>1, <2>2, <3>1, InnerBlock
    <3>3. block_index \in file.used
      BY <1>1, <2>1, <2>3, Present DEF InCall
    <3>4. InnerTable[l] = <<0, block_index>> /\ InnerTable[l] # NoBlock
      BY <1>1, <3>2, <3>3, PointerIs, FileType
    <3>5. PieceInv' /\ block_index' = block_index + 1
      BY <2>1, <2>3, <3>4, CopyOn DEF InCall
    <3>6. n \in Int
      BY <1>1, <2>2
    <3>7. l' >= 0 /\ block_index' = n + l'
      BY <1>1, <2>1, <3>1, <3>5, <3>6
    <3>8. n = DoubleBase + k' * Fan
      BY <2>1, <2>2
    <3>9. block_index' = DoubleBase + k' * Fan + l'
      BY <3>7, <3>8, Zenon
    <3> QED BY <2>1, <3>5, <3>7, <3>9 DEF PlaceInv
  <2>4. CASE ~Readable(file)
    BY <2>1, <2>4 DEF PieceInv, PlaceInv, Readable
  <2> QED BY <2>3, <2>4
<1>12. CASE InnerEnds
  <2>1. /\ pc = "inner" /\ (size = 0 \/ l \notin 0 .. (Fan - 1)) /\ k' = k + 1 /\ pc' = "double"
        /\ UNCHANGED <<file, totalread, buf, size, offset, block_index>>
    BY <1>12 DEF InnerEnds
  <2>2. PieceInv'
    BY <2>1, PieceKept DEF InCall
  <2>3. ASSUME Readable(file), size # 0 PROVE DoubleBase + k' * Fan <= block_index
    <3>1. l >= 0 /\ block_index = DoubleBase + k * Fan + l
      BY <2>1, <2>3 DEF PlaceInv
    <3>2. Fan <= l
      BY <1>1, <2>1, <2>3, <3>1
    <3>3. PICK x : x = k * Fan
      OBVIOUS
    <3>4. k \in 0 .. (Fan - 1)
      BY <1>1, <2>1 DEF LoopInv
    <3>5. x \in Nat /\ x + Fan = k' * Fan
      BY <2>1, <3>3, <3>4, RowEnds
    <3>6. DoubleBase + (x + Fan) <= block_index
      BY <1>1, <3>1, <3>2, <3>3, <3>5
    <3> QED BY <3>5, <3>6, Zenon
  <2> QED BY <2>1, <2>2, <2>3 DEF PlaceInv, Readable
<1>13. CASE UNCHANGED vars
  BY <1>13 DEF vars, PieceInv, PlaceInv, InCall, Readable, Asked
<1> QED BY <1>2, <1>3, <1>4, <1>5, <1>6, <1>7, <1>8, <1>9, <1>10, <1>11, <1>12, <1>13
        DEF Next, Step, Spin, Ended
-----------------------------------------------------------------------------
(* The service.                                                            *)

IInv == TypeOK /\ LoopInv /\ PieceInv /\ PlaceInv

LEMMA InitIInv == Init => IInv
<1> SUFFICES ASSUME Init PROVE IInv
  OBVIOUS
<1>1. PieceInv /\ PlaceInv
  BY DEF Init, PieceInv, PlaceInv, InCall
<1> QED BY <1>1, TypeInit DEF IInv

LEMMA NextIInv == IInv /\ [Next]_vars => IInv'
BY TypeStep, PieceStep DEF IInv

LEMMA Inductive == Spec => []IInv
BY InitIInv, NextIInv, PTL DEF Spec

\* What the service is told of a file that cannot be read: it is empty.
Length == IF Readable(file) THEN file.size ELSE 0
At == IF Readable(file) THEN totalread ELSE start
Printed == IF Readable(file) THEN out ELSE << >>
Closed == Readable(file) /\ pc = "closed"

LEMMA ServiceInit == Init => Service!Init
<1> SUFFICES ASSUME Init PROVE Service!Init
  OBVIOUS
<1>1. file.size \in Nat /\ start \in Nat /\ file.zeros \in SUBSET Nat
  <2>1. TypeOK
    BY TypeInit
  <2> QED BY <2>1, FileType
<1>2. out = << >> /\ pc # "closed" /\ totalread = start
  BY DEF Init
<1>3. Length \in Nat
  BY <1>1 DEF Length
<1>4. Printed = << >>
  BY <1>2 DEF Printed
<1>5. Closed = FALSE
  BY <1>2 DEF Closed
<1>6. At \in Nat
  BY <1>1, <1>2 DEF At
<1> QED BY <1>1, <1>3, <1>4, <1>5, <1>6, Zenon
        DEF Service!Init, Length, Printed, Closed, At

\* Nothing that the service sees of changes.
LEMMA ServiceStutter ==
  ASSUME UNCHANGED <<file, start>>,
         Readable(file) => /\ out' = out /\ totalread' = totalread
                           /\ pc' = "closed" <=> pc = "closed"
  PROVE  UNCHANGED Service!vars
<1>1. Readable(file)' <=> Readable(file)
  BY DEF Readable
<1>2. Length' = Length
  BY <1>1 DEF Length
<1>3. Printed' = Printed
  BY <1>1 DEF Printed
<1>4. Closed' = Closed
  BY <1>1 DEF Closed
<1>5. At' = At
  BY <1>1 DEF At
<1>6. file.zeros' = file.zeros
  OBVIOUS
<1> QED BY <1>2, <1>3, <1>4, <1>5, <1>6, Zenon DEF Service!vars, Length, Printed, Closed, At

LEMMA ServicePrint ==
  ASSUME IInv, Return, Readable(file)
  PROVE  Service!Print_piece
<1>1. /\ pc = "while" /\ pc' = "cat" /\ size = 0 /\ totalread' = totalread + Len(buf)
      /\ UNCHANGED <<file, start>>
  BY DEF Return
<1>2. Readable(file)' <=> Readable(file)
  BY <1>1 DEF Readable
<1>3. /\ Length = file.size /\ Length' = file.size
      /\ At = totalread /\ At' = totalread'
      /\ Printed = out /\ Printed' = out'
      /\ Closed = FALSE /\ Closed' = FALSE
  BY <1>1, <1>2 DEF Length, At, Printed, Closed
<1>4. PICK len : len = Len(buf)
  OBVIOUS
<1>5. /\ len \in Nat /\ buf \in Seq(Nat) /\ totalread \in Nat
      /\ file.size \in Nat /\ Chunk \in Nat
  BY <1>4, FileType, Sizes DEF IInv, TypeOK
<1>6. /\ len + 0 >= 1 /\ len + 0 = Asked /\ totalread + (len + 0) <= file.size
      /\ \A i \in 1 .. len : buf[i] = totalread + i - 1
  BY <1>1, <1>4 DEF IInv, PieceInv, InCall
<1>7. totalread < file.size /\ len = Asked /\ len + 0 = len
  <2>1. PICK fs \in Nat : fs = file.size
    BY <1>5
  <2>2. len + 0 >= 1 /\ totalread + (len + 0) <= fs
    BY <1>6, <2>1
  <2>3. len + 0 = len /\ totalread < fs
    BY <1>5, <2>2
  <2> QED BY <1>6, <2>1, <2>3
<1>8. Service!Piece = len
  <2>1. Service!Piece = Asked
    BY <1>3, Zenon DEF Service!Piece, Asked, Length, At
  <2> QED BY <1>7, <2>1, Zenon
<1>9. PICK n \in 0 .. len :
        /\ \A i \in 1 .. n : buf[i] \notin file.zeros
        /\ n < len => buf[n + 1] \in file.zeros
        /\ out' = out \o SubSeq(buf, 1, n)
  BY <1>4 DEF Return
<1>10. ASSUME NEW i \in totalread .. (totalread + n - 1) PROVE i \notin file.zeros
  <2>1. PICK h : h = i - totalread + 1
    OBVIOUS
  <2>2. h \in 1 .. n /\ h \in 1 .. len /\ totalread + h - 1 = i
    BY <1>5, <1>9, <2>1
  <2> QED BY <1>6, <1>9, <2>2
<1>11. n < len => totalread + n \in file.zeros
  <2> SUFFICES ASSUME n < len PROVE totalread + n \in file.zeros
    OBVIOUS
  <2>1. PICK h : h = n + 1
    OBVIOUS
  <2>2. h \in 1 .. len /\ totalread + h - 1 = totalread + n
    BY <1>5, <2>1
  <2>3. buf[h] \in file.zeros
    BY <1>9, <2>1
  <2> QED BY <1>6, <2>2, <2>3
<1>12. SubSeq(buf, 1, n) = [i \in 1 .. n |-> totalread + i - 1]
  <2>1. SubSeq(buf, 1, n) = [i \in 1 .. n |-> buf[i]]
    BY <1>4, <1>5, Shown
  <2>2. \A i \in 1 .. n : buf[i] = totalread + i - 1
    BY <1>5, <1>6
  <2> QED BY <2>1, <2>2
<1>13. out' = out \o [i \in 1 .. n |-> totalread + i - 1]
  BY <1>9, <1>12, Zenon
<1>14. totalread' = totalread + len
  BY <1>1, <1>4
<1>15. file.zeros' = file.zeros
  BY <1>1
<1>16. /\ \A i \in At .. (At + n - 1) : i \notin file.zeros
       /\ n < Service!Piece => At + n \in file.zeros
       /\ Printed' = Printed \o [i \in 1 .. n |-> At + i - 1]
  BY <1>3, <1>8, <1>10, <1>11, <1>13, Zenon
<1>17. At < Length /\ At' = At + Service!Piece /\ n \in 0 .. Service!Piece
  BY <1>3, <1>7, <1>8, <1>14, Zenon
<1>18. UNCHANGED <<Length, Closed>> /\ ~Closed
  BY <1>3
<1> QED BY <1>15, <1>16, <1>17, <1>18, Zenon
        DEF Service!Print_piece, Length, At, Printed, Closed

LEMMA ServiceClose ==
  ASSUME IInv, EndOfFile, Readable(file)
  PROVE  Service!Close
<1>1. /\ totalread >= file.size /\ pc = "cat" /\ pc' = "closed"
      /\ UNCHANGED <<file, start, out, totalread>>
  BY DEF EndOfFile
<1>2. Readable(file)' <=> Readable(file)
  BY <1>1 DEF Readable
<1>3. At >= Length /\ UNCHANGED <<At, Length, Printed>>
  BY <1>1, <1>2 DEF At, Length, Printed
<1>4. Closed = FALSE /\ Closed' = TRUE
  BY <1>1, <1>2 DEF Closed
<1>5. file.zeros' = file.zeros
  BY <1>1
<1> QED BY <1>3, <1>4, <1>5, Zenon DEF Service!Close, At, Length, Printed, Closed

LEMMA ServiceStep ==
  ASSUME IInv, [Next]_vars
  PROVE  [Service!Next]_(Service!vars)
<1>1. CASE Return
  <2>1. CASE Readable(file)
    BY <1>1, <2>1, ServicePrint DEF Service!Next
  <2>2. CASE ~Readable(file)
    BY <1>1, <2>2, ServiceStutter DEF Return
  <2> QED BY <2>1, <2>2
<1>2. CASE EndOfFile
  <2>1. CASE Readable(file)
    BY <1>2, <2>1, ServiceClose DEF Service!Next
  <2>2. CASE ~Readable(file)
    BY <1>2, <2>2, ServiceStutter DEF EndOfFile
  <2> QED BY <2>1, <2>2
<1>3. CASE Readfile \/ ReadDirect \/ EnterSingle \/ EnterDouble \/ ReadTriple
  <2>1. UNCHANGED <<file, start, out, totalread>> /\ pc # "closed" /\ pc' # "closed"
    BY <1>3 DEF Readfile, ReadDirect, EnterSingle, EnterDouble, ReadTriple, InWhile
  <2> QED BY <2>1, ServiceStutter
<1>4. CASE SingleRound \/ SingleEnds \/ DoubleRound \/ DoubleEnds \/ InnerRound \/ InnerEnds
  <2>1. UNCHANGED <<file, start, out, totalread>> /\ pc # "closed" /\ pc' # "closed"
    BY <1>4 DEF SingleRound, SingleEnds, DoubleRound, DoubleEnds, InnerRound, InnerEnds
  <2> QED BY <2>1, ServiceStutter
<1>5. CASE UNCHANGED vars
  BY <1>5, ServiceStutter DEF vars
<1> QED BY <1>1, <1>2, <1>3, <1>4, <1>5 DEF Next, Step, Spin, Ended

\* Every variable keeps its type, for any file: no call of ext2_read overruns
\* the caller's array and no table is read outside its bounds, wherever the
\* file has holes (lines 443-602).
THEOREM Typing == Spec => []TypeOK
<1>1. IInv => TypeOK
  BY DEF IInv
<1> QED BY <1>1, Inductive, PTL

\* cat passes the bytes of the file from the offset on, once and in order, and
\* prints of each chunk what is before its first zero byte, for every file whose
\* blocks are all present and in front of the triple indirect ones, and every
\* offset (main.c 175-179).
THEOREM Refinement == Spec => ImplementsService
<1>1. IInv /\ [Next]_vars => [Service!Next]_(Service!vars)
  BY ServiceStep
<1> QED BY <1>1, ServiceInit, Inductive, PTL DEF Spec, ImplementsService, Service!Spec
=============================================================================
