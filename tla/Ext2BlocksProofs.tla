-------------------------- MODULE Ext2BlocksProofs --------------------------
(***************************************************************************)
(* How the pointers of Ext2Blocks are followed, for tables of every size.  *)
(***************************************************************************)
EXTENDS Ext2Blocks, TLAPS

LEMMA Bases ==
  /\ Direct \in Nat \ {0} /\ Fan \in Nat \ {0} /\ Fan * Fan \in Nat
  /\ SingleBase \in Nat /\ DoubleBase \in Nat /\ TripleBase \in Nat /\ Span(3) \in Nat
  /\ SingleBase <= DoubleBase /\ DoubleBase <= TripleBase
<1>1. Direct \in Nat \ {0} /\ Fan \in Nat \ {0}
  BY BlocksAssumption
<1>2. PICK f2 : f2 = Fan * Fan
  OBVIOUS
<1>3. PICK f3 : f3 = Fan * Fan * Fan
  OBVIOUS
<1>4. f2 \in Nat
  BY <1>1, <1>2
<1>5. f3 = f2 * Fan
  BY <1>2, <1>3
<1>6. f3 \in Nat
  BY <1>1, <1>4, <1>5
<1>7. Span(3) = f3
  BY <1>3 DEF Span
<1>8. SingleBase = Direct /\ DoubleBase = Direct + Fan /\ TripleBase = Direct + Fan + f2
  BY <1>2 DEF SingleBase, DoubleBase, TripleBase
<1> QED BY <1>1, <1>2, <1>4, <1>6, <1>7, <1>8

LEMMA Spans == Span(0) = 1 /\ Span(1) = Fan /\ Span(2) = Fan * Fan
BY DEF Span

\* A pointer of level 0 or 1 that is not 0 says where its blocks begin, and it
\* is not 0 when the first of them is used.
LEMMA PointerIs ==
  ASSUME NEW used \in SUBSET Nat, NEW n \in Nat, NEW lvl \in 0 .. 1
  PROVE  /\ Pointer(lvl, n, used) # NoBlock => Pointer(lvl, n, used) = <<lvl, n>>
         /\ n \in used => Pointer(lvl, n, used) = <<lvl, n>>
         /\ <<lvl, n>> # NoBlock
<1>1. Span(lvl) \in Nat \ {0}
  BY Spans, Bases
<1>2. n \in used => \E b \in used : n <= b /\ b < n + Span(lvl)
  BY <1>1
<1>3. <<lvl, n>> # NoBlock
  BY DEF NoBlock
<1> QED BY <1>2, <1>3, Zenon DEF Pointer

\* What the tables hold: m blocks behind the first of the table.
LEMMA TableIs ==
  ASSUME NEW used, NEW n \in Nat, NEW m \in 0 .. (Fan - 1)
  PROVE  /\ Pointers(<<1, n>>, used)[m] = Pointer(0, n + m, used)
         /\ Pointers(<<2, n>>, used)[m] = Pointer(1, n + m * Fan, used)
<1>1. Fan \in Nat \ {0} /\ m \in Nat
  BY Bases
<1>2. Pointers(<<1, n>>, used)[m] = Pointer(0, n + m * Span(0), used)
  BY DEF Pointers
<1>3. Pointers(<<2, n>>, used)[m] = Pointer(1, n + m * Span(1), used)
  BY DEF Pointers
<1>4. m * 1 = m
  BY <1>1
<1> QED BY <1>2, <1>3, <1>4, Spans

\* The pointers of the inode.
LEMMA RootIs ==
  ASSUME NEW used \in SUBSET Nat
  PROVE  /\ \A i \in 0 .. (Direct - 1) : i_block(i, used) = Pointer(0, i, used)
         /\ i_block(Direct, used) # NoBlock => i_block(Direct, used) = <<1, SingleBase>>
         /\ i_block(Direct + 1, used) # NoBlock => i_block(Direct + 1, used) = <<2, DoubleBase>>
<1>1. Direct \in Nat
  BY Bases
<1>2. ~(Direct < Direct) /\ ~(Direct + 1 < Direct) /\ Direct + 1 # Direct
  BY <1>1
<1>3. ASSUME NEW i \in 0 .. (Direct - 1) PROVE i_block(i, used) = Pointer(0, i, used)
  <2>1. i < Direct /\ i # Direct /\ i # Direct + 1 /\ i # Direct + 2
    BY <1>1
  <2> QED BY <2>1 DEF i_block
<1>4. i_block(Direct, used) = Pointer(1, SingleBase, used)
  <2>1. Direct # Direct + 1 /\ Direct # Direct + 2
    BY <1>1
  <2> QED BY <1>2, <2>1 DEF i_block
<1>5. i_block(Direct + 1, used) = Pointer(2, DoubleBase, used)
  <2>1. Direct + 1 # Direct + 2
    BY <1>1
  <2> QED BY <1>2, <2>1 DEF i_block
<1>6. Pointer(2, DoubleBase, used) # NoBlock => Pointer(2, DoubleBase, used) = <<2, DoubleBase>>
  BY Zenon DEF Pointer
<1> QED BY <1>3, <1>4, <1>5, <1>6, PointerIs, Bases

\* A row of a table of tables ends where the next one begins.
LEMMA RowEnds ==
  ASSUME NEW m \in 0 .. (Fan - 1)
  PROVE  m * Fan \in Nat /\ m * Fan + Fan = (m + 1) * Fan /\ m * Fan + Fan <= Fan * Fan
<1>1. Fan \in Nat /\ m \in Nat /\ m + 1 <= Fan
  BY Bases
<1>2. m * Fan \in Nat /\ (m + 1) * Fan = m * Fan + Fan
  BY <1>1
<1>3. (m + 1) * Fan <= Fan * Fan
  BY <1>1
<1> QED BY <1>2, <1>3
=============================================================================
