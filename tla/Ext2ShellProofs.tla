-------------------------- MODULE Ext2ShellProofs --------------------------
(***************************************************************************)
(* Proofs about Ext2Shell for every number of direct pointers, every size  *)
(* of a table, every set of images and every set of paths.                 *)
(***************************************************************************)
EXTENDS Ext2Shell, Ext2BlocksProofs, SequenceTheorems, NaturalsInduction, WellFoundedInduction

-----------------------------------------------------------------------------
(* Functions defined by recursion.                                         *)

\* A nonempty set of naturals has a least element.
LEMMA LeastNat ==
  ASSUME NEW S, S \subseteq Nat, S # {}
  PROVE  \E x \in S : \A y \in S : x <= y
<1>1. PICK R : IsWellFoundedOn(R, Nat) /\ \A x, y \in Nat : <<y, x>> \in R <=> y < x
  <2>1. IsWellFoundedOn(OpToRel(<, Nat), Nat)
    BY NatLessThanWellFounded
  <2>2. \A x, y \in Nat : <<y, x>> \in OpToRel(<, Nat) <=> y < x
    BY DEF OpToRel
  <2> QED BY <2>1, <2>2, Zenon
<1>2. PICK x \in S : \A y \in S : ~ (<<y, x>> \in R)
  BY <1>1, WFMin
<1>3. ASSUME NEW y \in S PROVE x <= y
  <2>1. x \in Nat /\ y \in Nat
    OBVIOUS
  <2>2. ~ (y < x)
    BY <1>1, <1>2, <2>1, Zenon
  <2> QED BY <2>1, <2>2
<1> QED BY <1>3

LEMMA MinIsLeast ==
  ASSUME NEW S, S \subseteq Nat, S # {}
  PROVE  Min(S) \in S /\ \A y \in S : Min(S) <= y
BY LeastNat DEF Min

\* What holds of 0, and of each number that follows one of which it holds.
LEMMA UpTo ==
  ASSUME NEW n \in Nat, NEW Good, 0 \in Good,
         \A h \in 0 .. (n - 1) : h \in Good => h + 1 \in Good
  PROVE  0 .. n \subseteq Good
<1> DEFINE Bad == {h \in 0 .. n : h \notin Good}
<1>1. SUFFICES ASSUME Bad # {} PROVE FALSE
  OBVIOUS
<1>2. PICK h \in Bad : \A y \in Bad : h <= y
  <2> HIDE DEF Bad
  <2>1. Bad \subseteq Nat
    BY DEF Bad
  <2> QED BY <1>1, <2>1, LeastNat, Zenon
<1>3. h \in 1 .. n /\ h - 1 \in 0 .. (n - 1) /\ (h - 1) + 1 = h
  OBVIOUS
<1>4. h - 1 \notin Bad
  <2>1. ~ (h <= h - 1)
    BY <1>3
  <2> QED BY <1>2, <2>1, Zenon
<1>5. h - 1 \in Good
  BY <1>3, <1>4
<1> QED BY <1>2, <1>3, <1>5

\* A function by recursion on 0 .. n: first its value at 0, then the step from h - 1
\* to h.
Recursive(f, n, first, step) ==
  /\ f = [h \in 0 .. n |-> f[h]]
  /\ f[0] = first
  /\ \A h \in 1 .. n : f[h] = step[h][f[h - 1]]

LEMMA RecursiveExists ==
  ASSUME NEW n \in Nat, NEW S, NEW first \in S, NEW step \in [1 .. n -> [S -> S]]
  PROVE  \E f \in [0 .. n -> S] : Recursive(f, n, first, step)
<1> DEFINE Good == {m \in 0 .. n : \E f \in [0 .. m -> S] : Recursive(f, m, first, step)}
<1>1. 0 \in Good
  <2> DEFINE f == [h \in 0 .. 0 |-> first]
  <2>1. f \in [0 .. 0 -> S] /\ Recursive(f, 0, first, step)
    BY DEF Recursive
  <2> QED BY <2>1
<1>2. ASSUME NEW m \in 0 .. (n - 1), m \in Good PROVE m + 1 \in Good
  <2>1. PICK f \in [0 .. m -> S] : Recursive(f, m, first, step)
    BY <1>2
  <2> DEFINE g == [h \in 0 .. (m + 1) |-> IF h = m + 1 THEN step[m + 1][f[m]] ELSE f[h]]
  <2>2. m + 1 \in 1 .. n /\ m \in 0 .. m
    OBVIOUS
  <2>3. step[m + 1][f[m]] \in S
    BY <2>2
  <2>4. g \in [0 .. (m + 1) -> S]
    BY <2>3
  <2>5. g[0] = first
    BY <2>1 DEF Recursive
  <2>6. ASSUME NEW h \in 1 .. (m + 1) PROVE g[h] = step[h][g[h - 1]]
    <3>1. CASE h = m + 1
      <4>1. g[h] = step[m + 1][f[m]] /\ h - 1 = m /\ g[m] = f[m]
        BY <3>1
      <4> QED BY <3>1, <4>1
    <3>2. CASE h # m + 1
      <4>1. h \in 1 .. m /\ g[h] = f[h] /\ g[h - 1] = f[h - 1]
        BY <3>2
      <4> QED BY <2>1, <4>1 DEF Recursive
    <3> QED BY <3>1, <3>2
  <2>7. g = [h \in 0 .. (m + 1) |-> g[h]]
    OBVIOUS
  <2> HIDE DEF g
  <2>8. Recursive(g, m + 1, first, step)
    BY <2>5, <2>6, <2>7 DEF Recursive
  <2> QED BY <2>4, <2>8, <2>2
<1> HIDE DEF Good
<1>3. n \in Good
  <2>1. 0 .. n \subseteq Good
    BY <1>1, <1>2, UpTo
  <2> QED BY <2>1
<1> QED BY <1>3 DEF Good
-----------------------------------------------------------------------------
(* What readdir gives to the callback.                                     *)

Inos == Inodes \cup {Removed}
Block == Seq(Entry)

LEMMA BlockIs ==
  ASSUME NEW block \in Block
  PROVE  /\ Len(block) \in Nat /\ DOMAIN block = 1 .. Len(block)
         /\ \A e \in 1 .. Len(block) : block[e] \in Entry /\ block[e].ino \in Inos
<1>1. Len(block) \in Nat /\ DOMAIN block = 1 .. Len(block) /\ \A e \in 1 .. Len(block) : block[e] \in Entry
  BY DEF Block
<1>2. ASSUME NEW x \in Entry PROVE x.ino \in Inos
  BY DEF Entry, Inos
<1> QED BY <1>1, <1>2

\* The inode numbers of the first e entries of known type.
CallbacksStep(block, f) ==
  [e \in 0 .. Len(block) |->
     IF e = 0 THEN << >>
     ELSE IF block[e].typed THEN Append(f[e - 1], block[e].ino) ELSE f[e - 1]]

CallbacksUpto(block, f) ==
  /\ f \in [0 .. Len(block) -> Seq(Inos)]
  /\ f[0] = << >>
  /\ \A e \in 1 .. Len(block) :
       f[e] = IF block[e].typed THEN Append(f[e - 1], block[e].ino) ELSE f[e - 1]

LEMMA CallbacksStepIs ==
  ASSUME NEW block \in Block, NEW f, CallbacksUpto(block, f)
  PROVE  f = CallbacksStep(block, f)
<1>1. Len(block) \in Nat
  BY BlockIs
<1>2. ASSUME NEW e \in 0 .. Len(block) PROVE f[e] = CallbacksStep(block, f)[e]
  <2>1. CASE e = 0
    BY <1>1, <2>1, Zenon DEF CallbacksUpto, CallbacksStep
  <2>2. CASE e # 0
    <3>1. e \in 1 .. Len(block)
      BY <1>1, <2>2
    <3>2. f[e] = IF block[e].typed THEN Append(f[e - 1], block[e].ino) ELSE f[e - 1]
      BY <3>1, Zenon DEF CallbacksUpto
    <3> QED BY <2>2, <3>2, Zenon DEF CallbacksStep
  <2> QED BY <2>1, <2>2
<1>3. f = [e \in 0 .. Len(block) |-> f[e]]
  BY DEF CallbacksUpto
<1>4. CallbacksStep(block, f) = [e \in 0 .. Len(block) |-> CallbacksStep(block, f)[e]]
  BY DEF CallbacksStep
<1> QED BY <1>2, <1>3, <1>4

LEMMA CallbacksIs ==
  ASSUME NEW block \in Block
  PROVE  \E f : CallbacksUpto(block, f) /\ Callbacks(block) = f[Len(block)]
<1>1. Len(block) \in Nat /\ \A e \in 1 .. Len(block) : block[e].ino \in Inos
  BY BlockIs
<1>2. \E f : CallbacksUpto(block, f)
  <2> DEFINE step == [e \in 1 .. Len(block) |-> [s \in Seq(Inos) |->
                        IF block[e].typed THEN Append(s, block[e].ino) ELSE s]]
  <2>1. step \in [1 .. Len(block) -> [Seq(Inos) -> Seq(Inos)]]
    BY <1>1
  <2>2. << >> \in Seq(Inos)
    OBVIOUS
  <2>3. PICK f \in [0 .. Len(block) -> Seq(Inos)] : Recursive(f, Len(block), << >>, step)
    <3> HIDE DEF step
    <3> QED BY <1>1, <2>1, <2>2, RecursiveExists
  <2>4. ASSUME NEW e \in 1 .. Len(block)
        PROVE  f[e] = IF block[e].typed THEN Append(f[e - 1], block[e].ino) ELSE f[e - 1]
    <3>1. e - 1 \in 0 .. Len(block)
      BY <1>1
    <3>2. step[e][f[e - 1]] = IF block[e].typed THEN Append(f[e - 1], block[e].ino) ELSE f[e - 1]
      BY <3>1
    <3> HIDE DEF step
    <3> QED BY <2>3, <3>2 DEF Recursive
  <2> QED BY <2>3, <2>4, Zenon DEF CallbacksUpto, Recursive
<1>3. PICK g : g = CHOOSE f : f = CallbacksStep(block, f)
  OBVIOUS
<1>4. g = CallbacksStep(block, g)
  <2>1. \E f : f = CallbacksStep(block, f)
    BY <1>2, CallbacksStepIs, Zenon
  <2> QED BY <1>3, <2>1, Zenon
<1>5. Callbacks(block) = g[Len(block)]
  BY <1>3, Zenon DEF Callbacks, CallbacksStep
<1>6. g[0] = << >>
  <2>1. CallbacksStep(block, g)[0] = << >>
    BY <1>1 DEF CallbacksStep
  <2> QED BY <1>4, <2>1, Zenon
<1>7. ASSUME NEW e \in 1 .. Len(block)
      PROVE  g[e] = IF block[e].typed THEN Append(g[e - 1], block[e].ino) ELSE g[e - 1]
  <2>1. CallbacksStep(block, g)[e] = IF block[e].typed THEN Append(g[e - 1], block[e].ino) ELSE g[e - 1]
    BY <1>1 DEF CallbacksStep
  <2> QED BY <1>4, <2>1, Zenon
<1> DEFINE Good == {e \in 0 .. Len(block) : g[e] \in Seq(Inos)}
<1>8. 0 \in Good
  <2>1. 0 \in 0 .. Len(block) /\ << >> \in Seq(Inos)
    BY <1>1
  <2> QED BY <1>6, <2>1, Zenon
<1>9. ASSUME NEW e \in 0 .. (Len(block) - 1), e \in Good PROVE e + 1 \in Good
  <2>1. e + 1 \in 1 .. Len(block) /\ (e + 1) - 1 = e /\ e + 1 \in 0 .. Len(block)
    BY <1>1
  <2>2. g[e + 1] = IF block[e + 1].typed THEN Append(g[e], block[e + 1].ino) ELSE g[e]
    BY <1>7, <2>1
  <2>3. Append(g[e], block[e + 1].ino) \in Seq(Inos) /\ g[e] \in Seq(Inos)
    BY <1>1, <1>9, <2>1
  <2>4. g[e + 1] \in Seq(Inos)
    BY <2>2, <2>3, Zenon
  <2> QED BY <2>1, <2>4
<1>10. 0 .. Len(block) \subseteq Good
  <2> HIDE DEF Good
  <2> QED BY <1>1, <1>8, <1>9, UpTo
<1>11. g \in [0 .. Len(block) -> Seq(Inos)]
  <2>1. \A e \in 0 .. Len(block) : g[e] \in Seq(Inos)
    BY <1>10
  <2>2. g = [e \in 0 .. Len(block) |-> CallbacksStep(block, g)[e]]
    BY <1>4 DEF CallbacksStep
  <2>3. g = [e \in 0 .. Len(block) |-> g[e]]
    BY <1>4, <2>2, Zenon
  <2> QED BY <2>1, <2>3
<1> QED BY <1>5, <1>6, <1>7, <1>11, Zenon DEF CallbacksUpto

LEMMA CallbacksType ==
  ASSUME NEW block \in Block
  PROVE  Callbacks(block) \in Seq(Inos)
<1>1. PICK f : CallbacksUpto(block, f) /\ Callbacks(block) = f[Len(block)]
  BY CallbacksIs
<1>2. Len(block) \in 0 .. Len(block)
  BY BlockIs
<1> QED BY <1>1, <1>2 DEF CallbacksUpto

\* When all types are known there is one call for each entry.
LEMMA CallbacksAll ==
  ASSUME NEW block \in Block, \A e \in DOMAIN block : block[e].typed
  PROVE  Callbacks(block) = [e \in DOMAIN block |-> block[e].ino]
<1>1. PICK f : CallbacksUpto(block, f) /\ Callbacks(block) = f[Len(block)]
  BY CallbacksIs
<1>2. PICK n : n = Len(block)
  OBVIOUS
<1>3. n \in Nat /\ DOMAIN block = 1 .. n /\ \A e \in 1 .. n : block[e].ino \in Inos
  BY <1>2, BlockIs
<1> DEFINE Good == {m \in 0 .. n : Len(f[m]) = m /\ \A e \in 1 .. m : f[m][e] = block[e].ino}
<1>4. f \in [0 .. n -> Seq(Inos)] /\ f[0] = << >>
  BY <1>1, <1>2 DEF CallbacksUpto
<1>5. 0 \in Good
  BY <1>3, <1>4
<1>6. ASSUME NEW m \in 0 .. (n - 1), m \in Good PROVE m + 1 \in Good
  <2>1. m + 1 \in 1 .. n /\ (m + 1) - 1 = m /\ m \in 0 .. n
    BY <1>3
  <2>2. block[m + 1].typed
    BY <1>3, <2>1
  <2>3. f[m + 1] = Append(f[m], block[m + 1].ino)
    BY <1>1, <1>2, <2>1, <2>2 DEF CallbacksUpto
  <2>4. f[m] \in Seq(Inos) /\ Len(f[m]) = m /\ block[m + 1].ino \in Inos
    BY <1>3, <1>4, <1>6, <2>1
  <2>5. Len(f[m + 1]) = m + 1 /\ f[m + 1][m + 1] = block[m + 1].ino
    BY <2>3, <2>4
  <2>6. ASSUME NEW e \in 1 .. m PROVE f[m + 1][e] = block[e].ino
    BY <1>6, <2>3, <2>4
  <2>7. ASSUME NEW e \in 1 .. (m + 1) PROVE f[m + 1][e] = block[e].ino
    <3>1. e = m + 1 \/ e \in 1 .. m
      BY <2>1
    <3> QED BY <2>5, <2>6, <3>1
  <2> QED BY <2>1, <2>5, <2>7
<1> HIDE DEF Good
<1>7. 0 .. n \subseteq Good
  BY <1>3, <1>5, <1>6, UpTo
<1>8. n \in Good
  BY <1>3, <1>7
<1>9. f[n] \in Seq(Inos) /\ Len(f[n]) = n /\ \A e \in 1 .. n : f[n][e] = block[e].ino
  BY <1>3, <1>4, <1>8 DEF Good
<1>10. f[n] = [e \in 1 .. n |-> block[e].ino]
  BY <1>9
<1> QED BY <1>1, <1>2, <1>3, <1>10
-----------------------------------------------------------------------------
(* The entries of a directory, block after block.                          *)

\* The entries of the first h blocks.
FlattenUpto(blocks, f) ==
  /\ f \in [0 .. Len(blocks) -> Block]
  /\ f[0] = << >>
  /\ \A h \in 1 .. Len(blocks) : f[h] = f[h - 1] \o blocks[h]

FlattenStep(blocks, f) ==
  [h \in 1 .. Len(blocks) |-> IF h = 1 THEN blocks[h] ELSE f[h - 1] \o blocks[h]]

LEMMA BlocksAre ==
  ASSUME NEW blocks \in Seq(Block)
  PROVE  /\ Len(blocks) \in Nat /\ DOMAIN blocks = 1 .. Len(blocks)
         /\ \A h \in 1 .. Len(blocks) : blocks[h] \in Block
OBVIOUS

LEMMA Joined ==
  ASSUME NEW s \in Block, NEW t \in Block
  PROVE  s \o t \in Block
BY DEF Block

LEMMA FlattenExists ==
  ASSUME NEW blocks \in Seq(Block)
  PROVE  \E f : FlattenUpto(blocks, f)
<1>1. Len(blocks) \in Nat /\ \A h \in 1 .. Len(blocks) : blocks[h] \in Block
  BY BlocksAre
<1> DEFINE step == [h \in 1 .. Len(blocks) |-> [s \in Block |-> s \o blocks[h]]]
<1>2. step \in [1 .. Len(blocks) -> [Block -> Block]]
  BY <1>1, Joined
<1>3. << >> \in Block
  BY DEF Block
<1>4. PICK f \in [0 .. Len(blocks) -> Block] : Recursive(f, Len(blocks), << >>, step)
  <2> HIDE DEF step
  <2> QED BY <1>1, <1>2, <1>3, RecursiveExists
<1>5. ASSUME NEW h \in 1 .. Len(blocks) PROVE f[h] = f[h - 1] \o blocks[h]
  <2>1. h - 1 \in 0 .. Len(blocks)
    BY <1>1
  <2>2. step[h][f[h - 1]] = f[h - 1] \o blocks[h]
    BY <2>1
  <2> HIDE DEF step
  <2> QED BY <1>4, <2>2 DEF Recursive
<1> QED BY <1>4, <1>5, Zenon DEF FlattenUpto, Recursive

\* FlattenSeq is the last of them.
LEMMA FlattenIs ==
  ASSUME NEW blocks \in Seq(Block)
  PROVE  \E f : FlattenUpto(blocks, f) /\ FlattenSeq(blocks) = f[Len(blocks)]
<1>1. Len(blocks) \in Nat /\ \A h \in 1 .. Len(blocks) : blocks[h] \in Block
  BY BlocksAre
<1>2. PICK f : FlattenUpto(blocks, f)
  BY FlattenExists
<1>3. CASE Len(blocks) = 0
  <2>1. blocks = << >>
    BY <1>3
  <2>2. FlattenSeq(blocks) = << >>
    BY <1>3, <2>1, Zenon DEF FlattenSeq
  <2> QED BY <1>2, <1>3, <2>2, Zenon DEF FlattenUpto
<1>4. CASE Len(blocks) # 0
  <2>1. \E e : e = FlattenStep(blocks, e)
    <3> DEFINE e == [h \in 1 .. Len(blocks) |-> f[h]]
    <3>1. ASSUME NEW h \in 1 .. Len(blocks) PROVE e[h] = FlattenStep(blocks, e)[h]
      <4>1. e[h] = f[h - 1] \o blocks[h]
        BY <1>2 DEF FlattenUpto
      <4>2. CASE h = 1
        <5>1. f[h - 1] = << >> /\ blocks[h] \in Seq(Entry)
          BY <1>1, <1>2, <4>2 DEF FlattenUpto, Block
        <5>2. << >> \o blocks[h] = blocks[h]
          BY <5>1, ConcatEmptySeq
        <5>3. FlattenStep(blocks, e)[h] = blocks[h]
          BY <4>2 DEF FlattenStep
        <5> QED BY <4>1, <5>1, <5>2, <5>3, Zenon
      <4>3. CASE h # 1
        <5>1. h - 1 \in 1 .. Len(blocks)
          BY <1>1, <4>3
        <5>2. e[h - 1] = f[h - 1]
          BY <5>1
        <5> HIDE DEF e
        <5>3. FlattenStep(blocks, e)[h] = e[h - 1] \o blocks[h]
          BY <4>3 DEF FlattenStep
        <5> QED BY <4>1, <5>2, <5>3, Zenon
      <4> QED BY <4>2, <4>3
    <3>2. e = [h \in 1 .. Len(blocks) |-> e[h]]
      OBVIOUS
    <3> HIDE DEF e
    <3>3. FlattenStep(blocks, e) = [h \in 1 .. Len(blocks) |-> FlattenStep(blocks, e)[h]]
      BY DEF FlattenStep
    <3>4. e = FlattenStep(blocks, e)
      BY <3>1, <3>2, <3>3
    <3> QED BY <3>4, Zenon
  <2>2. PICK g : g = CHOOSE e : e = FlattenStep(blocks, e)
    OBVIOUS
  <2>3. g = FlattenStep(blocks, g)
    BY <2>1, <2>2, Zenon
  <2>4. FlattenSeq(blocks) = g[Len(blocks)]
    BY <1>4, <2>2, Zenon DEF FlattenSeq, FlattenStep
  <2> DEFINE Good == {h \in 0 .. Len(blocks) : h # 0 => g[h] = f[h]}
  <2>5. 0 \in Good
    BY <1>1
  <2>6. ASSUME NEW h \in 0 .. (Len(blocks) - 1), h \in Good PROVE h + 1 \in Good
    <3>1. h + 1 \in 1 .. Len(blocks) /\ (h + 1) - 1 = h /\ h + 1 \in 0 .. Len(blocks)
      BY <1>1
    <3>2. f[h + 1] = f[h] \o blocks[h + 1]
      BY <1>2, <3>1 DEF FlattenUpto
    <3>3. CASE h = 0
      <4>1. FlattenStep(blocks, g)[1] = blocks[1]
        BY <3>1, <3>3 DEF FlattenStep
      <4>2. f[0] = << >> /\ blocks[1] \in Seq(Entry)
        BY <1>1, <1>2, <3>1, <3>3 DEF FlattenUpto, Block
      <4>3. << >> \o blocks[1] = blocks[1]
        BY <4>2, ConcatEmptySeq
      <4>4. g[1] = f[1]
        BY <2>3, <3>2, <3>3, <4>1, <4>2, <4>3
      <4> QED BY <3>1, <3>3, <4>4
    <3>4. CASE h # 0
      <4>1. FlattenStep(blocks, g)[h + 1] = g[h] \o blocks[h + 1]
        <5>1. h + 1 # 1
          BY <3>4
        <5> QED BY <3>1, <5>1 DEF FlattenStep
      <4>2. g[h] = f[h]
        BY <2>6, <3>4
      <4>3. g[h + 1] = f[h + 1]
        BY <2>3, <3>2, <4>1, <4>2, Zenon
      <4> QED BY <3>1, <4>3
    <3> QED BY <3>3, <3>4
  <2> HIDE DEF Good
  <2>7. 0 .. Len(blocks) \subseteq Good
    BY <1>1, <2>5, <2>6, UpTo
  <2>8. Len(blocks) \in Good
    BY <1>1, <2>7
  <2>9. g[Len(blocks)] = f[Len(blocks)]
    BY <1>4, <2>8, Zenon DEF Good
  <2> QED BY <1>2, <2>4, <2>9, Zenon
<1> QED BY <1>3, <1>4

\* The entries of the first blocks of a directory, by how many blocks they are.
Flat(blocks) == CHOOSE f : FlattenUpto(blocks, f) /\ FlattenSeq(blocks) = f[Len(blocks)]

LEMMA FlatIs ==
  ASSUME NEW blocks \in Seq(Block)
  PROVE  FlattenUpto(blocks, Flat(blocks)) /\ FlattenSeq(blocks) = Flat(blocks)[Len(blocks)]
BY FlattenIs, Zenon DEF Flat

\* The inode numbers of entries.
Numbers(entries) == [e \in DOMAIN entries |-> entries[e].ino]

LEMMA NumbersType ==
  ASSUME NEW s \in Block
  PROVE  /\ Numbers(s) \in Seq(Inos) /\ Len(Numbers(s)) = Len(s)
         /\ \A e \in 1 .. Len(s) : Numbers(s)[e] = s[e].ino
<1>1. PICK n : n = Len(s)
  OBVIOUS
<1>2. n \in Nat /\ DOMAIN s = 1 .. n /\ \A e \in 1 .. n : s[e].ino \in Inos
  BY <1>1, BlockIs
<1>3. Numbers(s) = [e \in 1 .. n |-> s[e].ino]
  BY <1>2, Zenon DEF Numbers
<1> QED BY <1>1, <1>2, <1>3

LEMMA NumbersJoin ==
  ASSUME NEW s \in Block, NEW t \in Block
  PROVE  Numbers(s \o t) = Numbers(s) \o Numbers(t)
<1>1. s \o t \in Block
  BY Joined
<1>2. s \in Seq(Entry) /\ t \in Seq(Entry)
  BY DEF Block
<1>3. /\ Len(s \o t) = Len(s) + Len(t)
      /\ \A e \in 1 .. (Len(s) + Len(t)) : (s \o t)[e] = IF e <= Len(s) THEN s[e] ELSE t[e - Len(s)]
  BY <1>2, ConcatProperties, Zenon
<1>4. /\ Numbers(s) \in Seq(Inos) /\ Numbers(t) \in Seq(Inos) /\ Numbers(s \o t) \in Seq(Inos)
      /\ Len(Numbers(s)) = Len(s) /\ Len(Numbers(t)) = Len(t) /\ Len(Numbers(s \o t)) = Len(s) + Len(t)
  BY <1>1, <1>3, NumbersType
<1>5. PICK a, b : a = Len(s) /\ b = Len(t)
  OBVIOUS
<1>6. a \in Nat /\ b \in Nat
  BY <1>5, BlockIs
<1>7. /\ Numbers(s) \o Numbers(t) \in Seq(Inos)
      /\ Len(Numbers(s) \o Numbers(t)) = a + b
      /\ \A e \in 1 .. (a + b) :
           (Numbers(s) \o Numbers(t))[e] = IF e <= a THEN Numbers(s)[e] ELSE Numbers(t)[e - a]
  <2>1. PICK u, v : u = Numbers(s) /\ v = Numbers(t)
    OBVIOUS
  <2>2. u \in Seq(Inos) /\ v \in Seq(Inos) /\ Len(u) = a /\ Len(v) = b
    BY <1>4, <1>5, <2>1
  <2>3. /\ u \o v \in Seq(Inos) /\ Len(u \o v) = Len(u) + Len(v)
        /\ \A e \in 1 .. (Len(u) + Len(v)) :
             (u \o v)[e] = IF e <= Len(u) THEN u[e] ELSE v[e - Len(u)]
    BY <2>2, ConcatProperties, Zenon
  <2> QED BY <2>1, <2>2, <2>3, Zenon
<1>8. ASSUME NEW e \in 1 .. (a + b)
      PROVE  Numbers(s \o t)[e] = (Numbers(s) \o Numbers(t))[e]
  <2>1. Numbers(s \o t)[e] = (s \o t)[e].ino
    BY <1>1, <1>3, <1>5, NumbersType
  <2>2. CASE e <= a
    <3>1. e \in 1 .. Len(s)
      BY <1>5, <1>6, <2>2
    <3> QED BY <1>3, <1>5, <1>7, <2>1, <2>2, <3>1, NumbersType
  <2>3. CASE ~ (e <= a)
    <3>1. e - a \in 1 .. Len(t)
      BY <1>5, <1>6, <2>3
    <3> QED BY <1>3, <1>5, <1>7, <2>1, <2>3, <3>1, NumbersType
  <2> QED BY <2>2, <2>3
<1>9. PICK x, y : x = Numbers(s \o t) /\ y = Numbers(s) \o Numbers(t)
  OBVIOUS
<1>10. x \in Seq(Inos) /\ y \in Seq(Inos) /\ Len(x) = a + b /\ Len(y) = a + b
  BY <1>4, <1>5, <1>7, <1>9
<1>11. \A e \in 1 .. Len(x) : x[e] = y[e]
  BY <1>8, <1>9, <1>10
<1>12. x = y
  BY <1>10, <1>11, SeqEqual
<1> QED BY <1>9, <1>12
-----------------------------------------------------------------------------
(* Where a path leads to.                                                  *)

Known == Inodes \cup {NULL}

LEMMA ImageIs ==
  ASSUME image \in Images
  PROVE  /\ image.kind \in [Inodes -> Kinds] /\ image.dirs \in [Inodes -> Seq(Block)]
         /\ image.kind[RootIno] = "dir" /\ RootIno \in Inodes
         /\ \A n \in Inodes : image.dirs[n] \in Seq(Block)
         /\ \A n \in Inodes : image.kind[n] = "empty" => image.dirs[n] = << >>
<1>1. image \in ImageType
  BY ConstantsAssumption
<1>2. image.kind \in [Inodes -> Kinds] /\ image.dirs \in [Inodes -> Seq(Block)]
  BY <1>1 DEF ImageType, Block
<1>3. image.kind[RootIno] = "dir" /\ \A n \in Inodes : image.kind[n] = "empty" => image.dirs[n] = << >>
  BY ConstantsAssumption
<1> QED BY <1>2, <1>3 DEF RootIno, Inodes

LEMMA Numbering == NULL \notin Inodes /\ Removed \notin Inodes /\ NULL # Removed /\ RootIno # NULL /\ RootIno # Removed
BY DEF NULL, Removed, RootIno, Inodes

LEMMA LookupKnown ==
  ASSUME image \in Images, NEW n \in Inodes, NEW name
  PROVE  Lookup(n, name) \in Known
<1> DEFINE blocks == {b \in DOMAIN image.dirs[n] : Hits(n, name, b) # {}}
<1>1. Lookup(n, name) = IF image.kind[n] # "dir" \/ blocks = {} THEN NULL
                        ELSE image.dirs[n][Min(blocks)][Min(Hits(n, name, Min(blocks)))].ino
  BY Zenon DEF Lookup
<1>2. CASE image.kind[n] # "dir" \/ blocks = {}
  BY <1>1, <1>2 DEF Known
<1>3. CASE ~ (image.kind[n] # "dir" \/ blocks = {})
  <2>1. image.dirs[n] \in Seq(Block)
    BY ImageIs
  <2>2. blocks # {} /\ blocks \subseteq Nat
    BY <1>3, <2>1, BlocksAre
  <2> PICK first : first = Min(blocks)
    OBVIOUS
  <2>3. first \in DOMAIN image.dirs[n] /\ Hits(n, name, first) # {}
    <3> HIDE DEF blocks
    <3>1. first \in blocks
      BY <2>2, MinIsLeast
    <3> QED BY <3>1 DEF blocks
  <2> DEFINE hits == Hits(n, name, first)
  <2>4. image.dirs[n][first] \in Block
    BY <2>1, <2>3, BlocksAre
  <2>5. hits # {} /\ hits \subseteq Nat
    <3>1. \A e \in hits : e \in DOMAIN image.dirs[n][first]
      BY Zenon DEF Hits
    <3>2. DOMAIN image.dirs[n][first] = 1 .. Len(image.dirs[n][first])
      BY <2>4, BlockIs
    <3>3. Len(image.dirs[n][first]) \in Nat
      BY <2>4, BlockIs
    <3> HIDE DEF hits, blocks
    <3>4. ASSUME NEW e \in hits PROVE e \in Nat
      <4>1. e \in 1 .. Len(image.dirs[n][first])
        BY <3>1, <3>2, Zenon
      <4> QED BY <3>3, <4>1
    <3> QED BY <2>3, <3>4, Zenon DEF hits
  <2> PICK e : e = Min(hits)
    OBVIOUS
  <2>6. e \in hits
    <3> HIDE DEF hits
    <3> QED BY <2>5, MinIsLeast
  <2>7. e \in DOMAIN image.dirs[n][first] /\ image.dirs[n][first][e].ino # Removed
    BY <2>6 DEF Hits
  <2>8. image.dirs[n][first][e].ino \in Inos
    BY <2>4, <2>7, BlockIs
  <2>9. Lookup(n, name) = image.dirs[n][first][e].ino
    <3> HIDE DEF blocks
    <3> QED BY <1>1, <1>3, Zenon
  <2> QED BY <2>7, <2>8, <2>9 DEF Known, Inos
<1> QED BY <1>2, <1>3

\* The inode after h names of a path.
WalkStep(p, f) ==
  [h \in 0 .. Len(p) |->
     IF h = 0 THEN RootIno
     ELSE IF f[h - 1] = NULL THEN NULL ELSE Lookup(f[h - 1], p[h])]

LEMMA WalkIs ==
  ASSUME image \in Images, NEW p \in Seq(Names)
  PROVE  /\ Walk(p) \in [0 .. Len(p) -> Known]
         /\ Walk(p)[0] = RootIno
         /\ \A h \in 1 .. Len(p) :
              Walk(p)[h] = IF Walk(p)[h - 1] = NULL THEN NULL ELSE Lookup(Walk(p)[h - 1], p[h])
<1>1. Len(p) \in Nat
  OBVIOUS
<1> DEFINE step == [h \in 1 .. Len(p) |-> [s \in Known |-> IF s = NULL THEN NULL ELSE Lookup(s, p[h])]]
<1>2. step \in [1 .. Len(p) -> [Known -> Known]]
  <2>1. ASSUME NEW h \in 1 .. Len(p), NEW s \in Known
        PROVE  (IF s = NULL THEN NULL ELSE Lookup(s, p[h])) \in Known
    BY LookupKnown DEF Known
  <2> QED BY <2>1
<1>3. RootIno \in Known
  BY ImageIs DEF Known
<1>4. PICK f \in [0 .. Len(p) -> Known] : Recursive(f, Len(p), RootIno, step)
  <2> HIDE DEF step
  <2> QED BY <1>1, <1>2, <1>3, RecursiveExists
<1>5. f = WalkStep(p, f)
  <2>1. ASSUME NEW h \in 0 .. Len(p) PROVE f[h] = WalkStep(p, f)[h]
    <3>1. CASE h = 0
      BY <1>1, <1>4, <3>1, Zenon DEF Recursive, WalkStep
    <3>2. CASE h # 0
      <4>1. h \in 1 .. Len(p) /\ h - 1 \in 0 .. Len(p)
        BY <1>1, <3>2
      <4>2. f[h] = step[h][f[h - 1]] /\ f[h - 1] \in Known
        <5> HIDE DEF step
        <5> QED BY <1>4, <4>1 DEF Recursive
      <4>3. step[h][f[h - 1]] = IF f[h - 1] = NULL THEN NULL ELSE Lookup(f[h - 1], p[h])
        BY <4>1, <4>2
      <4> HIDE DEF step
      <4> QED BY <3>2, <4>2, <4>3, Zenon DEF WalkStep
    <3> QED BY <3>1, <3>2
  <2>2. f = [h \in 0 .. Len(p) |-> f[h]]
    BY <1>4
  <2>3. WalkStep(p, f) = [h \in 0 .. Len(p) |-> WalkStep(p, f)[h]]
    BY DEF WalkStep
  <2> QED BY <2>1, <2>2, <2>3
<1> PICK g : g = CHOOSE e : e = WalkStep(p, e)
  OBVIOUS
<1>6. g = WalkStep(p, g)
  <2>1. \E e : e = WalkStep(p, e)
    BY <1>5, Zenon
  <2> QED BY <2>1, Zenon
<1>7. Walk(p) = g
  BY Zenon DEF Walk, WalkStep
<1>8. g[0] = RootIno
  <2>1. WalkStep(p, g)[0] = RootIno
    BY <1>1 DEF WalkStep
  <2> QED BY <1>6, <2>1, Zenon
<1>9. ASSUME NEW h \in 1 .. Len(p)
      PROVE  g[h] = IF g[h - 1] = NULL THEN NULL ELSE Lookup(g[h - 1], p[h])
  <2>1. WalkStep(p, g)[h] = IF g[h - 1] = NULL THEN NULL ELSE Lookup(g[h - 1], p[h])
    BY <1>1 DEF WalkStep
  <2> QED BY <1>6, <2>1, Zenon
<1> DEFINE Good == {h \in 0 .. Len(p) : g[h] \in Known}
<1>10. 0 \in Good
  BY <1>1, <1>3, <1>8
<1>11. ASSUME NEW h \in 0 .. (Len(p) - 1), h \in Good PROVE h + 1 \in Good
  <2>1. h + 1 \in 1 .. Len(p) /\ (h + 1) - 1 = h /\ h + 1 \in 0 .. Len(p)
    BY <1>1
  <2>2. g[h + 1] = IF g[h] = NULL THEN NULL ELSE Lookup(g[h], p[h + 1])
    BY <1>9, <2>1
  <2>3. g[h] \in Known
    BY <1>11
  <2>4. g[h + 1] \in Known
    BY <2>2, <2>3, LookupKnown DEF Known
  <2> QED BY <2>1, <2>4
<1>12. 0 .. Len(p) \subseteq Good
  <2> HIDE DEF Good
  <2> QED BY <1>1, <1>10, <1>11, UpTo
<1>13. g \in [0 .. Len(p) -> Known]
  <2>1. \A h \in 0 .. Len(p) : g[h] \in Known
    BY <1>12
  <2>2. g = [h \in 0 .. Len(p) |-> WalkStep(p, g)[h]]
    BY <1>6 DEF WalkStep
  <2>3. g = [h \in 0 .. Len(p) |-> g[h]]
    BY <1>6, <2>2, Zenon
  <2> QED BY <2>1, <2>3
<1> QED BY <1>7, <1>8, <1>9, <1>13

\* A name that is not found ends the walk.
LEMMA NullStays ==
  ASSUME image \in Images, NEW p \in Seq(Names), NEW h \in 0 .. Len(p), Walk(p)[h] = NULL
  PROVE  Resolve(p) = NULL
<1>1. Len(p) \in Nat
  OBVIOUS
<1> DEFINE Good == {m \in 0 .. (Len(p) - h) : Walk(p)[h + m] = NULL}
<1>2. 0 \in Good
  BY <1>1
<1>3. ASSUME NEW m \in 0 .. (Len(p) - h - 1), m \in Good PROVE m + 1 \in Good
  <2>1. h + (m + 1) \in 1 .. Len(p) /\ (h + (m + 1)) - 1 = h + m /\ m + 1 \in 0 .. (Len(p) - h)
    BY <1>1
  <2>2. Walk(p)[h + (m + 1)] = NULL
    BY <1>3, <2>1, WalkIs
  <2> QED BY <2>1, <2>2
<1>4. 0 .. (Len(p) - h) \subseteq Good
  <2> HIDE DEF Good
  <2>1. Len(p) - h \in Nat
    BY <1>1
  <2> QED BY <1>2, <1>3, <2>1, UpTo
<1>5. Len(p) - h \in 0 .. (Len(p) - h) /\ h + (Len(p) - h) = Len(p)
  BY <1>1
<1>6. Walk(p)[h + (Len(p) - h)] = NULL
  BY <1>4, <1>5, Zenon
<1> QED BY <1>5, <1>6, Zenon DEF Resolve

\* No command changes the image.
LEMMA SameImage ==
  ASSUME image' = image
  PROVE  /\ \A n, name : Lookup(n, name)' = Lookup(n, name)
         /\ \A p : Walk(p)' = Walk(p) /\ Resolve(p)' = Resolve(p) /\ Walkable(p)' = Walkable(p)
         /\ \A n : Searchable(n)' = Searchable(n) /\ Used(n)' = Used(n)
<1>1. ASSUME NEW n, NEW name PROVE Lookup(n, name)' = Lookup(n, name)
  <2>1. \A b : Hits(n, name, b)' = Hits(n, name, b)
    BY Zenon DEF Hits
  <2> QED BY <2>1, Zenon DEF Lookup
<1>2. ASSUME NEW p PROVE Walk(p)' = Walk(p)
  BY <1>1, Zenon DEF Walk
<1>3. ASSUME NEW n PROVE Searchable(n)' = Searchable(n)
  BY Zenon DEF Searchable
<1>4. ASSUME NEW n PROVE Used(n)' = Used(n)
  BY Zenon DEF Used
<1>5. ASSUME NEW p PROVE Resolve(p)' = Resolve(p)
  BY <1>2, Zenon DEF Resolve
<1>6. ASSUME NEW p PROVE Walkable(p)' = Walkable(p)
  BY <1>2, <1>3, Zenon DEF Walkable
<1> QED BY <1>1, <1>2, <1>3, <1>4, <1>5, <1>6, Zenon
-----------------------------------------------------------------------------
(* The invariant.                                                          *)

\* A command at work has an inode, and the table holds pointers of the directory that
\* is scanned.
WorkInv ==
  /\ pc \in {"lookup", "readdir", "walked"} => inode \in Inos
  /\ Scanning /\ ind_block # Garbage =>
       \E lvl \in 1 .. 3, n \in Nat : ind_block = Pointers(<<lvl, n>>, Used(inode))

\* A command that got past pathwalk was given a path that names something, and ls lists
\* directories only.
AskedInv ==
  /\ pc = "lookup" => asked \in Paths \ {<< >>}
  /\ pc \in {"walked", "readdir"} \/ (pc = "prompt" /\ answer # "none")
       => asked \in (Paths \ {<< >>}) \cup {Dot}
  /\ pc \in {"lookup", "walked"} => listed = << >>
  /\ pc = "readdir" => cmd = "ls" /\ inode \in Inodes /\ image.kind[inode] = "dir"

\* What strtok has left are the last names of the path.
RestInv ==
  pc = "lookup" =>
    /\ Len(path) \in 1 .. Len(asked)
    /\ \A m \in 1 .. Len(path) : path[m] = asked[Len(asked) - Len(path) + m]

\* The file that the command is about, when its path can be walked.
Target == IF asked = Dot THEN RootIno ELSE Resolve(asked)
Followed == asked = Dot \/ Walkable(asked)

WalkInv ==
  /\ pc = "lookup" /\ Walkable(asked) =>
       inode = Walk(asked)[Len(asked) - Len(path)] /\ inode # NULL
  /\ pc \in {"walked", "readdir"} /\ Followed => inode = Target /\ inode # NULL

\* A directory in which the loop reads nothing but the blocks it has.
Tame(n) == n \in Inodes /\ (image.kind[n] = "empty" \/ Searchable(n))

ScanInv ==
  Scanning /\ Tame(inode) =>
    /\ j <= Direct => j <= Len(image.dirs[inode])
    /\ j >= Direct => Len(image.dirs[inode]) > Direct
    /\ j < Direct => pass = 0
    /\ pass > 0 \/ j > Direct => ind_block = Pointers(<<1, SingleBase>>, Used(inode))

\* Block b has been scanned.
Scanned(b) ==
  \/ b <= Direct /\ b <= j
  \/ j > Direct
  \/ j = Direct /\ pass > 0 /\ b <= Direct + i

\* None of the blocks scanned so far has the name.
MissInv ==
  pc = "lookup" /\ Tame(inode) =>
    \A b \in DOMAIN image.dirs[inode] :
      Scanned(b) => \A e \in DOMAIN image.dirs[inode][b] : image.dirs[inode][b][e].name # Head(path)

\* A directory that ls lists as it should.
Plain(n) ==
  /\ image.kind[n] = "dir" /\ Searchable(n) /\ Len(image.dirs[n]) < Direct
  /\ \A b \in DOMAIN image.dirs[n] : \A e \in DOMAIN image.dirs[n][b] : image.dirs[n][b][e].typed

ListInv ==
  pc = "readdir" /\ Plain(inode) => listed = Numbers(Flat(image.dirs[inode])[j])
-----------------------------------------------------------------------------
(* What a step does.                                                       *)

LEMMA Counters ==
  ASSUME TypeOK
  PROVE  /\ Direct \in Nat \ {0} /\ Fan \in Nat \ {0} /\ Span(2) \in Nat
         /\ j \in 0 .. (Direct + 3) /\ i \in 0 .. Fan /\ pass \in 0 .. Span(2)
         /\ j \in Nat /\ i \in Nat /\ pass \in Nat
<1>1. j \in 0 .. (Direct + 3) /\ i \in 0 .. Fan /\ pass \in 0 .. Span(2)
  BY Zenon DEF TypeOK
<1>2. Span(2) \in Nat
  BY Bases, Spans
<1> QED BY <1>1, <1>2, Bases

LEMMA Matched ==
  ASSUME NEW block \in Block, Matches(block) # {}
  PROVE  /\ FirstMatch(block).ino \in Inos
         /\ Min(Matches(block)) \in Matches(block)
         /\ FirstMatch(block) = block[Min(Matches(block))]
<1>1. \A e \in Matches(block) : e \in DOMAIN block
  BY Zenon DEF Matches
<1>2. DOMAIN block = 1 .. Len(block) /\ Len(block) \in Nat
  BY BlockIs
<1>3. Matches(block) \subseteq Nat
  BY <1>1, <1>2
<1>4. PICK e : e = Min(Matches(block))
  OBVIOUS
<1>5. e \in Matches(block)
  BY <1>3, <1>4, MinIsLeast
<1>6. FirstMatch(block) = block[e]
  BY <1>4, Zenon DEF FirstMatch
<1>7. block[e].ino \in Inos
  BY <1>1, <1>2, <1>5, BlockIs
<1> QED BY <1>4, <1>5, <1>6, <1>7

LEMMA Tables ==
  /\ Garbage = << >> /\ DOMAIN Garbage = {} /\ 0 \in 0 .. (Fan - 1)
  /\ \A block, used : DOMAIN Pointers(block, used) = 0 .. (Fan - 1) /\ Pointers(block, used) # Garbage
<1>1. Garbage = << >> /\ DOMAIN Garbage = {}
  BY DEF Garbage
<1>2. 0 \in 0 .. (Fan - 1)
  BY Bases
<1>3. ASSUME NEW block, NEW used PROVE DOMAIN Pointers(block, used) = 0 .. (Fan - 1)
  BY DEF Pointers
<1> QED BY <1>1, <1>2, <1>3

LEMMA Directory ==
  ASSUME TypeOK, ~ NotADirectory
  PROVE  /\ inode \in Inodes /\ image.kind[inode] \in {"dir", "empty"}
         /\ image.dirs[inode] \in Seq(Block)
         /\ Used(inode) = 0 .. (Len(image.dirs[inode]) - 1) /\ Used(inode) \subseteq Nat
         /\ \A b \in Used(inode) : b + 1 \in DOMAIN image.dirs[inode] /\ image.dirs[inode][b + 1] \in Block
<1>1. inode \in Inodes /\ image.kind[inode] \in {"dir", "empty"}
  BY Zenon DEF NotADirectory
<1>2. image.dirs[inode] \in Seq(Block)
  BY <1>1, ImageIs DEF TypeOK
<1>3. Used(inode) = 0 .. (Len(image.dirs[inode]) - 1) /\ Len(image.dirs[inode]) \in Nat
  BY <1>2 DEF Used
<1> QED BY <1>1, <1>2, <1>3, BlocksAre

\* A pointer to a block of data says which one it is.
LEMMA PointerToData ==
  ASSUME NEW used \in SUBSET Nat, NEW n \in Nat, Pointer(0, n, used) # NoBlock
  PROVE  Pointer(0, n, used) = <<0, n>> /\ n \in used
<1>1. PICK b \in used : n <= b /\ b < n + 1
  BY Spans, Zenon DEF Pointer
<1>2. b = n
  BY <1>1
<1> QED BY <1>1, <1>2, Zenon DEF Pointer

LEMMA DirectBlock ==
  ASSUME TypeOK, ~ NotADirectory, j < Direct, i_block(j, Used(inode)) # NoBlock
  PROVE  i_block(j, Used(inode)) = <<0, j>> /\ j \in Used(inode)
<1>1. j \in Nat /\ j \in 0 .. (Direct - 1)
  BY Counters
<1>2. Used(inode) \in SUBSET Nat
  BY Directory
<1>3. i_block(j, Used(inode)) = Pointer(0, j, Used(inode))
  BY <1>1, <1>2, RootIs
<1> QED BY <1>1, <1>2, <1>3, PointerToData

LEMMA TableBlock ==
  ASSUME TypeOK, WorkInv, TableRead, i < Fan, ind_block[i] # NoBlock, ind_block[i][1] = 0
  PROVE  ind_block[i] = <<0, ind_block[i][2]>> /\ ind_block[i][2] \in Used(inode)
<1>1. i \in 0 .. (Fan - 1) /\ Fan \in Nat
  BY Counters
<1>2. Used(inode) \in SUBSET Nat
  BY Directory DEF TableRead
<1>3. PICK lvl \in 1 .. 3, n \in Nat : ind_block = Pointers(<<lvl, n>>, Used(inode))
  BY DEF WorkInv, TableRead
<1>4. ind_block[i] = Pointer(lvl - 1, n + i * Span(lvl - 1), Used(inode))
  BY <1>1, <1>3 DEF Pointers
<1>5. ind_block[i] = <<lvl - 1, n + i * Span(lvl - 1)>>
  BY <1>4, Zenon DEF Pointer
<1>6. lvl - 1 = 0
  BY <1>5
<1>7. ind_block[i] = Pointer(0, n + i, Used(inode))
  <2>1. i * 1 = i
    BY <1>1
  <2> QED BY <1>4, <1>6, <2>1, Spans
<1>8. ind_block[i] = <<0, n + i>> /\ n + i \in Used(inode)
  <2>1. n + i \in Nat
    BY <1>1
  <2> QED BY <1>2, <1>7, <2>1, PointerToData
<1> QED BY <1>8
\* Block b has the name that is looked up, or it is passed.
Hit(b) ==
  /\ pc = "lookup" /\ Matches(image.dirs[inode][b + 1]) # {}
  /\ Found(FirstMatch(image.dirs[inode][b + 1]).ino)

Passed(b) ==
  /\ pc # "lookup" \/ Matches(image.dirs[inode][b + 1]) = {}
  /\ listed' = IF pc = "readdir" THEN listed \o Callbacks(image.dirs[inode][b + 1]) ELSE listed
  /\ UNCHANGED <<Command, path, inode, answer, pc>>

LEMMA ScanDirectSteps ==
  ASSUME TypeOK, ScanDirect
  PROVE  \/ LeaveLoop /\ j \notin Used(inode)
         \/ j \in Used(inode) /\ Hit(j)
         \/ j \in Used(inode) /\ Passed(j) /\ j' = j + 1 /\ UNCHANGED <<pass, i, ind_block>>
<1>1. ~ NotADirectory /\ j < Direct
  BY Zenon DEF ScanDirect
<1>2. CASE i_block(j, Used(inode)) = NoBlock
  <2>1. LeaveLoop
    BY <1>2, Zenon DEF ScanDirect
  <2>2. j \notin Used(inode)
    <3>1. j \in Nat /\ j \in 0 .. (Direct - 1)
      BY <1>1, Counters
    <3>2. Used(inode) \in SUBSET Nat
      BY <1>1, Directory
    <3>3. i_block(j, Used(inode)) = Pointer(0, j, Used(inode))
      BY <3>1, <3>2, RootIs
    <3> QED BY <1>2, <3>1, <3>2, <3>3, PointerIs
  <2> QED BY <2>1, <2>2
<1>3. CASE i_block(j, Used(inode)) # NoBlock
  <2>1. i_block(j, Used(inode)) = <<0, j>> /\ j \in Used(inode)
    BY <1>1, <1>3, DirectBlock
  <2>2. <<0, j>>[2] = j
    OBVIOUS
  <2>3. ScanBlock(j, j' = j + 1 /\ UNCHANGED <<pass, i, ind_block>>)
    BY <1>3, <2>1, <2>2, Zenon DEF ScanDirect
  <2> QED BY <2>1, <2>3, Zenon DEF ScanBlock, Hit, Passed
<1> QED BY <1>2, <1>3

LEMMA TableRoundSteps ==
  ASSUME TypeOK, WorkInv, TableRound
  PROVE  \/ /\ ind_block[i] = NoBlock
            /\ i' = IF pc = "lookup" THEN i + 1 ELSE Fan
            /\ UNCHANGED <<Command, path, inode, j, pass, ind_block, listed, answer, pc>>
         \/ \E b \in Used(inode) : ind_block[i] = <<0, b>> /\ Hit(b)
         \/ \E b \in Used(inode) :
              ind_block[i] = <<0, b>> /\ Passed(b) /\ i' = i + 1 /\ UNCHANGED <<j, pass, ind_block>>
<1>1. CASE ind_block[i] = NoBlock
  BY <1>1, Zenon DEF TableRound
<1>2. CASE ind_block[i] # NoBlock
  <2>1. TableRead /\ i < Fan /\ ind_block[i][1] = 0
    BY <1>2, Zenon DEF TableRound
  <2>2. ind_block[i] = <<0, ind_block[i][2]>> /\ ind_block[i][2] \in Used(inode)
    BY <1>2, <2>1, TableBlock
  <2> PICK b \in Used(inode) : b = ind_block[i][2]
    BY <2>2
  <2>3. ScanBlock(b, i' = i + 1 /\ UNCHANGED <<j, pass, ind_block>>)
    BY <1>2, Zenon DEF TableRound
  <2> QED BY <2>2, <2>3, Zenon DEF ScanBlock, Hit, Passed
<1> QED BY <1>1, <1>2

-----------------------------------------------------------------------------
(* Types.                                                                  *)

\* The part of TypeOK that the loops leave alone.
TypeFlow ==
  /\ image \in Images
  /\ pc \in {"prompt", "lookup", "readdir", "walked", "exited", "undefined", "corrupted"}
  /\ cmd \in Commands /\ asked \in Paths \cup {Dot, NoPath} /\ path \in Seq(Names)
  /\ pc = "lookup" => path # << >>
  /\ inode \in Inodes \cup {NULL, Removed}
  /\ answer \in {"none", "cannot find", "listing", "status", "target", "numbers", "nothing",
                 "contents", "garbage"}

LEMMA TypeOfLoop ==
  ASSUME TypeOK, UNCHANGED <<image, pc, cmd, asked, path, inode, answer, root_live>>,
         j' \in 0 .. (Direct + 3), pass' \in 0 .. Span(2), i' \in 0 .. Fan,
         ind_block' = Garbage \/ DOMAIN ind_block' = 0 .. (Fan - 1),
         listed' \in Seq(Inos)
  PROVE  TypeOK'
<1>1. TypeFlow /\ root_live \in BOOLEAN
  BY Zenon DEF TypeOK, TypeFlow
<1>2. TypeFlow'
  BY <1>1, Zenon DEF TypeFlow
<1>3. root_live' \in BOOLEAN
  BY <1>1
<1> QED BY <1>2, <1>3, Zenon DEF TypeOK, TypeFlow, Inos

LEMMA Tails ==
  ASSUME NEW s \in Seq(Names), s # << >>
  PROVE  /\ Len(s) \in Nat /\ Len(s) > 0
         /\ Tail(s) \in Seq(Names) /\ Len(Tail(s)) = Len(s) - 1
         /\ \A m \in 1 .. (Len(s) - 1) : Tail(s)[m] = s[m + 1]
         /\ Len(s) > 1 => Tail(s) # << >>
         /\ Head(s) = s[1]
<1>1. Len(s) \in Nat /\ Len(s) > 0
  OBVIOUS
<1>2. Tail(s) \in Seq(Names) /\ Len(Tail(s)) = Len(s) - 1
  BY <1>1, HeadTailProperties
<1>3. \A m \in 1 .. (Len(s) - 1) : Tail(s)[m] = s[m + 1]
  BY <1>1, <1>2
<1>4. Len(s) > 1 => Tail(s) # << >>
  <2>1. PICK t, m : t = Tail(s) /\ m = Len(s)
    OBVIOUS
  <2>2. m \in Nat /\ Len(t) = m - 1
    BY <1>1, <1>2, <2>1, Zenon
  <2>3. m > 1 => t # << >>
    BY <2>2
  <2> QED BY <2>1, <2>3, Zenon
<1> QED BY <1>1, <1>2, <1>3, <1>4

LEMMA HitType ==
  ASSUME TypeOK, ~ NotADirectory, NEW b \in Used(inode), Hit(b)
  PROVE  TypeOK' /\ WorkInv'
<1>1. image.dirs[inode][b + 1] \in Block
  BY Directory
<1> PICK n : n = FirstMatch(image.dirs[inode][b + 1]).ino
  OBVIOUS
<1>2. n \in Inos
  BY <1>1, Matched DEF Hit
<1>3. pc = "lookup" /\ Found(n)
  BY Zenon DEF Hit
<1>4. path \in Seq(Names) /\ path # << >>
  BY <1>3 DEF TypeOK
<1>5. Tail(path) \in Seq(Names) /\ (Len(path) > 1 => Tail(path) # << >>)
  BY <1>4, Tails
<1>6. CASE Len(path) > 1
  <2>1. /\ path' = Tail(path) /\ inode' = n /\ pc' = "lookup"
        /\ j' = 0 /\ pass' = 0 /\ i' = 0 /\ ind_block' = Garbage
        /\ UNCHANGED <<image, cmd, asked, root_live, listed, answer>>
    BY <1>3, <1>6, Zenon DEF Found, StartScan, Command
  <2>2. 0 \in 0 .. (Direct + 3) /\ 0 \in 0 .. Span(2) /\ 0 \in 0 .. Fan
    BY Counters
  <2>3. TypeOK'
    BY <1>2, <1>5, <1>6, <2>1, <2>2, Zenon DEF TypeOK, Inos
  <2> QED BY <1>2, <2>1, <2>3, Zenon DEF WorkInv
<1>7. CASE ~ (Len(path) > 1)
  <2>1. /\ path' = Tail(path) /\ inode' = n /\ pc' = "walked"
        /\ UNCHANGED <<image, cmd, asked, root_live, listed, answer, j, pass, i, ind_block>>
    BY <1>3, <1>7, Zenon DEF Found, scan, Command
  <2>2. TypeOK'
    BY <1>2, <1>5, <2>1, Zenon DEF TypeOK, Inos
  <2>3. WorkInv'
    <3>1. pc' # "lookup" /\ pc' # "readdir"
      BY <2>1
    <3> QED BY <1>2, <2>1, <3>1, Zenon DEF WorkInv, Scanning
  <2> QED BY <2>2, <2>3
<1> QED BY <1>6, <1>7

LEMMA PassedType ==
  ASSUME TypeOK, ~ NotADirectory, NEW b \in Used(inode), Passed(b)
  PROVE  /\ listed' \in Seq(Inos)
         /\ UNCHANGED <<image, cmd, asked, root_live, path, inode, answer, pc>>
<1>1. image.dirs[inode][b + 1] \in Block
  BY Directory
<1>2. Callbacks(image.dirs[inode][b + 1]) \in Seq(Inos)
  BY <1>1, CallbacksType
<1>3. listed \in Seq(Inos)
  BY Zenon DEF TypeOK, Inos
<1>4. listed \o Callbacks(image.dirs[inode][b + 1]) \in Seq(Inos)
  BY <1>2, <1>3, ConcatProperties, Zenon
<1>5. listed' \in Seq(Inos)
  BY <1>3, <1>4, Zenon DEF Passed
<1> QED BY <1>5, Zenon DEF Passed, Command

LEMMA LeaveType ==
  ASSUME TypeOK, LeaveLoop
  PROVE  TypeOK' /\ WorkInv'
<1>1. /\ pc' = "prompt" /\ inode' = NULL /\ answer' \in {"cannot find", "listing"}
      /\ UNCHANGED <<image, cmd, asked, root_live, path, listed, j, pass, i, ind_block>>
  BY Zenon DEF LeaveLoop, NotFound, scan, Command
<1>2. TypeOK'
  <2>1. pc' # "lookup"
    BY <1>1
  <2>2. answer' \in {"none", "cannot find", "listing", "status", "target", "numbers", "nothing",
                     "contents", "garbage"}
    BY <1>1, Zenon
  <2> QED BY <1>1, <2>1, <2>2, Zenon DEF TypeOK
<1> QED BY <1>1, <1>2 DEF WorkInv, Scanning
Answers ==
  {"none", "cannot find", "listing", "status", "target", "numbers", "nothing", "contents", "garbage"}

\* A step that ends the command, or its walk, without another scan.
LEMMA StoppedType ==
  ASSUME TypeOK,
         pc' \in {"prompt", "walked", "exited", "undefined", "corrupted"},
         inode' \in Inos \cup {NULL}, pc' = "walked" => inode' \in Inos,
         listed' \in Seq(Inos), answer' \in Answers,
         root_live' \in BOOLEAN,
         UNCHANGED <<image, cmd, asked, path, j, pass, i, ind_block>>
  PROVE  TypeOK' /\ WorkInv'
<1>1. pc' # "lookup" /\ pc' # "readdir"
  OBVIOUS
<1>2. pc' \in {"prompt", "lookup", "readdir", "walked", "exited", "undefined", "corrupted"}
  OBVIOUS
<1>3. TypeOK'
  BY <1>1, <1>2, Zenon DEF TypeOK, Inos, Answers
<1> QED BY <1>1, <1>3 DEF WorkInv, Scanning

LEMMA ExecuteType ==
  ASSUME TypeOK, NEW c \in Commands, NEW p \in Paths \cup {Dot, NoPath}, Execute(c, p)
  PROVE  TypeOK' /\ WorkInv'
<1>1. /\ cmd' = c /\ asked' = p /\ answer' = "none" /\ listed' = << >>
      /\ UNCHANGED <<image, root_live>>
  BY Zenon DEF Execute
<1>2. << >> \in Seq(Inos) /\ << >> \in Seq(Names) /\ RootIno \in Inos /\ "none" \in Answers
  <2>1. << >> \in Seq(Inos) /\ << >> \in Seq(Names)
    OBVIOUS
  <2>2. RootIno \in Inos
    BY DEF RootIno, Inos, Inodes
  <2> QED BY <2>1, <2>2 DEF Answers
<1>3. CASE p = Dot
  <2>1. pc' = "walked" /\ path' = << >> /\ inode' = RootIno /\ UNCHANGED scan
    BY <1>3, Zenon DEF Execute
  <2>2. TypeOK'
    <3>1. pc' # "lookup"
      BY <2>1
    <3> QED BY <1>1, <1>2, <2>1, <3>1, Zenon DEF TypeOK, Inos, Answers, scan
  <2>3. pc' # "lookup" /\ pc' # "readdir"
    BY <2>1
  <2> QED BY <1>2, <2>1, <2>2, <2>3, Zenon DEF WorkInv, Scanning
<1>4. CASE p # Dot /\ p \in {<< >>, NoPath}
  <2>1. pc' = "undefined" /\ UNCHANGED <<path, inode, scan>>
    BY <1>4, Zenon DEF Execute
  <2>2. TypeOK'
    <3>1. pc' # "lookup"
      BY <2>1
    <3> QED BY <1>1, <1>2, <2>1, <3>1, Zenon DEF TypeOK, Inos, Answers, scan
  <2> QED BY <2>1, <2>2 DEF WorkInv, Scanning
<1>5. CASE p # Dot /\ p \notin {<< >>, NoPath}
  <2>1. path' = p /\ StartScan(RootIno, "lookup")
    BY <1>5, Zenon DEF Execute
  <2>2. inode' = RootIno /\ pc' = "lookup" /\ j' = 0 /\ pass' = 0 /\ i' = 0 /\ ind_block' = Garbage
    BY <2>1, Zenon DEF StartScan
  <2>3. p \in Seq(Names) /\ p # << >>
    BY <1>5, ConstantsAssumption
  <2>4. 0 \in 0 .. (Direct + 3) /\ 0 \in 0 .. Span(2) /\ 0 \in 0 .. Fan
    BY Counters
  <2>5. TypeOK'
    BY <1>1, <1>2, <2>1, <2>2, <2>3, <2>4, Zenon DEF TypeOK, Inos, Answers
  <2> QED BY <1>2, <2>2, <2>5, Zenon DEF WorkInv
<1> QED BY <1>3, <1>4, <1>5

LEMMA LoadType ==
  ASSUME TypeOK, WorkInv, LoadTable
  PROVE  TypeOK' /\ WorkInv'
<1>1. /\ Scanning /\ ~ NotADirectory /\ j \in Direct .. (Direct + 2) /\ pass = 0
      /\ pass' = 1 /\ i' = 0
      /\ UNCHANGED <<image, cmd, asked, root_live, path, inode, j, listed, answer, pc>>
  BY Zenon DEF LoadTable, Command
<1>2. Used(inode)' = Used(inode)
  BY <1>1, SameImage
<1>3. CASE i_block(j, Used(inode)) = NoBlock
  <2>1. ind_block' = ind_block
    BY <1>3, Zenon DEF LoadTable
  <2>2. WorkInv'
    BY <1>1, <1>2, <2>1, Zenon DEF WorkInv, Scanning
  <2>3. TypeOK'
    <3>1. 1 \in 0 .. Span(2) /\ 0 \in 0 .. Fan
      <4>1. Span(2) \in Nat \ {0}
        BY Spans, Bases
      <4> QED BY <4>1, Bases
    <3>2. /\ j \in 0 .. (Direct + 3) /\ listed \in Seq(Inos)
          /\ ind_block = Garbage \/ DOMAIN ind_block = 0 .. (Fan - 1)
      BY Zenon DEF TypeOK, Inos
    <3> QED BY <1>1, <2>1, <3>1, <3>2, TypeOfLoop, Zenon
  <2> QED BY <2>2, <2>3
<1>4. CASE i_block(j, Used(inode)) # NoBlock
  <2>1. ind_block' = Pointers(i_block(j, Used(inode)), Used(inode))
    BY <1>4, Zenon DEF LoadTable
  <2>2. \E lvl \in 1 .. 3, n \in Nat : i_block(j, Used(inode)) = <<lvl, n>>
    <3>1. j = Direct \/ j = Direct + 1 \/ j = Direct + 2
      BY <1>1, Counters
    <3>2. SingleBase \in Nat /\ DoubleBase \in Nat /\ TripleBase \in Nat
      BY Bases
    <3>3. ~ (j < Direct)
      BY <3>1, Counters
    <3>4. \/ i_block(j, Used(inode)) = Pointer(1, SingleBase, Used(inode))
          \/ i_block(j, Used(inode)) = Pointer(2, DoubleBase, Used(inode))
          \/ i_block(j, Used(inode)) = Pointer(3, TripleBase, Used(inode))
      <4>1. Direct # Direct + 1 /\ Direct # Direct + 2 /\ Direct + 1 # Direct + 2
        BY Counters
      <4> QED BY <3>1, <3>3, <4>1 DEF i_block
    <3> QED BY <1>4, <3>2, <3>4 DEF Pointer
  <2>3. WorkInv'
    <3>1. \E lvl \in 1 .. 3, n \in Nat : ind_block' = Pointers(<<lvl, n>>, Used(inode))
      BY <2>1, <2>2, Zenon
    <3>2. inode \in Inos
      BY <1>1, Zenon DEF WorkInv, Scanning
    <3> QED BY <1>1, <1>2, <3>1, <3>2, Zenon DEF WorkInv
  <2>4. TypeOK'
    <3>1. 1 \in 0 .. Span(2) /\ 0 \in 0 .. Fan
      <4>1. Span(2) \in Nat \ {0}
        BY Spans, Bases
      <4> QED BY <4>1, Bases
    <3>2. DOMAIN ind_block' = 0 .. (Fan - 1)
      BY <2>1, Tables
    <3>3. j \in 0 .. (Direct + 3) /\ listed \in Seq(Inos)
      BY Zenon DEF TypeOK, Inos
    <3> QED BY <1>1, <3>1, <3>2, <3>3, TypeOfLoop, Zenon
  <2> QED BY <2>3, <2>4
<1> QED BY <1>3, <1>4

\* The loops go on in the same directory.
LEMMA LoopType ==
  ASSUME TypeOK, WorkInv, Scanning, ~ NotADirectory,
         j' \in 0 .. (Direct + 3), pass' \in 0 .. Span(2), i' \in 0 .. Fan,
         listed' \in Seq(Inos),
         UNCHANGED <<image, cmd, asked, root_live, path, inode, ind_block, answer, pc>>
  PROVE  TypeOK' /\ WorkInv'
<1>1. Used(inode)' = Used(inode)
  BY SameImage
<1>2. WorkInv'
  BY <1>1, Zenon DEF WorkInv, Scanning
<1>3. ind_block = Garbage \/ DOMAIN ind_block = 0 .. (Fan - 1)
  BY Zenon DEF TypeOK
<1>4. TypeOK'
  BY <1>3, TypeOfLoop, Zenon
<1> QED BY <1>2, <1>4

\* A command prints its answer.
LEMMA FinishedType ==
  ASSUME TypeOK, pc' = "prompt", inode' = NULL, listed' \in Seq(Inos), answer' \in Answers,
         root_live' \in BOOLEAN,
         UNCHANGED <<image, cmd, asked, path, j, pass, i, ind_block>>
  PROVE  TypeOK' /\ WorkInv'
<1>1. pc' \in {"prompt", "walked", "exited", "undefined", "corrupted"} /\ pc' # "walked"
  OBVIOUS
<1> QED BY <1>1, StoppedType, Zenon

LEMMA TypeOfFinish ==
  ASSUME TypeOK, NEW text \in Answers, Finish(text), inode \in Inos, listed' = <<inode>>
  PROVE  TypeOK' /\ WorkInv'
<1>1. /\ pc' = "prompt" /\ inode' = NULL /\ answer' = text
      /\ UNCHANGED <<image, cmd, asked, root_live, path, j, pass, i, ind_block>>
  BY Zenon DEF Finish, Command, scan
<1>2. listed' \in Seq(Inos)
  OBVIOUS
<1>3. root_live' \in BOOLEAN
  BY <1>1, Zenon DEF TypeOK
<1> QED BY <1>1, <1>2, <1>3, FinishedType, Zenon

LEMMA TypeNext ==
  ASSUME TypeOK, WorkInv, [Next]_vars
  PROVE  TypeOK' /\ WorkInv'
<1>0. /\ inode \in Inos \cup {NULL} /\ listed \in Seq(Inos) /\ answer \in Answers
      /\ root_live \in BOOLEAN
      /\ pc = "walked" => inode \in Inos
  BY Zenon DEF TypeOK, WorkInv, Inos, Answers
<1>1. CASE \E c \in Commands, p \in Paths \cup {Dot, NoPath} : Execute(c, p)
  BY <1>1, ExecuteType
<1>2. CASE Exit
  <2>1. pc' \in {"prompt", "walked", "exited", "undefined", "corrupted"}
    BY <1>2 DEF Exit
  <2>2. pc' # "walked"
    BY <1>2 DEF Exit
  <2> QED BY <1>0, <1>2, <2>1, <2>2, StoppedType, Zenon DEF Exit, scan
<1>3. CASE Undefined
  <2>1. pc' \in {"prompt", "walked", "exited", "undefined", "corrupted"}
    BY <1>3 DEF Undefined
  <2>2. pc' # "walked"
    BY <1>3 DEF Undefined
  <2> QED BY <1>0, <1>3, <2>1, <2>2, StoppedType, Zenon DEF Undefined, scan, Command
<1>4. CASE ScanDirect
  <2>1. Scanning /\ ~ NotADirectory /\ j < Direct
    BY <1>4, Zenon DEF ScanDirect
  <2>2. CASE LeaveLoop
    BY <2>2, LeaveType
  <2>3. CASE j \in Used(inode) /\ Hit(j)
    BY <2>1, <2>3, HitType
  <2>4. CASE j \in Used(inode) /\ Passed(j) /\ j' = j + 1 /\ UNCHANGED <<pass, i, ind_block>>
    <3>1. /\ listed' \in Seq(Inos)
          /\ UNCHANGED <<image, cmd, asked, root_live, path, inode, answer, pc>>
      BY <2>1, <2>4, PassedType
    <3>2. j + 1 \in 0 .. (Direct + 3) /\ pass \in 0 .. Span(2) /\ i \in 0 .. Fan
      BY <2>1, Counters
    <3> QED BY <2>1, <2>4, <3>1, <3>2, LoopType, Zenon
  <2> QED BY <1>4, <2>2, <2>3, <2>4, ScanDirectSteps
<1>5. CASE LoadTable
  BY <1>5, LoadType
<1>6. CASE TableRound
  <2>1. Scanning /\ ~ NotADirectory /\ i < Fan
    BY <1>6, Zenon DEF TableRound, TableRead
  <2>2. /\ j \in 0 .. (Direct + 3) /\ pass \in 0 .. Span(2)
        /\ i + 1 \in 0 .. Fan /\ Fan \in 0 .. Fan
    BY <2>1, Counters
  <2>3. CASE /\ ind_block[i] = NoBlock
             /\ i' = IF pc = "lookup" THEN i + 1 ELSE Fan
             /\ UNCHANGED <<Command, path, inode, j, pass, ind_block, listed, answer, pc>>
    <3>1. i' \in 0 .. Fan
      BY <2>2, <2>3, Zenon
    <3> QED BY <1>0, <2>1, <2>2, <2>3, <3>1, LoopType, Zenon DEF Command
  <2>4. CASE \E b \in Used(inode) : ind_block[i] = <<0, b>> /\ Hit(b)
    BY <2>1, <2>4, HitType
  <2>5. CASE \E b \in Used(inode) :
               ind_block[i] = <<0, b>> /\ Passed(b) /\ i' = i + 1 /\ UNCHANGED <<j, pass, ind_block>>
    <3> PICK b \in Used(inode) : Passed(b) /\ i' = i + 1 /\ UNCHANGED <<j, pass, ind_block>>
      BY <2>5
    <3>1. /\ listed' \in Seq(Inos)
          /\ UNCHANGED <<image, cmd, asked, root_live, path, inode, answer, pc>>
      BY <2>1, PassedType
    <3> QED BY <2>1, <2>2, <3>1, LoopType, Zenon
  <2> QED BY <1>6, <2>3, <2>4, <2>5, TableRoundSteps
<1>7. CASE TableEnds
  <2>1. /\ Scanning /\ ~ NotADirectory /\ j \in Direct .. (Direct + 2) /\ i' = 0
        /\ UNCHANGED <<image, cmd, asked, root_live, path, inode, ind_block, listed, answer, pc>>
    BY <1>7, Zenon DEF TableEnds, TableRead, Command
  <2>2. 0 \in 0 .. Fan /\ 0 \in 0 .. Span(2) /\ j \in 0 .. (Direct + 3) /\ j + 1 \in 0 .. (Direct + 3)
    BY <2>1, Counters
  <2>3. pass < Passes => pass + 1 \in 0 .. Span(2)
    <3>1. Passes \in {1, Fan, Span(2)}
      <4>1. j - Direct \in 0 .. 2
        BY <2>1, Counters
      <4>2. Span(0) = 1 /\ Span(1) = Fan
        BY Spans
      <4>3. j - Direct = 0 \/ j - Direct = 1 \/ j - Direct = 2
        BY <4>1
      <4> QED BY <4>2, <4>3 DEF Passes
    <3>2. 1 <= Span(2) /\ Fan <= Span(2)
      <4>1. Fan \in Nat \ {0}
        BY Bases
      <4>2. 1 <= Fan * Fan /\ Fan <= Fan * Fan
        BY <4>1
      <4> QED BY <4>2, Spans
    <3>3. PICK s : s = Span(2)
      OBVIOUS
    <3>4. PICK n : n = Passes
      OBVIOUS
    <3>5. s \in Nat /\ n \in Nat /\ n <= s /\ pass \in Nat
      BY <3>1, <3>2, <3>3, <3>4, Counters
    <3>6. pass < n => pass + 1 \in 0 .. s
      BY <3>5
    <3> QED BY <3>3, <3>4, <3>6, Zenon
  <2>4. j' \in 0 .. (Direct + 3) /\ pass' \in 0 .. Span(2)
    <3>1. CASE pass < Passes
      BY <1>7, <2>2, <2>3, <3>1, Zenon DEF TableEnds
    <3>2. CASE ~ (pass < Passes)
      BY <1>7, <2>2, <3>2, Zenon DEF TableEnds
    <3> QED BY <3>1, <3>2
  <2> QED BY <1>0, <2>1, <2>2, <2>4, LoopType, Zenon
<1>8. CASE ScanEnds
  BY <1>8, LeaveType, Zenon DEF ScanEnds
<1>9. CASE ListDir
  <2>1. /\ image.kind[inode] = "dir" /\ inode' = inode
        /\ j' = 0 /\ pass' = 0 /\ i' = 0 /\ ind_block' = Garbage /\ pc' = "readdir"
        /\ UNCHANGED <<image, cmd, asked, root_live, path, listed, answer>>
    BY <1>9, Zenon DEF ListDir, StartScan, Command
  <2>2. 0 \in 0 .. (Direct + 3) /\ 0 \in 0 .. Span(2) /\ 0 \in 0 .. Fan
    BY Counters
  <2>3. TypeOK'
    <3>1. pc' # "lookup"
      BY <2>1
    <3> QED BY <1>0, <2>1, <2>2, <3>1, Zenon DEF TypeOK, Inos
  <2>4. inode' \in Inos
    BY <1>0, <1>9, <2>1, Zenon DEF ListDir, Walked
  <2> QED BY <2>1, <2>3, <2>4, Zenon DEF WorkInv
<1>10. CASE ListOther
  <2>1. /\ pc' = "prompt" /\ answer' = "listing" /\ inode' = NULL
        /\ listed' = IF image.kind[inode] = "link" THEN << >> ELSE <<inode>>
        /\ pc = "walked"
        /\ UNCHANGED <<image, cmd, asked, root_live, path, j, pass, i, ind_block>>
    BY <1>10, Zenon DEF ListOther, Walked, Finish, Command, scan
  <2>2. << >> \in Seq(Inos) /\ <<inode>> \in Seq(Inos)
    BY <1>0, <2>1
  <2>3. listed' \in Seq(Inos)
    BY <2>1, <2>2, Zenon
  <2>4. root_live' \in BOOLEAN /\ "listing" \in Answers
    BY <1>0, <2>1, Zenon DEF Answers
  <2> QED BY <2>1, <2>3, <2>4, FinishedType, Zenon
<1>11. CASE Stat
  BY <1>0, <1>11, TypeOfFinish, Zenon DEF Stat, Walked, Answers
<1>12. CASE Readlink
  BY <1>0, <1>12, TypeOfFinish, Zenon DEF Readlink, Walked, Answers
<1>13. CASE Cat
  <2>1. /\ pc = "walked" /\ pc' = "prompt" /\ inode' = NULL /\ listed' = <<inode>>
        /\ answer' = Contents(inode) /\ root_live' = FALSE
        /\ UNCHANGED <<image, cmd, asked, path, j, pass, i, ind_block>>
    BY <1>13, Zenon DEF Cat, Walked, scan
  <2>2. listed' \in Seq(Inos)
    BY <1>0, <2>1
  <2>3. Contents(inode) \in Answers
    BY DEF Contents, Answers
  <2>4. root_live' \in BOOLEAN
    BY <2>1, Zenon
  <2> QED BY <2>1, <2>2, <2>3, <2>4, FinishedType, Zenon
<1>14. CASE FreeTwice
  <2>1. pc' \in {"prompt", "walked", "exited", "undefined", "corrupted"} /\ pc' # "walked"
    BY <1>14 DEF FreeTwice
  <2> QED BY <1>0, <1>14, <2>1, StoppedType, Zenon DEF FreeTwice, scan, Command
<1>15. CASE BadInode
  <2>1. pc' \in {"prompt", "walked", "exited", "undefined", "corrupted"} /\ pc' # "walked"
    BY <1>15 DEF BadInode
  <2> QED BY <1>0, <1>15, <2>1, StoppedType, Zenon DEF BadInode, scan, Command
<1>16. CASE UNCHANGED vars
  <2>1. UNCHANGED <<image, pc, cmd, asked, path, inode, j, pass, i, ind_block, listed, answer, root_live>>
    BY <1>16, Zenon DEF vars
  <2>2. Used(inode)' = Used(inode)
    BY <2>1, SameImage
  <2>3. /\ j \in 0 .. (Direct + 3) /\ pass \in 0 .. Span(2) /\ i \in 0 .. Fan
        /\ ind_block = Garbage \/ DOMAIN ind_block = 0 .. (Fan - 1)
    BY Zenon DEF TypeOK
  <2>4. TypeOK'
    BY <1>0, <2>1, <2>3, TypeOfLoop, Zenon
  <2> QED BY <2>1, <2>2, <2>4, Zenon DEF WorkInv, Scanning
<1> QED BY <1>1, <1>2, <1>3, <1>4, <1>5, <1>6, <1>7, <1>8, <1>9, <1>10, <1>11, <1>12, <1>13, <1>14,
           <1>15, <1>16, Zenon DEF Next, Work, Ended
LEMMA InitTypes ==
  ASSUME Init
  PROVE  TypeOK /\ WorkInv
<1>1. /\ image \in Images /\ pc \in {"prompt", "corrupted"} /\ cmd = "ls" /\ asked = Dot /\ path = << >>
      /\ inode = NULL /\ j = 0 /\ pass = 0 /\ i = 0 /\ ind_block = Garbage
      /\ listed = << >> /\ answer = "none" /\ root_live = TRUE
  BY Zenon DEF Init
<1>2. 0 \in 0 .. (Direct + 3) /\ 0 \in 0 .. Span(2) /\ 0 \in 0 .. Fan
  <2>1. Span(2) \in Nat
    BY Bases, Spans
  <2> QED BY <2>1, Bases
<1>3. /\ << >> \in Seq(Names) /\ << >> \in Seq(Inos)
      /\ pc # "lookup" /\ pc # "readdir" /\ pc # "walked"
      /\ cmd \in Commands
  BY <1>1 DEF Commands
<1>4. pc \in {"prompt", "lookup", "readdir", "walked", "exited", "undefined", "corrupted"}
  BY <1>1
<1>5. TypeOK
  BY <1>1, <1>2, <1>3, <1>4, Zenon DEF TypeOK, Inos
<1> QED BY <1>3, <1>5, Zenon DEF WorkInv, Scanning

-----------------------------------------------------------------------------
(* The kinds of steps.                                                     *)

\* A block has been scanned, or a table loaded, or its end reached.
Loops ==
  /\ Scanning /\ ~ NotADirectory
  /\ ScanDirect \/ LoadTable \/ TableRound \/ TableEnds
  /\ UNCHANGED <<image, cmd, asked, path, inode, answer, pc>>
  /\ pc = "lookup" => listed' = listed

\* The name is found in block b.
Finds(b) ==
  /\ ~ NotADirectory /\ b \in Used(inode) /\ Hit(b)
  /\ \/ ScanDirect /\ b = j /\ j < Direct
     \/ TableRound /\ TableRead /\ i < Fan /\ ind_block[i] = <<0, b>>

\* The loop over the blocks is left.
Leaves ==
  /\ Scanning /\ ~ NotADirectory /\ LeaveLoop
  /\ \/ ScanDirect /\ j < Direct /\ j \notin Used(inode)
     \/ ScanEnds /\ j = Direct + 3

\* A command prints its answer, or frees the root again.
Prints ==
  /\ pc = "walked"
  /\ \/ pc' = "corrupted" /\ cmd' = "cat" /\ ~ root_live'
     \/ /\ pc' = "prompt" /\ answer' \notin {"none", "cannot find"}
        /\ answer' = "listing" => image.kind[inode] # "dir"
  /\ UNCHANGED <<image, cmd, asked, path>>

\* The behaviour is no longer defined.
Breaks ==
  /\ Undefined \/ BadInode
  /\ pc' = "undefined"
  /\ UNCHANGED <<image, cmd, asked, path, inode, answer>>

Rests ==
  /\ \/ pc' = pc
     \/ pc = "prompt" /\ pc' = "exited"
  /\ UNCHANGED <<image, cmd, asked, path, inode, scan, listed, answer, root_live>>

LEMMA StepKinds ==
  ASSUME TypeOK, WorkInv, [Next]_vars
  PROVE  \/ \E c \in Commands, p \in Paths \cup {Dot, NoPath} : Execute(c, p)
         \/ Loops \/ (\E b : Finds(b)) \/ Leaves \/ ListDir \/ Prints \/ Breaks \/ Rests
<1>0. "lookup" # "readdir"
  OBVIOUS
<1>1. CASE Exit \/ UNCHANGED vars
  BY <1>1, Zenon DEF Exit, vars, Rests, scan
<1>2. CASE Undefined \/ BadInode
  BY <1>2, Zenon DEF Undefined, BadInode, Breaks, Command
<1>3. CASE ScanDirect
  <2>1. Scanning /\ ~ NotADirectory /\ j < Direct
    BY <1>3, Zenon DEF ScanDirect
  <2> QED BY <1>0, <1>3, <2>1, ScanDirectSteps, Zenon DEF Leaves, Finds, Loops, Passed, Command
<1>4. CASE LoadTable
  BY <1>4, Zenon DEF LoadTable, Loops, Command
<1>5. CASE TableRound
  <2>1. Scanning /\ ~ NotADirectory /\ TableRead /\ i < Fan
    BY <1>5, Zenon DEF TableRound, TableRead
  <2>2. CASE \E b \in Used(inode) : ind_block[i] = <<0, b>> /\ Hit(b)
    BY <1>5, <2>1, <2>2, Zenon DEF Finds
  <2>3. CASE ~ \E b \in Used(inode) : ind_block[i] = <<0, b>> /\ Hit(b)
    BY <1>0, <1>5, <2>1, <2>3, TableRoundSteps, Zenon DEF Loops, Passed, Command
  <2> QED BY <2>2, <2>3
<1>6. CASE TableEnds
  BY <1>6, Zenon DEF TableEnds, TableRead, Loops, Command
<1>7. CASE ScanEnds
  BY <1>7, Zenon DEF ScanEnds, Leaves
<1>8. CASE ListOther
  <2>1. /\ pc = "walked" /\ pc' = "prompt" /\ answer' = "listing" /\ image.kind[inode] # "dir"
        /\ UNCHANGED <<image, cmd, asked, path>>
    BY <1>8, Zenon DEF ListOther, Walked, Finish, Command
  <2>2. answer' \notin {"none", "cannot find"}
    BY <2>1
  <2> QED BY <2>1, <2>2, Zenon DEF Prints
<1>9. ASSUME NEW text \in Answers \ {"none", "cannot find", "listing"}, Finish(text), pc = "walked"
      PROVE  Prints
  <2>1. text # "listing" /\ text \notin {"none", "cannot find"}
    BY <1>9, Zenon
  <2> QED BY <1>9, <2>1, Zenon DEF Prints, Finish, Command
<1>10. CASE Stat
  <2>1. "status" \in Answers \ {"none", "cannot find", "listing"}
    BY DEF Answers
  <2> QED BY <1>9, <1>10, <2>1, Zenon DEF Stat, Walked
<1>11. CASE Readlink
  <2>1. {"target", "nothing", "numbers"} \subseteq Answers \ {"none", "cannot find", "listing"}
    BY DEF Answers
  <2> QED BY <1>9, <1>11, <2>1, Zenon DEF Readlink, Walked
<1>12. Contents(inode) \in Answers \ {"none", "cannot find", "listing"}
  BY DEF Contents, Answers
<1>13. CASE Cat
  <2>1. pc = "walked" /\ pc' = "prompt" /\ answer' = Contents(inode) /\ UNCHANGED <<image, cmd, asked, path>>
    BY <1>13, Zenon DEF Cat, Walked
  <2> QED BY <1>12, <2>1, Zenon DEF Prints
<1>14. CASE FreeTwice
  BY <1>14, Zenon DEF FreeTwice, Walked, Prints, Command
<1> QED BY <1>1, <1>2, <1>3, <1>4, <1>5, <1>6, <1>7, <1>8, <1>10, <1>11, <1>13, <1>14,
           Zenon DEF Next, Work, Ended
-----------------------------------------------------------------------------
(* What is found is what the directory says.                               *)

LEMMA TameTable ==
  ASSUME TypeOK, ScanInv, TableRead, i < Fan, Tame(inode)
  PROVE  /\ ind_block[i] = Pointer(0, Direct + i, Used(inode))
         /\ ind_block[i] # NoBlock => ind_block[i] = <<0, Direct + i>> /\ Direct + i \in Used(inode)
         /\ Direct + i \in Used(inode) => ind_block[i] # NoBlock
<1>1. Scanning /\ ~ NotADirectory /\ pass > 0
  BY Zenon DEF TableRead
<1>2. ind_block = Pointers(<<1, SingleBase>>, Used(inode))
  BY <1>1, Zenon DEF ScanInv
<1>3. i \in 0 .. (Fan - 1) /\ Direct \in Nat /\ Direct + i \in Nat
  BY Counters
<1>4. SingleBase = Direct
  BY DEF SingleBase
<1>5. ind_block[i] = Pointer(0, Direct + i, Used(inode))
  BY <1>2, <1>3, <1>4, TableIs
<1>6. Used(inode) \in SUBSET Nat
  BY <1>1, Directory
<1> QED BY <1>3, <1>5, <1>6, PointerToData, PointerIs

LEMMA TameHas ==
  ASSUME TypeOK, ~ NotADirectory, Tame(inode), Used(inode) # {}
  PROVE  Searchable(inode)
<1>1. inode \in Inodes /\ Used(inode) = 0 .. (Len(image.dirs[inode]) - 1)
  BY Directory
<1>2. image.kind[inode] # "empty"
  <2>1. SUFFICES ASSUME image.kind[inode] = "empty" PROVE FALSE
    OBVIOUS
  <2>2. image \in Images
    BY Zenon DEF TypeOK
  <2>3. image.dirs[inode] = << >>
    BY <1>1, <2>1, <2>2, ImageIs
  <2>4. Len(image.dirs[inode]) = 0
    BY <2>3
  <2> QED BY <1>1, <2>4
<1> QED BY <1>2, Zenon DEF Tame

LEMMA FoundRight ==
  ASSUME TypeOK, ScanInv, MissInv, NEW b, Finds(b), Tame(inode)
  PROVE  /\ FirstMatch(image.dirs[inode][b + 1]).ino = Lookup(inode, Head(path))
         /\ FirstMatch(image.dirs[inode][b + 1]).ino \in Inodes
<1>1. ~ NotADirectory /\ b \in Used(inode) /\ pc = "lookup" /\ Matches(image.dirs[inode][b + 1]) # {}
  BY Zenon DEF Finds, Hit
<1>2. Searchable(inode)
  BY <1>1, TameHas
<1>3. /\ image.dirs[inode] \in Seq(Block) /\ b \in Nat
      /\ b + 1 \in DOMAIN image.dirs[inode] /\ image.dirs[inode][b + 1] \in Block
  BY <1>1, Directory
<1> PICK block : block = image.dirs[inode][b + 1]
  OBVIOUS
<1> PICK name : name = Head(path)
  OBVIOUS
<1>4. \A c \in DOMAIN image.dirs[inode] : \A e \in DOMAIN image.dirs[inode][c] :
        image.dirs[inode][c][e].closed /\ image.dirs[inode][c][e].ino # Removed
  BY <1>2, Zenon DEF Searchable
<1>5. Matches(block) = Hits(inode, name, b + 1)
  <2>1. \A e \in DOMAIN block : block[e].closed /\ block[e].ino # Removed
    BY <1>3, <1>4, Zenon
  <2>2. Matches(block) = {e \in DOMAIN block : block[e].name = name}
    BY <2>1 DEF Matches
  <2>3. Hits(inode, name, b + 1) = {e \in DOMAIN block : block[e].name = name}
    BY <2>1 DEF Hits
  <2> QED BY <2>2, <2>3
<1> DEFINE blocks == {c \in DOMAIN image.dirs[inode] : Hits(inode, name, c) # {}}
<1>6. b + 1 \in blocks
  BY <1>1, <1>3, <1>5
<1>7. blocks \subseteq Nat
  <2>1. DOMAIN image.dirs[inode] = 1 .. Len(image.dirs[inode]) /\ Len(image.dirs[inode]) \in Nat
    BY <1>3, BlocksAre
  <2>2. DOMAIN image.dirs[inode] \subseteq Nat
    BY <2>1
  <2> QED BY <2>2, Zenon
<1>8. ASSUME NEW c \in blocks PROVE b + 1 <= c
  <2>1. SUFFICES ASSUME ~ (b + 1 <= c) PROVE FALSE
    OBVIOUS
  <2>2. c \in Nat /\ c <= b
    <3> HIDE DEF blocks
    <3> QED BY <1>3, <1>7, <2>1
  <2>3. Scanned(c)
    <3>1. CASE b = j /\ j < Direct
      <4>1. c <= Direct /\ c <= j
        BY <2>2, <3>1, Counters
      <4> QED BY <4>1, Zenon DEF Scanned
    <3>2. CASE TableRead /\ i < Fan /\ ind_block[i] = <<0, b>>
      <4>1. <<0, b>> # NoBlock
        BY DEF NoBlock
      <4>2. <<0, b>> = <<0, Direct + i>>
        BY <3>2, <4>1, TameTable
      <4>3. b = Direct + i
        BY <4>2
      <4>4. j \in Direct .. (Direct + 2) /\ pass > 0
        BY <3>2, Zenon DEF TableRead
      <4>5. c <= Direct + i
        BY <2>2, <4>3, Zenon
      <4>6. j = Direct \/ j > Direct
        BY <4>4, Counters
      <4> QED BY <4>4, <4>5, <4>6, Zenon DEF Scanned
    <3> QED BY <3>1, <3>2, Zenon DEF Finds
  <2>4. \A e \in DOMAIN image.dirs[inode][c] : image.dirs[inode][c][e].name # name
    BY <1>1, <2>3, Zenon DEF MissInv
  <2>5. Hits(inode, name, c) = {}
    BY <2>4 DEF Hits
  <2> QED BY <2>5
<1>9. Min(blocks) = b + 1
  <2> HIDE DEF blocks
  <2>1. Min(blocks) \in blocks /\ Min(blocks) <= b + 1
    BY <1>6, <1>7, MinIsLeast
  <2>2. PICK m : m = Min(blocks)
    OBVIOUS
  <2>3. m \in Nat /\ m <= b + 1 /\ b + 1 <= m
    BY <1>7, <1>8, <2>1, <2>2
  <2>4. m = b + 1
    BY <1>3, <2>3
  <2> QED BY <2>2, <2>4
<1>10. Lookup(inode, name) = image.dirs[inode][b + 1][Min(Hits(inode, name, b + 1))].ino
  <2>1. image.kind[inode] = "dir"
    BY <1>2, Zenon DEF Searchable
  <2>2. Lookup(inode, name) = IF image.kind[inode] # "dir" \/ blocks = {} THEN NULL
                              ELSE image.dirs[inode][Min(blocks)][Min(Hits(inode, name, Min(blocks)))].ino
    BY Zenon DEF Lookup
  <2>3. blocks # {}
    BY <1>6, Zenon
  <2> HIDE DEF blocks
  <2> QED BY <1>9, <2>1, <2>2, <2>3, Zenon
<1>11. FirstMatch(block).ino = Lookup(inode, name)
  <2>1. FirstMatch(block) = block[Min(Matches(block))]
    BY Zenon DEF FirstMatch
  <2> QED BY <1>5, <1>10, <2>1, Zenon
<1>12. FirstMatch(block).ino \in Inodes
  <2>1. /\ FirstMatch(block).ino \in Inos
        /\ Min(Matches(block)) \in Matches(block)
        /\ FirstMatch(block) = block[Min(Matches(block))]
    BY <1>1, <1>3, Matched
  <2>2. \A e \in Matches(block) : block[e].ino # Removed
    BY <1>3, <1>4, Zenon DEF Matches
  <2>3. FirstMatch(block).ino # Removed
    BY <2>1, <2>2, Zenon
  <2> QED BY <2>1, <2>3 DEF Inos
<1> QED BY <1>11, <1>12, Zenon

LEMMA MissedRight ==
  ASSUME TypeOK, ScanInv, MissInv, Leaves, pc = "lookup", Tame(inode)
  PROVE  Lookup(inode, Head(path)) = NULL
<1>1. ~ NotADirectory /\ Scanning
  BY Zenon DEF Leaves
<1>2. /\ image.dirs[inode] \in Seq(Block)
      /\ Used(inode) = 0 .. (Len(image.dirs[inode]) - 1)
      /\ DOMAIN image.dirs[inode] = 1 .. Len(image.dirs[inode]) /\ Len(image.dirs[inode]) \in Nat
  BY <1>1, Directory, BlocksAre
<1> PICK n : n = Len(image.dirs[inode])
  OBVIOUS
<1> PICK name : name = Head(path)
  OBVIOUS
<1>3. ASSUME NEW c \in DOMAIN image.dirs[inode] PROVE Scanned(c)
  <2>1. c \in 1 .. n /\ n \in Nat
    BY <1>2, Zenon
  <2>2. CASE j < Direct /\ j \notin Used(inode)
    <3>1. j <= Direct => j <= n
      BY <1>1, Zenon DEF ScanInv
    <3>2. j \notin 0 .. (n - 1)
      BY <1>2, <2>2, Zenon
    <3>3. c <= Direct /\ c <= j
      BY <2>1, <2>2, <3>1, <3>2, Counters, SMTT(30)
    <3> QED BY <3>3, Zenon DEF Scanned
  <2>3. CASE j = Direct + 3
    <3>1. j > Direct
      BY <2>3, Counters
    <3> QED BY <3>1, Zenon DEF Scanned
  <2> QED BY <2>2, <2>3, Zenon DEF Leaves
<1>4. \A c \in DOMAIN image.dirs[inode] : Hits(inode, name, c) = {}
  <2>1. ASSUME NEW c \in DOMAIN image.dirs[inode] PROVE Hits(inode, name, c) = {}
    <3>1. \A e \in DOMAIN image.dirs[inode][c] : image.dirs[inode][c][e].name # name
      BY <1>3, Zenon DEF MissInv
    <3> QED BY <3>1 DEF Hits
  <2> QED BY <2>1
<1>5. {c \in DOMAIN image.dirs[inode] : Hits(inode, name, c) # {}} = {}
  BY <1>4
<1> QED BY <1>5, Zenon DEF Lookup
-----------------------------------------------------------------------------
(* The path and the command.                                               *)

LEMMA ExecuteSteps ==
  ASSUME NEW c \in Commands, NEW p \in Paths \cup {Dot, NoPath}, Execute(c, p)
  PROVE  /\ cmd' = c /\ asked' = p /\ answer' = "none" /\ listed' = << >> /\ image' = image
         /\ \/ p = Dot /\ pc' = "walked" /\ inode' = RootIno
            \/ p # Dot /\ p \in {<< >>, NoPath} /\ pc' = "undefined"
            \/ /\ p \in Paths \ {<< >>} /\ pc' = "lookup" /\ path' = p /\ inode' = RootIno
               /\ j' = 0 /\ pass' = 0 /\ i' = 0 /\ ind_block' = Garbage
BY Zenon DEF Execute, StartScan

LEMMA FindsSteps ==
  ASSUME TypeOK, NEW b, Finds(b)
  PROVE  /\ pc = "lookup" /\ path \in Seq(Names) /\ path # << >> /\ path' = Tail(path)
         /\ inode' = FirstMatch(image.dirs[inode][b + 1]).ino
         /\ UNCHANGED <<image, cmd, asked, listed, answer>>
         /\ \/ /\ Len(path) > 1 /\ pc' = "lookup"
               /\ j' = 0 /\ pass' = 0 /\ i' = 0 /\ ind_block' = Garbage
            \/ Len(path) = 1 /\ pc' = "walked"
<1>1. pc = "lookup" /\ Found(FirstMatch(image.dirs[inode][b + 1]).ino)
  BY Zenon DEF Finds, Hit
<1>2. path \in Seq(Names) /\ path # << >>
  BY <1>1, Zenon DEF TypeOK
<1>3. Len(path) > 1 \/ Len(path) = 1
  <2>1. Len(path) \in Nat /\ Len(path) > 0
    BY <1>2, Tails
  <2> QED BY <2>1
<1>4. CASE Len(path) > 1
  BY <1>1, <1>2, <1>4, Zenon DEF Found, StartScan, Command
<1>5. CASE Len(path) = 1
  <2>1. ~ (Len(path) > 1)
    BY <1>5
  <2> QED BY <1>1, <1>2, <1>5, <2>1, Zenon DEF Found, StartScan, Command
<1> QED BY <1>3, <1>4, <1>5

LEMMA LeavesSteps ==
  ASSUME Leaves
  PROVE  /\ pc' = "prompt" /\ UNCHANGED <<image, cmd, asked, listed>>
         /\ \/ pc = "lookup" /\ answer' = "cannot find"
            \/ pc = "readdir" /\ answer' = "listing"
<1>1. Scanning /\ LeaveLoop
  BY Zenon DEF Leaves
<1> QED BY <1>1, Zenon DEF Scanning, LeaveLoop, NotFound, Command

LEMMA ListDirSteps ==
  ASSUME ListDir
  PROVE  /\ pc = "walked" /\ cmd = "ls" /\ image.kind[inode] = "dir" /\ pc' = "readdir"
         /\ j' = 0 /\ pass' = 0 /\ i' = 0 /\ ind_block' = Garbage
         /\ UNCHANGED <<image, cmd, asked, inode, listed, answer>>
BY Zenon DEF ListDir, Walked, StartScan, Command

LEMMA AskedNext ==
  ASSUME TypeOK, WorkInv, AskedInv, [Next]_vars
  PROVE  AskedInv'
<1>1. ASSUME NEW c \in Commands, NEW p \in Paths \cup {Dot, NoPath}, Execute(c, p)
      PROVE  AskedInv'
  <2>1. CASE p = Dot /\ pc' = "walked" /\ inode' = RootIno
    BY <1>1, <2>1, ExecuteSteps DEF AskedInv
  <2>2. CASE p \in {<< >>, NoPath} /\ pc' = "undefined"
    BY <2>2 DEF AskedInv
  <2>3. CASE p \in Paths \ {<< >>} /\ pc' = "lookup"
    BY <1>1, <2>3, ExecuteSteps DEF AskedInv
  <2> QED BY <1>1, <2>1, <2>2, <2>3, ExecuteSteps
<1>2. CASE Loops
  <2>1. pc # "walked"
    BY <1>2 DEF Loops, Scanning
  <2> QED BY <1>2, <2>1, Zenon DEF Loops, AskedInv
<1>3. ASSUME NEW b, Finds(b) PROVE AskedInv'
  BY <1>3, FindsSteps DEF AskedInv
<1>4. CASE Leaves
  BY <1>4, LeavesSteps DEF AskedInv
<1>5. CASE ListDir
  <2>1. inode \in Inodes
    <3>1. inode \in Inos /\ inode # Removed
      BY <1>5, Zenon DEF WorkInv, ListDir, Walked
    <3> QED BY <3>1 DEF Inos
  <2> QED BY <1>5, <2>1, ListDirSteps DEF AskedInv
<1>6. CASE Prints
  BY <1>6 DEF Prints, AskedInv
<1>7. CASE Breaks
  BY <1>7 DEF Breaks, AskedInv
<1>8. CASE Rests
  BY <1>8 DEF Rests, AskedInv
<1> QED BY <1>1, <1>2, <1>3, <1>4, <1>5, <1>6, <1>7, <1>8, StepKinds, Zenon

LEMMA RestNext ==
  ASSUME TypeOK, WorkInv, AskedInv, RestInv, [Next]_vars
  PROVE  RestInv'
<1>1. ASSUME NEW c \in Commands, NEW p \in Paths \cup {Dot, NoPath}, Execute(c, p)
      PROVE  RestInv'
  <2>1. CASE pc' # "lookup"
    BY <2>1 DEF RestInv
  <2>2. CASE p \in Paths \ {<< >>} /\ path' = p /\ asked' = p
    <3>1. p \in Seq(Names) /\ p # << >>
      BY <2>2, ConstantsAssumption
    <3>2. Len(p) \in Nat /\ Len(p) > 0
      BY <3>1, Tails
    <3>3. Len(p) \in 1 .. Len(p) /\ \A m \in 1 .. Len(p) : Len(p) - Len(p) + m = m
      BY <3>2
    <3> QED BY <2>2, <3>3 DEF RestInv
  <2> QED BY <1>1, <2>1, <2>2, ExecuteSteps
<1>2. CASE Loops
  BY <1>2, Zenon DEF Loops, RestInv
<1>3. ASSUME NEW b, Finds(b) PROVE RestInv'
  <2>1. CASE pc' # "lookup"
    BY <2>1 DEF RestInv
  <2>2. CASE pc' = "lookup"
    <3>1. /\ pc = "lookup" /\ path \in Seq(Names) /\ path # << >> /\ path' = Tail(path)
          /\ asked' = asked /\ Len(path) > 1
      BY <1>3, <2>2, FindsSteps
    <3>2. /\ Len(path) \in Nat /\ Len(Tail(path)) = Len(path) - 1
          /\ \A m \in 1 .. (Len(path) - 1) : Tail(path)[m] = path[m + 1]
      BY <3>1, Tails
    <3> PICK k, l, rest : k = Len(path) /\ l = Len(asked) /\ rest = Tail(path)
      OBVIOUS
    <3>3. /\ k \in 1 .. l /\ k > 1 /\ k \in Nat /\ Len(rest) = k - 1
          /\ \A m \in 1 .. k : path[m] = asked[l - k + m]
          /\ \A m \in 1 .. (k - 1) : rest[m] = path[m + 1]
      BY <3>1, <3>2, Zenon DEF RestInv
    <3>4. l \in Nat
      <4>1. asked \in Seq(Names)
        BY <3>1, ConstantsAssumption DEF AskedInv
      <4> QED BY <4>1
    <3>5. Len(rest) \in 1 .. l
      BY <3>3, <3>4
    <3>6. ASSUME NEW m \in 1 .. Len(rest) PROVE rest[m] = asked[l - Len(rest) + m]
      <4>1. m \in 1 .. (k - 1) /\ m + 1 \in 1 .. k /\ l - k + (m + 1) = l - (k - 1) + m
        BY <3>3, <3>4
      <4>2. rest[m] = path[m + 1] /\ path[m + 1] = asked[l - k + (m + 1)]
        BY <3>3, <4>1, Zenon
      <4> QED BY <3>3, <4>1, <4>2, Zenon
    <3> QED BY <3>1, <3>5, <3>6, Zenon DEF RestInv
  <2> QED BY <2>1, <2>2
<1>4. CASE Leaves
  BY <1>4, LeavesSteps DEF RestInv
<1>5. CASE ListDir
  BY <1>5, ListDirSteps DEF RestInv
<1>6. CASE Prints
  BY <1>6 DEF Prints, RestInv
<1>7. CASE Breaks
  BY <1>7 DEF Breaks, RestInv
<1>8. CASE Rests
  BY <1>8 DEF Rests, RestInv
<1> QED BY <1>1, <1>2, <1>3, <1>4, <1>5, <1>6, <1>7, <1>8, StepKinds, Zenon
\* The walk so far, when the path can be walked.
LEMMA WalkAt ==
  ASSUME TypeOK, AskedInv, RestInv, WalkInv, pc = "lookup", Walkable(asked)
  PROVE  LET h == Len(asked) - Len(path)
         IN /\ asked \in Seq(Names) /\ image \in Images
            /\ h \in 0 .. (Len(asked) - 1) /\ h + 1 \in 1 .. Len(asked)
            /\ inode = Walk(asked)[h] /\ inode # NULL
            /\ inode \in Inodes => Tame(inode)
            /\ Walk(asked)[h + 1] = Lookup(inode, Head(path))
<1> DEFINE h == Len(asked) - Len(path)
<1>1. asked \in Seq(Names) /\ image \in Images
  <2>1. asked \in Paths
    BY DEF AskedInv
  <2>2. image \in Images
    BY Zenon DEF TypeOK
  <2> QED BY <2>1, <2>2, ConstantsAssumption
<1>2. path \in Seq(Names) /\ path # << >>
  BY Zenon DEF TypeOK
<1>3. Len(asked) \in Nat /\ Len(path) \in 1 .. Len(asked)
  BY <1>1 DEF RestInv
<1>4. h \in 0 .. (Len(asked) - 1) /\ h + 1 \in 1 .. Len(asked) /\ (h + 1) - 1 = h
  BY <1>3
<1>5. Head(path) = asked[h + 1]
  <2>1. Head(path) = path[1]
    BY <1>2, Tails
  <2>2. 1 \in 1 .. Len(path)
    BY <1>3
  <2> QED BY <2>1, <2>2, Zenon DEF RestInv
<1>6. inode = Walk(asked)[h] /\ inode # NULL
  BY Zenon DEF WalkInv
<1> HIDE DEF h
<1>7. Walk(asked)[h + 1] = Lookup(inode, Head(path))
  <2>1. Walk(asked)[h + 1] = IF Walk(asked)[(h + 1) - 1] = NULL THEN NULL
                             ELSE Lookup(Walk(asked)[(h + 1) - 1], asked[h + 1])
    BY <1>1, <1>4, WalkIs, Zenon
  <2> QED BY <1>4, <1>5, <1>6, <2>1, Zenon
<1>8. inode \in Inodes => Tame(inode)
  BY <1>4, <1>6, Zenon DEF Walkable, Tame
<1> QED BY <1>1, <1>4, <1>6, <1>7, <1>8 DEF h

\* The third part of WalkRight.
Refused ==
  (pc = "prompt" /\ answer = "cannot find" /\ asked # Dot /\ Walkable(asked)) => Resolve(asked) = NULL

LEMMA WalkNext ==
  ASSUME TypeOK, WorkInv, AskedInv, RestInv, WalkInv, ScanInv, MissInv, [Next]_vars
  PROVE  WalkInv'
<1>1. ASSUME NEW c \in Commands, NEW p \in Paths \cup {Dot, NoPath}, Execute(c, p)
      PROVE  WalkInv'
  <2>1. CASE p = Dot /\ pc' = "walked" /\ inode' = RootIno
    <3>1. asked' = Dot /\ pc' # "lookup" /\ RootIno # NULL
      BY <1>1, <2>1, ExecuteSteps, Numbering
    <3> QED BY <2>1, <3>1, Zenon DEF WalkInv, Target
  <2>2. CASE p \in {<< >>, NoPath} /\ pc' = "undefined"
    BY <2>2 DEF WalkInv
  <2>3. CASE p \in Paths \ {<< >>} /\ pc' = "lookup" /\ path' = p /\ inode' = RootIno
    <3>1. asked' = p /\ image' = image
      BY <1>1, ExecuteSteps, Zenon
    <3>2. p \in Seq(Names) /\ image \in Images
      <4>1. image \in Images
        BY Zenon DEF TypeOK
      <4> QED BY <2>3, <4>1, ConstantsAssumption
    <3>3. Len(p) - Len(p) = 0
      BY <3>2
    <3>4. Walk(p)[0] = RootIno /\ RootIno # NULL
      BY <3>2, WalkIs, Numbering
    <3>5. Walk(p)' = Walk(p)
      BY <3>1, SameImage
    <3>6. pc' # "walked" /\ pc' # "readdir"
      BY <2>3
    <3> QED BY <2>3, <3>1, <3>3, <3>4, <3>5, <3>6, Zenon DEF WalkInv
  <2> QED BY <1>1, <2>1, <2>2, <2>3, ExecuteSteps
<1>2. CASE Loops
  <2>1. UNCHANGED <<image, pc, asked, path, inode>>
    BY <1>2, Zenon DEF Loops
  <2> QED BY <2>1, SameImage, Zenon DEF WalkInv, Followed, Target
<1>3. ASSUME NEW b, Finds(b) PROVE WalkInv'
  <2> PICK n : n = FirstMatch(image.dirs[inode][b + 1]).ino
    OBVIOUS
  <2> PICK p : p = asked
    OBVIOUS
  <2>1. /\ pc = "lookup" /\ path \in Seq(Names) /\ path # << >> /\ path' = Tail(path) /\ inode' = n
        /\ UNCHANGED <<image, asked>>
        /\ \/ Len(path) > 1 /\ pc' = "lookup"
           \/ Len(path) = 1 /\ pc' = "walked"
    BY <1>3, FindsSteps
  <2>2. inode \in Inodes
    BY <1>3, Directory DEF Finds
  <2>3. p # Dot /\ Len(asked) \in Nat
    <3>1. asked \in Paths
      BY <2>1 DEF AskedInv
    <3> QED BY <3>1, ConstantsAssumption
  <2>4. Len(path) \in Nat /\ Len(path') = Len(path) - 1
    BY <2>1, Tails
  <2>5. ASSUME Walkable(p)
        PROVE  Walk(p)[Len(p) - Len(path')] = n /\ n # NULL
    <3>1. Tame(inode) /\ Walk(p)[Len(p) - Len(path) + 1] = Lookup(inode, Head(path))
      BY <2>1, <2>2, <2>5, WalkAt, Zenon
    <3>2. n = Lookup(inode, Head(path)) /\ n \in Inodes
      BY <1>3, <3>1, FoundRight, Zenon
    <3>3. Len(p) - Len(path) + 1 = Len(p) - Len(path')
      BY <2>3, <2>4
    <3> QED BY <3>1, <3>2, <3>3, Numbering, Zenon
  <2>6. Walk(p)' = Walk(p) /\ Resolve(p)' = Resolve(p) /\ Walkable(p)' = Walkable(p)
    BY <2>1, SameImage, Zenon
  <2>7. CASE pc' = "lookup"
    <3>1. pc' # "walked" /\ pc' # "readdir"
      BY <2>7
    <3> QED BY <2>1, <2>5, <2>6, <2>7, <3>1, Zenon DEF WalkInv
  <2>8. CASE Len(path) = 1 /\ pc' = "walked"
    <3>1. pc' # "lookup"
      BY <2>8
    <3>2. Len(p) - Len(path') = Len(p)
      BY <2>3, <2>4, <2>8
    <3>3. Walkable(p) => Resolve(p) = n /\ n # NULL
      BY <2>5, <3>2, Zenon DEF Resolve
    <3> QED BY <2>1, <2>3, <2>6, <3>1, <3>3, Zenon DEF WalkInv, Followed, Target
  <2> QED BY <2>1, <2>7, <2>8
<1>4. CASE Leaves
  BY <1>4, LeavesSteps DEF WalkInv
<1>5. CASE ListDir
  <2>1. /\ pc = "walked" /\ pc' = "readdir" /\ pc' # "lookup" /\ UNCHANGED <<image, asked, inode>>
    BY <1>5, ListDirSteps
  <2> QED BY <2>1, SameImage, Zenon DEF WalkInv, Followed, Target
<1>6. CASE Prints
  BY <1>6 DEF Prints, WalkInv
<1>7. CASE Breaks
  BY <1>7 DEF Breaks, WalkInv
<1>8. CASE Rests
  <2>1. CASE pc' = "exited"
    BY <2>1 DEF WalkInv
  <2>2. CASE pc' = pc
    BY <1>8, <2>2, SameImage, Zenon DEF Rests, WalkInv, Followed, Target
  <2> QED BY <1>8, <2>1, <2>2 DEF Rests
<1> QED BY <1>1, <1>2, <1>3, <1>4, <1>5, <1>6, <1>7, <1>8, StepKinds, Zenon

LEMMA RefusedNext ==
  ASSUME TypeOK, WorkInv, AskedInv, RestInv, WalkInv, ScanInv, MissInv, Refused, [Next]_vars
  PROVE  Refused'
<1>1. ASSUME NEW c \in Commands, NEW p \in Paths \cup {Dot, NoPath}, Execute(c, p)
      PROVE  Refused'
  BY <1>1, ExecuteSteps DEF Refused
<1>2. CASE Loops
  <2>1. pc' # "prompt"
    BY <1>2 DEF Loops, Scanning
  <2> QED BY <2>1, Zenon DEF Refused
<1>3. ASSUME NEW b, Finds(b) PROVE Refused'
  <2>1. pc' # "prompt"
    BY <1>3, FindsSteps
  <2> QED BY <2>1, Zenon DEF Refused
<1>4. CASE Leaves
  <2>1. CASE answer' # "cannot find"
    BY <2>1, Zenon DEF Refused
  <2>2. CASE answer' = "cannot find"
    <3>1. pc = "lookup" /\ UNCHANGED <<image, asked>>
      BY <1>4, <2>2, LeavesSteps
    <3> PICK p : p = asked
      OBVIOUS
    <3>2. Resolve(p)' = Resolve(p) /\ Walkable(p)' = Walkable(p)
      BY <3>1, SameImage
    <3>3. ASSUME Walkable(p) PROVE Resolve(p) = NULL
      <4> PICK h : h = Len(p) - Len(path)
        OBVIOUS
      <4>1. /\ p \in Seq(Names) /\ image \in Images
            /\ h + 1 \in 1 .. Len(p) /\ (inode \in Inodes => Tame(inode))
            /\ Walk(p)[h + 1] = Lookup(inode, Head(path))
        BY <3>1, <3>3, WalkAt, Zenon
      <4>2. inode \in Inodes
        BY <1>4, Directory DEF Leaves
      <4>3. Walk(p)[h + 1] = NULL
        BY <1>4, <3>1, <4>1, <4>2, MissedRight, Zenon
      <4>4. h + 1 \in 0 .. Len(p)
        BY <4>1
      <4> QED BY <4>1, <4>3, <4>4, NullStays
    <3> QED BY <3>1, <3>2, <3>3, Zenon DEF Refused
  <2> QED BY <2>1, <2>2
<1>5. CASE ListDir
  BY <1>5, ListDirSteps DEF Refused
<1>6. CASE Prints
  <2>1. CASE pc' = "corrupted"
    BY <2>1 DEF Refused
  <2>2. CASE answer' \notin {"none", "cannot find"}
    BY <2>2 DEF Refused
  <2> QED BY <1>6, <2>1, <2>2, Zenon DEF Prints
<1>7. CASE Breaks
  BY <1>7 DEF Breaks, Refused
<1>8. CASE Rests
  <2>1. CASE pc' = "exited"
    BY <2>1 DEF Refused
  <2>2. CASE pc' = pc
    BY <1>8, <2>2, SameImage, Zenon DEF Rests, Refused
  <2> QED BY <1>8, <2>1, <2>2 DEF Rests
<1> QED BY <1>1, <1>2, <1>3, <1>4, <1>5, <1>6, <1>7, <1>8, StepKinds, Zenon
-----------------------------------------------------------------------------
(* The scan of a directory.                                                *)

\* A scan begins.
LEMMA StartRight ==
  ASSUME j' = 0, pass' = 0, image' = image, TypeOK
  PROVE  ScanInv' /\ MissInv'
<1>1. ~ (j' >= Direct) /\ ~ (j' > Direct) /\ ~ (pass' > 0) /\ j' # Direct
  BY Bases
<1>2. ScanInv'
  <2> SUFFICES ASSUME Tame(inode)' PROVE 0 <= Len(image'.dirs[inode'])
    BY <1>1 DEF ScanInv
  <2>1. PICK n : n = inode'
    OBVIOUS
  <2>2. n \in Inodes /\ image \in Images
    BY <2>1, Zenon DEF Tame, TypeOK
  <2>3. image.dirs[n] \in Seq(Block)
    BY <2>2, ImageIs
  <2>4. 0 <= Len(image.dirs[n])
    BY <2>3, BlocksAre
  <2> QED BY <2>1, <2>4, Zenon
<1>3. MissInv'
  <2>1. SUFFICES ASSUME Tame(inode)', NEW b \in DOMAIN image'.dirs[inode'], Scanned(b)' PROVE FALSE
    BY Zenon DEF MissInv
  <2>2. PICK n : n = inode'
    OBVIOUS
  <2>3. n \in Inodes /\ image \in Images
    BY <2>1, <2>2, Zenon DEF Tame, TypeOK
  <2>4. image.dirs[n] \in Seq(Block)
    BY <2>3, ImageIs
  <2>5. b \in DOMAIN image.dirs[n]
    BY <2>2, Zenon
  <2>6. b \in 1 .. Len(image.dirs[n]) /\ Len(image.dirs[n]) \in Nat
    BY <2>4, <2>5, BlocksAre
  <2>7. ~ (b <= j')
    BY <2>6
  <2> QED BY <1>1, <2>1, <2>7, Zenon DEF Scanned
<1> QED BY <1>2, <1>3

\* The tables of a directory that ext2_lookup can search: one block of pointers.
LEMMA TameLoad ==
  ASSUME TypeOK, ScanInv, LoadTable, Tame(inode)
  PROVE  ind_block' = Pointers(<<1, SingleBase>>, Used(inode))
<1>1. /\ Scanning /\ ~ NotADirectory /\ j \in Direct .. (Direct + 2)
      /\ ind_block' = IF i_block(j, Used(inode)) = NoBlock THEN ind_block
                      ELSE Pointers(i_block(j, Used(inode)), Used(inode))
  BY Zenon DEF LoadTable
<1>2. Used(inode) = 0 .. (Len(image.dirs[inode]) - 1) /\ Len(image.dirs[inode]) \in Nat
  BY <1>1, Directory, BlocksAre
<1> PICK n : n = Len(image.dirs[inode])
  OBVIOUS
<1> PICK used : used = Used(inode)
  OBVIOUS
<1>3. n > Direct /\ (j > Direct => ind_block = Pointers(<<1, SingleBase>>, used))
  <2>1. j >= Direct
    BY <1>1, Counters
  <2> QED BY <1>1, <2>1, Zenon DEF ScanInv
<1>4. used = 0 .. (n - 1) /\ n \in Nat /\ used \in SUBSET Nat
  BY <1>2
<1>5. n <= DoubleBase
  <2>1. Used(inode) # {}
    <3>1. Direct \in Nat /\ n > Direct /\ n \in Nat
      BY <1>3, <1>4, Counters
    <3>2. 0 \in 0 .. (n - 1)
      BY <3>1
    <3> QED BY <1>4, <3>2, Zenon
  <2>2. Searchable(inode)
    BY <1>1, <2>1, TameHas
  <2> QED BY <2>2, Zenon DEF Searchable
<1>6. /\ SingleBase = Direct /\ SingleBase \in Nat /\ DoubleBase \in Nat /\ TripleBase \in Nat
      /\ DoubleBase <= TripleBase /\ Direct \in Nat
  BY Bases DEF SingleBase
<1>7. CASE j = Direct
  <2>1. i_block(Direct, used) = Pointer(1, SingleBase, used)
    <3>1. ~ (Direct < Direct) /\ Direct # Direct + 1 /\ Direct # Direct + 2
      BY <1>6
    <3> QED BY <3>1 DEF i_block
  <2>2. SingleBase \in used
    BY <1>3, <1>4, <1>6
  <2>3. Pointer(1, SingleBase, used) = <<1, SingleBase>> /\ <<1, SingleBase>> # NoBlock
    <3>1. 1 \in 0 .. 1
      OBVIOUS
    <3> QED BY <1>4, <1>6, <2>2, <3>1, PointerIs, Zenon
  <2> QED BY <1>1, <1>7, <2>1, <2>3, Zenon
<1>8. CASE j # Direct
  <2>1. j > Direct /\ (j = Direct + 1 \/ j = Direct + 2)
    BY <1>1, <1>8, Counters
  <2>2. i_block(j, used) = Pointer(2, DoubleBase, used) \/ i_block(j, used) = Pointer(3, TripleBase, used)
    <3>1. ~ (j < Direct) /\ j # Direct
      BY <1>6, <2>1
    <3>2. Direct + 1 # Direct + 2
      BY <1>6
    <3> QED BY <2>1, <3>1, <3>2 DEF i_block
  <2>3. \A m \in used : ~ (DoubleBase <= m) /\ ~ (TripleBase <= m)
    BY <1>4, <1>5, <1>6
  <2>4. i_block(j, used) = NoBlock
    BY <2>2, <2>3, Zenon DEF Pointer
  <2> QED BY <1>1, <1>3, <2>1, <2>4, Zenon
<1> QED BY <1>7, <1>8

\* What the steps of the loops do to the counters.
LEMMA LoopSteps ==
  ASSUME TypeOK, WorkInv, Loops
  PROVE  \/ /\ j < Direct /\ j \in Used(inode) /\ Passed(j)
            /\ j' = j + 1 /\ UNCHANGED <<pass, i, ind_block>>
         \/ LoadTable
         \/ /\ TableRead /\ i < Fan /\ ind_block[i] = NoBlock
            /\ i' = IF pc = "lookup" THEN i + 1 ELSE Fan
            /\ UNCHANGED <<j, pass, ind_block, listed>>
         \/ /\ TableRead /\ i < Fan
            /\ \E b \in Used(inode) : ind_block[i] = <<0, b>> /\ Passed(b)
            /\ i' = i + 1 /\ UNCHANGED <<j, pass, ind_block>>
         \/ TableEnds
<1>0. /\ pc' = pc /\ inode' = inode /\ pc # "prompt" /\ path' = path
      /\ ScanDirect \/ LoadTable \/ TableRound \/ TableEnds
  BY DEF Loops, Scanning
<1>1. ASSUME NEW b, Hit(b) PROVE FALSE
  <2>1. path' = Tail(path) /\ pc = "lookup"
    BY <1>1, Zenon DEF Hit, Found
  <2>2. path \in Seq(Names) /\ path # << >>
    BY <2>1, Zenon DEF TypeOK
  <2>3. PICK k, rest : k = Len(path) /\ rest = Tail(path)
    OBVIOUS
  <2>4. k \in Nat /\ Len(rest) = k - 1
    BY <2>2, <2>3, Tails
  <2>5. Len(rest) = k
    BY <1>0, <2>1, <2>3, Zenon
  <2> QED BY <2>4, <2>5
<1>2. ~ LeaveLoop
  <2>1. SUFFICES ASSUME LeaveLoop PROVE FALSE
    OBVIOUS
  <2>2. pc' = "prompt"
    BY <2>1, Zenon DEF LeaveLoop, NotFound
  <2> QED BY <1>0, <2>2
<1>3. CASE ScanDirect
  <2>1. j < Direct
    BY <1>3, Zenon DEF ScanDirect
  <2> QED BY <1>1, <1>2, <1>3, <2>1, ScanDirectSteps, Zenon
<1>4. CASE TableRound
  <2>1. TableRead /\ i < Fan
    BY <1>4, Zenon DEF TableRound
  <2> QED BY <1>1, <1>4, <2>1, TableRoundSteps, Zenon
<1> QED BY <1>0, <1>3, <1>4, Zenon
LEMMA ScanNext ==
  ASSUME TypeOK, WorkInv, AskedInv, ScanInv, [Next]_vars
  PROVE  ScanInv'
<1>1. ASSUME NEW c \in Commands, NEW p \in Paths \cup {Dot, NoPath}, Execute(c, p)
      PROVE  ScanInv'
  <2>1. CASE pc' = "lookup"
    <3>1. j' = 0 /\ pass' = 0 /\ image' = image
      BY <1>1, <2>1, ExecuteSteps
    <3> QED BY <3>1, StartRight
  <2>2. CASE pc' # "lookup"
    <3>1. pc' # "readdir"
      BY <1>1, <2>2, ExecuteSteps
    <3> QED BY <2>2, <3>1 DEF ScanInv, Scanning
  <2> QED BY <2>1, <2>2
<1>2. CASE Loops
  <2>1. /\ Scanning /\ ~ NotADirectory /\ UNCHANGED <<image, inode, pc>>
    BY <1>2, Zenon DEF Loops
  <2> PICK n, used : n = Len(image.dirs[inode]) /\ used = Used(inode)
    OBVIOUS
  <2>2. used = 0 .. (n - 1) /\ n \in Nat
    BY <2>1, Directory, BlocksAre
  <2>3. SUFFICES ASSUME Tame(inode)
                 PROVE  /\ j' <= Direct => j' <= n
                        /\ j' >= Direct => n > Direct
                        /\ j' < Direct => pass' = 0
                        /\ pass' > 0 \/ j' > Direct => ind_block' = Pointers(<<1, SingleBase>>, used)
    <3>1. Used(inode)' = used /\ Tame(inode)' = Tame(inode) /\ Len(image.dirs[inode])' = n
      BY <2>1, SameImage, Zenon DEF Tame
    <3> QED BY <2>1, <3>1, Zenon DEF ScanInv
  <2>4. /\ j <= Direct => j <= n
        /\ j >= Direct => n > Direct
        /\ j < Direct => pass = 0
        /\ pass > 0 \/ j > Direct => ind_block = Pointers(<<1, SingleBase>>, used)
    BY <2>1, <2>3, Zenon DEF ScanInv
  <2>5. CASE /\ j < Direct /\ j \in Used(inode)
             /\ j' = j + 1 /\ UNCHANGED <<pass, i, ind_block>>
    <3>1. n # Direct
      <4>1. Searchable(inode)
        BY <2>1, <2>3, <2>5, TameHas
      <4> QED BY <4>1, Zenon DEF Searchable
    <3>2. j + 1 <= n /\ j + 1 <= Direct /\ pass = 0
      BY <2>2, <2>4, <2>5, Counters
    <3>3. j + 1 >= Direct => n > Direct
      BY <2>2, <3>1, <3>2, Counters
    <3>4. ~ (pass > 0) /\ ~ (j + 1 > Direct)
      BY <3>2, Counters
    <3> QED BY <2>5, <3>2, <3>3, <3>4, Zenon
  <2>6. CASE LoadTable
    <3>1. j' = j /\ pass' = 1 /\ j \in Direct .. (Direct + 2)
      BY <2>6, Zenon DEF LoadTable
    <3>2. ind_block' = Pointers(<<1, SingleBase>>, used)
      BY <2>3, <2>6, TameLoad
    <3>3. ~ (j < Direct)
      BY <3>1, Counters
    <3> QED BY <2>4, <3>1, <3>2, <3>3, Zenon
  <2>7. CASE UNCHANGED <<j, pass, ind_block>>
    BY <2>4, <2>7, Zenon
  <2>8. CASE TableEnds
    <3>1. /\ j \in Direct .. (Direct + 2) /\ pass > 0 /\ ind_block' = ind_block
          /\ \/ j' = j
             \/ j' = j + 1
      BY <2>8, Zenon DEF TableEnds, TableRead
    <3>2. ind_block' = Pointers(<<1, SingleBase>>, used)
      BY <2>4, <3>1, Zenon
    <3>3. j >= Direct /\ n > Direct
      BY <2>4, <3>1, Counters
    <3>4. j' >= Direct /\ ~ (j' < Direct) /\ (j' <= Direct => j' <= n)
      BY <2>2, <3>1, <3>3, Counters, SMTT(30)
    <3> QED BY <3>2, <3>3, <3>4, Zenon
  <2> QED BY <1>2, <2>5, <2>6, <2>7, <2>8, LoopSteps, Zenon
<1>3. ASSUME NEW b, Finds(b) PROVE ScanInv'
  <2>1. CASE pc' = "lookup"
    <3>1. j' = 0 /\ pass' = 0 /\ image' = image
      BY <1>3, <2>1, FindsSteps
    <3> QED BY <3>1, StartRight
  <2>2. CASE pc' # "lookup"
    <3>1. pc' # "readdir"
      BY <1>3, FindsSteps
    <3> QED BY <2>2, <3>1 DEF ScanInv, Scanning
  <2> QED BY <2>1, <2>2
<1>4. CASE Leaves
  BY <1>4, LeavesSteps DEF ScanInv, Scanning
<1>5. CASE ListDir
  <2>1. j' = 0 /\ pass' = 0 /\ image' = image
    BY <1>5, ListDirSteps
  <2> QED BY <2>1, StartRight
<1>6. CASE Prints
  BY <1>6 DEF Prints, ScanInv, Scanning
<1>7. CASE Breaks
  BY <1>7 DEF Breaks, ScanInv, Scanning
<1>8. CASE Rests
  <2>1. CASE pc' = "exited"
    BY <2>1 DEF ScanInv, Scanning
  <2>2. CASE pc' = pc
    BY <1>8, <2>2, SameImage, Zenon DEF Rests, scan, ScanInv, Scanning, Tame
  <2> QED BY <1>8, <2>1, <2>2 DEF Rests
<1> QED BY <1>1, <1>2, <1>3, <1>4, <1>5, <1>6, <1>7, <1>8, StepKinds, Zenon

\* A block that has been passed does not have the name.
LEMMA PassedMisses ==
  ASSUME TypeOK, ~ NotADirectory, Tame(inode), NEW b \in Used(inode), Passed(b), pc = "lookup"
  PROVE  \A e \in DOMAIN image.dirs[inode][b + 1] : image.dirs[inode][b + 1][e].name # Head(path)
<1>1. Searchable(inode)
  BY TameHas
<1>2. Matches(image.dirs[inode][b + 1]) = {}
  BY Zenon DEF Passed
<1>3. b + 1 \in DOMAIN image.dirs[inode]
  BY Directory
<1>4. \A e \in DOMAIN image.dirs[inode][b + 1] : image.dirs[inode][b + 1][e].closed
  BY <1>1, <1>3, Zenon DEF Searchable
<1> QED BY <1>2, <1>4, Zenon DEF Matches

LEMMA MissNext ==
  ASSUME TypeOK, WorkInv, AskedInv, ScanInv, MissInv, [Next]_vars
  PROVE  MissInv'
<1>1. ASSUME NEW c \in Commands, NEW p \in Paths \cup {Dot, NoPath}, Execute(c, p)
      PROVE  MissInv'
  <2>1. CASE pc' = "lookup"
    <3>1. j' = 0 /\ pass' = 0 /\ image' = image
      BY <1>1, <2>1, ExecuteSteps
    <3> QED BY <3>1, StartRight
  <2>2. CASE pc' # "lookup"
    BY <2>2 DEF MissInv
  <2> QED BY <2>1, <2>2
<1>2. CASE Loops
  <2>1. /\ Scanning /\ ~ NotADirectory /\ UNCHANGED <<image, inode, pc, path>>
    BY <1>2, Zenon DEF Loops
  <2> PICK n, used : n = Len(image.dirs[inode]) /\ used = Used(inode)
    OBVIOUS
  <2>2. /\ used = 0 .. (n - 1) /\ n \in Nat /\ DOMAIN image.dirs[inode] = 1 .. n
    BY <2>1, Directory, BlocksAre
  <2>3. SUFFICES ASSUME pc = "lookup", Tame(inode), NEW c \in 1 .. n, Scanned(c)', ~ Scanned(c)
                 PROVE  \A e \in DOMAIN image.dirs[inode][c] : image.dirs[inode][c][e].name # Head(path)
    <3>1. Tame(inode)' = Tame(inode)
      BY <2>1, SameImage, Zenon DEF Tame
    <3> QED BY <2>1, <2>2, <3>1, Zenon DEF MissInv
  <2>4. c \in Nat /\ c <= n /\ c - 1 \in used /\ (c - 1) + 1 = c
    BY <2>2
  <2>5. /\ ~ (c <= Direct /\ c <= j) /\ ~ (j > Direct) /\ ~ (j = Direct /\ pass > 0 /\ c <= Direct + i)
        /\ \/ c <= Direct /\ c <= j'
           \/ j' > Direct
           \/ j' = Direct /\ pass' > 0 /\ c <= Direct + i'
    BY <2>3, Zenon DEF Scanned
  <2>6. /\ j >= Direct => n > Direct
        /\ j < Direct => pass = 0
    BY <2>1, <2>3, Zenon DEF ScanInv
  <2>7. CASE /\ j < Direct /\ j \in Used(inode) /\ Passed(j)
             /\ j' = j + 1 /\ UNCHANGED <<pass, i, ind_block>>
    <3>1. c = j + 1
      BY <2>4, <2>5, <2>6, <2>7, Counters
    <3> QED BY <2>1, <2>3, <2>7, <3>1, PassedMisses
  <2>8. CASE LoadTable
    <3>1. j' = j /\ i' = 0 /\ j \in Direct .. (Direct + 2)
      BY <2>8, Zenon DEF LoadTable
    <3>2. FALSE
      BY <2>4, <2>5, <3>1, Counters
    <3> QED BY <3>2
  <2>9. CASE /\ TableRead /\ i < Fan /\ ind_block[i] = NoBlock
             /\ i' = IF pc = "lookup" THEN i + 1 ELSE Fan
             /\ UNCHANGED <<j, pass, ind_block>>
    <3>1. i' = i + 1 /\ j' = j /\ pass' = pass
      BY <2>3, <2>9, Zenon
    <3>2. c = Direct + i + 1
      BY <2>4, <2>5, <3>1, Counters, SMTT(30)
    <3>3. c - 1 = Direct + i
      BY <2>4, <3>2, Counters
    <3>4. Direct + i \in Used(inode)
      BY <2>4, <3>3, Zenon
    <3>5. ind_block[i] # NoBlock
      BY <2>3, <2>9, <3>4, TameTable
    <3> QED BY <2>9, <3>5
  <2>10. CASE /\ TableRead /\ i < Fan
              /\ \E b \in Used(inode) : ind_block[i] = <<0, b>> /\ Passed(b)
              /\ i' = i + 1 /\ UNCHANGED <<j, pass, ind_block>>
    <3> PICK b \in Used(inode) : ind_block[i] = <<0, b>> /\ Passed(b)
      BY <2>10
    <3>1. <<0, b>> # NoBlock
      BY DEF NoBlock
    <3>2. <<0, b>> = <<0, Direct + i>>
      BY <2>3, <2>10, <3>1, TameTable
    <3>3. b = Direct + i
      BY <3>2
    <3>4. c = Direct + i + 1
      BY <2>4, <2>5, <2>10, Counters, SMTT(30)
    <3>5. c = b + 1
      BY <3>3, <3>4
    <3> QED BY <2>1, <2>3, <3>5, PassedMisses
  <2>11. CASE TableEnds
    <3>1. j \in Direct .. (Direct + 2) /\ pass > 0 /\ i = Fan
      BY <2>11, Zenon DEF TableEnds, TableRead
    <3>2. j = Direct
      BY <2>5, <3>1, Counters
    <3>3. n <= DoubleBase /\ DoubleBase = Direct + Fan
      <4>1. used # {}
        BY <2>4
      <4>2. Searchable(inode)
        BY <2>1, <2>3, <4>1, TameHas
      <4> QED BY <4>2, Zenon DEF Searchable, DoubleBase
    <3>4. c <= Direct + i
      BY <2>4, <3>1, <3>3, Counters
    <3> QED BY <2>5, <3>1, <3>2, <3>4, Zenon
  <2> QED BY <1>2, <2>7, <2>8, <2>9, <2>10, <2>11, LoopSteps, Zenon
<1>3. ASSUME NEW b, Finds(b) PROVE MissInv'
  <2>1. CASE pc' = "lookup"
    <3>1. j' = 0 /\ pass' = 0 /\ image' = image
      BY <1>3, <2>1, FindsSteps
    <3> QED BY <3>1, StartRight
  <2>2. CASE pc' # "lookup"
    BY <2>2 DEF MissInv
  <2> QED BY <2>1, <2>2
<1>4. CASE Leaves
  BY <1>4, LeavesSteps DEF MissInv
<1>5. CASE ListDir
  BY <1>5, ListDirSteps DEF MissInv
<1>6. CASE Prints
  BY <1>6 DEF Prints, MissInv
<1>7. CASE Breaks
  BY <1>7 DEF Breaks, MissInv
<1>8. CASE Rests
  <2>1. CASE pc' = "exited"
    BY <2>1 DEF MissInv
  <2>2. CASE pc' = pc
    <3>1. UNCHANGED <<pc, image, inode, path, j, pass, i>>
      BY <1>8, <2>2, Zenon DEF Rests, scan
    <3>2. Tame(inode)' = Tame(inode) /\ \A c : Scanned(c)' = Scanned(c)
      BY <3>1, SameImage, Zenon DEF Tame, Scanned
    <3> QED BY <3>1, <3>2, Zenon DEF MissInv
  <2> QED BY <1>8, <2>1, <2>2 DEF Rests
<1> QED BY <1>1, <1>2, <1>3, <1>4, <1>5, <1>6, <1>7, <1>8, StepKinds, Zenon
-----------------------------------------------------------------------------
(* The listing.                                                            *)

LEMMA PlainIs ==
  ASSUME TypeOK, inode \in Inodes, Plain(inode)
  PROVE  /\ Tame(inode) /\ Len(image.dirs[inode]) < Direct /\ Len(image.dirs[inode]) \in Nat
         /\ FlattenUpto(image.dirs[inode], Flat(image.dirs[inode]))
         /\ FlattenSeq(image.dirs[inode]) = Flat(image.dirs[inode])[Len(image.dirs[inode])]
<1>1. image \in Images
  BY Zenon DEF TypeOK
<1>2. image.dirs[inode] \in Seq(Block)
  BY <1>1, ImageIs
<1>3. Tame(inode) /\ Len(image.dirs[inode]) < Direct
  BY Zenon DEF Plain, Tame
<1> QED BY <1>2, <1>3, FlatIs, BlocksAre

LEMMA ListNext ==
  ASSUME TypeOK, WorkInv, AskedInv, ScanInv, ListInv, [Next]_vars
  PROVE  ListInv'
<1>0. image' = image => \A n : Plain(n)' = Plain(n)
  BY SameImage, Zenon DEF Plain
<1>1. ASSUME NEW c \in Commands, NEW p \in Paths \cup {Dot, NoPath}, Execute(c, p)
      PROVE  ListInv'
  <2>1. pc' # "readdir"
    BY <1>1, ExecuteSteps
  <2> QED BY <2>1, Zenon DEF ListInv
<1>2. CASE Loops
  <2>1. /\ Scanning /\ ~ NotADirectory /\ UNCHANGED <<image, inode, pc, path>>
    BY <1>2, Zenon DEF Loops
  <2>2. SUFFICES ASSUME pc = "readdir", Plain(inode)
                 PROVE  listed' = Numbers(Flat(image.dirs[inode])[j'])
    BY <1>0, <2>1, Zenon DEF ListInv
  <2> PICK blocks, n : blocks = image.dirs[inode] /\ n = Len(blocks)
    OBVIOUS
  <2> PICK f : f = Flat(blocks)
    OBVIOUS
  <2>3. inode \in Inodes /\ blocks \in Seq(Block) /\ Used(inode) = 0 .. (n - 1)
    BY <2>1, Directory
  <2>4. Tame(inode) /\ n < Direct /\ n \in Nat /\ FlattenUpto(blocks, f)
    BY <2>2, <2>3, PlainIs
  <2>5. j < Direct
    <3>1. j >= Direct => n > Direct
      BY <2>1, <2>4, Zenon DEF ScanInv
    <3> QED BY <2>4, <3>1, Counters
  <2>6. ~ TableRead /\ ~ LoadTable
    <3>1. j \notin Direct .. (Direct + 2)
      BY <2>5, Counters
    <3> QED BY <3>1, Zenon DEF TableRead, LoadTable
  <2>7. j \in Used(inode) /\ Passed(j) /\ j' = j + 1
    BY <1>2, <2>6, LoopSteps, Zenon DEF TableEnds
  <2> PICK block : block = blocks[j + 1]
    OBVIOUS
  <2>8. j + 1 \in 1 .. n /\ (j + 1) - 1 = j /\ j \in 0 .. n
    <3>1. j \in 0 .. (n - 1)
      BY <2>3, <2>7, Zenon
    <3> QED BY <2>4, <3>1
  <2>9. block \in Block /\ DOMAIN blocks = 1 .. n
    BY <2>3, <2>8, BlocksAre
  <2>10. listed = Numbers(f[j])
    BY <2>2, Zenon DEF ListInv
  <2>11. listed' = listed \o Callbacks(block)
    BY <2>2, <2>7, Zenon DEF Passed
  <2>12. Callbacks(block) = Numbers(block)
    <3>1. \A e \in DOMAIN block : block[e].typed
      BY <2>2, <2>8, <2>9, Zenon DEF Plain
    <3> QED BY <2>9, <3>1, CallbacksAll, Zenon DEF Numbers
  <2>13. f[j] \in Block /\ f[j + 1] = f[j] \o block
    BY <2>4, <2>8 DEF FlattenUpto
  <2>14. Numbers(f[j] \o block) = Numbers(f[j]) \o Numbers(block)
    BY <2>9, <2>13, NumbersJoin
  <2> QED BY <2>7, <2>10, <2>11, <2>12, <2>13, <2>14, Zenon
<1>3. ASSUME NEW b, Finds(b) PROVE ListInv'
  <2>1. pc' # "readdir"
    BY <1>3, FindsSteps
  <2> QED BY <2>1, Zenon DEF ListInv
<1>4. CASE Leaves
  BY <1>4, LeavesSteps DEF ListInv
<1>5. CASE ListDir
  <2>1. pc = "walked" /\ j' = 0 /\ listed' = listed /\ image' = image /\ inode' = inode
    BY <1>5, ListDirSteps
  <2>2. listed = << >>
    BY <2>1 DEF AskedInv
  <2>3. SUFFICES ASSUME Plain(inode) PROVE << >> = Numbers(Flat(image.dirs[inode])[0])
    BY <1>0, <2>1, <2>2, Zenon DEF ListInv
  <2>4. inode \in Inodes
    <3>1. inode \in Inos /\ inode # Removed
      BY <1>5, Zenon DEF WorkInv, ListDir, Walked
    <3> QED BY <3>1 DEF Inos
  <2>5. Flat(image.dirs[inode])[0] = << >>
    BY <2>3, <2>4, PlainIs, Zenon DEF FlattenUpto
  <2>6. Numbers(<< >>) = << >>
    <3>1. << >> \in Block /\ Len(<< >>) = 0
      BY DEF Block
    <3>2. Numbers(<< >>) \in Seq(Inos) /\ Len(Numbers(<< >>)) = 0
      BY <3>1, NumbersType
    <3> QED BY <3>2
  <2> QED BY <2>5, <2>6, Zenon
<1>6. CASE Prints
  BY <1>6 DEF Prints, ListInv
<1>7. CASE Breaks
  BY <1>7 DEF Breaks, ListInv
<1>8. CASE Rests
  <2>1. CASE pc' = "exited"
    BY <2>1 DEF ListInv
  <2>2. CASE pc' = pc
    <3>1. UNCHANGED <<pc, image, inode, listed, j>>
      BY <1>8, <2>2, Zenon DEF Rests, scan
    <3> QED BY <1>0, <3>1, Zenon DEF ListInv
  <2> QED BY <1>8, <2>1, <2>2 DEF Rests
<1> QED BY <1>1, <1>2, <1>3, <1>4, <1>5, <1>6, <1>7, <1>8, StepKinds, Zenon

LEMMA ListingRightIs ==
  ListingRight <=>
    (pc = "prompt" /\ answer = "listing" /\ Followed /\ Plain(Target)
       => listed = Numbers(FlattenSeq(image.dirs[Target])))
BY Zenon DEF ListingRight, Followed, Target, Plain, Numbers

LEMMA ListingNext ==
  ASSUME TypeOK, WorkInv, AskedInv, WalkInv, ScanInv, ListInv, ListingRight, [Next]_vars
  PROVE  ListingRight'
<1>0. image' = image => \A n : Plain(n)' = Plain(n)
  BY SameImage, Zenon DEF Plain
<1>1. SUFFICES ASSUME pc' = "prompt", answer' = "listing", Followed', Plain(Target)'
               PROVE  listed' = Numbers(FlattenSeq(image.dirs[Target]))'
  BY Zenon DEF ListingRight, Followed, Target, Plain, Numbers
<1>2. ASSUME NEW c \in Commands, NEW p \in Paths \cup {Dot, NoPath}, Execute(c, p)
      PROVE  FALSE
  BY <1>1, <1>2, ExecuteSteps
<1>3. ~ Loops
  BY <1>1 DEF Loops, Scanning
<1>4. ASSUME NEW b, Finds(b) PROVE FALSE
  BY <1>1, <1>4, FindsSteps
<1>5. CASE Leaves
  <2>1. pc = "readdir" /\ UNCHANGED <<image, asked, listed>>
    BY <1>1, <1>5, LeavesSteps
  <2>2. Followed /\ Plain(Target) /\ Target' = Target
    BY <1>0, <1>1, <2>1, SameImage, Zenon DEF Followed, Target
  <2>3. inode = Target /\ inode \in Inodes /\ ~ NotADirectory /\ Scanning
    BY <1>5, <2>1, <2>2, Zenon DEF WalkInv, AskedInv, Leaves
  <2> PICK blocks, n : blocks = image.dirs[inode] /\ n = Len(blocks)
    OBVIOUS
  <2>4. /\ Tame(inode) /\ n < Direct /\ n \in Nat
        /\ FlattenSeq(blocks) = Flat(blocks)[n]
    BY <2>2, <2>3, PlainIs
  <2>5. /\ Used(inode) = 0 .. (n - 1)
        /\ j <= Direct => j <= n
        /\ j >= Direct => n > Direct
    BY <2>3, <2>4, Directory DEF ScanInv
  <2>6. j = n
    <3>1. j < Direct
      BY <2>4, <2>5, Counters, SMTT(30)
    <3>2. j # Direct + 3
      BY <3>1, Counters
    <3>3. j \notin 0 .. (n - 1)
      BY <1>5, <2>5, <3>2, Zenon DEF Leaves
    <3> QED BY <2>4, <2>5, <3>1, <3>3, Counters
  <2>7. listed = Numbers(Flat(blocks)[j])
    BY <2>1, <2>2, <2>3, Zenon DEF ListInv
  <2> QED BY <2>1, <2>2, <2>3, <2>4, <2>6, <2>7, Zenon
<1>6. ~ ListDir
  BY <1>1, ListDirSteps
<1>7. CASE Prints
  <2>1. pc = "walked" /\ UNCHANGED <<image, asked>> /\ image.kind[inode] # "dir"
    BY <1>1, <1>7 DEF Prints
  <2>2. Followed /\ Plain(Target)
    BY <1>0, <1>1, <2>1, SameImage, Zenon DEF Followed, Target
  <2>3. inode = Target
    BY <2>1, <2>2, Zenon DEF WalkInv
  <2> QED BY <2>1, <2>2, <2>3, Zenon DEF Plain
<1>8. ~ Breaks
  BY <1>1 DEF Breaks
<1>9. CASE Rests
  <2>1. pc = "prompt" /\ UNCHANGED <<image, asked, listed, answer>>
    BY <1>1, <1>9 DEF Rests
  <2>2. Followed /\ Plain(Target) /\ Target' = Target
    BY <1>0, <1>1, <2>1, SameImage, Zenon DEF Followed, Target
  <2> QED BY <1>1, <2>1, <2>2, ListingRightIs, Zenon
<1> QED BY <1>2, <1>3, <1>4, <1>5, <1>6, <1>7, <1>8, <1>9, StepKinds, Zenon
-----------------------------------------------------------------------------
(* Defined behaviour.                                                      *)

\* In a directory that can be searched, and in an empty file, the loops read nothing
\* that is not there.
LEMMA TameDefined ==
  ASSUME TypeOK, ScanInv, Tame(inode)
  PROVE  ~ Undefined
<1>1. SUFFICES ASSUME Undefined PROVE FALSE
  OBVIOUS
<1>2. Scanning
  BY <1>1, Zenon DEF Undefined
<1>3. ~ NotADirectory
  <2>1. image.kind[inode] = "dir" \/ image.kind[inode] = "empty"
    BY Zenon DEF Tame, Searchable
  <2> QED BY <2>1 DEF NotADirectory, Tame
<1>4. j \in Direct .. (Direct + 2) /\ pass > 0
  BY <1>1, <1>3, Zenon DEF Undefined
<1>5. ind_block = Pointers(<<1, SingleBase>>, Used(inode))
  BY <1>2, <1>4, Zenon DEF ScanInv
<1>6. ind_block # Garbage
  BY <1>5, Tables
<1>7. TableRead /\ i < Fan /\ ind_block[i] # NoBlock /\ ind_block[i][1] # 0
  BY <1>1, <1>2, <1>3, <1>4, <1>6, Zenon DEF Undefined, TableRead
<1>8. ind_block[i] = <<0, Direct + i>>
  BY <1>7, TameTable
<1> QED BY <1>7, <1>8

LEMMA ResolveKnown ==
  ASSUME TypeOK, NEW p \in Paths
  PROVE  Resolve(p) # Removed /\ \A h \in 0 .. Len(p) : Walk(p)[h] # NULL => Walk(p)[h] \in Inodes
<1>1. p \in Seq(Names) /\ image \in Images
  <2>1. image \in Images
    BY Zenon DEF TypeOK
  <2> QED BY <2>1, ConstantsAssumption
<1>2. \A h \in 0 .. Len(p) : Walk(p)[h] \in Known
  BY <1>1, WalkIs
<1>3. Len(p) \in 0 .. Len(p)
  BY <1>1
<1>4. Resolve(p) \in Known
  BY <1>2, <1>3, Zenon DEF Resolve
<1> QED BY <1>2, <1>4, Numbering DEF Known

LEMMA DefinedNext ==
  ASSUME TypeOK, WorkInv, AskedInv, RestInv, WalkInv, ScanInv, DataDefined, [Next]_vars
  PROVE  DataDefined'
<1>1. ASSUME NEW c \in Commands, NEW p \in Paths \cup {Dot, NoPath}, Execute(c, p)
      PROVE  DataDefined'
  <2>1. CASE p # Dot /\ p \in {<< >>, NoPath} /\ pc' = "undefined"
    <3>1. asked' = p
      BY <1>1, ExecuteSteps
    <3>2. CASE p = NoPath
      BY <3>1, <3>2, Zenon DEF DataDefined
    <3>3. CASE p # NoPath
      <4>1. p \in Paths /\ p = << >>
        BY <2>1, <3>3
      <4> QED BY <3>1, <4>1, Zenon DEF DataDefined, Walkable
    <3> QED BY <3>2, <3>3
  <2>2. CASE pc' # "undefined"
    BY <2>2, Zenon DEF DataDefined
  <2>3. "walked" # "undefined" /\ "lookup" # "undefined"
    OBVIOUS
  <2> QED BY <1>1, <2>1, <2>2, <2>3, ExecuteSteps, Zenon
<1>2. ASSUME pc' # "undefined" PROVE DataDefined'
  BY <1>2, Zenon DEF DataDefined
<1>3. CASE Loops
  BY <1>2, <1>3 DEF Loops, Scanning
<1>4. ASSUME NEW b, Finds(b) PROVE DataDefined'
  <2>1. pc' # "undefined"
    BY <1>4, FindsSteps
  <2> QED BY <1>2, <2>1
<1>5. CASE Leaves
  BY <1>2, <1>5, LeavesSteps
<1>6. CASE ListDir
  BY <1>2, <1>6, ListDirSteps
<1>7. CASE Prints
  BY <1>2, <1>7 DEF Prints
<1>8. CASE Breaks
  <2>1. pc' = "undefined" /\ UNCHANGED <<image, cmd, asked>>
    BY <1>8, Zenon DEF Breaks
  <2>2. SUFFICES \/ asked \in Paths /\ ~ Walkable(asked)
                 \/ /\ cmd = "ls" /\ Target # NULL
                    /\ image.kind[Target] = "dir" /\ ~ Searchable(Target)
    BY <2>1, SameImage, Zenon DEF DataDefined, Target
  <2>3. CASE Undefined
    <3>1. ~ Tame(inode)
      BY <2>3, TameDefined
    <3>2. CASE pc = "lookup"
      <4>1. asked \in Paths /\ asked \in Seq(Names)
        BY <3>2, ConstantsAssumption DEF AskedInv
      <4>2. ASSUME Walkable(asked) PROVE FALSE
        <5> PICK h : h = Len(asked) - Len(path)
          OBVIOUS
        <5>1. /\ h \in 0 .. (Len(asked) - 1) /\ inode = Walk(asked)[h] /\ inode # NULL
              /\ inode \in Inodes => Tame(inode)
          BY <3>2, <4>2, WalkAt, Zenon
        <5>2. h \in 0 .. Len(asked)
          <6>1. Len(asked) \in Nat
            BY <4>1
          <6> QED BY <5>1, <6>1
        <5>3. inode \in Inodes
          BY <4>1, <5>1, <5>2, ResolveKnown, Zenon
        <5> QED BY <3>1, <5>1, <5>3
      <4> QED BY <4>1, <4>2
    <3>3. CASE pc = "readdir"
      <4>1. /\ cmd = "ls" /\ inode \in Inodes /\ image.kind[inode] = "dir"
            /\ asked \in (Paths \ {<< >>}) \cup {Dot}
        BY <3>3 DEF AskedInv
      <4>2. CASE Followed
        <5>1. inode = Target /\ inode # NULL
          BY <3>3, <4>2, Zenon DEF WalkInv
        <5> QED BY <3>1, <4>1, <5>1, Zenon DEF Tame
      <4>3. CASE ~ Followed
        BY <4>1, <4>3 DEF Followed
      <4> QED BY <4>2, <4>3
    <3> QED BY <2>3, <3>2, <3>3, Zenon DEF Undefined, Scanning
  <2>4. CASE BadInode
    <3>1. pc = "walked" /\ inode = Removed
      BY <2>4, Zenon DEF BadInode
    <3>2. asked \in (Paths \ {<< >>}) \cup {Dot}
      BY <3>1 DEF AskedInv
    <3>3. ~ Followed
      <4>1. SUFFICES ASSUME Followed PROVE FALSE
        OBVIOUS
      <4>2. Target = Removed
        BY <3>1, <4>1, Zenon DEF WalkInv
      <4>3. CASE asked = Dot
        BY <4>2, <4>3, Numbering, Zenon DEF Target
      <4>4. CASE asked # Dot
        <5>1. asked \in Paths
          BY <3>2, <4>4
        <5> QED BY <4>2, <4>4, <5>1, ResolveKnown, Zenon DEF Target
      <4> QED BY <4>3, <4>4
    <3> QED BY <3>2, <3>3 DEF Followed
  <2> QED BY <1>8, <2>3, <2>4 DEF Breaks
<1>9. CASE Rests
  <2>1. CASE pc' = pc
    <3>1. UNCHANGED <<image, cmd, asked, pc>>
      BY <1>9, <2>1, Zenon DEF Rests
    <3> QED BY <3>1, SameImage, Zenon DEF DataDefined
  <2>2. CASE pc' = "exited"
    BY <1>2, <2>2
  <2> QED BY <1>9, <2>1, <2>2, Zenon DEF Rests
<1> QED BY <1>1, <1>3, <1>4, <1>5, <1>6, <1>7, <1>8, <1>9, StepKinds, Zenon

LEMMA HeapNext ==
  ASSUME TypeOK, WorkInv, HeapDefined, [Next]_vars
  PROVE  HeapDefined'
<1>1. ASSUME pc' # "corrupted" PROVE HeapDefined'
  BY <1>1, Zenon DEF HeapDefined
<1>2. ASSUME NEW c \in Commands, NEW p \in Paths \cup {Dot, NoPath}, Execute(c, p)
      PROVE  HeapDefined'
  <2>1. "walked" # "corrupted" /\ "lookup" # "corrupted" /\ "undefined" # "corrupted"
    OBVIOUS
  <2> QED BY <1>1, <1>2, <2>1, ExecuteSteps, Zenon
<1>3. CASE Loops
  BY <1>1, <1>3 DEF Loops, Scanning
<1>4. ASSUME NEW b, Finds(b) PROVE HeapDefined'
  <2>1. pc' # "corrupted"
    BY <1>4, FindsSteps
  <2> QED BY <1>1, <2>1
<1>5. CASE Leaves
  BY <1>1, <1>5, LeavesSteps
<1>6. CASE ListDir
  BY <1>1, <1>6, ListDirSteps
<1>7. CASE Prints
  BY <1>7 DEF Prints, HeapDefined
<1>8. CASE Breaks
  BY <1>1, <1>8 DEF Breaks
<1>9. CASE Rests
  <2>1. CASE pc' = pc
    BY <1>9, <2>1, Zenon DEF Rests, HeapDefined
  <2>2. CASE pc' = "exited"
    BY <1>1, <2>2
  <2> QED BY <1>9, <2>1, <2>2, Zenon DEF Rests
<1> QED BY <1>2, <1>3, <1>4, <1>5, <1>6, <1>7, <1>8, <1>9, StepKinds, Zenon

-----------------------------------------------------------------------------
(* The theorems.                                                           *)

IInv ==
  /\ TypeOK /\ WorkInv
  /\ AskedInv /\ RestInv /\ WalkInv /\ ScanInv /\ MissInv /\ ListInv
  /\ Refused /\ ListingRight /\ DataDefined /\ HeapDefined

LEMMA InitInv == Init => IInv
<1> SUFFICES ASSUME Init PROVE IInv
  OBVIOUS
<1>1. /\ answer = "none" /\ pc \in {"prompt", "corrupted"}
      /\ pc = "corrupted" => ~ (Room >= 3)
  BY DEF Init
<1>2. TypeOK /\ WorkInv
  BY InitTypes
<1>3. AskedInv /\ RestInv /\ WalkInv /\ MissInv /\ ListInv /\ ScanInv
  BY <1>1 DEF AskedInv, RestInv, WalkInv, MissInv, ListInv, ScanInv, Scanning
<1>4. Refused /\ ListingRight /\ DataDefined
  BY <1>1 DEF Refused, ListingRight, DataDefined
<1>5. HeapDefined
  BY <1>1, RoomAssumption DEF HeapDefined
<1> QED BY <1>2, <1>3, <1>4, <1>5, Zenon DEF IInv

LEMMA NextInv == IInv /\ [Next]_vars => IInv'
<1> SUFFICES ASSUME IInv, [Next]_vars PROVE IInv'
  OBVIOUS
<1>1. /\ TypeOK /\ WorkInv
      /\ AskedInv /\ RestInv /\ WalkInv /\ ScanInv /\ MissInv /\ ListInv
      /\ Refused /\ ListingRight /\ DataDefined /\ HeapDefined
  BY Zenon DEF IInv
<1>2. TypeOK' /\ WorkInv'
  BY <1>1, TypeNext
<1>3. AskedInv' /\ RestInv'
  BY <1>1, AskedNext, RestNext
<1>4. WalkInv' /\ Refused'
  BY <1>1, WalkNext, RefusedNext
<1>5. ScanInv' /\ MissInv'
  BY <1>1, ScanNext, MissNext
<1>6. ListInv' /\ ListingRight'
  BY <1>1, ListNext, ListingNext
<1>7. DataDefined' /\ HeapDefined'
  BY <1>1, DefinedNext, HeapNext
<1> QED BY <1>2, <1>3, <1>4, <1>5, <1>6, <1>7, Zenon DEF IInv

\* Every variable has its type: no counter leaves its loop, and what is listed are inode
\* numbers.
THEOREM Typing == Spec => []TypeOK
<1>1. IInv => TypeOK
  BY Zenon DEF IInv
<1> QED BY <1>1, InitInv, NextInv, PTL DEF Spec

\* pathwalk ends at the file that the path names, and says that there is none only when
\* there is none, in every image, for every path that passes searchable directories.
THEOREM Walking == Spec => []WalkRight
<1>1. IInv => WalkRight
  <2> SUFFICES ASSUME IInv PROVE WalkRight
    OBVIOUS
  <2>1. WalkInv /\ Refused
    BY Zenon DEF IInv
  <2>2. Dot \notin Paths
    BY ConstantsAssumption
  <2> QED BY <2>1, <2>2, Zenon DEF WalkRight, WalkInv, Refused, Followed, Target
<1> QED BY <1>1, InitInv, NextInv, PTL DEF Spec

\* ls lists every entry of a directory that fits in the direct blocks once, in order.
THEOREM Listing == Spec => []ListingRight
<1>1. IInv => ListingRight
  BY Zenon DEF IInv
<1> QED BY <1>1, InitInv, NextInv, PTL DEF Spec

\* A session leaves defined behaviour only when the path of a command is left out or
\* cannot be walked, when ls is given a directory that cannot be searched, when cat is
\* used a second time (ext2.c 638), or at once, when malloc(2) gives less than the three
\* bytes of the root's name (fs.c 68-69, ext2.c 689-690).
THEOREM Defined == Spec => []StaysDefined
<1>1. IInv => StaysDefined
  BY Zenon DEF IInv, StaysDefined
<1> QED BY <1>1, InitInv, NextInv, PTL DEF Spec
=============================================================================
