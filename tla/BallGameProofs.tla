--------------------------- MODULE BallGameProofs ---------------------------
(***************************************************************************)
(* Proofs about BallGame for any number of balls, any levels, any health   *)
(* and any values of timer 1.                                              *)
(***************************************************************************)
EXTENDS BallGame, TLAPS, FiniteSetTheorems, SequenceTheorems

-----------------------------------------------------------------------------
(* Bytes, rows and columns.                                                *)

Byte == 0 .. 255

LEMMA Numbers ==
  /\ Balls \in 1 .. 249 /\ LastBall = Balls + 6
  /\ Level2Below \in 2 .. Balls - 1 /\ Level3Below \in 1 .. Level2Below - 1
  /\ Health \in 1 .. 255
<1>1. /\ Balls \in 1 .. 255 /\ Level2Below \in 1 .. 255 /\ Level3Below \in 1 .. 255
      /\ Health \in 1 .. 255 /\ LastBall = Balls + 6 /\ LastBall <= 255
      /\ Level3Below < Level2Below /\ Level2Below < Balls
  BY ConstantsAssumption
<1> QED BY <1>1

\* The word of the two timer bytes.
Word(t) == 256 * t[1] + t[2]

\* Both bytes rotated, and their high bits exchanged.
LEMMA Rotate1 ==
  ASSUME NEW h \in Byte, NEW l \in Byte
  PROVE  LET s == Exchange(RRNCF(h, 1), RRNCF(l, 1), 128)
         IN  s \in Byte \X Byte /\ Word(s) = Service!RotateRight(Word(<<h, l>>), 1)
<1> DEFINE s == Exchange(RRNCF(h, 1), RRNCF(l, 1), 128)
<1>1. PICK a \in 0 .. 127, b \in 0 .. 1 : h = 2 * a + b /\ h \div 2 = a /\ h % 2 = b
  <2>1. /\ h \div 2 \in 0 .. 127 /\ h % 2 \in 0 .. 1
        /\ h = 2 * (h \div 2) + (h % 2)
    BY DEF Byte
  <2> QED BY <2>1
<1>2. PICK c \in 0 .. 127, d \in 0 .. 1 : l = 2 * c + d /\ l \div 2 = c /\ l % 2 = d
  <2>1. /\ l \div 2 \in 0 .. 127 /\ l % 2 \in 0 .. 1
        /\ l = 2 * (l \div 2) + (l % 2)
    BY DEF Byte
  <2> QED BY <2>1
<1>3. (a + b * 128) % 128 = a /\ (c + d * 128) % 128 = c
  OBVIOUS
<1>4. RRNCF(h, 1) = a + b * 128 /\ RRNCF(l, 1) = c + d * 128
  <2>1. 2 ^ 1 = 2 /\ 2 ^ (8 - 1) = 128
    OBVIOUS
  <2> QED BY <1>1, <1>2, <2>1 DEF RRNCF
<1>5. s = << a + d * 128, c + b * 128 >>
  <2>1. /\ a + ((c + d * 128) - c) = a + d * 128
        /\ c + ((a + b * 128) - a) = c + b * 128
    OBVIOUS
  <2> QED BY <1>3, <1>4, <2>1 DEF Exchange
<1>6. PICK w \in Nat : w = 256 * h + l /\ w = Word(<<h, l>>)
  BY DEF Byte, Word
<1>7. w = 2 * (256 * a + 128 * b + c) + d
  BY <1>1, <1>2, <1>6
<1>8. w % 2 = d /\ w \div 2 = 256 * a + 128 * b + c
  BY <1>7
<1>9. Service!RotateRight(w, 1) = 256 * (a + d * 128) + (c + b * 128)
  <2>1. 2 ^ 1 = 2 /\ 2 ^ (16 - 1) = 32768
    OBVIOUS
  <2> QED BY <1>8, <2>1 DEF Service!RotateRight
<1>10. s \in Byte \X Byte /\ Word(s) = 256 * (a + d * 128) + (c + b * 128)
  <2> HIDE DEF s
  <2>1. a + d * 128 \in 0 .. 255 /\ c + b * 128 \in 0 .. 255
    OBVIOUS
  <2> QED BY <1>5, <2>1 DEF Byte, Word
<1> QED BY <1>6, <1>9, <1>10

LEMMA Rotate3 ==
  ASSUME NEW h \in Byte, NEW l \in Byte
  PROVE  LET s == Exchange(RRNCF(h, 3), RRNCF(l, 3), 32)
         IN  s \in Byte \X Byte /\ Word(s) = Service!RotateRight(Word(<<h, l>>), 3)
<1> DEFINE s == Exchange(RRNCF(h, 3), RRNCF(l, 3), 32)
<1>1. PICK a \in 0 .. 31, b \in 0 .. 7 : h = 8 * a + b /\ h \div 8 = a /\ h % 8 = b
  <2>1. /\ h \div 8 \in 0 .. 31 /\ h % 8 \in 0 .. 7
        /\ h = 8 * (h \div 8) + (h % 8)
    BY DEF Byte
  <2> QED BY <2>1
<1>2. PICK c \in 0 .. 31, d \in 0 .. 7 : l = 8 * c + d /\ l \div 8 = c /\ l % 8 = d
  <2>1. /\ l \div 8 \in 0 .. 31 /\ l % 8 \in 0 .. 7
        /\ l = 8 * (l \div 8) + (l % 8)
    BY DEF Byte
  <2> QED BY <2>1
<1>3. (a + b * 32) % 32 = a /\ (c + d * 32) % 32 = c
  OBVIOUS
<1>4. RRNCF(h, 3) = a + b * 32 /\ RRNCF(l, 3) = c + d * 32
  <2>1. 2 ^ 3 = 8 /\ 2 ^ (8 - 3) = 32
    OBVIOUS
  <2> QED BY <1>1, <1>2, <2>1 DEF RRNCF
<1>5. s = << a + d * 32, c + b * 32 >>
  <2>1. /\ a + ((c + d * 32) - c) = a + d * 32
        /\ c + ((a + b * 32) - a) = c + b * 32
    OBVIOUS
  <2> QED BY <1>3, <1>4, <2>1 DEF Exchange
<1>6. PICK w \in Nat : w = 256 * h + l /\ w = Word(<<h, l>>)
  BY DEF Byte, Word
<1>7. w = 8 * (256 * a + 32 * b + c) + d
  BY <1>1, <1>2, <1>6
<1>8. w % 8 = d /\ w \div 8 = 256 * a + 32 * b + c
  BY <1>7
<1>9. Service!RotateRight(w, 3) = 256 * (a + d * 32) + (c + b * 32)
  <2>1. 2 ^ 3 = 8 /\ 2 ^ (16 - 3) = 8192
    OBVIOUS
  <2> QED BY <1>8, <2>1 DEF Service!RotateRight
<1>10. s \in Byte \X Byte /\ Word(s) = 256 * (a + d * 32) + (c + b * 32)
  <2> HIDE DEF s
  <2>1. a + d * 32 \in 0 .. 255 /\ c + b * 32 \in 0 .. 255
    OBVIOUS
  <2> QED BY <1>5, <2>1 DEF Byte, Word
<1> QED BY <1>6, <1>9, <1>10

LEMMA Rotate5 ==
  ASSUME NEW h \in Byte, NEW l \in Byte
  PROVE  LET s == Exchange(RLNCF(h, 3), RLNCF(l, 3), 8)
         IN  s \in Byte \X Byte /\ Word(s) = Service!RotateRight(Word(<<h, l>>), 5)
<1> DEFINE s == Exchange(RLNCF(h, 3), RLNCF(l, 3), 8)
<1>1. PICK a \in 0 .. 7, b \in 0 .. 31 : h = 32 * a + b /\ h \div 32 = a /\ h % 32 = b
  <2>1. /\ h \div 32 \in 0 .. 7 /\ h % 32 \in 0 .. 31
        /\ h = 32 * (h \div 32) + (h % 32)
    BY DEF Byte
  <2> QED BY <2>1
<1>2. PICK c \in 0 .. 7, d \in 0 .. 31 : l = 32 * c + d /\ l \div 32 = c /\ l % 32 = d
  <2>1. /\ l \div 32 \in 0 .. 7 /\ l % 32 \in 0 .. 31
        /\ l = 32 * (l \div 32) + (l % 32)
    BY DEF Byte
  <2> QED BY <2>1
<1>3. (a + b * 8) % 8 = a /\ (c + d * 8) % 8 = c
  OBVIOUS
<1>4. RLNCF(h, 3) = a + b * 8 /\ RLNCF(l, 3) = c + d * 8
  <2>1. 8 - 3 = 5 /\ 8 - 5 = 3 /\ 2 ^ 5 = 32 /\ 2 ^ (8 - 5) = 8
    OBVIOUS
  <2> QED BY <1>1, <1>2, <2>1 DEF RRNCF, RLNCF
<1>5. s = << a + d * 8, c + b * 8 >>
  <2>1. /\ a + ((c + d * 8) - c) = a + d * 8
        /\ c + ((a + b * 8) - a) = c + b * 8
    OBVIOUS
  <2> QED BY <1>3, <1>4, <2>1 DEF Exchange
<1>6. PICK w \in Nat : w = 256 * h + l /\ w = Word(<<h, l>>)
  BY DEF Byte, Word
<1>7. w = 32 * (256 * a + 8 * b + c) + d
  BY <1>1, <1>2, <1>6
<1>8. w % 32 = d /\ w \div 32 = 256 * a + 8 * b + c
  BY <1>7
<1>9. Service!RotateRight(w, 5) = 256 * (a + d * 8) + (c + b * 8)
  <2>1. 2 ^ 5 = 32 /\ 2 ^ (16 - 5) = 2048
    OBVIOUS
  <2> QED BY <1>8, <2>1 DEF Service!RotateRight
<1>10. s \in Byte \X Byte /\ Word(s) = 256 * (a + d * 8) + (c + b * 8)
  <2> HIDE DEF s
  <2>1. a + d * 8 \in 0 .. 255 /\ c + b * 8 \in 0 .. 255
    OBVIOUS
  <2> QED BY <1>5, <2>1 DEF Byte, Word
<1> QED BY <1>6, <1>9, <1>10

\* Shifting the two bytes with masks rotates the word.
LEMMA Shifter ==
  ASSUME NEW t \in Byte \X Byte, NEW lvl \in 1 .. 3
  PROVE  /\ timer1_shifter(t, lvl) \in Byte \X Byte
         /\ Word(timer1_shifter(t, lvl)) = Service!RotateRight(Word(t), 2 * lvl - 1)
<1>1. PICK h \in Byte, l \in Byte : t = <<h, l>>
  OBVIOUS
<1>2. CASE lvl = 1
  <2>1. 2 * lvl - 1 = 1
    BY <1>2
  <2> QED BY <1>1, <1>2, <2>1, Rotate1 DEF timer1_shifter
<1>3. CASE lvl = 2
  <2>1. 2 * lvl - 1 = 3
    BY <1>3
  <2> QED BY <1>1, <1>3, <2>1, Rotate3 DEF timer1_shifter
<1>4. CASE lvl = 3
  <2>1. 2 * lvl - 1 = 5
    BY <1>4
  <2> QED BY <1>1, <1>4, <2>1, Rotate5 DEF timer1_shifter
<1> QED BY <1>2, <1>3, <1>4

\* The latches after a fall, row by row.
Fallen(latches, bar, count, t) ==
  create_random_ball(check_barleft(Rotated(latches), bar), count, t)

LEMMA FallRows ==
  ASSUME NEW latches \in [Columns -> SUBSET (0 .. 5)], NEW bar \in 0 .. 2,
         NEW count \in Nat, NEW t \in Byte \X Byte
  PROVE  LET new == Fallen(latches, bar, count, t)
         IN  /\ new \in [Columns -> SUBSET (0 .. 5)]
             /\ \A c \in Columns :
                  /\ 0 \in new[c] <=> count # 0 /\ c = mod_value(t)
                  /\ \A r \in 1 .. 4 : r \in new[c] <=> r - 1 \in latches[c]
                  /\ 5 \in new[c] <=> 4 \in latches[c] \/ c \in Under(bar)
<1> DEFINE old(c) == {(b + 1) % 8 : b \in latches[c]} \ {6}
           new == Fallen(latches, bar, count, t)
<1>1. new = [c \in Columns |-> (old(c) \cup (IF c \in Under(bar) THEN {5} ELSE {}))
                               \cup (IF count # 0 /\ c = mod_value(t) THEN {0} ELSE {})]
  BY DEF Fallen, create_random_ball, check_barleft, Rotated
<1>2. ASSUME NEW c \in Columns
      PROVE  /\ old(c) \subseteq 1 .. 5
             /\ \A r \in 1 .. 5 : r \in old(c) <=> r - 1 \in latches[c]
  <2>1. \A b \in latches[c] : b \in 0 .. 5
    OBVIOUS
  <2>2. \A b \in 0 .. 5 : (b + 1) % 8 = b + 1
    OBVIOUS
  <2>3. old(c) = {b + 1 : b \in latches[c]} \ {6}
    BY <2>1, <2>2
  <2> HIDE DEF old
  <2> QED BY <2>1, <2>3
<1> HIDE DEF old
<1>3. ASSUME NEW c \in Columns
      PROVE  new[c] = (old(c) \cup (IF c \in Under(bar) THEN {5} ELSE {}))
                      \cup (IF count # 0 /\ c = mod_value(t) THEN {0} ELSE {})
  BY <1>1
<1>4. new \in [Columns -> SUBSET (0 .. 5)]
  <2>1. \A c \in Columns : new[c] \subseteq 0 .. 5
    BY <1>2, <1>3
  <2> QED BY <1>1, <2>1
<1> HIDE DEF new
<1>5. ASSUME NEW c \in Columns
      PROVE  /\ 0 \in new[c] <=> count # 0 /\ c = mod_value(t)
             /\ \A r \in 1 .. 4 : r \in new[c] <=> r - 1 \in latches[c]
             /\ 5 \in new[c] <=> 4 \in latches[c] \/ c \in Under(bar)
  <2>1. \A r \in 1 .. 5 : r \in old(c) <=> r - 1 \in latches[c]
    BY <1>2
  <2>2. 0 \notin old(c)
    BY <1>2
  <2>3. 5 \in old(c) <=> 4 \in latches[c]
    BY <2>1
  <2> QED BY <1>3, <2>1, <2>2, <2>3
<1> QED BY <1>4, <1>5 DEF new

\* A ball is missed where it is in the last row and not on the bar.
LEMMA MissedBalls ==
  ASSUME NEW latches \in [Columns -> SUBSET (0 .. 5)], NEW bar \in 0 .. 2
  PROVE  Missed(Rotated(latches), bar) = {c \in Columns \ Under(bar) : 5 \in latches[c]}
<1>1. ASSUME NEW c \in Columns PROVE 6 \in Rotated(latches)[c] <=> 5 \in latches[c]
  <2>1. \A b \in latches[c] : b \in 0 .. 5
    OBVIOUS
  <2>2. \A b \in 0 .. 5 : (b + 1) % 8 = b + 1
    OBVIOUS
  <2>3. Rotated(latches)[c] = {b + 1 : b \in latches[c]}
    BY <2>1, <2>2 DEF Rotated
  <2> QED BY <2>1, <2>3
<1> QED BY <1>1 DEF Missed

LEMMA ColumnSets ==
  ASSUME NEW S \in SUBSET Columns
  PROVE  /\ IsFiniteSet(S) /\ Cardinality(S) \in 0 .. 4
         /\ (\A c, d \in S : c = d) => Cardinality(S) <= 1
         /\ Cardinality(S) = 0 <=> S = {}
<1>1. 0 \in Int /\ 3 \in Int
  OBVIOUS
<1>2. IsFiniteSet(Columns) /\ Cardinality(Columns) = 4
  <2>1. /\ IsFiniteSet(0 .. 3)
        /\ Cardinality(0 .. 3) = IF 0 > 3 THEN 0 ELSE 3 - 0 + 1
    BY <1>1, FS_Interval, Zenon
  <2> QED BY <2>1 DEF Columns
<1>3. IsFiniteSet(S) /\ Cardinality(S) \in 0 .. 4 /\ (Cardinality(S) = 0 <=> S = {})
  BY <1>2, FS_Subset, FS_CardinalityType, FS_EmptySet
<1>4. ASSUME \A c, d \in S : c = d PROVE Cardinality(S) <= 1
  <2>1. CASE S = {}
    BY <1>3, <2>1
  <2>2. CASE S # {}
    <3>1. PICK c \in S : S = {c}
      BY <1>4, <2>2
    <3> QED BY <3>1, FS_Singleton
  <2> QED BY <2>1, <2>2
<1> QED BY <1>3, <1>4

-----------------------------------------------------------------------------
(* What the program keeps.                                                 *)

\* How many balls are left of a level when its last fall is over.
Least(lvl) == IF lvl = 1 THEN Level2Below ELSE Level3Below

\* While a game is played the counters agree with each other and with the level:
\* level 1 and 2 end at the first test after their last fall.
CountInv ==
  Playing =>
    /\ health_point > 0
    /\ \/ last_ball = ball_count + 6
       \/ level = 3 /\ ball_count = 0 /\ last_ball <= 6
    /\ level < 3 => ball_count >= Least(level) - (IF pc = "check_overflow" THEN 0 ELSE 1)
    /\ level = 3 /\ pc = "check_overflow" => last_ball > 0

\* In each row there is one ball, and one at most has got past the bar.
OneBall ==
  \A c, d \in Columns :
    /\ \A r \in 0 .. 4 : r \in lat[c] /\ r \in lat[d] => c = d
    /\ c \in Uncaught /\ d \in Uncaught => c = d

\* What the return stack holds is lost four at a time.
StackInv == stack \in Nat /\ stack % 4 = 1

ScreenInv == IF Playing THEN OneBall ELSE lat = BarOnly

IInv == TypeOK /\ StackInv /\ CountInv /\ ScreenInv

LEMMA BarOnlyType == BarOnly \in [Columns -> SUBSET (0 .. 5)]
BY DEF BarOnly

LEMMA InitIInv == Init => IInv
<1> SUFFICES ASSUME Init PROVE IInv
  OBVIOUS
<1>1. /\ health_point \in 0 .. Health /\ ball_count \in 0 .. Balls
      /\ last_ball \in 0 .. LastBall
  BY Numbers DEF Init
<1>2. stack + 3 < StackLevels /\ StackInv
  BY ConstantsAssumption DEF Init, StackInv
<1>3. tmr1 \in (0 .. 255) \X (0 .. 255) /\ bar_left \in 0 .. 2 /\ level \in 1 .. 3
  BY DEF Init
<1>4. TypeOK
  BY <1>1, <1>2, <1>3, BarOnlyType DEF Init, TypeOK
<1>5. ~Playing /\ lat = BarOnly
  BY DEF Init, Playing
<1> QED BY <1>2, <1>4, <1>5 DEF IInv, CountInv, ScreenInv

\* misses counts what is in the last row beside the bar.
LEMMA Misses ==
  ASSUME TypeOK
  PROVE  /\ Uncaught \subseteq Columns /\ misses = Cardinality(Uncaught) /\ misses \in 0 .. 4
         /\ OneBall => misses <= 1
         /\ misses = 0 <=> Uncaught = {}
<1>1. Missed(Rotated(lat), bar_left) = Uncaught
  BY MissedBalls DEF TypeOK, Uncaught
<1>2. Uncaught \in SUBSET Columns
  BY DEF Uncaught
<1>3. OneBall => \A c, d \in Uncaught : c = d
  BY <1>2 DEF OneBall
<1> QED BY <1>1, <1>2, <1>3, ColumnSets DEF misses

\* One fall, from the state before it.
LEMMA Fall ==
  ASSUME NEW latches \in [Columns -> SUBSET (0 .. 5)], NEW bar \in 0 .. 2,
         NEW t \in Byte \X Byte, NEW count \in 0 .. Balls, NEW last \in 1 .. LastBall,
         NEW lvl \in 1 .. 3,
         balls_create_down(latches, bar, t, count, last, lvl)
  PROVE  /\ lat' = Fallen(latches, bar, count, t)
         /\ lat' \in [Columns -> SUBSET (0 .. 5)]
         /\ tmr1' \in Byte \X Byte
         /\ ball_count' = (IF count = 0 THEN 0 ELSE count - 1)
         /\ ball_count' \in 0 .. Balls
         /\ last_ball' = last - 1 /\ last_ball' \in 0 .. LastBall
<1>1. count \in Nat /\ LastBall <= 255 /\ LastBall \in Nat /\ Balls \in Nat
  BY Numbers, ConstantsAssumption
<1>2. lat' = Fallen(latches, bar, count, t) /\ lat' \in [Columns -> SUBSET (0 .. 5)]
  BY <1>1, FallRows DEF balls_create_down, Fallen
<1>3. tmr1' \in Byte \X Byte
  BY Shifter DEF balls_create_down
<1>4. (last - 1) % 256 = last - 1
  BY <1>1
<1> QED BY <1>1, <1>2, <1>3, <1>4 DEF balls_create_down, DecLastBall

\* After a fall there is again one ball in each row.
LEMMA FallOneBall ==
  ASSUME NEW latches \in [Columns -> SUBSET (0 .. 5)], NEW bar \in 0 .. 2,
         NEW t \in Byte \X Byte, NEW count \in Nat,
         \A c, d \in Columns : \A r \in 0 .. 4 : r \in latches[c] /\ r \in latches[d] => c = d,
         lat' = Fallen(latches, bar, count, t), bar_left' = bar
  PROVE  OneBall'
<1>1. \A c \in Columns :
        /\ 0 \in lat'[c] <=> count # 0 /\ c = mod_value(t)
        /\ \A r \in 1 .. 4 : r \in lat'[c] <=> r - 1 \in latches[c]
        /\ 5 \in lat'[c] <=> 4 \in latches[c] \/ c \in Under(bar)
  BY FallRows
<1>2. ASSUME NEW c \in Columns, NEW d \in Columns, NEW r \in 0 .. 4,
             r \in lat'[c], r \in lat'[d]
      PROVE  c = d
  <2>1. CASE r = 0
    BY <1>1, <1>2, <2>1
  <2>2. CASE r # 0
    <3>1. r \in 1 .. 4 /\ r - 1 \in 0 .. 4
      BY <2>2
    <3> QED BY <1>1, <1>2, <3>1
  <2> QED BY <2>1, <2>2
<1>3. ASSUME NEW c \in Columns, NEW d \in Columns, c \in Uncaught', d \in Uncaught'
      PROVE  c = d
  <2>1. /\ 5 \in lat'[c] /\ c \notin Under(bar)
        /\ 5 \in lat'[d] /\ d \notin Under(bar)
    BY <1>3 DEF Uncaught
  <2>2. 4 \in latches[c] /\ 4 \in latches[d]
    BY <1>1, <2>1
  <2> QED BY <2>2
<1> QED BY <1>2, <1>3 DEF OneBall

-----------------------------------------------------------------------------
(* One lemma per action: the invariant is preserved.                       *)

\* The steps that change nothing but where the program is, or only the flag.
LEMMA Quiet ==
  ASSUME IInv, Playing, Playing',
         UNCHANGED <<stack, tmr1, lat, bar_left, counters>>,
         timer0_overflowed_flag' \in BOOLEAN,
         pc' \in {"check_RG0", "check_RG0_release", "check_overflow", "check_RG2",
                  "check_RG2_release", "check_RG3", "check_RG3_release", "test"},
         pc' = "check_overflow" /\ pc # "check_overflow" =>
           /\ level < 3 => ball_count >= Least(level)
           /\ level = 3 => last_ball > 0
  PROVE  IInv'
<1>1. TypeOK'
  BY DEF IInv, TypeOK, counters
<1>2. StackInv' /\ ScreenInv'
  BY DEF IInv, StackInv, ScreenInv, OneBall, Uncaught
<1>3. CountInv'
  <2>1. /\ health_point > 0
        /\ \/ last_ball = ball_count + 6
           \/ level = 3 /\ ball_count = 0 /\ last_ball <= 6
        /\ level < 3 => ball_count >= Least(level) - (IF pc = "check_overflow" THEN 0 ELSE 1)
        /\ level = 3 /\ pc = "check_overflow" => last_ball > 0
    BY DEF IInv, CountInv
  <2>2. /\ ball_count \in Int /\ level \in Int /\ Least(level) \in Int
    BY Numbers DEF IInv, TypeOK, Least
  <2>3. level < 3 => ball_count >= Least(level) - (IF pc' = "check_overflow" THEN 0 ELSE 1)
    BY <2>1, <2>2
  <2>4. level = 3 /\ pc' = "check_overflow" => last_ball > 0
    BY <2>1
  <2>5. Least(level)' = Least(level)
    BY DEF Least, counters
  <2> QED BY <2>1, <2>3, <2>4, <2>5 DEF CountInv, counters
<1> QED BY <1>1, <1>2, <1>3 DEF IInv

LEMMA isr_timeintervalIInv == IInv /\ isr_timeinterval => IInv'
<1> SUFFICES ASSUME IInv, isr_timeinterval PROVE IInv'
  OBVIOUS
<1>1. Playing /\ Playing' /\ pc' = pc
  BY DEF isr_timeinterval, Playing
<1>2. pc \in {"check_RG0", "check_RG0_release", "check_overflow", "check_RG2",
              "check_RG2_release", "check_RG3", "check_RG3_release", "test"}
  BY DEF IInv, TypeOK
<1> QED BY <1>1, <1>2, Quiet DEF isr_timeinterval

LEMMA NoOverflowIInv == IInv /\ NoOverflow => IInv'
<1> SUFFICES ASSUME IInv, NoOverflow PROVE IInv'
  OBVIOUS
<1>1. Playing /\ Playing' /\ timer0_overflowed_flag \in BOOLEAN
  BY DEF NoOverflow, Playing, IInv, TypeOK
<1> QED BY <1>1, Quiet DEF NoOverflow

LEMMA CheckIInv == IInv /\ (check_RG2 \/ check_RG3) => IInv'
<1> SUFFICES ASSUME IInv, check_RG2 \/ check_RG3 PROVE IInv'
  OBVIOUS
<1>1. Playing /\ Playing' /\ timer0_overflowed_flag \in BOOLEAN
  BY DEF check_RG2, check_RG3, Check, Playing, IInv, TypeOK
<1>2. /\ pc' \in {"check_RG2_release", "check_RG3", "check_RG3_release", "test"}
      /\ timer0_overflowed_flag' = timer0_overflowed_flag
      /\ UNCHANGED <<stack, tmr1, lat, bar_left, counters>>
  BY DEF check_RG2, check_RG3, Check
<1> QED BY <1>1, <1>2, Quiet

LEMMA SameLevelIInv == IInv /\ SameLevel => IInv'
<1> SUFFICES ASSUME IInv, SameLevel PROVE IInv'
  OBVIOUS
<1>1. Playing /\ Playing' /\ timer0_overflowed_flag \in BOOLEAN
  BY DEF SameLevel, Playing, IInv, TypeOK
<1>2. level \in 1 .. 3 /\ ball_count \in Nat /\ last_ball \in Nat
  BY DEF IInv, TypeOK
<1>3. \/ last_ball = ball_count + 6
      \/ level = 3 /\ ball_count = 0 /\ last_ball <= 6
  BY <1>1 DEF IInv, CountInv
<1>4. \/ level = 1 /\ ball_count >= Level2Below
      \/ level = 2 /\ ball_count >= Level3Below
      \/ level = 3 /\ (ball_count # 0 \/ last_ball # 0)
  BY DEF SameLevel
<1>5. level < 3 => ball_count >= Least(level)
  BY <1>2, <1>4 DEF Least
<1>6. level = 3 => last_ball > 0
  BY <1>2, <1>3, <1>4
<1> QED BY <1>1, <1>5, <1>6, Quiet DEF SameLevel

LEMMA NextLevelIInv == IInv /\ NextLevel => IInv'
<1> SUFFICES ASSUME IInv, NextLevel PROVE IInv'
  OBVIOUS
<1>1. Playing /\ Playing' /\ pc' = "check_overflow" /\ pc = "test" /\ level' = level + 1
  BY DEF NextLevel, Playing
<1>2. level \in 1 .. 3 /\ ball_count \in 0 .. Balls /\ last_ball \in Nat
  BY DEF IInv, TypeOK
<1>3. (level = 1 /\ ball_count < Level2Below) \/ (level = 2 /\ ball_count < Level3Below)
  BY DEF NextLevel
<1>4. /\ health_point > 0 /\ last_ball = ball_count + 6
      /\ ball_count >= Least(level) - 1
  BY <1>1, <1>2, <1>3 DEF IInv, CountInv
<1>5. level' \in 2 .. 3
  BY <1>1, <1>3
<1>6. level' < 3 => ball_count >= Level3Below
  BY <1>1, <1>2, <1>3, <1>4, Numbers DEF Least
<1>7. TypeOK'
  BY <1>5 DEF IInv, TypeOK, NextLevel
<1>8. StackInv' /\ ScreenInv'
  BY <1>1 DEF IInv, StackInv, ScreenInv, OneBall, Uncaught, NextLevel
<1>9. CountInv'
  <2>1. last_ball > 0
    BY <1>2, <1>4
  <2>2. level' < 3 => ball_count >= Least(level)' - 0
    BY <1>2, <1>5, <1>6, Numbers DEF Least
  <2>3. UNCHANGED <<health_point, ball_count, last_ball>>
    BY DEF NextLevel
  <2> QED BY <1>1, <1>4, <2>1, <2>2, <2>3 DEF CountInv
<1> QED BY <1>7, <1>8, <1>9 DEF IInv

\* A game is over, or the chip starts again.
LEMMA Stopped ==
  ASSUME ~Playing', TypeOK', StackInv', lat' = BarOnly
  PROVE  IInv'
BY DEF IInv, CountInv, ScreenInv, BarOnly

LEMMA check_RG0IInv == IInv /\ check_RG0 => IInv'
<1> SUFFICES ASSUME IInv, check_RG0 PROVE IInv'
  OBVIOUS
<1>1. ~Playing /\ ~Playing'
  BY DEF check_RG0, Playing
<1>2. TypeOK' /\ StackInv'
  BY DEF IInv, TypeOK, StackInv, check_RG0, counters
<1>3. lat' = BarOnly
  BY <1>1 DEF IInv, ScreenInv, check_RG0
<1> QED BY <1>1, <1>2, <1>3, Stopped

LEMMA check_last_ballIInv == IInv /\ check_last_ball => IInv'
<1> SUFFICES ASSUME IInv, check_last_ball PROVE IInv'
  OBVIOUS
<1>1. ~Playing' /\ lat' = BarOnly
  BY DEF check_last_ball, zero_health, Playing
<1>2. TypeOK' /\ StackInv'
  BY BarOnlyType DEF IInv, TypeOK, StackInv, check_last_ball, zero_health, counters
<1> QED BY <1>1, <1>2, Stopped

LEMMA StackResetIInv == IInv /\ StackReset => IInv'
<1> SUFFICES ASSUME IInv, StackReset PROVE IInv'
  OBVIOUS
<1>1. ~Playing' /\ lat' = BarOnly
  BY DEF StackReset, Playing
<1>2. stack' + 3 < StackLevels /\ StackInv'
  BY ConstantsAssumption DEF StackReset, StackInv
<1>3. TypeOK'
  BY <1>2, BarOnlyType, Numbers DEF IInv, TypeOK, StackReset
<1> QED BY <1>1, <1>2, <1>3, Stopped

\* The stack stays one level over a multiple of four: what a lost game leaves there fits
\* as long as the display of that game did.
LEMMA LostStack ==
  ASSUME IInv, Deepest < StackLevels, stack' = stack + 4
  PROVE  stack' + 3 < StackLevels /\ StackInv'
<1>1. stack % 4 = 1 /\ StackLevels % 4 # 0 /\ StackLevels \in Nat /\ stack + 6 < StackLevels
  BY ConstantsAssumption DEF IInv, StackInv, Deepest
<1>2. stack \in Nat
  BY DEF IInv, StackInv
<1>3. stack' % 4 = 1 /\ stack + 7 # StackLevels
  BY <1>1, <1>2
<1> QED BY <1>1, <1>2, <1>3 DEF StackInv

LEMMA decrease_healthIInv == IInv /\ decrease_health => IInv'
<1> SUFFICES ASSUME IInv, decrease_health PROVE IInv'
  OBVIOUS
<1>1. ~Playing' /\ lat' = BarOnly
  BY DEF decrease_health, zero_health, Playing
<1>2. stack' + 3 < StackLevels /\ StackInv'
  BY LostStack DEF decrease_health
<1>3. last_ball' \in 0 .. LastBall
  <2>1. Playing /\ pc = "check_overflow"
    BY DEF decrease_health, Playing
  <2>2. last_ball \in 0 .. LastBall /\ LastBall \in Nat /\ LastBall <= 255
    BY Numbers, ConstantsAssumption DEF IInv, TypeOK
  <2>3. last_ball > 0
    <3>1. level \in 1 .. 3 /\ ball_count \in Nat
      BY DEF IInv, TypeOK
    <3> QED BY <2>1, <3>1 DEF IInv, CountInv
  <2> QED BY <2>2, <2>3 DEF decrease_health, DecLastBall
<1>4. TypeOK'
  BY <1>2, <1>3, BarOnlyType, Numbers DEF IInv, TypeOK, decrease_health, zero_health
<1> QED BY <1>1, <1>2, <1>4, Stopped

LEMMA BarOnlySet == [BarOnly EXCEPT ![0] = {5}, ![1] = {5}] = BarOnly
BY DEF BarOnly, Under, Columns

LEMMA BarOnlyRows ==
  \A c, d \in Columns : \A r \in 0 .. 4 : r \in BarOnly[c] /\ r \in BarOnly[d] => c = d
BY DEF BarOnly

\* The first fall of a game.
LEMMA Begun ==
  ASSUME IInv, check_RG0_release
  PROVE  \E seed \in Seeds :
           /\ seed \in Byte \X Byte
           /\ lat' = Fallen(BarOnly, 0, Balls, seed)
           /\ lat' \in [Columns -> SUBSET (0 .. 5)]
           /\ tmr1' = (IF Balls > 1 THEN timer1_shifter(seed, 1) ELSE seed)
           /\ tmr1' \in Byte \X Byte
           /\ ball_count' = Balls - 1 /\ last_ball' = LastBall - 1
<1>1. lat = BarOnly
  BY DEF IInv, ScreenInv, check_RG0_release, Playing
<1>2. PICK seed \in Seeds : balls_create_down(BarOnly, 0, seed, Balls, LastBall, 1)
  BY <1>1, BarOnlySet DEF check_RG0_release
<1>3. seed \in Byte \X Byte
  BY ConstantsAssumption DEF Byte
<1>4. Balls \in 0 .. Balls /\ LastBall \in 1 .. LastBall /\ Balls # 0
  BY Numbers
<1>5. /\ lat' = Fallen(BarOnly, 0, Balls, seed)
      /\ lat' \in [Columns -> SUBSET (0 .. 5)]
      /\ tmr1' \in Byte \X Byte
      /\ ball_count' = (IF Balls = 0 THEN 0 ELSE Balls - 1)
      /\ last_ball' = LastBall - 1
  BY <1>2, <1>3, <1>4, Fall, BarOnlyType
<1> QED BY <1>2, <1>3, <1>4, <1>5 DEF balls_create_down

LEMMA check_RG0_releaseIInv == IInv /\ check_RG0_release => IInv'
<1> SUFFICES ASSUME IInv, check_RG0_release PROVE IInv'
  OBVIOUS
<1>1. PICK seed \in Seeds :
        /\ seed \in Byte \X Byte
        /\ lat' = Fallen(BarOnly, 0, Balls, seed)
        /\ lat' \in [Columns -> SUBSET (0 .. 5)]
        /\ tmr1' \in Byte \X Byte
        /\ ball_count' = Balls - 1 /\ last_ball' = LastBall - 1
  BY Begun
<1>2. /\ bar_left' = 0 /\ health_point' = Health /\ level' = 1 /\ pc' = "check_overflow"
      /\ UNCHANGED <<stack, timer0_overflowed_flag>>
  BY DEF check_RG0_release
<1>3. Playing' /\ StackInv'
  BY <1>2 DEF IInv, StackInv, Playing
<1>4. TypeOK'
  BY <1>1, <1>2, Numbers DEF IInv, TypeOK, Byte
<1>5. ScreenInv'
  <2>1. Balls \in Nat
    BY Numbers
  <2> QED BY <1>1, <1>2, <1>3, <2>1, FallOneBall, BarOnlyType, BarOnlyRows DEF ScreenInv
<1>6. CountInv'
  <2>1. Least(level)' = Level2Below
    BY <1>2 DEF Least
  <2>2. /\ health_point' > 0 /\ last_ball' = ball_count' + 6
        /\ ball_count' >= Level2Below
    BY <1>1, <1>2, Numbers
  <2> QED BY <1>2, <2>1, <2>2, Numbers DEF CountInv
<1> QED BY <1>3, <1>4, <1>5, <1>6 DEF IInv

\* The fall of a game that goes on.
LEMMA Falls ==
  ASSUME IInv, check_overflow
  PROVE  /\ Playing /\ Playing' /\ last_ball > 0 /\ health_point > misses
         /\ lat' = Fallen(lat, bar_left, ball_count, tmr1)
         /\ lat' \in [Columns -> SUBSET (0 .. 5)]
         /\ tmr1' \in Byte \X Byte
         /\ ball_count' = (IF ball_count = 0 THEN 0 ELSE ball_count - 1)
         /\ ball_count' \in 0 .. Balls
         /\ last_ball' = last_ball - 1 /\ last_ball' \in 0 .. LastBall
         /\ health_point' = health_point - misses
<1>1. Playing /\ Playing' /\ pc = "check_overflow"
  BY DEF check_overflow, Playing
<1>2. /\ lat \in [Columns -> SUBSET (0 .. 5)] /\ bar_left \in 0 .. 2
      /\ tmr1 \in Byte \X Byte /\ ball_count \in 0 .. Balls /\ last_ball \in 0 .. LastBall
      /\ level \in 1 .. 3 /\ health_point \in 0 .. Health
  BY DEF IInv, TypeOK, Byte
<1>3. last_ball > 0 /\ health_point > 0
  BY <1>1, <1>2 DEF IInv, CountInv
<1>4. last_ball \in 1 .. LastBall
  BY <1>2, <1>3, Numbers
<1>5. misses \in 0 .. 4
  BY Misses DEF IInv
<1>6. health_point > misses
  BY <1>2, <1>3, <1>5 DEF check_overflow
<1> QED BY <1>1, <1>2, <1>3, <1>4, <1>6, Fall DEF check_overflow

LEMMA check_overflowIInv == IInv /\ check_overflow => IInv'
<1> SUFFICES ASSUME IInv, check_overflow PROVE IInv'
  OBVIOUS
<1>1. /\ Playing /\ Playing' /\ last_ball > 0 /\ health_point > misses
      /\ lat' = Fallen(lat, bar_left, ball_count, tmr1)
      /\ lat' \in [Columns -> SUBSET (0 .. 5)]
      /\ tmr1' \in Byte \X Byte
      /\ ball_count' = (IF ball_count = 0 THEN 0 ELSE ball_count - 1)
      /\ ball_count' \in 0 .. Balls
      /\ last_ball' = last_ball - 1 /\ last_ball' \in 0 .. LastBall
      /\ health_point' = health_point - misses
  BY Falls
<1>2. /\ lat \in [Columns -> SUBSET (0 .. 5)] /\ bar_left \in 0 .. 2
      /\ tmr1 \in Byte \X Byte /\ ball_count \in 0 .. Balls /\ last_ball \in 0 .. LastBall
      /\ level \in 1 .. 3 /\ health_point \in 0 .. Health /\ misses \in 0 .. 4
  BY Misses DEF IInv, TypeOK, Byte
<1>3. /\ pc = "check_overflow" /\ pc' = "check_RG2" /\ timer0_overflowed_flag' = FALSE
      /\ UNCHANGED <<stack, bar_left, level>>
  BY DEF check_overflow
<1>4. health_point' \in 0 .. Health /\ health_point' > 0
  BY <1>1, <1>2, Numbers
<1>5. TypeOK' /\ StackInv'
  BY <1>1, <1>3, <1>4 DEF IInv, TypeOK, StackInv, Byte
<1>6. ScreenInv'
  <2>1. ball_count \in Nat
    BY <1>2, Numbers
  <2>2. OneBall
    BY <1>1 DEF IInv, ScreenInv
  <2>3. \A c, d \in Columns : \A r \in 0 .. 4 : r \in lat[c] /\ r \in lat[d] => c = d
    BY <2>2 DEF OneBall
  <2> QED BY <1>1, <1>2, <1>3, <2>1, <2>3, FallOneBall DEF ScreenInv
<1>7. CountInv'
  <2>1. /\ \/ last_ball = ball_count + 6
           \/ level = 3 /\ ball_count = 0 /\ last_ball <= 6
        /\ level < 3 => ball_count >= Least(level)
    <3>1. Least(level) \in Nat
      BY Numbers DEF Least
    <3> QED BY <1>1, <1>2, <1>3, <3>1 DEF IInv, CountInv
  <2>2. Least(level) \in Nat /\ Least(level) > 0 /\ Least(level)' = Least(level)
    BY <1>3, Numbers DEF Least
  <2>3. \/ last_ball' = ball_count' + 6
        \/ level = 3 /\ ball_count' = 0 /\ last_ball' <= 6
    <3>1. CASE ball_count = 0
      <4>1. level = 3
        BY <1>2, <2>1, <2>2, <3>1
      <4> QED BY <1>1, <1>2, <2>1, <3>1, <4>1
    <3>2. CASE ball_count # 0
      BY <1>1, <1>2, <2>1, <3>2
    <3> QED BY <3>1, <3>2
  <2>4. level < 3 => ball_count' >= Least(level) - 1
    BY <1>1, <1>2, <2>1, <2>2
  <2> QED BY <1>3, <1>4, <2>2, <2>3, <2>4 DEF CountInv
<1> QED BY <1>5, <1>6, <1>7 DEF IInv

\* The bar moves by one column, with the screen or without.
LEMMA Moved ==
  ASSUME TypeOK,
         NEW from \in 0 .. 2, NEW to \in 0 .. 2, NEW set \in Columns, NEW clear \in Columns,
         Under(to) = (Under(from) \cup {set}) \ {clear}, set # clear,
         clear \in Under(from), set \notin Under(from),
         MoveBar(from, to, set, clear)
  PROVE  /\ lat' \in [Columns -> SUBSET (0 .. 5)] /\ bar_left = from /\ bar_left' = to
         /\ \A c \in Columns : \A r \in 0 .. 4 : r \in lat'[c] <=> r \in lat[c]
         /\ Uncaught' = Uncaught \ Under(to)
<1>1. /\ bar_left = from /\ bar_left' = to
      /\ lat' = [lat EXCEPT ![set] = lat[set] \cup {5}, ![clear] = lat[clear] \ {5}]
  BY DEF MoveBar
<1>2. lat \in [Columns -> SUBSET (0 .. 5)]
  BY DEF TypeOK
<1>3. \A c \in Columns :
        lat'[c] = IF c = clear THEN lat[clear] \ {5}
                  ELSE IF c = set THEN lat[set] \cup {5} ELSE lat[c]
  BY <1>1, <1>2
<1>4. lat' \in [Columns -> SUBSET (0 .. 5)]
  <2>1. \A c \in Columns : lat'[c] \subseteq 0 .. 5
    BY <1>2, <1>3
  <2> QED BY <1>1, <1>2, <2>1
<1>5. \A c \in Columns : \A r \in 0 .. 4 : r \in lat'[c] <=> r \in lat[c]
  BY <1>3
<1>6. ASSUME NEW c \in Columns
      PROVE  c \in Uncaught' <=> c \in Uncaught /\ c \notin Under(to)
  <2>1. /\ c \in Uncaught' <=> c \notin Under(to) /\ 5 \in lat'[c]
        /\ c \in Uncaught <=> c \notin Under(from) /\ 5 \in lat[c]
    BY <1>1 DEF Uncaught, Under
  <2>2. CASE c = clear
    BY <1>3, <2>1, <2>2
  <2>3. CASE c = set
    BY <1>3, <2>1, <2>3
  <2>4. CASE c # clear /\ c # set
    BY <1>3, <2>1, <2>4
  <2> QED BY <2>2, <2>3, <2>4
<1>7. Uncaught' = Uncaught \ Under(to)
  <2>1. Uncaught \subseteq Columns /\ Uncaught' \subseteq Columns
    BY DEF Uncaught
  <2> QED BY <1>6, <2>1
<1> QED BY <1>1, <1>4, <1>5, <1>7

\* A button that is let go moves the bar or does nothing.
LEMMA Released ==
  ASSUME TypeOK, Release
  PROVE  /\ lat' \in [Columns -> SUBSET (0 .. 5)] /\ bar_left' \in 0 .. 2
         /\ \A c \in Columns : \A r \in 0 .. 4 : r \in lat'[c] <=> r \in lat[c]
         /\ \/ UNCHANGED <<lat, bar_left>>
            \/ /\ bar_left' \in {bar_left - 1, bar_left + 1}
               /\ Uncaught' = Uncaught \ Under(bar_left')
<1>1. /\ Under(0) = {0, 1} /\ Under(1) = {1, 2} /\ Under(2) = {2, 3}
      /\ {0, 1, 2} \subseteq 0 .. 2 /\ {0, 1, 2, 3} \subseteq Columns
  BY DEF Under, Columns
<1>2. CASE MoveBar(0, 1, 2, 0)
  BY <1>1, <1>2, Moved
<1>3. CASE MoveBar(1, 2, 3, 1)
  BY <1>1, <1>3, Moved
<1>4. CASE MoveBar(2, 1, 1, 3)
  BY <1>1, <1>4, Moved
<1>5. CASE MoveBar(1, 0, 0, 2)
  BY <1>1, <1>5, Moved
<1>6. CASE UNCHANGED <<lat, bar_left>>
  BY <1>6 DEF TypeOK
<1> QED BY <1>2, <1>3, <1>4, <1>5, <1>6 DEF Release, check_RG2_release, check_RG3_release

LEMMA ReleaseIInv == IInv /\ Release => IInv'
<1> SUFFICES ASSUME IInv, Release PROVE IInv'
  OBVIOUS
<1>1. /\ Playing /\ Playing' /\ pc # "check_overflow" /\ pc' # "check_overflow"
      /\ pc' \in {"check_RG3", "test"}
      /\ UNCHANGED <<stack, timer0_overflowed_flag, tmr1, counters>>
  BY DEF Release, check_RG2_release, check_RG3_release, Playing
<1>2. /\ lat' \in [Columns -> SUBSET (0 .. 5)] /\ bar_left' \in 0 .. 2
      /\ \A c \in Columns : \A r \in 0 .. 4 : r \in lat'[c] <=> r \in lat[c]
      /\ Uncaught' \subseteq Uncaught
  <2>1. TypeOK
    BY DEF IInv
  <2>2. UNCHANGED <<lat, bar_left>> => Uncaught' = Uncaught
    BY DEF Uncaught
  <2> QED BY <2>1, <2>2, Released
<1>3. TypeOK' /\ StackInv'
  BY <1>1, <1>2 DEF IInv, TypeOK, StackInv, counters
<1>4. ScreenInv'
  BY <1>1, <1>2 DEF IInv, ScreenInv, OneBall
<1>5. CountInv'
  BY <1>1 DEF IInv, CountInv, Least, counters
<1> QED BY <1>3, <1>4, <1>5 DEF IInv

LEMMA NextIInv == IInv /\ [Next]_vars => IInv'
<1> SUFFICES ASSUME IInv, [Next]_vars PROVE IInv'
  OBVIOUS
<1>1. CASE Next
  BY <1>1, isr_timeintervalIInv, check_RG0IInv, check_RG0_releaseIInv, ReleaseIInv,
     NoOverflowIInv, check_overflowIInv, decrease_healthIInv, StackResetIInv, CheckIInv,
     NextLevelIInv, check_last_ballIInv, SameLevelIInv DEF Next, MainLoop
<1>2. CASE UNCHANGED vars
  <2>1. TypeOK' /\ StackInv'
    BY <1>2 DEF vars, counters, IInv, TypeOK, StackInv
  <2>2. CountInv'
    BY <1>2 DEF vars, counters, IInv, CountInv, Least, Playing
  <2>3. ScreenInv'
    BY <1>2 DEF vars, IInv, ScreenInv, Playing, OneBall, Uncaught, BarOnly
  <2> QED BY <2>1, <2>2, <2>3 DEF IInv
<1> QED BY <1>1, <1>2

LEMMA Inductive == Spec => []IInv
BY InitIInv, NextIInv, PTL DEF Spec

\* TypeOK: no counter of the game ever passes 0, no bit is left behind in a latch, and an
\* interrupt always finds room on the return stack, however many games are lost.
THEOREM Typing == Spec => []TypeOK
<1>1. IInv => TypeOK
  BY DEF IInv
<1> QED BY <1>1, Inductive, PTL

-----------------------------------------------------------------------------
(* The game that the program plays, in the words of BallService.           *)

Rows == [r \in 1 .. 5 |-> {c \in Columns : r - 1 \in lat[c]}]

\* The state of BallService that the refinement shows.
Game == IF ~Playing THEN <<>>
        ELSE [level |-> level, health |-> health_point, bar |-> bar_left,
              fallen |-> LastBall - last_ball,
              seed |-> 256 * tmr1[1] + tmr1[2],
              rows |-> [r \in 1 .. 5 |-> {c \in Columns : r - 1 \in lat[c]}],
              bottom |-> Uncaught]
Lost == (stack - 1) \div 4

Bounds == <<Balls - Level2Below + 1, Balls - Level3Below + 1, LastBall>>
Endured == (StackLevels - 4) \div 4
Numbered == {256 * s[1] + s[2] : s \in Seeds}

LEMMA SameCardinality == \A S : Service!Cardinality(S) = Cardinality(S)
BY Zenon DEF Service!Cardinality, Cardinality

\* The actions of BallService, over the shown state.
LEMMA Shown ==
  /\ Service!Init <=> Game = <<>> /\ Lost = 0
  /\ Service!vars = <<Game, Lost>>
  /\ Service!Start <=>
       /\ Game = <<>>
       /\ \E seed \in Numbered :
            Game' = [level |-> 1, health |-> Health, bar |-> 0, fallen |-> 1,
                     seed |-> Service!Turn(1, seed, 1),
                     rows |-> <<Service!Ball(1, seed), {}, {}, {}, {}>>, bottom |-> {}]
       /\ Lost' = Lost
  /\ Service!Fall <=>
       /\ Game # <<>> /\ Game.fallen < Bounds[Game.level]
       /\ Game.health > Service!Cardinality(Game.bottom)
       /\ Game.bottom # {} => Lost < Endured
       /\ Game' = [Game EXCEPT
            !.fallen = @ + 1,
            !.health = @ - Service!Cardinality(Game.bottom),
            !.rows = <<Service!Ball(Game.fallen + 1, Game.seed)>> \o SubSeq(@, 1, 4),
            !.bottom = Game.rows[5] \ Service!Under(Game.bar),
            !.seed = Service!Turn(Game.fallen + 1, @, Game.level)]
       /\ Lost' = Lost
  /\ Service!Move <=>
       /\ Game # <<>>
       /\ \E b \in {Game.bar - 1, Game.bar + 1} \cap (0 .. 2) :
            Game' = [Game EXCEPT !.bar = b, !.bottom = @ \ Service!Under(b)]
       /\ Lost' = Lost
  /\ Service!LevelUp <=>
       /\ Game # <<>> /\ Game.level < 3 /\ Game.fallen = Bounds[Game.level]
       /\ Game' = [Game EXCEPT !.level = @ + 1]
       /\ Lost' = Lost
  /\ Service!Lose <=>
       /\ Game # <<>> /\ Game.fallen < Bounds[Game.level]
       /\ Game.bottom # {} /\ Game.health = 1 /\ Lost < Endured
       /\ Game' = <<>> /\ Lost' = Lost + 1
  /\ Service!Win <=>
       /\ Game # <<>> /\ Game.level = 3 /\ Game.fallen = Bounds[3]
       /\ Game' = <<>> /\ Lost' = Lost
  /\ Service!Restart <=>
       /\ Game # <<>> /\ Game.bottom # {} /\ Lost = Endured
       /\ Game' = <<>> /\ Lost' = 0
<1> USE DEF Game, Lost, Service!Off, Service!On
<1>1. Service!Init <=> Game = <<>> /\ Lost = 0
  BY DEF Service!Init
<1>2. Service!vars = <<Game, Lost>>
  BY DEF Service!vars
<1>3. Service!Start <=>
       /\ Game = <<>>
       /\ \E seed \in Numbered :
            Game' = [level |-> 1, health |-> Health, bar |-> 0, fallen |-> 1,
                     seed |-> Service!Turn(1, seed, 1),
                     rows |-> <<Service!Ball(1, seed), {}, {}, {}, {}>>, bottom |-> {}]
       /\ Lost' = Lost
  BY Zenon DEF Service!Start, Numbered
<1>4. Service!Fall <=>
       /\ Game # <<>> /\ Game.fallen < Bounds[Game.level]
       /\ Game.health > Service!Cardinality(Game.bottom)
       /\ Game.bottom # {} => Lost < Endured
       /\ Game' = [Game EXCEPT
            !.fallen = @ + 1,
            !.health = @ - Service!Cardinality(Game.bottom),
            !.rows = <<Service!Ball(Game.fallen + 1, Game.seed)>> \o SubSeq(@, 1, 4),
            !.bottom = Game.rows[5] \ Service!Under(Game.bar),
            !.seed = Service!Turn(Game.fallen + 1, @, Game.level)]
       /\ Lost' = Lost
  BY Zenon DEF Service!Fall, Bounds, Endured
<1>5. Service!Move <=>
       /\ Game # <<>>
       /\ \E b \in {Game.bar - 1, Game.bar + 1} \cap (0 .. 2) :
            Game' = [Game EXCEPT !.bar = b, !.bottom = @ \ Service!Under(b)]
       /\ Lost' = Lost
  BY Zenon DEF Service!Move
<1>6. Service!LevelUp <=>
       /\ Game # <<>> /\ Game.level < 3 /\ Game.fallen = Bounds[Game.level]
       /\ Game' = [Game EXCEPT !.level = @ + 1]
       /\ Lost' = Lost
  BY Zenon DEF Service!LevelUp, Bounds
<1>7. Service!Lose <=>
       /\ Game # <<>> /\ Game.fallen < Bounds[Game.level]
       /\ Game.bottom # {} /\ Game.health = 1 /\ Lost < Endured
       /\ Game' = <<>> /\ Lost' = Lost + 1
  BY Zenon DEF Service!Lose, Bounds, Endured
<1>8. Service!Win <=>
       /\ Game # <<>> /\ Game.level = 3 /\ Game.fallen = Bounds[3]
       /\ Game' = <<>> /\ Lost' = Lost
  BY Zenon DEF Service!Win, Bounds
<1>9. Service!Restart <=>
       /\ Game # <<>> /\ Game.bottom # {} /\ Lost = Endured
       /\ Game' = <<>> /\ Lost' = 0
  BY Zenon DEF Service!Restart, Endured
<1> QED BY <1>1, <1>2, <1>3, <1>4, <1>5, <1>6, <1>7, <1>8, <1>9, Zenon

Screen(l, h, b, f, s, rs, bs) ==
  [level |-> l, health |-> h, bar |-> b, fallen |-> f, seed |-> s, rows |-> rs, bottom |-> bs]

Fields == {"level", "health", "bar", "fallen", "seed", "rows", "bottom"}

LEMMA ScreenOf ==
  ASSUME NEW l, NEW h, NEW b, NEW f, NEW s, NEW rs, NEW bs,
         NEW q, q = [x \in Fields |-> q[x]],
         q.level = l, q.health = h, q.bar = b, q.fallen = f, q.seed = s, q.rows = rs,
         q.bottom = bs
  PROVE  q = Screen(l, h, b, f, s, rs, bs)
<1> DEFINE r == Screen(l, h, b, f, s, rs, bs)
<1>1. r = [x \in Fields |-> r[x]]
  BY DEF Screen, Fields
<1>2. /\ r.level = l /\ r.health = h /\ r.bar = b /\ r.fallen = f /\ r.seed = s
      /\ r.rows = rs /\ r.bottom = bs
  BY DEF Screen
<1> HIDE DEF r
<1>3. \A x \in Fields : q[x] = r[x]
  BY <1>1, <1>2 DEF Fields
<1>4. q = r
  BY <1>1, <1>3
<1> QED BY <1>4 DEF r

LEMMA ScreenFields ==
  ASSUME NEW l, NEW h, NEW b, NEW f, NEW s, NEW rs, NEW bs
  PROVE  LET scr == Screen(l, h, b, f, s, rs, bs)
         IN  /\ scr = [x \in Fields |-> scr[x]] /\ scr # <<>>
             /\ scr.level = l /\ scr.health = h /\ scr.bar = b /\ scr.fallen = f
             /\ scr.seed = s /\ scr.rows = rs /\ scr.bottom = bs
BY DEF Screen, Fields

\* A game is shown field by field.
Shot == Screen(level, health_point, bar_left, LastBall - last_ball, Word(tmr1), Rows, Uncaught)

LEMMA GameShot ==
  /\ Playing => Game = Shot
  /\ ~Playing => Game = <<>>
BY DEF Game, Shot, Screen, Word, Rows

LEMMA GameFields ==
  ASSUME Playing
  PROVE  /\ Game # <<>> /\ Game = Shot /\ Game = [x \in Fields |-> Game[x]]
         /\ Game.level = level /\ Game.health = health_point /\ Game.bar = bar_left
         /\ Game.fallen = LastBall - last_ball /\ Game.seed = Word(tmr1)
         /\ Game.rows = Rows /\ Game.bottom = Uncaught
<1> HIDE DEF Shot
<1>1. Game = Shot
  BY GameShot
<1>2. /\ Shot # <<>> /\ Shot = [x \in Fields |-> Shot[x]]
      /\ Shot.level = level /\ Shot.health = health_point /\ Shot.bar = bar_left
      /\ Shot.fallen = LastBall - last_ball /\ Shot.seed = Word(tmr1)
      /\ Shot.rows = Rows /\ Shot.bottom = Uncaught
  BY ScreenFields DEF Shot
<1> QED BY <1>1, <1>2

\* The stack counts the games that were lost.
LEMMA LostGames ==
  ASSUME IInv
  PROVE  /\ Lost \in 0 .. Endured /\ Endured \in Nat /\ stack = 4 * Lost + 1
         /\ Deepest < StackLevels <=> Lost < Endured
<1>1. /\ stack \in Nat /\ stack % 4 = 1 /\ stack + 3 < StackLevels
      /\ StackLevels \in Nat /\ StackLevels >= 8 /\ StackLevels % 4 # 0
  BY ConstantsAssumption DEF IInv, TypeOK, StackInv
<1>2. Lost \in Int /\ stack = 4 * Lost + 1
  BY <1>1 DEF Lost
<1>3. PICK r \in 1 .. 3 : StackLevels - 4 = 4 * Endured + r /\ Endured \in Int
  <2>1. /\ (StackLevels - 4) % 4 \in 1 .. 3 /\ Endured \in Int
        /\ StackLevels - 4 = 4 * Endured + ((StackLevels - 4) % 4)
    BY <1>1 DEF Endured
  <2> QED BY <2>1
<1> QED BY <1>1, <1>2, <1>3 DEF Deepest

\* Where a level is over.
LEMMA BoundsOf ==
  /\ Bounds[1] = Balls - Level2Below + 1 /\ Bounds[2] = Balls - Level3Below + 1
  /\ Bounds[3] = LastBall
BY DEF Bounds

\* While the rows may still fall in this level, the game has falls to come.
LEMMA FallsToCome ==
  ASSUME IInv, Playing, pc = "check_overflow"
  PROVE  LastBall - last_ball < Bounds[level]
<1>1. /\ level \in 1 .. 3 /\ ball_count \in 0 .. Balls /\ last_ball \in 0 .. LastBall
      /\ Balls \in Nat /\ LastBall = Balls + 6
      /\ Level2Below \in 1 .. Balls /\ Level3Below \in 1 .. Balls
  BY Numbers DEF IInv, TypeOK
<1>2. /\ \/ last_ball = ball_count + 6
         \/ level = 3 /\ ball_count = 0 /\ last_ball <= 6
      /\ level < 3 => ball_count >= Least(level) - 0
      /\ level = 3 => last_ball > 0
  BY DEF IInv, CountInv
<1>3. CASE level = 1
  BY <1>1, <1>2, <1>3, BoundsOf DEF Least
<1>4. CASE level = 2
  BY <1>1, <1>2, <1>4, BoundsOf DEF Least
<1>5. CASE level = 3
  BY <1>1, <1>2, <1>5, BoundsOf
<1> QED BY <1>1, <1>3, <1>4, <1>5

\* The rows of a screen that falls.
LEMMA FiveRows ==
  ASSUME NEW S, NEW rs \in [1 .. 5 -> S]
  PROVE  rs \in Seq(S) /\ Len(rs) = 5
<1>1. rs \in Seq(S)
  BY SeqDef
<1>2. DOMAIN rs = 1 .. 5
  OBVIOUS
<1> QED BY <1>1, <1>2

LEMMA Shifted ==
  ASSUME NEW rs \in [1 .. 5 -> SUBSET Columns], NEW first \in SUBSET Columns,
         NEW new \in [1 .. 5 -> SUBSET Columns],
         new[1] = first, \A r \in 2 .. 5 : new[r] = rs[r - 1]
  PROVE  new = <<first>> \o SubSeq(rs, 1, 4)
<1> DEFINE cut == SubSeq(rs, 1, 4)
           head == <<first>>
           s == head \o cut
<1>1. \A i \in 1 .. 4 : rs[i] \in SUBSET Columns
  OBVIOUS
<1>2. cut \in Seq(SUBSET Columns) /\ Len(cut) = 4 /\ \A i \in 1 .. 4 : cut[i] = rs[i]
  <2>1. /\ cut \in Seq(SUBSET Columns)
        /\ Len(cut) = IF 1 <= 4 THEN 4 - 1 + 1 ELSE 0
        /\ \A i \in 1 .. 4 - 1 + 1 : cut[i] = rs[1 + i - 1]
    <3> HIDE DEF cut
    <3> QED BY <1>1, SubSeqProperties DEF cut
  <2> HIDE DEF cut
  <2>2. \A i \in 1 .. 4 : 1 + i - 1 = i
    OBVIOUS
  <2> QED BY <2>1, <2>2
<1> HIDE DEF cut
<1>3. head \in Seq(SUBSET Columns) /\ Len(head) = 1 /\ head[1] = first
  OBVIOUS
<1> HIDE DEF head
<1>4. /\ s \in Seq(SUBSET Columns) /\ Len(s) = 1 + 4
      /\ \A i \in 1 .. 1 + 4 : s[i] = IF i <= 1 THEN head[i] ELSE cut[i - 1]
  <2>1. /\ s \in Seq(SUBSET Columns) /\ Len(s) = Len(head) + Len(cut)
        /\ \A i \in 1 .. Len(head) + Len(cut) :
             s[i] = IF i <= Len(head) THEN head[i] ELSE cut[i - Len(head)]
    BY <1>2, <1>3, ConcatProperties, ZenonT(30)
  <2> HIDE DEF s
  <2> QED BY <1>2, <1>3, <2>1
<1> HIDE DEF s
<1>5. \A i \in 1 .. 5 : s[i] = new[i]
  <2>1. \A i \in 2 .. 5 : s[i] = cut[i - 1] /\ i - 1 \in 1 .. 4
    BY <1>4
  <2>2. s[1] = new[1]
    BY <1>3, <1>4
  <2> QED BY <1>2, <2>1, <2>2
<1>6. new \in Seq(SUBSET Columns) /\ Len(new) = 5
  BY FiveRows
<1>7. new = s
  BY <1>4, <1>5, <1>6, SeqEqual
<1> QED BY <1>7 DEF s, head, cut

\* The five sets of an empty screen with one ball.
LEMMA FirstRows ==
  ASSUME NEW first \in SUBSET Columns, NEW new \in [1 .. 5 -> SUBSET Columns],
         new[1] = first, \A r \in 2 .. 5 : new[r] = {}
  PROVE  new = <<first, {}, {}, {}, {}>>
<1>1. new \in Seq(SUBSET Columns) /\ Len(new) = 5
  BY FiveRows
<1>2. /\ <<first, {}, {}, {}, {}>> \in Seq(SUBSET Columns)
      /\ Len(<<first, {}, {}, {}, {}>>) = 5
  OBVIOUS
<1>3. \A i \in 1 .. 5 : new[i] = <<first, {}, {}, {}, {}>>[i]
  <2>1. \A i \in 1 .. 5 : i = 1 \/ i = 2 \/ i = 3 \/ i = 4 \/ i = 5
    OBVIOUS
  <2> QED BY <2>1
<1> QED BY <1>1, <1>2, <1>3

\* The column of the next ball, read off the low byte of the timer.
LEMMA NextColumn ==
  ASSUME NEW t \in Byte \X Byte
  PROVE  mod_value(t) = (Word(t) % 8) % 4 /\ mod_value(t) \in Columns
<1>1. PICK h \in Byte, l \in Byte : t = <<h, l>>
  OBVIOUS
<1>2. PICK q \in Int, m \in 0 .. 7 : l = 8 * q + m /\ l % 8 = m
  <2>1. l % 8 \in 0 .. 7 /\ l \div 8 \in Int /\ l = 8 * (l \div 8) + (l % 8)
    BY DEF Byte
  <2> QED BY <2>1
<1>3. PICK w \in Int : w = 256 * h + l /\ w = Word(t)
  BY <1>1 DEF Byte, Word
<1>4. w = 8 * (32 * h + q) + m
  BY <1>2, <1>3 DEF Byte
<1>5. w % 8 = m
  BY <1>2, <1>4 DEF Byte
<1>6. mod_value(t) = IF m < 4 THEN m ELSE m - 4
  BY <1>1, <1>2 DEF mod_value
<1>7. m % 4 = IF m < 4 THEN m ELSE m - 4
  OBVIOUS
<1> QED BY <1>3, <1>5, <1>6, <1>7 DEF Columns

LEMMA RowsType == Rows \in [1 .. 5 -> SUBSET Columns]
BY DEF Rows

\* What falls in row by row is what BallService lets fall.
LEMMA RowsFall ==
  ASSUME NEW latches \in [Columns -> SUBSET (0 .. 5)], NEW bar \in 0 .. 2,
         NEW count \in Nat, NEW t \in Byte \X Byte,
         lat' = Fallen(latches, bar, count, t)
  PROVE  /\ Rows' \in [1 .. 5 -> SUBSET Columns]
         /\ Rows'[1] = (IF count # 0 THEN {(Word(t) % 8) % 4} ELSE {})
         /\ \A r \in 2 .. 5 : Rows'[r] = {c \in Columns : r - 2 \in latches[c]}
<1>1. \A c \in Columns :
        /\ 0 \in lat'[c] <=> count # 0 /\ c = mod_value(t)
        /\ \A r \in 1 .. 4 : r \in lat'[c] <=> r - 1 \in latches[c]
  BY FallRows
<1>2. Rows' = [r \in 1 .. 5 |-> {c \in Columns : r - 1 \in lat'[c]}]
  BY DEF Rows
<1>3. Rows' \in [1 .. 5 -> SUBSET Columns]
  BY <1>2
<1>4. Rows'[1] = (IF count # 0 THEN {(Word(t) % 8) % 4} ELSE {})
  <2>1. Rows'[1] = {c \in Columns : 0 \in lat'[c]}
    BY <1>2
  <2>2. Rows'[1] = {c \in Columns : count # 0 /\ c = mod_value(t)}
    BY <1>1, <2>1
  <2>3. mod_value(t) \in Columns /\ mod_value(t) = (Word(t) % 8) % 4
    BY NextColumn
  <2>4. CASE count # 0
    BY <2>2, <2>3, <2>4
  <2>5. CASE count = 0
    BY <2>2, <2>5
  <2> QED BY <2>4, <2>5
<1>5. ASSUME NEW r \in 2 .. 5
      PROVE  Rows'[r] = {c \in Columns : r - 2 \in latches[c]}
  <2>1. Rows'[r] = {c \in Columns : r - 1 \in lat'[c]}
    BY <1>2
  <2>2. r - 1 \in 1 .. 4 /\ (r - 1) - 1 = r - 2
    OBVIOUS
  <2>3. \A c \in Columns : r - 1 \in lat'[c] <=> r - 2 \in latches[c]
    BY <1>1, <2>2
  <2> QED BY <2>1, <2>3
<1> QED BY <1>3, <1>4, <1>5

\* The number that gives the next ball.
LEMMA NextSeed ==
  ASSUME NEW t \in Byte \X Byte, NEW lvl \in 1 .. 3, NEW count \in Nat, NEW n \in Nat,
         count > 1 <=> n < Balls
  PROVE  Word(IF count > 1 THEN timer1_shifter(t, lvl) ELSE t)
         = Service!Turn(n, Word(t), lvl)
<1>1. CASE count > 1
  BY <1>1, Shifter DEF Service!Turn
<1>2. CASE ~(count > 1)
  BY <1>2 DEF Service!Turn
<1> QED BY <1>1, <1>2

LEMMA StartStep == IInv /\ check_RG0_release => Service!Start
<1> SUFFICES ASSUME IInv, check_RG0_release PROVE Service!Start
  OBVIOUS
<1>1. PICK s \in Seeds :
        /\ s \in Byte \X Byte
        /\ lat' = Fallen(BarOnly, 0, Balls, s)
        /\ tmr1' = (IF Balls > 1 THEN timer1_shifter(s, 1) ELSE s)
        /\ ball_count' = Balls - 1 /\ last_ball' = LastBall - 1
  BY Begun
<1>2. /\ bar_left' = 0 /\ health_point' = Health /\ level' = 1 /\ stack' = stack
      /\ ~Playing /\ Playing'
  BY DEF check_RG0_release, Playing
<1>3. Balls \in Nat /\ 1 <= Balls /\ LastBall \in Nat /\ 1 \in 1 .. 3 /\ 0 \in 0 .. 2
  BY Numbers
<1>4. PICK w \in Numbered : w = Word(s)
  BY DEF Numbered, Word
<1>5. Word(tmr1') = Service!Turn(1, w, 1)
  BY <1>1, <1>3, <1>4, NextSeed
<1>6. Rows' = <<Service!Ball(1, w), {}, {}, {}, {}>>
  <2>1. /\ Rows' \in [1 .. 5 -> SUBSET Columns]
        /\ Rows'[1] = (IF Balls # 0 THEN {(w % 8) % 4} ELSE {})
        /\ \A r \in 2 .. 5 : Rows'[r] = {c \in Columns : r - 2 \in BarOnly[c]}
    <3>1. /\ Rows' \in [1 .. 5 -> SUBSET Columns]
          /\ Rows'[1] = (IF Balls # 0 THEN {(Word(s) % 8) % 4} ELSE {})
          /\ \A r \in 2 .. 5 : Rows'[r] = {c \in Columns : r - 2 \in BarOnly[c]}
      BY <1>1, <1>3, RowsFall, BarOnlyType, Zenon
    <3> QED BY <1>4, <3>1, Zenon
  <2>2. \A c \in Columns : BarOnly[c] \subseteq {5}
    BY DEF BarOnly
  <2>3. \A r \in 2 .. 5 : Rows'[r] = {}
    BY <2>1, <2>2
  <2>4. Rows'[1] = Service!Ball(1, w)
    BY <1>3, <2>1 DEF Service!Ball
  <2>5. Service!Ball(1, w) \in SUBSET Columns
    BY <2>1, <2>4
  <2> QED BY <2>1, <2>3, <2>4, <2>5, FirstRows
<1>7. Uncaught' = {}
  <2>1. \A c \in Columns : 5 \in lat'[c] <=> 4 \in BarOnly[c] \/ c \in Under(0)
    BY <1>1, <1>3, FallRows, BarOnlyType
  <2>2. \A c \in Columns : 4 \notin BarOnly[c]
    BY DEF BarOnly
  <2> QED BY <1>2, <2>1, <2>2 DEF Uncaught
<1>8. Shot' = Screen(1, Health, 0, 1, Service!Turn(1, w, 1),
                     <<Service!Ball(1, w), {}, {}, {}, {}>>, {})
  <2>1. LastBall - last_ball' = 1
    BY <1>1, <1>3
  <2>2. Shot' = Screen(level', health_point', bar_left', LastBall - last_ball', Word(tmr1'),
                       Rows', Uncaught')
    BY DEF Shot, Screen, Word
  <2> QED BY <1>2, <1>5, <1>6, <1>7, <2>1, <2>2
<1>9. Game = <<>> /\ Game' = Shot' /\ Lost' = Lost
  BY <1>2, GameShot DEF Lost, Game, Shot, Screen, Word, Rows
<1> QED BY <1>8, <1>9, Shown DEF Screen

LEMMA FallStep == IInv /\ check_overflow => Service!Fall
<1> SUFFICES ASSUME IInv, check_overflow PROVE Service!Fall
  OBVIOUS
<1>1. /\ Playing /\ Playing' /\ last_ball > 0 /\ health_point > misses
      /\ lat' = Fallen(lat, bar_left, ball_count, tmr1)
      /\ ball_count' = (IF ball_count = 0 THEN 0 ELSE ball_count - 1)
      /\ last_ball' = last_ball - 1 /\ health_point' = health_point - misses
  BY Falls
<1>2. /\ lat \in [Columns -> SUBSET (0 .. 5)] /\ bar_left \in 0 .. 2
      /\ tmr1 \in Byte \X Byte /\ ball_count \in Nat /\ last_ball \in 0 .. LastBall
      /\ level \in 1 .. 3 /\ LastBall = Balls + 6 /\ Balls \in Nat
  BY Numbers DEF IInv, TypeOK, Byte
<1>3. /\ pc = "check_overflow" /\ UNCHANGED <<stack, bar_left, level>>
      /\ misses > 0 => Deepest < StackLevels
      /\ tmr1' = IF ball_count > 1 THEN timer1_shifter(tmr1, level) ELSE tmr1
  BY DEF check_overflow, balls_create_down
<1>4. /\ Game # <<>> /\ Game = [x \in Fields |-> Game[x]]
      /\ Game.level = level /\ Game.health = health_point /\ Game.bar = bar_left
      /\ Game.fallen = LastBall - last_ball /\ Game.seed = Word(tmr1)
      /\ Game.rows = Rows /\ Game.bottom = Uncaught
  BY <1>1, GameFields
<1>5. PICK f \in Nat : f = LastBall - last_ball
  BY <1>2
<1>6. /\ \/ last_ball = ball_count + 6
         \/ ball_count = 0 /\ last_ball <= 6
  BY <1>1 DEF IInv, CountInv
<1>7. (ball_count > 1 <=> f + 1 < Balls) /\ (ball_count # 0 <=> f + 1 <= Balls)
  BY <1>2, <1>5, <1>6
<1>8. Word(tmr1') = Service!Turn(f + 1, Word(tmr1), level)
  BY <1>2, <1>3, <1>5, <1>7, NextSeed
<1>9. Rows' = <<Service!Ball(f + 1, Word(tmr1))>> \o SubSeq(Rows, 1, 4)
  <2>1. /\ Rows' \in [1 .. 5 -> SUBSET Columns]
        /\ Rows'[1] = (IF ball_count # 0 THEN {(Word(tmr1) % 8) % 4} ELSE {})
        /\ \A r \in 2 .. 5 : Rows'[r] = {c \in Columns : r - 2 \in lat[c]}
    BY <1>1, <1>2, RowsFall
  <2>2. \A r \in 2 .. 5 : Rows[r - 1] = {c \in Columns : r - 2 \in lat[c]}
    <3>1. \A r \in 2 .. 5 : r - 1 \in 1 .. 5 /\ (r - 1) - 1 = r - 2
      OBVIOUS
    <3> QED BY <3>1 DEF Rows
  <2>3. Rows'[1] = Service!Ball(f + 1, Word(tmr1))
    BY <1>7, <2>1 DEF Service!Ball
  <2>4. Service!Ball(f + 1, Word(tmr1)) \in SUBSET Columns
    BY <2>1, <2>3
  <2>5. \A r \in 2 .. 5 : Rows'[r] = Rows[r - 1]
    BY <2>1, <2>2, Zenon
  <2> QED BY <2>1, <2>3, <2>4, <2>5, RowsType, Shifted, Zenon
<1>10. Uncaught' = Rows[5] \ Service!Under(bar_left)
  <2>1. \A c \in Columns : 5 \in lat'[c] <=> 4 \in lat[c] \/ c \in Under(bar_left)
    BY <1>1, <1>2, FallRows
  <2>2. Rows[5] = {c \in Columns : 4 \in lat[c]}
    BY DEF Rows
  <2> QED BY <1>3, <2>1, <2>2 DEF Uncaught, Under, Service!Under
<1>11. misses = Service!Cardinality(Uncaught) /\ (misses = 0 <=> Uncaught = {})
       /\ misses \in 0 .. 4
  BY Misses, SameCardinality DEF IInv
<1>12. Shot' = Screen(level, health_point - Service!Cardinality(Uncaught), bar_left, f + 1,
                      Service!Turn(f + 1, Word(tmr1), level),
                      <<Service!Ball(f + 1, Word(tmr1))>> \o SubSeq(Rows, 1, 4),
                      Rows[5] \ Service!Under(bar_left))
  <2>1. LastBall - last_ball' = f + 1
    BY <1>1, <1>2, <1>5
  <2>2. Shot' = Screen(level', health_point', bar_left', LastBall - last_ball', Word(tmr1'),
                       Rows', Uncaught')
    BY DEF Shot, Screen, Word
  <2> QED BY <1>1, <1>3, <1>8, <1>9, <1>10, <1>11, <2>1, <2>2
<1>13. Game' = Shot' /\ Lost' = Lost
  BY <1>1, <1>3 DEF Lost, Game, Shot, Screen, Word, Rows
<1>14. [Game EXCEPT
          !.fallen = @ + 1,
          !.health = @ - Service!Cardinality(Game.bottom),
          !.rows = <<Service!Ball(Game.fallen + 1, Game.seed)>> \o SubSeq(@, 1, 4),
          !.bottom = Game.rows[5] \ Service!Under(Game.bar),
          !.seed = Service!Turn(Game.fallen + 1, @, Game.level)]
       = Shot'
  <2> DEFINE h2 == health_point - Service!Cardinality(Uncaught)
             rs2 == <<Service!Ball(f + 1, Word(tmr1))>> \o SubSeq(Rows, 1, 4)
             bs2 == Rows[5] \ Service!Under(bar_left)
             s2 == Service!Turn(f + 1, Word(tmr1), level)
             f2 == f + 1
             q == [Game EXCEPT !.fallen = f2, !.health = h2, !.rows = rs2, !.bottom = bs2,
                               !.seed = s2]
  <2>1. Shot' = Screen(level, h2, bar_left, f2, s2, rs2, bs2)
    BY <1>12, Zenon
  <2> HIDE DEF h2, rs2, bs2, s2, f2
  <2>2. q = [x \in Fields |-> q[x]]
    BY <1>4 DEF Fields
  <2>3. /\ q.level = level /\ q.health = h2 /\ q.bar = bar_left /\ q.fallen = f2
        /\ q.seed = s2 /\ q.rows = rs2 /\ q.bottom = bs2
    BY <1>4 DEF Fields
  <2> HIDE DEF q
  <2>4. q = Shot'
    BY <2>1, <2>2, <2>3, ScreenOf
  <2> USE DEF h2, rs2, bs2, s2, f2, q
  <2> QED BY <1>4, <1>5, <2>4, Zenon
<1>15. Game.fallen < Bounds[Game.level]
  BY <1>1, <1>3, <1>4, FallsToCome
<1>16. Game.health > Service!Cardinality(Game.bottom)
  BY <1>1, <1>4, <1>11
<1>17. Game.bottom # {} => Lost < Endured
  BY <1>3, <1>4, <1>11, LostGames
<1> QED BY <1>4, <1>13, <1>14, <1>15, <1>16, <1>17, Shown, Zenon

\* What the shown state is read from.
LEMMA SameShot ==
  ASSUME UNCHANGED <<stack, tmr1, lat, bar_left, counters>>, Playing' <=> Playing
  PROVE  UNCHANGED <<Game, Lost>>
BY DEF Game, Lost, Uncaught, counters, Playing

LEMMA MoveStep == IInv /\ Release => Service!Move \/ UNCHANGED <<Game, Lost>>
<1> SUFFICES ASSUME IInv, Release PROVE Service!Move \/ UNCHANGED <<Game, Lost>>
  OBVIOUS
<1>1. /\ Playing /\ Playing' /\ UNCHANGED <<stack, tmr1, counters>>
  BY DEF Release, check_RG2_release, check_RG3_release, Playing
<1>2. CASE UNCHANGED <<lat, bar_left>>
  BY <1>1, <1>2, SameShot
<1>3. CASE ~UNCHANGED <<lat, bar_left>>
  <2>1. /\ bar_left' \in {bar_left - 1, bar_left + 1} /\ bar_left' \in 0 .. 2
        /\ Uncaught' = Uncaught \ Under(bar_left')
        /\ \A c \in Columns : \A r \in 0 .. 4 : r \in lat'[c] <=> r \in lat[c]
    BY <1>3, Released DEF IInv
  <2>2. /\ Game # <<>> /\ Game = [x \in Fields |-> Game[x]]
        /\ Game.level = level /\ Game.health = health_point /\ Game.bar = bar_left
        /\ Game.fallen = LastBall - last_ball /\ Game.seed = Word(tmr1)
        /\ Game.rows = Rows /\ Game.bottom = Uncaught
    BY <1>1, GameFields
  <2>3. Rows' = Rows
    <3>1. \A r \in 1 .. 5 : r - 1 \in 0 .. 4
      OBVIOUS
    <3>2. \A r \in 1 .. 5 : {c \in Columns : r - 1 \in lat'[c]} = {c \in Columns : r - 1 \in lat[c]}
      BY <2>1, <3>1
    <3> QED BY <3>2 DEF Rows
  <2>4. PICK b \in {Game.bar - 1, Game.bar + 1} \cap (0 .. 2) : b = bar_left'
    BY <2>1, <2>2
  <2>5. Game' = [Game EXCEPT !.bar = b, !.bottom = @ \ Service!Under(b)]
    <3> DEFINE bs == Game.bottom \ Service!Under(b)
               q == [Game EXCEPT !.bar = b, !.bottom = bs]
    <3>1. bs = Uncaught'
      BY <2>1, <2>2, <2>4 DEF Under, Service!Under
    <3> HIDE DEF bs
    <3>2. q = [x \in Fields |-> q[x]]
      BY <2>2 DEF Fields
    <3>3. /\ q.level = level /\ q.health = health_point /\ q.bar = b
          /\ q.fallen = LastBall - last_ball /\ q.seed = Word(tmr1) /\ q.rows = Rows
          /\ q.bottom = bs
      BY <2>2 DEF Fields
    <3> HIDE DEF q
    <3>4. q = Screen(level, health_point, b, LastBall - last_ball, Word(tmr1), Rows, bs)
      BY <3>2, <3>3, ScreenOf
    <3>5. Game' = Screen(level', health_point', bar_left', LastBall - last_ball', Word(tmr1'),
                         Rows', Uncaught')
      BY <1>1 DEF Game, Screen, Word, Rows
    <3>6. Game' = q
      BY <1>1, <2>3, <2>4, <3>1, <3>4, <3>5 DEF counters
    <3> QED BY <3>6 DEF q, bs
  <2>6. Lost' = Lost
    BY <1>1 DEF Lost
  <2> QED BY <2>2, <2>4, <2>5, <2>6, Shown, Zenon
<1> QED BY <1>2, <1>3

LEMMA LevelUpStep == IInv /\ NextLevel => Service!LevelUp
<1> SUFFICES ASSUME IInv, NextLevel PROVE Service!LevelUp
  OBVIOUS
<1>1. /\ Playing /\ Playing' /\ pc = "test" /\ level' = level + 1
      /\ UNCHANGED <<stack, tmr1, lat, bar_left, health_point, ball_count, last_ball>>
      /\ \/ level = 1 /\ ball_count < Level2Below
         \/ level = 2 /\ ball_count < Level3Below
  BY DEF NextLevel, Playing
<1>2. /\ Game # <<>> /\ Game = [x \in Fields |-> Game[x]]
      /\ Game.level = level /\ Game.health = health_point /\ Game.bar = bar_left
      /\ Game.fallen = LastBall - last_ball /\ Game.seed = Word(tmr1)
      /\ Game.rows = Rows /\ Game.bottom = Uncaught
  BY <1>1, GameFields
<1>3. LastBall - last_ball = Bounds[level]
  <2>1. last_ball = ball_count + 6 /\ ball_count >= Least(level) - 1
    BY <1>1 DEF IInv, CountInv
  <2>2. ball_count \in Int /\ Balls \in Int /\ LastBall = Balls + 6
        /\ Level2Below \in Int /\ Level3Below \in Int
    BY Numbers DEF IInv, TypeOK
  <2>3. CASE level = 1
    BY <1>1, <2>1, <2>2, <2>3, BoundsOf DEF Least
  <2>4. CASE level = 2
    BY <1>1, <2>1, <2>2, <2>4, BoundsOf DEF Least
  <2> QED BY <1>1, <2>3, <2>4
<1>4. Game' = [Game EXCEPT !.level = @ + 1]
  <2> DEFINE l == Game.level + 1
             q == [Game EXCEPT !.level = l]
  <2>1. l = level'
    BY <1>1, <1>2
  <2> HIDE DEF l
  <2>2. q = [x \in Fields |-> q[x]]
    BY <1>2 DEF Fields
  <2>3. /\ q.level = l /\ q.health = health_point /\ q.bar = bar_left
        /\ q.fallen = LastBall - last_ball /\ q.seed = Word(tmr1) /\ q.rows = Rows
        /\ q.bottom = Uncaught
    BY <1>2 DEF Fields
  <2> HIDE DEF q
  <2>4. q = Screen(l, health_point, bar_left, LastBall - last_ball, Word(tmr1), Rows, Uncaught)
    BY <2>2, <2>3, ScreenOf
  <2>5. Game' = Screen(level', health_point', bar_left', LastBall - last_ball', Word(tmr1'),
                       Rows', Uncaught')
    BY <1>1 DEF Game, Screen, Word, Rows
  <2>6. Rows' = Rows /\ Uncaught' = Uncaught
    BY <1>1 DEF Rows, Uncaught
  <2>7. Game' = q
    BY <1>1, <2>1, <2>4, <2>5, <2>6
  <2> QED BY <2>7 DEF q, l
<1>5. Lost' = Lost /\ level < 3
  BY <1>1 DEF Lost
<1> QED BY <1>2, <1>3, <1>4, <1>5, Shown, Zenon

LEMMA LoseStep == IInv /\ decrease_health => Service!Lose
<1> SUFFICES ASSUME IInv, decrease_health PROVE Service!Lose
  OBVIOUS
<1>1. /\ Playing /\ ~Playing' /\ pc = "check_overflow" /\ stack' = stack + 4
      /\ misses > 0 /\ Deepest < StackLevels /\ health_point <= misses
  BY DEF decrease_health, zero_health, Playing
<1>2. /\ Game # <<>> /\ Game.level = level /\ Game.health = health_point
      /\ Game.fallen = LastBall - last_ball /\ Game.bottom = Uncaught
  BY <1>1, GameFields
<1>3. health_point = 1 /\ Uncaught # {}
  <2>1. misses \in 0 .. 4 /\ misses <= 1 /\ (misses = 0 <=> Uncaught = {})
    BY <1>1, Misses DEF IInv, ScreenInv
  <2>2. health_point > 0 /\ health_point \in 0 .. Health
    BY <1>1 DEF IInv, CountInv, TypeOK
  <2> QED BY <1>1, <2>1, <2>2, Numbers
<1>4. Lost < Endured /\ Lost' = Lost + 1
  <2>1. Lost < Endured /\ Lost \in Int /\ stack = 4 * Lost + 1
    BY <1>1, LostGames
  <2>2. ((stack + 4) - 1) \div 4 = Lost + 1
    BY <2>1
  <2> QED BY <1>1, <2>1, <2>2 DEF Lost
<1>5. Game.fallen < Bounds[Game.level]
  BY <1>1, <1>2, FallsToCome
<1>6. Game' = <<>>
  BY <1>1 DEF Game
<1> QED BY <1>2, <1>3, <1>4, <1>5, <1>6, Shown, Zenon

LEMMA WinStep == IInv /\ check_last_ball => Service!Win
<1> SUFFICES ASSUME IInv, check_last_ball PROVE Service!Win
  OBVIOUS
<1>1. Playing /\ ~Playing' /\ level = 3 /\ last_ball = 0 /\ stack' = stack
  BY DEF check_last_ball, zero_health, Playing
<1>2. Game # <<>> /\ Game.level = level /\ Game.fallen = LastBall - last_ball
  BY <1>1, GameFields
<1>3. Game.fallen = Bounds[3]
  BY <1>1, <1>2, BoundsOf, Numbers
<1>4. Game' = <<>> /\ Lost' = Lost
  BY <1>1 DEF Game, Lost
<1> QED BY <1>1, <1>2, <1>3, <1>4, Shown, Zenon

LEMMA RestartStep == IInv /\ StackReset => Service!Restart
<1> SUFFICES ASSUME IInv, StackReset PROVE Service!Restart
  OBVIOUS
<1>1. Playing /\ ~Playing' /\ misses > 0 /\ Deepest >= StackLevels /\ stack' = 1
  BY DEF StackReset, Playing
<1>2. Game # <<>> /\ Game.bottom = Uncaught
  BY <1>1, GameFields
<1>3. Uncaught # {}
  BY <1>1, Misses DEF IInv
<1>4. Lost = Endured
  <2>1. StackLevels \in Int /\ Deepest \in Int
    BY ConstantsAssumption DEF IInv, StackInv, Deepest
  <2> QED BY <1>1, <2>1, LostGames
<1>5. Game' = <<>> /\ Lost' = 0
  BY <1>1 DEF Game, Lost
<1> QED BY <1>2, <1>3, <1>4, <1>5, Shown, Zenon

LEMMA QuietStep ==
  ASSUME isr_timeinterval \/ check_RG0 \/ NoOverflow \/ check_RG2 \/ check_RG3 \/ SameLevel
  PROVE  UNCHANGED <<Game, Lost>>
<1>1. UNCHANGED <<stack, tmr1, lat, bar_left, counters>>
  BY DEF isr_timeinterval, check_RG0, NoOverflow, check_RG2, check_RG3, Check, SameLevel
<1>2. Playing' <=> Playing
  BY DEF isr_timeinterval, check_RG0, NoOverflow, check_RG2, check_RG3, Check, SameLevel, Playing
<1> QED BY <1>1, <1>2, SameShot

\* ImplementsService: the bytes, latches, masks and jumps of the program play the game of
\* BallService, for any number of balls, any levels, any health and any values of timer 1;
\* the addresses that lost games leave on the stack show in nothing but its Restart.
THEOREM Refinement == Spec => ImplementsService
<1>1. Init => Service!Init
  <2> SUFFICES ASSUME Init PROVE Service!Init
    OBVIOUS
  <2>1. ~Playing /\ (1 - 1) \div 4 = 0
    BY DEF Init, Playing
  <2> QED BY <2>1, Shown DEF Init, Game, Lost
<1>2. IInv /\ [Next]_vars => [Service!Next]_Service!vars
  <2> SUFFICES ASSUME IInv, [Next]_vars
               PROVE  Service!Next \/ UNCHANGED Service!vars
    OBVIOUS
  <2>1. UNCHANGED <<Game, Lost>> => UNCHANGED Service!vars
    BY DEF Service!vars, Game, Lost
  <2>2. CASE UNCHANGED vars
    <3>1. UNCHANGED <<Game, Lost>>
      BY <2>2, SameShot DEF vars, Playing, counters
    <3> QED BY <2>1, <3>1
  <2>3. CASE Next
    <3>1. CASE isr_timeinterval \/ check_RG0 \/ NoOverflow \/ check_RG2 \/ check_RG3 \/ SameLevel
      BY <2>1, <3>1, QuietStep
    <3>2. CASE check_RG0_release \/ Release \/ check_overflow \/ decrease_health \/ StackReset
               \/ NextLevel \/ check_last_ball
      BY <2>1, <3>2, StartStep, MoveStep, FallStep, LoseStep, RestartStep, LevelUpStep,
         WinStep DEF Service!Next
    <3> QED BY <2>3, <3>1, <3>2 DEF Next, MainLoop
  <2> QED BY <2>2, <2>3
<1> QED BY <1>1, <1>2, Inductive, PTL DEF Spec, ImplementsService, Service!Spec
=============================================================================
