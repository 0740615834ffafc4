--------------------------- MODULE GuessGameProofs ---------------------------
(***************************************************************************)
(* Proofs about GuessGame for games of any length that fits the 16-bit     *)
(* counters, any number to guess and any readings of the potentiometer.    *)
(***************************************************************************)
EXTENDS GuessGame, TLAPS, FiniteSetTheorems

-----------------------------------------------------------------------------
(* What the operators return.                                              *)

\* While a counter is not 0 it is simply decremented.
LEMMA LessOne ==
  ASSUME NEW n \in Int, 1 <= n, n < 65536
  PROVE  Less(n) = n - 1
BY DEF Less

\* A reading is one of ten digits.
LEMMA MapperDigit ==
  ASSUME NEW value
  PROVE  ADCMapper(value) \in 0 .. 9
<1> DEFINE Passed == {k \in 1 .. 9 : value > 102 * k}
<1>1. IsFiniteSet(1 .. 9) /\ Cardinality(1 .. 9) = 9
  <2>1. 1 \in Int /\ 9 \in Int
    OBVIOUS
  <2>2. IsFiniteSet(1 .. 9) /\ Cardinality(1 .. 9) = IF 1 > 9 THEN 0 ELSE 9 - 1 + 1
    BY <2>1, FS_Interval, Zenon
  <2> QED BY <2>2
<1>2. Cardinality(Passed) \in Nat /\ Cardinality(Passed) <= 9
  BY <1>1, FS_Subset, FS_CardinalityType
<1> QED BY <1>2 DEF ADCMapper

\* A half second begun counts as one.
LEMMA HalfsBounds ==
  ASSUME NEW n \in Nat
  PROVE  /\ Halfs(n) \in Int
         /\ n <= HalfTicks * Halfs(n)
         /\ HalfTicks * Halfs(n) < n + HalfTicks
<1> DEFINE a == n + HalfTicks - 1
<1>1. HalfTicks \in Nat \ {0} /\ a \in Int
  BY ConstantsAssumption
<1>2. /\ a = HalfTicks * (a \div HalfTicks) + (a % HalfTicks)
      /\ a % HalfTicks \in 0 .. (HalfTicks - 1)
      /\ a \div HalfTicks \in Int
  BY <1>1
<1>3. HalfTicks * (a \div HalfTicks) \in Int
  BY <1>1, <1>2
<1> QED BY <1>1, <1>2, <1>3 DEF Halfs

\* Bounds of that kind determine the number of half seconds.
LEMMA Quotient ==
  ASSUME NEW p \in Int, NEW q \in Int, HalfTicks * p < HalfTicks * q + HalfTicks
  PROVE  p <= q
BY ConstantsAssumption

\* A tick ends a half second or does not.
LEMMA HalfsTick ==
  ASSUME NEW n \in Nat, 1 < n
  PROVE  \/ Halfs(n - 1) = Halfs(n)
         \/ Halfs(n) > 1 /\ Halfs(n - 1) = Halfs(n) - 1
<1> DEFINE p == Halfs(n - 1)
           q == Halfs(n)
<1> HIDE DEF p, q
<1>1. HalfTicks \in Nat \ {0}
  BY ConstantsAssumption
<1>2. /\ q \in Int /\ n <= HalfTicks * q /\ HalfTicks * q < n + HalfTicks
      /\ p \in Int /\ n - 1 <= HalfTicks * p /\ HalfTicks * p < n - 1 + HalfTicks
  BY HalfsBounds DEF p, q
<1>3. HalfTicks * p \in Int /\ HalfTicks * q \in Int
  BY <1>1, <1>2
<1>4. p <= q
  BY <1>1, <1>2, <1>3, Quotient
<1>5. q <= p + 1
  <2>1. HalfTicks * (p + 1) = HalfTicks * p + HalfTicks /\ p + 1 \in Int
    BY <1>1, <1>2
  <2>2. HalfTicks * q < HalfTicks * (p + 1) + HalfTicks
    BY <1>1, <1>2, <1>3, <2>1
  <2> QED BY <1>2, <2>1, <2>2, Quotient
<1>6. 0 < p
  <2>1. HalfTicks * 0 = 0 /\ 0 < HalfTicks * p
    BY <1>1, <1>2, <1>3
  <2>2. SUFFICES ASSUME p <= 0 PROVE FALSE
    BY <1>2
  <2> QED BY <1>1, <1>2, <2>1, <2>2
<1> QED BY <1>2, <1>4, <1>5, <1>6 DEF p, q

LEMMA HalfsExact ==
  /\ Halfs(1) = 1
  /\ Halfs(4 * HalfTicks) = 4
  /\ Halfs(GameTicks) = GameTicks \div HalfTicks
<1>1. HalfTicks \in Nat \ {0} /\ GameTicks \in Nat
  BY ConstantsAssumption
<1>2. ASSUME NEW n \in Nat, NEW q \in Int, HalfTicks * q < n + HalfTicks, n <= HalfTicks * q
      PROVE  Halfs(n) = q
  <2> DEFINE p == Halfs(n)
  <2> HIDE DEF p
  <2>1. p \in Int /\ n <= HalfTicks * p /\ HalfTicks * p < n + HalfTicks
    BY HalfsBounds DEF p
  <2>2. HalfTicks * p \in Int /\ HalfTicks * q \in Int
    BY <1>1, <2>1
  <2>3. p <= q /\ q <= p
    BY <1>1, <1>2, <2>1, <2>2, Quotient
  <2> QED BY <2>1, <2>3 DEF p
<1>3. Halfs(1) = 1
  BY <1>1, <1>2
<1>4. Halfs(4 * HalfTicks) = 4
  BY <1>1, <1>2
<1>5. Halfs(GameTicks) = GameTicks \div HalfTicks
  <2> DEFINE g == GameTicks \div HalfTicks
  <2>1. g \in Int /\ GameTicks = HalfTicks * g + (GameTicks % HalfTicks)
    BY <1>1
  <2>2. GameTicks = HalfTicks * g
    BY <1>1, <2>1, ConstantsAssumption
  <2> QED BY <1>1, <1>2, <2>1, <2>2
<1> QED BY <1>3, <1>4, <1>5

-----------------------------------------------------------------------------
(* Types and what every state keeps.                                       *)

\* The parts of TypeOK.
ValuesOK ==
  /\ pc \in DOMAIN Order
  /\ timer1Value \in 0 .. GameTicks
  /\ timer1Display \in 1 .. 4 * HalfTicks
  /\ adc_value \in 0 .. 1023
  /\ leds \in {"off", "up", "down"}
  /\ seg \in 0 .. Blank
  /\ raised \subseteq Timers \cup {"RB", "AD"}
  /\ running \subseteq Timers

ProgramBits ==
  /\ RB4Pressed \in BOOLEAN /\ timer1Interrupted \in BOOLEAN
  /\ timer0Interrupted \in BOOLEAN /\ ADCInterrupted \in BOOLEAN
  /\ gameFinished \in BOOLEAN
  /\ RBIE \in BOOLEAN /\ ADIE \in BOOLEAN /\ ADON \in BOOLEAN /\ GODONE \in BOOLEAN

ButtonBits ==
  /\ debouncing_start \in BOOLEAN /\ debounced \in BOOLEAN
  /\ rb4 \in BOOLEAN /\ held \in BOOLEAN /\ bouncing \in BOOLEAN
  /\ sampled \in BOOLEAN /\ counted \in BOOLEAN

BitsOK == ProgramBits /\ ButtonBits

\* The counters: a game that goes on has time left and the blinking of its
\* number is still to come, whole.
CountInv ==
  ~gameFinished => timer1Value >= 1 /\ timer1Display = 4 * HalfTicks

\* A press that has been taken: while it lasts the button is not ready for another,
\* and a bounce in which it was taken, or in which the button got ready again, sees
\* no other sample of timer 3.
TakenInv ==
  /\ ~bouncing => rb4 = held
  /\ counted /\ debounced => ~held
  /\ counted /\ bouncing /\ (held \/ debounced) => sampled /\ "TMR3" \notin raised

\* A pin that glitches breaks that, which is a defect of the code.
ButtonInv == Pin # "glitches" => TakenInv

IInv == ValuesOK /\ BitsOK /\ CountInv /\ ShowsReading /\ ButtonInv

\* The main loop tests the four flags in turn.
LEMMA Turn ==
  /\ DOMAIN Order = {"adc", "timer0", "timer1", "rb4"}
  /\ \A flag \in DOMAIN Order : Order[flag] \in DOMAIN Order
BY DEF Order

LEMMA InitInv == Init => IInv
<1> SUFFICES ASSUME Init PROVE IInv
  OBVIOUS
<1>1. ValuesOK
  <2>1. pc \in DOMAIN Order
    BY Turn DEF Init
  <2>2. timer1Value \in 0 .. GameTicks /\ timer1Display \in 1 .. 4 * HalfTicks
    BY ConstantsAssumption DEF Init
  <2> QED BY <2>1, <2>2 DEF Init, ValuesOK, Blank, Timers
<1>2. BitsOK
  BY DEF Init, BitsOK, ProgramBits, ButtonBits
<1>3. CountInv
  BY ConstantsAssumption DEF Init, CountInv
<1>4. ShowsReading /\ ButtonInv
  BY DEF Init, ShowsReading, ButtonInv, TakenInv
<1> QED BY <1>1, <1>2, <1>3, <1>4 DEF IInv

\* The microcontroller and the player change bits only.
LEMMA HardwareInv ==
  ASSUME IInv, Converted \/ (\E timer \in Timers : Overflow(timer))
  PROVE  IInv'
<1> USE DEF flags, game, debounce, display, adc, button
<1>1. CASE Converted
  <2>1. ValuesOK'
    BY <1>1 DEF Converted, IInv, ValuesOK
  <2>2. BitsOK'
    <3>1. ProgramBits'
      BY <1>1, Zenon DEF Converted, IInv, BitsOK, ProgramBits
    <3>2. ButtonBits'
      BY <1>1 DEF Converted, IInv, BitsOK, ButtonBits
    <3> QED BY <3>1, <3>2 DEF BitsOK
  <2>3. ButtonInv'
    BY <1>1 DEF Converted, IInv, ButtonInv, TakenInv
  <2> QED BY <1>1, <2>1, <2>2, <2>3 DEF Converted, IInv, CountInv, ShowsReading
<1>2. ASSUME NEW timer \in Timers, Overflow(timer) PROVE IInv'
  <2>1. ValuesOK' /\ BitsOK'
    BY <1>2 DEF Overflow, IInv, ValuesOK, BitsOK, ProgramBits, ButtonBits
  <2>2. ButtonInv'
    BY <1>2 DEF Overflow, Handled, IInv, ButtonInv, TakenInv
  <2> QED BY <1>2, <2>1, <2>2 DEF Overflow, IInv, CountInv, ShowsReading
<1> QED BY <1>1, <1>2

LEMMA PlayerInv ==
  ASSUME IInv, Player
  PROVE  IInv'
<1> USE DEF flags, game, debounce, display, adc, button
<1>1. UNCHANGED <<pc, flags, game, debounce, adc_value, display, RBIE, ADIE, running, adc>>
  BY DEF Player, Move, Bounce, Settle, Toggle
<1>2. raised' \in {raised, raised \cup {"RB"}}
  BY DEF Player, Move, Bounce, Settle, Toggle
<1>3. ValuesOK'
  BY <1>1, <1>2 DEF IInv, ValuesOK
<1>4. /\ rb4' \in BOOLEAN /\ held' \in BOOLEAN /\ bouncing' \in BOOLEAN
      /\ sampled' \in BOOLEAN /\ counted' \in BOOLEAN
  BY DEF Player, Move, Bounce, Settle, Toggle, IInv, BitsOK, ProgramBits, ButtonBits
<1>5. BitsOK'
  BY <1>1, <1>4 DEF IInv, BitsOK, ProgramBits, ButtonBits
<1>6. ButtonInv'
  <2> SUFFICES ASSUME Pin # "glitches", TakenInv PROVE TakenInv'
    BY DEF ButtonInv, IInv
  <2>1. /\ rb4 \in BOOLEAN /\ held \in BOOLEAN /\ bouncing \in BOOLEAN
        /\ counted \in BOOLEAN /\ debounced' = debounced
    BY <1>1 DEF IInv, BitsOK, ProgramBits, ButtonBits
  <2>2. "TMR3" \notin raised => "TMR3" \notin raised'
    BY <1>2
  <2>3. CASE Move
    BY <2>1, <2>2, <2>3 DEF Move, Toggle, TakenInv
  <2>4. CASE Bounce
    BY <2>1, <2>2, <2>4 DEF Bounce, Toggle, TakenInv
  <2>5. CASE Settle
    BY <2>1, <2>2, <2>5 DEF Settle, TakenInv
  <2> QED BY <2>3, <2>4, <2>5 DEF Player
<1> QED BY <1>1, <1>3, <1>5, <1>6 DEF IInv, CountInv, ShowsReading

\* Timer 3 takes a press only once.
LEMMA TakesOnce ==
  ASSUME IInv, TakesPress, Pin # "glitches"
  PROVE  ~counted
BY DEF IInv, BitsOK, ProgramBits, ButtonBits, ButtonInv, TakenInv, TakesPress

LEMMA isrInv ==
  ASSUME IInv, isr
  PROVE  IInv'
<1> USE DEF flags, game, debounce, display, adc
<1>1. ValuesOK'
  BY DEF isr, IInv, ValuesOK, Timers
<1>2. BitsOK'
  BY Zenon DEF isr, IInv, BitsOK, ProgramBits, ButtonBits, TakesPress, IsUp
<1>3. ButtonInv'
  <2> SUFFICES ASSUME Pin # "glitches", TakenInv PROVE TakenInv'
    BY DEF ButtonInv, IInv
  <2>1. /\ rb4' = rb4 /\ held' = held /\ bouncing' = bouncing /\ raised' = {}
        /\ counted' = (counted \/ TakesPress)
        /\ sampled' = (sampled \/ (bouncing /\ "TMR3" \in raised))
        /\ debounced' = IF TakesPress THEN FALSE ELSE debounced \/ (IsUp /\ debouncing_start)
    BY DEF isr
  <2>2. "TMR3" \notin raised'
    BY <2>1
  <2> QED BY <2>1, <2>2 DEF TakenInv, TakesPress, IsUp, IInv, BitsOK, ProgramBits, ButtonBits
<1> QED BY <1>1, <1>2, <1>3 DEF isr, IInv, CountInv, ShowsReading

LEMMA MainLoopInv ==
  ASSUME IInv, MainLoop
  PROVE  IInv'
<1> USE DEF flags, game, debounce, display, adc, button
<1>1. /\ ValuesOK /\ ProgramBits /\ CountInv /\ ShowsReading /\ ButtonInv
      /\ timer1Value \in Int /\ timer1Display \in Int
  BY ConstantsAssumption DEF IInv, ValuesOK, BitsOK
<1>2. ButtonBits' /\ ButtonInv'
  <2>1. UNCHANGED <<debounce, button, counted>> /\ raised' \subseteq raised
    BY DEF MainLoop, Pass, ADCInterrupt, timer0Interrupt, CountDown, TimeUp, Blink, Restart,
           Tick, initLedsAnd7Seg, RB4Interrupt
  <2> QED BY <1>1, <2>1 DEF IInv, BitsOK, ButtonBits, ButtonInv, TakenInv
<1>3. ASSUME NEW flag \in DOMAIN Order, Tests(flag) PROVE pc' \in DOMAIN Order
  BY <1>3, Turn DEF Tests
<1>4. CASE Pass
  <2>1. pc' \in DOMAIN Order
    BY <1>1, <1>3, <1>4 DEF Pass, ValuesOK
  <2>2. ValuesOK' /\ ProgramBits'
    BY <1>1, <1>4, <2>1 DEF Pass, ValuesOK, ProgramBits
  <2> QED BY <1>1, <1>2, <1>4, <2>2 DEF Pass, IInv, BitsOK, CountInv, ShowsReading
<1>5. CASE ADCInterrupt
  <2>1. PICK value \in Voltages : adc_value' = value /\ seg' = Reading(value)
    BY <1>5 DEF ADCInterrupt
  <2>2. adc_value' \in 0 .. 1023 /\ seg' = ADCMapper(adc_value')
    BY <2>1, ConstantsAssumption DEF Reading
  <2>3. seg' \in 0 .. Blank
    BY <2>2, MapperDigit DEF Blank
  <2>4. pc' \in DOMAIN Order
    BY <1>3, <1>5, Turn DEF ADCInterrupt
  <2>5. ValuesOK'
    BY <1>1, <1>5, <2>2, <2>3, <2>4 DEF ADCInterrupt, ValuesOK
  <2>6. ProgramBits'
    BY <1>1, <1>5 DEF ADCInterrupt, ProgramBits
  <2> QED BY <1>1, <1>2, <1>5, <2>2, <2>5, <2>6
          DEF ADCInterrupt, IInv, BitsOK, CountInv, ShowsReading
<1>6. CASE timer0Interrupt
  <2>1. pc' \in DOMAIN Order
    BY <1>3, <1>6, Turn DEF timer0Interrupt
  <2>2. ValuesOK'
    BY <1>1, <1>6, <2>1 DEF timer0Interrupt, ValuesOK
  <2>3. ProgramBits'
    BY <1>1, <1>6, Zenon DEF timer0Interrupt, ProgramBits
  <2> QED BY <1>1, <1>2, <1>6, <2>2, <2>3
          DEF timer0Interrupt, IInv, BitsOK, CountInv, ShowsReading
<1>7. ASSUME Tick PROVE /\ pc' \in DOMAIN Order
                        /\ timer1Interrupted' = FALSE
                        /\ UNCHANGED <<RB4Pressed, timer0Interrupted, ADCInterrupted,
                                       debounce, adc_value, button, counted>>
  BY <1>3, <1>7, Turn DEF Tick
<1>8. ASSUME ~gameFinished PROVE Less(timer1Value) = timer1Value - 1
  BY <1>1, <1>8, LessOne, ConstantsAssumption DEF CountInv, ValuesOK
<1>9. Less(timer1Display) = timer1Display - 1
  BY <1>1, LessOne, ConstantsAssumption DEF ValuesOK
<1>10. CASE CountDown
  <2>1. timer1Value' = timer1Value - 1 /\ timer1Value' # 0
    BY <1>8, <1>10 DEF CountDown
  <2>2. timer1Value' \in 0 .. GameTicks /\ timer1Value' >= 1
    BY <1>1, <1>10, <2>1, ConstantsAssumption DEF CountDown, CountInv, ValuesOK
  <2>3. ValuesOK'
    BY <1>1, <1>7, <1>10, <2>2 DEF CountDown, ValuesOK
  <2>4. ProgramBits'
    BY <1>1, <1>7, <1>10, ZenonT(30) DEF CountDown, ProgramBits
  <2> QED BY <1>1, <1>2, <1>7, <1>10, <2>2, <2>3, <2>4
          DEF CountDown, IInv, BitsOK, CountInv, ShowsReading
<1>11. CASE TimeUp
  <2>1. timer1Value' \in 0 .. GameTicks /\ seg' \in 0 .. Blank
    BY <1>11, ConstantsAssumption DEF TimeUp, EndGame, Blank
  <2>2. ValuesOK'
    BY <1>1, <1>7, <1>11, <2>1 DEF TimeUp, EndGame, ValuesOK
  <2>3. ProgramBits'
    BY <1>1, <1>7, <1>11, Zenon DEF TimeUp, EndGame, ProgramBits
  <2> QED BY <1>1, <1>2, <1>7, <1>11, <2>2, <2>3
          DEF TimeUp, EndGame, IInv, BitsOK, CountInv, ShowsReading
<1>12. CASE Blink
  <2>1. timer1Display' = timer1Display - 1 /\ timer1Display' # 0
    BY <1>9, <1>12 DEF Blink
  <2>2. seg' \in {Blank, Special, seg}
    BY <1>12 DEF Blink
  <2>3. seg' \in 0 .. Blank
    BY <1>1, <2>2, ConstantsAssumption DEF ValuesOK, Blank
  <2>4. timer1Display' \in 1 .. 4 * HalfTicks
    BY <1>1, <2>1, ConstantsAssumption DEF ValuesOK
  <2>5. ValuesOK'
    BY <1>1, <1>7, <1>12, <2>3, <2>4 DEF Blink, ValuesOK
  <2>6. ProgramBits'
    BY <1>1, <1>7, <1>12, ZenonT(30) DEF Blink, ProgramBits
  <2> QED BY <1>1, <1>2, <1>7, <1>12, <2>5, <2>6
          DEF Blink, IInv, BitsOK, CountInv, ShowsReading
<1>13. CASE Restart
  <2> USE DEF Restart, initADC, initLedsAnd7Seg, initTimers
  <2>1. /\ timer1Value' \in 0 .. GameTicks /\ timer1Value' >= 1
        /\ timer1Display' = 4 * HalfTicks /\ timer1Display' \in 1 .. 4 * HalfTicks
    BY <1>13, ConstantsAssumption
  <2>2. raised' \subseteq Timers \cup {"RB", "AD"} /\ running' \subseteq Timers
    BY <1>1, <1>13 DEF ValuesOK, Timers
  <2>3. seg' = Blank /\ leds' \in {"off", "up", "down"} /\ seg' \in 0 .. Blank
    BY <1>13 DEF Blank
  <2>4. ValuesOK'
    BY <1>1, <1>7, <1>13, <2>1, <2>2, <2>3 DEF ValuesOK
  <2>5. ProgramBits'
    BY <1>1, <1>7, <1>13, Zenon DEF ProgramBits
  <2> QED BY <1>1, <1>2, <1>7, <1>13, <2>1, <2>3, <2>4, <2>5
          DEF IInv, BitsOK, CountInv, ShowsReading
<1>14. CASE RB4Interrupt
  <2> DEFINE Right == /\ EndGame /\ EndsGuess
                      /\ running' = (running \ {"TMR0"}) \cup {"TMR1"}
             Wrong == /\ leds' \in {"up", "down"}
                      /\ UNCHANGED <<timer1Display, gameFinished, seg, RBIE, running, adc>>
  <2>1. /\ Tests("rb4") /\ RB4Pressed' = FALSE
        /\ Right \/ Wrong
        /\ UNCHANGED <<timer1Interrupted, timer0Interrupted, ADCInterrupted, timer1Value,
                       debounce, adc_value, raised, ADIE, button, counted>>
    BY <1>14 DEF RB4Interrupt
  <2>2. pc' \in DOMAIN Order
    BY <1>3, <2>1, Turn
  <2>3. timer1Display' = timer1Display
    BY <2>1 DEF EndsGuess
  <2>4. CASE Right
    <3>1. seg' \in 0 .. Blank /\ running' \subseteq Timers
      BY <1>1, <2>4, ConstantsAssumption DEF EndGame, Blank, ValuesOK, Timers
    <3>2. ValuesOK'
      BY <1>1, <2>1, <2>2, <2>3, <2>4, <3>1 DEF EndGame, ValuesOK
    <3>3. ProgramBits'
      BY <1>1, <2>1, <2>4, Zenon DEF EndGame, ProgramBits
    <3> QED BY <1>1, <1>2, <2>1, <2>4, <3>2, <3>3
            DEF EndGame, IInv, BitsOK, CountInv, ShowsReading
  <2>5. CASE Wrong
    <3>1. ValuesOK'
      BY <1>1, <2>1, <2>2, <2>5 DEF ValuesOK
    <3>2. ProgramBits'
      BY <1>1, <2>1, <2>5, ZenonT(30) DEF ProgramBits
    <3> QED BY <1>1, <1>2, <2>1, <2>5, <3>1, <3>2 DEF IInv, BitsOK, CountInv, ShowsReading
  <2> QED BY <2>1, <2>4, <2>5
<1> QED BY <1>4, <1>5, <1>6, <1>10, <1>11, <1>12, <1>13, <1>14 DEF MainLoop

LEMMA StepInv ==
  ASSUME IInv, [Next]_vars
  PROVE  IInv'
<1>1. CASE UNCHANGED vars
  BY <1>1 DEF vars, flags, game, debounce, display, adc, button, IInv, ValuesOK, BitsOK,
              ProgramBits, ButtonBits, CountInv, ShowsReading, ButtonInv, TakenInv
<1> QED BY <1>1, HardwareInv, PlayerInv, isrInv, MainLoopInv DEF Next

LEMMA Inductive == Spec => []IInv
BY InitInv, StepInv, PTL DEF Spec

-----------------------------------------------------------------------------
(* What the runs check, for every value of the constants.                  *)

\* The counters never pass 0, where they would begin again at 65535, and the
\* display is never given more than a digit (lines 324-382).
THEOREM Typing == Spec => []TypeOK
<1>1. IInv => TypeOK
  BY DEF IInv, ValuesOK, BitsOK, ProgramBits, ButtonBits, TypeOK
<1> QED BY Inductive, <1>1, PTL

\* While the player guesses, the display shows what adc_value stands for, or
\* nothing yet (lines 374-382).
THEOREM Shows == Spec => []ShowsReading
BY Inductive, PTL DEF IInv

\* However the pin bounces when the button goes down and when it comes up, a press
\* is taken at most once (lines 256-277).  A pin that also glitches while the button
\* is held is excluded: there the code is wrong.
THEOREM Presses ==
  ASSUME Pin # "glitches"
  PROVE  Spec => PressOnce
<1>1. ASSUME IInv, [Next]_vars, ~RB4Pressed, RB4Pressed' PROVE ~counted
  <2> USE DEF flags, game, debounce, display, adc
  <2>1. CASE isr
    BY <1>1, <2>1, TakesOnce DEF isr
  <2>2. UNCHANGED RB4Pressed \/ RB4Pressed' = FALSE \/ isr
    BY <1>1 DEF vars, Next, MainLoop, Pass, ADCInterrupt, timer0Interrupt, Tick, CountDown,
                TimeUp, Blink, Restart, RB4Interrupt, Converted, Overflow, Player, Move,
                Bounce, Settle, Toggle
  <2> QED BY <1>1, <2>1, <2>2
<1> QED BY Inductive, <1>1, PTL DEF Spec, PressOnce

-----------------------------------------------------------------------------
(* The firmware plays the game of GuessService.                            *)

\* The press that waits for its answer.
Waiting == IF ~RB4Pressed THEN "none" ELSE IF pc = "rb4" THEN "due" ELSE "waiting"

LEMMA ServiceInit == Init => Service!Init
<1>1. ASSUME Init PROVE ADCMapper(adc_value) = 0
  <2>1. {k \in 1 .. 9 : adc_value > 102 * k} = {}
    BY <1>1 DEF Init
  <2> QED BY <2>1, FS_EmptySet DEF ADCMapper
<1> QED BY <1>1, HalfsExact DEF Init, Service!Init

\* The phase, the half seconds left of it and the hint.
Seen == <<IF gameFinished THEN "showing" ELSE "guessing",
          IF gameFinished THEN Halfs(timer1Display) ELSE Halfs(timer1Value),
          IF gameFinished THEN "off" ELSE leds>>

\* A step that does not touch the game leaves them as they are.
Same == UNCHANGED <<gameFinished, timer1Value, timer1Display, leds>>

LEMMA SameGame ==
  ASSUME Same
  PROVE  UNCHANGED Seen
BY DEF Same, Seen, Halfs

\* While the number is shown the arrows do not count as hints.
LEMMA SameShowing ==
  ASSUME gameFinished, gameFinished', UNCHANGED timer1Display
  PROVE  UNCHANGED Seen
BY DEF Seen, Halfs

\* A step that leaves the game alone and moves a press at most one stage on.
LEMMA QuietService ==
  ASSUME UNCHANGED Seen, UNCHANGED adc_value,
         <<Waiting, Waiting'>> \in {<<"none", "waiting">>, <<"none", "due">>, <<"waiting", "due">>}
           \/ UNCHANGED Waiting
  PROVE  [Service!Next]_(Service!vars)
<1>1. UNCHANGED ADCMapper(adc_value)
  BY DEF ADCMapper
<1>2. CASE UNCHANGED Waiting
  BY <1>1, <1>2 DEF Service!vars, Waiting, Seen
<1>3. CASE Waiting = "none" /\ Waiting' \in {"waiting", "due"}
  <2>1. Service!Press
    BY <1>1, <1>3 DEF Service!Press, Waiting, Seen
  <2> QED BY <2>1 DEF Service!Next
<1>4. CASE Waiting = "waiting" /\ Waiting' = "due"
  <2>1. Service!Becomes_due
    BY <1>1, <1>4 DEF Service!Becomes_due, Waiting, Seen
  <2> QED BY <2>1 DEF Service!Next
<1> QED BY <1>2, <1>3, <1>4

LEMMA ReadingService ==
  ASSUME IInv, ADCInterrupt
  PROVE  Service!Turn
<1> USE DEF flags, game, debounce, display, adc
<1>1. Same /\ UNCHANGED RB4Pressed /\ pc = "adc" /\ pc' = "timer0"
  BY DEF ADCInterrupt, Tests, Order, Same
<1>2. ADCMapper(adc_value') \in 0 .. 9
  BY MapperDigit
<1>3. ADCMapper(adc_value)' = ADCMapper(adc_value')
  BY DEF ADCMapper
<1> QED BY <1>1, <1>2, <1>3, SameGame DEF Service!Turn, Seen

LEMMA TickService ==
  ASSUME IInv, CountDown \/ TimeUp \/ Blink \/ Restart
  PROVE  [Service!Next]_(Service!vars)
<1> USE DEF game, display
<1>1. /\ ValuesOK /\ CountInv
      /\ timer1Value \in Nat /\ timer1Display \in Nat /\ timer1Display >= 1
  BY ConstantsAssumption DEF IInv, ValuesOK
<1>2. Less(timer1Display) = timer1Display - 1
  BY <1>1, LessOne, ConstantsAssumption DEF ValuesOK
<1>3. ASSUME ~gameFinished PROVE Less(timer1Value) = timer1Value - 1 /\ timer1Value >= 1
  BY <1>1, <1>3, LessOne, ConstantsAssumption DEF CountInv, ValuesOK
\* A press that came before this test of the flag is answered next.
<1>4. /\ UNCHANGED RB4Pressed /\ UNCHANGED adc_value
      /\ pc = "timer1" /\ pc' = "rb4"
  BY DEF CountDown, TimeUp, Blink, Restart, Tick, Tests, Order, flags
<1>5. /\ Waiting # "due"
      /\ Waiting' = IF Waiting = "waiting" THEN "due" ELSE Waiting
      /\ UNCHANGED ADCMapper(adc_value)
  BY <1>4 DEF Waiting, ADCMapper
<1>6. ASSUME Service!HalfSecond PROVE [Service!Next]_(Service!vars)
  BY <1>6 DEF Service!Next
<1>7. CASE CountDown
  <2>1. /\ ~gameFinished /\ ~gameFinished' /\ UNCHANGED leds
        /\ timer1Value' = timer1Value - 1 /\ 1 < timer1Value
    BY <1>1, <1>3, <1>7 DEF CountDown
  <2>2. CASE Halfs(timer1Value') = Halfs(timer1Value)
    <3>1. UNCHANGED Seen
      BY <2>1, <2>2 DEF Seen, Halfs
    <3> QED BY <1>4, <1>5, <3>1, QuietService
  <2>3. CASE Halfs(timer1Value) > 1 /\ Halfs(timer1Value') = Halfs(timer1Value) - 1
    BY <1>5, <1>6, <2>1, <2>3 DEF Service!HalfSecond, Halfs, Waiting
  <2> QED BY <1>1, <2>1, <2>2, <2>3, HalfsTick
<1>8. CASE TimeUp
  <2>1. /\ ~gameFinished /\ gameFinished'
        /\ timer1Value = 1 /\ timer1Display' = 4 * HalfTicks
    BY <1>1, <1>3, <1>8 DEF TimeUp, EndGame, CountInv
  <2>2. Halfs(timer1Value) = 1 /\ Halfs(timer1Display') = 4
    BY <2>1, HalfsExact
  <2> QED BY <1>5, <1>6, <2>1, <2>2 DEF Service!HalfSecond, Service!Show, Halfs, Waiting
<1>9. CASE Blink
  <2>1. /\ gameFinished /\ gameFinished'
        /\ timer1Display' = timer1Display - 1 /\ 1 < timer1Display
    BY <1>1, <1>2, <1>9 DEF Blink
  <2>2. CASE Halfs(timer1Display') = Halfs(timer1Display)
    <3>1. UNCHANGED Seen
      BY <2>1, <2>2 DEF Seen, Halfs
    <3> QED BY <1>4, <1>5, <3>1, QuietService
  <2>3. CASE Halfs(timer1Display) > 1 /\ Halfs(timer1Display') = Halfs(timer1Display) - 1
    BY <1>5, <1>6, <2>1, <2>3 DEF Service!HalfSecond, Halfs, Waiting
  <2> QED BY <1>1, <2>1, <2>2, <2>3, HalfsTick
<1>10. CASE Restart
  <2>1. /\ gameFinished /\ ~gameFinished' /\ leds' = "off"
        /\ timer1Display = 1 /\ timer1Value' = GameTicks
    BY <1>1, <1>2, <1>10 DEF Restart, initLedsAnd7Seg, initTimers
  <2>2. Halfs(timer1Display) = 1 /\ Halfs(timer1Value') = GameTicks \div HalfTicks
    BY <2>1, HalfsExact
  <2> QED BY <1>5, <1>6, <2>1, <2>2 DEF Service!HalfSecond, Halfs, Waiting
<1> QED BY <1>7, <1>8, <1>9, <1>10

LEMMA PressService ==
  ASSUME IInv, RB4Interrupt
  PROVE  Service!Answer
<1> USE DEF display, adc
<1>1. PICK digit \in 0 .. 9 : digit = ADCMapper(adc_value)
  BY MapperDigit
<1>2. timer1Display' = timer1Display /\ timer1Value' = timer1Value
  BY DEF RB4Interrupt, EndsGuess
<1>3. UNCHANGED ADCMapper(adc_value)
  BY DEF RB4Interrupt, ADCMapper
<1>4. Waiting = "due" /\ Waiting' = "none"
  BY DEF RB4Interrupt, Tests, Waiting
<1>5. ASSUME gameFinished, gameFinished' PROVE Service!Answer
  BY <1>2, <1>3, <1>4, <1>5, SameShowing DEF Service!Answer, Waiting, Seen
<1>6. ASSUME ~gameFinished, Service!Guess PROVE Service!Answer
  BY <1>3, <1>4, <1>6 DEF Service!Answer, Waiting
<1>7. CASE digit = Special
  <2>1. gameFinished' /\ leds' = "off"
    BY <1>1, <1>7 DEF RB4Interrupt, EndGame
  <2>2. CASE gameFinished
    BY <1>5, <2>1, <2>2
  <2>3. CASE ~gameFinished
    <3>1. Halfs(timer1Display') = 4
      BY <1>2, <2>3, HalfsExact DEF IInv, CountInv
    <3>2. Service!Guess
      BY <1>1, <1>7, <2>1, <2>3, <3>1 DEF Service!Guess, Service!Show, Halfs
    <3> QED BY <1>6, <2>3, <3>2
  <2> QED BY <2>2, <2>3
<1>8. CASE digit # Special
  <2>1. /\ leds' = IF digit < Special THEN "up" ELSE "down"
        /\ UNCHANGED gameFinished
    BY <1>1, <1>8 DEF RB4Interrupt
  <2>2. CASE gameFinished
    BY <1>5, <2>1, <2>2
  <2>3. CASE ~gameFinished
    <3>1. digit < Special \/ digit > Special
      BY <1>8, ConstantsAssumption
    <3>2. Halfs(timer1Value') = Halfs(timer1Value)
      BY <1>2 DEF Halfs
    <3>3. Service!Guess
      BY <1>1, <2>1, <2>3, <3>1, <3>2, ConstantsAssumption DEF Service!Guess, Halfs
    <3> QED BY <1>6, <2>3, <3>3
  <2> QED BY <2>2, <2>3
<1> QED BY <1>7, <1>8

LEMMA ServiceStep ==
  ASSUME IInv, [Next]_vars
  PROVE  [Service!Next]_(Service!vars)
<1> USE DEF flags, game, debounce, display, adc, button
<1>1. pc \in {"adc", "timer0", "timer1", "rb4"} /\ RB4Pressed \in BOOLEAN
  BY Turn DEF IInv, ValuesOK, BitsOK, ProgramBits, ButtonBits
<1>2. CASE CountDown \/ TimeUp \/ Blink \/ Restart
  BY <1>2, TickService
<1>3. CASE RB4Interrupt
  BY <1>3, PressService DEF Service!Next
<1>4. CASE ADCInterrupt
  BY <1>4, ReadingService DEF Service!Next
<1>5. CASE Pass
  <2>1. Same /\ UNCHANGED adc_value /\ UNCHANGED RB4Pressed
    BY <1>5 DEF Pass, Same
  <2>2. RB4Pressed => pc # "rb4" /\ (pc' = "rb4" \/ pc' # "rb4")
    BY <1>5 DEF Pass, Flag
  <2> QED BY <2>1, <2>2, SameGame, QuietService DEF Waiting
<1>6. CASE isr
  <2>1. Same /\ UNCHANGED adc_value /\ UNCHANGED pc /\ (RB4Pressed => RB4Pressed')
    BY <1>6 DEF isr, Same
  <2> QED BY <2>1, SameGame, QuietService DEF Waiting
<1>7. CASE timer0Interrupt
  <2>1. Same /\ UNCHANGED adc_value /\ UNCHANGED RB4Pressed /\ pc # "rb4" /\ pc' # "rb4"
    BY <1>7 DEF timer0Interrupt, Tests, Order, Same
  <2> QED BY <2>1, SameGame, QuietService DEF Waiting
<1>8. ASSUME UNCHANGED <<pc, RB4Pressed, adc_value>>, Same
      PROVE  [Service!Next]_(Service!vars)
  BY <1>8, SameGame, QuietService DEF Waiting
<1>9. CASE Converted \/ UNCHANGED vars
  BY <1>8, <1>9 DEF Converted, vars, Same
<1>10. CASE Player
  BY <1>8, <1>10 DEF Player, Move, Bounce, Settle, Toggle, Same
<1>11. ASSUME NEW timer \in Timers, Overflow(timer) PROVE [Service!Next]_(Service!vars)
  BY <1>8, <1>11 DEF Overflow, Same
<1> QED BY <1>2, <1>3, <1>4, <1>5, <1>6, <1>7, <1>9, <1>10, <1>11 DEF Next, MainLoop

\* Games last their half seconds unless the number is guessed, each press is
\* answered once, before half a second has passed and by the reading of that
\* moment: in a game with its end or the right arrow, while the number is shown
\* not at all (lines 230-382).
THEOREM Refinement == Spec => ImplementsService
<1>1. IInv /\ [Next]_vars => [Service!Next]_(Service!vars)
  BY ServiceStep
<1> QED BY Inductive, ServiceInit, <1>1, PTL DEF Spec, ImplementsService, Service!Spec
=============================================================================
