------------------------------ MODULE GuessGame ------------------------------
(***************************************************************************)
(* The firmware of CENG336/HW3 (main.c): a main loop that polls four flags *)
(* and calls a handler for each, and the interrupt routine that sets them. *)
(*                                                                         *)
(* The interrupt routine runs between any two tests of the main loop.      *)
(* Running it inside a handler gives nothing new: the handlers clear their *)
(* own flag first and read no variable that it writes.  One routine serves *)
(* all sources: it looks at every interrupt flag, enabled or not.          *)
(*                                                                         *)
(* Timers overflow whenever they like, but timer 0 and timer 1, which      *)
(* overflow every 50 ms, not before the main loop has handled their last   *)
(* overflow, and timer 3, whose periods are of 10 and of 52 ms, once in a  *)
(* bounce: those of debug_tests/RB4_*.scl are over after 7 ms.             *)
(***************************************************************************)
EXTENDS Integers, FiniteSets

CONSTANTS
  GameTicks,         \* timer 1 overflows in a game: 100
  HalfTicks,         \* and in half a second: 10
  Special,           \* what special_number() returns
  Pin,               \* "clean", "bounces" when the button moves, or "glitches":
                     \* bounces while the button is held too
  Voltages           \* bound: the readings of the potentiometer

\* The counters of timer 1 are unsigned ints, which have 16 bits (line 27).
ASSUME ConstantsAssumption ==
  /\ HalfTicks \in Nat \ {0} /\ 4 * HalfTicks < 65536
  /\ GameTicks \in Nat \ {0} /\ GameTicks < 65536 /\ GameTicks % HalfTicks = 0
  /\ Special \in 0 .. 9 /\ Pin \in {"clean", "bounces", "glitches"}
  /\ Voltages \subseteq 0 .. 1023 /\ Voltages # {}

VARIABLES
  \* the program
  pc,                                        \* the flag main tests next
  RB4Pressed, timer1Interrupted, timer0Interrupted, ADCInterrupted,
  timer1Value, timer1Display, gameFinished,
  debouncing_start, debounced,
  adc_value,
  leds,              \* PORTC, PORTD, PORTE: "off", or an arrow "up" or "down"
  seg,               \* PORTJ: a digit or Blank
  \* the microcontroller
  raised,            \* interrupt flags that are set
  RBIE, ADIE,        \* the interrupt enable bits that change
  running,           \* timers that are on
  ADON, GODONE,
  rb4,               \* level of the button's pin, TRUE while pressed
  \* the player
  held,              \* the button is held down
  bouncing,          \* the pin does not follow the button yet
  sampled,           \* timer 3 has been served in this bounce
  \* history
  counted            \* the last press of the button has been taken

flags    == <<RB4Pressed, timer1Interrupted, timer0Interrupted, ADCInterrupted>>
game     == <<timer1Value, timer1Display, gameFinished>>
debounce == <<debouncing_start, debounced>>
display  == <<leds, seg>>
adc      == <<ADON, GODONE>>
button   == <<rb4, held, bouncing, sampled>>
vars     == <<pc, flags, game, debounce, adc_value, display, raised, RBIE, ADIE,
              running, adc, button, counted>>

Blank == 10

\* unsigned int is 16 bits wide.
Less(n) == (n - 1) % 65536

ADCMapper(value) == Cardinality({k \in 1 .. 9 : value > 102 * k})

-----------------------------------------------------------------------------
(* Initialisation.                                                         *)

initADC == ADON' = TRUE /\ GODONE' = FALSE /\ ADIE' = TRUE

\* INTCON = 0 clears the flags of the port and of timer 0.
initLedsAnd7Seg ==
  /\ leds' = "off" /\ seg' = Blank
  /\ raised' = raised \ {"RB", "TMR0"}
  /\ RBIE' = TRUE

Mutant_initTimers == timer1Value' = GameTicks /\ running' = {"TMR0"}

initTimers == timer1Value' = GameTicks /\ running' = {"TMR0", "TMR1"}

Init ==
  /\ pc = "adc"
  /\ RB4Pressed = FALSE /\ timer1Interrupted = FALSE
  /\ timer0Interrupted = FALSE /\ ADCInterrupted = FALSE
  /\ timer1Value = GameTicks /\ timer1Display = 4 * HalfTicks /\ gameFinished = FALSE
  /\ debouncing_start = FALSE /\ debounced = TRUE
  /\ adc_value = 0
  /\ leds = "off" /\ seg = Blank
  /\ raised = {} /\ RBIE = TRUE /\ ADIE = TRUE
  /\ running = {"TMR0", "TMR1"}
  /\ ADON = TRUE /\ GODONE = FALSE
  /\ rb4 = FALSE /\ held = FALSE /\ bouncing = FALSE /\ sampled = FALSE
  /\ counted = FALSE

-----------------------------------------------------------------------------
(* The microcontroller and the player.                                     *)

\* The last overflow of the timer has been handled, or lies before this bounce.
Handled(timer) ==
  /\ timer = "TMR0" => ~timer0Interrupted
  /\ timer = "TMR1" => ~timer1Interrupted
  /\ timer = "TMR3" => ~(bouncing /\ sampled)

Overflow(timer) ==
  /\ timer \in running \ raised /\ Handled(timer)
  /\ raised' = raised \cup {timer}
  /\ UNCHANGED <<pc, flags, game, debounce, adc_value, display, RBIE, ADIE, running, adc,
                 button, counted>>

Converted ==
  /\ GODONE
  /\ GODONE' = FALSE /\ raised' = raised \cup {"AD"}
  /\ UNCHANGED <<pc, flags, game, debounce, adc_value, display, RBIE, ADIE, running, ADON,
                 button, counted>>

\* A change of the pin.
Toggle ==
  /\ rb4' = ~rb4
  /\ raised' = raised \cup {"RB"}
  /\ UNCHANGED <<pc, flags, game, debounce, adc_value, display, RBIE, ADIE, running, adc>>

\* The button is pressed or let go, or makes no contact for a moment while it is
\* held; the pin may begin to bounce.
Move ==
  /\ ~bouncing /\ Toggle
  /\ held' \in (IF Pin = "glitches" /\ held THEN {TRUE, FALSE} ELSE {~held})
  /\ bouncing' = (Pin # "clean") /\ sampled' = FALSE
  /\ counted' = (counted /\ held)

Bounce == bouncing /\ Toggle /\ UNCHANGED <<held, bouncing, sampled, counted>>

Settle ==
  /\ bouncing /\ rb4 = held
  /\ bouncing' = FALSE /\ sampled' = FALSE
  /\ UNCHANGED <<pc, flags, game, debounce, adc_value, display, raised, RBIE, ADIE, running,
                 adc, rb4, held, counted>>

Player == Move \/ Bounce \/ Settle

-----------------------------------------------------------------------------
(* The interrupt routine.                                                  *)

Interrupts ==
  \/ raised \cap {"TMR0", "TMR1", "TMR3"} # {}
  \/ "RB" \in raised /\ RBIE
  \/ "AD" \in raised /\ ADIE

Mutant_TakesPress == "TMR3" \in raised /\ rb4

\* Timer 3 has expired and finds the button pressed, or up for a second time.
TakesPress == "TMR3" \in raised /\ rb4 /\ debounced
IsUp       == "TMR3" \in raised /\ ~rb4

isr ==
  /\ Interrupts
  /\ raised' = {}
  /\ running' = IF "RB" \in raised /\ rb4 /\ debounced THEN running \cup {"TMR3"} ELSE running
  /\ timer0Interrupted' = (timer0Interrupted \/ ("TMR0" \in raised /\ ~gameFinished))
  /\ timer1Interrupted' = (timer1Interrupted \/ "TMR1" \in raised)
  /\ RB4Pressed' = (RB4Pressed \/ TakesPress)
  /\ debounced' = IF TakesPress THEN FALSE ELSE debounced \/ (IsUp /\ debouncing_start)
  /\ debouncing_start' = (debouncing_start \/ IsUp)
  /\ counted' = (counted \/ TakesPress)
  /\ sampled' = (sampled \/ (bouncing /\ "TMR3" \in raised))
  /\ ADCInterrupted' = (ADCInterrupted \/ "AD" \in raised)
  /\ ADIE' = (ADIE /\ "AD" \notin raised)
  /\ UNCHANGED <<pc, game, adc_value, display, RBIE, adc, rb4, held, bouncing>>

-----------------------------------------------------------------------------
(* The main loop.                                                          *)

Order == [adc |-> "timer0", timer0 |-> "timer1", timer1 |-> "rb4", rb4 |-> "adc"]
Flag  == [adc |-> ADCInterrupted, timer0 |-> timer0Interrupted,
          timer1 |-> timer1Interrupted, rb4 |-> RB4Pressed]

Tests(flag) == pc = flag /\ pc' = Order[flag]

\* The flag is not set.
Pass ==
  /\ Tests(pc) /\ ~Flag[pc]
  /\ UNCHANGED <<flags, game, debounce, adc_value, display, raised, RBIE, ADIE, running, adc,
                 button, counted>>

Mutant_Reading(value) == ADCMapper(adc_value)

\* What displayNumber is given at line 381.
Reading(value) == ADCMapper(value)

ADCInterrupt ==
  /\ Tests("adc") /\ ADCInterrupted
  /\ ADCInterrupted' = FALSE
  /\ \E value \in Voltages : adc_value' = value /\ seg' = Reading(value)
  /\ ADIE' = FALSE
  /\ UNCHANGED <<RB4Pressed, timer1Interrupted, timer0Interrupted, game, debounce, leds,
                 raised, RBIE, running, adc, button, counted>>

\* Setting GODONE starts a conversion when the converter is on.
timer0Interrupt ==
  /\ Tests("timer0") /\ timer0Interrupted
  /\ timer0Interrupted' = FALSE
  /\ ADIE' = TRUE /\ GODONE' = (GODONE \/ ADON)
  /\ UNCHANGED <<RB4Pressed, timer1Interrupted, ADCInterrupted, game, debounce, adc_value,
                 display, raised, RBIE, running, ADON, button, counted>>

Tick ==
  /\ Tests("timer1") /\ timer1Interrupted
  /\ timer1Interrupted' = FALSE
  /\ UNCHANGED <<RB4Pressed, timer0Interrupted, ADCInterrupted, debounce, adc_value, button, counted>>

CountDown ==
  /\ Tick /\ ~gameFinished
  /\ timer1Value' = Less(timer1Value) /\ timer1Value' # 0
  /\ UNCHANGED <<timer1Display, gameFinished, display, raised, RBIE, ADIE, running, adc>>

\* Switching the converter off aborts the conversion.
EndGame ==
  /\ gameFinished' = TRUE
  /\ leds' = "off" /\ seg' = Special
  /\ RBIE' = FALSE
  /\ ADON' = FALSE /\ GODONE' = FALSE

TimeUp ==
  /\ Tick /\ ~gameFinished
  /\ timer1Value' = Less(timer1Value) /\ timer1Value' = 0
  /\ EndGame
  /\ UNCHANGED <<timer1Display, raised, ADIE, running>>

Blink ==
  /\ Tick /\ gameFinished
  /\ timer1Display' = Less(timer1Display) /\ timer1Display' # 0
  /\ seg' = CASE timer1Display' \in {3 * HalfTicks, HalfTicks} -> Blank
              [] timer1Display' = 2 * HalfTicks -> Special
              [] OTHER -> seg
  /\ UNCHANGED <<timer1Value, gameFinished, leds, raised, RBIE, ADIE, running, adc>>

Mutant_RestartShort ==
  /\ Tick /\ gameFinished
  /\ Less(timer1Display) = 0
  /\ gameFinished' = FALSE /\ timer1Display' = 0
  /\ initADC /\ initLedsAnd7Seg /\ initTimers

Restart ==
  /\ Tick /\ gameFinished
  /\ Less(timer1Display) = 0
  /\ gameFinished' = FALSE /\ timer1Display' = 4 * HalfTicks
  /\ initADC /\ initLedsAnd7Seg /\ initTimers

Mutant_EndsGuess == IF gameFinished THEN timer1Display' = 4 * HalfTicks ELSE UNCHANGED timer1Display

\* The blinking that has begun goes on.
EndsGuess == UNCHANGED timer1Display

RB4Interrupt ==
  /\ Tests("rb4") /\ RB4Pressed
  /\ RB4Pressed' = FALSE
  /\ LET guessedValue == ADCMapper(adc_value)
     IN  \/ /\ guessedValue = Special
            /\ EndGame /\ EndsGuess
            /\ running' = (running \ {"TMR0"}) \cup {"TMR1"}
         \/ /\ guessedValue # Special
            /\ leds' = IF guessedValue < Special THEN "up" ELSE "down"
            /\ UNCHANGED <<timer1Display, gameFinished, seg, RBIE, running, adc>>
  /\ UNCHANGED <<timer1Interrupted, timer0Interrupted, ADCInterrupted, timer1Value, debounce,
                 adc_value, raised, ADIE, button, counted>>

MainLoop ==
  Pass \/ ADCInterrupt \/ timer0Interrupt \/ CountDown \/ TimeUp \/ Blink \/ Restart \/ RB4Interrupt

Timers == {"TMR0", "TMR1", "TMR3"}

Next == MainLoop \/ isr \/ Converted \/ Player \/ \E timer \in Timers : Overflow(timer)

Spec == Init /\ [][Next]_vars

\* The processor and its timers run; the player does what he likes.
Fairness ==
  /\ WF_vars(MainLoop) /\ WF_vars(isr) /\ WF_vars(Converted)
  /\ \A timer \in Timers : WF_vars(Overflow(timer))

FairSpec == Spec /\ Fairness

-----------------------------------------------------------------------------
TypeOK ==
  /\ pc \in DOMAIN Order
  /\ {RB4Pressed, timer1Interrupted, timer0Interrupted, ADCInterrupted} \subseteq BOOLEAN
  /\ timer1Value \in 0 .. GameTicks
  /\ timer1Display \in 1 .. 4 * HalfTicks
  /\ {gameFinished, debouncing_start, debounced} \subseteq BOOLEAN
  /\ adc_value \in 0 .. 1023
  /\ leds \in {"off", "up", "down"}
  /\ seg \in 0 .. Blank
  /\ raised \subseteq Timers \cup {"RB", "AD"}
  /\ running \subseteq Timers
  /\ {RBIE, ADIE, ADON, GODONE, rb4, held, bouncing, sampled, counted} \subseteq BOOLEAN

\* While the player guesses, the display shows what adc_value stands for, or
\* nothing yet, whatever was shown when the last game ended (lines 374-382).
ShowsReading == ~gameFinished => seg \in {Blank, ADCMapper(adc_value)}

\* A press is taken at most once, however the pin bounces when the button goes
\* down and when it comes up, and in whatever phase of timer 3 (lines 256-277;
\* debug_tests/README.txt line 15: "once per stimulus").
PressOnce == [][~RB4Pressed /\ RB4Pressed' => ~counted]_vars

\* A button that stays up gets ready for the next press (line 24: "After 10ms if
\* RB4 is still reset debounced will be set").
GetsReady == []<>(rb4 \/ debounced)

\* No press is taken once the game is over (lines 301 and 336: "Disable RB4
\* interrupt, because the game is over").
NoPressWhenOver == [][gameFinished /\ ~RB4Pressed => ~RB4Pressed']_vars

\* Every game ends and another follows (lines 324-372).
GameCycle == []<>gameFinished /\ []<>~gameFinished

-----------------------------------------------------------------------------
Halfs(ticks) == (ticks + HalfTicks - 1) \div HalfTicks

Service == INSTANCE GuessService WITH
  Halves <- GameTicks \div HalfTicks,
  phase  <- IF gameFinished THEN "showing" ELSE "guessing",
  left   <- IF gameFinished THEN Halfs(timer1Display) ELSE Halfs(timer1Value),
  hint   <- IF gameFinished THEN "off" ELSE leds,
  reading <- ADCMapper(adc_value),
  press  <- IF ~RB4Pressed THEN "none" ELSE IF pc = "rb4" THEN "due" ELSE "waiting"

\* Games last their half seconds unless the number is guessed; each press is
\* answered once and soon, by the reading of that moment; only a press that still
\* waits when a game begins counts in it though it was made before.
ImplementsService == Service!Spec
=============================================================================
