# Verification of METU-CENG

`src/` is a collection of small, unrelated programs: a multithreaded elevator
simulator, an auction server that talks to bidder processes, an ext2 shell,
three pieces of microcontroller firmware and a path search. Each is a component
of its own; nothing is shared between them. This directory holds a TLA+ model
of each program but one, the TLC runs that check it, and the theorems TLAPS
proves about each. `PROJECT.json` lists the runs, the mutants
that show each property can fail, the source lines behind each definition, the
hazards and the findings. The configurations under "Known defects" below are
not among its runs.

    tlc -workers 4 -config ElevatorPrompt.cfg MCElevator     # one run
    tlapm ElevatorProofs.tla                                 # the proofs

## Inventory

| component | source | state | operations | what is hard |
|---|---|---|---|---|
| elevator monitor | `CENG334/HW2/Elevator.cpp`, `monitor.h` | direction, floor, weight, riders, queue of stops, hp counts per floor, five condition variables, one mutex | `makeRequest`, `inProcess`, `outProcess`, `elevatorProcess` | threads racing for a mutex after each broadcast; timed waits that stand for physical time; data read before a wait and used after it; an increment outside the monitor; initialisation by one of the threads |
| auction server | `CENG334/HW1/server.cpp`, `message.h` | sockets, current bid, winner, active bidders, poll timeout, exit statuses | connect, bid, finished, announcement, reaping | messages of several processes in any order; processes that die; end-of-file only when every holder of a socket is gone |
| guessing-game firmware | `CENG336/HW3/main.c` | flags set by the interrupt routine, countdown, debouncing, ADC value, display | interrupt routine, four handlers of the main loop | an interrupt between any two handlers; flags left over at the end of the game; ticks merged |
| ball-game firmware | `CENG336/HW2/the2.asm` | ball matrix, health, level, ball counter, timer seeds | `RG0`/`RG2`/`RG3` buttons, timer interrupt, level changes | 31-level hardware return stack, jumps out of subroutines |
| port calculator firmware (not modelled) | `CENG336/HW1/hw1.asm` | two values, the selected operation and port | button press and release loops | the same return stack; press and release in any order |
| ext2 shell | `CENG334/HW3/` | the image (inodes, block maps, directory entries), the loops of the scans, the open file, `root_inode` | `ls`, `stat`, `readlink`, `cat`, path walk, block lookup | three levels of indirect blocks, holes, buffers used before they are filled, memory freed twice |
| room search | `CENG315/the3.cpp` | distance, parent and period of each room, ammunition, the route so far | three legs of a search with rooms forbidden in odd or even periods | the period of another room used for a lock, arrays kept from leg to leg, ammunition found once |

What makes each component correct:

* elevator: capacities, stops never missed, riders let out where they asked,
  leavers before enterers, hp before lp, everybody served, the controller ends.
* auction: the winner is the highest accepted bid, everybody is told the same
  winner, each accepted bid raises the price by the minimum increment, the
  server ends when all bidders have finished.
* guessing game: a press is taken once and answered soon, by the reading of that
  moment; a game ends with the right guess or after its half seconds, and
  another follows.
* ball game: each ball comes in the right column, is caught or costs one health
  point; counters stay in range; the depth of the return stack shows in nothing
  but the restart it forces.
* ext2: every byte of a file is read once and in order and printed; a path leads
  to the file the directories say; `ls` names each entry once; every command
  ends.
* room search: the route printed can be walked, costs no more than promised,
  and is a shortest one where no locks interfere.

## Plan

1. `LiftService`, `Elevator`, `MCElevator`, `ElevatorProofs` (done).
2. `AuctionService`, `Auction`, `MCAuction`, `AuctionProofs` (done): the server
   with its bidder processes; refinement of an abstract ascending auction,
   checked and proved.
3. `GuessService`, `GuessGame`, `MCGuessGame`, `GuessGameProofs` (done):
   firmware with the interrupt routine between any two tests of the main loop,
   and the abstract game it implements.
4. `BallService`, `BallGame`, `MCBallGame`, `BallGameProofs` (done): firmware
   with the hardware return stack as state and the abstract game it implements.
5. `Ext2Blocks`, `FileService`, `Ext2Cat`, `Ext2Shell` and `Ext2BlocksProofs`,
   `Ext2CatProofs`, `Ext2ShellProofs` (done): reading a file against an abstract
   file service; path walk and listing against what the directories say.
6. `RoomSearch`, `MCRoomSearch`, `RoomSearchProofs` (done): the search against
   a reference of least costs.

Every invariant, action property and refinement of a passing run is also a
theorem. What is left to TLC alone is liveness.

## Proofs in general

| module | theorems |
|---|---|
| `ElevatorProofs` | `Typing`, `LoadCorrect`, `QueueAscending`, `WeightCorrect`; for the prompt schedule `NeverSpinning`, `RidersCarried`, `SignalsComing`, `LiftImplements` |
| `AuctionProofs` | `Typing`, `Answers`, `CountCorrect`, `LeaderCorrect`, `Refinement`, `Timeouts`, `Reaped` |
| `GuessGameProofs` | `Typing`, `Shows`, `Presses`, `Refinement` |
| `BallGameProofs` | `Typing`, `Refinement` |
| `RoomSearchProofs` | `Typing`, `Tree`, `Route`, `Promise`, `Greedy` |
| `Ext2CatProofs` | `Typing`, `Refinement` |
| `Ext2ShellProofs` | `Typing`, `Walking`, `Listing`, `Defined` |

Each theorem holds for every value of the constants that the module's named
assumptions admit; TLC evaluates the assumptions on every run. Eight theorems
state a hypothesis of their own: the four of the prompt schedule
(`PromptSchedule`, `CountsRight`), `LeaderCorrect` (a positive minimum
increment), `Timeouts` (nobody dies, positive delays), `Presses` (a pin that
does not glitch) and `Greedy` (`CostsFit`); the constants of `elevator_prompt`,
`auction_bidders`, `guess_game` and `room_search` satisfy them. The section of a
component says which inductive invariant its proofs rest on and why. Each also
holds on the instances of the runs, where TLC checked it (`WorkInv` and
`ListInv` of the shell in a form that TLC can enumerate).

What a recursive function or a sum over a set computes would need induction with
a property as a parameter, which the provers do not do. The lemmas that need it
(`LeastNat` and those that cite it in `ElevatorProofs`, `RoomSearchProofs` and
`Ext2ShellProofs`) look at the least counterexample instead: the library states
that `<` is well-founded on the naturals, and the set of the numbers for which a
fact fails is an ordinary set.

Out of reach and left to TLC: liveness under fairness (`AllServed`,
`Answered`, `AuctionEnds`, `GameCycle`, `GamesEnd`, `CatEnds`, `CommandEnds`).

## Elevator

`LiftService` is the abstract specification: a lift that moves one floor at a
time, passengers who board on the floor of their call when there is room and
nobody inside has to leave, leave on their destination floor, and a service
that closes when everybody is served. It has no threads, queue or counters.

`Elevator` is the program. A monitor method holds the mutex from its entry, or
from the return of a wait, to its next wait or to its end, so each such stretch
is one action:

| action | code |
|---|---|
| `Create`, `prioVectorInit` | `main` creates the threads; person 0 grows `prioVector` slot by slot (line 330) |
| `WaitIdle`, `Request` | `makeRequest` up to its wait, or to its end |
| `BumpRead`, `BumpWrite` | line 263, executed outside the monitor, as a read and a write |
| `WaitStop`, `RetryIdle`, `WaitLeavers`, `HpDenied`, `HpBoards`, `WaitTurn`, `LpDenied`, `LpBoards` | `inProcess`: which wait it reaches or how it ends, from wherever it was |
| `UnbuiltVector` | `prioVector` is used before it is built: C++ leaves that undefined |
| `WaitDestination`, `Leave` | `outProcess` |
| `ControllerStart`, `IdleEnds`, `Pass`, `Stop`, `InOutEnds` | `elevatorProcess` between its timed waits |
| `PopEmpty` | `pop_front`/`pop_back` of an empty deque: undefined |
| `Joined` | `main` has joined every thread |

A condition variable is the set of threads whose `pc` names the wait;
`notifyAll` moves them to `woken`, and each then competes for the mutex like
any other thread. A timed wait of the controller ends by time only (nobody
notifies `sleep`). Real time is a parameter: `Outlasts` is the set of timed
waits that last longer than any runnable person thread needs to reach its next
wait. With all three in it the schedule is the one the program is written for;
with none the scheduler is adversarial. `PromptMain`, `OrderedStart` and
`Spurious` do the same for the creation of threads and for spurious wakeups.

### Runs

| run | question | instance |
|---|---|---|
| `elevator_any_schedule` | What holds whatever the scheduler does: types, `LoadInv` (counters agree with who is inside and no capacity is exceeded), `QueueSorted` | 2 persons who do not fit together, 3 floors, any priorities, spurious wakeups, unordered start |
| `elevator_prompt` | What the program achieves on its intended schedule: `WeightInv`, `NoLostWakeup`, `RidersAhead`, `NeverSpins`, `HpFirst`, `AllServed`, and `ImplementsService`: it implements `LiftService` | 3 persons, 3 floors, capacity 2, the inputs of `CountsRight` |
| `elevator_double_count` | finding: `AllServed` fails. An hp person sent back by an idle lift is counted twice and an lp person waits for ever | 2 persons |

Two hp callers of one floor may read the same slot and be counted as one (line
263), and an lp person then boards before the second of them:
`ElevatorLostIncrement.cfg`, in which three persons call on floor 0. Four more
defects are described here only. When the stop at a floor outlasts the
threads but the other waits do not (`Outlasts = {"in_out"}`), `next_floor` is
stale: the lift passes the stop it has lost and ends looping at the end of the
shaft with the mutex held (line 284); a person released from `enter_ele` boards
wherever the lift has got to, or before a rider who has meanwhile arrived (line
188 waits once and tests nothing after it). In any schedule a rider who leaves
after the idle loop at 278 has been entered leaves the controller waiting for
ever. The fourth needs four persons, and no slow thread: `lp_turn` is one
condition for all floors, and nobody who returns from its wait (line 216) looks
at the floor again. An hp person who boards as the last of a floor releases the
lp persons of every floor (lines 201, 211). If a lift of three persons and
weight 4 leaves a lp person behind on floor 0, because the hp person it waits
for there was too heavy to board, the hp person who boards on floor 1 wakes it,
and it boards on floor 1 although it stands on floor 0.

`elevator_prompt` therefore excludes the inputs with the lost increment, the
double count or a turn given on another floor: `CountsRight` allows callers of
both priorities on the ground floor only, and then only with one hp person, who
calls there. So `HpFirst` passes in this run where one hp person is counted
before the lp persons of the ground floor come to the door; that this is about
all one can say of the priorities is what `ElevatorLostIncrement.cfg` and
`elevator_double_count` show.

Bounds. Three floors give a floor to pass between the ends of the shaft; three
persons give two at one door and one inside; capacity 2 gives denials.
Two persons are enough in the adversarial run, whose state space is the
largest. `MaxPrio` bounds a slot of `prioVector`: an increment at the bound
blocks. With 20 it is never reached (one increment per person and trip);
`elevator_any_schedule` uses 3 because repeated double counting is unbounded
there.

Deadlock is checked in `elevator_prompt`. It is not
checked where a thread may wait for ever (the double count, a lift that has
gone) or where the run stops at undefined behaviour.

Fairness. `AllServed` assumes weak fairness of each person thread and of the
controller: the operating system schedules runnable threads, and the controller
gives the mutex back for real time in every timed wait, so that a thread that
wants it gets it.

### Proofs

`ElevatorProofs` proves `Typing`, `LoadCorrect` and `QueueAscending` for all
values of the constants that `ConstantsAssumption` allows: any number of
persons and floors, any input, any schedule. The inductive invariant `IInv`
adds two facts to `TypeOK`, `LoadInv` and `QueueSorted`: `ControlInv` says that
nobody can have boarded before the controller has set the capacities (they are
zero until then, so that everybody is denied), and that the lift travels only
while there is a floor ahead, which bounds `current_floor`.
`InsertFloorAscending` proves that `insertFloor` keeps a sorted queue sorted,
through `PlaceFound`, which characterises the place it inserts at.

`WeightCorrect` says that `current_weight` is the sum of the weights of those
inside. The sum is a fold over a set, in an order that `CHOOSE` picks; its
lemmas say that it does not depend on the order, by the least cardinality of a
set for which it would, so that one person more or less inside adds or takes
exactly that person's weight.

The other theorems are about the schedule the program is written for. They
assume `PromptSchedule`, that every timed wait outlasts the runnable person
threads, that the threads are created and initialised in order and that only a
notification ends a wait, and `CountsRight` of every input; the number of
persons and floors, the capacities and the trips are arbitrary. On other
schedules and inputs they are false, as told under Runs.

* `NeverSpinning` (`NeverSpins`): the controller never loops with the mutex.
* `RidersCarried` (`RidersAhead`): no rider is carried away.
* `SignalsComing` (`NoLostWakeup`): whoever waits will be signalled.
* `LiftImplements` (`ImplementsService`): every step of the monitor is one of
  `LiftService` or leaves the passengers where they are.

They share the inductive invariant `PInv`: `IInv`, `WeightInv` and `PromptInv`,
whose parts are, in the order in which they need each other:

* `BuildInv`: nothing undefined has happened, and the threads start and end in
  order.
* `TravelInv`: while the lift travels no person thread can do anything
  (`Quiet`), so that `next_floor` is still the end of the queue it was read
  from and the lift stops at the first queued floor on its way.
* `AheadInv`: the queued floors lie ahead, and an idle lift has none.
* `Rides`, `Calls`: a rider's destination, and the floor of a caller who has
  been accepted, is queued until the lift stops there and the stop releases
  that person; whoever waits at the door has riders who are still to leave,
  and whoever's wait has ended stands where the lift stands.
* `EmptyInv`: the queue of a lift with a direction is empty only while somebody
  at its door is about to board, which queues a destination (`Willing`). This
  is what brings the lift back to the idle state; for the proof one has to
  follow who gives way to whom at the door, and why the last of them boards.
* `Tries`: a person who was refused waits for the idle state, and only while
  the lift moves.
* `Counts`, `SeenInv`, `ComesFirst`, `TurnInv`: the slot of a floor with
  callers of both priorities is 1 from the increment to the boarding of its hp
  person, who comes to the door before the lift leaves the ground floor for the
  first time, and an lp person is released only when that person has boarded or
  was refused.

For the refinement, `Travels` gives that the lift stays in the shaft,
`BoardAhead` that a person who boards stands on this floor with nobody left to
leave, `WeightInv` and `LoadInv` the two capacities, and `BuildInv` that the
controller ends only when everybody has been served.

Only model-checked: `AllServed`, which is liveness, and `HpFirst`, whose inputs
are too few for a theorem of its own.

Not modelled: printing, the parsing of the input file, the arithmetic of
`intervalwait` on seconds and nanoseconds (a wait of any length is allowed),
and inputs whose initial and destination floors coincide or whose weight
exceeds the capacity, which the homework excludes.

## Auction

`AuctionService` is the abstract specification: a price that only bidders who
take part raise, by the minimum increment at least; bidders who drop out; and
the leader and the price, told to anybody once nobody takes part.

`Auction` is the server and its bidders. The bidder programs exist as
executables only; they are modelled from the messages the server exchanges
with them, as processes with one request outstanding.

| action | code |
|---|---|
| `Connect`, `PlaceBid`, `Withdraw`, `Hear`, `Die` | a bidder (external) sends a message of `message.h`, reads an answer, or ends |
| `Poll`, `LoopEnds` | lines 47-58: the loop's conditions and `poll` |
| `ServeConnect`, `ServeBid`, `ServeFinished`, `ServeEndOfFile` | lines 57-149 for one socket, from its `read` to its `write` |
| `Announce` | one round of the loop at 159 |
| `Reap` | one round of the loop at 164 |

What `poll` saw is `ready`, kept for the whole round, while the bidders go on.
Serving a socket is one action since the server shares no state with the
bidders but the sockets. A bidder process holds the bidders' ends of all
sockets (line 215 closes only one end of one pair), so the end of file of a
socket appears, and a write to it raises SIGPIPE, only when all bidder
processes have ended (`Gone`). When a bidder leaves an answer unread, the next
`read` fails once; the code treats the failure as a message, and `message`
still holds the previous one (`ReadMessage`).

Uninitialised variables are nondeterministic: `winner_bidder_id` at the start,
`result` in the one case where no branch assigns it (`Results`), a slot of
`statuses` never written (`Unset`, any outcome of the comparison in `Reap`).

| run | question | instance |
|---|---|---|
| `auction_bidders` | `OneAnswer`, `LeaderInv`, `TimeoutInv` for all orders of requests; `Answered`, `AuctionEnds` under fairness | 3 bidders, nobody dies |
| `auction_deaths` | `TypeOK`, `CountInv`, `NoZombies`, `ImplementsService` when bidders die at any point | 2 bidders, killed or ended with exit code 0 |

`AuctionEnds` is checked where nobody dies. A bidder that dies is noticed only
by the end of file, which comes when all bidder processes have ended, and even
then is not taken off `n_of_active_bidder` (line 60), so the others wait for an
outcome that never comes: `AuctionStuck.cfg`. Four more defects are in the model
without a configuration: `wait` returns the children in
the order they end and an encoded status, which lines 165-166 compare with the
plain status of the bidder of the loop's index; an auction without an
accepted bid announces an uninitialised winner (line 38); with a minimum
increment of 0 an equal bid is answered with an unassigned result, which may
say accepted (lines 111-125); and once those told first have exited and the
others are dead, the next write kills the server (line 161, `spc = "killed"`).

Bounds. `Bids` holds a bid below the starting bid, one below the increment and
accepted ones; prices are bounded by it. A bidder may bid for ever, so nothing
else bounds the bidding. Three bidders are needed for a round in which one is
served between two others; the deaths multiply the states, and two bidders
give one that is dead and one that lives. Deadlock is not checked where
bidders die: the server may then wait for ever (`AuctionStuck.cfg`).

Fairness. `FairSpec` has weak fairness of the server and of each bidder's
`Connect` and `Hear`: the system schedules processes. Bidders need not stop
bidding; `AuctionEnds` assumes they do.

Proofs. `AuctionProofs` proves `Typing`, `Answers`, `CountCorrect`,
`LeaderCorrect` (for a positive minimum increment; with 0 it is false) and
`Refinement`, that the server implements `AuctionService`, for any number of
bidders, any bids, delays and deaths. The inductive invariant `IInv` is
`TypeOK`, `StatusInv` and `AnnouncedInv`, which relate `statuses` and
`n_of_active_bidder` to who has announced its end, and `TurnInv`, which says
what may be on a socket at each point of the bidder and of the server: a
request is alone on its socket and its bidder not yet counted as finished
(`RequestInv`); nobody has been sent the outcome while the loop runs
(`LoopInv`); the announcement passes each bidder once (`AnnounceInv`) and is
reached only when all have finished or no socket is left (`OverInv`). Together
they give what refinement needs: that the outcome is sent when no bidder takes
part any more, and that whoever is served still does.

`announced` is a history variable: the bidders whose own `CLIENT_FINISHED` the
server has read. `CountInv` compares the counter with it, and with nothing that
lines 137 and 144 write, and `ImplementsService` takes the bidders who take part
to be the connected ones outside `announced`. Both would fail if the server
took a message that some bidder has not sent for its withdrawal while anybody is
there to notice. Once the last bidder is gone that does happen: a read that
fails leaves the previous message in `message`, and a replayed
`CLIENT_FINISHED` is counted for somebody who never sent one. `CountInv` leaves
that phase out; the counter then goes wrong unseen, as there is nobody to tell
anything to.

`Timeouts` states `TimeoutInv` under two hypotheses, as it is false without
them: nobody dies (`Deaths = {}`) and no bidder asks for a delay of 0, which
lines 68-76 cannot tell from a timeout that is not set. Its invariant
`WaitInv` says that `timeout` is the least delay of the bidders whose
connection has been served, and that a bidder, once connected, stays so.
`Reaped` states `NoZombies` for any deaths: `ReapInv` counts, as many children
are reaped as the loop at 164 has had rounds, and there are as many rounds as
children. Liveness is only model-checked.

## Guessing game

`GuessService` is the abstract specification: the player turns a knob and
presses a button. Each press is answered once, at the latest when the next half
second begins, by what the knob shows at that moment: with the arrow towards
the number or, when it is the number, with the end of the game. The game also
ends when its half seconds have passed. Then the number is shown for four half
seconds, in which a press changes nothing, and the next game begins.

`GuessGame` is the firmware. The main loop tests four flags in turn; each test,
with the handler it calls, is one action (`Pass` when the flag is not set,
`ADCInterrupt`, `timer0Interrupt`, `CountDown`, `TimeUp`, `Blink`, `Restart`,
`RB4Interrupt`). `isr` is the interrupt routine. It may run between any two
tests; running it inside a handler gives nothing new, since a handler clears
its own flag first and reads nothing the routine writes. The microcontroller is
modelled from the registers the code uses: `raised` holds the interrupt flags,
which the routine looks at whether enabled or not, `running` the timers that
are on, `GODONE` a conversion under way.

The button is `held` or not, and its pin `rb4` follows it. `Pin` says how:
at once (`"clean"`), after any number of bounces when the button goes down or
comes up (`"bounces"`), or so that the contact of a held button also fails
for moments (`"glitches"`). `counted` is a history variable: the last press of
the button has been taken.

Time. The timers overflow whenever they like, with two exceptions (`Handled`).
Timers 0 and 1 (50 ms) wait until the main loop has handled their last
overflow; the loop takes microseconds, so that merged ticks are not modelled.
Timer 3 is sampled at most once in a bounce: its periods are of 10 and 52 ms,
and the bounces of `debug_tests/RB4_*.scl` are over after 7 ms at most.

| run | question | instance |
|---|---|---|
| `guess_game` | `TypeOK`, `ShowsReading`, `PressOnce` (no press is taken twice), `ImplementsService` | `Pin = "bounces"`; a game of 2 ticks, a half second of 1, two readings at the boundary of two digits |
| `guess_cycle` | `GameCycle`: games end and others begin | the same with `Pin = "clean"` |

Bounds. The code's 100 and 10 ticks are `GameTicks` and `HalfTicks`. With 2 and
1 a game has a tick that does not end it and one that does, and the display
goes through its four phases. One reading is a wrong guess and one the right
one. `guess_cycle` leaves the bounces out, as the flags the routine sets are the
same.

Fairness. `FairSpec` has weak fairness of the main loop, the interrupt routine,
the converter and each timer, which is hardware that runs; none of the player.

Known defects. `debouncing_start` is never cleared (line 270), so that after the
first release one up sample is enough to arm the next take: a glitch that timer
3 happens to sample gives two guesses for one press (`GuessGameGlitch.cfg`).
Lines 23-24 mean the button to be up for 10 ms first. A restart stops timer 3
(line 122); if a taken press has not been debounced by then, `debounced` stays
0, and since only a press with `debounced` set starts the timer again, the
button is dead from then on (`GuessGameHeld.cfg`). `RBIE = 0` does not keep
presses out (lines 301, 336): a press that is pending when the game ends, or
made while the number is shown, sets `RB4Pressed`, and `RB4Interrupt` lights a
hint after the end (`GuessGameOver.cfg`). If it comes between the last test of
the flag and `Restart`, it counts as the first guess of the next game. So
`ImplementsService` does not say that presses and games belong together, only
that a press is answered by the phase in which its turn comes, and that its turn
comes soon.

One more has no property that excludes it: a conversion that is complete
when the game ends is still displayed over the special number (line 393);
`ShowsReading` says nothing of that phase.

Proofs. `GuessGameProofs` proves `Typing`, `Shows`, `Presses` (the action
property `PressOnce`, for a pin that does not glitch) and `Refinement` (for any
pin) for games of any length that fits the 16-bit counters and is a whole number
of half seconds, any readings and any number to guess. The inductive invariant
`IInv` is the types, `ShowsReading` and two facts. `CountInv`: while a game goes
on, time is left and the blinking of its number is still to come, whole; without
it a counter could pass 0 and begin again at 65535. `ButtonInv`: once a press
has been taken, the button is not ready while it is held, and if it bounces
while it comes up the one sample of that bounce has already been seen when the
button gets ready; without that a late bounce would be taken as a press.
`Refinement` goes through the handlers one by one: each is a step of
`GuessService`, moves a press on to the head of the queue, or changes nothing
that the player sees. Only `GameCycle`, a liveness property, is left to TLC.

## Room search

`RoomSearch` is `the3.cpp` with one action per room expanded: `BeginLeg` (lines
138-151), `Expand` and `Arrive` (one round of the loop at 153), `EndLeg`
(174-177), and `NoCandidate`, `NoWay` where the program reads what was never
assigned (`min_index` at 36, `parent` at 42) and the model ends. `input` is one
input file. `Printed` is what the last loop writes; its last round reads one
place beyond the path (185), which changes no room printed. `newRoomYammo`
reads up to two places beyond the path after the first leg and one after the
second; the model lets any room stand there.

| run | question | instance |
|---|---|---|
| `room_search` | `TreeInv`: each room reached hangs on its parent by a corridor, a period later, unlocked in its period; `RouteLegal`: the route printed can be walked; `PromiseKept`: it leaves at least the ammunition announced; `ShortestOnPlain`: where no room is locked and no room holds more than a corridor costs, each leg is a cheapest one and undefined behaviour is met only if the goal is cut off | 64 maps of 5 rooms, at most one room locked in the odd and one in the even periods, three distributions of ammunition |

Bounds. Five rooms are the four that matter and one on the way, which is enough
for a detour, a room passed on two legs and a room locked at the time the
search gets there. `INT_MAX` is any number above all costs: line 166 adds to it
only what it has tested. `Least`, the reference of `ShortestOnPlain`, is the
cheapest walk by dynamic programming over all walks.

Proofs. `RoomSearchProofs` proves `Typing`, `Tree`, `Route` and `Promise` for
any number of rooms, any map whose corridors lead both ways, any locked rooms
and any ammunition. `SInv` is about the search of one leg: no distance exceeds
`INT_MAX` (`BoundInv`), the goals ahead have no parent (`AheadInv`), each room
reached is entered after the leg's source, at most one period for each round
(`LegInv`), each round visits a room that was not visited (`RoundInv`, which
gives `Typing` that the loop never uses up its rounds), and `TreeInv`. From
the tree follows that the chain of parents read backwards from the goal is a
route of consecutive periods (`Route`), by the length of the chain. `RouteInv`
adds the legs before: the route so far is legal, ends at the source of this
leg, and no goal to come lies on it. `Promise` needs two facts more:
`AmmoInv`, that a room on the route holds nothing any more, so that passing it
again counts nothing, and `PromiseInv`, that what a leg has spent by its own
count is never less than the route printed so far really costs.
`Greedy` proves `ShortestOnPlain`, that the search is exact where no room is
locked and no room holds more than a corridor costs. `NearInv` is Dijkstra's
argument for the loop at 153: rooms are visited in the order of their distances,
the corridors out of a visited room have been relaxed, and a distance after `k`
rounds is not below the cheapest walk of at most `k` corridors. `WalkLeaves`
follows a walk from the source: it reaches a room visited at no greater
distance, or leaves the visited rooms through one that is no farther. Its
hypothesis `CostsFit`, that 3 legs of `NRooms` corridors cost less than
`INT_MAX`, keeps distances apart from the mark of a room not reached; the
instance of the run satisfies it with corridors of at most 3.

With locks the search is greedy and not exact: it may overlook a route, or end
in undefined behaviour although there is one. The run allows that; the program
promises the safety of what it prints.

Not modelled: the parsing of the input, and inputs in which a room appears
twice in the list of ammunition.

## ext2 shell

`Ext2Blocks` is the block map of an inode, the work of other programs: direct
pointers and three levels of pointer blocks. `Ext2Cat` and `Ext2Shell` share
it. Both assume what the code needs: blocks of 1024 bytes (`BASE_OFFSET` +
(n-1) * block size is the place of block n for no other size; the constants
that stand for 1024, 256 and 12 are there to make small instances), inodes of at
least the size of a `struct inode`, and one block group. `Span(lvl)` is the
number of blocks behind a pointer of a level. `Ext2BlocksProofs` has the
lemmas that both proofs cite: where the three kinds of indirect blocks begin,
and which pointers of a table are 0.

### Reading

`FileService` is the abstract specification: it goes through the bytes from the
offset on, each once and in order, in pieces, and prints of each piece what is
before its first zero byte. That last clause is not what one would promise but
what `cat_func` does: it prints each chunk of 1024 bytes with `printf("%s")`
(178). For a file without zero bytes the service prints the file; of the others
`Ext2Zeros.cfg` shows that not all bytes are printed. `Ext2Cat` is `cat file
offset`: `Readfile`, `EndOfFile`, `Return` for the loop of `cat_func` with
`readfile`, and one action per round of a loop of `ext2_read` (`ReadDirect`,
`EnterSingle`, `SingleRound`, `EnterDouble`, `DoubleRound`, `InnerRound` and
their ends). A byte is its position in the file; `zeros` are the positions of
the zero bytes. `Spin` is the round that changes nothing, `ReadTriple` the
branch at 547, which starts from `i_block[13]` and follows data as pointers.

| run | question | instance |
|---|---|---|
| `ext2_cat` | `TypeOK` (with: no call overruns the caller's buffer), `ImplementsService`, `CatEnds` | 3 direct blocks, 2 pointers in a block, 2 bytes in a block and in a request; files of 0 to 20 bytes, with holes in any kind of block, and with zero bytes anywhere in a chunk; offsets inside and at the end of each kind |

Bounds. With 3 and 2 for 12 and 256, the boundaries between direct, single and
double indirect blocks lie at 3, 5 and 9, and the double indirect part has two
tables, so that each loop has a round that is skipped, one that crosses into the
next and one that ends. Requests of two bytes at odd offsets span two blocks.

`ImplementsService` and `CatEnds` are about files that `ext2_read` can read, the
ones without holes and within the double indirect blocks. On the others the code
fails: a pointer 0 is passed with `continue` without counting the block, so that
`cat` hangs (450, 475, 509, 551; `Ext2Hole.cfg`), and a file that reaches the
triple indirect block ends in undefined behaviour.

Fairness: the shell runs.

Proofs. `Ext2CatProofs` proves `Typing` and `Refinement` for all values of the
constants, every file (its size is bounded by what `i_block` reaches, its
blocks may be missing anywhere) and every offset. `Typing` is about all of
them: no call overruns the buffer and no table is read outside its bounds.
`LoopInv` gives it: in a loop over a table the pointer to the table is there,
and `block_index` is not ahead of what the counters have passed. `l` may be
negative while `block_index` is behind (512-519), which is why this is an
inequality. For files without holes `PieceInv` says that the buffer holds the
bytes from `totalread` on, as many as were asked for in the end, and that
`block_index` and `offset` are the place of the next one, `PlaceInv` that the
counters are exactly in step with `block_index`; together they make each call
one step of `FileService`. `CatEnds` is left to TLC.

### Sessions

`Ext2Shell` is a session of commands. `Execute` is the command line with
`pathwalk` up to its first token; the scans of `ext2_lookup` and `ext2_readdir`
differ in what they do with a block and share `ScanDirect`, `LoadTable`,
`TableRound`, `TableEnds` and `ScanEnds`, one action per block; `Found` and
`NotFound` go on in `pathwalk`; `ListDir`, `ListOther`, `Stat`, `Readlink`,
`Cat`, `FreeTwice` are the ends of the commands. `pc = "undefined"` is reached
where the code uses data that is not what it takes it for, and
`pc = "corrupted"` where it damages the heap.

Every path walk, and the mount before it, copies the three bytes of the name
`".\n"` into `malloc(2)` (fs.c 68-69, ext2.c 689-690). C leaves that undefined;
what it does depends on the bytes that the allocator really gives, the constant
`Room`. With glibc these are 24 and nothing happens. With less than three a
session is over before its first command, and `Init` says so.

| run | question | instance |
|---|---|---|
| `ext2_shell` | `WalkRight`: a path leads where the directories say; `ListingRight`: `ls` names every entry once and in order; `StaysDefined`: defined behaviour is left only in the stated cases (`DataDefined`, `HeapDefined`); `CommandEnds` | 35 images: a root of 1 to 10 blocks (direct, single, double and triple indirect), a subdirectory with removed, unterminated and untyped entries; 15 paths |
| `ext2_listing` | finding: `ListedOnce` fails for a directory with more blocks than direct pointers | same |

The properties exclude what is known to go wrong: a directory of exactly 12
blocks, whose indirect table is read though nothing was loaded (145, 300); one
with a double indirect block, of which `ind_block` holds pointers and not
directory blocks (179, 329); a name whose length is a multiple of four and whose
entry has no slack, as no NUL ends it (129); removed entries, which compare and
list as any other (129-133, 290); `/` and a missing argument (fs.c 89, 75). The
second `cat` frees `root_inode` again (638, `Ext2SecondCat.cfg`): the model
stops there, so the other properties speak of a session up to its second `cat`.

What the directories say is `Lookup` (the first entry of the first block with
the name), followed name by name by `Walk` from the root.

Fairness: the shell runs; nobody has to type.

Proofs. `Ext2ShellProofs` proves `Typing`, `Walking` (`WalkRight`), `Listing`
(`ListingRight`) and `Defined` (`StaysDefined`) for every number of direct
pointers, every size of a table, every `Room`, and all images and paths, where
the root is a directory and an empty file has no blocks. The inductive
invariant `IInv` follows a command through its scans. While a path is walked,
`path` is the rest of what was asked (`RestInv`) and `inode` is where `Walk`
has got to with the names consumed (`WalkInv`). While a directory is scanned,
no block that has been passed holds the name (`MissInv`), or `listed` is what
the blocks passed contain (`ListInv`). `ScanInv` is what makes the stale tables
harmless in a directory that can be searched: the table loaded for the single
indirect block is the only one ever filled, and the passes for the deeper
levels go through that table again, where the name has already been looked for
in vain. So the passes end in "not found" only when the name is not there, and
no buffer is read before it is filled. `WorkInv` and `AskedInv` say which inode
and path a command at work has; `Refused` is the half of `WalkRight` about
paths that name nothing. `CommandEnds` is left to TLC, and `ListedOnce` is
false.

Not modelled: `ls -l` (the same walk with another callback), the fields that
`stat` prints, `fs_stats`, the splitting of the command line, and
`ext2_llseek`, which nothing calls.

## Ball game

`BallService` is the game as a player sees it: a ball for each fall of the rows,
in the column that a rotating number gives, a bar that catches, health points,
three levels of a given number of falls. `BallGame` is the firmware: the latch
bits of the ports A to D as `lat`, the two bytes of timer 1, the counters and
the depth of the return stack. One action is a step of a level's loop
(`check_overflow`, `check_RG2`, `check_RG3`, the test at its end), the release
of a button, or the interrupt (`isr_timeinterval`), which may come between any
two of them, also while a button is held.

`decrease_health` leaves a lost game by a jump out of four calls (line 263), so
that four return addresses remain. `stack` counts them; the call that reaches
level 31 resets the chip (`StackReset`; the configuration leaves STVREN on).
`BallService` admits that restart, so that `ImplementsService` says that the
stack shows in nothing else.

| run | question | instance |
|---|---|---|
| `ball_game` | `TypeOK` (with: room on the stack for an interrupt, no bit above the bar, no counter below 0), `ImplementsService`, `GamesEnd` | the numbers of the program, three values of timer 1 that between them send balls to all columns at every level |

Bounds. All constants are the program's; only the value of timer 1 at the start
is sampled, as all 65536 would differ in the order of the columns only.

Fairness: the processor and timer 0 run, and no button is held for ever;
`GamesEnd` needs all three, as a held button stops the rows.

The model follows the simulator that the program was written with. On the chip,
pin RA6 serves the oscillator in the HSPLL mode, so that a ball missed in column
A might cost nothing. A known defect without a property: a lost game returns
past line 232, and the flag of the last fall makes the second row of the next
game fall at once; RAM is undefined at power-on, which does the same
(`Init`).

Not modelled: the 7-segment codes, the prescaling that makes one fall of many
overflows, and the duration of each level's interval.

Proofs. `BallGameProofs` proves `Typing` and `Refinement` for any number of
balls up to 249, any thresholds of the levels, any health and any values of
timer 1. The inductive invariant `IInv` adds three facts to the types.
`StackInv`: the stack is 1 modulo 4, as a lost game leaves four addresses;
with a stack whose size is not a multiple of four, as the chip's 31, there is
therefore always room for an interrupt. `CountInv`: while a game is played,
`last_ball` and `ball_count` move together until the last balls fall, and the
level is the one their values ask for, so that no counter passes 0.
`ScreenInv`: no row has two balls and at most one has got past the bar, so
that a fall costs at most one health point; between games nothing but the bar
is lit. For the refinement, `Rotate1`, `Rotate3` and `Rotate5` show that the
rotations of two bytes through the carry turn the 16-bit number of
`BallService`, and `FallRows` that the latches of the ports
are its rows. `GamesEnd` is left to TLC.

## Known defects

`PROJECT.json` records two violations as findings, `elevator_double_count` and
`ext2_listing`. The configurations below show other disagreements between the
code and what is said of it. TLC finds each property violated; they are not
runs of `PROJECT.json` and nothing rests on them.

| module, configuration | violated | what is said of the program |
|---|---|---|
| `MCElevator`, `ElevatorLostIncrement.cfg` | `HpFirst`: two increments of a `prioVector` slot are lost into one (263) | HW2.pdf page 4: high-priority people enter before the low-priority people at that floor |
| `MCAuction`, `AuctionStuck.cfg` | `AuctionEnds`: a bidder that ends without `CLIENT_FINISHED` is never taken off the count (60, 144) | HW1.pdf page 2: the server runs until all of the bidders stop bidding |
| `MCGuessGame`, `GuessGameGlitch.cfg` | `PressOnce`: `debouncing_start` is never cleared (270) | main.c 23-24: 10 ms of a button that is up; debug_tests/README.txt 15: once per stimulus |
| `MCGuessGame`, `GuessGameHeld.cfg` | `GetsReady`: a restart stops timer 3 (122) | main.c 24: after 10 ms up, `debounced` is set |
| `MCGuessGame`, `GuessGameOver.cfg` | `NoPressWhenOver`: the routine looks at a flag whose enable bit is clear (230, 301) | main.c 301: RB4 is disabled because the game is over |
| `MCExt2Cat`, `Ext2Zeros.cfg` | `PrintsAll`: a chunk is printed up to its first zero byte (main.c 178) | HW3.pdf page 3: `cat` prints the contents of the file |
| `MCExt2Cat`, `Ext2Hole.cfg` | `CatAlwaysEnds`: a block 0 is passed without being counted (450) | ext2.c 429: the read returns the number of bytes read |
| `MCExt2Shell`, `Ext2SecondCat.cfg` | `CatStaysDefined`: closing a file frees `root_inode` (638) | ext2.c 634: closing cleans up |

## Not modelled

The port calculator (`CENG336/HW1/hw1.asm`) is one loop of button tests over two
values of 0 to 4, without interrupts; its one hard point, the return addresses
that `check1_A4_E3` and `check2_A4_E3` leave on the stack by jumping out
(one per press of RA4), is that of the ball game.

The homework texts, inputs, simulator scripts and logs have no behaviour of
their own. `logging.c` and the print functions only format. The bidder
programs exist as executables only and are external.
