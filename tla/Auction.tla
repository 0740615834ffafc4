------------------------------- MODULE Auction -------------------------------
(***************************************************************************)
(* The auction server of CENG334/HW1 (server.cpp) and the bidder processes *)
(* it forks, which exist as executables only and are modelled from the     *)
(* messages the server exchanges with them.                                *)
(*                                                                         *)
(* The server polls all sockets, then serves those that were ready in the  *)
(* order of their index; serving one, from its read to its write, is one   *)
(* action.  A bidder has one request outstanding at a time.                *)
(*                                                                         *)
(* Every bidder process inherits the bidders' ends of all socket pairs     *)
(* (line 215 closes one of the server's ends only), so the server sees the *)
(* end of file of one socket only when all bidder processes have ended,    *)
(* and only then does a write kill it with SIGPIPE.                        *)
(***************************************************************************)
EXTENDS Integers, Sequences, FiniteSets, FiniteSetsExt

CONSTANTS
  NumBidders,        \* n_of_bidders
  StartingBid, MinimumIncrement,
  Delay,             \* the delay each bidder sends
  Bids,              \* bound: the bids the bidders place
  Statuses,          \* the statuses they announce and exit with
  Deaths             \* how a bidder may end early: wait statuses, {} for never

Bidder   == 0 .. NumBidders - 1
NoBidder == -1
Unset    == -1       \* a slot of `statuses' that was never written

ASSUME ConstantsAssumption ==
  /\ NumBidders \in Nat \ {0}
  /\ StartingBid \in Int
  /\ MinimumIncrement \in Nat
  /\ Delay \in [Bidder -> Nat]
  /\ Bids \subseteq Int
  /\ Statuses \subseteq Nat
  /\ Deaths \subseteq Nat

VARIABLES
  \* the server
  curr_bid, winner_bidder_id, n_of_active_bidder, statuses,
  timeout,
  pfd,               \* the sockets still polled: those whose fd is not -1
  ready,             \* those with revents set that are still to be served
  message,           \* the message read last
  spc,               \* where the server is
  at,                \* index of the loops in lines 159 and 164
  match,             \* the status_match printed per index
  \* the sockets: what is on its way, per bidder
  request, reply,
  \* the bidders
  bpc,
  mine,              \* the bid of its own it was last told is accepted
  heard,             \* the outcome it was told
  exit,              \* what wait() reports for it
  \* history
  announced          \* those whose own CLIENT_FINISHED has been read

bids    == <<curr_bid, winner_bidder_id>>
count   == <<n_of_active_bidder, statuses, announced>>
reaping == <<at, match>>
bidders == <<bpc, mine, heard, exit>>
server  == <<bids, count, timeout, pfd, ready, message, spc, reaping>>
vars    == <<server, request, reply, bidders>>

\* The messages of message.h: unions of one or two integers.
ClientMessage == [message_id : {"CLIENT_CONNECT", "CLIENT_BID", "CLIENT_FINISHED"},
                  params : Int]
Client(id, params) == [message_id |-> id, params |-> params]

\* info is client_id, result or winner_id; bid is current_bid or winning_bid.
ServerMessage == [message_id : {"SERVER_CONNECTION_ESTABLISHED", "SERVER_BID_RESULT",
                                "SERVER_AUCTION_FINISHED"},
                  info : Int, bid : Int]
Server(id, info, bid) == [message_id |-> id, info |-> info, bid |-> bid]

BID_ACCEPTED                     == 0
BID_LOWER_THAN_STARTING_BID      == 1
BID_LOWER_THAN_CURRENT           == 2
BID_INCREMENT_LOWER_THAN_MINIMUM == 3

\* The stages of a bidder: "start", waiting for the connection, free to bid,
\* waiting for a result, waiting for the outcome, exited, reaped.
Stages == {"start", "connecting", "bidding", "awaiting", "waiting", "exited", "reaped"}

\* No bidder process is left.
Gone == \A i \in Bidder : bpc[i] \in {"exited", "reaped"}

Init ==
  /\ curr_bid = StartingBid
  /\ winner_bidder_id \in Bidder \cup {NoBidder}    \* never initialised
  /\ n_of_active_bidder = NumBidders
  /\ statuses = [i \in Bidder |-> Unset] /\ announced = {}
  /\ timeout = 0
  /\ pfd = Bidder /\ ready = {}
  /\ message = Client("CLIENT_CONNECT", 0)
  /\ spc = "poll" /\ at = 0
  /\ match = [i \in Bidder |-> FALSE]
  /\ request = [i \in Bidder |-> <<>>] /\ reply = [i \in Bidder |-> <<>>]
  /\ bpc = [i \in Bidder |-> "start"]
  /\ mine = [i \in Bidder |-> StartingBid]
  /\ heard = [i \in Bidder |-> <<>>]
  /\ exit = [i \in Bidder |-> 0]

-----------------------------------------------------------------------------
(* The bidders.                                                            *)

Moves(i, from, to) == bpc[i] = from /\ bpc' = [bpc EXCEPT ![i] = to]

Sends(i, id, params) == request' = [request EXCEPT ![i] = <<Client(id, params)>>]

Connect(i) ==
  /\ Moves(i, "start", "connecting")
  /\ Sends(i, "CLIENT_CONNECT", Delay[i])
  /\ UNCHANGED <<server, reply, mine, heard, exit>>

PlaceBid(i) ==
  /\ Moves(i, "bidding", "awaiting")
  /\ \E bid \in Bids : Sends(i, "CLIENT_BID", bid)
  /\ UNCHANGED <<server, reply, mine, heard, exit>>

Withdraw(i) ==
  /\ Moves(i, "bidding", "waiting")
  /\ \E status \in Statuses : /\ Sends(i, "CLIENT_FINISHED", status)
                              /\ exit' = [exit EXCEPT ![i] = status]
  /\ UNCHANGED <<server, reply, mine, heard>>

\* What wait() reports for a normal exit.
ExitStatus(status) == (status % 256) * 256

Accepted(m) == m.message_id = "SERVER_BID_RESULT" /\ m.info = BID_ACCEPTED

Hear(i) ==
  /\ reply[i] # <<>>
  /\ \/ /\ Moves(i, "connecting", "bidding")
        /\ UNCHANGED <<mine, heard, exit>>
     \/ /\ Moves(i, "awaiting", "bidding")
        /\ mine' = IF Accepted(reply[i][1]) THEN [mine EXCEPT ![i] = reply[i][1].bid] ELSE mine
        /\ UNCHANGED <<heard, exit>>
     \/ /\ Moves(i, "waiting", "exited")
        /\ heard' = [heard EXCEPT ![i] = <<reply[i][1].info, reply[i][1].bid>>]
        /\ exit' = [exit EXCEPT ![i] = ExitStatus(@)]
        /\ UNCHANGED mine
  /\ reply' = [reply EXCEPT ![i] = <<>>]
  /\ UNCHANGED <<server, request>>

\* The process ends at any point: a signal, or an execv that fails (line 230).
Die(i) ==
  /\ bpc[i] \notin {"exited", "reaped"}
  /\ bpc' = [bpc EXCEPT ![i] = "exited"]
  /\ \E status \in Deaths : exit' = [exit EXCEPT ![i] = status]
  /\ UNCHANGED <<server, request, reply, mine, heard>>

BidderStep(i) == Connect(i) \/ PlaceBid(i) \/ Withdraw(i) \/ Hear(i) \/ Die(i)

-----------------------------------------------------------------------------
(* The server's loop.                                                      *)

\* Mutants, here and below, are plausible bugs: the checks replace the
\* definition after them by them and expect a property to fail.
Mutant_PollClosed == {i \in Bidder : request[i] # <<>> \/ Gone}
Mutant_PollLowest == {i \in pfd : request[i] # <<>> /\ \A k \in pfd : k < i => request[k] = <<>>}

Mutant_PollAll == pfd

Readable == {i \in pfd : request[i] # <<>> \/ Gone}

Mutant_EndsEarly == pfd = {} \/ n_of_active_bidder <= 1
Mutant_EndsAtEof == pfd = {}

\* The loop's conditions, lines 47 and 49.
AuctionOver == pfd = {} \/ n_of_active_bidder = 0

Poll ==
  /\ spc = "poll" /\ ~AuctionOver
  /\ Readable # {}
  /\ ready' = Readable
  /\ spc' = "serve"
  /\ UNCHANGED <<bids, count, timeout, pfd, message, reaping, request, reply, bidders>>

LoopEnds ==
  /\ spc = "poll" /\ AuctionOver
  /\ spc' = "announce"
  /\ UNCHANGED <<bids, count, timeout, pfd, ready, message, reaping, request, reply, bidders>>

Serves(i) == spc = "serve" /\ i \in ready /\ \A k \in ready : i <= k

EndOfFile(i) == request[i] = <<>> /\ reply[i] = <<>>

\* read() returns the request; when all bidders are gone and left a reply
\* unread it fails instead, and `message' keeps its old content.
ReadMessage(i) == IF request[i] # <<>> THEN request[i][1] ELSE message

Served(i) == ready' = ready \ {i} /\ spc' = IF ready' = {} THEN "poll" ELSE "serve"

Reads(i, id) ==
  /\ Serves(i) /\ ~EndOfFile(i) /\ ReadMessage(i).message_id = id
  /\ message' = ReadMessage(i)
  /\ request' = [request EXCEPT ![i] = <<>>]

Writes(i, m) ==
  IF Gone
  THEN spc' = "killed" /\ UNCHANGED <<ready, reply>>
  ELSE Served(i) /\ reply' = [reply EXCEPT ![i] = Append(@, m)]

ServeEndOfFile(i) ==
  /\ Serves(i) /\ EndOfFile(i)
  /\ pfd' = pfd \ {i}
  /\ Served(i)
  /\ UNCHANGED <<bids, count, timeout, message, reaping, request, reply, bidders>>

Mutant_KeepTimeout(delay) == IF timeout > delay THEN delay ELSE timeout

NewTimeout(delay) == IF timeout = 0 \/ timeout > delay THEN delay ELSE timeout

ServeConnect(i) ==
  /\ Reads(i, "CLIENT_CONNECT")
  /\ timeout' = NewTimeout(ReadMessage(i).params)
  /\ Writes(i, Server("SERVER_CONNECTION_ESTABLISHED", i, curr_bid))
  /\ UNCHANGED <<bids, count, pfd, reaping, bidders>>

Mutant_ResultNoIncrement(bid) ==
  IF bid < StartingBid THEN {BID_LOWER_THAN_STARTING_BID}
  ELSE IF bid < curr_bid THEN {BID_LOWER_THAN_CURRENT}
  ELSE {BID_ACCEPTED}

\* The results the code may send: one that is not assigned (an equal bid with
\* no minimum increment) is whatever the stack holds.
Results(bid) ==
  IF bid < StartingBid THEN {BID_LOWER_THAN_STARTING_BID}
  ELSE IF bid < curr_bid THEN {BID_LOWER_THAN_CURRENT}
  ELSE IF bid - curr_bid < MinimumIncrement THEN {BID_INCREMENT_LOWER_THAN_MINIMUM}
  ELSE IF bid > curr_bid THEN {BID_ACCEPTED}
  ELSE BID_ACCEPTED .. BID_INCREMENT_LOWER_THAN_MINIMUM

Mutant_OutbidsStart(bid) == bid >= StartingBid

Outbids(bid) == Results(bid) = {BID_ACCEPTED}

ServeBid(i) ==
  /\ Reads(i, "CLIENT_BID")
  /\ LET bid == ReadMessage(i).params
     IN  /\ curr_bid' = IF Outbids(bid) THEN bid ELSE curr_bid
         /\ winner_bidder_id' = IF Outbids(bid) THEN i ELSE winner_bidder_id
         /\ \E result \in Results(bid) :
              Writes(i, Server("SERVER_BID_RESULT", result, curr_bid'))
  /\ UNCHANGED <<count, timeout, pfd, reaping, bidders>>

\* A failing read reports the lost reply once; the next one is the end of file.
ServeFinished(i) ==
  /\ Reads(i, "CLIENT_FINISHED")
  /\ statuses' = [statuses EXCEPT ![i] = ReadMessage(i).params]
  /\ n_of_active_bidder' = n_of_active_bidder - 1
  /\ announced' = IF request[i] # <<>> THEN announced \cup {i} ELSE announced
  /\ reply' = [reply EXCEPT ![i] = <<>>]
  /\ Served(i)
  /\ UNCHANGED <<bids, timeout, pfd, reaping, bidders>>

Mutant_LastButOne(index) == index + 2 = NumBidders

Last(index) == index + 1 = NumBidders

\* i++ of these loops; each starts at 0.
Following(index) == IF Last(index) THEN 0 ELSE index + 1

\* Line 161; the write to a closed fd (-1) fails and does nothing.
Announce ==
  /\ spc = "announce"
  /\ IF at \in pfd /\ Gone
     THEN spc' = "killed" /\ UNCHANGED <<reply, at>>
     ELSE /\ at' = Following(at)
          /\ spc' = IF Last(at) THEN "reap" ELSE "announce"
          /\ reply' = IF at \in pfd
                      THEN [reply EXCEPT ![at] =
                              Append(@, Server("SERVER_AUCTION_FINISHED",
                                               winner_bidder_id, curr_bid))]
                      ELSE reply
  /\ UNCHANGED <<bids, count, timeout, pfd, ready, message, match, request, bidders>>

\* wait() returns whichever child has ended, and its status is compared with
\* the one announced by the bidder of the loop's index.
Reap ==
  /\ spc = "reap"
  /\ \E k \in Bidder :
       /\ Moves(k, "exited", "reaped")
       /\ \E same \in IF statuses[at] = Unset THEN BOOLEAN ELSE {statuses[at] = exit[k]} :
            match' = [match EXCEPT ![at] = same]
  /\ at' = Following(at)
  /\ spc' = IF Last(at) THEN "done" ELSE "reap"
  /\ UNCHANGED <<bids, count, timeout, pfd, ready, message, request, reply, mine, heard, exit>>

Serve(i) == ServeEndOfFile(i) \/ ServeConnect(i) \/ ServeBid(i) \/ ServeFinished(i)

ServerStep == Poll \/ LoopEnds \/ Announce \/ Reap \/ \E i \in Bidder : Serve(i)

Terminated == spc \in {"done", "killed"} /\ Gone /\ UNCHANGED vars

Next == ServerStep \/ (\E i \in Bidder : BidderStep(i)) \/ Terminated

Spec == Init /\ [][Next]_vars

\* Processes are scheduled: the server does not stop, and a bidder connects
\* and reads what it is sent.  When it stops bidding is up to the bidder.
Fairness ==
  /\ WF_vars(ServerStep)
  /\ \A i \in Bidder : WF_vars(Connect(i)) /\ WF_vars(Hear(i))

FairSpec == Spec /\ Fairness

-----------------------------------------------------------------------------
TypeOK ==
  /\ curr_bid \in Int
  /\ winner_bidder_id \in Bidder \cup {NoBidder}
  /\ n_of_active_bidder \in Int
  /\ statuses \in [Bidder -> Int]
  /\ announced \subseteq Bidder
  /\ timeout \in Int
  /\ pfd \subseteq Bidder /\ ready \subseteq pfd
  /\ message \in ClientMessage
  /\ spc \in {"poll", "serve", "announce", "reap", "done", "killed"}
  /\ at \in Bidder
  /\ match \in [Bidder -> BOOLEAN]
  /\ request \in [Bidder -> Seq(ClientMessage)]
  /\ reply \in [Bidder -> Seq(ServerMessage)]
  /\ bpc \in [Bidder -> Stages]
  /\ mine \in [Bidder -> Int]
  /\ heard \in [Bidder -> Seq(Int)]
  /\ exit \in [Bidder -> Int]

Holds(socket, id) == Len(socket) = 1 /\ socket[1].message_id = id

Awaits(i, question, answer) ==
  \/ Holds(request[i], question) /\ reply[i] = <<>>
  \/ request[i] = <<>> /\ Holds(reply[i], answer)

InTurn(i) ==
  /\ bpc[i] \in {"start", "bidding"} => request[i] = <<>> /\ reply[i] = <<>>
  /\ bpc[i] = "connecting" => Awaits(i, "CLIENT_CONNECT", "SERVER_CONNECTION_ESTABLISHED")
  /\ bpc[i] = "awaiting" => Awaits(i, "CLIENT_BID", "SERVER_BID_RESULT")
  /\ bpc[i] = "waiting" => \/ Awaits(i, "CLIENT_FINISHED", "SERVER_AUCTION_FINISHED")
                           \/ request[i] = <<>> /\ reply[i] = <<>>

\* Each request of a bidder that lives is answered once, with the message
\* that answers it, and nobody is sent anything unasked but the outcome.
OneAnswer == \A i \in Bidder : InTurn(i)

\* While a bidder lives, the counter that ends the auction counts the bidders
\* that have not announced their own end (lines 137 and 144): a message that is
\* served twice because a read() failed (line 59) takes nobody else's place.
CountInv == ~Gone => n_of_active_bidder = Cardinality(Bidder \ announced)

\* What i has bid successfully, as far as the answers sent to it say.
Best(i) == IF reply[i] # <<>> /\ Accepted(reply[i][1]) THEN reply[i][1].bid ELSE mine[i]

\* No accepted bid lies above the price, and only the winner's is equal to it:
\* two bidders are never both told that they lead (lines 120-126).
LeaderInv ==
  \A i \in Bidder : /\ Best(i) <= curr_bid
                    /\ Best(i) = curr_bid /\ curr_bid # StartingBid => winner_bidder_id = i

\* The poll timeout is the shortest delay of the bidders that have connected,
\* in whatever order they did, and 0 only before the first (lines 68-76).
Connected(i) == bpc[i] \notin {"start", "connecting"} \/ reply[i] # <<>>
TimeoutInv ==
  LET delays == {Delay[i] : i \in {k \in Bidder : Connected(k)}}
  IN  timeout = IF delays = {} THEN 0 ELSE Min(delays)

\* Nothing is left to reap when the server ends (lines 164-173; HW1.pdf page 2:
\* "No zombie processes should be left").
NoZombies == spc = "done" => \A i \in Bidder : bpc[i] = "reaped"

\* A request is answered in the end, however busy the other bidders are.
Answered == \A i \in Bidder : request[i] # <<>> ~> request[i] = <<>>

\* Once every bidder has stopped bidding the auction ends.
Stopped(i) == bpc[i] \in {"waiting", "exited", "reaped"}
AuctionEnds == (\A i \in Bidder : <>Stopped(i)) => <>(spc = "done")

-----------------------------------------------------------------------------
(* The server and its bidders implement the abstract auction.              *)

Outcome(m) == <<m.info, m.bid>>

\* What i has been sent of the outcome, read or not.
Told(i) ==
  IF reply[i] # <<>> /\ reply[i][Len(reply[i])].message_id = "SERVER_AUCTION_FINISHED"
  THEN Outcome(reply[i][Len(reply[i])])
  ELSE heard[i]

Service == INSTANCE AuctionService WITH
  price  <- curr_bid,
  leader <- winner_bidder_id,
  active <- pfd \ announced,
  told   <- [i \in Bidder |-> Told(i)]

\* The price only rises, by the minimum increment and through a bidder that
\* takes part; everybody is told the same final winner and price, and nobody
\* before all have stopped.
ImplementsService == Service!Spec
=============================================================================
