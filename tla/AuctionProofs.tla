---------------------------- MODULE AuctionProofs ----------------------------
(***************************************************************************)
(* Proofs about Auction for any number of bidders, any bids and any death  *)
(* of a bidder.                                                            *)
(***************************************************************************)
EXTENDS Auction, TLAPS, FiniteSetTheorems

-----------------------------------------------------------------------------
(* Types.                                                                  *)

LEMMA BidderInt == Bidder \subseteq Int /\ Bidder \cup {NoBidder} \subseteq Int
BY ConstantsAssumption DEF Bidder, NoBidder

LEMMA FollowingType == \A i \in Bidder : Following(i) \in Bidder
BY ConstantsAssumption DEF Bidder, Following, Last

LEMMA InitType == Init => TypeOK
<1> SUFFICES ASSUME Init PROVE TypeOK
  OBVIOUS
<1>1. /\ curr_bid \in Int /\ n_of_active_bidder \in Int /\ timeout \in Int
      /\ at \in Bidder /\ mine \in [Bidder -> Int] /\ exit \in [Bidder -> Int]
      /\ statuses \in [Bidder -> Int]
  BY ConstantsAssumption DEF Init, Unset, Bidder
<1>2. match \in [Bidder -> BOOLEAN] /\ bpc \in [Bidder -> Stages]
  BY Zenon DEF Init, Stages
<1>3. message \in ClientMessage
  BY DEF Init, ClientMessage, Client
<1>4. /\ request \in [Bidder -> Seq(ClientMessage)]
      /\ reply \in [Bidder -> Seq(ServerMessage)] /\ heard \in [Bidder -> Seq(Int)]
  BY DEF Init
<1> QED BY <1>1, <1>2, <1>3, <1>4 DEF Init, TypeOK

\* What the server reads is a message.
LEMMA ReadType ==
  ASSUME TypeOK, NEW i \in Bidder
  PROVE  ReadMessage(i) \in ClientMessage /\ ReadMessage(i).params \in Int
<1>1. ReadMessage(i) \in ClientMessage
  BY DEF ReadMessage, TypeOK
<1> QED BY <1>1 DEF ClientMessage

LEMMA BidderStepType ==
  ASSUME TypeOK, NEW i \in Bidder, BidderStep(i)
  PROVE  TypeOK'
<1> USE DEF server, bids, count, reaping, Moves
<1>1. ASSUME NEW id \in {"CLIENT_CONNECT", "CLIENT_BID", "CLIENT_FINISHED"},
             NEW params \in Int, Sends(i, id, params)
      PROVE  request' \in [Bidder -> Seq(ClientMessage)]
  <2>1. Client(id, params) \in ClientMessage
    BY DEF Client, ClientMessage
  <2> QED BY <1>1, <2>1 DEF Sends, TypeOK
<1>2. ASSUME NEW stage \in Stages, bpc' = [bpc EXCEPT ![i] = stage]
      PROVE  bpc' \in [Bidder -> Stages]
  BY <1>2 DEF TypeOK
<1>3. CASE Connect(i)
  <2>1. request' \in [Bidder -> Seq(ClientMessage)]
    BY <1>1, <1>3, ConstantsAssumption DEF Connect
  <2>2. bpc' \in [Bidder -> Stages]
    BY <1>2, <1>3 DEF Connect, Stages
  <2> QED BY <1>3, <2>1, <2>2 DEF Connect, TypeOK
<1>4. CASE PlaceBid(i)
  <2>1. request' \in [Bidder -> Seq(ClientMessage)]
    BY <1>1, <1>4, ConstantsAssumption DEF PlaceBid
  <2>2. bpc' \in [Bidder -> Stages]
    BY <1>2, <1>4 DEF PlaceBid, Stages
  <2> QED BY <1>4, <2>1, <2>2 DEF PlaceBid, TypeOK
<1>5. CASE Withdraw(i)
  <2>1. PICK status \in Statuses : /\ Sends(i, "CLIENT_FINISHED", status)
                                   /\ exit' = [exit EXCEPT ![i] = status]
    BY <1>5 DEF Withdraw
  <2>2. status \in Int
    BY ConstantsAssumption
  <2>3. request' \in [Bidder -> Seq(ClientMessage)] /\ exit' \in [Bidder -> Int]
    BY <1>1, <2>1, <2>2 DEF TypeOK
  <2>4. bpc' \in [Bidder -> Stages]
    BY <1>2, <1>5 DEF Withdraw, Stages
  <2> QED BY <1>5, <2>3, <2>4 DEF Withdraw, TypeOK
<1>6. CASE Hear(i)
  <2>1. reply[i][1] \in ServerMessage /\ reply' \in [Bidder -> Seq(ServerMessage)]
    BY <1>6 DEF Hear, TypeOK
  <2>2. reply[i][1].info \in Int /\ reply[i][1].bid \in Int
    BY <2>1 DEF ServerMessage
  <2>3. bpc' \in [Bidder -> Stages]
    BY <1>2, <1>6 DEF Hear, Stages
  <2>4. mine' \in [Bidder -> Int]
    BY <1>6, <2>2 DEF Hear, TypeOK
  <2>5. heard' \in [Bidder -> Seq(Int)]
    <3>1. <<reply[i][1].info, reply[i][1].bid>> \in Seq(Int)
      BY <2>2
    <3>2. \/ heard' = [heard EXCEPT ![i] = <<reply[i][1].info, reply[i][1].bid>>]
          \/ heard' = heard
      BY <1>6 DEF Hear
    <3> QED BY <3>1, <3>2 DEF TypeOK
  <2>6. \A status \in Int : ExitStatus(status) \in Int
    BY DEF ExitStatus
  <2>7. exit' \in [Bidder -> Int]
    <3>1. exit' = [exit EXCEPT ![i] = ExitStatus(@)] \/ exit' = exit
      BY <1>6 DEF Hear
    <3>2. exit[i] \in Int /\ exit \in [Bidder -> Int]
      BY DEF TypeOK
    <3>3. ExitStatus(exit[i]) \in Int
      BY <2>6, <3>2
    <3> QED BY <3>1, <3>2, <3>3
  <2> QED BY <1>6, <2>1, <2>3, <2>4, <2>5, <2>7 DEF Hear, TypeOK
<1>7. CASE Die(i)
  <2>1. exit' \in [Bidder -> Int]
    BY <1>7, ConstantsAssumption DEF Die, TypeOK
  <2>2. bpc' \in [Bidder -> Stages]
    BY <1>2, <1>7 DEF Die, Stages
  <2> QED BY <1>7, <2>1, <2>2 DEF Die, TypeOK
<1> QED BY <1>3, <1>4, <1>5, <1>6, <1>7 DEF BidderStep

\* Serving a message: what Reads, Writes and Served do to the types.
LEMMA ServeType ==
  ASSUME TypeOK, NEW i \in Bidder, NEW id, Reads(i, id), pfd' = pfd
  PROVE  /\ message' \in ClientMessage
         /\ request' \in [Bidder -> Seq(ClientMessage)]
         /\ Served(i) => /\ ready' \subseteq pfd'
                         /\ spc' \in {"poll", "serve"}
         /\ \A m \in ServerMessage : Writes(i, m) =>
              /\ ready' \subseteq pfd'
              /\ spc' \in {"poll", "serve", "killed"}
              /\ reply' \in [Bidder -> Seq(ServerMessage)]
<1>1. message' \in ClientMessage
  BY ReadType DEF Reads
<1>2. request' \in [Bidder -> Seq(ClientMessage)]
  BY DEF Reads, TypeOK
<1>3. Served(i) => ready' \subseteq pfd' /\ spc' \in {"poll", "serve"}
  BY DEF Served, TypeOK
<1>4. ASSUME NEW m \in ServerMessage, Writes(i, m)
      PROVE  /\ ready' \subseteq pfd'
             /\ spc' \in {"poll", "serve", "killed"}
             /\ reply' \in [Bidder -> Seq(ServerMessage)]
  <2>1. [reply EXCEPT ![i] = Append(@, m)] \in [Bidder -> Seq(ServerMessage)]
    BY DEF TypeOK
  <2> QED BY <1>3, <1>4, <2>1 DEF Writes, TypeOK
<1> QED BY <1>1, <1>2, <1>3, <1>4

LEMMA ServerStepType ==
  ASSUME TypeOK, ServerStep
  PROVE  TypeOK'
<1> USE DEF bids, count, reaping, bidders
<1>1. CASE Poll
  BY <1>1 DEF Poll, Readable, TypeOK
<1>2. CASE LoopEnds
  BY <1>2 DEF LoopEnds, TypeOK
<1>3. CASE Announce
  <2>1. /\ winner_bidder_id \in Int /\ curr_bid \in Int
        /\ Server("SERVER_AUCTION_FINISHED", winner_bidder_id, curr_bid) \in ServerMessage
    BY BidderInt DEF TypeOK, Server, ServerMessage
  <2>0. at \in Bidder
    BY DEF TypeOK
  <2>2. reply' \in [Bidder -> Seq(ServerMessage)]
    <3>1. reply[at] \in Seq(ServerMessage)
      BY <2>0 DEF TypeOK
    <3>2. Append(reply[at], Server("SERVER_AUCTION_FINISHED", winner_bidder_id, curr_bid))
             \in Seq(ServerMessage)
      BY <2>1, <3>1
    <3> QED BY <1>3, <2>0, <3>2 DEF Announce, TypeOK
  <2>3. at' \in Bidder
    BY <1>3, <2>0, FollowingType DEF Announce
  <2>4. spc' \in {"killed", "reap", "announce"}
    BY <1>3 DEF Announce
  <2> QED BY <1>3, <2>2, <2>3, <2>4 DEF Announce, TypeOK
<1>4. CASE Reap
  <2>2. at' \in Bidder
    BY <1>4, FollowingType DEF Reap, TypeOK
  <2>3. PICK k \in Bidder : /\ bpc' = [bpc EXCEPT ![k] = "reaped"]
                            /\ \E same \in BOOLEAN : match' = [match EXCEPT ![at] = same]
    <3>1. (statuses[at] = exit[at]) \in BOOLEAN /\ \A k \in Bidder : (statuses[at] = exit[k]) \in BOOLEAN
      OBVIOUS
    <3> QED BY <1>4, <3>1, Zenon DEF Reap, Moves
  <2>4. bpc' \in [Bidder -> Stages] /\ match' \in [Bidder -> BOOLEAN]
    <3>1. "reaped" \in Stages
      BY DEF Stages
    <3>2. PICK same \in BOOLEAN : match' = [match EXCEPT ![at] = same]
      BY <2>3
    <3> QED BY <2>3, <3>1, <3>2, Zenon DEF TypeOK
  <2>5. spc' \in {"reap", "done"}
    BY <1>4 DEF Reap
  <2> QED BY <1>4, <2>2, <2>4, <2>5 DEF Reap, TypeOK
<1>5. ASSUME NEW i \in Bidder, Serve(i)
      PROVE  TypeOK'
  <2>0. ReadMessage(i).params \in Int
    BY ReadType
  <2>1. CASE ServeEndOfFile(i)
    BY <2>1 DEF ServeEndOfFile, Served, TypeOK
  <2>2. CASE ServeConnect(i)
    <3>1. Server("SERVER_CONNECTION_ESTABLISHED", i, curr_bid) \in ServerMessage
      BY BidderInt DEF TypeOK, Server, ServerMessage
    <3>2. timeout' \in Int
      BY <2>0, <2>2 DEF ServeConnect, NewTimeout, TypeOK
    <3> QED BY <2>2, <3>1, <3>2, ServeType DEF ServeConnect, TypeOK
  <2>3. CASE ServeBid(i)
    <3>1. curr_bid' \in Int /\ winner_bidder_id' \in Bidder \cup {NoBidder}
      BY <2>0, <2>3 DEF ServeBid, TypeOK
    <3>2. PICK result \in Results(ReadMessage(i).params) :
                 Writes(i, Server("SERVER_BID_RESULT", result, curr_bid'))
      BY <2>3 DEF ServeBid
    <3>3. result \in Int
      BY DEF Results, BID_ACCEPTED, BID_LOWER_THAN_STARTING_BID, BID_LOWER_THAN_CURRENT,
             BID_INCREMENT_LOWER_THAN_MINIMUM
    <3>4. Server("SERVER_BID_RESULT", result, curr_bid') \in ServerMessage
      BY <3>1, <3>3 DEF Server, ServerMessage
    <3> QED BY <2>3, <3>1, <3>2, <3>4, ServeType DEF ServeBid, TypeOK
  <2>4. CASE ServeFinished(i)
    <3>1. statuses' \in [Bidder -> Int] /\ n_of_active_bidder' \in Int
      BY <2>0, <2>4 DEF ServeFinished, TypeOK
    <3>2. reply' \in [Bidder -> Seq(ServerMessage)]
      BY <2>4 DEF ServeFinished, TypeOK
    <3> QED BY <2>4, <3>1, <3>2, ServeType DEF ServeFinished, TypeOK
  <2> QED BY <1>5, <2>1, <2>2, <2>3, <2>4 DEF Serve
<1> QED BY <1>1, <1>2, <1>3, <1>4, <1>5 DEF ServerStep

-----------------------------------------------------------------------------
(* The inductive invariant: who has said and heard what, at each point of  *)
(* the server.                                                             *)

\* An unserved request is the only message on its socket and comes before the
\* bidder's end is counted; the status in the last one is not negative.
RequestInv ==
  \A i \in Bidder : request[i] # <<>> =>
    /\ Len(request[i]) = 1 /\ reply[i] = <<>> /\ statuses[i] = Unset
    /\ request[i][1].message_id = "CLIENT_FINISHED" => request[i][1].params \in Nat

MessageInv == message.message_id = "CLIENT_FINISHED" => message.params \in Nat

\* A bidder that still takes part is not counted as finished.
ActiveInv ==
  \A i \in Bidder :
    bpc[i] \in {"start", "connecting", "bidding", "awaiting"} => statuses[i] = Unset

\* Before the outcome is announced nobody has been sent it, and whoever has a
\* reply unread is not counted as finished.
LoopInv ==
  spc \in {"poll", "serve"} =>
    /\ at = 0
    /\ \A i \in Bidder : reply[i] # <<>> =>
         /\ statuses[i] = Unset
         /\ Len(reply[i]) = 1 /\ reply[i][1].message_id # "SERVER_AUCTION_FINISHED"

\* A socket is served because of a request, or because nobody is left.
ReadyInv == spc = "serve" => \A i \in ready : request[i] # <<>> \/ Gone

\* The announcement goes through the bidders once.
AnnounceInv ==
  spc = "announce" => \A i \in Bidder : i >= at /\ bpc[i] = "waiting" => reply[i] = <<>>

\* The auction is over once the loop has ended.
OverInv == spc \in {"announce", "reap", "done"} => pfd = {} \/ n_of_active_bidder = 0

TurnInv ==
  /\ OneAnswer /\ RequestInv /\ MessageInv /\ ActiveInv
  /\ LoopInv /\ ReadyInv /\ AnnounceInv /\ OverInv

LEMMA InitTurn == Init => TurnInv
<1> SUFFICES ASSUME Init PROVE TurnInv
  OBVIOUS
<1>1. OneAnswer /\ RequestInv /\ ActiveInv
  BY DEF Init, OneAnswer, InTurn, RequestInv, ActiveInv
<1>2. MessageInv
  BY DEF Init, MessageInv, Client
<1>3. LoopInv /\ ReadyInv /\ AnnounceInv /\ OverInv
  BY DEF Init, LoopInv, ReadyInv, AnnounceInv, OverInv
<1> QED BY <1>1, <1>2, <1>3 DEF TurnInv

\* A bidder that is free to speak sends a request.
LEMMA SendTurn ==
  ASSUME TypeOK, TurnInv, NEW i \in Bidder, NEW from \in {"start", "bidding"},
         NEW to, NEW id, NEW params,
         <<to, id>> \in {<<"connecting", "CLIENT_CONNECT">>, <<"awaiting", "CLIENT_BID">>,
                        <<"waiting", "CLIENT_FINISHED">>},
         id = "CLIENT_FINISHED" => params \in Nat,
         Moves(i, from, to), Sends(i, id, params), UNCHANGED <<server, reply>>
  PROVE  TurnInv'
<1> USE DEF server, bids, count, reaping, TurnInv
<1>1. request[i] = <<>> /\ reply[i] = <<>> /\ statuses[i] = Unset /\ bpc[i] = from
  BY DEF OneAnswer, InTurn, ActiveInv, Moves
<1>2. /\ Len(request'[i]) = 1 /\ request'[i] # <<>>
      /\ request'[i][1].message_id = id /\ request'[i][1].params = params
      /\ bpc'[i] = to /\ UNCHANGED <<reply, statuses, message, spc, at, ready, pfd, n_of_active_bidder>>
  BY DEF Sends, Client, Moves, TypeOK
<1>3. \A j \in Bidder : j # i => UNCHANGED <<request[j], bpc[j]>>
  BY DEF Sends, Moves, TypeOK
<1>4. ~Gone /\ ~Gone'
  BY <1>1, <1>2 DEF Gone
<1>5. OneAnswer'
  <2>1. InTurn(i)'
    BY <1>1, <1>2 DEF InTurn, Awaits, Holds
  <2>2. ASSUME NEW j \in Bidder, j # i PROVE InTurn(j)'
    <3>1. InTurn(j) /\ UNCHANGED <<request[j], bpc[j], reply[j]>>
      BY <1>2, <1>3, <2>2 DEF OneAnswer
    <3> QED BY <3>1 DEF InTurn, Awaits, Holds
  <2> QED BY <2>1, <2>2 DEF OneAnswer
<1>6. RequestInv'
  BY <1>1, <1>2, <1>3 DEF RequestInv
<1>7. ActiveInv'
  BY <1>1, <1>2, <1>3 DEF ActiveInv
<1>8. LoopInv' /\ MessageInv' /\ OverInv'
  BY <1>2 DEF LoopInv, MessageInv, OverInv
<1>9. ReadyInv'
  BY <1>2, <1>3, <1>4 DEF ReadyInv, TypeOK
<1>10. AnnounceInv'
  BY <1>1, <1>2, <1>3 DEF AnnounceInv
<1> QED BY <1>5, <1>6, <1>7, <1>8, <1>9, <1>10

LEMMA BidderTurn ==
  ASSUME TypeOK, TurnInv, NEW i \in Bidder, BidderStep(i)
  PROVE  TurnInv'
<1> USE DEF server, bids, count, reaping
<1>1. CASE Connect(i)
  BY <1>1, SendTurn DEF Connect
<1>2. CASE PlaceBid(i)
  <2>1. PICK bid \in Bids : Sends(i, "CLIENT_BID", bid)
    BY <1>2 DEF PlaceBid
  <2> QED BY <1>2, <2>1, SendTurn DEF PlaceBid
<1>3. CASE Withdraw(i)
  <2>1. PICK status \in Statuses : Sends(i, "CLIENT_FINISHED", status)
    BY <1>3 DEF Withdraw
  <2>2. status \in Nat
    BY ConstantsAssumption
  <2> QED BY <1>3, <2>1, <2>2, SendTurn DEF Withdraw
<1>4. CASE Hear(i) \/ Die(i)
  <2> USE DEF TurnInv
  <2>1. /\ UNCHANGED <<request, statuses, message, spc, at, ready, pfd, n_of_active_bidder>>
        /\ \A j \in Bidder : j # i => UNCHANGED <<reply[j], bpc[j]>>
        /\ reply'[i] \in {reply[i], <<>>} /\ reply' \in [Bidder -> Seq(ServerMessage)]
        /\ bpc'[i] \in {"bidding", "exited"}
        /\ bpc'[i] = "bidding" => /\ bpc[i] \in {"connecting", "awaiting"}
                                  /\ reply[i] # <<>> /\ reply'[i] = <<>>
    <3>1. CASE Hear(i)
      BY <3>1, SMTT(30) DEF Hear, Moves, TypeOK
    <3>2. CASE Die(i)
      BY <3>2 DEF Die, TypeOK
    <3> QED BY <1>4, <3>1, <3>2
  <2>2. bpc'[i] = "bidding" => request[i] = <<>>
    BY <2>1 DEF OneAnswer, InTurn, Awaits
  <2>3. OneAnswer'
    <3>1. InTurn(i)'
      BY <2>1, <2>2 DEF InTurn
    <3>2. ASSUME NEW j \in Bidder, j # i PROVE InTurn(j)'
      <4>1. InTurn(j) /\ UNCHANGED <<request[j], bpc[j], reply[j]>>
        BY <2>1, <3>2 DEF OneAnswer
      <4> QED BY <4>1 DEF InTurn, Awaits, Holds
    <3> QED BY <3>1, <3>2 DEF OneAnswer
  <2>4. RequestInv' /\ MessageInv' /\ OverInv'
    BY <2>1 DEF RequestInv, MessageInv, OverInv
  <2>5. ActiveInv'
    BY <2>1 DEF ActiveInv
  <2>6. LoopInv' /\ AnnounceInv'
    BY <2>1 DEF LoopInv, AnnounceInv
  <2>7. Gone => Gone'
    BY <1>4 DEF Hear, Die, Moves, Gone, TypeOK
  <2>8. ReadyInv'
    BY <2>1, <2>7 DEF ReadyInv
  <2> QED BY <2>3, <2>4, <2>5, <2>6, <2>8
<1> QED BY <1>1, <1>2, <1>3, <1>4 DEF BidderStep
-----------------------------------------------------------------------------
\* The counter agrees with the statuses at all times.  Whoever has announced its
\* end is counted as finished; while a bidder lives, a read never fails and
\* nobody else is.
StatusInv == n_of_active_bidder = Cardinality({i \in Bidder : statuses[i] = Unset})

AnnouncedInv ==
  /\ \A i \in announced : statuses[i] # Unset
  /\ ~Gone => \A i \in Bidder : statuses[i] # Unset => i \in announced

\* When the counter is at zero everybody is counted as finished.
LEMMA CountZero ==
  ASSUME StatusInv, n_of_active_bidder = 0
  PROVE  \A i \in Bidder : statuses[i] # Unset
<1>1. IsFiniteSet(Bidder)
  BY ConstantsAssumption, FS_Interval DEF Bidder
<1>2. IsFiniteSet({i \in Bidder : statuses[i] = Unset})
  BY <1>1, FS_Subset
<1>3. {i \in Bidder : statuses[i] = Unset} = {}
  BY <1>2, FS_EmptySet DEF StatusInv
<1> QED BY <1>3

\* Answering a connect or a bid.
LEMMA AnswerTurn ==
  ASSUME TypeOK, TurnInv, NEW i \in Bidder, NEW m,
         NEW question, NEW answer,
         <<question, answer>> \in {<<"CLIENT_CONNECT", "SERVER_CONNECTION_ESTABLISHED">>,
                                  <<"CLIENT_BID", "SERVER_BID_RESULT">>},
         m.message_id = answer,
         Reads(i, question), Writes(i, m),
         UNCHANGED <<count, pfd, reaping, bidders>>
  PROVE  TurnInv'
<1> USE DEF count, reaping, bidders, TurnInv
<1>1. /\ message' = ReadMessage(i) /\ message'.message_id = question
      /\ request' = [request EXCEPT ![i] = <<>>]
      /\ spc = "serve" /\ i \in ready /\ Gone' = Gone
      /\ UNCHANGED <<statuses, n_of_active_bidder, pfd, at, bpc>>
  BY DEF Reads, Serves, Gone
<1>2. MessageInv' /\ ActiveInv'
  BY <1>1 DEF MessageInv, ActiveInv
<1>3. CASE Gone
  <2>1. spc' = "killed" /\ UNCHANGED <<ready, reply>>
    BY <1>3 DEF Writes
  <2>2. OneAnswer'
    BY <1>1, <1>3 DEF OneAnswer, InTurn, Gone
  <2>3. RequestInv'
    BY <1>1, <2>1 DEF RequestInv, TypeOK
  <2>4. LoopInv' /\ ReadyInv' /\ AnnounceInv' /\ OverInv'
    BY <2>1 DEF LoopInv, ReadyInv, AnnounceInv, OverInv
  <2> QED BY <1>2, <2>2, <2>3, <2>4
<1>4. CASE ~Gone
  <2>1. /\ request[i] # <<>> /\ Len(request[i]) = 1 /\ request[i][1].message_id = question
        /\ reply[i] = <<>> /\ statuses[i] = Unset
    BY <1>1, <1>4 DEF ReadyInv, RequestInv, ReadMessage
  <2>2. /\ reply' = [reply EXCEPT ![i] = Append(@, m)]
        /\ ready' = ready \ {i} /\ spc' \in {"poll", "serve"}
    BY <1>4 DEF Writes, Served
  <2>3. /\ request'[i] = <<>> /\ reply'[i] # <<>> /\ Len(reply'[i]) = 1
        /\ reply'[i][1].message_id = answer
    BY <1>1, <2>1, <2>2 DEF TypeOK
  <2>4. \A j \in Bidder : j # i => UNCHANGED <<request[j], reply[j]>>
    BY <1>1, <2>2 DEF TypeOK
  <2>5. OneAnswer'
    <3>1. InTurn(i)'
      BY <1>1, <2>1, <2>3 DEF OneAnswer, InTurn, Awaits, Holds
    <3>2. ASSUME NEW j \in Bidder, j # i PROVE InTurn(j)'
      <4>1. InTurn(j) /\ UNCHANGED <<request[j], bpc[j], reply[j]>>
        BY <1>1, <2>4, <3>2 DEF OneAnswer
      <4> QED BY <4>1 DEF InTurn, Awaits, Holds
    <3> QED BY <3>1, <3>2 DEF OneAnswer
  <2>6. RequestInv'
    BY <1>1, <2>3, <2>4 DEF RequestInv
  <2>7. LoopInv'
    BY <1>1, <2>1, <2>3, <2>4 DEF LoopInv
  <2>8. ReadyInv'
    BY <1>1, <2>2, <2>4 DEF ReadyInv, TypeOK
  <2>9. AnnounceInv' /\ OverInv'
    BY <2>2 DEF AnnounceInv, OverInv
  <2> QED BY <1>2, <2>5, <2>6, <2>7, <2>8, <2>9
<1> QED BY <1>3, <1>4

\* A bidder that is counted as finished was not before.
LEMMA FinishedOnce ==
  ASSUME TypeOK, TurnInv, NEW i \in Bidder, ServeFinished(i)
  PROVE  /\ statuses[i] = Unset
         /\ statuses' = [statuses EXCEPT ![i] = ReadMessage(i).params]
         /\ ReadMessage(i).params \in Nat
         /\ bpc[i] \in {"waiting", "exited", "reaped"}
<1> USE DEF TurnInv
<1>1. /\ Serves(i) /\ ~EndOfFile(i) /\ ReadMessage(i).message_id = "CLIENT_FINISHED"
      /\ statuses' = [statuses EXCEPT ![i] = ReadMessage(i).params]
  BY DEF ServeFinished, Reads
<1>2. statuses[i] = Unset
  BY <1>1 DEF Serves, EndOfFile, RequestInv, LoopInv
<1>3. ReadMessage(i).params \in Nat
  BY <1>1 DEF ReadMessage, RequestInv, MessageInv
<1>4. bpc[i] \in {"waiting", "exited", "reaped"}
  <2>1. CASE request[i] = <<>>
    BY <1>1, <2>1 DEF Serves, ReadyInv, Gone
  <2>2. CASE request[i] # <<>>
    <3>1. request[i][1].message_id = "CLIENT_FINISHED"
      BY <1>1, <2>2 DEF ReadMessage
    <3>2. bpc[i] \in Stages /\ InTurn(i)
      BY DEF TypeOK, OneAnswer
    <3> QED BY <2>2, <3>1, <3>2 DEF InTurn, Awaits, Holds, Stages
  <2> QED BY <2>1, <2>2
<1> QED BY <1>1, <1>2, <1>3, <1>4
LEMMA FinishedTurn ==
  ASSUME TypeOK, TurnInv, NEW i \in Bidder, ServeFinished(i)
  PROVE  TurnInv'
<1> USE DEF bids, reaping, bidders, TurnInv
<1>1. /\ message' = ReadMessage(i) /\ message'.message_id = "CLIENT_FINISHED"
      /\ request' = [request EXCEPT ![i] = <<>>] /\ reply' = [reply EXCEPT ![i] = <<>>]
      /\ spc = "serve" /\ spc' \in {"poll", "serve"} /\ ready' = ready \ {i}
      /\ Gone' = Gone /\ UNCHANGED <<pfd, at, bpc>>
  BY DEF ServeFinished, Reads, Serves, Served, Gone
<1>2. /\ statuses' = [statuses EXCEPT ![i] = ReadMessage(i).params]
      /\ ReadMessage(i).params \in Nat
      /\ bpc[i] \in {"waiting", "exited", "reaped"}
  BY FinishedOnce
<1>3. /\ request'[i] = <<>> /\ reply'[i] = <<>>
      /\ \A j \in Bidder : j # i => UNCHANGED <<request[j], reply[j], statuses[j]>>
  BY <1>1, <1>2 DEF TypeOK
<1>4. MessageInv'
  BY <1>1, <1>2 DEF MessageInv
<1>5. ActiveInv'
  BY <1>1, <1>2, <1>3 DEF ActiveInv
<1>6. OneAnswer'
  <2>1. InTurn(i)'
    BY <1>1, <1>2, <1>3 DEF InTurn
  <2>2. ASSUME NEW j \in Bidder, j # i PROVE InTurn(j)'
    <3>1. InTurn(j) /\ UNCHANGED <<request[j], bpc[j], reply[j]>>
      BY <1>1, <1>3, <2>2 DEF OneAnswer
    <3> QED BY <3>1 DEF InTurn, Awaits, Holds
  <2> QED BY <2>1, <2>2 DEF OneAnswer
<1>7. RequestInv'
  BY <1>3 DEF RequestInv
<1>8. LoopInv'
  BY <1>1, <1>3 DEF LoopInv
<1>9. ReadyInv'
  BY <1>1, <1>3 DEF ReadyInv, TypeOK
<1>10. AnnounceInv' /\ OverInv'
  BY <1>1 DEF AnnounceInv, OverInv
<1> QED BY <1>4, <1>5, <1>6, <1>7, <1>8, <1>9, <1>10

LEMMA AnnounceTurn ==
  ASSUME TypeOK, TurnInv, StatusInv, Announce
  PROVE  TurnInv'
<1> USE DEF bids, count, bidders, TurnInv
<1>1. /\ UNCHANGED <<request, statuses, message, ready, bpc, pfd, n_of_active_bidder>>
      /\ spc = "announce" /\ at \in Bidder /\ spc' \in {"killed", "reap", "announce"}
  BY DEF Announce, TypeOK
<1>2. MessageInv' /\ ActiveInv' /\ OverInv'
  BY <1>1 DEF MessageInv, ActiveInv, OverInv
<1>3. LoopInv' /\ ReadyInv'
  BY <1>1 DEF LoopInv, ReadyInv
<1>4. CASE UNCHANGED reply
  <2>1. OneAnswer' /\ RequestInv'
    BY <1>1, <1>4 DEF OneAnswer, InTurn, Awaits, Holds, RequestInv
  <2>2. AnnounceInv'
    <3>1. spc' = "announce" => at' = at + 1
      BY DEF Announce, Following
    <3> QED BY <1>1, <1>4, <3>1, BidderInt DEF AnnounceInv
  <2> QED BY <1>2, <1>3, <2>1, <2>2
<1>5. CASE ~UNCHANGED reply
  <2>1. /\ at \in pfd
        /\ reply' = [reply EXCEPT ![at] = Append(@, Server("SERVER_AUCTION_FINISHED",
                                                          winner_bidder_id, curr_bid))]
        /\ spc' = "announce" => at' = at + 1
    BY <1>5 DEF Announce, Following
  <2>2. \A i \in Bidder : statuses[i] # Unset
    BY <1>1, <2>1, CountZero DEF OverInv
  <2>3. \A i \in Bidder : request[i] = <<>>
    BY <2>2 DEF RequestInv
  <2>4. bpc[at] = "waiting" => reply[at] = <<>>
    BY <1>1, BidderInt DEF AnnounceInv
  <2>5. \A j \in Bidder : j # at => UNCHANGED reply[j]
    BY <2>1 DEF TypeOK
  <2>6. bpc[at] = "waiting" => Holds(reply'[at], "SERVER_AUCTION_FINISHED")
    BY <1>1, <2>1, <2>4 DEF Holds, Server, TypeOK
  <2>7. OneAnswer'
    <3>1. PICK k \in Bidder : k = at
      BY <1>1
    <3>2. InTurn(k)'
      <4>1. bpc[k] \in {"waiting", "exited", "reaped"}
        BY <1>1, <2>2, <3>1 DEF ActiveInv, TypeOK, Stages
      <4>2. bpc'[k] = bpc[k] /\ request'[k] = <<>>
        BY <1>1, <2>3
      <4>3. bpc[k] = "waiting" => Holds(reply'[k], "SERVER_AUCTION_FINISHED")
        BY <2>6, <3>1
      <4> QED BY <4>1, <4>2, <4>3 DEF InTurn, Awaits, Holds
    <3>3. ASSUME NEW j \in Bidder, j # k PROVE InTurn(j)'
      <4>1. InTurn(j) /\ UNCHANGED <<request[j], bpc[j], reply[j]>>
        BY <1>1, <2>5, <3>1, <3>3 DEF OneAnswer
      <4> QED BY <4>1 DEF InTurn, Awaits, Holds
    <3> QED BY <3>2, <3>3 DEF OneAnswer
  <2>8. RequestInv'
    BY <1>1, <2>3 DEF RequestInv
  <2>9. AnnounceInv'
    BY <1>1, <2>1, <2>5, BidderInt DEF AnnounceInv
  <2> QED BY <1>2, <1>3, <2>7, <2>8, <2>9
<1> QED BY <1>4, <1>5

LEMMA ServerTurn ==
  ASSUME TypeOK, TurnInv, StatusInv, ServerStep
  PROVE  TurnInv'
<1> USE DEF bids, count, reaping, bidders
<1>1. CASE Poll
  <2> USE DEF TurnInv
  <2>1. /\ UNCHANGED <<request, reply, statuses, message, bpc, pfd, n_of_active_bidder, at>>
        /\ spc = "poll" /\ spc' = "serve" /\ ready' = Readable /\ Gone' = Gone
    BY <1>1 DEF Poll, Gone
  <2>2. OneAnswer' /\ RequestInv' /\ MessageInv' /\ ActiveInv'
    BY <2>1 DEF OneAnswer, InTurn, Awaits, RequestInv, MessageInv, ActiveInv
  <2>3. ReadyInv'
    BY <2>1 DEF ReadyInv, Readable
  <2>4. LoopInv' /\ AnnounceInv' /\ OverInv'
    BY <2>1 DEF LoopInv, AnnounceInv, OverInv
  <2> QED BY <2>2, <2>3, <2>4
<1>2. CASE LoopEnds
  <2> USE DEF TurnInv
  <2>1. /\ UNCHANGED <<request, reply, statuses, message, bpc, pfd, n_of_active_bidder, at>>
        /\ spc = "poll" /\ spc' = "announce" /\ AuctionOver
    BY <1>2 DEF LoopEnds
  <2>2. OneAnswer' /\ RequestInv' /\ MessageInv' /\ ActiveInv'
    BY <2>1 DEF OneAnswer, InTurn, Awaits, RequestInv, MessageInv, ActiveInv
  <2>3. AnnounceInv'
    <3>1. ASSUME NEW i \in Bidder, bpc[i] = "waiting", reply[i] # <<>> PROVE FALSE
      <4>1. Holds(reply[i], "SERVER_AUCTION_FINISHED")
        BY <3>1 DEF OneAnswer, InTurn, Awaits
      <4> QED BY <2>1, <3>1, <4>1 DEF LoopInv, Holds
    <3> QED BY <2>1, <3>1 DEF AnnounceInv
  <2>4. LoopInv' /\ ReadyInv' /\ OverInv'
    BY <2>1 DEF LoopInv, ReadyInv, OverInv, AuctionOver
  <2> QED BY <2>2, <2>3, <2>4
<1>3. CASE Reap
  <2> USE DEF TurnInv
  <2>1. PICK k \in Bidder : bpc[k] = "exited" /\ bpc' = [bpc EXCEPT ![k] = "reaped"]
    BY <1>3 DEF Reap, Moves
  <2>2. /\ UNCHANGED <<request, reply, statuses, message, pfd, n_of_active_bidder, ready>>
        /\ spc = "reap" /\ spc' \in {"reap", "done"}
    BY <1>3 DEF Reap
  <2>3. \A i \in Bidder : bpc'[i] = bpc[i] \/ bpc'[i] = "reaped"
    BY <2>1 DEF TypeOK
  <2>4. OneAnswer'
    BY <2>2, <2>3 DEF OneAnswer, InTurn, Awaits, Holds
  <2>5. RequestInv' /\ MessageInv' /\ ActiveInv'
    BY <2>2, <2>3 DEF RequestInv, MessageInv, ActiveInv
  <2>6. LoopInv' /\ ReadyInv' /\ AnnounceInv' /\ OverInv'
    BY <2>2 DEF LoopInv, ReadyInv, AnnounceInv, OverInv
  <2> QED BY <2>4, <2>5, <2>6
<1>4. ASSUME NEW i \in Bidder, ServeEndOfFile(i) PROVE TurnInv'
  <2> USE DEF TurnInv
  <2>1. /\ UNCHANGED <<request, reply, statuses, message, bpc, n_of_active_bidder, at>>
        /\ spc = "serve" /\ spc' \in {"poll", "serve"} /\ ready' = ready \ {i} /\ Gone' = Gone
    BY <1>4 DEF ServeEndOfFile, Serves, Served, Gone
  <2>2. OneAnswer' /\ RequestInv' /\ MessageInv' /\ ActiveInv'
    BY <2>1 DEF OneAnswer, InTurn, Awaits, RequestInv, MessageInv, ActiveInv
  <2>3. LoopInv' /\ ReadyInv' /\ AnnounceInv' /\ OverInv'
    BY <2>1 DEF LoopInv, ReadyInv, AnnounceInv, OverInv
  <2> QED BY <2>2, <2>3
<1>5. ASSUME NEW i \in Bidder, ServeConnect(i) PROVE TurnInv'
  <2>1. PICK m : m = Server("SERVER_CONNECTION_ESTABLISHED", i, curr_bid) /\ Writes(i, m)
    BY <1>5 DEF ServeConnect
  <2>2. m.message_id = "SERVER_CONNECTION_ESTABLISHED"
    BY <2>1 DEF Server
  <2>3. Reads(i, "CLIENT_CONNECT") /\ UNCHANGED <<count, pfd, reaping, bidders>>
    BY <1>5 DEF ServeConnect
  <2> QED BY <2>1, <2>2, <2>3, AnswerTurn
<1>6. ASSUME NEW i \in Bidder, ServeBid(i) PROVE TurnInv'
  <2>1. PICK result \in Results(ReadMessage(i).params) :
               Writes(i, Server("SERVER_BID_RESULT", result, curr_bid'))
    BY <1>6 DEF ServeBid
  <2>2. Server("SERVER_BID_RESULT", result, curr_bid').message_id = "SERVER_BID_RESULT"
    BY DEF Server
  <2>3. Reads(i, "CLIENT_BID") /\ UNCHANGED <<count, pfd, reaping, bidders>>
    BY <1>6 DEF ServeBid
  <2> QED BY <2>1, <2>2, <2>3, AnswerTurn
<1> QED BY <1>1, <1>2, <1>3, <1>4, <1>5, <1>6, FinishedTurn, AnnounceTurn DEF ServerStep, Serve
-----------------------------------------------------------------------------
(* The counter.                                                            *)

Unfinished == {i \in Bidder : statuses[i] = Unset}

LEMMA CountInit == Init => StatusInv
<1> SUFFICES ASSUME Init PROVE StatusInv
  OBVIOUS
<1>1. NumBidders \in Nat /\ NumBidders - 1 \in Int
  BY ConstantsAssumption
<1>2. Cardinality(0 .. NumBidders - 1) =
        IF 0 > NumBidders - 1 THEN 0 ELSE (NumBidders - 1) - 0 + 1
  BY <1>1, FS_Interval
<1>3. Cardinality(Bidder) = NumBidders
  BY <1>1, <1>2, ConstantsAssumption DEF Bidder
<1>4. {i \in Bidder : statuses[i] = Unset} = Bidder
  BY DEF Init
<1> QED BY <1>3, <1>4 DEF Init, StatusInv

LEMMA CountStep ==
  ASSUME TypeOK, TurnInv, StatusInv, [Next]_vars
  PROVE  StatusInv'
<1> USE DEF vars, server, bids, count, reaping, bidders
<1>1. ASSUME NEW i \in Bidder, ServeFinished(i) PROVE StatusInv'
  <2>1. /\ statuses[i] = Unset /\ ReadMessage(i).params \in Nat
        /\ statuses' = [statuses EXCEPT ![i] = ReadMessage(i).params]
        /\ n_of_active_bidder' = n_of_active_bidder - 1
    BY <1>1, FinishedOnce DEF ServeFinished
  <2>2. Unfinished' = Unfinished \ {i} /\ i \in Unfinished
    <3>1. ReadMessage(i).params # Unset
      BY <2>1 DEF Unset
    <3>2. statuses'[i] # Unset /\ \A j \in Bidder : j # i => statuses'[j] = statuses[j]
      BY <2>1, <3>1 DEF TypeOK
    <3> QED BY <2>1, <3>2 DEF Unfinished
  <2>3. IsFiniteSet(Unfinished)
    <3>1. IsFiniteSet(Bidder)
      BY ConstantsAssumption, FS_Interval DEF Bidder
    <3> QED BY <3>1, FS_Subset DEF Unfinished
  <2> QED BY <2>1, <2>2, <2>3, FS_RemoveElement DEF StatusInv, Unfinished
<1>2. CASE \A i \in Bidder : ~ServeFinished(i)
  <2>1. UNCHANGED <<n_of_active_bidder, statuses>>
    BY <1>2 DEF Next, ServerStep, Serve, BidderStep, Terminated, Poll, LoopEnds, Announce, Reap,
         ServeEndOfFile, ServeConnect, ServeBid, Connect, PlaceBid, Withdraw, Hear, Die
  <2> QED BY <2>1 DEF StatusInv
<1> QED BY <1>1, <1>2

LEMMA AnnouncedStep ==
  ASSUME TypeOK, TurnInv, AnnouncedInv, [Next]_vars
  PROVE  AnnouncedInv'
<1> USE DEF vars, server, bids, count, reaping, bidders
<1>1. ~Gone' => ~Gone
  <2>1. ASSUME NEW i \in Bidder, bpc[i] \in {"exited", "reaped"}
        PROVE  bpc'[i] \in {"exited", "reaped"}
    BY <2>1 DEF TypeOK, Next, ServerStep, Serve, BidderStep, Terminated, Poll, LoopEnds, Announce,
       Reap, Moves, ServeEndOfFile, ServeConnect, ServeBid, ServeFinished, Connect, PlaceBid,
       Withdraw, Hear, Die
  <2> QED BY <2>1 DEF Gone
<1>2. ASSUME NEW i \in Bidder, ServeFinished(i) PROVE AnnouncedInv'
  <2>1. /\ ReadMessage(i).params # Unset
        /\ statuses' = [statuses EXCEPT ![i] = ReadMessage(i).params]
    BY <1>2, FinishedOnce DEF Unset
  <2>2. \A j \in Bidder : statuses'[j] = IF j = i THEN ReadMessage(i).params ELSE statuses[j]
    BY <2>1 DEF TypeOK
  <2>3. announced' = IF request[i] # <<>> THEN announced \cup {i} ELSE announced
    BY <1>2 DEF ServeFinished
  <2>4. ~Gone => request[i] # <<>>
    BY <1>2 DEF ServeFinished, Reads, Serves, TurnInv, ReadyInv
  <2>5. announced \subseteq Bidder
    BY DEF TypeOK
  <2> QED BY <1>1, <2>1, <2>2, <2>3, <2>4, <2>5 DEF AnnouncedInv
<1>3. CASE \A i \in Bidder : ~ServeFinished(i)
  <2>1. UNCHANGED <<announced, statuses>>
    BY <1>3 DEF Next, ServerStep, Serve, BidderStep, Terminated, Poll, LoopEnds, Announce, Reap,
         ServeEndOfFile, ServeConnect, ServeBid, Connect, PlaceBid, Withdraw, Hear, Die
  <2> QED BY <1>1, <2>1 DEF AnnouncedInv
<1> QED BY <1>2, <1>3

-----------------------------------------------------------------------------
(* All together, and what follows from them.                               *)

IInv == TypeOK /\ TurnInv /\ StatusInv /\ AnnouncedInv

LEMMA InductiveInit == Init => IInv
<1>1. Init => AnnouncedInv
  BY DEF Init, AnnouncedInv
<1> QED BY <1>1, InitType, InitTurn, CountInit DEF IInv

LEMMA InductiveStep ==
  ASSUME IInv, [Next]_vars
  PROVE  IInv'
<1> USE DEF IInv
<1>1. CASE ServerStep
  BY <1>1, ServerStepType, ServerTurn, CountStep, AnnouncedStep
<1>2. ASSUME NEW i \in Bidder, BidderStep(i) PROVE IInv'
  BY <1>2, BidderStepType, BidderTurn, CountStep, AnnouncedStep
<1>3. CASE UNCHANGED vars
  <2> USE <1>3 DEF vars, server, bids, count, reaping, bidders
  <2>1. TypeOK'
    BY DEF TypeOK
  <2>2. OneAnswer' /\ RequestInv' /\ MessageInv' /\ ActiveInv'
    BY DEF TurnInv, OneAnswer, InTurn, Awaits, Holds, RequestInv, MessageInv, ActiveInv
  <2>3. LoopInv' /\ ReadyInv' /\ AnnounceInv' /\ OverInv'
    BY DEF TurnInv, LoopInv, ReadyInv, Gone, AnnounceInv, OverInv
  <2> QED BY <2>1, <2>2, <2>3, CountStep, AnnouncedStep DEF TurnInv
<1> QED BY <1>1, <1>2, <1>3 DEF Next, Terminated

LEMMA Inductive == Spec => []IInv
<1>1. IInv /\ [Next]_vars => IInv'
  BY InductiveStep
<1> QED BY InductiveInit, <1>1, PTL DEF Spec

\* Every variable keeps its type, whatever ends the bidders (lines 27-45).
THEOREM Typing == Spec => []TypeOK
<1>1. IInv => TypeOK
  BY DEF IInv
<1> QED BY Inductive, <1>1, PTL

\* A bidder is sent one answer for each request and it is the answer to that
\* request, whoever else bids, stops or dies meanwhile (lines 53-163).
THEOREM Answers == Spec => []OneAnswer
<1>1. IInv => OneAnswer
  BY DEF IInv, TurnInv
<1> QED BY Inductive, <1>1, PTL

\* While a bidder lives, the counter that ends the auction is the number of
\* bidders whose own CLIENT_FINISHED has not been read (lines 59, 137, 144).
THEOREM CountCorrect == Spec => []CountInv
<1>1. IInv => CountInv
  <2> SUFFICES ASSUME IInv, ~Gone PROVE n_of_active_bidder = Cardinality(Bidder \ announced)
    BY DEF CountInv
  <2>1. {i \in Bidder : statuses[i] = Unset} = Bidder \ announced
    BY DEF IInv, AnnouncedInv
  <2> QED BY <2>1 DEF IInv, StatusInv
<1> QED BY Inductive, <1>1, PTL

-----------------------------------------------------------------------------
(* Who leads.                                                              *)

LEMMA AppendHead ==
  ASSUME NEW socket \in Seq(ServerMessage), NEW m \in ServerMessage
  PROVE  /\ Append(socket, m) # <<>>
         /\ Append(socket, m)[1] = IF socket = <<>> THEN m ELSE socket[1]
<1>1. CASE socket = <<>>
  BY <1>1
<1>2. CASE socket # <<>>
  <2>1. Len(socket) \in Nat /\ Len(socket) # 0
    BY <1>2
  <2>2. Append(socket, m)[1] = socket[1] /\ Len(Append(socket, m)) = Len(socket) + 1
    BY <2>1
  <2> QED BY <1>2, <2>1, <2>2
<1> QED BY <1>1, <1>2

\* A bid that i has been told is accepted: below the price, or the price of
\* the winner i.
Fits(i, bid) ==
  bid <= curr_bid /\ (bid = curr_bid /\ curr_bid # StartingBid => winner_bidder_id = i)

BestFits(i) ==
  /\ Fits(i, mine[i])
  /\ reply[i] # <<>> /\ Accepted(reply[i][1]) => Fits(i, reply[i][1].bid)

LeadInv == curr_bid >= StartingBid /\ \A i \in Bidder : BestFits(i)

LEMMA LeadInit == Init => LeadInv
BY ConstantsAssumption DEF Init, LeadInv, BestFits, Fits

LEMMA LeadImplies == LeadInv => LeaderInv
BY DEF LeadInv, BestFits, Fits, LeaderInv, Best

\* With a minimum increment the result is always assigned, and an accepted bid
\* is above the price.
LEMMA ResultsAssigned ==
  ASSUME MinimumIncrement > 0, TypeOK, NEW bid \in Int
  PROVE  /\ Outbids(bid) => bid > curr_bid /\ bid >= StartingBid
         /\ ~Outbids(bid) => BID_ACCEPTED \notin Results(bid)
         /\ Results(bid) \subseteq Int
<1> USE DEF BID_ACCEPTED, BID_LOWER_THAN_STARTING_BID, BID_LOWER_THAN_CURRENT,
            BID_INCREMENT_LOWER_THAN_MINIMUM
<1>1. curr_bid \in Int /\ MinimumIncrement \in Int /\ StartingBid \in Int
  BY ConstantsAssumption DEF TypeOK
<1>2. CASE bid >= StartingBid /\ bid >= curr_bid /\ bid - curr_bid >= MinimumIncrement
  <2>1. bid > curr_bid
    BY <1>1, <1>2
  <2>2. Results(bid) = {0}
    BY <1>1, <1>2, <2>1 DEF Results
  <2> QED BY <1>2, <2>1, <2>2 DEF Outbids
<1>3. CASE bid < StartingBid \/ bid < curr_bid \/ bid - curr_bid < MinimumIncrement
  <2>1. Results(bid) \in {{1}, {2}, {3}}
    BY <1>1, <1>3 DEF Results
  <2> QED BY <2>1 DEF Outbids
<1> QED BY <1>1, <1>2, <1>3

LEMMA LeadBid ==
  ASSUME MinimumIncrement > 0, TypeOK, LeadInv, NEW i \in Bidder, ServeBid(i)
  PROVE  LeadInv'
<1> DEFINE bid == ReadMessage(i).params
<1>1. bid \in Int
  BY ReadType
<1>2. PICK result \in Results(bid) : Writes(i, Server("SERVER_BID_RESULT", result, curr_bid'))
  BY DEF ServeBid
<1> DEFINE answer == Server("SERVER_BID_RESULT", result, curr_bid')
<1>3. /\ UNCHANGED mine
      /\ curr_bid' = IF Outbids(bid) THEN bid ELSE curr_bid
      /\ winner_bidder_id' = IF Outbids(bid) THEN i ELSE winner_bidder_id
  BY DEF ServeBid, bidders
<1> HIDE DEF bid
<1>0. /\ curr_bid \in Int
      /\ Outbids(bid) => bid > curr_bid /\ bid >= StartingBid
      /\ result = BID_ACCEPTED => Outbids(bid)
      /\ result \in Int
  BY <1>1, ResultsAssigned DEF TypeOK
<1>4. curr_bid' \in Int /\ curr_bid' >= StartingBid
  BY <1>0, <1>1, <1>3 DEF LeadInv
<1>5. PICK m \in ServerMessage : m = answer
  BY <1>0, <1>4 DEF Server, ServerMessage
<1> HIDE DEF answer
<1>6. ASSUME NEW j \in Bidder, NEW b \in Int, Fits(j, b) PROVE Fits(j, b)'
  BY <1>0, <1>1, <1>3, <1>6 DEF Fits
<1>7. ASSUME Accepted(m) PROVE m.bid = curr_bid' /\ winner_bidder_id' = i
  BY <1>0, <1>3, <1>5, <1>7 DEF Accepted, Server, answer
<1>8. ASSUME NEW j \in Bidder PROVE BestFits(j)'
  <2>1. Fits(j, mine[j])'
    <3>1. mine[j] \in Int /\ Fits(j, mine[j])
      BY DEF LeadInv, BestFits, TypeOK
    <3>2. PICK b \in Int : b = mine[j]
      BY <3>1
    <3>3. Fits(j, b)'
      BY <1>6, <3>1, <3>2
    <3> QED BY <1>3, <3>2, <3>3 DEF Fits
  <2>2. ASSUME reply[j] # <<>>, reply'[j][1] = reply[j][1] PROVE BestFits(j)'
    <3>1. reply[j][1] \in ServerMessage
      <4>1. reply[j] \in Seq(ServerMessage)
        BY DEF TypeOK
      <4> QED BY <2>2, <4>1
    <3>2. PICK b \in Int : b = reply[j][1].bid
      BY <3>1 DEF ServerMessage
    <3>3. Accepted(reply[j][1]) => Fits(j, b)
      BY <2>2, <3>2 DEF LeadInv, BestFits
    <3>4. Accepted(reply[j][1]) => Fits(j, b)'
      BY <1>6, <3>3
    <3> QED BY <2>1, <2>2, <3>2, <3>4 DEF BestFits, Accepted, Fits
  <2>3. \/ reply'[j] = reply[j]
        \/ j = i /\ reply'[j] = Append(reply[j], m)
    BY <1>2, <1>5 DEF Writes, TypeOK, answer
  <2>4. reply[j] \in Seq(ServerMessage)
    BY DEF TypeOK
  <2>5. CASE reply'[j] = reply[j]
    BY <2>1, <2>2, <2>5 DEF BestFits
  <2>6. CASE j = i /\ reply'[j] = Append(reply[j], m) /\ reply[j] # <<>>
    <3>1. reply'[j][1] = reply[j][1]
      BY <1>5, <2>4, <2>6, AppendHead
    <3> QED BY <2>2, <2>6, <3>1
  <2>7. CASE j = i /\ reply'[j] = Append(reply[j], m) /\ reply[j] = <<>>
    <3>1. reply'[j][1] = m
      BY <1>5, <2>4, <2>7, AppendHead
    <3> QED BY <1>4, <1>7, <2>1, <2>7, <3>1 DEF BestFits, Fits, Accepted
  <2> QED BY <2>3, <2>5, <2>6, <2>7
<1> QED BY <1>4, <1>8 DEF LeadInv

LEMMA LeadStep ==
  ASSUME MinimumIncrement > 0, TypeOK, LeadInv, [Next]_vars
  PROVE  LeadInv'
<1> USE DEF vars, server, bids, count, reaping, bidders
<1>1. ASSUME NEW i \in Bidder, ServeBid(i) PROVE LeadInv'
  BY <1>1, LeadBid
<1>2. ASSUME NEW i \in Bidder, Hear(i) PROVE LeadInv'
  <2>1. UNCHANGED bids /\ reply' = [reply EXCEPT ![i] = <<>>] /\ reply[i] # <<>>
    BY <1>2 DEF Hear
  <2>2. mine' = mine \/ (Accepted(reply[i][1]) /\ mine' = [mine EXCEPT ![i] = reply[i][1].bid])
    BY <1>2 DEF Hear
  <2> QED BY <2>1, <2>2 DEF LeadInv, BestFits, Fits, TypeOK
<1>3. CASE /\ UNCHANGED <<bids, mine>>
           /\ \A j \in Bidder : reply'[j] # <<>> /\ Accepted(reply'[j][1]) =>
                                 reply[j] # <<>> /\ reply[j][1] = reply'[j][1]
  BY <1>3 DEF LeadInv, BestFits, Fits
<1>4. ASSUME NEW m \in ServerMessage, ~Accepted(m), NEW k \in Bidder,
             reply' = [reply EXCEPT ![k] = Append(@, m)], UNCHANGED <<bids, mine>>
      PROVE  LeadInv'
  <2>1. ASSUME NEW j \in Bidder, reply'[j] # <<>>, Accepted(reply'[j][1])
        PROVE  reply[j] # <<>> /\ reply[j][1] = reply'[j][1]
    <3>1. reply[j] \in Seq(ServerMessage)
      BY DEF TypeOK
    <3>2. reply'[j] = reply[j] \/ reply'[j] = Append(reply[j], m)
      BY <1>4 DEF TypeOK
    <3>3. CASE reply'[j] = reply[j]
      BY <2>1, <3>3
    <3>4. CASE reply'[j] = Append(reply[j], m)
      <4>1. reply'[j][1] = IF reply[j] = <<>> THEN m ELSE reply[j][1]
        BY <1>4, <3>1, <3>4, AppendHead
      <4> QED BY <1>4, <2>1, <4>1
    <3> QED BY <3>2, <3>3, <3>4
  <2> QED BY <1>3, <1>4, <2>1
<1>5. ASSUME NEW i \in Bidder, ServeConnect(i) PROVE LeadInv'
  <2> DEFINE m == Server("SERVER_CONNECTION_ESTABLISHED", i, curr_bid)
  <2>1. m \in ServerMessage /\ ~Accepted(m)
    BY BidderInt DEF Server, ServerMessage, Accepted, TypeOK
  <2>2. UNCHANGED <<bids, mine>> /\ Writes(i, m)
    BY <1>5 DEF ServeConnect
  <2> HIDE DEF m
  <2> QED BY <1>3, <1>4, <2>1, <2>2 DEF Writes
<1>6. CASE Announce
  <2> DEFINE m == Server("SERVER_AUCTION_FINISHED", winner_bidder_id, curr_bid)
  <2>1. m \in ServerMessage /\ ~Accepted(m)
    BY BidderInt DEF Server, ServerMessage, Accepted, TypeOK
  <2>2. UNCHANGED <<bids, mine>> /\ (reply' = reply \/ reply' = [reply EXCEPT ![at] = Append(@, m)])
    BY <1>6 DEF Announce
  <2>3. at \in Bidder
    BY DEF TypeOK
  <2> HIDE DEF m
  <2> QED BY <1>3, <1>4, <2>1, <2>2, <2>3
<1>7. ASSUME NEW i \in Bidder, ServeFinished(i) PROVE LeadInv'
  BY <1>3, <1>7 DEF ServeFinished, TypeOK
<1>8. CASE UNCHANGED <<bids, mine, reply>>
  BY <1>3, <1>8
<1>9. ASSUME NEW i \in Bidder, Connect(i) \/ PlaceBid(i) \/ Withdraw(i) \/ Die(i) \/ ServeEndOfFile(i)
      PROVE  LeadInv'
  BY <1>8, <1>9 DEF Connect, PlaceBid, Withdraw, Die, ServeEndOfFile
<1>10. CASE Poll \/ LoopEnds \/ Reap \/ Terminated \/ UNCHANGED vars
  BY <1>8, <1>10 DEF Poll, LoopEnds, Reap, Terminated
<1> QED BY <1>1, <1>2, <1>5, <1>6, <1>7, <1>9, <1>10 DEF Next, ServerStep, Serve, BidderStep

\* No accepted bid is above the price and nobody but the winner has bid it, for
\* any bids, provided bidders have to raise: with a minimum increment of 0 an
\* equal bid is answered with an unassigned result (lines 111-126).
THEOREM LeaderCorrect ==
  ASSUME MinimumIncrement > 0
  PROVE  Spec => []LeaderInv
<1>1. IInv /\ LeadInv /\ [Next]_vars => LeadInv'
  BY LeadStep DEF IInv
<1> QED BY Inductive, LeadInit, LeadImplies, <1>1, PTL DEF Spec

-----------------------------------------------------------------------------
(* The auction it implements.                                              *)

Active == pfd \ announced
ToldAll == [i \in Bidder |-> Told(i)]

LEMMA AppendLast ==
  ASSUME NEW socket \in Seq(ServerMessage), NEW m \in ServerMessage
  PROVE  LET s == Append(socket, m) IN s # <<>> /\ s[Len(s)] = m
<1> DEFINE s == Append(socket, m)
<1>1. Len(socket) \in Nat /\ Len(s) = Len(socket) + 1 /\ s[Len(socket) + 1] = m
  OBVIOUS
<1>2. s # <<>>
  BY <1>1
<1> QED BY <1>1, <1>2

\* While the loop runs nobody has been sent the outcome.
LEMMA NotTold ==
  ASSUME TypeOK, TurnInv, NEW i \in Bidder, spc = "serve"
  PROVE  Told(i) = heard[i] /\ (request[i] # <<>> \/ reply[i] # <<>> => statuses[i] = Unset)
BY DEF TurnInv, LoopInv, RequestInv, Told

LEMMA ServiceInit == Init => Service!Init
BY DEF Init, Service!Init, Told

LEMMA StutterService ==
  ASSUME UNCHANGED <<bids, Active, ToldAll>>
  PROVE  UNCHANGED Service!vars
BY DEF Service!vars, bids, Active, ToldAll

\* An answer other than the outcome tells nobody.
LEMMA AnswerUntold ==
  ASSUME IInv, spc = "serve", NEW i \in Bidder, NEW m \in ServerMessage, Writes(i, m),
         m.message_id # "SERVER_AUCTION_FINISHED", UNCHANGED heard
  PROVE  UNCHANGED ToldAll
<1>1. CASE UNCHANGED reply
  BY <1>1 DEF ToldAll, Told
<1>2. CASE reply' = [reply EXCEPT ![i] = Append(@, m)]
  <2>1. ASSUME NEW j \in Bidder, j # i PROVE Told(j)' = Told(j)
    BY <1>2, <2>1 DEF Told, IInv, TypeOK
  <2>2. Told(i) = heard[i]
    BY NotTold DEF IInv
  <2>3. reply[i] \in Seq(ServerMessage) /\ reply'[i] = Append(reply[i], m)
    BY <1>2 DEF IInv, TypeOK
  <2>4. reply'[i][Len(reply'[i])] = m
    BY <2>3, AppendLast
  <2>5. Told(i)' = heard'[i]
    BY <2>4 DEF Told
  <2> QED BY <2>1, <2>2, <2>5 DEF ToldAll
<1> QED BY <1>1, <1>2 DEF Writes

LEMMA ConnectService ==
  ASSUME IInv, NEW i \in Bidder, ServeConnect(i)
  PROVE  UNCHANGED Service!vars
<1> DEFINE m == Server("SERVER_CONNECTION_ESTABLISHED", i, curr_bid)
<1>1. m \in ServerMessage /\ m.message_id # "SERVER_AUCTION_FINISHED"
  BY BidderInt DEF Server, ServerMessage, IInv, TypeOK
<1>2. Writes(i, m) /\ spc = "serve" /\ UNCHANGED <<bids, pfd, announced, heard>>
  BY DEF ServeConnect, Reads, Serves, bids, count, bidders
<1> HIDE DEF m
<1>3. UNCHANGED ToldAll
  BY <1>1, <1>2, AnswerUntold
<1> QED BY <1>2, <1>3, StutterService DEF Active

LEMMA BidService ==
  ASSUME IInv, NEW i \in Bidder, ServeBid(i)
  PROVE  Service!Offer(i) \/ UNCHANGED Service!vars
<1> DEFINE bid == ReadMessage(i).params
<1>1. bid \in Int /\ curr_bid \in Int /\ MinimumIncrement \in Int /\ StartingBid \in Int
  BY ReadType, ConstantsAssumption DEF IInv, TypeOK
<1>2. PICK result \in Results(bid) : Writes(i, Server("SERVER_BID_RESULT", result, curr_bid'))
  BY DEF ServeBid
<1>3. /\ UNCHANGED <<pfd, announced, heard>>
      /\ curr_bid' = IF Outbids(bid) THEN bid ELSE curr_bid
      /\ winner_bidder_id' = IF Outbids(bid) THEN i ELSE winner_bidder_id
      /\ spc = "serve" /\ i \in ready /\ ~EndOfFile(i)
  BY DEF ServeBid, Reads, Serves, count, bidders
<1> HIDE DEF bid
<1>4. UNCHANGED ToldAll
  <2>1. result \in Int /\ curr_bid' \in Int
    BY <1>1, <1>3 DEF Results, BID_ACCEPTED, BID_LOWER_THAN_STARTING_BID,
       BID_LOWER_THAN_CURRENT, BID_INCREMENT_LOWER_THAN_MINIMUM
  <2>2. PICK m \in ServerMessage : m = Server("SERVER_BID_RESULT", result, curr_bid')
    BY <2>1 DEF Server, ServerMessage
  <2>3. m.message_id # "SERVER_AUCTION_FINISHED"
    BY <2>2 DEF Server
  <2> QED BY <1>2, <1>3, <2>2, <2>3, AnswerUntold
<1>5. i \in Active
  BY <1>3, NotTold DEF Active, EndOfFile, IInv, TypeOK, AnnouncedInv
<1>6. CASE Outbids(bid)
  <2>1. bid > curr_bid /\ bid - curr_bid >= MinimumIncrement
    BY <1>1, <1>6 DEF Outbids, Results, BID_ACCEPTED, BID_LOWER_THAN_STARTING_BID,
       BID_LOWER_THAN_CURRENT, BID_INCREMENT_LOWER_THAN_MINIMUM
  <2> QED BY <1>1, <1>3, <1>4, <1>5, <1>6, <2>1 DEF Service!Offer, Active, ToldAll
<1>7. CASE ~Outbids(bid)
  BY <1>3, <1>4, <1>7, StutterService DEF bids, Active
<1> QED BY <1>6, <1>7

LEMMA LeaveService ==
  ASSUME IInv, NEW i \in Bidder, ServeEndOfFile(i) \/ ServeFinished(i)
  PROVE  Service!DropOut(i) \/ UNCHANGED Service!vars
<1> USE DEF bids, count, bidders
<1>1. UNCHANGED <<curr_bid, winner_bidder_id, heard>> /\ spc = "serve"
  BY DEF ServeEndOfFile, ServeFinished, Reads, Serves
<1>2. Active' \in {Active, Active \ {i}} /\ UNCHANGED ToldAll
  <2>1. CASE ServeEndOfFile(i)
    BY <2>1 DEF ServeEndOfFile, Active, ToldAll, Told
  <2>2. CASE ServeFinished(i)
    <3>1. /\ UNCHANGED pfd /\ reply' = [reply EXCEPT ![i] = <<>>]
          /\ announced' \in {announced, announced \cup {i}}
      BY <2>2 DEF ServeFinished
    <3>2. Active' \in {Active, Active \ {i}}
      BY <3>1 DEF Active
    <3>3. ASSUME NEW j \in Bidder PROVE Told(j)' = Told(j)
      <4>1. CASE j = i
        BY <1>1, <3>1, <4>1, NotTold DEF Told, IInv, TypeOK
      <4>2. CASE j # i
        BY <1>1, <3>1, <4>2 DEF Told, IInv, TypeOK
      <4> QED BY <4>1, <4>2
    <3> QED BY <3>2, <3>3 DEF ToldAll
  <2> QED BY <2>1, <2>2
<1>3. CASE Active' = Active \ {i}
  BY <1>1, <1>2, <1>3 DEF Service!DropOut, Active, ToldAll
<1>4. CASE Active' = Active
  BY <1>1, <1>2, <1>4, StutterService
<1> QED BY <1>2, <1>3, <1>4

LEMMA AnnounceService ==
  ASSUME IInv, Announce
  PROVE  (\E i \in Bidder : Service!Tell(i)) \/ UNCHANGED Service!vars
<1> USE DEF bids, count, bidders
<1>1. UNCHANGED <<curr_bid, winner_bidder_id, pfd, announced, heard>> /\ spc = "announce"
  BY DEF Announce
<1>2. CASE UNCHANGED reply
  <2>1. UNCHANGED ToldAll
    BY <1>1, <1>2 DEF ToldAll, Told
  <2> QED BY <1>1, <2>1, StutterService DEF Active
<1>3. CASE ~UNCHANGED reply
  <2>1. PICK k \in Bidder : k = at
    BY DEF IInv, TypeOK
  <2>2. PICK m \in ServerMessage :
               m = Server("SERVER_AUCTION_FINISHED", winner_bidder_id, curr_bid)
    BY BidderInt DEF Server, ServerMessage, IInv, TypeOK
  <2>3. k \in pfd /\ reply' = [reply EXCEPT ![k] = Append(@, m)]
    BY <1>3, <2>1, <2>2 DEF Announce
  <2>4. Active = {}
    <3>1. ~Gone
      BY <1>3 DEF Announce
    <3> QED BY <1>1, <2>3, <3>1, CountZero DEF IInv, TurnInv, OverInv, AnnouncedInv, Active, TypeOK
  <2>5. Told(k)' = <<winner_bidder_id, curr_bid>>
    <3>1. reply[k] \in Seq(ServerMessage) /\ reply'[k] = Append(reply[k], m)
      BY <2>3 DEF IInv, TypeOK
    <3>2. reply'[k] # <<>> /\ reply'[k][Len(reply'[k])] = m
      BY <3>1, AppendLast
    <3> QED BY <2>2, <3>2 DEF Told, Outcome, Server
  <2>6. ASSUME NEW j \in Bidder, j # k PROVE Told(j)' = Told(j)
    BY <1>1, <2>3, <2>6 DEF Told, IInv, TypeOK
  <2>7. ToldAll' = [ToldAll EXCEPT ![k] = <<winner_bidder_id, curr_bid>>]
    BY <2>5, <2>6 DEF ToldAll
  <2>8. Service!Tell(k)
    BY <1>1, <2>4, <2>7 DEF Service!Tell, Active, ToldAll
  <2> QED BY <2>8
<1> QED BY <1>2, <1>3

LEMMA HearService ==
  ASSUME IInv, NEW i \in Bidder, Hear(i)
  PROVE  UNCHANGED Service!vars
<1>1. /\ reply[i] # <<>> /\ reply' = [reply EXCEPT ![i] = <<>>]
      /\ UNCHANGED <<bids, pfd, announced>>
  BY DEF Hear, server, count
<1>2. ASSUME NEW j \in Bidder, j # i PROVE Told(j)' = Told(j)
  BY <1>1, <1>2 DEF Hear, Told, IInv, TypeOK
<1>3. Told(i)' = Told(i)
  <2>1. Told(i)' = heard'[i]
    BY <1>1 DEF Told, IInv, TypeOK
  <2>2. InTurn(i)
    BY DEF IInv, TurnInv, OneAnswer
  <2>3. CASE bpc[i] \in {"connecting", "awaiting"}
    <3>1. Len(reply[i]) = 1 /\ reply[i][1].message_id # "SERVER_AUCTION_FINISHED"
      BY <1>1, <2>2, <2>3 DEF InTurn, Awaits, Holds
    <3>2. UNCHANGED heard
      BY <2>3 DEF Hear, Moves
    <3> QED BY <2>1, <3>1, <3>2 DEF Told
  <2>4. CASE bpc[i] = "waiting"
    <3>1. Len(reply[i]) = 1 /\ reply[i][1].message_id = "SERVER_AUCTION_FINISHED"
      BY <1>1, <2>2, <2>4 DEF InTurn, Awaits, Holds
    <3>2. heard' = [heard EXCEPT ![i] = <<reply[i][1].info, reply[i][1].bid>>]
      BY <2>4 DEF Hear, Moves
    <3> QED BY <1>1, <2>1, <3>1, <3>2 DEF Told, Outcome, IInv, TypeOK
  <2> QED BY <2>3, <2>4 DEF Hear, Moves
<1>4. UNCHANGED ToldAll
  BY <1>2, <1>3 DEF ToldAll
<1> QED BY <1>1, <1>4, StutterService DEF Active

LEMMA ServiceStep ==
  ASSUME IInv, [Next]_vars
  PROVE  [Service!Next]_(Service!vars)
<1> USE DEF vars, server, bids, count, reaping, bidders
<1>1. ASSUME NEW i \in Bidder, Serve(i) PROVE [Service!Next]_(Service!vars)
  BY <1>1, ConnectService, BidService, LeaveService DEF Serve, Service!Next
<1>2. CASE Announce
  BY <1>2, AnnounceService DEF Service!Next
<1>3. ASSUME NEW i \in Bidder, Hear(i) PROVE [Service!Next]_(Service!vars)
  BY <1>3, HearService
<1>4. CASE UNCHANGED <<curr_bid, winner_bidder_id, pfd, announced, reply, heard>>
  <2>1. UNCHANGED <<bids, Active, ToldAll>>
    BY <1>4 DEF Active, ToldAll, Told
  <2> QED BY <2>1, StutterService
<1>5. ASSUME NEW i \in Bidder, Connect(i) \/ PlaceBid(i) \/ Withdraw(i) \/ Die(i)
      PROVE  [Service!Next]_(Service!vars)
  BY <1>4, <1>5 DEF Connect, PlaceBid, Withdraw, Die
<1>6. CASE Poll \/ LoopEnds \/ Reap \/ Terminated \/ UNCHANGED vars
  BY <1>4, <1>6 DEF Poll, LoopEnds, Reap, Terminated
<1> QED BY <1>1, <1>2, <1>3, <1>5, <1>6 DEF Next, ServerStep, BidderStep

\* The price only rises, by a bidder that takes part and by the minimum
\* increment, and all are told the same final outcome, nobody before all have
\* stopped (lines 47-163).
THEOREM Refinement == Spec => ImplementsService
<1>1. IInv /\ [Next]_vars => [Service!Next]_(Service!vars)
  BY ServiceStep
<1> QED BY Inductive, ServiceInit, <1>1, PTL DEF Spec, ImplementsService, Service!Spec

-----------------------------------------------------------------------------
(* The poll timeout, when nobody dies and no delay is 0.                   *)

ConnectedBidders == {k \in Bidder : Connected(k)}

\* A request to connect carries the delay of the bidder that waits for it.
DelayInv ==
  \A i \in Bidder : bpc[i] = "connecting" /\ request[i] # <<>> => request[i][1].params = Delay[i]

\* Nobody leaves before the outcome is announced.
StayInv == spc \in {"poll", "serve"} => \A i \in Bidder : bpc[i] \notin {"exited", "reaped"}

ShortestInv ==
  IF ConnectedBidders = {} THEN timeout = 0
  ELSE /\ \E k \in ConnectedBidders : timeout = Delay[k]
       /\ \A k \in ConnectedBidders : timeout <= Delay[k]

WaitInv == DelayInv /\ StayInv /\ ShortestInv

LEMMA WaitInit == Init => WaitInv
<1> SUFFICES ASSUME Init PROVE WaitInv
  OBVIOUS
<1>1. ConnectedBidders = {}
  BY DEF Init, ConnectedBidders, Connected
<1> QED BY <1>1 DEF Init, WaitInv, DelayInv, StayInv, ShortestInv

LEMMA WaitImplies == WaitInv => TimeoutInv
<1> SUFFICES ASSUME WaitInv PROVE TimeoutInv
  OBVIOUS
<1> DEFINE delays == {Delay[i] : i \in ConnectedBidders}
<1>1. TimeoutInv <=> timeout = IF delays = {} THEN 0 ELSE Min(delays)
  BY DEF TimeoutInv, ConnectedBidders
<1>2. CASE ConnectedBidders = {}
  BY <1>1, <1>2 DEF WaitInv, ShortestInv
<1>3. CASE ConnectedBidders # {}
  <2>1. timeout \in delays /\ \A d \in delays : timeout <= d
    BY <1>3 DEF WaitInv, ShortestInv
  <2>2. delays \subseteq Int
    BY ConstantsAssumption DEF ConnectedBidders
  <2> HIDE DEF delays
  <2>3. \A x \in delays : (\A d \in delays : x <= d) => x = timeout
    BY <2>1, <2>2
  <2>4. Min(delays) = timeout
    BY <2>1, <2>3, Zenon DEF Min
  <2> QED BY <1>1, <2>1, <2>4
<1> QED BY <1>2, <1>3

\* While the server serves, a request is served only to who has sent it.
LEMMA WhoAsks ==
  ASSUME IInv, WaitInv, NEW i \in Bidder, NEW id, Reads(i, id)
  PROVE  /\ request[i] # <<>> /\ reply[i] = <<>> /\ ~Gone
         /\ ReadMessage(i) = request[i][1] /\ request[i][1].message_id = id
         /\ id = "CLIENT_CONNECT" => bpc[i] = "connecting"
         /\ id # "CLIENT_CONNECT" => bpc[i] \notin {"start", "connecting"}
<1>1. spc = "serve" /\ i \in ready
  BY DEF Reads, Serves
<1>2. bpc[i] \notin {"exited", "reaped"}
  BY <1>1 DEF WaitInv, StayInv
<1>3. ~Gone
  BY <1>2 DEF Gone
<1>4. request[i] # <<>>
  BY <1>1, <1>3 DEF IInv, TurnInv, ReadyInv
<1>5. reply[i] = <<>>
  BY <1>4 DEF IInv, TurnInv, RequestInv
<1>6. ReadMessage(i) = request[i][1] /\ request[i][1].message_id = id
  BY <1>4 DEF Reads, ReadMessage
<1>7. InTurn(i) /\ bpc[i] \in Stages
  BY DEF IInv, TurnInv, OneAnswer, TypeOK
<1>8. /\ bpc[i] = "connecting" => id = "CLIENT_CONNECT"
      /\ bpc[i] \in {"awaiting", "waiting"} => id # "CLIENT_CONNECT"
      /\ bpc[i] \notin {"start", "bidding"}
  BY <1>4, <1>6, <1>7 DEF InTurn, Awaits, Holds
<1> QED BY <1>2, <1>3, <1>4, <1>5, <1>6, <1>7, <1>8 DEF Stages

\* What is connected stays so, and the timeout with it.
LEMMA SameWait ==
  ASSUME IInv, WaitInv, timeout' = timeout,
         \A j \in Bidder : Connected(j)' <=> Connected(j)
  PROVE  ShortestInv'
<1>1. ConnectedBidders' = ConnectedBidders
  BY DEF ConnectedBidders
<1> QED BY <1>1 DEF WaitInv, ShortestInv

LEMMA ServeConnectWait ==
  ASSUME IInv, WaitInv, \A k \in Bidder : Delay[k] > 0,
         NEW i \in Bidder, ServeConnect(i)
  PROVE  WaitInv'
<1>1. Reads(i, "CLIENT_CONNECT")
  BY DEF ServeConnect
<1>2. /\ request[i] # <<>> /\ reply[i] = <<>> /\ ~Gone /\ ReadMessage(i) = request[i][1]
      /\ bpc[i] = "connecting"
  BY <1>1, WhoAsks
<1>3. ReadMessage(i).params = Delay[i]
  BY <1>2 DEF WaitInv, DelayInv
<1>4. timeout' = NewTimeout(Delay[i]) /\ UNCHANGED bpc
  BY <1>3 DEF ServeConnect, bidders
<1>5. /\ request' = [request EXCEPT ![i] = <<>>]
      /\ \E m \in ServerMessage : reply' = [reply EXCEPT ![i] = Append(@, m)]
      /\ spc = "serve" /\ spc' \in {"poll", "serve"}
  <2>1. Server("SERVER_CONNECTION_ESTABLISHED", i, curr_bid) \in ServerMessage
    BY BidderInt DEF Server, ServerMessage, IInv, TypeOK
  <2> QED BY <1>1, <1>2, <2>1 DEF ServeConnect, Reads, Serves, Writes, Served
<1>6. request \in [Bidder -> Seq(ClientMessage)] /\ reply \in [Bidder -> Seq(ServerMessage)]
  BY DEF IInv, TypeOK
<1>7. DelayInv'
  BY <1>4, <1>5, <1>6 DEF WaitInv, DelayInv
<1>8. StayInv'
  BY <1>4, <1>5 DEF WaitInv, StayInv
<1>9. ConnectedBidders' = ConnectedBidders \cup {i} /\ i \notin ConnectedBidders
  <2>1. reply'[i] # <<>> /\ \A j \in Bidder : j # i => reply'[j] = reply[j]
    <3>1. PICK m \in ServerMessage : reply' = [reply EXCEPT ![i] = Append(@, m)]
      BY <1>5
    <3>2. reply[i] \in Seq(ServerMessage)
      BY <1>6
    <3> QED BY <1>6, <3>1, <3>2, AppendHead
  <2> QED BY <1>2, <1>4, <2>1 DEF ConnectedBidders, Connected
<1>10. ShortestInv'
  <2>1. ConnectedBidders' # {} /\ Delay[i] \in Nat /\ Delay \in [Bidder -> Nat]
    BY <1>9, ConstantsAssumption
  <2>2. CASE ConnectedBidders = {}
    <3>1. timeout' = Delay[i] /\ ConnectedBidders' = {i}
      BY <1>4, <1>9, <2>2 DEF WaitInv, ShortestInv, NewTimeout
    <3> QED BY <2>1, <3>1 DEF ShortestInv
  <2>3. CASE ConnectedBidders # {}
    <3>1. PICK k \in ConnectedBidders : timeout = Delay[k]
      BY <2>3 DEF WaitInv, ShortestInv
    <3>2. timeout \in Nat /\ timeout # 0 /\ \A d \in ConnectedBidders : timeout <= Delay[d]
      BY <2>1, <2>3, <3>1 DEF WaitInv, ShortestInv, ConnectedBidders
    <3>3. timeout' = IF timeout > Delay[i] THEN Delay[i] ELSE timeout
      BY <1>4, <3>2 DEF NewTimeout
    <3>4. \A d \in ConnectedBidders' : timeout' <= Delay[d]
      BY <1>9, <2>1, <3>2, <3>3 DEF ConnectedBidders
    <3>5. \E d \in ConnectedBidders' : timeout' = Delay[d]
      BY <1>9, <3>1, <3>3
    <3> QED BY <2>1, <3>4, <3>5 DEF ShortestInv
  <2> QED BY <2>2, <2>3
<1> QED BY <1>7, <1>8, <1>10 DEF WaitInv

LEMMA HearWait ==
  ASSUME IInv, WaitInv, NEW i \in Bidder, Hear(i)
  PROVE  WaitInv'
<1>1. /\ reply[i] # <<>> /\ reply' = [reply EXCEPT ![i] = <<>>]
      /\ UNCHANGED <<spc, timeout, request>>
      /\ \/ Moves(i, "connecting", "bidding")
         \/ Moves(i, "awaiting", "bidding")
         \/ Moves(i, "waiting", "exited")
  BY DEF Hear, server
<1>2. bpc \in [Bidder -> Stages] /\ reply \in [Bidder -> Seq(ServerMessage)]
  BY DEF IInv, TypeOK
<1>3. \A j \in Bidder : j # i => bpc'[j] = bpc[j] /\ reply'[j] = reply[j]
  BY <1>1, <1>2 DEF Moves
<1>4. bpc'[i] \in {"bidding", "exited"} /\ bpc[i] # "start"
  BY <1>1, <1>2 DEF Moves
<1>5. DelayInv'
  BY <1>1, <1>3, <1>4 DEF WaitInv, DelayInv
<1>6. StayInv'
  <2>1. CASE bpc'[i] = "bidding"
    BY <1>1, <1>3, <2>1 DEF WaitInv, StayInv
  <2>2. CASE bpc'[i] = "exited"
    <3>1. bpc[i] = "waiting"
      BY <1>1, <1>2, <2>2 DEF Moves
    <3>2. Holds(reply[i], "SERVER_AUCTION_FINISHED")
      BY <1>1, <3>1 DEF IInv, TurnInv, OneAnswer, InTurn, Awaits
    <3>3. spc \notin {"poll", "serve"}
      BY <1>1, <3>2 DEF IInv, TurnInv, LoopInv, Holds
    <3> QED BY <1>1, <3>3 DEF StayInv
  <2> QED BY <1>4, <2>1, <2>2
<1>7. \A j \in Bidder : Connected(j)' <=> Connected(j)
  <2>1. Connected(i) /\ Connected(i)'
    BY <1>1, <1>4 DEF Connected
  <2> QED BY <1>3, <2>1 DEF Connected
<1> QED BY <1>1, <1>5, <1>6, <1>7, SameWait DEF WaitInv

LEMMA SpeakWait ==
  ASSUME IInv, WaitInv, NEW i \in Bidder, Connect(i) \/ PlaceBid(i) \/ Withdraw(i)
  PROVE  WaitInv'
<1>1. UNCHANGED <<spc, timeout, reply>>
  BY DEF Connect, PlaceBid, Withdraw, server
<1>2. /\ bpc \in [Bidder -> Stages] /\ request \in [Bidder -> Seq(ClientMessage)]
  BY DEF IInv, TypeOK
<1>3. \A j \in Bidder : j # i => bpc'[j] = bpc[j] /\ request'[j] = request[j]
  BY <1>2 DEF Connect, PlaceBid, Withdraw, Moves, Sends
<1>4. \/ /\ bpc[i] = "start" /\ bpc'[i] = "connecting" /\ reply[i] = <<>>
         /\ request'[i][1].params = Delay[i]
      \/ bpc[i] = "bidding" /\ bpc'[i] \in {"awaiting", "waiting"}
  <2>1. InTurn(i)
    BY DEF IInv, TurnInv, OneAnswer
  <2>2. CASE Connect(i)
    BY <1>2, <2>1, <2>2 DEF Connect, Moves, Sends, Client, InTurn
  <2>3. CASE PlaceBid(i) \/ Withdraw(i)
    BY <1>2, <2>3 DEF PlaceBid, Withdraw, Moves
  <2> QED BY <2>2, <2>3
<1>5. DelayInv'
  BY <1>3, <1>4 DEF WaitInv, DelayInv
<1>6. StayInv'
  BY <1>1, <1>3, <1>4 DEF WaitInv, StayInv
<1>7. \A j \in Bidder : Connected(j)' <=> Connected(j)
  BY <1>1, <1>3, <1>4 DEF Connected
<1> QED BY <1>1, <1>5, <1>6, <1>7, SameWait DEF WaitInv

\* The answers to bids, ends and ends of file.
LEMMA ServeOtherWait ==
  ASSUME IInv, WaitInv, NEW i \in Bidder,
         ServeBid(i) \/ ServeFinished(i) \/ ServeEndOfFile(i)
  PROVE  WaitInv'
<1>1. UNCHANGED <<timeout, bpc>> /\ spc = "serve"
  BY DEF ServeBid, ServeFinished, ServeEndOfFile, Reads, Serves, bidders
<1>2. /\ request \in [Bidder -> Seq(ClientMessage)] /\ reply \in [Bidder -> Seq(ServerMessage)]
  BY DEF IInv, TypeOK
<1>3. /\ \A j \in Bidder : request'[j] = request[j] \/ request'[j] = <<>>
      /\ \A j \in Bidder : j # i => reply'[j] = reply[j]
  BY <1>2 DEF ServeBid, ServeFinished, ServeEndOfFile, Reads, Writes
<1>4. reply' = reply \/ bpc[i] \notin {"start", "connecting"}
  <2>1. CASE ServeBid(i) \/ ServeFinished(i)
    <3>1. Reads(i, "CLIENT_BID") \/ Reads(i, "CLIENT_FINISHED")
      BY <2>1 DEF ServeBid, ServeFinished
    <3> QED BY <3>1, WhoAsks
  <2>2. CASE ServeEndOfFile(i)
    BY <2>2 DEF ServeEndOfFile
  <2> QED BY <2>1, <2>2
<1>5. DelayInv'
  BY <1>1, <1>3 DEF WaitInv, DelayInv
<1>6. StayInv'
  BY <1>1 DEF WaitInv, StayInv
<1>7. \A j \in Bidder : Connected(j)' <=> Connected(j)
  BY <1>1, <1>3, <1>4 DEF Connected
<1> QED BY <1>1, <1>5, <1>6, <1>7, SameWait DEF WaitInv

LEMMA AnnounceWait ==
  ASSUME IInv, WaitInv, Announce
  PROVE  WaitInv'
<1>1. /\ spc = "announce" /\ spc' \notin {"poll", "serve"} /\ UNCHANGED <<timeout, bpc, request>>
      /\ \/ reply' = reply
         \/ at \in pfd /\ reply' = [reply EXCEPT ![at] =
              Append(@, Server("SERVER_AUCTION_FINISHED", winner_bidder_id, curr_bid))]
  BY DEF Announce, bidders
<1>2. \A j \in Bidder : Connected(j)' <=> Connected(j)
  <2>1. CASE reply' = reply
    BY <1>1, <2>1 DEF Connected
  <2>2. CASE /\ at \in pfd
             /\ reply' = [reply EXCEPT ![at] =
                  Append(@, Server("SERVER_AUCTION_FINISHED", winner_bidder_id, curr_bid))]
    <3>1. n_of_active_bidder = 0
      BY <1>1, <2>2 DEF IInv, TurnInv, OverInv
    <3>2. \A j \in Bidder : bpc[j] \notin {"start", "connecting"}
      BY <3>1, CountZero DEF IInv, TurnInv, ActiveInv
    <3> QED BY <1>1, <3>2 DEF Connected
  <2> QED BY <1>1, <2>1, <2>2
<1>3. DelayInv' /\ StayInv'
  BY <1>1 DEF WaitInv, DelayInv, StayInv
<1> QED BY <1>1, <1>2, <1>3, SameWait DEF WaitInv

LEMMA ReapWait ==
  ASSUME IInv, WaitInv, Reap
  PROVE  WaitInv'
<1>1. PICK k \in Bidder : Moves(k, "exited", "reaped")
  BY DEF Reap
<1>2. /\ spc' \notin {"poll", "serve"} /\ UNCHANGED <<timeout, reply, request>>
  BY DEF Reap
<1>3. \A j \in Bidder : bpc'[j] = bpc[j] \/ (bpc[j] = "exited" /\ bpc'[j] = "reaped")
  BY <1>1 DEF Moves, IInv, TypeOK
<1>4. DelayInv' /\ StayInv'
  BY <1>2, <1>3 DEF WaitInv, DelayInv, StayInv
<1>5. \A j \in Bidder : Connected(j)' <=> Connected(j)
  BY <1>2, <1>3 DEF Connected
<1> QED BY <1>2, <1>4, <1>5, SameWait DEF WaitInv

LEMMA QuietWait ==
  ASSUME IInv, WaitInv, UNCHANGED <<timeout, bpc, reply, request>>,
         spc' \in {"poll", "serve"} => spc \in {"poll", "serve"}
  PROVE  WaitInv'
<1>1. DelayInv' /\ StayInv'
  BY DEF WaitInv, DelayInv, StayInv
<1>2. \A j \in Bidder : Connected(j)' <=> Connected(j)
  BY DEF Connected
<1> QED BY <1>1, <1>2, SameWait DEF WaitInv

\* The server waits for as long as the least patient bidder that has connected asked,
\* in whatever order they connect, provided no bidder asks for 0 - which the code takes
\* for a timeout not yet set (lines 68-76) - and none dies.
THEOREM Timeouts ==
  ASSUME Deaths = {}, \A k \in Bidder : Delay[k] > 0
  PROVE  Spec => []TimeoutInv
<1>1. IInv /\ WaitInv /\ [Next]_vars => WaitInv'
  <2> SUFFICES ASSUME IInv, WaitInv, [Next]_vars PROVE WaitInv'
    OBVIOUS
  <2>1. ASSUME NEW i \in Bidder, BidderStep(i) PROVE WaitInv'
    <3>1. ~Die(i)
      BY DEF Die
    <3> QED BY <2>1, <3>1, HearWait, SpeakWait DEF BidderStep
  <2>2. ASSUME NEW i \in Bidder, Serve(i) PROVE WaitInv'
    BY <2>2, ServeConnectWait, ServeOtherWait DEF Serve
  <2>3. CASE Poll \/ LoopEnds \/ Terminated \/ UNCHANGED vars
    BY <2>3, QuietWait DEF Poll, LoopEnds, Terminated, vars, server, bidders
  <2> QED BY <2>1, <2>2, <2>3, AnnounceWait, ReapWait DEF Next, ServerStep
<1> QED BY Inductive, WaitInit, WaitImplies, <1>1, PTL DEF Spec

-----------------------------------------------------------------------------
(* The children that are waited for.                                       *)

ReapedBidders == {i \in Bidder : bpc[i] = "reaped"}

\* The loop's index counts the children that wait() has returned.
ReapInv ==
  Cardinality(ReapedBidders) =
    CASE spc = "reap" -> at [] spc = "done" -> NumBidders [] OTHER -> 0

LEMMA BiddersFinite == IsFiniteSet(Bidder) /\ Cardinality(Bidder) = NumBidders
<1>1. NumBidders \in Nat \ {0} /\ NumBidders - 1 \in Int /\ 0 \in Int
  BY ConstantsAssumption
<1>2. /\ IsFiniteSet(0 .. NumBidders - 1)
      /\ Cardinality(0 .. NumBidders - 1) =
           IF 0 > NumBidders - 1 THEN 0 ELSE (NumBidders - 1) - 0 + 1
  BY <1>1, FS_Interval
<1> QED BY <1>1, <1>2 DEF Bidder

LEMMA ReapStep ==
  ASSUME IInv, ReapInv, [Next]_vars
  PROVE  ReapInv'
<1> USE DEF vars, server, bids, count, reaping, bidders
<1>1. NumBidders \in Nat \ {0} /\ at \in Bidder /\ bpc \in [Bidder -> Stages]
  BY ConstantsAssumption DEF IInv, TypeOK
<1>2. CASE Reap
  <2>1. PICK k \in Bidder : Moves(k, "exited", "reaped")
    BY <1>2 DEF Reap
  <2>2. ReapedBidders' = ReapedBidders \cup {k} /\ k \notin ReapedBidders
    BY <1>1, <2>1 DEF ReapedBidders, Moves
  <2>3. IsFiniteSet(ReapedBidders)
    BY BiddersFinite, FS_Subset DEF ReapedBidders
  <2>4. Cardinality(ReapedBidders') = at + 1
    <3>1. Cardinality(ReapedBidders) = at
      BY <1>2 DEF Reap, ReapInv
    <3>2. Cardinality(ReapedBidders \cup {k}) = Cardinality(ReapedBidders) + 1
      BY <2>2, <2>3, FS_AddElement
    <3> QED BY <2>2, <3>1, <3>2
  <2>5. CASE Last(at)
    BY <1>1, <1>2, <2>4, <2>5 DEF Reap, ReapInv, Last, Bidder
  <2>6. CASE ~Last(at)
    BY <1>2, <2>4, <2>6 DEF Reap, ReapInv, Following
  <2> QED BY <2>5, <2>6
<1>3. CASE ~Reap
  <2>1. ReapedBidders' = ReapedBidders
    <3>1. ASSUME NEW i \in Bidder, BidderStep(i) PROVE ReapedBidders' = ReapedBidders
      BY <1>1, <3>1 DEF BidderStep, Connect, PlaceBid, Withdraw, Hear, Die, Moves, ReapedBidders
    <3>2. CASE UNCHANGED bpc
      BY <3>2 DEF ReapedBidders
    <3> QED BY <1>3, <3>1, <3>2 DEF Next, ServerStep, Poll, LoopEnds, Announce, Terminated, Serve,
          ServeEndOfFile, ServeConnect, ServeBid, ServeFinished
  <2>2. \/ UNCHANGED <<spc, at>>
        \/ spc \notin {"reap", "done"} /\ spc' \notin {"reap", "done"}
        \/ spc \notin {"reap", "done"} /\ spc' = "reap" /\ at' = 0
    <3>1. CASE Announce
      BY <3>1 DEF Announce, Following
    <3>2. ASSUME NEW i \in Bidder, Serve(i)
          PROVE  spc = "serve" /\ spc' \in {"poll", "serve", "killed"}
      BY <3>2 DEF Serve, ServeEndOfFile, ServeConnect, ServeBid, ServeFinished, Reads, Serves,
         Writes, Served
    <3>3. ASSUME NEW i \in Bidder, BidderStep(i) PROVE UNCHANGED <<spc, at>>
      BY <3>3 DEF BidderStep, Connect, PlaceBid, Withdraw, Hear, Die
    <3>4. CASE Poll \/ LoopEnds \/ Terminated \/ UNCHANGED vars
      BY <3>4 DEF Poll, LoopEnds, Terminated
    <3> QED BY <1>3, <3>1, <3>2, <3>3, <3>4 DEF Next, ServerStep
  <2>3. Cardinality(ReapedBidders') = Cardinality(ReapedBidders)
    BY <2>1
  <2> QED BY <2>2, <2>3 DEF ReapInv
<1> QED BY <1>2, <1>3

\* No child is left a zombie when the server has come to its end, however the children
\* ended and in whatever order (lines 164-173).
THEOREM Reaped == Spec => []NoZombies
<1>1. Init => ReapInv
  <2> SUFFICES ASSUME Init PROVE ReapInv
    OBVIOUS
  <2>1. ReapedBidders = {}
    BY DEF Init, ReapedBidders
  <2> QED BY <2>1, FS_EmptySet DEF Init, ReapInv
<1>2. IInv /\ ReapInv /\ [Next]_vars => ReapInv'
  BY ReapStep
<1>3. ReapInv => NoZombies
  <2> SUFFICES ASSUME ReapInv, spc = "done" PROVE ReapedBidders = Bidder
    BY DEF NoZombies, ReapedBidders
  <2>1. Cardinality(ReapedBidders) = Cardinality(Bidder) /\ ReapedBidders \subseteq Bidder
    BY BiddersFinite DEF ReapInv, ReapedBidders
  <2> QED BY <2>1, BiddersFinite, FS_Subset
<1> QED BY Inductive, <1>1, <1>2, <1>3, PTL DEF Spec
=============================================================================
