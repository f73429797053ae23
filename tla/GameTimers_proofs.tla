------------------------- MODULE GameTimers_proofs -------------------------
(***************************************************************************)
(* Proofs about GameTimers, for any players, workers and bounds.           *)
(***************************************************************************)
EXTENDS GameTimers, FiniteSetTheorems, WellFoundedInduction, TLAPS

---------------------------------------------------------------------------
(* Seats *)

(* The order of the natural numbers, as the relation the library's theorem *)
(* is about.                                                               *)
LEMMA LessRelation == OpToRel(<, Nat) = {ss \in Nat \X Nat : ss[1] < ss[2]}
BY DEF OpToRel

(* A set of seats, or of names, that is not empty has a first one.         *)
LEMMA MinIn ==
    ASSUME NEW S, S \subseteq Nat, S # {}
    PROVE  Min(S) \in S
<1>1. PICK x \in S : \A y \in S : ~(<<y, x>> \in OpToRel(<, Nat))
      BY NatLessThanWellFounded, WFMin
<1>2. ASSUME NEW y \in S PROVE x <= y
  <2>1. ~(<<y, x>> \in {ss \in Nat \X Nat : ss[1] < ss[2]})
        BY <1>1, LessRelation
  <2>2. <<y, x>> \in Nat \X Nat
        OBVIOUS
  <2>3. ~(y < x)
        BY <2>1, <2>2
  <2>4. QED  BY <2>3
<1>3. QED  BY <1>2 DEF Min

(* The seat after p is one of S.                                           *)
LEMMA SeatAfterIn ==
    ASSUME NEW S, S \subseteq Players, S # {}, NEW p
    PROVE  SeatAfter(S, p) \in S
<1>1. S \subseteq Nat
      BY PlayersAssumption
<1>2. {q \in S : q > p} # {} => Min({q \in S : q > p}) \in {q \in S : q > p}
      BY <1>1, MinIn
<1>3. Min(S) \in S
      BY <1>1, MinIn
<1>4. QED  BY <1>2, <1>3 DEF SeatAfter

---------------------------------------------------------------------------
(* What the engine leaves behind *)

(* An auction has bidders and somebody to bid, and a player who is         *)
(* bankrupt does not hold the turn of a game that goes on.                 *)
Sound(g) ==
    /\ g.phase = "awaiting_auction_bid" => g.bidders # {} /\ g.bidder # None
    /\ ~Finished(g) => g.current \notin g.bankrupt

(* A command of the engine leaves the counters and the deadline alone.     *)
Kept(g, h) ==
    /\ h.missed = g.missed /\ h.lastMissed = g.lastMissed
    /\ h.key = g.key /\ h.turn >= g.turn

LEMMA NoAuctionFacts ==
    ASSUME NEW g \in Games
    PROVE  /\ NoAuction(g) \in Games /\ Kept(g, NoAuction(g))
           /\ NoAuction(g).phase = g.phase /\ NoAuction(g).turn = g.turn
           /\ NoAuction(g).current = g.current /\ NoAuction(g).bankrupt = g.bankrupt
<1>1. NoAuction(g) \in Games
      BY DEF NoAuction, Games
<1>2. g.turn >= g.turn
      BY DEF Games
<1>3. /\ NoAuction(g).phase = g.phase /\ NoAuction(g).turn = g.turn
      /\ NoAuction(g).current = g.current /\ NoAuction(g).bankrupt = g.bankrupt
      /\ NoAuction(g).missed = g.missed /\ NoAuction(g).lastMissed = g.lastMissed
      /\ NoAuction(g).key = g.key
      BY DEF NoAuction, Games
<1>4. QED  BY <1>1, <1>2, <1>3 DEF Kept

LEMMA NextTurnFacts ==
    ASSUME NEW g \in Games, Active(g) # {}
    PROVE  /\ NextTurn(g) \in Games /\ Kept(g, NextTurn(g)) /\ Sound(NextTurn(g))
           /\ NextTurn(g).phase = "awaiting_roll"
<1> DEFINE n == NoAuction(g)
<1>1. n \in Games /\ Kept(g, n) /\ n.turn = g.turn /\ n.bankrupt = g.bankrupt
      BY NoAuctionFacts
<1>2. PICK c : c = SeatAfter(Active(g), g.current)
      OBVIOUS
<1>3. c \in Active(g)
      BY <1>2, SeatAfterIn DEF Active
<1>4. c \in Players /\ c \notin g.bankrupt
      BY <1>3 DEF Active
<1>5. NextTurn(g) = [n EXCEPT !.phase = "awaiting_roll", !.turn = @ + 1, !.doubles = 0,
                              !.again = FALSE, !.current = c]
      BY <1>2 DEF NextTurn
<1> HIDE DEF n
<1>6. "awaiting_roll" \in Phases /\ 0 \in 0..MaxDoubles /\ FALSE \in BOOLEAN
      BY BoundAssumption DEF Phases
<1>7. ASSUME NEW b \in BOOLEAN, NEW d \in 0..MaxDoubles
      PROVE  LET h == [n EXCEPT !.phase = "awaiting_roll", !.turn = @ + 1, !.doubles = d,
                              !.again = b, !.current = c]
             IN  /\ h \in Games /\ Kept(g, h) /\ Sound(h) /\ h.phase = "awaiting_roll"
  <2> DEFINE h == [n EXCEPT !.phase = "awaiting_roll", !.turn = @ + 1, !.doubles = d,
                            !.again = b, !.current = c]
  <2>1. n.turn + 1 \in Nat \ {0} /\ n.turn + 1 >= g.turn
        BY <1>1 DEF Games
  <2>2. h \in Games
        BY <1>1, <1>4, <1>6, <2>1 DEF Games
  <2>3. /\ h.phase = "awaiting_roll" /\ h.turn = n.turn + 1 /\ h.current = c
        /\ h.bankrupt = n.bankrupt /\ h.missed = n.missed /\ h.lastMissed = n.lastMissed
        /\ h.key = n.key
        BY <1>1 DEF Games
  <2> HIDE DEF h
  <2>4. QED  BY <1>1, <1>4, <2>1, <2>2, <2>3 DEF Kept, Sound, Finished, h
<1> DEFINE m(b, d) == [n EXCEPT !.phase = "awaiting_roll", !.turn = @ + 1, !.doubles = d,
                                !.again = b, !.current = c]
<1>8. \A b \in BOOLEAN, d \in 0..MaxDoubles :
         m(b, d) \in Games /\ Kept(g, m(b, d)) /\ Sound(m(b, d)) /\ m(b, d).phase = "awaiting_roll"
      BY <1>7
<1>9. NextTurn(g) = m(FALSE, 0)
      BY <1>5
<1> HIDE DEF m
<1>10. QED  BY <1>6, <1>8, <1>9

LEMMA FinishFacts ==
    ASSUME NEW g \in Games
    PROVE  Finish(g) \in Games /\ Kept(g, Finish(g)) /\ Sound(Finish(g)) /\ Finished(Finish(g))
<1> DEFINE n == NoAuction(g)
<1>1. n \in Games /\ Kept(g, n)
      BY NoAuctionFacts
<1> HIDE DEF n
<1>2. ASSUME NEW b \in BOOLEAN
      PROVE  LET h == [n EXCEPT !.phase = "finished", !.again = b, !.offer = b]
             IN  h \in Games /\ Kept(g, h) /\ Sound(h) /\ Finished(h)
      BY <1>1 DEF Games, Kept, Sound, Finished, Phases
<1>3. QED  BY <1>2 DEF Finish, n

LEMMA SoldFacts ==
    ASSUME NEW g \in Games, Sound(g), ~Finished(g)
    PROVE  /\ Sold(g) \in Games /\ Kept(g, Sold(g)) /\ Sound(Sold(g))
           /\ Sold(g).phase = "awaiting_turn_end"
<1> DEFINE n == NoAuction(g)
<1>1. n \in Games /\ Kept(g, n) /\ n.current = g.current /\ n.bankrupt = g.bankrupt
      BY NoAuctionFacts
<1> HIDE DEF n
<1>2. LET h == [n EXCEPT !.phase = "awaiting_turn_end"]
      IN  h \in Games /\ Kept(g, h) /\ Sound(h) /\ h.phase = "awaiting_turn_end"
      BY <1>1 DEF Games, Kept, Sound, Finished, Phases
<1>3. QED  BY <1>2 DEF Sold, n

(* A bankruptcy ends the game, passes the turn of the bankrupt player, or  *)
(* leaves turn, player and phase as they are.                              *)
LEMMA BankruptFacts ==
    ASSUME NEW g \in Games, Sound(g), ~Finished(g), NEW p \in Players
    PROVE  LET h == Bankrupt(g, p)
           IN  /\ h \in Games /\ Kept(g, h) /\ Sound(h)
               /\ \/ Finished(h)
                  \/ h.phase = "awaiting_roll"
                  \/ /\ p # g.current
                     /\ h.turn = g.turn /\ h.current = g.current /\ h.phase = g.phase
<1> DEFINE b == [g EXCEPT !.bankrupt = @ \cup {p}]
<1>1. /\ b \in Games /\ Kept(g, b) /\ b.turn = g.turn /\ b.current = g.current
      /\ b.phase = g.phase /\ b.bidders = g.bidders /\ b.bidder = g.bidder
      /\ b.bankrupt = g.bankrupt \cup {p}
      BY DEF Games, Kept
<1> HIDE DEF b
<1>2. Kept(b, Finish(b)) => Kept(g, Finish(b))
      BY <1>1 DEF Kept
<1>3. Kept(b, NextTurn(b)) => Kept(g, NextTurn(b))
  <2>1. ASSUME Kept(b, NextTurn(b)), Active(b) # {} PROVE Kept(g, NextTurn(b))
        BY <1>1, <2>1 DEF Kept
  <2>2. QED  BY <1>1 DEF Kept
<1>4. CASE Cardinality(Active(b)) <= 1 \/ Active(b) \cap Humans = {}
  <2>1. Bankrupt(g, p) = Finish(b)
        BY <1>4 DEF Bankrupt, b
  <2>2. QED  BY <2>1, <1>1, <1>2, FinishFacts
<1>5. CASE ~(Cardinality(Active(b)) <= 1 \/ Active(b) \cap Humans = {}) /\ g.current = p
  <2>1. Bankrupt(g, p) = NextTurn(b)
        BY <1>5 DEF Bankrupt, b
  <2>2. Active(b) # {}
        BY <1>5
  <2>3. QED  BY <2>1, <2>2, <1>1, <1>3, NextTurnFacts
<1>6. CASE ~(Cardinality(Active(b)) <= 1 \/ Active(b) \cap Humans = {}) /\ g.current # p
  <2>1. Bankrupt(g, p) = b
        BY <1>6 DEF Bankrupt, b
  <2>2. Sound(b)
        BY <1>1, <1>6 DEF Sound, Finished
  <2>3. QED  BY <2>1, <2>2, <1>1, <1>6
<1>7. QED  BY <1>4, <1>5, <1>6

(* Intents that open a new deadline for the next bidder.                   *)
Bidding == {"decline_property_purchase", "place_auction_bid", "pass_auction_bid"}

(* What a timer may decide on, for the player of its job.                  *)
Decided(i, p) ==
    /\ i.type \in {"roll_and_move", "decline_property_purchase", "pass_auction_bid",
                   "auto_resolve_debt", "end_turn", "declare_bankruptcy", "finish_game"}
    /\ i.type = "declare_bankruptcy" => i.by = p

(* Only the end of the game is nobody's command.                           *)
Signed(i) == i \in Intents /\ (i.by = None => i.type = "finish_game")

Outcome(g, i, h) ==
    /\ h \in Games /\ Kept(g, h) /\ Sound(h)
    /\ h.phase = "awaiting_auction_bid" /\ i.type \notin Bidding =>
          /\ ~Decided(i, g.current)
          /\ h.turn = g.turn /\ h.current = g.current /\ h.phase = g.phase

(* Every state an accepted command may lead to is sound; an auction goes   *)
(* on without a bid only for the same turn and player, and not by what a   *)
(* timer decides.                                                          *)
LEMMA OutcomeFacts ==
    ASSUME NEW g \in Games, Sound(g), NEW i, Signed(i), Accepts(g, i), NEW h \in Outcomes(g, i)
    PROVE  Outcome(g, i, h)
<1>1. /\ ~Finished(g) /\ i \in Intents /\ g.current \in Players /\ g.turn >= g.turn
      /\ i.type # "finish_game" => i.by \in Players /\ i.by # None
      /\ g.current \notin g.bankrupt
      BY DEF Accepts, Signed, Intents, Games, Sound
<1>2. Active(g) # {} /\ Active(g) \subseteq Players
      BY <1>1 DEF Active
<1>3. ASSUME NEW p \in Phases \ {"awaiting_auction_bid", "finished"},
             h = [g EXCEPT !.phase = p]
      PROVE  Outcome(g, i, h)
  <2>1. h \in Games /\ Kept(g, h) /\ h.phase = p
        BY <1>1, <1>3 DEF Games, Kept
  <2>2. Sound(h)
        BY <1>1, <1>3, <2>1 DEF Games, Sound, Finished
  <2>3. QED  BY <2>1, <2>2 DEF Outcome
<1>4. CASE i.type = "roll_and_move"
  <2>1. PICK at \in Landings, a \in BOOLEAN :
          /\ h = [g EXCEPT !.phase = at, !.doubles = IF a THEN @ + 1 ELSE 0,
                           !.again = a /\ at # "awaiting_debt_resolution"]
          /\ a => g.doubles < MaxDoubles
    <3>1. h \in RollAndMove(g)
          BY <1>4 DEF Outcomes
    <3> DEFINE doubles == {d \in BOOLEAN : d => g.doubles < MaxDoubles}
    <3>2. h \in {Land(g, at, a) : at \in Landings, a \in doubles}
          BY <3>1 DEF RollAndMove
    <3> HIDE DEF doubles
    <3>3. PICK at \in Landings, a \in doubles : h = Land(g, at, a)
          BY <3>2
    <3>4. a \in BOOLEAN /\ (a => g.doubles < MaxDoubles)
          BY Zenon, <3>3 DEF doubles
    <3>5. QED  BY <3>3, <3>4 DEF Land
  <2>2. PICK d, b : /\ d = (IF a THEN g.doubles + 1 ELSE 0)
                    /\ b = (a /\ at # "awaiting_debt_resolution")
        OBVIOUS
  <2>3. d \in 0..MaxDoubles
        BY <2>1, <2>2, BoundAssumption DEF Games
  <2>4. b \in BOOLEAN
        BY <2>2
  <2>5. h = [g EXCEPT !.phase = at, !.doubles = d, !.again = b]
        BY <2>1, <2>2
  <2>6. at \in Phases /\ at # "awaiting_auction_bid" /\ at # "finished"
        BY LandingsAssumption DEF Phases
  <2>7. /\ h \in Games /\ Kept(g, h) /\ h.phase = at /\ h.current = g.current
        /\ h.bankrupt = g.bankrupt
        BY <1>1, <2>3, <2>4, <2>5, <2>6 DEF Games, Kept
  <2>8. QED  BY <1>1, <2>6, <2>7 DEF Outcome, Sound, Finished
<1>5. CASE i.type \in {"buy_property", "pay_debt"}
  <2>1. h = [g EXCEPT !.phase = "awaiting_turn_end"]
    <3>1. CASE i.type = "buy_property"
          BY <3>1 DEF Outcomes
    <3>2. CASE i.type = "pay_debt"
          BY <3>2 DEF Outcomes
    <3>3. QED  BY <1>5, <3>1, <3>2
  <2>2. QED  BY <1>3, <2>1 DEF Phases
<1>6. CASE i.type = "decline_property_purchase"
  <2>1. PICK m : m = Min(Active(g))
        OBVIOUS
  <2>2. m \in Players /\ m # None
        BY <1>2, <2>1, MinIn, PlayersAssumption
  <2>3. h = [g EXCEPT !.phase = "awaiting_auction_bid", !.bidders = Active(g), !.bidder = m]
        BY <1>6, <2>1 DEF Outcomes
  <2>4. /\ h \in Games /\ Kept(g, h) /\ h.bidders = Active(g) /\ h.bidder = m
        /\ h.current = g.current /\ h.bankrupt = g.bankrupt
        BY <1>1, <1>2, <2>2, <2>3 DEF Games, Kept, Phases
  <2>5. QED  BY <1>1, <1>2, <1>6, <2>2, <2>4 DEF Outcome, Sound, Bidding
<1>7. CASE i.type = "place_auction_bid"
  <2>1. h = Bid(g, i.by) /\ g.phase = "awaiting_auction_bid" /\ g.bidders # {}
        BY <1>7 DEF Outcomes, Accepts, Sound
  <2>2. CASE g.bidders = {i.by}
        BY <1>1, <1>7, <2>1, <2>2, SoldFacts DEF Outcome, Bid, Bidding
  <2>3. CASE g.bidders # {i.by}
    <3>1. PICK s : s = SeatAfter(g.bidders, i.by)
          OBVIOUS
    <3>2. s \in Players /\ s # None
          BY <2>1, <3>1, SeatAfterIn, PlayersAssumption DEF Games
    <3>3. h = [g EXCEPT !.highest = i.by, !.bidder = s]
          BY <2>1, <2>3, <3>1 DEF Bid
    <3>4. /\ h \in Games /\ Kept(g, h) /\ h.bidders = g.bidders /\ h.bidder = s
          /\ h.current = g.current /\ h.bankrupt = g.bankrupt
          BY <1>1, <1>7, <3>2, <3>3 DEF Games, Kept
    <3>5. QED  BY <1>1, <1>7, <2>1, <3>2, <3>4 DEF Outcome, Sound, Bidding
  <2>4. QED  BY <2>2, <2>3
<1>8. CASE i.type = "pass_auction_bid"
  <2> DEFINE left == g.bidders \ {i.by}
  <2>1. h = Pass(g, i.by) /\ g.phase = "awaiting_auction_bid"
        BY <1>8 DEF Outcomes, Accepts
  <2>2. CASE left = {} \/ (g.highest # None /\ Cardinality(left) = 1)
        BY <1>1, <1>8, <2>1, <2>2, SoldFacts DEF Outcome, Pass, Bidding
  <2>3. CASE ~(left = {} \/ (g.highest # None /\ Cardinality(left) = 1))
    <3>1. PICK s : s = SeatAfter(left, i.by)
          OBVIOUS
    <3>2. left \subseteq Players /\ left # {}
          BY <2>3 DEF Games
    <3>3. s \in Players /\ s # None
          BY <3>1, <3>2, SeatAfterIn, PlayersAssumption
    <3>4. h = [g EXCEPT !.bidders = left, !.bidder = s]
          BY <2>1, <2>3, <3>1 DEF Pass
    <3>5. /\ h \in Games /\ Kept(g, h) /\ h.bidders = left /\ h.bidder = s
          /\ h.current = g.current /\ h.bankrupt = g.bankrupt
          BY <1>1, <3>2, <3>3, <3>4 DEF Games, Kept
    <3>6. QED  BY <1>1, <1>8, <3>2, <3>3, <3>5 DEF Outcome, Sound, Bidding
  <2>4. QED  BY <2>2, <2>3
<1>9. ASSUME i.by \in Players, h = Bankrupt(g, i.by),
             i.type = "declare_bankruptcy" \/ i.by = g.current
      PROVE  Outcome(g, i, h)
  <2>1. /\ h \in Games /\ Kept(g, h) /\ Sound(h)
        /\ \/ Finished(h)
           \/ h.phase = "awaiting_roll"
           \/ /\ i.by # g.current
              /\ h.turn = g.turn /\ h.current = g.current /\ h.phase = g.phase
        BY <1>1, <1>9, BankruptFacts
  <2>2. QED  BY <1>9, <2>1 DEF Outcome, Decided, Finished
<1>10. CASE i.type = "auto_resolve_debt"
  <2>1. i.by = g.current /\ (h = [g EXCEPT !.phase = "awaiting_turn_end"] \/ h = Bankrupt(g, i.by))
        BY <1>10 DEF Outcomes, Accepts
  <2>2. QED  BY <1>1, <1>3, <1>9, <2>1, <1>10 DEF Phases
<1>11. CASE i.type = "end_turn"
  <2> DEFINE t == IF g.again THEN [g EXCEPT !.phase = "awaiting_roll", !.again = FALSE]
                  ELSE NextTurn(g)
  <2>1. h = [t EXCEPT !.offer = FALSE]
        BY <1>11 DEF Outcomes
  <2>2. ASSUME NEW b \in BOOLEAN
        PROVE  LET k == [g EXCEPT !.phase = "awaiting_roll", !.again = b]
               IN  k \in Games /\ Kept(g, k) /\ Sound(k) /\ k.phase = "awaiting_roll"
    <3> DEFINE k == [g EXCEPT !.phase = "awaiting_roll", !.again = b]
    <3>1. /\ k \in Games /\ Kept(g, k) /\ k.phase = "awaiting_roll"
          /\ k.current = g.current /\ k.bankrupt = g.bankrupt
          BY <1>1 DEF Games, Kept, Phases
    <3> HIDE DEF k
    <3>2. QED  BY <1>1, <3>1 DEF Sound, k
  <2>3. t \in Games /\ Kept(g, t) /\ Sound(t) /\ t.phase = "awaiting_roll"
        BY <2>2, <1>2, NextTurnFacts
  <2> HIDE DEF t
  <2>4. ASSUME NEW b \in BOOLEAN
        PROVE  Outcome(g, i, [t EXCEPT !.offer = b])
    <3> DEFINE k == [t EXCEPT !.offer = b]
    <3>1. /\ k \in Games /\ Kept(t, k) /\ k.phase = "awaiting_roll"
          /\ k.current = t.current /\ k.bankrupt = t.bankrupt
          BY <2>3 DEF Games, Kept
    <3> HIDE DEF k
    <3>2. Kept(g, k)
          BY <2>3, <3>1 DEF Kept, Games
    <3>3. QED  BY <2>3, <3>1, <3>2 DEF Sound, Finished, Outcome, k
  <2>5. QED  BY <2>1, <2>4
<1>12. CASE i.type = "manage"
  <2>1. h = g /\ g.phase # "awaiting_auction_bid"
        BY <1>12 DEF Outcomes, Accepts
  <2>2. QED  BY <1>1, <2>1 DEF Outcome, Kept
<1>13. CASE i.type \in {"propose_trade", "answer_trade"}
  <2>1. PICK b \in BOOLEAN : h = [g EXCEPT !.offer = b]
    <3>1. CASE i.type = "propose_trade"
      <4>1. PICK to \in Active(g) \ {i.by} : h = [g EXCEPT !.offer = to \in Humans]
            BY <3>1 DEF Outcomes
      <4>2. PICK b : b = (to \in Humans)
            OBVIOUS
      <4>3. b \in BOOLEAN /\ h = [g EXCEPT !.offer = b]
            BY <4>1, <4>2
      <4>4. QED  BY <4>3
    <3>2. CASE i.type = "answer_trade"
      <4>1. h = [g EXCEPT !.offer = FALSE]
            BY <3>2 DEF Outcomes
      <4>2. QED  BY <4>1, Zenon
    <3>3. QED  BY <1>13, <3>1, <3>2
  <2>2. /\ h \in Games /\ Kept(g, h) /\ h.phase = g.phase /\ h.turn = g.turn
        /\ h.current = g.current /\ h.bankrupt = g.bankrupt /\ h.bidders = g.bidders
        /\ h.bidder = g.bidder
        BY <1>1, <2>1 DEF Games, Kept
  <2>3. QED  BY <1>13, <2>2 DEF Outcome, Sound, Finished, Decided
<1>14. CASE i.type = "declare_bankruptcy"
  <2>1. h = Bankrupt(g, i.by)
        BY <1>14 DEF Outcomes
  <2>2. QED  BY <1>1, <1>9, <1>14, <2>1
<1>15. CASE i.type = "finish_game"
  <2>1. h = Finish(g)
        BY <1>15 DEF Outcomes
  <2>2. QED  BY <2>1, FinishFacts DEF Outcome, Finished
<1>16. QED  BY <1>1, <1>4, <1>5, <1>6, <1>7, <1>8, <1>10, <1>11, <1>12, <1>13, <1>14, <1>15
            DEF Intents

---------------------------------------------------------------------------
(* What executeIntent stores *)

(* A player has missed no more turns than the number of the last missed    *)
(* turn, which is not a turn to come.                                      *)
Counted(g) ==
    \A h \in Humans : g.missed[h] <= g.lastMissed[h] /\ g.lastMissed[h] <= g.turn

LEMMA CountMissedFacts ==
    ASSUME NEW g \in Games, Counted(g), NEW h \in Games, Kept(g, h), NEW i, NEW source
    PROVE  LET c == CountMissed(g, h, i, source)
           IN  /\ c \in Games /\ Counted(c)
               /\ c.phase = h.phase /\ c.turn = h.turn /\ c.current = h.current
               /\ c.key = h.key /\ c.bankrupt = h.bankrupt /\ c.bidders = h.bidders /\ c.bidder = h.bidder
<1> DEFINE Good(c) ==
              /\ c \in Games /\ Counted(c)
              /\ c.phase = h.phase /\ c.turn = h.turn /\ c.current = h.current
              /\ c.key = h.key /\ c.bankrupt = h.bankrupt /\ c.bidders = h.bidders /\ c.bidder = h.bidder
<1> SUFFICES Good(CountMissed(g, h, i, source))
    OBVIOUS
<1> HIDE DEF Good
<1>1. /\ h.missed = g.missed /\ h.lastMissed = g.lastMissed /\ h.turn >= g.turn
      /\ g.turn \in Nat \ {0} /\ h.turn \in Nat \ {0}
      /\ h.missed \in [Humans -> Nat] /\ h.lastMissed \in [Humans -> Nat]
      BY DEF Kept, Games
<1>2. Counted(h)
      BY <1>1 DEF Counted
<1>3. ASSUME NEW m \in [Humans -> Nat], NEW l \in [Humans -> Nat],
             \A k \in Humans : m[k] <= l[k] /\ l[k] <= h.turn
      PROVE  Good([h EXCEPT !.missed = m, !.lastMissed = l])
  <2> DEFINE c == [h EXCEPT !.missed = m, !.lastMissed = l]
  <2>1. /\ c \in Games /\ c.missed = m /\ c.lastMissed = l
        /\ c.phase = h.phase /\ c.turn = h.turn /\ c.current = h.current
        /\ c.key = h.key /\ c.bankrupt = h.bankrupt /\ c.bidders = h.bidders /\ c.bidder = h.bidder
        BY DEF Games
  <2> HIDE DEF c
  <2>2. QED  BY <1>3, <2>1 DEF Counted, c, Good
<1>4. CASE /\ source = "timer" /\ i.type = "roll_and_move" /\ i.by \in Humans
           /\ i.by = g.current /\ h.lastMissed[i.by] # g.turn
  <2> DEFINE m == [h.missed EXCEPT ![i.by] = @ + 1]
             l == [h.lastMissed EXCEPT ![i.by] = g.turn]
  <2>1. CountMissed(g, h, i, source) = [h EXCEPT !.missed[i.by] = @ + 1, !.lastMissed[i.by] = g.turn]
        BY <1>4 DEF CountMissed
  <2>2. CountMissed(g, h, i, source) = [h EXCEPT !.missed = m, !.lastMissed = l]
        BY <2>1 DEF Games
  <2>3. m \in [Humans -> Nat] /\ l \in [Humans -> Nat]
        BY <1>1, <1>4
  <2>4. ASSUME NEW k \in Humans PROVE m[k] <= l[k] /\ l[k] <= h.turn
    <3>1. /\ h.missed[k] \in Nat /\ h.lastMissed[k] \in Nat
          /\ h.missed[k] <= h.lastMissed[k] /\ h.lastMissed[k] <= g.turn
          /\ h.lastMissed[k] <= h.turn
          BY <1>1, <1>2 DEF Counted
    <3>2. CASE k = i.by
      <4>1. m[k] = h.missed[k] + 1 /\ l[k] = g.turn
            BY <1>1, <3>2
      <4>2. h.lastMissed[k] # g.turn
            BY <1>4, <3>2
      <4> HIDE DEF m, l
      <4>3. QED  BY <1>1, <3>1, <4>1, <4>2
    <3>3. CASE k # i.by
          BY <1>1, <3>1, <3>3
    <3>4. QED  BY <3>2, <3>3
  <2> HIDE DEF m, l
  <2>5. QED  BY <1>3, <2>2, <2>3, <2>4
<1>5. CASE source = "player" /\ i.by \in Humans
  <2> DEFINE m == [h.missed EXCEPT ![i.by] = 0]
             l == [h.lastMissed EXCEPT ![i.by] = 0]
  <2>1. CountMissed(g, h, i, source) = [h EXCEPT !.missed[i.by] = 0, !.lastMissed[i.by] = 0]
        BY <1>5 DEF CountMissed
  <2>2. CountMissed(g, h, i, source) = [h EXCEPT !.missed = m, !.lastMissed = l]
        BY <2>1 DEF Games
  <2>3. m \in [Humans -> Nat] /\ l \in [Humans -> Nat]
        BY <1>1
  <2>4. ASSUME NEW k \in Humans PROVE m[k] <= l[k] /\ l[k] <= h.turn
        BY <1>1, <1>2 DEF Counted
  <2> HIDE DEF m, l
  <2>5. QED  BY <1>3, <2>2, <2>3, <2>4
<1>6. CASE /\ ~(/\ source = "timer" /\ i.type = "roll_and_move" /\ i.by \in Humans
                /\ i.by = g.current /\ h.lastMissed[i.by] # g.turn)
           /\ ~(source = "player" /\ i.by \in Humans)
  <2>1. CountMissed(g, h, i, source) = h
        BY <1>6 DEF CountMissed
  <2>2. QED  BY <1>2, <2>1 DEF Good
<1>7. QED  BY <1>4, <1>5, <1>6

(* A new deadline has a name that neither the state nor a job knows.       *)
LEMMA FreshFacts ==
    ASSUME game \in Games, queue \subseteq Jobs, IsFiniteSet(queue)
    PROVE  Fresh \in Nat /\ Fresh # game.key /\ \A j \in queue : j.key # Fresh
<1> DEFINE keys == {j.key : j \in queue}
           held == keys \cup {game.key}
           f == [j \in queue |-> j.key]
<1>1. f \in Surjection(queue, keys)
      BY DEF Surjection
<1>2. IsFiniteSet(held)
  <2> HIDE DEF f, keys
  <2>1. IsFiniteSet(keys)
        BY <1>1, FS_Surjection
  <2>2. QED  BY <2>1, FS_AddElement
<1>3. PICK c : c = Cardinality(held)
      OBVIOUS
<1>4. c \in Nat
      BY <1>2, <1>3, FS_CardinalityType
<1>5. 1..c + 1 \ held # {}
  <2> HIDE DEF held
  <2>1. SUFFICES ASSUME 1..c + 1 \subseteq held PROVE FALSE
        OBVIOUS
  <2>2. Cardinality(1..c + 1) = c + 1
        BY <1>4, FS_Interval
  <2>3. Cardinality(1..c + 1) <= c
        BY <1>2, <1>3, <2>1, FS_Subset
  <2>4. QED  BY <1>4, <2>2, <2>3
<1>6. Fresh = Min(1..c + 1 \ held)
      BY <1>3 DEF Fresh
<1>7. 1..c + 1 \ held \subseteq Nat
      BY <1>4
<1>8. Fresh \in 1..c + 1 \ held
      BY <1>5, <1>6, <1>7, MinIn
<1>9. QED  BY <1>7, <1>8

(* A deadline that is kept is that of the same turn, player and phase, and *)
(* a new one is unknown to the queue.                                      *)
Moves(g) ==
    /\ g.key # game.key => \A j \in queue : j.key # g.key
    /\ g.key = game.key /\ ~Finished(g) =>
          g.turn = game.turn /\ g.current = game.current /\ g.phase = game.phase

(* Every state that executeIntent may store: in particular, what a timer   *)
(* decides after the deadline of the player on turn ends that deadline.    *)
LEMMA ResultFacts ==
    ASSUME game \in Games, Sound(game), Counted(game), queue \subseteq Jobs, IsFiniteSet(queue),
           NEW i, Signed(i), NEW source, NEW r \in Results(i, source)
    PROVE  /\ ~Finished(game) /\ r \in Games /\ Sound(r) /\ Counted(r) /\ Moves(r)
           /\ overdue /\ Decided(i, game.current) => Finished(r) \/ r.key # game.key
<1>1. PICK e : e = Effective(game, i)
      OBVIOUS
<1>2. Signed(e) /\ (Decided(i, game.current) => Decided(e, game.current))
      BY <1>1 DEF Effective, Signed, Intents, Decided
<1>3. Accepts(game, e)
      BY <1>1 DEF Results
<1>4. PICK h \in Outcomes(game, e) : r = Deadline(game, CountMissed(game, h, e, source), e)
      BY <1>1, <1>3 DEF Results
<1>5. Outcome(game, e, h) /\ ~Finished(game)
      BY <1>2, <1>3, OutcomeFacts DEF Accepts
<1>6. PICK c : c = CountMissed(game, h, e, source)
      OBVIOUS
<1>7. /\ c \in Games /\ Counted(c) /\ c.phase = h.phase /\ c.turn = h.turn
      /\ c.current = h.current /\ c.key = h.key /\ c.bankrupt = h.bankrupt
      /\ c.bidders = h.bidders /\ c.bidder = h.bidder /\ h.key = game.key
      BY <1>5, <1>6, CountMissedFacts DEF Outcome, Kept
<1>8. Sound(c)
      BY <1>5, <1>7 DEF Outcome, Sound, Finished
<1>9. PICK k : k = IF Finished(c) \/ KeepsDeadline(game, c, e) THEN game.key ELSE Fresh
      OBVIOUS
<1>10. k \in Nat /\ (k # game.key => \A j \in queue : j.key # k)
      BY <1>9, FreshFacts DEF Games
<1>11. r = [c EXCEPT !.key = k]
      BY <1>4, <1>6, <1>7, <1>9 DEF Deadline
<1>12. /\ r \in Games /\ r.key = k /\ r.phase = c.phase /\ r.turn = c.turn
       /\ r.current = c.current /\ r.bankrupt = c.bankrupt /\ r.bidders = c.bidders /\ r.bidder = c.bidder
       /\ r.missed = c.missed /\ r.lastMissed = c.lastMissed
       BY <1>7, <1>10, <1>11 DEF Games
<1>13. Sound(r) /\ Counted(r)
       BY <1>7, <1>8, <1>12 DEF Sound, Counted, Finished
<1>14. ASSUME k = game.key, ~Finished(r)
       PROVE  /\ r.turn = game.turn /\ r.current = game.current /\ r.phase = game.phase
              /\ ~(overdue /\ Decided(e, game.current))
  <2>1. KeepsDeadline(game, c, e)
        BY <1>9, <1>12, <1>14, FreshFacts DEF Finished
  <2>2. CASE c.phase = "awaiting_auction_bid"
    <3>1. e.type \notin Bidding
          BY <2>1, <2>2 DEF KeepsDeadline, Bidding
    <3>2. QED  BY <1>5, <1>7, <1>12, <2>2, <3>1 DEF Outcome
  <2>3. CASE c.phase # "awaiting_auction_bid"
        BY <1>12, <2>1, <2>3 DEF KeepsDeadline
  <2>4. QED  BY <2>2, <2>3
<1>15. Moves(r)
       BY <1>10, <1>12, <1>14 DEF Moves
<1>16. QED  BY <1>2, <1>5, <1>12, <1>13, <1>14, <1>15

---------------------------------------------------------------------------
(* The queue *)

(* No two jobs have one id, and a job that may still run has attempts left.*)
QueueOK(q) ==
    /\ q \subseteq Jobs /\ IsFiniteSet(q)
    /\ \A j, k \in q : Id(j) = Id(k) => j = k
    /\ \A j \in q : j.status \in {"waiting", "active"} => j.tries < Attempts

(* r is what is left of q after enqueueing for the state g: no active job  *)
(* is lost, new jobs wait, and a new timer is that of g.                   *)
Extended(q, r, g) ==
    /\ QueueOK(r)
    /\ \A k \in q : k.status = "active" => k \in r
    /\ \A k \in r \ q : k.status = "waiting" /\ (k.kind = "timer" => Id(k) = Id(TimerJob(g)))

LEMMA ExtendedReflexive ==
    ASSUME NEW q, QueueOK(q), NEW g
    PROVE  Extended(q, q, g)
BY DEF Extended

LEMMA ExtendedTransitive ==
    ASSUME NEW q, NEW r, NEW s, NEW g, Extended(q, r, g), Extended(r, s, g)
    PROVE  Extended(q, s, g)
BY DEF Extended

LEMMA AddFacts ==
    ASSUME NEW q, QueueOK(q), NEW g,
           NEW job \in Jobs, job.status = "waiting", job.tries = 0,
           job.kind = "timer" => Id(job) = Id(TimerJob(g)),
           NEW removable, removable \subseteq {"failed", "completed"}
    PROVE  Extended(q, Add(q, job, removable), g)
<1>1. CASE \E k \in q : Id(k) = Id(job) /\ k.status \notin removable
  <2>1. Add(q, job, removable) = q
        BY <1>1 DEF Add
  <2>2. QED  BY <2>1, ExtendedReflexive
<1>2. CASE ~\E k \in q : Id(k) = Id(job) /\ k.status \notin removable
  <2> DEFINE others == {k \in q : Id(k) # Id(job)}
             r == others \cup {job}
  <2>1. Add(q, job, removable) = r
        BY <1>2 DEF Add
  <2>2. IsFiniteSet(r)
    <3>1. others \in SUBSET q /\ IsFiniteSet(q)
          BY DEF QueueOK
    <3>2. IsFiniteSet(others)
          BY <3>1, FS_Subset
    <3> HIDE DEF others
    <3>3. QED  BY <3>2, FS_AddElement
  <2>3. \A j, k \in r : Id(j) = Id(k) => j = k
        BY DEF QueueOK
  <2>4. \A j \in r : j.status \in {"waiting", "active"} => j.tries < Attempts
        BY BoundAssumption DEF QueueOK
  <2>5. r \subseteq Jobs
        BY DEF QueueOK
  <2>6. \A k \in q : k.status = "active" => k \in r
        BY <1>2
  <2>7. \A k \in r \ q : k = job
        OBVIOUS
  <2> HIDE DEF r
  <2>8. QED  BY <2>1, <2>2, <2>3, <2>4, <2>5, <2>6, <2>7 DEF Extended, QueueOK
<1>3. QED  BY <1>1, <1>2

LEMMA EnqueueTurnTimerFacts ==
    ASSUME NEW q, QueueOK(q), NEW g \in Games
    PROVE  Extended(q, EnqueueTurnTimer(q, g), g)
<1>1. PICK job : job = TimerJob(g)
      OBVIOUS
<1>2. job \in Jobs /\ job.status = "waiting" /\ job.tries = 0
      BY <1>1, BoundAssumption DEF TimerJob, Job, Jobs, Games
<1>3. Extended(q, Add(q, job, {"failed"}), g)
      BY <1>1, <1>2, AddFacts
<1>4. QED  BY <1>1, <1>3, ExtendedReflexive DEF EnqueueTurnTimer

LEMMA EnqueueBotFacts ==
    ASSUME NEW q, QueueOK(q), NEW g \in Games
    PROVE  Extended(q, EnqueueIfBotCanAct(q, g), g)
<1>1. PICK job : job = BotJob(g)
      OBVIOUS
<1>2. job \in Jobs /\ job.status = "waiting" /\ job.tries = 0 /\ job.kind = "bot"
      BY <1>1, BoundAssumption DEF BotJob, Job, Jobs, Games, ActionBot
<1>3. Extended(q, Add(q, job, {"failed", "completed"}), g)
      BY <1>2, AddFacts
<1>4. QED  BY <1>1, <1>3, ExtendedReflexive DEF EnqueueIfBotCanAct

LEMMA EnqueueExpiryFacts ==
    ASSUME NEW q, QueueOK(q), NEW g
    PROVE  Extended(q, EnqueueGameExpiry(q), g)
<1>1. PICK job : job = ExpiryJob
      OBVIOUS
<1>2. job \in Jobs /\ job.status = "waiting" /\ job.tries = 0 /\ job.kind = "expiry"
      BY <1>1, BoundAssumption DEF ExpiryJob, Job, Jobs
<1>3. QED  BY <1>1, <1>2, AddFacts DEF EnqueueGameExpiry

LEMMA EnqueueFacts ==
    ASSUME NEW q, QueueOK(q), NEW g \in Games, NEW lost
    PROVE  Extended(q, Enqueue(q, g, lost), g)
<1>1. PICK b : b = IF "bot" \in lost THEN q ELSE EnqueueIfBotCanAct(q, g)
      OBVIOUS
<1>2. Extended(q, b, g)
      BY <1>1, ExtendedReflexive, EnqueueBotFacts
<1>3. QueueOK(b)
      BY <1>2 DEF Extended
<1>4. Extended(q, EnqueueTurnTimer(b, g), g)
      BY <1>2, <1>3, EnqueueTurnTimerFacts, ExtendedTransitive
<1>5. QED  BY <1>1, <1>2, <1>4 DEF Enqueue

(* The job j of q gets a status and a number of attempts.                  *)
LEMMA SetJobFacts ==
    ASSUME NEW q, QueueOK(q), NEW j \in q,
           NEW status \in {"waiting", "active", "completed", "failed"}, NEW n \in 0..Attempts,
           status \in {"waiting", "active"} => n < Attempts
    PROVE  QueueOK(SetJob(q, j, status, n))
<1>1. PICK c : c = [j EXCEPT !.status = status, !.tries = n]
      OBVIOUS
<1>2. c \in Jobs /\ Id(c) = Id(j) /\ c.status = status /\ c.tries = n
      BY <1>1 DEF QueueOK, Jobs, Id
<1>3. SetJob(q, j, status, n) = (q \ {j}) \cup {c}
      BY <1>1 DEF SetJob
<1>4. IsFiniteSet((q \ {j}) \cup {c})
      BY FS_RemoveElement, FS_AddElement DEF QueueOK
<1>5. QED  BY <1>2, <1>3, <1>4 DEF QueueOK

LEMMA MattersFacts ==
    ASSUME NEW q, QueueOK(q), NEW g
    PROVE  QueueOK({j \in q : Matters(j, g)})
<1> DEFINE r == {j \in q : Matters(j, g)}
<1>1. r \in SUBSET q /\ IsFiniteSet(q)
      BY DEF QueueOK
<1> HIDE DEF r
<1>2. IsFiniteSet(r)
      BY <1>1, FS_Subset
<1>3. QueueOK(r)
      BY <1>1, <1>2 DEF QueueOK
<1>4. QED  BY <1>3 DEF r

(* An active job matters in every state.                                   *)
LEMMA ActiveMatters ==
    ASSUME NEW j \in Jobs, j.status = "active", NEW g
    PROVE  Matters(j, g)
BY DEF Matters, Jobs

---------------------------------------------------------------------------
(* Timers *)

(* A timer that runs for the current deadline runs after it; one that no   *)
(* worker holds is the timer of the current deadline; and the timer of the *)
(* current deadline is that of the state, and not spent.                   *)
TimersOK(q, g, o) ==
    \A j \in q : j.kind = "timer" =>
        /\ j.status = "active" /\ j.key = g.key => o
        /\ j.status # "active" => j.key = g.key
        /\ j.key = g.key /\ ~Finished(g) => Id(j) = Id(TimerJob(g)) /\ j.status # "completed"

(* The game moves to g, and the deadline stays overdue if it stays.        *)
Advances(g, o) ==
    /\ g \in Games /\ Moves(g)
    /\ Finished(game) => Finished(g)
    /\ g.key = game.key /\ overdue => o

LEMMA TimersExtended ==
    ASSUME QueueOK(queue), TimersOK(queue, game, overdue), NEW g, NEW o, Advances(g, o),
           NEW r, Extended(queue, r, g), NEW j \in r, j.kind = "timer",
           j.status = "active" \/ j.key = g.key
    PROVE  /\ j.status = "active" /\ j.key = g.key => o
           /\ j.status # "active" => j.key = g.key
           /\ j.key = g.key /\ ~Finished(g) => Id(j) = Id(TimerJob(g)) /\ j.status # "completed"
<1>1. CASE j \in queue
  <2>1. j.key = g.key => g.key = game.key
        BY <1>1 DEF Advances, Moves
  <2>2. /\ j.status = "active" /\ j.key = game.key => overdue
        /\ j.key = game.key /\ ~Finished(game) =>
              Id(j) = Id(TimerJob(game)) /\ j.status # "completed"
        BY <1>1 DEF TimersOK
  <2>3. g.key = game.key /\ ~Finished(g) => Id(TimerJob(g)) = Id(TimerJob(game))
        BY DEF Advances, Moves, Id, TimerJob, Job
  <2>4. QED  BY <2>1, <2>2, <2>3 DEF Advances
<1>2. CASE j \notin queue
  <2>1. j.status = "waiting" /\ Id(j) = Id(TimerJob(g))
        BY <1>2 DEF Extended
  <2>2. j.key = g.key
        BY <2>1 DEF Id, TimerJob, Job
  <2>3. QED  BY <2>1, <2>2
<1>3. QED  BY <1>1, <1>2

(* The queue operations of a client or of the watchdog.                    *)
LEMMA TimersKept ==
    ASSUME QueueOK(queue), TimersOK(queue, game, overdue), NEW g, NEW o, Advances(g, o),
           NEW r, Extended(queue, r, g)
    PROVE  TimersOK({j \in r : Matters(j, g)}, g, o)
<1>1. SUFFICES ASSUME NEW j \in r, Matters(j, g), j.kind = "timer"
               PROVE  /\ j.status = "active" /\ j.key = g.key => o
                      /\ j.status # "active" => j.key = g.key
                      /\ j.key = g.key /\ ~Finished(g) =>
                            Id(j) = Id(TimerJob(g)) /\ j.status # "completed"
      BY DEF TimersOK
<1>2. j.status = "active" \/ j.key = g.key
      BY <1>1 DEF Matters
<1>3. QED  BY <1>1, <1>2, TimersExtended

(* The end of a worker's job: spent, put back or failed.                   *)
LEMMA TimersReleased ==
    ASSUME QueueOK(queue), TimersOK(queue, game, overdue), NEW g, NEW o, Advances(g, o),
           NEW r, Extended(queue, r, g), NEW job \in queue, job.status = "active",
           NEW status \in {"waiting", "completed", "failed"}, NEW n \in 0..Attempts,
           status = "waiting" => n < Attempts,
           job.kind = "timer" /\ job.key = g.key /\ ~Finished(g) => status # "completed"
    PROVE  TimersOK({j \in SetJob(r, job, status, n) : Matters(j, g)}, g, o)
<1>1. PICK c : c = [job EXCEPT !.status = status, !.tries = n]
      OBVIOUS
<1>2. job \in r /\ QueueOK(r)
      BY DEF Extended
<1>3. /\ SetJob(r, job, status, n) = (r \ {job}) \cup {c}
      /\ Id(c) = Id(job) /\ c.status = status /\ c.kind = job.kind /\ c.key = job.key
  <2>1. job \in Jobs
        BY DEF QueueOK
  <2>2. QED  BY <1>1, <2>1 DEF SetJob, Jobs, Id
<1>4. SUFFICES ASSUME NEW j \in (r \ {job}) \cup {c}, Matters(j, g), j.kind = "timer"
               PROVE  /\ j.status = "active" /\ j.key = g.key => o
                      /\ j.status # "active" => j.key = g.key
                      /\ j.key = g.key /\ ~Finished(g) =>
                            Id(j) = Id(TimerJob(g)) /\ j.status # "completed"
      BY <1>3 DEF TimersOK
<1>5. j.status = "active" \/ j.key = g.key
      BY <1>4 DEF Matters
<1>6. CASE j \in r
      BY <1>4, <1>5, <1>6, TimersExtended
<1>7. CASE j = c
  <2>1. job.kind = "timer"
        BY <1>3, <1>4, <1>7
  <2>2. job.key = g.key /\ ~Finished(g) => Id(job) = Id(TimerJob(g))
        BY <1>2, <2>1, TimersExtended
  <2>3. QED  BY <1>3, <1>5, <1>7, <2>1, <2>2
<1>8. QED  BY <1>4, <1>6, <1>7

---------------------------------------------------------------------------
(* Workers and the watchdog *)

(* A worker that is not idle holds an active job of the queue, no other    *)
(* worker holds it, and what it decided for a timer is a timeout of the    *)
(* job's player.                                                           *)
ProcsOK(q, pr) ==
    /\ pr \in [Procs -> [pc : {"idle", "read", "execute"}, job : Jobs \cup {None},
                         intent : Intents \cup {None}]]
    /\ pr[Watchdog].job = None
    /\ \A x \in Procs : pr[x].pc = "execute" => Signed(pr[x].intent)
    /\ \A w \in Workers :
        /\ pr[w].pc = "idle" => pr[w].job = None
        /\ pr[w].pc # "idle" => pr[w].job \in q /\ pr[w].job.status = "active"
        /\ pr[w].pc = "execute" /\ pr[w].job.kind = "timer" =>
              Decided(pr[w].intent, pr[w].job.player)
    /\ \A v, w \in Workers :
        v # w /\ pr[v].pc # "idle" /\ pr[w].pc # "idle" => pr[v].job # pr[w].job

(* The others' jobs stay where they are.                                   *)
LEMMA ProcsKept ==
    ASSUME QueueOK(queue), ProcsOK(queue, proc), NEW r, NEW g, Extended(queue, r, g)
    PROVE  ProcsOK(r, proc) /\ ProcsOK({j \in r : Matters(j, g)}, proc)
<1>1. ASSUME NEW w \in Workers, proc[w].pc # "idle"
      PROVE  proc[w].job \in r /\ Matters(proc[w].job, g)
  <2>1. proc[w].job \in queue /\ proc[w].job.status = "active"
        BY <1>1 DEF ProcsOK
  <2>2. QED  BY <2>1, ActiveMatters DEF Extended, QueueOK
<1>2. QED  BY <1>1 DEF ProcsOK

LEMMA ProcReleases ==
    ASSUME QueueOK(queue), ProcsOK(queue, proc), NEW r, NEW g, Extended(queue, r, g),
           NEW w \in Workers, proc[w].pc # "idle",
           NEW status \in {"waiting", "completed", "failed"}, NEW n \in 0..Attempts,
           status = "waiting" => n < Attempts
    PROVE  ProcsOK({j \in SetJob(r, proc[w].job, status, n) : Matters(j, g)},
                   [proc EXCEPT ![w] = Idle])
<1> DEFINE s == {j \in SetJob(r, proc[w].job, status, n) : Matters(j, g)}
           pr == [proc EXCEPT ![w] = Idle]
<1>1. ASSUME NEW v \in Workers, v # w, proc[v].pc # "idle"
      PROVE  proc[v].job \in s
  <2>1. proc[v].job \in queue /\ proc[v].job.status = "active" /\ proc[v].job # proc[w].job
        BY <1>1 DEF ProcsOK
  <2>2. proc[v].job \in r /\ Matters(proc[v].job, g)
        BY <2>1, ActiveMatters DEF Extended, QueueOK
  <2>3. QED  BY <2>1, <2>2 DEF SetJob
<1> HIDE DEF s
<1>2. proc \in [Procs -> [pc : {"idle", "read", "execute"}, job : Jobs \cup {None},
                          intent : Intents \cup {None}]]
      BY DEF ProcsOK
<1>3. w \in Procs /\ w # Watchdog
      BY ProcessAssumption DEF Procs
<1>4. Idle \in [pc : {"idle", "read", "execute"}, job : Jobs \cup {None},
                intent : Intents \cup {None}]
      BY DEF Idle
<1>5. pr[w].pc = "idle" /\ pr[w].job = None /\ \A x \in Procs \ {w} : pr[x] = proc[x]
      BY <1>2, <1>3 DEF Idle
<1>6. pr \in [Procs -> [pc : {"idle", "read", "execute"}, job : Jobs \cup {None},
                        intent : Intents \cup {None}]]
      BY <1>2, <1>4
<1> HIDE DEF pr
<1>7. Workers \subseteq Procs /\ Watchdog \in Procs
      BY DEF Procs
<1>8. ProcsOK(s, pr)
      BY <1>1, <1>3, <1>5, <1>6, <1>7 DEF ProcsOK
<1>9. QED  BY <1>8 DEF s, pr

(* A process decides on an intent.                                         *)
LEMMA ProcDecides ==
    ASSUME ProcsOK(queue, proc), NEW x \in Procs, NEW i, Signed(i),
           x \in Workers => proc[x].pc # "idle",
           x \in Workers /\ proc[x].job.kind = "timer" => Decided(i, proc[x].job.player)
    PROVE  ProcsOK(queue, [proc EXCEPT ![x].pc = "execute", ![x].intent = i])
<1> DEFINE pr == [proc EXCEPT ![x].pc = "execute", ![x].intent = i]
<1>1. proc \in [Procs -> [pc : {"idle", "read", "execute"}, job : Jobs \cup {None},
                          intent : Intents \cup {None}]]
      BY DEF ProcsOK
<1>2. i \in Intents
      BY DEF Signed
<1>3. /\ pr[x].pc = "execute" /\ pr[x].intent = i /\ pr[x].job = proc[x].job
      /\ \A y \in Procs \ {x} : pr[y] = proc[y]
      BY <1>1
<1>4. pr \in [Procs -> [pc : {"idle", "read", "execute"}, job : Jobs \cup {None},
                        intent : Intents \cup {None}]]
      BY <1>1, <1>2
<1> HIDE DEF pr
<1>5. Workers \subseteq Procs /\ Watchdog \in Procs
      BY DEF Procs
<1>6. ProcsOK(queue, pr)
      BY <1>3, <1>4, <1>5 DEF ProcsOK
<1>7. QED  BY <1>6 DEF pr

---------------------------------------------------------------------------
(* The inductive invariant *)

Inv ==
    /\ game \in Games /\ Sound(game) /\ Counted(game)
    /\ overdue \in BOOLEAN /\ expired \in BOOLEAN
    /\ QueueOK(queue) /\ TimersOK(queue, game, overdue) /\ ProcsOK(queue, proc)

(* It gives the properties that the runs check.                            *)
LEMMA InvTypeOK == Inv => TypeOK
<1>1. SUFFICES ASSUME Inv PROVE TypeOK
      OBVIOUS
<1>2. ASSUME NEW x \in Procs
      PROVE  proc[x].job \in queue \cup {None} /\ proc[x].intent \in Intents \cup {None}
      BY <1>1 DEF Inv, ProcsOK, Procs
<1>3. QED  BY <1>1, <1>2 DEF Inv, TypeOK, QueueOK

LEMMA InvTimerNotSpent == Inv => TimerNotSpent
<1>1. SUFFICES ASSUME Inv, ~Finished(game), NEW j \in queue, Id(j) = Id(TimerJob(game))
               PROVE  j.status # "completed"
      BY DEF TimerNotSpent
<1>2. j.kind = "timer" /\ j.key = game.key
      BY <1>1 DEF Id, TimerJob, Job
<1>3. QED  BY <1>1, <1>2 DEF Inv, TimersOK

LEMMA InvMissed == Inv => MissedOncePerTurn
BY DEF Inv, Counted, MissedOncePerTurn

LEMMA InitInv == Init => Inv
<1>1. SUFFICES ASSUME Init PROVE Inv
      OBVIOUS
<1>2. PICK m : m = Min(Players)
      OBVIOUS
<1>3. m \in Players
      BY <1>2, MinIn, PlayersAssumption DEF Players
<1>4. /\ game \in Games /\ game.key = 1 /\ game.phase = "awaiting_roll" /\ game.turn = 1
      /\ game.bankrupt = {} /\ game.current = m
      /\ \A h \in Humans : game.missed[h] = 0 /\ game.lastMissed[h] = 0
  <2>1. ASSUME NEW b \in BOOLEAN, NEW d \in 0..MaxDoubles,
               game = [phase |-> "awaiting_roll", turn |-> 1, current |-> m,
                       bidder |-> None, bidders |-> {}, highest |-> None, again |-> b,
                       doubles |-> d, offer |-> b, key |-> 1, bankrupt |-> {},
                       missed |-> [h \in Humans |-> 0], lastMissed |-> [h \in Humans |-> 0]]
        PROVE  /\ game \in Games /\ game.key = 1 /\ game.phase = "awaiting_roll" /\ game.turn = 1
               /\ game.bankrupt = {} /\ game.current = m
               /\ \A h \in Humans : game.missed[h] = 0 /\ game.lastMissed[h] = 0
        BY <1>3, <2>1 DEF Games, Phases
  <2> DEFINE g(b, d) == [phase |-> "awaiting_roll", turn |-> 1, current |-> m,
                       bidder |-> None, bidders |-> {}, highest |-> None, again |-> b,
                       doubles |-> d, offer |-> b, key |-> 1, bankrupt |-> {},
                       missed |-> [h \in Humans |-> 0], lastMissed |-> [h \in Humans |-> 0]]
  <2>2. \A b \in BOOLEAN, d \in 0..MaxDoubles : game = g(b, d) =>
          /\ game \in Games /\ game.key = 1 /\ game.phase = "awaiting_roll" /\ game.turn = 1
          /\ game.bankrupt = {} /\ game.current = m
          /\ \A h \in Humans : game.missed[h] = 0 /\ game.lastMissed[h] = 0
        BY <2>1
  <2>3. game = g(FALSE, 0)
        BY <1>1, <1>2 DEF Init
  <2>4. FALSE \in BOOLEAN /\ 0 \in 0..MaxDoubles
        BY BoundAssumption
  <2> HIDE DEF g
  <2>5. QED  BY <2>2, <2>3, <2>4
<1>5. Sound(game) /\ Counted(game)
      BY <1>4 DEF Sound, Counted, Finished
<1>6. PICK j, k : j = TimerJob(game) /\ k = ExpiryJob
      OBVIOUS
<1>7. /\ j \in Jobs /\ j.kind = "timer" /\ j.status = "waiting" /\ j.tries = 0
      /\ k \in Jobs /\ k.kind = "expiry" /\ k.status = "waiting" /\ k.tries = 0
      /\ j.key = game.key /\ Id(j) # Id(k)
      BY <1>4, <1>6, BoundAssumption DEF Jobs, TimerJob, ExpiryJob, Job, Games, Id
<1>8. queue = {j, k}
      BY <1>1, <1>6 DEF Init
<1>9. QueueOK(queue)
  <2>1. IsFiniteSet({j, k})
    <3>1. {j, k} = {j} \cup {k}
          OBVIOUS
    <3>2. IsFiniteSet({j})
          BY FS_Singleton
    <3>3. QED  BY <3>1, <3>2, FS_AddElement
  <2>2. QED  BY <1>7, <1>8, <2>1, BoundAssumption DEF QueueOK
<1>10. TimersOK(queue, game, overdue)
       BY <1>6, <1>7, <1>8 DEF TimersOK
<1>11. ProcsOK(queue, proc)
       BY <1>1 DEF Init, ProcsOK, Idle, Procs
<1>12. overdue \in BOOLEAN /\ expired \in BOOLEAN
       BY <1>1 DEF Init
<1>13. QED  BY <1>4, <1>5, <1>9, <1>10, <1>11, <1>12 DEF Inv

---------------------------------------------------------------------------
(* Steps *)

LEMMA CommitFacts ==
    ASSUME Inv, NEW i, Signed(i), NEW source, NEW r \in Results(i, source), NEW o,
           overdue /\ r.key = game.key => o
    PROVE  /\ ~Finished(game) /\ r \in Games /\ Sound(r) /\ Counted(r) /\ Advances(r, o)
           /\ overdue /\ Decided(i, game.current) => Finished(r) \/ r.key # game.key
<1>1. /\ game \in Games /\ Sound(game) /\ Counted(game) /\ queue \subseteq Jobs
      /\ IsFiniteSet(queue)
      BY DEF Inv, QueueOK
<1>2. QED  BY <1>1, ResultFacts DEF Advances

LEMMA StayFacts ==
    ASSUME Inv
    PROVE  Advances(game, overdue)
BY DEF Inv, Advances, Moves

LEMMA PlayerIntentsSigned ==
    ASSUME NEW g, NEW i \in PlayerIntents(g)
    PROVE  Signed(i)
BY PlayersAssumption DEF PlayerIntents, Signed, Intent, Intents, Players

LEMMA BotIntentsSigned ==
    ASSUME NEW g \in Games, NEW i \in BotIntents(g)
    PROVE  Signed(i)
<1> DEFINE types == CASE g.phase = "awaiting_roll" -> {"roll_and_move", "manage"}
                      [] g.phase = "awaiting_property_decision" ->
                           {"buy_property", "decline_property_purchase"}
                      [] g.phase = "awaiting_auction_bid" ->
                           {"place_auction_bid", "pass_auction_bid"}
                      [] g.phase = "awaiting_debt_resolution" -> {"auto_resolve_debt"}
                      [] g.phase = "awaiting_turn_end" ->
                           IF g.offer THEN {} ELSE {"manage", "propose_trade", "end_turn"}
                      [] g.phase = "finished" -> {}
<1>1. types \subseteq {"roll_and_move", "manage", "buy_property", "decline_property_purchase",
                       "place_auction_bid", "pass_auction_bid", "auto_resolve_debt",
                       "propose_trade", "end_turn"}
      BY DEF Games, Phases
<1>2. i \in {Intent(t, ActionBot(g)) : t \in types}
      BY DEF BotIntents
<1> HIDE DEF types
<1>3. PICK t \in {"roll_and_move", "manage", "buy_property", "decline_property_purchase",
                  "place_auction_bid", "pass_auction_bid", "auto_resolve_debt",
                  "propose_trade", "end_turn"} : i = Intent(t, ActionBot(g))
      BY <1>1, <1>2
<1>4. ActionBot(g) \in Players
      BY DEF BotIntents, Players
<1>5. QED  BY <1>3, <1>4, PlayersAssumption DEF Signed, Intent, Intents

LEMMA TimeoutIntentSigned ==
    ASSUME game \in Games, Sound(game), TimeoutIntent(game) # None
    PROVE  Signed(TimeoutIntent(game)) /\ Decided(TimeoutIntent(game), game.current)
<1>1. ~Finished(game) /\ game.current \in Players /\ game.current # None
      BY PlayersAssumption DEF TimeoutIntent, Games
<1>2. CASE expired
  <2>1. TimeoutIntent(game) = Intent("finish_game", None)
        BY <1>1, <1>2 DEF TimeoutIntent
  <2>2. QED  BY <2>1 DEF Signed, Decided, Intent, Intents
<1>3. CASE ~expired /\ ShouldForfeit(game, game.current)
  <2>1. TimeoutIntent(game) = Intent("declare_bankruptcy", game.current)
        BY <1>1, <1>3 DEF TimeoutIntent
  <2>2. QED  BY <1>1, <2>1 DEF Signed, Decided, Intent, Intents
<1>4. CASE ~expired /\ ~ShouldForfeit(game, game.current)
  <2>1. TimeoutIntent(game) = OnTimeout(game, game.current)
        BY <1>1, <1>4 DEF TimeoutIntent
  <2>2. PICK t, p : /\ OnTimeout(game, game.current) = Intent(t, p)
                    /\ p \in {game.current, game.bidder}
                    /\ t \in {"roll_and_move", "decline_property_purchase", "pass_auction_bid",
                              "auto_resolve_debt", "end_turn"}
                    /\ p = game.current \/ game.phase = "awaiting_auction_bid"
    <3>1. game.phase \in Phases /\ game.phase # "finished"
          BY <1>1 DEF Games, Finished
    <3>2. QED  BY <3>1 DEF Phases, OnTimeout
  <2>3. p \in Players /\ p # None
        BY <1>1, <2>2 DEF Games, Sound
  <2>4. QED  BY <2>1, <2>2, <2>3 DEF Signed, Decided, Intent, Intents
<1>5. QED  BY <1>2, <1>3, <1>4

(* An overdue timer of the state decides something.                        *)
LEMMA TimeoutIntentExists ==
    ASSUME game \in Games, Sound(game), ~Finished(game), overdue
    PROVE  TimeoutIntent(game) # None
<1>1. game.current \in Players /\ game.current \notin game.bankrupt /\ game.bidder \in Players \cup {None}
      BY DEF Games, Sound
<1>2. \A t, p : t \in {"roll_and_move", "decline_property_purchase", "pass_auction_bid",
                       "auto_resolve_debt", "end_turn", "declare_bankruptcy", "finish_game"}
                /\ p \in Players \cup {None} => Intent(t, p) # None
      BY NoneAssumption DEF Intents, Intent
<1>3. OnTimeout(game, game.current) # None
  <2>1. game.phase \in Phases /\ game.phase # "finished"
        BY DEF Games, Finished
  <2>2. QED  BY <1>1, <1>2, <2>1 DEF Phases, OnTimeout
<1>4. QED  BY <1>1, <1>2, <1>3 DEF TimeoutIntent

LEMMA TickInv == Inv /\ Tick => Inv'
BY DEF Inv, Tick, TimersOK

(* A client or the watchdog moves the game to g and enqueues for it.       *)
LEMMA ClientStep ==
    ASSUME Inv, NEW g, NEW o \in BOOLEAN, Sound(g), Counted(g), Advances(g, o),
           NEW r, Extended(queue, r, g),
           game' = g, overdue' = o, expired' = expired, proc' = proc,
           queue' = {j \in r : Matters(j, g)}
    PROVE  Inv'
<1>1. QueueOK(queue) /\ TimersOK(queue, game, overdue) /\ ProcsOK(queue, proc)
      BY DEF Inv
<1>2. PICK q : q = {j \in r : Matters(j, g)}
      OBVIOUS
<1>3. QueueOK(q)
      BY <1>2, MattersFacts DEF Extended
<1>4. TimersOK(q, g, o)
      BY <1>1, <1>2, TimersKept
<1>5. ProcsOK(q, proc)
      BY <1>1, <1>2, ProcsKept
<1>6. queue' = q
      BY <1>2
<1>7. QED  BY <1>3, <1>4, <1>5, <1>6 DEF Inv, Advances

(* A worker ends its job in the state g.                                   *)
LEMMA WorkerStep ==
    ASSUME Inv, NEW g, NEW o \in BOOLEAN, Sound(g), Counted(g), Advances(g, o),
           NEW r, Extended(queue, r, g), NEW w \in Workers, proc[w].pc # "idle",
           NEW status \in {"waiting", "completed", "failed"}, NEW n \in 0..Attempts,
           status = "waiting" => n < Attempts,
           proc[w].job.kind = "timer" /\ proc[w].job.key = g.key /\ ~Finished(g) =>
              status # "completed",
           game' = g, overdue' = o, expired' = expired, proc' = [proc EXCEPT ![w] = Idle],
           queue' = {j \in SetJob(r, proc[w].job, status, n) : Matters(j, g)}
    PROVE  Inv'
<1>1. QueueOK(queue) /\ TimersOK(queue, game, overdue) /\ ProcsOK(queue, proc)
      BY DEF Inv
<1>2. PICK job, q, pr : /\ job = proc[w].job
                        /\ q = {j \in SetJob(r, job, status, n) : Matters(j, g)}
                        /\ pr = [proc EXCEPT ![w] = Idle]
      OBVIOUS
<1>3. job \in queue /\ job.status = "active"
      BY <1>1, <1>2 DEF ProcsOK
<1>4. job \in r /\ QueueOK(r)
      BY <1>3 DEF Extended
<1>5. QueueOK(SetJob(r, job, status, n))
  <2>1. /\ status \in {"waiting", "active", "completed", "failed"}
        /\ status \in {"waiting", "active"} => n < Attempts
        OBVIOUS
  <2>2. QED  BY <1>4, <2>1, SetJobFacts
<1>6. QueueOK(q)
      BY <1>2, <1>5, MattersFacts
<1>7. TimersOK(q, g, o)
      BY <1>1, <1>2, <1>3, TimersReleased
<1>8. ProcsOK(q, pr)
      BY <1>1, <1>2, ProcReleases
<1>9. queue' = q /\ proc' = pr
      BY <1>2
<1>10. QED  BY <1>6, <1>7, <1>8, <1>9 DEF Inv, Advances

LEMMA WatchdogStops ==
    ASSUME NEW q, ProcsOK(q, proc)
    PROVE  ProcsOK(q, [proc EXCEPT ![Watchdog] = Idle])
<1> DEFINE pr == [proc EXCEPT ![Watchdog] = Idle]
<1>1. proc \in [Procs -> [pc : {"idle", "read", "execute"}, job : Jobs \cup {None},
                          intent : Intents \cup {None}]]
      BY DEF ProcsOK
<1>2. Watchdog \in Procs /\ Workers \subseteq Procs /\ Watchdog \notin Workers
      BY ProcessAssumption DEF Procs
<1>3. pr \in [Procs -> [pc : {"idle", "read", "execute"}, job : Jobs \cup {None},
                        intent : Intents \cup {None}]]
      BY <1>1 DEF Idle
<1>4. /\ pr[Watchdog].pc = "idle" /\ pr[Watchdog].job = None
      /\ \A x \in Procs \ {Watchdog} : pr[x] = proc[x]
      BY <1>1, <1>2 DEF Idle
<1> HIDE DEF pr
<1>5. ProcsOK(q, pr)
      BY <1>2, <1>3, <1>4 DEF ProcsOK
<1>6. QED  BY <1>5 DEF pr

LEMMA ExpireInv == Inv /\ Expire => Inv'
BY DEF Inv, Expire

LEMMA PlayerCommandInv == Inv /\ PlayerCommand => Inv'
<1>1. SUFFICES ASSUME Inv, PlayerCommand PROVE Inv'
      OBVIOUS
<1>2. PICK i \in PlayerIntents(game), lost \in SUBSET Enqueues :
      \E result \in Results(i, "player") :
          /\ Commit(i, result)
          /\ SetQueue(Enqueue(queue, result, lost), result)
      BY <1>1 DEF PlayerCommand
<1>3. PICK g \in Results(i, "player") :
          /\ Commit(i, g)
          /\ SetQueue(Enqueue(queue, g, lost), g)
      BY <1>2
<1>4. PICK o : o = (overdue /\ g.key = game.key)
      OBVIOUS
<1>5. o \in BOOLEAN /\ game' = g /\ overdue' = o /\ expired' = expired /\ proc' = proc
      BY <1>1, <1>3, <1>4 DEF Commit, PlayerCommand
<1>6. g \in Games /\ Sound(g) /\ Counted(g) /\ Advances(g, o)
      BY <1>1, <1>4, PlayerIntentsSigned, CommitFacts
<1>7. Extended(queue, Enqueue(queue, g, lost), g)
      BY <1>1, <1>6, EnqueueFacts DEF Inv
<1>8. QED  BY <1>1, <1>3, <1>5, <1>6, <1>7, ClientStep DEF SetQueue

LEMMA JoinGameInv == Inv /\ JoinGame => Inv'
<1>1. SUFFICES ASSUME Inv, JoinGame PROVE Inv'
      OBVIOUS
<1>2. PICK g, o : g = game /\ o = overdue
      OBVIOUS
<1>3. /\ o \in BOOLEAN /\ game' = g /\ overdue' = o /\ expired' = expired /\ proc' = proc
      /\ g \in Games /\ Sound(g) /\ Counted(g)
      BY <1>1, <1>2 DEF JoinGame, Inv
<1>4. Advances(g, o)
      BY <1>1, <1>2, StayFacts
<1>5. Extended(queue, Enqueue(queue, g, {}), g)
      BY <1>1, <1>3, EnqueueFacts DEF Inv
<1>6. queue' = {j \in Enqueue(queue, g, {}) : Matters(j, g)}
      BY <1>1, <1>2 DEF JoinGame, SetQueue
<1>7. QED  BY <1>1, <1>3, <1>4, <1>5, <1>6, ClientStep

LEMMA LeaveRoomInv == Inv /\ LeaveRoom => Inv'
<1>1. SUFFICES ASSUME Inv, LeaveRoom PROVE Inv'
      OBVIOUS
<1>a. PICK p \in Humans \ game.bankrupt :
        \E i : /\ i = Intent("declare_bankruptcy", p)
               /\ \E result \in Results(i, "player") :
                     Commit(i, result) /\ SetQueue(queue, result)
      BY <1>1 DEF LeaveRoom
<1>2. PICK i :
        /\ i = Intent("declare_bankruptcy", p)
        /\ \E result \in Results(i, "player") : Commit(i, result) /\ SetQueue(queue, result)
      BY <1>a
<1>3. PICK g \in Results(i, "player") : Commit(i, g) /\ SetQueue(queue, g)
      BY <1>2
<1>4. PICK o : o = (overdue /\ g.key = game.key)
      OBVIOUS
<1>5. o \in BOOLEAN /\ game' = g /\ overdue' = o /\ expired' = expired /\ proc' = proc
      BY <1>1, <1>3, <1>4 DEF Commit, LeaveRoom
<1>6. Signed(i)
      BY <1>2, PlayersAssumption DEF Signed, Intent, Intents, Players
<1>7. g \in Games /\ Sound(g) /\ Counted(g) /\ Advances(g, o)
      BY <1>1, <1>4, <1>6, CommitFacts
<1>8. Extended(queue, queue, g)
      BY <1>1, ExtendedReflexive DEF Inv
<1>9. QED  BY <1>1, <1>3, <1>5, <1>7, <1>8, ClientStep DEF SetQueue

(* The watchdog's own queue operation, for the state as it is.             *)
LEMMA ScanStep ==
    ASSUME Inv, NEW r, Extended(queue, r, game), queue' = r,
           UNCHANGED <<game, overdue, expired, proc>>
    PROVE  Inv'
<1>1. QueueOK(queue) /\ TimersOK(queue, game, overdue) /\ ProcsOK(queue, proc) /\ QueueOK(r)
      BY DEF Inv, Extended
<1>2. ProcsOK(r, proc)
      BY <1>1, ProcsKept
<1>3. TimersOK(r, game, overdue)
  <2>1. ASSUME NEW j \in r, j.kind = "timer"
        PROVE  j.status = "active" \/ j.key = game.key
    <3>1. CASE j \in queue
          BY <1>1, <2>1, <3>1 DEF TimersOK
    <3>2. CASE j \notin queue
          BY <2>1, <3>2 DEF Extended, Id, TimerJob, Job
    <3>3. QED  BY <3>1, <3>2
  <2>2. QED  BY <1>1, <2>1, TimersExtended, StayFacts DEF TimersOK
<1>4. QED  BY <1>1, <1>2, <1>3 DEF Inv

LEMMA ScanInv == Inv /\ Scan => Inv'
<1>1. SUFFICES ASSUME Inv, Scan PROVE Inv'
      OBVIOUS
<1>2. UNCHANGED <<game, overdue, expired>> /\ game \in Games /\ QueueOK(queue)
      BY <1>1 DEF Scan, Inv
<1>3. CASE queue' = EnqueueGameExpiry(queue) /\ UNCHANGED proc
      BY <1>1, <1>2, <1>3, EnqueueExpiryFacts, ScanStep
<1>4. CASE queue' = EnqueueTurnTimer(queue, game) /\ UNCHANGED proc
      BY <1>1, <1>2, <1>4, EnqueueTurnTimerFacts, ScanStep
<1>5. CASE queue' = EnqueueIfBotCanAct(queue, game) /\ UNCHANGED proc
      BY <1>1, <1>2, <1>5, EnqueueBotFacts, ScanStep
<1>6. CASE \E i \in BotIntents(game) : Decide(Watchdog, i) /\ UNCHANGED queue
  <2>1. PICK i \in BotIntents(game) : Decide(Watchdog, i) /\ UNCHANGED queue
        BY <1>6
  <2>2. PICK pr : pr = [proc EXCEPT ![Watchdog].pc = "execute", ![Watchdog].intent = i]
        OBVIOUS
  <2>3. Watchdog \in Procs /\ Watchdog \notin Workers /\ Signed(i)
        BY <1>2, ProcessAssumption, BotIntentsSigned DEF Procs
  <2>4. ProcsOK(queue, pr)
        BY <1>1, <2>2, <2>3, ProcDecides DEF Inv
  <2>5. proc' = pr /\ queue' = queue
        BY <2>1, <2>2 DEF Decide
  <2>6. QED  BY <1>1, <1>2, <2>4, <2>5 DEF Inv
<1>7. QED  BY <1>1, <1>3, <1>4, <1>5, <1>6 DEF Scan, ScanOverdue

LEMMA ExecuteOverdueBotActionInv == Inv /\ ExecuteOverdueBotAction => Inv'
<1>1. SUFFICES ASSUME Inv, ExecuteOverdueBotAction PROVE Inv'
      OBVIOUS
<1>2. PICK pr, i : pr = [proc EXCEPT ![Watchdog] = Idle] /\ i = proc[Watchdog].intent
      OBVIOUS
<1>3. proc' = pr /\ expired' = expired /\ Signed(i)
      BY <1>1, <1>2 DEF ExecuteOverdueBotAction, Stop, Inv, ProcsOK, Procs
<1>4. CASE \E result \in Results(i, "bot"), lost \in {{}, {"timer"}, Enqueues} :
             Commit(i, result) /\ SetQueue(Enqueue(queue, result, lost), result)
  <2>1. PICK g \in Results(i, "bot"), lost \in {{}, {"timer"}, Enqueues} :
          Commit(i, g) /\ SetQueue(Enqueue(queue, g, lost), g)
        BY <1>4
  <2>2. PICK o, q, r : /\ o = (overdue /\ g.key = game.key)
                       /\ r = Enqueue(queue, g, lost)
                       /\ q = {j \in r : Matters(j, g)}
        OBVIOUS
  <2>3. o \in BOOLEAN /\ game' = g /\ overdue' = o /\ queue' = q
        BY <2>1, <2>2 DEF Commit, SetQueue
  <2>4. g \in Games /\ Sound(g) /\ Counted(g) /\ Advances(g, o)
        BY <1>1, <1>3, <2>2, CommitFacts
  <2>5. Extended(queue, r, g)
        BY <1>1, <2>2, <2>4, EnqueueFacts DEF Inv
  <2>6. QueueOK(queue) /\ TimersOK(queue, game, overdue) /\ ProcsOK(queue, proc)
        BY <1>1 DEF Inv
  <2>7. QueueOK(q)
        BY <2>2, <2>5, MattersFacts DEF Extended
  <2>8. TimersOK(q, g, o)
        BY <2>2, <2>4, <2>5, <2>6, TimersKept
  <2>9. ProcsOK(q, proc)
        BY <2>2, <2>5, <2>6, ProcsKept
  <2>10. ProcsOK(q, pr)
        BY <1>2, <2>9, WatchdogStops
  <2>11. QED  BY <1>1, <1>3, <2>3, <2>4, <2>7, <2>8, <2>10 DEF Inv
<1>5. CASE UNCHANGED <<game, overdue, queue>>
  <2>1. ProcsOK(queue, pr)
        BY <1>1, <1>2, WatchdogStops DEF Inv
  <2>2. QED  BY <1>1, <1>3, <1>5, <2>1 DEF Inv
<1>6. QED  BY <1>1, <1>2, <1>4, <1>5 DEF ExecuteOverdueBotAction

(* The job of a worker that is not idle.                                   *)
LEMMA HeldJob ==
    ASSUME Inv, NEW w \in Workers, proc[w].pc # "idle"
    PROVE  /\ proc[w].job \in queue /\ proc[w].job \in Jobs /\ proc[w].job.status = "active"
           /\ proc[w].job.tries \in 0..Attempts /\ proc[w].job.tries < Attempts
<1>1. proc[w].job \in queue /\ proc[w].job.status = "active"
      BY DEF Inv, ProcsOK
<1>2. proc[w].job \in Jobs /\ proc[w].job.tries < Attempts
      BY <1>1 DEF Inv, QueueOK
<1>3. QED  BY <1>1, <1>2 DEF Jobs

LEMMA ClaimInv == \A w \in Workers : Inv /\ Claim(w) => Inv'
<1>1. SUFFICES ASSUME NEW w \in Workers, Inv, Claim(w) PROVE Inv'
      OBVIOUS
<1>2. PICK j \in queue :
        /\ j.status = "waiting" /\ Due(j)
        /\ queue' = SetJob(queue, j, "active", j.tries)
        /\ proc' = [proc EXCEPT ![w] = [Idle EXCEPT !.pc = "read",
                                                    !.job = [j EXCEPT !.status = "active"]]]
      BY <1>1 DEF Claim
<1>3. PICK c : c = [j EXCEPT !.status = "active", !.tries = j.tries]
      OBVIOUS
<1>4. QueueOK(queue) /\ j \in Jobs /\ j.tries \in 0..Attempts /\ j.tries < Attempts
      BY <1>1, <1>2 DEF Inv, QueueOK, Jobs
<1>5. /\ c = [j EXCEPT !.status = "active"]
      /\ c \in Jobs /\ Id(c) = Id(j) /\ c.status = "active" /\ c.kind = j.kind /\ c.key = j.key
      BY <1>3, <1>4 DEF Jobs, Id
<1>6. PICK q : q = SetJob(queue, j, "active", j.tries)
      OBVIOUS
<1>7. q = (queue \ {j}) \cup {c} /\ QueueOK(q)
      BY <1>3, <1>4, <1>6, SetJobFacts DEF SetJob
<1>8. TimersOK(q, game, overdue)
  <2>1. TimersOK(queue, game, overdue)
        BY <1>1 DEF Inv
  <2>2. c.kind = "timer" => overdue
        BY <1>2, <1>5 DEF Due
  <2>3. j.kind = "timer" /\ j.key = game.key /\ ~Finished(game) => Id(j) = Id(TimerJob(game))
        BY <2>1 DEF TimersOK
  <2>4. QED  BY <1>5, <1>7, <2>1, <2>2, <2>3 DEF TimersOK
<1>9. PICK rd, pr : /\ rd = [Idle EXCEPT !.pc = "read", !.job = c]
                    /\ pr = [proc EXCEPT ![w] = rd]
      OBVIOUS
<1>10. ProcsOK(q, pr)
  <2>1. /\ rd \in [pc : {"idle", "read", "execute"}, job : Jobs \cup {None},
                   intent : Intents \cup {None}]
        /\ rd.pc = "read" /\ rd.job = c
        BY <1>5, <1>9 DEF Idle
  <2>2. ProcsOK(queue, proc)
        BY <1>1 DEF Inv
  <2>3. w \in Procs /\ w # Watchdog /\ Workers \subseteq Procs /\ Watchdog \in Procs
        BY ProcessAssumption DEF Procs
  <2>4. /\ pr \in [Procs -> [pc : {"idle", "read", "execute"}, job : Jobs \cup {None},
                             intent : Intents \cup {None}]]
        /\ pr[w] = rd /\ \A x \in Procs \ {w} : pr[x] = proc[x]
        BY <1>9, <2>1, <2>2, <2>3 DEF ProcsOK
  <2>5. ASSUME NEW v \in Workers, v # w, proc[v].pc # "idle"
        PROVE  proc[v].job \in q /\ proc[v].job # c
    <3>1. proc[v].job \in queue /\ proc[v].job.status = "active"
          BY <2>2, <2>5 DEF ProcsOK
    <3>2. proc[v].job # j
          BY <1>2, <3>1
    <3>3. Id(proc[v].job) # Id(j)
          BY <1>4, <3>1, <3>2 DEF QueueOK
    <3>4. QED  BY <1>5, <1>7, <3>1, <3>2, <3>3
  <2>6. pr[Watchdog].job = None /\ \A x \in Procs : pr[x].pc = "execute" => Signed(pr[x].intent)
        BY <2>1, <2>2, <2>3, <2>4 DEF ProcsOK
  <2>7. ASSUME NEW v \in Workers
        PROVE  /\ pr[v].pc = "idle" => pr[v].job = None
               /\ pr[v].pc # "idle" => pr[v].job \in q /\ pr[v].job.status = "active"
               /\ pr[v].pc = "execute" /\ pr[v].job.kind = "timer" =>
                     Decided(pr[v].intent, pr[v].job.player)
    <3>1. CASE v = w
          BY <1>5, <1>7, <2>1, <2>4, <3>1
    <3>2. CASE v # w
      <4>1. pr[v] = proc[v]
            BY <2>3, <2>4, <3>2
      <4>2. /\ proc[v].pc = "idle" => proc[v].job = None
            /\ proc[v].pc # "idle" => proc[v].job.status = "active"
            /\ proc[v].pc = "execute" /\ proc[v].job.kind = "timer" =>
                  Decided(proc[v].intent, proc[v].job.player)
            BY <2>2 DEF ProcsOK
      <4>3. QED  BY <2>5, <3>2, <4>1, <4>2
    <3>3. QED  BY <3>1, <3>2
  <2>8. ASSUME NEW u \in Workers, NEW v \in Workers, u # v,
               pr[u].pc # "idle", pr[v].pc # "idle"
        PROVE  pr[u].job # pr[v].job
        BY <2>1, <2>2, <2>3, <2>4, <2>5, <2>8 DEF ProcsOK
  <2>9. QED  BY <2>4, <2>6, <2>7, <2>8 DEF ProcsOK
<1>11. queue' = q /\ proc' = pr
       BY <1>2, <1>5, <1>6, <1>9
<1>12. UNCHANGED <<game, overdue, expired>>
       BY <1>1 DEF Claim
<1>13. QED  BY <1>1, <1>7, <1>8, <1>10, <1>11, <1>12 DEF Inv

(* A worker that has read the state decides.                               *)
LEMMA DecideInv ==
    ASSUME Inv, NEW w \in Workers, proc[w].pc = "read", NEW i, Signed(i),
           proc[w].job.kind = "timer" => Decided(i, proc[w].job.player),
           Decide(w, i), UNCHANGED <<game, overdue, expired, queue>>
    PROVE  Inv'
<1>1. PICK pr : pr = [proc EXCEPT ![w].pc = "execute", ![w].intent = i]
      OBVIOUS
<1>2. ProcsOK(queue, pr)
      BY <1>1, ProcDecides DEF Inv, Procs
<1>3. proc' = pr
      BY <1>1 DEF Decide
<1>4. QED  BY <1>2, <1>3 DEF Inv

(* A worker that ends its job without a command.                           *)
LEMMA EndInv ==
    ASSUME Inv, NEW w \in Workers, proc[w].pc # "idle", Stop(w),
           UNCHANGED <<game, overdue, expired>>, NEW r, Extended(queue, r, game),
           NEW status \in {"waiting", "completed", "failed"}, NEW n \in 0..Attempts,
           status = "waiting" => n < Attempts,
           proc[w].job.kind = "timer" /\ proc[w].job.key = game.key /\ ~Finished(game) =>
              status # "completed",
           SetQueue(SetJob(r, proc[w].job, status, n), game)
    PROVE  Inv'
<1>1. PICK g, o : g = game /\ o = overdue
      OBVIOUS
<1>2. /\ o \in BOOLEAN /\ game' = g /\ overdue' = o /\ expired' = expired
      /\ Sound(g) /\ Counted(g) /\ Advances(g, o)
      BY <1>1, StayFacts DEF Inv
<1>3. /\ proc' = [proc EXCEPT ![w] = Idle]
      /\ queue' = {j \in SetJob(r, proc[w].job, status, n) : Matters(j, g)}
      BY <1>1 DEF Stop, SetQueue
<1>4. Extended(queue, r, g)
      BY <1>1
<1>5. proc[w].job.kind = "timer" /\ proc[w].job.key = g.key /\ ~Finished(g) =>
              status # "completed"
      BY <1>1
<1>6. QED  BY <1>2, <1>3, <1>4, <1>5, WorkerStep

(* A job that throws is tried again or has failed.                         *)
LEMMA ThrownInv ==
    ASSUME Inv, NEW w \in Workers, proc[w].pc # "idle", Stop(w),
           UNCHANGED <<game, overdue, expired>>,
           SetQueue(Thrown(queue, proc[w].job), game)
    PROVE  Inv'
<1>1. PICK n, status : /\ n = proc[w].job.tries + 1
                       /\ status = IF n < Attempts THEN "waiting" ELSE "failed"
      OBVIOUS
<1>2. n \in 0..Attempts
      BY <1>1, HeldJob, BoundAssumption
<1>3. /\ status \in {"waiting", "completed", "failed"} /\ status # "completed"
      /\ status = "waiting" => n < Attempts
      BY <1>1
<1>4. Extended(queue, queue, game)
      BY ExtendedReflexive DEF Inv
<1>5. SetQueue(SetJob(queue, proc[w].job, status, n), game)
      BY <1>1 DEF Thrown
<1>6. QED  BY <1>2, <1>3, <1>4, <1>5, EndInv

(* A job that is done.                                                     *)
LEMMA CompletedInv ==
    ASSUME Inv, NEW w \in Workers, proc[w].pc # "idle", Stop(w),
           UNCHANGED <<game, overdue, expired>>, NEW r, Extended(queue, r, game),
           ~(proc[w].job.kind = "timer" /\ proc[w].job.key = game.key /\ ~Finished(game)),
           SetQueue(Completed(r, proc[w].job), game)
    PROVE  Inv'
<1>1. PICK n : n = proc[w].job.tries
      OBVIOUS
<1>2. n \in 0..Attempts
      BY <1>1, HeldJob
<1>3. SetQueue(SetJob(r, proc[w].job, "completed", n), game)
      BY <1>1 DEF Completed
<1>4. QED  BY <1>2, <1>3, EndInv

LEMMA ReadBotJobInv == \A w \in Workers : Inv /\ ReadBotJob(w) => Inv'
<1>1. SUFFICES ASSUME NEW w \in Workers, Inv, ReadBotJob(w) PROVE Inv'
      OBVIOUS
<1>2. /\ proc[w].pc = "read" /\ proc[w].job.kind = "bot" /\ game \in Games /\ QueueOK(queue)
      /\ UNCHANGED <<game, overdue, expired>>
      BY <1>1 DEF ReadBotJob, Reads, Inv
<1>3. CASE \E i \in BotIntents(game) : Decide(w, i) /\ UNCHANGED queue
      BY <1>1, <1>2, <1>3, BotIntentsSigned, DecideInv
<1>4. CASE SetQueue(Completed(EnqueueTurnTimer(queue, game), proc[w].job), game) /\ Stop(w)
      BY <1>1, <1>2, <1>4, EnqueueTurnTimerFacts, CompletedInv
<1>5. QED  BY <1>1, <1>3, <1>4 DEF ReadBotJob

LEMMA ReadTimerJobInv == \A w \in Workers : Inv /\ ReadTimerJob(w) => Inv'
<1>1. SUFFICES ASSUME NEW w \in Workers, Inv, ReadTimerJob(w) PROVE Inv'
      OBVIOUS
<1>2. /\ proc[w].pc = "read" /\ proc[w].job.kind = "timer" /\ game \in Games /\ Sound(game)
      /\ QueueOK(queue) /\ TimersOK(queue, game, overdue)
      /\ UNCHANGED <<game, overdue, expired>>
      BY <1>1 DEF ReadTimerJob, Reads, Inv
<1>3. CASE IsTimerJobCurrent(proc[w].job, game) /\ TimeoutIntent(game) # None
  <2>1. Decide(w, TimeoutIntent(game)) /\ UNCHANGED queue
        BY <1>1, <1>3 DEF ReadTimerJob
  <2>2. PICK i : i = TimeoutIntent(game)
        OBVIOUS
  <2>3. Signed(i) /\ Decided(i, game.current)
        BY <1>2, <1>3, <2>2, TimeoutIntentSigned
  <2>4. proc[w].job.player = game.current
        BY <1>3 DEF IsTimerJobCurrent, Id, TimerJob, Job
  <2>5. QED  BY <1>1, <1>2, <2>1, <2>2, <2>3, <2>4, DecideInv
<1>4. CASE ~(IsTimerJobCurrent(proc[w].job, game) /\ TimeoutIntent(game) # None)
  <2>1. SetQueue(Completed(queue, proc[w].job), game) /\ Stop(w)
        BY <1>1, <1>4 DEF ReadTimerJob
  <2>2. ~(proc[w].job.kind = "timer" /\ proc[w].job.key = game.key /\ ~Finished(game))
    <3>1. SUFFICES ASSUME proc[w].job.key = game.key, ~Finished(game) PROVE FALSE
          OBVIOUS
    <3>2. Id(proc[w].job) = Id(TimerJob(game))
          BY <1>1, <1>2, <3>1, HeldJob DEF TimersOK
    <3>3. overdue
          BY <1>1, <1>2, <3>1, HeldJob DEF TimersOK
    <3>4. QED  BY <1>2, <1>4, <3>1, <3>2, <3>3, TimeoutIntentExists DEF IsTimerJobCurrent
  <2>3. Extended(queue, queue, game)
        BY <1>2, ExtendedReflexive
  <2>4. QED  BY <1>1, <1>2, <2>1, <2>2, <2>3, CompletedInv
<1>5. QED  BY <1>3, <1>4

LEMMA ReadExpiryJobInv == \A w \in Workers : Inv /\ ReadExpiryJob(w) => Inv'
<1>1. SUFFICES ASSUME NEW w \in Workers, Inv, ReadExpiryJob(w) PROVE Inv'
      OBVIOUS
<1>2. /\ proc[w].pc = "read" /\ proc[w].job.kind = "expiry" /\ QueueOK(queue)
      /\ UNCHANGED <<game, overdue, expired>>
      BY <1>1 DEF ReadExpiryJob, Reads, Inv
<1>3. CASE SetQueue(Completed(queue, proc[w].job), game) /\ Stop(w)
      BY <1>1, <1>2, <1>3, ExtendedReflexive, CompletedInv
<1>4. CASE SetQueue(Thrown(queue, proc[w].job), game) /\ Stop(w)
      BY <1>1, <1>2, <1>4, ThrownInv
<1>5. CASE Decide(w, Intent("finish_game", None)) /\ UNCHANGED queue
  <2>1. PICK i : i = Intent("finish_game", None)
        OBVIOUS
  <2>2. Signed(i)
        BY <2>1 DEF Signed, Intent, Intents
  <2>3. QED  BY <1>1, <1>2, <1>5, <2>1, <2>2, DecideInv
<1>6. QED  BY <1>1, <1>3, <1>4, <1>5 DEF ReadExpiryJob

(* A worker's command ends the deadline of its job, or its job is not that *)
(* of the current deadline, or the game is over.                           *)
LEMMA CommandEndsDeadline ==
    ASSUME Inv, NEW w \in Workers, proc[w].pc = "execute", NEW source,
           NEW g \in Results(proc[w].intent, source), proc[w].job.kind = "timer",
           proc[w].job.key = g.key
    PROVE  Finished(g)
<1>1. PICK j, i : j = proc[w].job /\ i = proc[w].intent
      OBVIOUS
<1>2. /\ j \in queue /\ j.status = "active" /\ Signed(i) /\ Decided(i, j.player)
      /\ TimersOK(queue, game, overdue)
      BY <1>1 DEF Inv, ProcsOK, Procs
<1>3. PICK o : o = (overdue /\ g.key = game.key)
      OBVIOUS
<1>4. /\ ~Finished(game) /\ Advances(g, o)
      /\ overdue /\ Decided(i, game.current) => Finished(g) \/ g.key # game.key
      BY <1>1, <1>2, <1>3, CommitFacts
<1>5. g.key = game.key
      BY <1>1, <1>2, <1>4 DEF Advances, Moves
<1>6. overdue /\ Id(j) = Id(TimerJob(game))
      BY <1>1, <1>2, <1>4, <1>5 DEF TimersOK
<1>7. j.player = game.current
      BY <1>6 DEF Id, TimerJob, Job
<1>8. QED  BY <1>2, <1>4, <1>5, <1>6, <1>7

LEMMA ExecuteJobInv == \A w \in Workers : Inv /\ ExecuteJob(w) => Inv'
<1>1. SUFFICES ASSUME NEW w \in Workers, Inv, ExecuteJob(w) PROVE Inv'
      OBVIOUS
<1>2. PICK g \in Results(proc[w].intent, Source(w)), lost \in SUBSET Enqueues :
          /\ Commit(proc[w].intent, g)
          /\ SetQueue(Completed(Enqueue(queue, g, lost), proc[w].job), g)
          /\ Stop(w)
      BY <1>1 DEF ExecuteJob
<1>3. PICK o, n, r : /\ o = (overdue /\ g.key = game.key)
                     /\ n = proc[w].job.tries
                     /\ r = Enqueue(queue, g, lost)
      OBVIOUS
<1>4. /\ o \in BOOLEAN /\ game' = g /\ overdue' = o /\ expired' = expired
      /\ proc' = [proc EXCEPT ![w] = Idle]
      /\ queue' = {j \in SetJob(r, proc[w].job, "completed", n) : Matters(j, g)}
      BY <1>1, <1>2, <1>3 DEF Commit, ExecuteJob, SetQueue, Stop, Completed
<1>5. proc[w].pc = "execute" /\ Signed(proc[w].intent)
      BY <1>1 DEF ExecuteJob, Inv, ProcsOK, Procs
<1>6. g \in Games /\ Sound(g) /\ Counted(g) /\ Advances(g, o)
      BY <1>1, <1>3, <1>5, CommitFacts
<1>7. Extended(queue, r, g)
      BY <1>1, <1>3, <1>6, EnqueueFacts DEF Inv
<1>8. n \in 0..Attempts
      BY <1>1, <1>3, <1>5, HeldJob
<1>9. ~(proc[w].job.kind = "timer" /\ proc[w].job.key = g.key /\ ~Finished(g))
      BY <1>1, <1>5, CommandEndsDeadline
<1>10. QED  BY <1>1, <1>4, <1>5, <1>6, <1>7, <1>8, <1>9, WorkerStep

LEMMA RefuseJobInv == \A w \in Workers : Inv /\ RefuseJob(w) => Inv'
<1>1. SUFFICES ASSUME NEW w \in Workers, Inv, RefuseJob(w) PROVE Inv'
      OBVIOUS
<1>2. /\ proc[w].pc = "execute" /\ Stop(w) /\ QueueOK(queue)
      /\ UNCHANGED <<game, overdue, expired>>
      BY <1>1 DEF RefuseJob, Inv
<1>3. CASE proc[w].job.kind = "expiry"
  <2>1. SetQueue(Completed(queue, proc[w].job), game)
        BY <1>1, <1>3 DEF RefuseJob
  <2>2. QED  BY <1>1, <1>2, <1>3, <2>1, ExtendedReflexive, CompletedInv
<1>4. CASE proc[w].job.kind # "expiry"
  <2>1. SetQueue(Thrown(queue, proc[w].job), game)
        BY <1>1, <1>4 DEF RefuseJob
  <2>2. QED  BY <1>1, <1>2, <2>1, ThrownInv
<1>5. QED  BY <1>3, <1>4

LEMMA CrashInv == \A w \in Workers : Inv /\ Crash(w) => Inv'
<1>1. SUFFICES ASSUME NEW w \in Workers, Inv, Crash(w) PROVE Inv'
      OBVIOUS
<1>2. /\ proc[w].pc # "idle" /\ expired' = expired /\ proc' = [proc EXCEPT ![w] = Idle]
      BY <1>1 DEF Crash, Stop
<1>3. PICK n : n = proc[w].job.tries
      OBVIOUS
<1>4. n \in 0..Attempts /\ n < Attempts
      BY <1>1, <1>2, <1>3, HeldJob
<1>5. PICK status \in {"waiting", "failed"} :
          queue' = {j \in SetJob(queue, proc[w].job, status, n) : Matters(j, game')}
      BY <1>1, <1>3 DEF Crash, SetQueue
<1>6. ASSUME NEW g, NEW o \in BOOLEAN, game' = g, overdue' = o,
             Sound(g), Counted(g), Advances(g, o)
      PROVE  Inv'
  <2>1. queue' = {j \in SetJob(queue, proc[w].job, status, n) : Matters(j, g)}
        BY <1>5, <1>6
  <2>2. Extended(queue, queue, g)
        BY <1>1, ExtendedReflexive DEF Inv
  <2>3. QED  BY <1>1, <1>2, <1>4, <1>6, <2>1, <2>2, WorkerStep
<1>7. CASE UNCHANGED <<game, overdue>>
  <2>1. PICK g, o : g = game /\ o = overdue
        OBVIOUS
  <2>2. Sound(g) /\ Counted(g) /\ Advances(g, o) /\ o \in BOOLEAN /\ game' = g /\ overdue' = o
        BY <1>1, <1>7, <2>1, StayFacts DEF Inv
  <2>3. QED  BY <1>6, <2>2
<1>8. CASE /\ proc[w].pc = "execute"
           /\ \E result \in Results(proc[w].intent, Source(w)) : Commit(proc[w].intent, result)
  <2>1. PICK g \in Results(proc[w].intent, Source(w)) : Commit(proc[w].intent, g)
        BY <1>8
  <2>2. PICK o : o = (overdue /\ g.key = game.key)
        OBVIOUS
  <2>3. o \in BOOLEAN /\ game' = g /\ overdue' = o
        BY <2>1, <2>2 DEF Commit
  <2>4. Signed(proc[w].intent)
        BY <1>1, <1>8 DEF Inv, ProcsOK, Procs
  <2>5. Sound(g) /\ Counted(g) /\ Advances(g, o)
        BY <1>1, <2>2, <2>4, CommitFacts
  <2>6. QED  BY <1>6, <2>3, <2>5
<1>9. QED  BY <1>1, <1>7, <1>8 DEF Crash

LEMMA NextInv == Inv /\ [Next]_vars => Inv'
<1>1. SUFFICES ASSUME Inv, [Next]_vars PROVE Inv'
      OBVIOUS
<1>2. CASE Next
      BY <1>1, <1>2, TickInv, ExpireInv, PlayerCommandInv, JoinGameInv, LeaveRoomInv, ScanInv,
         ExecuteOverdueBotActionInv, ClaimInv, ReadBotJobInv, ReadTimerJobInv,
         ReadExpiryJobInv, ExecuteJobInv, RefuseJobInv, CrashInv
         DEF Next, Worker
<1>3. CASE UNCHANGED vars
      BY <1>1, <1>3 DEF vars, Inv
<1>4. QED  BY <1>1, <1>2, <1>3

---------------------------------------------------------------------------
(* Theorems *)

(* The game, the queue and what workers hold keep their types: a job is    *)
(* tried at most Attempts times, however it is claimed, thrown and put     *)
(* back, and the job of a worker stays in the queue, whatever others       *)
(* enqueue and remove.                                                     *)
THEOREM TypeCorrect == Spec => []TypeOK
<1>1. Init => Inv
      BY InitInv
<1>2. Inv /\ [Next]_vars => Inv'
      BY NextInv
<1>3. QED  BY <1>1, <1>2, InvTypeOK, PTL DEF Spec

(* The timer of the deadline that counts is never spent while the game     *)
(* goes on, so enqueueing it is never in vain: whatever workers, players   *)
(* and the watchdog do at the same time.                                   *)
THEOREM TimerAvailable == Spec => []TimerNotSpent
<1>1. Init => Inv
      BY InitInv
<1>2. Inv /\ [Next]_vars => Inv'
      BY NextInv
<1>3. QED  BY <1>1, <1>2, InvTimerNotSpent, PTL DEF Spec

(* A turn that timers play for a player counts as missed once, however     *)
(* many jobs roll in it.                                                   *)
THEOREM MissedTurns == Spec => []MissedOncePerTurn
<1>1. Init => Inv
      BY InitInv
<1>2. Inv /\ [Next]_vars => Inv'
      BY NextInv
<1>3. QED  BY <1>1, <1>2, InvMissed, PTL DEF Spec

===========================================================================
