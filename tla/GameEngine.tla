---------------------------- MODULE GameEngine ----------------------------
(***************************************************************************)
(* The life of one game as the engine sees it: the intents that            *)
(* reduceGameEngineIntent applies, one after the other (GameCommands shows *)
(* that they are serialized), from any player, bot or timer.               *)
(***************************************************************************)
EXTENDS EngineTurns

CONSTANTS
    DiceSums,   \* sums of a roll, of interest for utilities only
    TradeCash,  \* amounts of cash in trade offers
    MaxTurn,    \* bound on the turn number
    MaxCash     \* bound on a player's cash

ASSUME InputAssumption == DiceSums \subseteq Nat /\ TradeCash \subseteq Nat
ASSUME BoundAssumption == MaxTurn \in Nat /\ MaxCash \in Nat

VARIABLE game

Init == game = InitialGame

Apply(h) ==
    /\ h.turn <= MaxTurn
    /\ \A p \in Players : h.cash[p] <= MaxCash
    /\ game' = h

---------------------------------------------------------------------------
(* Intents *)

Rolls(g) ==
    LET fields == [doubles : BOOLEAN, dice : DiceSums, at : Places, go : BOOLEAN,
                   card : {None}]
        draws  == [doubles : BOOLEAN, dice : DiceSums, at : {None}, go : BOOLEAN,
                   card : CardsOf(g)]
    IN  fields \cup draws

RollAndMoveIntent(p) ==
    /\ CanRoll(game, p)
    /\ \E roll \in Rolls(game) : Apply(RollAndMove(game, p, roll))

BuyIntent(p)     == CanBuy(game, p) /\ Apply(BuyProperty(game, p))
DeclineIntent(p) == CanDecide(game, p) /\ Apply(Decline(game))

BidIntent(p) ==
    \E n \in MinBid..MaxCash : CanBid(game, p, n) /\ Apply(PlaceBid(game, p, n))

PassIntent(p) == CanPass(game, p) /\ Apply(PassBid(game, p))

BuildIntent(p)      == \E t \in Tiles : CanBuild(game, p, t) /\ Apply(Build(game, p, t))
SellIntent(p)       == \E t \in Tiles : CanSell(game, p, t) /\ Apply(Sell(game, p, t))
MortgageIntent(p)   == \E t \in Tiles : CanMortgage(game, p, t) /\ Apply(Mortgage(game, p, t))
UnmortgageIntent(p) == \E t \in Tiles : CanUnmortgage(game, p, t) /\ Apply(Unmortgage(game, p, t))

(* A human target is asked; a bot answers at once (shouldBotAcceptTrade    *)
(* compares values, either answer is possible).                            *)
ProposeIntent(p) ==
    /\ CanTrade(game, p)
    /\ \E o \in [from : {p}, to : Players, give : TradeCash, want : TradeCash,
                 offered : SUBSET Owned(game, p), requested : SUBSET Tiles] :
        /\ o.from # o.to
        /\ ValidTrade(game, o)
        /\ IF o.to \in Humans THEN Apply(Offer(game, o))
           ELSE Apply(AcceptOffer(game, o)) \/ Apply(DropOffer(game))

AcceptIntent(p) ==
    /\ game.offer # None
    /\ game.offer.to = p
    /\ ValidTrade(game, game.offer)
    /\ Apply(AcceptOffer(game, game.offer))

(* rejectTrade by the target, cancelTrade by the proposer.                 *)
DropIntent(p) ==
    /\ game.offer # None
    /\ p \in {game.offer.to, game.offer.from}
    /\ Apply(DropOffer(game))

(* A human player gives up, leaves the room or is forfeited by the timer;  *)
(* a bot is bankrupt only through autoResolveDebt.                         *)
BankruptcyIntent(p) ==
    p \in Humans /\ CanDeclareBankruptcy(game, p) /\ Apply(DeclareBankruptcy(game, p))

PayDebtIntent(p)     == CanPayDebt(game, p) /\ Apply(PayDebt(game, p))
AutoResolveIntent(p) == CanAutoResolve(game, p) /\ Apply(AutoResolve(game, p))
JailFineIntent(p)    == CanPayJailFine(game, p) /\ Apply(PayJailFine(game, p))

JailCardIntent(p) ==
    \E c \in FreeCards : CanUseCard(game, p, c) /\ Apply(UseCard(game, p, c))

EndTurnIntent(p) == CanEndTurn(game, p) /\ Apply(EndTurn(game))

(* finish_game_by_time once the time is up, and                            *)
(* finish_game_after_last_human_left.                                      *)
FinishIntent == ~Finished(game) /\ Apply(Finish(game))

Next ==
    \/ \E p \in Players :
          \/ RollAndMoveIntent(p)
          \/ BuyIntent(p) \/ DeclineIntent(p) \/ BidIntent(p) \/ PassIntent(p)
          \/ BuildIntent(p) \/ SellIntent(p) \/ MortgageIntent(p) \/ UnmortgageIntent(p)
          \/ ProposeIntent(p) \/ AcceptIntent(p) \/ DropIntent(p)
          \/ BankruptcyIntent(p) \/ PayDebtIntent(p) \/ AutoResolveIntent(p)
          \/ JailFineIntent(p) \/ JailCardIntent(p) \/ EndTurnIntent(p)
    \/ FinishIntent

Spec == Init /\ [][Next]_game

---------------------------------------------------------------------------
(* Properties *)

(* Every field of the state keeps its type: no cash is negative, no player *)
(* has more doubles or jail turns than the rules know, no tile more        *)
(* buildings than a hotel.                                                 *)
TypeOK == game \in States

(* The game goes on only with at least two players, one of them human, and *)
(* then it is the turn of a player who is still in the game: bankruptcies  *)
(* in any order, of the current player or not, never strand a game.        *)
TurnHolderActive ==
    ~Finished(game) =>
        /\ game.current \in Active(game)
        /\ Cardinality(Active(game)) >= 2
        /\ Active(game) \cap Humans # {}

(* The phase says which record is open: a pending tile, which is unowned,  *)
(* an auction, of an unowned tile, or a debt, of the player whose turn it  *)
(* is.  At most one is open, and none once the game is finished.  A player *)
(* who has failed to roll out of jail for the last time owes the fine.     *)
PhaseMatchesRecords ==
    /\ (game.phase = "awaiting_property_decision") <=> (game.pending # None)
    /\ (game.phase = "awaiting_auction_bid") <=> (game.auction # None)
    /\ (game.phase = "awaiting_debt_resolution") <=> (game.debt # None)
    /\ game.pending # None => game.owner[game.pending] = None
    /\ game.auction # None => game.owner[game.auction.tile] = None
    /\ game.debt # None => game.debt.by = game.current
    /\ Finished(game) => game.offer = None
    /\ ~Finished(game) =>
         \A p \in game.jailed : game.jailTurns[p] >= MaxJailTurns =>
            game.debt # None /\ game.debt.by = p /\ game.debt.reason = "jail_fine"

(* In an open auction it is the turn of a bidder who has not passed and    *)
(* does not hold the highest bid; the holder has not passed either.        *)
AuctionOpen ==
    game.auction # None =>
        LET a == game.auction
        IN  /\ a.bidder \in Remaining(a) \ {a.highest}
            /\ a.highest # None => a.highest \in Remaining(a)
            /\ a.bid = 0 <=> a.highest = None

(* A bankrupt player has no property and no card and is not in jail,       *)
(* whatever auctions, trades and debts were open when it went bankrupt.    *)
BankruptHoldNothing ==
    \A p \in game.bankrupt :
        Owned(game, p) = {} /\ game.cards[p] = {} /\ p \notin game.jailed

(* Each get-out-of-jail-free card is in the deck or with one player.       *)
FreeCardsConserved ==
    \A c \in FreeCards :
        Cardinality({p \in Players : c \in game.cards[p]}) = IF c \in game.deck THEN 0 ELSE 1

(* No set has a building and a mortgage, also when trades and bankruptcies *)
(* split it among players.                                                 *)
NoMortgageBesideBuildings ==
    \A t \in Tiles : Built(game, SetOf(t)) => SetOf(t) \cap game.mortgaged = {}

(* The turn passes to the next seat that is still in the game: the players *)
(* between the old and the new turn holder are bankrupt.                   *)
NobodySkipped ==
    [][game'.turn # game.turn =>
          /\ game'.turn = game.turn + 1
          /\ game'.current = SeatAfter(Players \ game'.bankrupt, game.current)]_game

(* The total net worth, which decides the game, grows only by a roll (GO,  *)
(* a card), by an auction below the price or by a bankruptcy (mortgages    *)
(* are forgiven): no sequence of building, selling, mortgaging and trading *)
(* makes money.                                                            *)
Wealth(g) == SumFunctionOnSet([p \in Players |-> NetWorth(g, p)], Players)

NoMoneyPump ==
    [][Wealth(game') > Wealth(game) =>
          \/ game.phase \in RollPhases /\ game'.phase \notin RollPhases
          \/ game.phase = "awaiting_auction_bid" /\ game'.phase = "awaiting_turn_end"
          \/ game'.bankrupt # game.bankrupt]_game

(* autoResolveDebt bankrupts a player only if selling all its buildings    *)
(* and mortgaging what the rules allow does not cover the debt (a bot is   *)
(* not bankrupted in any other way).  A tile of a set on which another     *)
(* player has a building, left there by a trade, cannot be mortgaged.      *)
Raisable(g, p) ==
    LET free == {t \in Owned(g, p) \ g.mortgaged :
                    ~Built(g, SetOf(t) \ Owned(g, p))}
    IN  g.cash[p] + BuildingValue(g, Owned(g, p))
                  + SumFunctionOnSet([t \in Tiles |-> Board[t].mortgage], free)

BotsPayWhatTheyCan ==
    [][\A p \in (game'.bankrupt \ game.bankrupt) \ Humans :
          game.debt # None /\ game.debt.by = p /\ Raisable(game, p) < game.debt.amount]_game

(* ARCHITECTURE.md: "Turn progress is protected": the intent a timeout     *)
(* issues, a pass of the current bidder in an auction and                  *)
(* auto_resolve_debt for an open debt, is accepted.                        *)
TimeoutAccepted ==
    /\ InAuction(game) => CanPass(game, CurrentBidder(game.auction))
    /\ game.debt # None => CanAutoResolve(game, game.debt.by)

===========================================================================
