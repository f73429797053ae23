---------------------------- MODULE EngineTurns ----------------------------
(***************************************************************************)
(* Movement, jail, cards, auctions, debt, bankruptcy and the end of turns  *)
(* and games.                                                              *)
(***************************************************************************)
EXTENDS EngineAssets

---------------------------------------------------------------------------
(* Jail *)

SendToJail(g, p) ==
    [g EXCEPT !.phase = "awaiting_turn_end", !.pending = None, !.doubles = 0,
              !.again = FALSE, !.jailed = @ \cup {p}, !.jailTurns[p] = 0]

Release(g, p) == [g EXCEPT !.jailed = @ \ {p}, !.jailTurns[p] = 0]

NoDoubles(g) == [g EXCEPT !.doubles = 0, !.again = FALSE]

(* assertCurrentTurn is the only other condition of the two jail intents:  *)
(* neither the phase nor the end of the game is checked.                   *)
CanPayJailFine(g, p) ==
    IsCurrentTurn(g, p) /\ p \in g.jailed /\ CanPay(g, p, JailFine)

PayJailFine(g, p) == Release(Debit(g, p, JailFine), p)

(* Mutant: the card is not put back into its deck.                         *)
UseCardKeepingDeck(g, p, c) == Release([g EXCEPT !.cards[p] = @ \ {c}], p)

CanUseCard(g, p, c) == IsCurrentTurn(g, p) /\ p \in g.jailed /\ c \in g.cards[p]

UseCard(g, p, c) ==
    Release([g EXCEPT !.cards[p] = @ \ {c}, !.deck = @ \cup {c}], p)

---------------------------------------------------------------------------
(* Where a move ends: [kind, tile], an ownable tile or another kind of     *)
(* place (GO, jail, free parking and, after a card, another card field are *)
(* idle).                                                                  *)

Places ==
    {[kind |-> "ownable", tile |-> t] : t \in Tiles} \cup
    {[kind |-> k, tile |-> None] : k \in {"tax", "go_to_jail", "idle"}}

Arrive(g, p, at, dice) ==
    CASE at.kind = "go_to_jail" -> SendToJail(g, p)
      [] at.kind = "tax"  -> DebitOrDebt(g, p, TaxAmount, "tax")
      [] at.kind = "idle" -> g
      [] at.kind = "ownable" ->
            IF g.owner[at.tile] = None
            THEN [g EXCEPT !.phase = "awaiting_property_decision", !.pending = at.tile]
            ELSE PayRent(g, p, at.tile, dice)

---------------------------------------------------------------------------
(* Cards.  The piles are abstracted to the free cards that are in them:    *)
(* any card of a deck may come next.                                       *)

Others(g, p) == Active(g) \ {p}

(* collectFromEachPlayer: nobody pays more than it has.                    *)
CollectFromEach(g, p) ==
    LET share == [q \in Players |-> Min({g.cash[q], CardAmount})]
    IN  [g EXCEPT !.cash = [q \in Players |->
            IF q = p THEN g.cash[p] + SumFunctionOnSet(share, Others(g, p))
            ELSE IF q \in Others(g, p) THEN g.cash[q] - share[q] ELSE g.cash[q]]]

(* payEachPlayer: what cannot be paid to the others is owed to the bank.   *)
PayEach(g, p) ==
    LET total == Cardinality(Others(g, p)) * CardAmount
    IN  IF CanPay(g, p, total)
        THEN [g EXCEPT !.cash = [q \in Players |->
                 IF q = p THEN g.cash[p] - total
                 ELSE IF q \in Others(g, p) THEN g.cash[q] + CardAmount
                 ELSE g.cash[q]]]
        ELSE CreateDebt(g, p, None, total, "card")

(* payPropertyRepairs: an amount per house and one per hotel.              *)
RepairCost(g, t) ==
    IF g.level[t] = Hotel THEN HotelRepair ELSE CardAmount * g.level[t]

Repairs(g, p) ==
    DebitOrDebt(g, p, SumFunctionOnSet([t \in Tiles |-> RepairCost(g, t)], Owned(g, p)), "card")

(* movePlayerToCardTile *)
CardMove(g, p, card, dice) ==
    Arrive(IF card.go THEN Credit(g, p, PassGoCash) ELSE g, p, card.at, dice)

(* A card is [effect, at, go, key]: at and go say where a card moves the   *)
(* player and whether GO is passed, key is the free card drawn.            *)
ApplyCard(g, p, card, dice) ==
    CASE card.effect = "collect_money" -> Credit(g, p, CardAmount)
      [] card.effect = "pay_money"     -> DebitOrDebt(g, p, CardAmount, "card")
      [] card.effect = "go_to_jail"    -> SendToJail(g, p)
      [] card.effect = "collect_from_each_player" -> CollectFromEach(g, p)
      [] card.effect = "pay_each_player"  -> PayEach(g, p)
      [] card.effect = "property_repairs" -> Repairs(g, p)
      [] card.effect = "get_out_of_jail_free" ->
            [g EXCEPT !.cards[p] = @ \cup {card.key}, !.deck = @ \ {card.key}]
      [] card.effect = "move" -> CardMove(g, p, card, dice)

Cards == [effect : Effects, at : Places \cup {None}, go : BOOLEAN,
          key : FreeCards \cup {None}]

ASSUME NoCardAssumption == None \notin Cards

(* The cards that may be on top of the deck.                               *)
CardsOf(g) ==
    LET plain == [effect : Effects \ {"get_out_of_jail_free", "move"},
                  at : {None}, go : {FALSE}, key : {None}]
        free  == [effect : Effects \cap {"get_out_of_jail_free"},
                  at : {None}, go : {FALSE}, key : g.deck]
        moves == [effect : Effects \cap {"move"}, at : Places, go : BOOLEAN, key : {None}]
    IN  plain \cup free \cup moves

---------------------------------------------------------------------------
(* Movement.  A roll is [doubles, dice, at, go, card]: whether it is       *)
(* doubles, its sum, where it takes the player, whether GO is passed, and  *)
(* the card drawn if it ends on a card field.                              *)

(* applyDoublesState *)
CountDoubles(g, roll) ==
    IF roll.doubles THEN [g EXCEPT !.doubles = @ + 1, !.again = TRUE] ELSE NoDoubles(g)

(* What happens after the doubles are counted.                             *)
MoveBy(g, p, roll) ==
    LET paid  == IF roll.go THEN Credit(g, p, PassGoCash) ELSE g
        moved == [paid EXCEPT !.phase = "awaiting_turn_end", !.pending = None]
    IN  IF roll.card # None THEN ApplyCard(moved, p, roll.card, roll.dice)
        ELSE Arrive(moved, p, roll.at, roll.dice)

(* rollAndMoveIgnoringJail: the third doubles in a row lead to jail.       *)
Move(g, p, roll) ==
    IF roll.doubles /\ g.doubles = 2 THEN SendToJail(g, p)
    ELSE MoveBy(CountDoubles(g, roll), p, roll)

(* resolveJailedRoll: doubles free the player; the third failure costs the *)
(* fine, or a debt that keeps the player in jail until it is paid.         *)
JailedRoll(g, p, roll) ==
    LET failed  == [g EXCEPT !.jailTurns[p] = @ + 1]
        release(h) == NoDoubles(MoveBy(NoDoubles(Release(h, p)), p, roll))
    IN  CASE roll.doubles -> release(g)
          [] ~roll.doubles /\ failed.jailTurns[p] < MaxJailTurns ->
                NoDoubles([failed EXCEPT !.phase = "awaiting_turn_end"])
          [] ~roll.doubles /\ failed.jailTurns[p] >= MaxJailTurns ->
                IF CanPay(g, p, JailFine) THEN release(Debit(failed, p, JailFine))
                ELSE CreateDebt(failed, p, None, JailFine, "jail_fine")

CanRoll(g, p) ==
    /\ g.phase \in RollPhases /\ g.debt = None
    /\ IsCurrentTurn(g, p)

RollAndMove(g, p, roll) ==
    IF p \in g.jailed THEN JailedRoll(g, p, roll) ELSE Move(g, p, roll)

---------------------------------------------------------------------------
(* Property decision and auction *)

CanDecide(g, p) ==
    /\ g.phase = "awaiting_property_decision" /\ g.debt = None
    /\ IsCurrentTurn(g, p)
    /\ g.pending # None /\ g.owner[g.pending] = None

CanBuy(g, p) == CanDecide(g, p) /\ CanPay(g, p, Board[g.pending].price)

BuyProperty(g, p) ==
    [Debit(g, p, Board[g.pending].price) EXCEPT
        !.phase = "awaiting_turn_end", !.pending = None, !.owner[g.pending] = p]

Decline(g) ==
    [g EXCEPT !.phase = "awaiting_auction_bid", !.pending = None,
              !.auction = [tile |-> g.pending, bid |-> 0, highest |-> None,
                           bidder |-> Min(Active(g)), active |-> Active(g),
                           passed |-> {}]]

Remaining(a) == a.active \ a.passed

(* Mutant: the turn to bid goes round by seat, passed or not.              *)
NextBidderPassed(a, p) == IF Remaining(a) = {} THEN None ELSE SeatAfter(a.active, p)

(* getNextAuctionBidderRoomPlayerId *)
NextBidder(a, p) ==
    IF Remaining(a) = {} \/ Remaining(a) = {a.highest} THEN None
    ELSE SeatAfter(Remaining(a), p)

(* assertActiveAuction, assertAuctionPlayerActive and                      *)
(* assertAuctionPlayerCanAct.                                              *)
InAuction(g) == g.phase = "awaiting_auction_bid" /\ g.auction # None

CurrentBidder(a) ==
    IF a.bidder \in Remaining(a) THEN a.bidder
    ELSE IF Remaining(a) # {} THEN Min(Remaining(a)) ELSE None

MinimumBid(a) == IF a.bid = 0 THEN MinBid ELSE a.bid + 1

(* Mutant: the bid is not compared with the cash of the bidder.            *)
CanBidAnything(g, p, n) ==
    /\ InAuction(g)
    /\ CurrentBidder(g.auction) = p
    /\ n >= MinimumBid(g.auction)

CanBid(g, p, n) ==
    /\ InAuction(g)
    /\ CurrentBidder(g.auction) = p
    /\ n >= MinimumBid(g.auction)
    /\ CanPay(g, p, n)

(* completeAuctionWithWinner debits the highest bidder, or throws.         *)
CanWin(g, a) == CanPay(g, a.highest, a.bid)

Win(g, a) ==
    [Debit(g, a.highest, a.bid) EXCEPT
        !.phase = "awaiting_turn_end", !.auction = None, !.owner[a.tile] = a.highest]

WithoutWinner(g, a) ==
    [g EXCEPT !.phase = "awaiting_turn_end", !.auction = None, !.owner[a.tile] = None]

PlaceBid(g, p, n) ==
    LET bid == [g.auction EXCEPT !.bid = n, !.highest = p]
        a   == [bid EXCEPT !.bidder = NextBidder(bid, p)]
    IN  IF a.bidder = None THEN Win(g, a) ELSE [g EXCEPT !.auction = a]

AfterPass(g, p) ==
    LET passed == [g.auction EXCEPT !.passed = @ \cup {p}]
    IN  [passed EXCEPT !.bidder = NextBidder(passed, p)]

PassWins(a) == a.highest # None /\ Cardinality(Remaining(a)) <= 1

CanPass(g, p) ==
    /\ InAuction(g)
    /\ CurrentBidder(g.auction) = p
    /\ PassWins(AfterPass(g, p)) => CanWin(g, g.auction)

PassBid(g, p) ==
    LET a == AfterPass(g, p)
    IN  CASE PassWins(a) -> Win(g, a)
          [] ~PassWins(a) /\ Remaining(a) = {} -> WithoutWinner(g, a)
          [] OTHER -> [g EXCEPT !.auction = a]

---------------------------------------------------------------------------
(* End of the turn *)

CanEndTurn(g, p) ==
    g.phase = "awaiting_turn_end" /\ g.debt = None /\ IsCurrentTurn(g, p)

(* Mutant: the turn goes to the next seat, bankrupt or not.                *)
EndTurnNextSeat(g) ==
    IF g.again THEN [g EXCEPT !.phase = "awaiting_roll", !.again = FALSE, !.offer = None]
    ELSE [NoDoubles(g) EXCEPT !.phase = "awaiting_roll", !.turn = @ + 1, !.offer = None,
                              !.current = SeatAfter(Players, g.current)]

EndTurn(g) ==
    IF g.again THEN [g EXCEPT !.phase = "awaiting_roll", !.again = FALSE, !.offer = None]
    ELSE [NoDoubles(g) EXCEPT !.phase = "awaiting_roll", !.turn = @ + 1, !.offer = None,
                              !.current = SeatAfter(Active(g), g.current)]

---------------------------------------------------------------------------
(* Debt and bankruptcy *)

CanPayDebt(g, p) == ResolvingOwnDebt(g, p) /\ DebtPayable(g)

(* Mutant: the debt stays on record.                                       *)
PayDebtKeepingRecord(g, p) ==
    [Debit(g, p, g.debt.amount) EXCEPT !.phase = "awaiting_turn_end", !.again = FALSE]

PayDebt(g, p) ==
    LET d == g.debt
        paid == IF d.to # None THEN Transfer(g, p, d.to, d.amount)
                ELSE Debit(g, p, d.amount)
        released == IF d.reason = "jail_fine" THEN Release(paid, p) ELSE paid
    IN  [released EXCEPT !.phase = "awaiting_turn_end", !.debt = None,
                         !.pending = None, !.auction = None, !.again = FALSE]

(* No caller names a creditor: it is the creditor of the player's own      *)
(* debt, if there is one.                                                  *)
Creditor(g, p) == IF g.debt # None /\ g.debt.by = p THEN g.debt.to ELSE None

CanDeclareBankruptcy(g, p) ==
    /\ ~Finished(g)
    /\ p \notin g.bankrupt
    /\ Creditor(g, p) \notin g.bankrupt

(* Mutant: the cards of a bankrupt player stay with it.                    *)
LiquidateAssetsOnly(g, p) ==
    LET lost == Owned(g, p)
    IN  [g EXCEPT
            !.cash[p] = 0, !.bankrupt = @ \cup {p},
            !.jailed = @ \ {p}, !.jailTurns[p] = 0,
            !.owner = [t \in Tiles |-> IF t \in lost THEN Creditor(g, p) ELSE g.owner[t]],
            !.level = [t \in Tiles |-> IF t \in lost THEN 0 ELSE g.level[t]],
            !.mortgaged = @ \ lost,
            !.debt = IF g.debt # None /\ g.debt.by = p THEN None ELSE g.debt]

(* liquidatePlayerAssets: everything but the cash goes to the creditor or  *)
(* back to the bank; the cash is gone.                                     *)
LiquidateAssets(g, p) ==
    LET lost == Owned(g, p)
    IN  [g EXCEPT
            !.cash[p] = 0, !.bankrupt = @ \cup {p},
            !.jailed = @ \ {p}, !.jailTurns[p] = 0,
            !.cards[p] = {}, !.deck = @ \cup g.cards[p],
            !.owner = [t \in Tiles |-> IF t \in lost THEN Creditor(g, p) ELSE g.owner[t]],
            !.level = [t \in Tiles |-> IF t \in lost THEN 0 ELSE g.level[t]],
            !.mortgaged = @ \ lost,
            !.debt = IF g.debt # None /\ g.debt.by = p THEN None ELSE g.debt]

(* The state both kinds of finish and the last bankruptcy end in.          *)
Finish(g) ==
    [NoDoubles(g) EXCEPT !.phase = "finished", !.auction = None, !.pending = None,
                         !.offer = None, !.debt = None]

GameDecided(g) == Cardinality(Active(g)) <= 1 \/ Active(g) \cap Humans = {}

(* Mutant: the turn of a bankrupt player passes to the first seat.         *)
DeclareBankruptcyFirstSeat(g, p) ==
    LET h == LiquidateAssets(g, p)
    IN  IF GameDecided(h) THEN [Finish(h) EXCEPT !.current = Min(Active(h) \cup {g.current})]
        ELSE [NoDoubles(h) EXCEPT !.phase = "awaiting_roll", !.turn = @ + 1,
                                  !.current = Min(Active(h)),
                                  !.auction = None, !.pending = None]

(* The bankruptcy of another player than the one whose turn it is leaves   *)
(* phase, auction, trade offer and foreign debt alone; the bankruptcy of   *)
(* the one whose turn it is leaves the trade offer.                        *)
DeclareBankruptcy(g, p) ==
    LET h == LiquidateAssets(g, p)
    IN  CASE GameDecided(h) ->
               [Finish(h) EXCEPT !.current =
                   IF Active(h) # {} THEN Min(Active(h)) ELSE g.current]
          [] ~GameDecided(h) /\ g.current # p -> h
          [] ~GameDecided(h) /\ g.current = p ->
               [NoDoubles(h) EXCEPT !.phase = "awaiting_roll", !.turn = @ + 1,
                                    !.current = SeatAfter(Active(h), p),
                                    !.auction = None, !.pending = None]

(* autoResolveDebt *)
CanAutoResolve(g, p) ==
    /\ ResolvingOwnDebt(g, p)
    /\ LET h == Liquidated(g, p)
       IN  DebtPayable(h) \/ (~SaleRefused(h, p) /\ CanDeclareBankruptcy(h, p))

AutoResolve(g, p) ==
    LET h == Liquidated(g, p)
    IN  IF DebtPayable(h) THEN PayDebt(h, p) ELSE DeclareBankruptcy(h, p)

===========================================================================
