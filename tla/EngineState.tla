---------------------------- MODULE EngineState ----------------------------
(***************************************************************************)
(* The state of the game engine (GameEngineState), its derived values and  *)
(* its money primitives.  The engine is a set of pure functions from a     *)
(* state to a state: an operator g |-> g' per function, with a predicate   *)
(* for the conditions under which the function does not throw.             *)
(*                                                                         *)
(* A player is its seat number and an ownable tile its rank on the board,  *)
(* so that the orders the code sorts by are the order of the numbers.  The *)
(* position of a player is abstracted to where a move ends.                *)
(***************************************************************************)
EXTENDS Integers, FiniteSets, FiniteSetsExt

CONSTANTS
    Players,     \* seat numbers
    Humans,      \* players of type human; the others are bots
    Tiles,       \* ownable tiles, in board order
    Board,       \* tile -> [kind, set, price, rents, houseCost, mortgage]
    MaxHouses,   \* houses a hotel replaces: 4
    Effects,     \* effects of the cards in the decks
    FreeCards,   \* get-out-of-jail-free cards of the two decks
    StartCash,
    PassGoCash,  \* board.passGoCash
    JailFine,    \* JAIL_FINE_AMOUNT
    MaxJailTurns,\* MAX_JAIL_TURN_COUNT
    MinBid,      \* MINIMUM_AUCTION_BID
    TaxAmount,   \* amount of a tax tile
    CardAmount,  \* amount of a card; of repairs, per house
    HotelRepair, \* amount of repairs per hotel
    None         \* null

ASSUME PlayersAssumption ==
    IsFiniteSet(Players) /\ Players \subseteq Nat /\ Cardinality(Players) >= 2
ASSUME HumansAssumption == Humans \subseteq Players /\ Humans # {}
ASSUME TilesAssumption == IsFiniteSet(Tiles) /\ Tiles \subseteq Nat
ASSUME EffectsAssumption ==
    Effects \subseteq {"collect_money", "pay_money", "go_to_jail", "move",
                        "collect_from_each_player", "pay_each_player",
                        "property_repairs", "get_out_of_jail_free"}
ASSUME AmountsAssumption ==
    /\ {MaxHouses, MaxJailTurns, MinBid} \subseteq Nat \ {0}
    /\ {StartCash, PassGoCash, JailFine, TaxAmount, CardAmount, HotelRepair} \subseteq Nat

---------------------------------------------------------------------------
(* Types *)

RollPhases  == {"awaiting_first_turn", "awaiting_roll"}
TradePhases == RollPhases \cup {"awaiting_property_decision", "awaiting_turn_end"}
Phases == TradePhases \cup
          {"awaiting_auction_bid", "awaiting_debt_resolution", "finished"}

Auctions == [tile : Tiles, bid : Nat, highest : Players \cup {None},
             bidder : Players \cup {None},
             active : SUBSET Players, passed : SUBSET Players]
Debts    == [by : Players, to : Players \cup {None}, amount : Nat,
             reason : {"rent", "tax", "card", "jail_fine"}]
Offers   == [from : Players, to : Players, give : Nat, want : Nat,
             offered : SUBSET Tiles, requested : SUBSET Tiles]

ASSUME NoneAssumption ==
    /\ None \notin Players /\ None \notin Tiles
    /\ None \notin Auctions /\ None \notin Debts /\ None \notin Offers

(* The buildings of a tile: its houses (houseCount), or Hotel for hasHotel *)
(* (the valuations of the code count a hotel as five).                     *)
Hotel == MaxHouses + 1

States ==
    [phase : Phases, turn : Nat, current : Players, doubles : 0..2, again : BOOLEAN,
     pending : Tiles \cup {None}, auction : Auctions \cup {None}, debt : Debts \cup {None},
     offer : Offers \cup {None}, deck : SUBSET FreeCards, cash : [Players -> Nat],
     jailed : SUBSET Players, jailTurns : [Players -> 0..MaxJailTurns],
     cards : [Players -> SUBSET FreeCards], bankrupt : SUBSET Players,
     owner : [Tiles -> Players \cup {None}], level : [Tiles -> 0..Hotel],
     mortgaged : SUBSET Tiles]

(* createInitialGameState, createInitialPropertyState and                  *)
(* createInitialDeckState.                                                 *)
InitialGame ==
    [phase |-> "awaiting_first_turn", turn |-> 1, current |-> Min(Players),
     doubles |-> 0, again |-> FALSE, pending |-> None, auction |-> None,
     debt |-> None, offer |-> None, deck |-> FreeCards,
     cash |-> [p \in Players |-> StartCash], jailed |-> {},
     jailTurns |-> [p \in Players |-> 0], cards |-> [p \in Players |-> {}],
     bankrupt |-> {}, owner |-> [t \in Tiles |-> None],
     level |-> [t \in Tiles |-> 0], mortgaged |-> {}]

---------------------------------------------------------------------------
(* Derived state *)

Finished(g) == g.phase = "finished"
Active(g)   == Players \ g.bankrupt
Owned(g, p) == {t \in Tiles : g.owner[t] = p}

(* assertCurrentTurn *)
IsCurrentTurn(g, p) == p \notin g.bankrupt /\ g.current = p

(* The first seat of S after p, around the table.                          *)
SeatAfter(S, p) ==
    LET later == {q \in S : q > p} IN IF later # {} THEN Min(later) ELSE Min(S)

SetOf(t) == {u \in Tiles : /\ Board[t].kind = "property"
                           /\ Board[u].kind = "property"
                           /\ Board[u].set = Board[t].set}
SameKind(t) == {u \in Tiles : Board[u].kind = Board[t].kind}

ASSUME BoardAssumption ==
    \A t \in Tiles :
        /\ {Board[t].price, Board[t].houseCost, Board[t].mortgage} \subseteq Nat
        /\ \/ Board[t].kind = "property" /\ \A n \in 0..Hotel : Board[t].rents[n] \in Nat
           \/ /\ Board[t].kind \in {"airport", "utility"}
              /\ \A n \in 1..Cardinality(SameKind(t)) : Board[t].rents[n] \in Nat

OwnsSet(g, p, t) == SetOf(t) \subseteq Owned(g, p)
Built(g, S) == \E t \in S : g.level[t] > 0

(* Half the cost of a house, which is even on the board.                   *)
SellValue(t) == Board[t].houseCost \div 2

(* calculatePlayerNetWorth *)
AssetNetWorth(g, t) ==
    Board[t].price + g.level[t] * SellValue(t)
        - (IF t \in g.mortgaged THEN Board[t].mortgage ELSE 0)

NetWorth(g, p) ==
    g.cash[p] + SumFunctionOnSet([t \in Tiles |-> AssetNetWorth(g, t)], Owned(g, p))

---------------------------------------------------------------------------
(* Money *)

CanPay(g, p, n) == g.cash[p] >= n
Debit(g, p, n)  == [g EXCEPT !.cash[p] = @ - n]
Credit(g, p, n) == [g EXCEPT !.cash[p] = @ + n]
Transfer(g, p, q, n) == Credit(Debit(g, p, n), q, n)

(* createDebtState *)
CreateDebt(g, p, q, n, why) ==
    [g EXCEPT !.phase = "awaiting_debt_resolution", !.pending = None,
              !.auction = None, !.again = FALSE,
              !.debt = [by |-> p, to |-> q, amount |-> n, reason |-> why]]

DebitOrDebt(g, p, n, why) ==
    IF CanPay(g, p, n) THEN Debit(g, p, n) ELSE CreateDebt(g, p, None, n, why)

TransferOrDebt(g, p, q, n, why) ==
    IF CanPay(g, p, n) THEN Transfer(g, p, q, n) ELSE CreateDebt(g, p, q, n, why)

---------------------------------------------------------------------------
(* Rent *)

(* calculateRent; dice is the sum of the roll.  rents is indexed by the    *)
(* number of buildings for a property, by the number of tiles of the kind  *)
(* its owner has otherwise (a multiplier for a utility).                   *)
Rent(g, t, dice) ==
    LET owned == Cardinality(SameKind(t) \cap Owned(g, g.owner[t]))
    IN  CASE Board[t].kind = "property" ->
               IF g.level[t] = 0 /\ OwnsSet(g, g.owner[t], t)
               THEN 2 * Board[t].rents[0] ELSE Board[t].rents[g.level[t]]
          [] Board[t].kind = "airport" -> Board[t].rents[owned]
          [] Board[t].kind = "utility" -> dice * Board[t].rents[owned]

PayRent(g, p, t, dice) ==
    IF g.owner[t] \in {None, p} \/ t \in g.mortgaged THEN g
    ELSE TransferOrDebt(g, p, g.owner[t], Rent(g, t, dice), "rent")

===========================================================================
