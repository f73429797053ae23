---------------------------- MODULE EngineAssets ----------------------------
(***************************************************************************)
(* Buildings, mortgages and trades: what a player may do with property,    *)
(* and the automatic liquidation that settles a debt.                      *)
(***************************************************************************)
EXTENDS EngineState

---------------------------------------------------------------------------
(* assertCanManageBuildings and assertCanManageMortgage: at the end of the *)
(* own turn and, to raise money, while the own debt is open.               *)

ResolvingOwnDebt(g, p) ==
    /\ g.phase = "awaiting_debt_resolution"
    /\ g.debt # None
    /\ g.debt.by = p

CanManage(g, p)     == IsCurrentTurn(g, p) /\ g.phase = "awaiting_turn_end"
CanRaiseMoney(g, p) == IsCurrentTurn(g, p) /\ (g.phase = "awaiting_turn_end" \/ ResolvingOwnDebt(g, p))

---------------------------------------------------------------------------
(* Buildings *)

(* assertCanBuildHouseEvenly and assertCanBuildHotelEvenly.                *)
BuildsEvenly(g, t) ==
    IF g.level[t] < MaxHouses
    THEN \A u \in SetOf(t) : g.level[u] = Hotel \/ g.level[t] <= g.level[u]
    ELSE \A u \in SetOf(t) : g.level[u] >= MaxHouses

(* Mutant: assertSetIsNotMortgaged looks at the tile only.                 *)
CanBuildBesideMortgage(g, p, t) ==
    /\ CanManage(g, p) /\ g.debt = None
    /\ Board[t].kind = "property"
    /\ OwnsSet(g, p, t)
    /\ t \notin g.mortgaged
    /\ g.level[t] < Hotel
    /\ BuildsEvenly(g, t)
    /\ CanPay(g, p, Board[t].houseCost)

CanBuild(g, p, t) ==
    /\ CanManage(g, p) /\ g.debt = None
    /\ Board[t].kind = "property"
    /\ OwnsSet(g, p, t)
    /\ SetOf(t) \cap g.mortgaged = {}
    /\ g.level[t] < Hotel
    /\ BuildsEvenly(g, t)
    /\ CanPay(g, p, Board[t].houseCost)

Build(g, p, t) ==
    [Debit(g, p, Board[t].houseCost) EXCEPT !.level[t] = @ + 1]

(* A hotel is sold first; a house only where the set is highest.           *)
SellsEvenly(g, t) == \A u \in SetOf(t) : g.level[u] <= g.level[t]

CanSell(g, p, t) ==
    /\ CanRaiseMoney(g, p)
    /\ Board[t].kind = "property"
    /\ OwnsSet(g, p, t)
    /\ g.level[t] > 0
    /\ g.level[t] = Hotel \/ SellsEvenly(g, t)

(* Mutant: a building is bought back at its full price.                    *)
SellAtCost(g, p, t) ==
    [Credit(g, p, Board[t].houseCost) EXCEPT !.level[t] = @ - 1]

Sell(g, p, t) == [Credit(g, p, SellValue(t)) EXCEPT !.level[t] = @ - 1]

---------------------------------------------------------------------------
(* Mortgages *)

CanMortgage(g, p, t) ==
    /\ CanRaiseMoney(g, p)
    /\ g.owner[t] = p
    /\ t \notin g.mortgaged
    /\ ~Built(g, SetOf(t))

Mortgage(g, p, t) ==
    [Credit(g, p, Board[t].mortgage) EXCEPT !.mortgaged = @ \cup {t}]

(* Math.ceil(mortgageValue * 1.1)                                          *)
UnmortgageCost(t) == (11 * Board[t].mortgage + 9) \div 10

CanUnmortgage(g, p, t) ==
    /\ CanManage(g, p)
    /\ g.owner[t] = p
    /\ t \in g.mortgaged
    /\ CanPay(g, p, UnmortgageCost(t))

Unmortgage(g, p, t) ==
    [Debit(g, p, UnmortgageCost(t)) EXCEPT !.mortgaged = @ \ {t}]

---------------------------------------------------------------------------
(* autoResolveDebt: the loop that raises money                             *)

DebtPayable(g) == CanPay(g, g.debt.by, g.debt.amount)

(* findBuildingToSell: hotels first, then the most houses, then board      *)
(* order.                                                                  *)
WithBuildings(g, p) == {t \in Owned(g, p) : g.level[t] > 0}

BuildingToSell(g, p) ==
    LET highest == Max({g.level[t] : t \in WithBuildings(g, p)})
    IN  Min({t \in WithBuildings(g, p) : g.level[t] = highest})

(* findPropertyToMortgage: the first one in board order.                   *)
Mortgageable(g, p) == {t \in Owned(g, p) \ g.mortgaged :
                          g.level[t] = 0 /\ ~Built(g, SetOf(t))}

(* sellBuilding throws, and with it the whole intent.                      *)
SaleRefused(g, p) ==
    /\ ~DebtPayable(g)
    /\ WithBuildings(g, p) # {}
    /\ ~CanSell(g, p, BuildingToSell(g, p))

RaiseMoney(g, p) ==
    IF DebtPayable(g) \/ SaleRefused(g, p) THEN g
    ELSE IF WithBuildings(g, p) # {} THEN Sell(g, p, BuildingToSell(g, p))
    ELSE IF Mortgageable(g, p) # {} THEN Mortgage(g, p, Min(Mortgageable(g, p)))
    ELSE g

(* Mutant: the loop stops after one sale or mortgage.                      *)
LiquidatedOnce(g, p) == RaiseMoney(g, p)

(* As many iterations as there can be buildings and mortgages.             *)
Liquidated(g, p) ==
    LET state[n \in 0..(Hotel + 1) * Cardinality(Tiles)] ==
            IF n = 0 THEN g ELSE RaiseMoney(state[n - 1], p)
    IN  state[(Hotel + 1) * Cardinality(Tiles)]

---------------------------------------------------------------------------
(* Trades *)

(* validateTrade *)
ValidTrade(g, o) ==
    /\ o.from \notin g.bankrupt /\ o.to \notin g.bankrupt
    /\ CanPay(g, o.from, o.give) /\ CanPay(g, o.to, o.want)
    /\ o.give > 0 \/ o.offered # {}
    /\ o.want > 0 \/ o.requested # {}
    /\ o.offered \subseteq Owned(g, o.from)
    /\ o.requested \subseteq Owned(g, o.to)

(* assertCanTrade, and at most one open offer.                             *)
CanTrade(g, p) ==
    /\ g.phase \in TradePhases /\ g.debt = None
    /\ p \notin g.bankrupt
    /\ g.offer = None

Offer(g, o) == [g EXCEPT !.offer = o]

(* liquidateTradeBuildings *)
BuildingValue(g, S) == SumFunctionOnSet([t \in Tiles |-> g.level[t] * SellValue(t)], S)

LiquidateBuildings(g, p, S) ==
    [Credit(g, p, BuildingValue(g, S)) EXCEPT
        !.level = [t \in Tiles |-> IF t \in S THEN 0 ELSE g.level[t]]]

(* acceptTradeOffer: the buildings of the traded tiles, and only of those, *)
(* are sold; a mortgage moves with its tile.                               *)
AcceptOffer(g, o) ==
    LET sold == LiquidateBuildings(LiquidateBuildings(g, o.from, o.offered),
                                   o.to, o.requested)
        paid == Transfer(Transfer(sold, o.from, o.to, o.give), o.to, o.from, o.want)
    IN  [paid EXCEPT
            !.owner = [t \in Tiles |-> IF t \in o.offered THEN o.to
                                       ELSE IF t \in o.requested THEN o.from
                                       ELSE g.owner[t]],
            !.offer = None]

DropOffer(g) == [g EXCEPT !.offer = None]

===========================================================================
