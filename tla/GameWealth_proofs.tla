------------------------- MODULE GameWealth_proofs -------------------------
(***************************************************************************)
(* Proofs about the money of a game.  The total net worth is split into    *)
(* the cash of all players and the worth of all tiles that have an owner;  *)
(* every function of the engine is then followed by what it adds to each.  *)
(***************************************************************************)
EXTENDS GameEngine_proofs

---------------------------------------------------------------------------
(* The total net worth *)

Cash(g) == SumFunctionOnSet(g.cash, Players)

Worth(g) == [t \in Tiles |-> IF g.owner[t] # None THEN AssetNetWorth(g, t) ELSE 0]

Estate(g) == SumFunctionOnSet(Worth(g), Tiles)

LEMMA ValueNat ==
    ASSUME NEW g \in States, NEW t \in Tiles
    PROVE  g.level[t] \in Nat /\ g.level[t] * SellValue(t) \in Nat
<1>1. PICK k \in Nat, n \in Nat : k = g.level[t] /\ n = SellValue(t)
      BY FieldTypes, CostTypes
<1>2. k * n \in Nat
      OBVIOUS
<1>3. QED  BY <1>1, <1>2

LEMMA WorthInt ==
    ASSUME NEW g \in States, NEW t \in Tiles
    PROVE  AssetNetWorth(g, t) \in Int /\ Worth(g)[t] \in Int
<1>1. PICK v \in Nat : v = g.level[t] * SellValue(t)
      BY ValueNat
<1>2. Board[t].price \in Nat /\ Board[t].mortgage \in Nat
      BY CostTypes
<1>3. AssetNetWorth(g, t) \in Int
      BY <1>1, <1>2 DEF AssetNetWorth
<1>4. QED  BY <1>3 DEF Worth

LEMMA WealthSplit ==
    ASSUME NEW g \in States
    PROVE  /\ Wealth(g) = Cash(g) + Estate(g)
           /\ Cash(g) \in Int /\ Estate(g) \in Int
<1>1. IsFiniteSet(Players) /\ IsFiniteSet(Tiles) /\ None \notin Players
      BY PlayersAssumption, TilesAssumption, NoneAssumption
<1>2. PICK A : A = [t \in Tiles |-> AssetNetWorth(g, t)]
      OBVIOUS
<1>3. \A t \in Tiles : A[t] \in Int
      BY <1>2, WorthInt
<1>4. PICK E : E = [p \in Players |-> SumFunctionOnSet(A, Owned(g, p))]
      OBVIOUS
<1>5. \A p \in Players : E[p] \in Int
  <2>1. \A p \in Players : Owned(g, p) \in SUBSET Tiles
        BY DEF Owned
  <2>2. QED  BY <1>1, <1>3, <1>4, <2>1, SumInt
<1> DEFINE W(R) == [t \in Tiles |-> IF g.owner[t] \in R THEN A[t] ELSE 0]
           P == {R \in SUBSET Players : SumFunctionOnSet(E, R) = SumFunctionOnSet(W(R), Tiles)}
<1>6. \A R : \A t \in Tiles : W(R)[t] \in Int
      BY <1>3
<1>7. {} \in P
  <2>1. \A t \in Tiles : W({})[t] = IF t \in {} THEN A[t] ELSE 0
        OBVIOUS
  <2>2. SumFunctionOnSet(W({}), Tiles) = SumFunctionOnSet(A, {})
    <3> HIDE DEF W
    <3> QED  BY <1>1, <1>3, <2>1, SumWithin
  <2>3. QED  BY <2>2, SumEmpty
<1>8. ASSUME NEW R \in SUBSET Players, R # {}, \A x \in R : R \ {x} \in P PROVE R \in P
  <2>1. IsFiniteSet(R)
        BY <1>1, FS_Subset
  <2>2. PICK c \in R : SumFunctionOnSet(E, R) = E[c] + SumFunctionOnSet(E, R \ {c})
        BY <1>8, <2>1, SumChoose
  <2>3. E[c] = SumFunctionOnSet(W({c}), Tiles)
    <3>1. Owned(g, c) \in SUBSET Tiles
          BY DEF Owned
    <3>2. \A t \in Tiles : W({c})[t] = IF t \in Owned(g, c) THEN A[t] ELSE 0
          BY DEF Owned
    <3> HIDE DEF W
    <3>3. SumFunctionOnSet(W({c}), Tiles) = SumFunctionOnSet(A, Owned(g, c))
          BY <1>1, <1>3, <3>1, <3>2, SumWithin
    <3>4. QED  BY <1>4, <3>3
  <2>4. SumFunctionOnSet(E, R \ {c}) = SumFunctionOnSet(W(R \ {c}), Tiles)
        BY <1>8, <2>2
  <2>5. \A t \in Tiles : W(R)[t] = W({c})[t] + W(R \ {c})[t]
        BY <1>3, <2>2
  <2>6. SumFunctionOnSet(W(R), Tiles)
          = SumFunctionOnSet(W({c}), Tiles) + SumFunctionOnSet(W(R \ {c}), Tiles)
    <3> HIDE DEF W
    <3> QED  BY <1>1, <1>6, <2>5, SumPlus
  <2> HIDE DEF W
  <2>7. QED  BY <2>2, <2>3, <2>4, <2>6
<1>9. SUBSET Players \subseteq P
  <2> HIDE DEF P
  <2> QED  BY <1>1, <1>7, <1>8, SubsetInduction
<1>10. W(Players) = Worth(g)
  <2>1. \A t \in Tiles : g.owner[t] \in Players <=> g.owner[t] # None
        BY <1>1, FieldTypes
  <2>2. QED  BY <1>2, <2>1 DEF Worth
<1>11. SumFunctionOnSet(E, Players) = Estate(g)
      BY <1>9, <1>10 DEF Estate
<1>12. Cash(g) \in Int /\ Estate(g) \in Int
  <2>1. \A p \in Players : g.cash[p] \in Int
        BY FieldTypes
  <2>2. \A t \in Tiles : Worth(g)[t] \in Int
        BY WorthInt
  <2>3. Players \in SUBSET Players /\ Tiles \in SUBSET Tiles
        OBVIOUS
  <2>4. QED  BY <1>1, <2>1, <2>2, <2>3, SumInt DEF Cash, Estate
<1>13. Wealth(g) = Cash(g) + SumFunctionOnSet(E, Players)
  <2>1. PICK N : N = [p \in Players |-> NetWorth(g, p)]
        OBVIOUS
  <2>2. \A p \in Players : g.cash[p] \in Int /\ N[p] = g.cash[p] + E[p]
        BY <1>2, <1>4, <2>1, FieldTypes DEF NetWorth
  <2>3. SumFunctionOnSet(N, Players)
          = SumFunctionOnSet(g.cash, Players) + SumFunctionOnSet(E, Players)
        BY <1>1, <1>5, <2>2, SumPlus
  <2>4. QED  BY <2>1, <2>3 DEF Wealth, Cash
<1>14. QED  BY <1>11, <1>12, <1>13

---------------------------------------------------------------------------
(* What a change of the state adds to the total *)

(* Neither cash nor tiles change.                                          *)
Kept(g, h) ==
    /\ h.cash = g.cash /\ h.owner = g.owner
    /\ h.level = g.level /\ h.mortgaged = g.mortgaged

LEMMA EstateKept ==
    ASSUME NEW g, NEW h, h.owner = g.owner, h.level = g.level, h.mortgaged = g.mortgaged
    PROVE  Estate(h) = Estate(g)
<1>1. Worth(h) = Worth(g)
      BY DEF Worth, AssetNetWorth
<1>2. QED  BY <1>1 DEF Estate

LEMMA WealthKept ==
    ASSUME NEW g \in States, NEW h \in States, Kept(g, h)
    PROVE  Wealth(h) = Wealth(g)
<1>1. Estate(h) = Estate(g) /\ Cash(h) = Cash(g)
      BY EstateKept DEF Kept, Cash
<1>2. QED  BY <1>1, WealthSplit

LEMMA CashOne ==
    ASSUME NEW g \in States, NEW h \in States, NEW p \in Players,
           \A q \in Players : q # p => h.cash[q] = g.cash[q]
    PROVE  Cash(h) = Cash(g) + h.cash[p] - g.cash[p]
<1>1. PICK c : c = g.cash
      OBVIOUS
<1>2. PICK d : d = h.cash
      OBVIOUS
<1>3. /\ \A q \in Players : c[q] \in Int /\ d[q] \in Int
      /\ \A q \in Players : q # p => d[q] = c[q]
      /\ IsFiniteSet(Players)
      BY <1>1, <1>2, FieldTypes, PlayersAssumption
<1>4. SumFunctionOnSet(d, Players) = SumFunctionOnSet(c, Players) + d[p] - c[p]
      BY <1>3, SumOne
<1>5. QED  BY <1>1, <1>2, <1>4 DEF Cash

LEMMA EstateOne ==
    ASSUME NEW g \in States, NEW h \in States, NEW t \in Tiles,
           \A u \in Tiles : u # t =>
              /\ h.owner[u] = g.owner[u] /\ h.level[u] = g.level[u]
              /\ u \in h.mortgaged <=> u \in g.mortgaged
    PROVE  Estate(h) = Estate(g) + Worth(h)[t] - Worth(g)[t]
<1>1. PICK c : c = Worth(g)
      OBVIOUS
<1>2. PICK d : d = Worth(h)
      OBVIOUS
<1>3. \A u \in Tiles : c[u] \in Int /\ d[u] \in Int
      BY <1>1, <1>2, WorthInt
<1>4. \A u \in Tiles : u # t => d[u] = c[u]
      BY <1>1, <1>2 DEF Worth, AssetNetWorth
<1>5. SumFunctionOnSet(d, Tiles) = SumFunctionOnSet(c, Tiles) + d[t] - c[t]
  <2>1. IsFiniteSet(Tiles)
        BY TilesAssumption
  <2>2. QED  BY ONLY <1>3, <1>4, <2>1, t \in Tiles, SumOne
<1>6. QED  BY <1>1, <1>2, <1>5 DEF Estate

LEMMA DebitWealth ==
    ASSUME NEW g, Sound(g), NEW p \in Players, NEW n \in Nat, CanPay(g, p, n),
           g.auction = None \/ p \notin g.bankrupt
    PROVE  Wealth(Debit(g, p, n)) = Wealth(g) - n
<1>1. PICK h : h = Debit(g, p, n)
      OBVIOUS
<1>2. Sound(h) /\ Paid(g, h) /\ h.cash = [g.cash EXCEPT ![p] = @ - n]
      BY <1>1, DebitFacts
<1>3. g \in States /\ h \in States /\ g.cash \in [Players -> Nat]
      BY <1>2, FieldTypes DEF Sound
<1>4. \A q \in Players : q # p => h.cash[q] = g.cash[q]
      BY <1>2, <1>3
<1>5. h.cash[p] = g.cash[p] - n /\ g.cash[p] \in Int
      BY <1>2, <1>3
<1>6. Cash(h) = Cash(g) + h.cash[p] - g.cash[p]
      BY <1>3, <1>4, CashOne
<1>7. Estate(h) = Estate(g)
      BY <1>2, EstateKept DEF Paid
<1>8. Wealth(h) = Wealth(g) - n
      BY <1>3, <1>5, <1>6, <1>7, WealthSplit
<1>9. QED  BY <1>1, <1>8

LEMMA CreditWealth ==
    ASSUME NEW g, Sound(g), NEW p \in Players, NEW n \in Nat,
           g.auction = None \/ p \notin g.bankrupt
    PROVE  Wealth(Credit(g, p, n)) = Wealth(g) + n
<1>1. PICK h : h = Credit(g, p, n)
      OBVIOUS
<1>2. Sound(h) /\ Paid(g, h) /\ h.cash = [g.cash EXCEPT ![p] = @ + n]
      BY <1>1, CreditFacts
<1>3. g \in States /\ h \in States /\ g.cash \in [Players -> Nat]
      BY <1>2, FieldTypes DEF Sound
<1>4. \A q \in Players : q # p => h.cash[q] = g.cash[q]
      BY <1>2, <1>3
<1>5. h.cash[p] = g.cash[p] + n /\ g.cash[p] \in Int
      BY <1>2, <1>3
<1>6. Cash(h) = Cash(g) + h.cash[p] - g.cash[p]
      BY <1>3, <1>4, CashOne
<1>7. Estate(h) = Estate(g)
      BY <1>2, EstateKept DEF Paid
<1>8. Wealth(h) = Wealth(g) + n
      BY <1>3, <1>5, <1>6, <1>7, WealthSplit
<1>9. QED  BY <1>1, <1>8

LEMMA TransferWealth ==
    ASSUME NEW g, Sound(g), NEW p \in Players, NEW q \in Players, NEW n \in Nat,
           CanPay(g, p, n),
           g.auction = None \/ (p \notin g.bankrupt /\ q \notin g.bankrupt)
    PROVE  Wealth(Transfer(g, p, q, n)) = Wealth(g)
<1>1. PICK h : h = Debit(g, p, n)
      OBVIOUS
<1>2. Sound(h) /\ Paid(g, h) /\ Wealth(h) = Wealth(g) - n
      BY <1>1, DebitFacts, DebitWealth
<1>3. Wealth(Credit(h, q, n)) = Wealth(h) + n
      BY <1>2, CreditWealth DEF Paid, SameTurn
<1>4. Wealth(g) \in Int
      BY WealthSplit DEF Sound
<1>5. Transfer(g, p, q, n) = Credit(h, q, n)
      BY <1>1 DEF Transfer
<1>6. QED  BY <1>2, <1>3, <1>4, <1>5

(* A tile t with an owner gets other buildings or another mortgage.        *)
LEMMA TileWealth ==
    ASSUME NEW g \in States, NEW h \in States, NEW t \in Tiles, g.owner[t] # None,
           h.cash = g.cash, h.owner = g.owner,
           \A u \in Tiles : u # t =>
              h.level[u] = g.level[u] /\ (u \in h.mortgaged <=> u \in g.mortgaged)
    PROVE  Wealth(h) = Wealth(g) + AssetNetWorth(h, t) - AssetNetWorth(g, t)
<1>1. Estate(h) = Estate(g) + Worth(h)[t] - Worth(g)[t]
      BY EstateOne
<1>2. Worth(h)[t] = AssetNetWorth(h, t) /\ Worth(g)[t] = AssetNetWorth(g, t)
      BY DEF Worth
<1>3. Cash(h) = Cash(g)
      BY DEF Cash
<1>4. AssetNetWorth(h, t) \in Int /\ AssetNetWorth(g, t) \in Int
      BY WorthInt
<1>5. QED  BY <1>1, <1>2, <1>3, <1>4, WealthSplit

---------------------------------------------------------------------------
(* Buildings, mortgages and purchases *)

LEMMA LevelWorth ==
    ASSUME NEW g \in States, NEW h \in States, NEW t \in Tiles, NEW d \in Int,
           h.level[t] = g.level[t] + d, t \in h.mortgaged <=> t \in g.mortgaged
    PROVE  AssetNetWorth(h, t) = AssetNetWorth(g, t) + d * SellValue(t)
<1>1. PICK k \in Int, n \in Int : k = g.level[t] /\ n = SellValue(t)
      BY ValueNat, CostTypes
<1>2. (k + d) * n = k * n + d * n /\ k * n \in Int /\ d * n \in Int
      OBVIOUS
<1>3. PICK x \in Int : x = IF t \in g.mortgaged THEN Board[t].mortgage ELSE 0
      BY CostTypes
<1>4. Board[t].price \in Int
      BY CostTypes
<1>5. AssetNetWorth(g, t) = Board[t].price + k * n - x
      BY <1>1, <1>3 DEF AssetNetWorth
<1>6. AssetNetWorth(h, t) = Board[t].price + (k + d) * n - x
      BY <1>1, <1>3 DEF AssetNetWorth
<1>7. QED  BY <1>1, <1>2, <1>3, <1>4, <1>5, <1>6

LEMMA MortgageWorth ==
    ASSUME NEW g \in States, NEW h \in States, NEW t \in Tiles,
           h.level[t] = g.level[t], t \in h.mortgaged, t \notin g.mortgaged
    PROVE  AssetNetWorth(h, t) = AssetNetWorth(g, t) - Board[t].mortgage
<1>1. PICK v \in Nat : v = g.level[t] * SellValue(t)
      BY ValueNat
<1>2. Board[t].price \in Nat /\ Board[t].mortgage \in Nat
      BY CostTypes
<1>3. AssetNetWorth(g, t) = Board[t].price + v - 0
      BY <1>1 DEF AssetNetWorth
<1>4. AssetNetWorth(h, t) = Board[t].price + v - Board[t].mortgage
      BY <1>1 DEF AssetNetWorth
<1>5. QED  BY <1>2, <1>3, <1>4

LEMMA BuildWealth ==
    ASSUME NEW g, Sound(g), NEW p \in Players, NEW t \in Tiles, CanBuild(g, p, t)
    PROVE  Wealth(Build(g, p, t)) <= Wealth(g)
<1>1. g \in States /\ p \notin g.bankrupt /\ g.owner[t] # None
  <2>1. g.owner[t] = p /\ p \notin g.bankrupt
        BY DEF CanBuild, OwnsSet, SetOf, Owned, CanManage, IsCurrentTurn
  <2>2. QED  BY <2>1, NoneAssumption DEF Sound
<1>2. PICK n \in Nat : n = Board[t].houseCost
      BY CostTypes
<1>3. PICK f : f = Debit(g, p, n)
      OBVIOUS
<1>4. Sound(f) /\ Paid(g, f) /\ Wealth(f) = Wealth(g) - n
      BY <1>1, <1>2, <1>3, DebitFacts, DebitWealth DEF CanBuild
<1>5. PICK h : h = Build(g, p, t)
      OBVIOUS
<1>6. h \in States /\ f \in States
      BY <1>4, <1>5, BuildFacts DEF Sound
<1>7. h = [f EXCEPT !.level[t] = @ + 1]
      BY <1>2, <1>3, <1>5 DEF Build
<1>8. /\ h.cash = f.cash /\ h.owner = f.owner /\ h.mortgaged = f.mortgaged
      /\ h.level[t] = f.level[t] + 1 /\ \A u \in Tiles : u # t => h.level[u] = f.level[u]
      BY <1>6, <1>7 DEF States
<1>9. AssetNetWorth(h, t) = AssetNetWorth(f, t) + 1 * SellValue(t)
      BY <1>6, <1>8, LevelWorth
<1>10. Wealth(h) = Wealth(f) + AssetNetWorth(h, t) - AssetNetWorth(f, t)
  <2>1. f.owner[t] # None
        BY <1>1, <1>4 DEF Paid
  <2>2. QED  BY <1>6, <1>8, <2>1, TileWealth
<1>11. SellValue(t) \in Nat /\ SellValue(t) <= n
      BY <1>2, CostTypes DEF SellValue
<1>12. Wealth(g) \in Int /\ AssetNetWorth(f, t) \in Int
      BY <1>1, <1>6, WealthSplit, WorthInt
<1>13. QED  BY <1>4, <1>5, <1>9, <1>10, <1>11, <1>12

LEMMA SellWealth ==
    ASSUME NEW g, Sound(g), NEW p \in Players, p \notin g.bankrupt,
           NEW t \in Tiles, g.level[t] > 0
    PROVE  Wealth(Sell(g, p, t)) = Wealth(g)
<1>1. g \in States /\ g.owner[t] # None
      BY DEF Sound, Bare
<1>2. PICK n \in Nat : n = SellValue(t)
      BY CostTypes
<1>3. PICK f : f = Credit(g, p, n)
      OBVIOUS
<1>4. Sound(f) /\ Paid(g, f) /\ Wealth(f) = Wealth(g) + n
      BY <1>2, <1>3, CreditFacts, CreditWealth
<1>5. PICK h : h = Sell(g, p, t)
      OBVIOUS
<1>6. h \in States /\ f \in States
      BY <1>4, <1>5, SellFacts DEF Sound
<1>7. h = [f EXCEPT !.level[t] = @ - 1]
      BY <1>2, <1>3, <1>5 DEF Sell
<1>8. /\ h.cash = f.cash /\ h.owner = f.owner /\ h.mortgaged = f.mortgaged
      /\ h.level[t] = f.level[t] - 1 /\ \A u \in Tiles : u # t => h.level[u] = f.level[u]
      BY <1>6, <1>7 DEF States
<1>9. AssetNetWorth(h, t) = AssetNetWorth(f, t) + (-1) * SellValue(t)
  <2>1. f.level[t] \in Nat
        BY <1>6, ValueNat
  <2>2. h.level[t] = f.level[t] + (-1)
        BY <1>8, <2>1
  <2>3. QED  BY <1>6, <1>8, <2>2, LevelWorth
<1>10. Wealth(h) = Wealth(f) + AssetNetWorth(h, t) - AssetNetWorth(f, t)
  <2>1. f.owner[t] # None
        BY <1>1, <1>4 DEF Paid
  <2>2. QED  BY <1>6, <1>8, <2>1, TileWealth
<1>11. Wealth(g) \in Int /\ AssetNetWorth(f, t) \in Int
      BY <1>1, <1>6, WealthSplit, WorthInt
<1>12. QED  BY <1>2, <1>4, <1>5, <1>9, <1>10, <1>11

LEMMA MortgageWealth ==
    ASSUME NEW g, Sound(g), NEW p \in Players, p \notin g.bankrupt,
           NEW t \in Tiles, g.owner[t] # None, t \notin g.mortgaged, ~Built(g, SetOf(t))
    PROVE  Wealth(Mortgage(g, p, t)) = Wealth(g)
<1>1. g \in States
      BY DEF Sound
<1>2. PICK n \in Nat : n = Board[t].mortgage
      BY CostTypes
<1>3. PICK f : f = Credit(g, p, n)
      OBVIOUS
<1>4. Sound(f) /\ Paid(g, f) /\ Wealth(f) = Wealth(g) + n
      BY <1>2, <1>3, CreditFacts, CreditWealth
<1>5. PICK h : h = Mortgage(g, p, t)
      OBVIOUS
<1>6. h \in States /\ f \in States
      BY <1>4, <1>5, MortgageFacts DEF Sound
<1>7. h = [f EXCEPT !.mortgaged = @ \cup {t}]
      BY <1>2, <1>3, <1>5 DEF Mortgage
<1>8. /\ h.cash = f.cash /\ h.owner = f.owner /\ h.level = f.level
      /\ h.mortgaged = f.mortgaged \cup {t} /\ t \notin f.mortgaged
      BY <1>4, <1>6, <1>7 DEF States, Paid
<1>9. AssetNetWorth(h, t) = AssetNetWorth(f, t) - n
      BY <1>2, <1>6, <1>8, MortgageWorth
<1>10. Wealth(h) = Wealth(f) + AssetNetWorth(h, t) - AssetNetWorth(f, t)
  <2>1. f.owner[t] # None
        BY <1>4 DEF Paid
  <2>2. QED  BY <1>6, <1>8, <2>1, TileWealth
<1>11. Wealth(g) \in Int /\ AssetNetWorth(f, t) \in Int
      BY <1>1, <1>6, WealthSplit, WorthInt
<1>12. QED  BY <1>4, <1>5, <1>9, <1>10, <1>11

LEMMA UnmortgageWealth ==
    ASSUME NEW g, Sound(g), NEW p \in Players, NEW t \in Tiles, CanUnmortgage(g, p, t)
    PROVE  Wealth(Unmortgage(g, p, t)) <= Wealth(g)
<1>1. g \in States /\ p \notin g.bankrupt /\ g.owner[t] # None /\ t \in g.mortgaged
      BY NoneAssumption DEF CanUnmortgage, CanManage, IsCurrentTurn, Sound
<1>2. PICK n \in Nat : n = UnmortgageCost(t)
      BY CostTypes
<1>3. PICK f : f = Debit(g, p, n)
      OBVIOUS
<1>4. Sound(f) /\ Paid(g, f) /\ Wealth(f) = Wealth(g) - n
      BY <1>1, <1>2, <1>3, DebitFacts, DebitWealth DEF CanUnmortgage
<1>5. PICK h : h = Unmortgage(g, p, t)
      OBVIOUS
<1>6. h \in States /\ f \in States
      BY <1>4, <1>5, UnmortgageFacts DEF Sound
<1>7. h = [f EXCEPT !.mortgaged = @ \ {t}]
      BY <1>2, <1>3, <1>5 DEF Unmortgage
<1>8. /\ h.cash = f.cash /\ h.owner = f.owner /\ h.level = f.level
      /\ h.mortgaged = f.mortgaged \ {t} /\ t \in f.mortgaged
      BY <1>1, <1>4, <1>6, <1>7 DEF States, Paid
<1>9. AssetNetWorth(f, t) = AssetNetWorth(h, t) - Board[t].mortgage
      BY <1>6, <1>8, MortgageWorth
<1>10. Wealth(h) = Wealth(f) + AssetNetWorth(h, t) - AssetNetWorth(f, t)
  <2>1. f.owner[t] # None
        BY <1>1, <1>4 DEF Paid
  <2>2. QED  BY <1>6, <1>8, <2>1, TileWealth
<1>11. Board[t].mortgage \in Nat /\ Board[t].mortgage <= n
  <2>1. PICK m \in Nat : m = Board[t].mortgage
        BY CostTypes
  <2>2. m <= (11 * m + 9) \div 10
        OBVIOUS
  <2>3. QED  BY <1>2, <2>1, <2>2 DEF UnmortgageCost
<1>12. Wealth(g) \in Int /\ AssetNetWorth(h, t) \in Int
      BY <1>1, <1>6, WealthSplit, WorthInt
<1>13. QED  BY <1>4, <1>5, <1>9, <1>10, <1>11, <1>12

LEMMA BuyWealth ==
    ASSUME NEW g, Sound(g), NEW p \in Players, CanBuy(g, p)
    PROVE  Wealth(BuyProperty(g, p)) = Wealth(g)
<1>1. /\ g \in States /\ g.pending \in Tiles /\ p \notin g.bankrupt
      /\ g.owner[g.pending] = None
      BY FieldTypes DEF CanBuy, CanDecide, IsCurrentTurn, Sound
<1>2. PICK t \in Tiles : t = g.pending
      BY <1>1
<1>3. PICK n \in Nat : n = Board[t].price
      BY CostTypes
<1>4. PICK f : f = Debit(g, p, n)
      OBVIOUS
<1>5. Sound(f) /\ Paid(g, f) /\ Wealth(f) = Wealth(g) - n
      BY <1>1, <1>2, <1>3, <1>4, DebitFacts, DebitWealth DEF CanBuy
<1>6. PICK h : h = BuyProperty(g, p)
      OBVIOUS
<1>7. h \in States /\ f \in States
      BY <1>5, <1>6, BuyFacts DEF Sound
<1>8. h = [f EXCEPT !.phase = "awaiting_turn_end", !.pending = None, !.owner[t] = p]
      BY <1>2, <1>3, <1>4, <1>6 DEF BuyProperty
<1>9. /\ h.cash = f.cash /\ h.level = f.level /\ h.mortgaged = f.mortgaged
      /\ h.owner[t] = p /\ \A u \in Tiles : u # t => h.owner[u] = f.owner[u]
      BY <1>7, <1>8 DEF States
<1>10. f.owner[t] = None /\ f.level[t] = 0 /\ t \notin f.mortgaged
  <2>1. f.owner[t] = None
        BY <1>1, <1>2, <1>5 DEF Paid
  <2>2. QED  BY <1>5, <2>1 DEF Sound, Bare
<1>11. Worth(f)[t] = 0 /\ Worth(h)[t] = n
  <2>1. AssetNetWorth(h, t) = n
    <3>1. PICK m \in Nat : m = SellValue(t)
          BY CostTypes
    <3>2. 0 * m = 0
          OBVIOUS
    <3>3. QED  BY <1>3, <1>9, <1>10, <3>1, <3>2 DEF AssetNetWorth
  <2>2. QED  BY <1>9, <1>10, <2>1, NoneAssumption DEF Worth
<1>12. Estate(h) = Estate(f) + Worth(h)[t] - Worth(f)[t]
      BY <1>7, <1>9, EstateOne
<1>13. Cash(h) = Cash(f)
      BY <1>9 DEF Cash
<1>14. Wealth(h) = Wealth(f) + n /\ Wealth(g) \in Int
      BY <1>1, <1>7, <1>11, <1>12, <1>13, WealthSplit
<1>15. QED  BY <1>5, <1>6, <1>14

---------------------------------------------------------------------------
(* Trades *)

(* The buildings on traded tiles are sold for what they are worth.         *)
LEMMA LiquidateBuildingsWealth ==
    ASSUME NEW g, Sound(g), NEW p \in Players, p \notin g.bankrupt, NEW S \in SUBSET Tiles
    PROVE  Wealth(LiquidateBuildings(g, p, S)) = Wealth(g)
<1>1. PICK h : h = LiquidateBuildings(g, p, S)
      OBVIOUS
<1>2. g \in States /\ h \in States /\ IsFiniteSet(Tiles) /\ IsFiniteSet(S)
      BY <1>1, LiquidateBuildingsFacts, TilesAssumption, FS_Subset DEF Sound
<1>3. PICK value : value = [t \in Tiles |-> g.level[t] * SellValue(t)]
      OBVIOUS
<1>4. \A t \in Tiles : value[t] \in Nat /\ value[t] \in Int
      BY <1>2, <1>3, ValueNat
<1>5. PICK n : n = SumFunctionOnSet(value, S)
      OBVIOUS
<1>6. n \in Nat /\ n = BuildingValue(g, S)
  <2>1. n \in Nat
        BY <1>2, <1>4, <1>5, SumNat
  <2>2. QED  BY <1>3, <1>5, <2>1 DEF BuildingValue
<1>7. PICK f : f = Credit(g, p, n)
      OBVIOUS
<1>8. Sound(f) /\ Paid(g, f) /\ Wealth(f) = Wealth(g) + n
      BY <1>6, <1>7, CreditFacts, CreditWealth
<1>9. PICK l : l = [t \in Tiles |-> IF t \in S THEN 0 ELSE g.level[t]]
      OBVIOUS
<1>10. h = [f EXCEPT !.level = l]
      BY <1>1, <1>6, <1>7, <1>9 DEF LiquidateBuildings
<1>11. f \in States
      BY <1>8 DEF Sound
<1>12. /\ h.cash = f.cash /\ h.owner = g.owner /\ h.mortgaged = g.mortgaged /\ h.level = l
       /\ f.owner = g.owner /\ f.level = g.level /\ f.mortgaged = g.mortgaged
      BY <1>8, <1>10, <1>11 DEF States, Paid
<1>13. PICK sold : sold = [t \in Tiles |-> IF t \in S THEN value[t] ELSE 0]
      OBVIOUS
<1>14. SumFunctionOnSet(sold, Tiles) = n
      BY <1>2, <1>4, <1>5, <1>13, SumWithin
<1>15. ASSUME NEW t \in Tiles
       PROVE  Worth(h)[t] \in Int /\ sold[t] \in Int /\ Worth(f)[t] = Worth(h)[t] + sold[t]
  <2>1. Worth(h)[t] \in Int /\ Worth(f)[t] \in Int /\ sold[t] \in Int
        BY <1>2, <1>4, <1>11, <1>13, WorthInt
  <2>2. CASE g.owner[t] = None
    <3>1. g.level[t] = 0
          BY <2>2 DEF Sound, Bare
    <3>2. PICK m \in Nat : m = SellValue(t)
          BY CostTypes
    <3>3. 0 * m = 0
          OBVIOUS
    <3>4. sold[t] = 0
          BY <1>3, <1>13, <3>1, <3>2, <3>3
    <3>5. Worth(f)[t] = 0 /\ Worth(h)[t] = 0
          BY <1>12, <2>2 DEF Worth
    <3>6. QED  BY <2>1, <3>4, <3>5
  <2>3. CASE g.owner[t] # None /\ t \in S
    <3>1. PICK k \in Nat, d \in Int : k = g.level[t] /\ d = -k
          BY <1>2, ValueNat
    <3>2. h.level[t] = 0 /\ f.level[t] = k
          BY <1>9, <1>12, <2>3, <3>1
    <3>3. h.level[t] = f.level[t] + d
          BY <3>1, <3>2
    <3>4. AssetNetWorth(h, t) = AssetNetWorth(f, t) + d * SellValue(t)
          BY <1>2, <1>11, <1>12, <3>3, LevelWorth
    <3>5. PICK m \in Nat : m = SellValue(t)
          BY CostTypes
    <3>6. (-k) * m = -(k * m)
          OBVIOUS
    <3>7. sold[t] = k * m
          BY <1>3, <1>13, <2>3, <3>1, <3>5
    <3>8. Worth(h)[t] = AssetNetWorth(h, t) /\ Worth(f)[t] = AssetNetWorth(f, t)
          BY <1>12, <2>3 DEF Worth
    <3>9. Worth(h)[t] = Worth(f)[t] + (-(sold[t]))
          BY <3>1, <3>4, <3>5, <3>6, <3>7, <3>8
    <3>10. QED  BY <2>1, <3>9
  <2>4. CASE t \notin S
    <3>1. h.level[t] = f.level[t] /\ sold[t] = 0
          BY <1>9, <1>12, <1>13, <2>4
    <3>2. Worth(h)[t] = Worth(f)[t]
          BY <1>12, <3>1 DEF Worth, AssetNetWorth
    <3>3. QED  BY <2>1, <3>1, <3>2
  <2>5. QED  BY <2>2, <2>3, <2>4
<1>16. Estate(f) = Estate(h) + n
  <2>1. PICK c : c = Worth(h)
        OBVIOUS
  <2>2. PICK d : d = Worth(f)
        OBVIOUS
  <2>3. \A t \in Tiles : c[t] \in Int /\ sold[t] \in Int /\ d[t] = c[t] + sold[t]
        BY <1>15, <2>1, <2>2
  <2>4. SumFunctionOnSet(d, Tiles) = SumFunctionOnSet(c, Tiles) + SumFunctionOnSet(sold, Tiles)
    <3>1. IsFiniteSet(Tiles)
          BY <1>2
    <3>2. QED  BY ONLY <2>3, <3>1, SumPlus
  <2>5. QED  BY <1>14, <2>1, <2>2, <2>4 DEF Estate
<1>17. Cash(h) = Cash(f)
      BY <1>12 DEF Cash
<1>18. Wealth(h) = Wealth(f) - n
      BY <1>2, <1>6, <1>11, <1>16, <1>17, WealthSplit
<1>19. Wealth(g) \in Int
      BY <1>2, WealthSplit
<1>20. QED  BY <1>1, <1>6, <1>8, <1>18, <1>19

(* Tiles that have an owner change hands.                                  *)
LEMMA HandOverWealth ==
    ASSUME NEW g \in States, NEW h \in States, h.cash = g.cash, h.level = g.level,
           h.mortgaged = g.mortgaged,
           \A t \in Tiles : h.owner[t] = None <=> g.owner[t] = None
    PROVE  Wealth(h) = Wealth(g)
<1>1. Worth(h) = Worth(g)
      BY DEF Worth, AssetNetWorth
<1>2. Estate(h) = Estate(g) /\ Cash(h) = Cash(g)
      BY <1>1 DEF Estate, Cash
<1>3. QED  BY <1>2, WealthSplit

LEMMA AcceptWealth ==
    ASSUME NEW g, Sound(g), NEW o \in Offers, ValidTrade(g, o)
    PROVE  Wealth(AcceptOffer(g, o)) = Wealth(g)
<1>1. PICK p \in Players, q \in Players, n \in Nat, m \in Nat, S \in SUBSET Tiles, T \in SUBSET Tiles :
        p = o.from /\ q = o.to /\ n = o.give /\ m = o.want /\ S = o.offered /\ T = o.requested
      BY DEF Offers
<1>2. /\ p \notin g.bankrupt /\ q \notin g.bankrupt
      /\ g.cash[p] >= n /\ g.cash[q] >= m
      /\ S \subseteq Owned(g, p) /\ T \subseteq Owned(g, q)
      BY <1>1 DEF ValidTrade, CanPay
<1>3. g \in States /\ g.cash \in [Players -> Nat] /\ g.owner \in [Tiles -> Players \cup {None}]
      BY FieldTypes DEF Sound
<1>4. PICK a : a = LiquidateBuildings(g, p, S)
      OBVIOUS
<1>5. Sound(a) /\ Managed(g, a) /\ \A r \in Players : a.cash[r] >= g.cash[r]
      BY <1>2, <1>4, LiquidateBuildingsFacts
<1>6. PICK b : b = LiquidateBuildings(a, q, T)
      OBVIOUS
<1>7. Sound(b) /\ Managed(g, b) /\ \A r \in Players : b.cash[r] >= a.cash[r]
      BY <1>2, <1>5, <1>6, LiquidateBuildingsFacts DEF Managed, SameTurn
<1>8. a.cash \in [Players -> Nat] /\ b.cash \in [Players -> Nat]
      BY <1>5, <1>7, FieldTypes DEF Sound
<1>9. b.cash[p] >= n /\ b.cash[q] >= m
      BY <1>2, <1>3, <1>5, <1>7, <1>8
<1>10. PICK c : c = Transfer(b, p, q, n)
      OBVIOUS
<1>11. CanPay(b, p, n) /\ p \notin b.bankrupt /\ q \notin b.bankrupt
      BY <1>2, <1>7, <1>9 DEF CanPay, Managed, SameTurn
<1>12. Sound(c) /\ Paid(b, c) /\ \A r \in Players : r # p \/ q = p => c.cash[r] >= b.cash[r]
      BY <1>7, <1>10, <1>11, TransferFacts
<1>13. c.cash \in [Players -> Nat]
      BY <1>12, FieldTypes DEF Sound
<1>14. c.cash[q] >= m
      BY <1>8, <1>9, <1>12, <1>13
<1>15. PICK d : d = Transfer(c, q, p, m)
      OBVIOUS
<1>16. CanPay(c, q, m) /\ p \notin c.bankrupt /\ q \notin c.bankrupt
      BY <1>2, <1>7, <1>12, <1>14 DEF CanPay, Managed, Paid, SameTurn
<1>17. Sound(d) /\ Paid(c, d)
      BY <1>12, <1>15, <1>16, TransferFacts
<1>18. Wealth(a) = Wealth(g) /\ Wealth(b) = Wealth(a)
  <2>1. Wealth(a) = Wealth(g)
        BY <1>2, <1>4, LiquidateBuildingsWealth
  <2>2. q \notin a.bankrupt
        BY <1>2, <1>5 DEF Managed, SameTurn
  <2>3. QED  BY <1>5, <1>6, <2>1, <2>2, LiquidateBuildingsWealth
<1>19. Wealth(c) = Wealth(b)
      BY <1>7, <1>10, <1>11, TransferWealth
<1>20. Wealth(d) = Wealth(c)
      BY <1>12, <1>15, <1>16, TransferWealth
<1>21. d.owner = g.owner
      BY <1>7, <1>12, <1>17 DEF Managed, Paid
<1>22. PICK w : w = [t \in Tiles |-> IF t \in S THEN q ELSE IF t \in T THEN p ELSE g.owner[t]]
      OBVIOUS
<1>23. PICK h : h = AcceptOffer(g, o)
      OBVIOUS
<1>24. h = [d EXCEPT !.owner = w, !.offer = None]
      BY <1>1, <1>4, <1>6, <1>10, <1>15, <1>22, <1>23 DEF AcceptOffer
<1>25. d \in States /\ h \in States
      BY <1>17, <1>23, AcceptFacts DEF Sound
<1>26. /\ h.cash = d.cash /\ h.level = d.level /\ h.mortgaged = d.mortgaged
       /\ h.owner = w
      BY <1>24, <1>25 DEF States
<1>27. \A t \in Tiles : w[t] = None <=> g.owner[t] = None
      BY <1>2, <1>22, NoneAssumption DEF Owned
<1>28. Wealth(h) = Wealth(d)
      BY <1>21, <1>25, <1>26, <1>27, HandOverWealth
<1>29. QED  BY <1>18, <1>19, <1>20, <1>23, <1>28

---------------------------------------------------------------------------
(* Debt and jail *)

LEMMA PayDebtWealth ==
    ASSUME NEW g, Sound(g), NEW p \in Players, CanPayDebt(g, p)
    PROVE  Wealth(PayDebt(g, p)) <= Wealth(g)
<1>1. PICK d : d = g.debt
      OBVIOUS
<1>2. /\ g \in States /\ g.auction = None /\ CanPay(g, p, d.amount)
      /\ d.amount \in Nat /\ d.to \in Players \cup {None}
  <2>1. g \in States /\ d # None /\ d \in Debts /\ g.auction = None /\ CanPay(g, p, d.amount)
        BY <1>1, FieldTypes DEF CanPayDebt, ResolvingOwnDebt, DebtPayable, Sound, Records
  <2>2. QED  BY <2>1 DEF Debts
<1>3. PICK paid : paid = IF d.to # None THEN Transfer(g, p, d.to, d.amount)
                         ELSE Debit(g, p, d.amount)
      OBVIOUS
<1>4. Sound(paid) /\ Wealth(paid) <= Wealth(g)
  <2>1. Wealth(g) \in Int
        BY <1>2, WealthSplit
  <2>2. CASE d.to # None
        BY <1>2, <1>3, <2>1, <2>2, TransferFacts, TransferWealth
  <2>3. CASE d.to = None
    <3>1. PICK n \in Nat : n = d.amount
          BY <1>2
    <3>2. paid = Debit(g, p, n) /\ CanPay(g, p, n)
          BY <1>2, <1>3, <2>3, <3>1
    <3>3. Sound(paid) /\ Wealth(paid) = Wealth(g) - n
          BY <1>2, <3>2, DebitFacts, DebitWealth
    <3>4. QED  BY <2>1, <3>3
  <2>4. QED  BY <2>2, <2>3
<1>5. PICK f : f = IF d.reason = "jail_fine" THEN Release(paid, p) ELSE paid
      OBVIOUS
<1>6. f \in States /\ Kept(paid, f)
  <2>1. paid \in States
        BY <1>4 DEF Sound
  <2>2. Release(paid, p) \in States
        BY <1>4, ReleaseFacts DEF Sound
  <2>3. Kept(paid, Release(paid, p))
        BY <2>1 DEF Kept, Release, States
  <2>4. QED  BY <1>5, <2>1, <2>2, <2>3 DEF Kept
<1>7. PICK h : h = PayDebt(g, p)
      OBVIOUS
<1>8. h = [f EXCEPT !.phase = "awaiting_turn_end", !.debt = None,
                    !.pending = None, !.auction = None, !.again = FALSE]
      BY <1>1, <1>3, <1>5, <1>7 DEF PayDebt
<1>9. Kept(f, h)
      BY <1>6, <1>8 DEF Kept, States
<1>10. paid \in States /\ h \in States /\ Kept(paid, h)
      BY <1>4, <1>6, <1>7, <1>9, PayDebtFacts DEF Sound, Kept
<1>11. QED  BY <1>4, <1>7, <1>10, WealthKept

LEMMA JailFineWealth ==
    ASSUME NEW g, Sound(g), NEW p \in Players, CanPayJailFine(g, p)
    PROVE  Wealth(PayJailFine(g, p)) <= Wealth(g)
<1>1. PICK n \in Nat : n = JailFine
      BY AmountTypes
<1>2. g \in States /\ CanPay(g, p, n) /\ p \notin g.bankrupt
      BY <1>1 DEF CanPayJailFine, IsCurrentTurn, Sound
<1>3. PICK f : f = Debit(g, p, n)
      OBVIOUS
<1>4. Sound(f) /\ Wealth(f) = Wealth(g) - n
      BY <1>2, <1>3, DebitFacts, DebitWealth
<1>5. PICK h : h = Release(f, p)
      OBVIOUS
<1>6. f \in States /\ h \in States
      BY <1>4, <1>5, ReleaseFacts DEF Sound
<1>7. Kept(f, h)
      BY <1>5, <1>6 DEF Kept, Release, States
<1>8. Wealth(h) = Wealth(f) /\ Wealth(g) \in Int
      BY <1>2, <1>6, <1>7, WealthKept, WealthSplit
<1>9. PayJailFine(g, p) = h
      BY <1>1, <1>3, <1>5 DEF PayJailFine
<1>10. QED  BY <1>4, <1>8, <1>9

LEMMA UseCardWealth ==
    ASSUME NEW g, Sound(g), NEW p \in Players, NEW c, CanUseCard(g, p, c)
    PROVE  Wealth(UseCard(g, p, c)) = Wealth(g)
<1>1. PICK f : f = [g EXCEPT !.cards[p] = @ \ {c}, !.deck = @ \cup {c}]
      OBVIOUS
<1>2. g \in States /\ c \in g.cards[p]
      BY DEF CanUseCard, Sound
<1>3. Sound(f)
      BY <1>1, <1>2, ReturnedCardFacts
<1>4. PICK h : h = Release(f, p)
      OBVIOUS
<1>5. f \in States /\ h \in States
      BY <1>3, <1>4, ReleaseFacts DEF Sound
<1>6. Kept(g, f)
      BY <1>1, <1>2 DEF Kept, States
<1>7. Kept(f, h)
      BY <1>4, <1>5 DEF Kept, Release, States
<1>8. Kept(g, h)
      BY <1>6, <1>7 DEF Kept
<1>9. UseCard(g, p, c) = h
      BY <1>1, <1>4 DEF UseCard
<1>10. QED  BY <1>2, <1>5, <1>8, <1>9, WealthKept

---------------------------------------------------------------------------
(* The loop that raises money turns assets into as much cash.              *)

LEMMA RaiseMoneyWealth ==
    ASSUME NEW g, Sound(g), NEW p \in Players, p \notin g.bankrupt
    PROVE  Wealth(RaiseMoney(g, p)) = Wealth(g)
<1>1. g \in States
      BY DEF Sound
<1>2. CASE RaiseMoney(g, p) = g
      BY <1>2
<1>3. CASE WithBuildings(g, p) # {} /\ RaiseMoney(g, p) = Sell(g, p, BuildingToSell(g, p))
  <2>1. PICK t : t = BuildingToSell(g, p)
        OBVIOUS
  <2>2. t \in Tiles /\ g.level[t] > 0
        BY <1>1, <1>3, <2>1, BuildingToSellFacts
  <2>3. QED  BY <1>3, <2>1, <2>2, SellWealth
<1>4. CASE Mortgageable(g, p) # {} /\ RaiseMoney(g, p) = Mortgage(g, p, Min(Mortgageable(g, p)))
  <2>1. PICK t : t = Min(Mortgageable(g, p))
        OBVIOUS
  <2>2. Mortgageable(g, p) \subseteq Nat
        BY TilesAssumption DEF Mortgageable, Owned
  <2>3. t \in Mortgageable(g, p)
        BY <1>4, <2>1, <2>2, MinFacts
  <2>4. t \in Tiles /\ g.owner[t] # None /\ t \notin g.mortgaged /\ ~Built(g, SetOf(t))
        BY <2>3, NoneAssumption DEF Mortgageable, Owned
  <2>5. QED  BY <1>4, <2>1, <2>4, MortgageWealth
<1>5. QED  BY <1>2, <1>3, <1>4 DEF RaiseMoney

LEMMA LiquidatedWealth ==
    ASSUME NEW g, Sound(g), NEW p \in Players, p \notin g.bankrupt
    PROVE  Wealth(Liquidated(g, p)) = Wealth(g)
<1>1. PICK N : N = (Hotel + 1) * Cardinality(Tiles)
      OBVIOUS
<1>2. N \in Nat
  <2>1. Hotel + 1 \in Nat /\ Cardinality(Tiles) \in Nat
        BY AmountTypes, TilesAssumption, FS_CardinalityType DEF Hotel
  <2>2. \A x, y \in Nat : x * y \in Nat
        OBVIOUS
  <2>3. QED  BY <1>1, <2>1, <2>2
<1>3. PICK f : f = CHOOSE h : Raised(g, p, N, h)
      OBVIOUS
<1>4. Raised(g, p, N, f)
      BY <1>2, <1>3, RaisedExists
<1>5. Liquidated(g, p) = f[N]
      BY <1>1, <1>3 DEF Liquidated, Raised
<1> DEFINE P == {n \in Nat : n <= N => Sound(f[n]) /\ p \notin f[n].bankrupt
                                          /\ Wealth(f[n]) = Wealth(g)}
<1>6. 0 \in P
  <2>1. f[0] = g
        BY <1>2, <1>4 DEF Raised
  <2>2. QED  BY <2>1
<1>7. ASSUME NEW n \in Nat, n \in P PROVE n + 1 \in P
  <2>1. SUFFICES ASSUME n + 1 <= N
                 PROVE  Sound(f[n + 1]) /\ p \notin f[n + 1].bankrupt
                          /\ Wealth(f[n + 1]) = Wealth(g)
        OBVIOUS
  <2>2. f[n + 1] = RaiseMoney(f[n], p)
        BY <1>2, <1>4, <2>1 DEF Raised
  <2>3. PICK e : e = f[n]
        OBVIOUS
  <2>4. Sound(e) /\ p \notin e.bankrupt /\ Wealth(e) = Wealth(g)
        BY <1>2, <1>7, <2>1, <2>3
  <2>5. PICK h : h = RaiseMoney(e, p)
        OBVIOUS
  <2>6. Sound(h) /\ Managed(e, h) /\ Wealth(h) = Wealth(e)
        BY <2>4, <2>5, RaiseMoneyFacts, RaiseMoneyWealth
  <2>7. p \notin h.bankrupt
        BY <2>4, <2>6 DEF Managed, SameTurn
  <2>8. QED  BY <2>2, <2>3, <2>4, <2>5, <2>6, <2>7
<1>8. Nat \subseteq P
  <2> HIDE DEF P
  <2> QED  BY <1>6, <1>7, SetInduction
<1>9. QED  BY <1>2, <1>5, <1>8

---------------------------------------------------------------------------
(* The steps *)

(* A step does not add to the total, or it is one that may.                *)
NoGain(g, h) ==
    Wealth(h) > Wealth(g) =>
        \/ g.phase \in RollPhases /\ h.phase \notin RollPhases
        \/ g.phase = "awaiting_auction_bid" /\ h.phase = "awaiting_turn_end"
        \/ h.bankrupt # g.bankrupt

LEMMA NoGainAtMost ==
    ASSUME NEW g, Sound(g), NEW h, Sound(h), Wealth(h) <= Wealth(g)
    PROVE  NoGain(g, h)
<1>1. Wealth(g) \in Int /\ Wealth(h) \in Int
      BY WealthSplit DEF Sound
<1>2. QED  BY <1>1 DEF NoGain

LEMMA NoGainSame ==
    ASSUME NEW g, Sound(g), NEW h, Sound(h), Wealth(h) = Wealth(g)
    PROVE  NoGain(g, h)
<1>1. Wealth(g) \in Int /\ Wealth(h) \in Int
      BY WealthSplit DEF Sound
<1>2. QED  BY <1>1 DEF NoGain

LEMMA NoGainKept ==
    ASSUME NEW g, Sound(g), NEW h, Sound(h), Kept(g, h)
    PROVE  NoGain(g, h)
<1>1. Wealth(h) = Wealth(g)
      BY WealthKept DEF Sound
<1>2. QED  BY <1>1, NoGainSame

(* An auction goes on, or it is over.                                      *)
LEMMA AuctionGain ==
    ASSUME NEW g, Sound(g), InAuction(g), NEW h, Sound(h),
           Kept(g, h) \/ h.phase = "awaiting_turn_end"
    PROVE  NoGain(g, h)
<1>1. CASE Kept(g, h)
      BY <1>1, NoGainKept
<1>2. CASE h.phase = "awaiting_turn_end"
      BY <1>2 DEF NoGain, InAuction
<1>3. QED  BY <1>1, <1>2

LEMMA BidGain ==
    ASSUME NEW g, Sound(g), NEW p \in Players, NEW n \in Nat, CanBid(g, p, n)
    PROVE  NoGain(g, PlaceBid(g, p, n))
<1>1. PICK bid : bid = [g.auction EXCEPT !.bid = n, !.highest = p]
      OBVIOUS
<1>2. PICK a : a = [bid EXCEPT !.bidder = NextBidder(bid, p)]
      OBVIOUS
<1>3. PICK h : h = PlaceBid(g, p, n)
      OBVIOUS
<1>4. h = IF a.bidder = None THEN Win(g, a) ELSE [g EXCEPT !.auction = a]
      BY <1>1, <1>2, <1>3 DEF PlaceBid
<1>5. g \in States /\ InAuction(g)
      BY DEF CanBid, Sound
<1>6. Kept(g, [g EXCEPT !.auction = a])
      BY <1>5 DEF Kept, States
<1>7. Win(g, a).phase = "awaiting_turn_end"
      BY <1>5 DEF Win, Debit, States
<1>8. Kept(g, h) \/ h.phase = "awaiting_turn_end"
      BY <1>4, <1>6, <1>7
<1>9. Sound(h)
      BY <1>3, BidFacts
<1>10. QED  BY <1>3, <1>5, <1>8, <1>9, AuctionGain

LEMMA PassGain ==
    ASSUME NEW g, Sound(g), NEW p \in Players, CanPass(g, p)
    PROVE  NoGain(g, PassBid(g, p))
<1>1. PICK a : a = AfterPass(g, p)
      OBVIOUS
<1>2. PICK h : h = PassBid(g, p)
      OBVIOUS
<1>3. h \in {Win(g, a), WithoutWinner(g, a), [g EXCEPT !.auction = a]}
      BY <1>1, <1>2 DEF PassBid
<1>4. g \in States /\ InAuction(g)
      BY DEF CanPass, Sound
<1>5. Kept(g, [g EXCEPT !.auction = a])
      BY <1>4 DEF Kept, States
<1>6. Win(g, a).phase = "awaiting_turn_end"
      BY <1>4 DEF Win, Debit, States
<1>7. WithoutWinner(g, a).phase = "awaiting_turn_end"
      BY <1>4 DEF WithoutWinner, States
<1>8. Kept(g, h) \/ h.phase = "awaiting_turn_end"
      BY <1>3, <1>5, <1>6, <1>7
<1>9. Sound(h)
      BY <1>2, PassFacts
<1>10. QED  BY <1>2, <1>4, <1>8, <1>9, AuctionGain

(* A bankruptcy, also one that ends the game or the turn.                  *)
LEMMA BankruptcyBankrupts ==
    ASSUME NEW g, Sound(g), NEW p \in Players, CanDeclareBankruptcy(g, p)
    PROVE  DeclareBankruptcy(g, p).bankrupt = g.bankrupt \cup {p}
<1>1. PICK f : f = LiquidateAssets(g, p)
      OBVIOUS
<1>2. Solid(f) /\ f.bankrupt = g.bankrupt \cup {p}
      BY <1>1, LiquidateFacts
<1>3. f \in States
      BY <1>2 DEF Solid
<1>4. \A c : [Finish(f) EXCEPT !.current = c].bankrupt = f.bankrupt
      BY <1>3 DEF Finish, NoDoubles, States
<1>5. \A c : [NoDoubles(f) EXCEPT !.phase = "awaiting_roll", !.turn = @ + 1,
                                  !.current = c, !.auction = None, !.pending = None].bankrupt
               = f.bankrupt
      BY <1>3 DEF NoDoubles, States
<1>6. QED  BY <1>1, <1>2, <1>4, <1>5 DEF DeclareBankruptcy

LEMMA BankruptcyGain ==
    ASSUME NEW g, Sound(g), NEW p \in Players, CanDeclareBankruptcy(g, p)
    PROVE  NoGain(g, DeclareBankruptcy(g, p))
<1>1. p \notin g.bankrupt
      BY DEF CanDeclareBankruptcy
<1>2. QED  BY <1>1, BankruptcyBankrupts DEF NoGain

LEMMA AutoResolveGain ==
    ASSUME NEW g, Sound(g), NEW p \in Players, CanAutoResolve(g, p)
    PROVE  NoGain(g, AutoResolve(g, p))
<1>1. g.debt # None /\ g.debt.by = p /\ g.phase = "awaiting_debt_resolution"
      BY DEF CanAutoResolve, ResolvingOwnDebt
<1>2. p \notin g.bankrupt
      BY <1>1 DEF Sound, Turns, Records, Finished, Active
<1>3. PICK h : h = Liquidated(g, p)
      OBVIOUS
<1>4. Sound(h) /\ Managed(g, h) /\ Wealth(h) = Wealth(g)
      BY <1>2, <1>3, LiquidatedFacts, LiquidatedWealth
<1>5. CASE DebtPayable(h)
  <2>1. CanPayDebt(h, p)
        BY <1>1, <1>4, <1>5 DEF CanPayDebt, ResolvingOwnDebt, Managed
  <2>2. AutoResolve(g, p) = PayDebt(h, p)
        BY <1>3, <1>5 DEF AutoResolve
  <2>3. Sound(PayDebt(h, p)) /\ Wealth(PayDebt(h, p)) <= Wealth(g)
        BY <1>4, <2>1, PayDebtFacts, PayDebtWealth
  <2>4. QED  BY <2>2, <2>3, NoGainAtMost
<1>6. CASE ~DebtPayable(h)
  <2>1. CanDeclareBankruptcy(h, p)
        BY <1>3, <1>6 DEF CanAutoResolve
  <2>2. AutoResolve(g, p) = DeclareBankruptcy(h, p)
        BY <1>3, <1>6 DEF AutoResolve
  <2>3. AutoResolve(g, p).bankrupt = g.bankrupt \cup {p}
        BY <1>4, <2>1, <2>2, BankruptcyBankrupts DEF Managed, SameTurn
  <2>4. QED  BY <1>2, <2>3 DEF NoGain
<1>7. QED  BY <1>5, <1>6

(* Ends of turns and games and trade offers move no money.                 *)
LEMMA KeptFacts ==
    ASSUME NEW g \in States, NEW o
    PROVE  /\ Kept(g, Decline(g)) /\ Kept(g, EndTurn(g)) /\ Kept(g, Finish(g))
           /\ Kept(g, Offer(g, o)) /\ Kept(g, DropOffer(g))
<1>1. Kept(g, Decline(g))
      BY DEF Kept, Decline, States
<1>2. Kept(g, EndTurn(g))
      BY DEF Kept, EndTurn, NoDoubles, States
<1>3. Kept(g, Finish(g))
      BY DEF Kept, Finish, NoDoubles, States
<1>4. Kept(g, Offer(g, o)) /\ Kept(g, DropOffer(g))
      BY DEF Kept, Offer, DropOffer, States
<1>5. QED  BY <1>1, <1>2, <1>3, <1>4

LEMMA StepGain ==
    ASSUME Sound(game), Next
    PROVE  NoGain(game, game')
<1>1. Sound(game') /\ game \in States
      BY NextSound DEF Sound
<1>2. ASSUME Kept(game, game') PROVE NoGain(game, game')
      BY <1>1, <1>2, NoGainKept
<1>3. ASSUME Wealth(game') = Wealth(game) PROVE NoGain(game, game')
      BY <1>1, <1>3, NoGainSame
<1>4. ASSUME Wealth(game') <= Wealth(game) PROVE NoGain(game, game')
      BY <1>1, <1>4, NoGainAtMost
<1>5. CASE FinishIntent
  <2>1. game' = Finish(game)
        BY <1>5 DEF FinishIntent, Apply
  <2>2. QED  BY <1>1, <1>2, <2>1, KeptFacts
<1>6. ASSUME NEW p \in Players,
             \/ RollAndMoveIntent(p)
             \/ BuyIntent(p) \/ DeclineIntent(p) \/ BidIntent(p) \/ PassIntent(p)
             \/ BuildIntent(p) \/ SellIntent(p) \/ MortgageIntent(p) \/ UnmortgageIntent(p)
             \/ ProposeIntent(p) \/ AcceptIntent(p) \/ DropIntent(p)
             \/ BankruptcyIntent(p) \/ PayDebtIntent(p) \/ AutoResolveIntent(p)
             \/ JailFineIntent(p) \/ JailCardIntent(p) \/ EndTurnIntent(p)
      PROVE  NoGain(game, game')
  <2>1. CASE RollAndMoveIntent(p)
    <3>1. PICK roll \in Rolls(game) : game' = RollAndMove(game, p, roll)
          BY <2>1 DEF RollAndMoveIntent, Apply
    <3>2. CanRoll(game, p)
          BY <2>1 DEF RollAndMoveIntent
    <3>3. game'.phase \notin RollPhases
          BY <3>1, <3>2, RollFacts DEF Rolled
    <3>4. QED  BY <3>2, <3>3 DEF CanRoll, NoGain
  <2>2. CASE BuyIntent(p)
    <3>1. CanBuy(game, p) /\ game' = BuyProperty(game, p)
          BY <2>2 DEF BuyIntent, Apply
    <3>2. QED  BY <1>3, <3>1, BuyWealth
  <2>3. CASE DeclineIntent(p)
    <3>1. game' = Decline(game)
          BY <2>3 DEF DeclineIntent, Apply
    <3>2. QED  BY <1>1, <1>2, <3>1, KeptFacts
  <2>4. CASE BidIntent(p)
    <3>1. PICK n \in MinBid..MaxCash : CanBid(game, p, n) /\ game' = PlaceBid(game, p, n)
          BY <2>4 DEF BidIntent, Apply
    <3>2. n \in Nat
          BY AmountTypes, BoundAssumption
    <3>3. QED  BY <3>1, <3>2, BidGain
  <2>5. CASE PassIntent(p)
    <3>1. CanPass(game, p) /\ game' = PassBid(game, p)
          BY <2>5 DEF PassIntent, Apply
    <3>2. QED  BY <3>1, PassGain
  <2>6. CASE BuildIntent(p)
    <3>1. PICK t \in Tiles : CanBuild(game, p, t) /\ game' = Build(game, p, t)
          BY <2>6 DEF BuildIntent, Apply
    <3>2. QED  BY <1>4, <3>1, BuildWealth
  <2>7. CASE SellIntent(p)
    <3>1. PICK t \in Tiles : CanSell(game, p, t) /\ game' = Sell(game, p, t)
          BY <2>7 DEF SellIntent, Apply
    <3>2. p \notin game.bankrupt /\ game.level[t] > 0
          BY <3>1 DEF CanSell, CanRaiseMoney, IsCurrentTurn
    <3>3. QED  BY <1>3, <3>1, <3>2, SellWealth
  <2>8. CASE MortgageIntent(p)
    <3>1. PICK t \in Tiles : CanMortgage(game, p, t) /\ game' = Mortgage(game, p, t)
          BY <2>8 DEF MortgageIntent, Apply
    <3>2. /\ p \notin game.bankrupt /\ game.owner[t] # None
          /\ t \notin game.mortgaged /\ ~Built(game, SetOf(t))
          BY <3>1, NoneAssumption DEF CanMortgage, CanRaiseMoney, IsCurrentTurn
    <3>3. QED  BY <1>3, <3>1, <3>2, MortgageWealth
  <2>9. CASE UnmortgageIntent(p)
    <3>1. PICK t \in Tiles : CanUnmortgage(game, p, t) /\ game' = Unmortgage(game, p, t)
          BY <2>9 DEF UnmortgageIntent, Apply
    <3>2. QED  BY <1>4, <3>1, UnmortgageWealth
  <2>10. CASE ProposeIntent(p)
    <3>1. PICK o \in [from : {p}, to : Players, give : TradeCash, want : TradeCash,
                      offered : SUBSET Owned(game, p), requested : SUBSET Tiles] :
            /\ ValidTrade(game, o)
            /\ \/ game' = Offer(game, o)
               \/ game' = AcceptOffer(game, o)
               \/ game' = DropOffer(game)
          BY <2>10 DEF ProposeIntent, Apply
    <3>2. o \in Offers
          BY OfferTypes
    <3>3. CASE game' = Offer(game, o) \/ game' = DropOffer(game)
          BY <1>1, <1>2, <3>3, KeptFacts
    <3>4. CASE game' = AcceptOffer(game, o)
          BY <1>3, <3>1, <3>2, <3>4, AcceptWealth
    <3>5. QED  BY <3>1, <3>3, <3>4
  <2>11. CASE AcceptIntent(p)
    <3>1. PICK o : o = game.offer
          OBVIOUS
    <3>2. o # None /\ ValidTrade(game, o) /\ game' = AcceptOffer(game, o)
          BY <2>11, <3>1 DEF AcceptIntent, Apply
    <3>3. o \in Offers
          BY <1>1, <3>1, <3>2, FieldTypes
    <3>4. QED  BY <1>3, <3>2, <3>3, AcceptWealth
  <2>12. CASE DropIntent(p)
    <3>1. game' = DropOffer(game)
          BY <2>12 DEF DropIntent, Apply
    <3>2. QED  BY <1>1, <1>2, <3>1, KeptFacts
  <2>13. CASE BankruptcyIntent(p)
    <3>1. CanDeclareBankruptcy(game, p) /\ game' = DeclareBankruptcy(game, p)
          BY <2>13 DEF BankruptcyIntent, Apply
    <3>2. QED  BY <3>1, BankruptcyGain
  <2>14. CASE PayDebtIntent(p)
    <3>1. CanPayDebt(game, p) /\ game' = PayDebt(game, p)
          BY <2>14 DEF PayDebtIntent, Apply
    <3>2. QED  BY <1>4, <3>1, PayDebtWealth
  <2>15. CASE AutoResolveIntent(p)
    <3>1. CanAutoResolve(game, p) /\ game' = AutoResolve(game, p)
          BY <2>15 DEF AutoResolveIntent, Apply
    <3>2. QED  BY <3>1, AutoResolveGain
  <2>16. CASE JailFineIntent(p)
    <3>1. CanPayJailFine(game, p) /\ game' = PayJailFine(game, p)
          BY <2>16 DEF JailFineIntent, Apply
    <3>2. QED  BY <1>4, <3>1, JailFineWealth
  <2>17. CASE JailCardIntent(p)
    <3>1. PICK c \in FreeCards : CanUseCard(game, p, c) /\ game' = UseCard(game, p, c)
          BY <2>17 DEF JailCardIntent, Apply
    <3>2. QED  BY <1>3, <3>1, UseCardWealth
  <2>18. CASE EndTurnIntent(p)
    <3>1. game' = EndTurn(game)
          BY <2>18 DEF EndTurnIntent, Apply
    <3>2. QED  BY <1>1, <1>2, <3>1, KeptFacts
  <2>19. QED  BY <1>6, <2>1, <2>2, <2>3, <2>4, <2>5, <2>6, <2>7, <2>8, <2>9, <2>10, <2>11,
                 <2>12, <2>13, <2>14, <2>15, <2>16, <2>17, <2>18
<1>7. QED  BY <1>5, <1>6 DEF Next

(* The total net worth grows only by a roll, the end of an auction or a    *)
(* bankruptcy: buying, building, selling, mortgaging, redeeming, trading   *)
(* and paying never make money, in any order and on any board.             *)
THEOREM NoPump == Spec => NoMoneyPump
<1>1. Inv /\ [Next]_game =>
        [Wealth(game') > Wealth(game) =>
            \/ game.phase \in RollPhases /\ game'.phase \notin RollPhases
            \/ game.phase = "awaiting_auction_bid" /\ game'.phase = "awaiting_turn_end"
            \/ game'.bankrupt # game.bankrupt]_game
      BY StepGain DEF Inv, NoGain
<1>2. QED  BY <1>1, Soundness, PTL DEF Spec, NoMoneyPump

---------------------------------------------------------------------------
(* What the loop that raises money can raise *)

(* What is left to sell or to mortgage on a tile, and on all of them.      *)
Left(g) == [t \in Tiles |-> g.level[t] + (IF t \in g.mortgaged THEN 0 ELSE 1)]

LeftOver(g) == SumFunctionOnSet(Left(g), Tiles)

(* The tiles that p can mortgage once its buildings are sold.              *)
Free(g, p) == {t \in Owned(g, p) \ g.mortgaged : ~Built(g, SetOf(t) \ Owned(g, p))}

MortgageValues == [t \in Tiles |-> Board[t].mortgage]

BuildingValues(g) == [t \in Tiles |-> g.level[t] * SellValue(t)]

(* The loop is over.                                                       *)
Spent(g, p) ==
    \/ DebtPayable(g) \/ SaleRefused(g, p)
    \/ WithBuildings(g, p) = {} /\ Mortgageable(g, p) = {}

LEMMA RaisableSplit ==
    ASSUME NEW g \in States, NEW p \in Players
    PROVE  /\ Raisable(g, p) = g.cash[p] + SumFunctionOnSet(BuildingValues(g), Owned(g, p))
                                         + SumFunctionOnSet(MortgageValues, Free(g, p))
           /\ g.cash[p] \in Int
           /\ SumFunctionOnSet(BuildingValues(g), Owned(g, p)) \in Int
           /\ SumFunctionOnSet(MortgageValues, Free(g, p)) \in Int
<1>1. Raisable(g, p) = g.cash[p] + SumFunctionOnSet(BuildingValues(g), Owned(g, p))
                                 + SumFunctionOnSet(MortgageValues, Free(g, p))
      BY DEF Raisable, BuildingValue, BuildingValues, MortgageValues, Free
<1>2. IsFiniteSet(Tiles) /\ Owned(g, p) \in SUBSET Tiles /\ Free(g, p) \in SUBSET Tiles
      BY TilesAssumption DEF Owned, Free
<1>3. \A t \in Tiles : BuildingValues(g)[t] \in Int
      BY ValueNat DEF BuildingValues
<1>4. \A t \in Tiles : MortgageValues[t] \in Int
      BY CostTypes DEF MortgageValues
<1>5. SumFunctionOnSet(BuildingValues(g), Owned(g, p)) \in Int
      BY <1>2, <1>3, SumInt
<1>6. SumFunctionOnSet(MortgageValues, Free(g, p)) \in Int
      BY <1>2, <1>4, SumInt
<1>7. g.cash[p] \in Int
      BY FieldTypes
<1>8. QED  BY <1>1, <1>5, <1>6, <1>7

LEMMA LeftTypes ==
    ASSUME NEW g \in States
    PROVE  /\ \A t \in Tiles : Left(g)[t] \in Int /\ Left(g)[t] \in Nat /\ Left(g)[t] <= Hotel + 1
           /\ LeftOver(g) \in Nat /\ LeftOver(g) <= (Hotel + 1) * Cardinality(Tiles)
<1>1. Hotel \in Nat /\ \A t \in Tiles : g.level[t] \in 0..Hotel
      BY FieldTypes, AmountTypes DEF Hotel
<1>2. \A t \in Tiles : Left(g)[t] \in Int /\ Left(g)[t] \in Nat /\ Left(g)[t] <= Hotel + 1
      BY <1>1 DEF Left
<1>3. IsFiniteSet(Tiles)
      BY TilesAssumption
<1>4. LeftOver(g) \in Nat
      BY <1>2, <1>3, SumNat DEF LeftOver
<1>5. PICK k \in Nat : k = Hotel + 1
      BY <1>1
<1>6. LeftOver(g) <= k * Cardinality(Tiles)
      BY <1>2, <1>3, <1>5, SumBound DEF LeftOver
<1>7. QED  BY <1>2, <1>4, <1>5, <1>6

LEMMA LeftOne ==
    ASSUME NEW g \in States, NEW h \in States, NEW t \in Tiles,
           \A u \in Tiles : u # t =>
              h.level[u] = g.level[u] /\ (u \in h.mortgaged <=> u \in g.mortgaged),
           Left(h)[t] = Left(g)[t] - 1
    PROVE  LeftOver(h) = LeftOver(g) - 1
<1>1. PICK c : c = Left(g)
      OBVIOUS
<1>2. PICK d : d = Left(h)
      OBVIOUS
<1>3. \A u \in Tiles : c[u] \in Int /\ d[u] \in Int
      BY <1>1, <1>2, LeftTypes
<1>4. \A u \in Tiles : u # t => d[u] = c[u]
      BY <1>1, <1>2 DEF Left
<1>5. SumFunctionOnSet(d, Tiles) = SumFunctionOnSet(c, Tiles) + d[t] - c[t]
  <2>1. IsFiniteSet(Tiles)
        BY TilesAssumption
  <2>2. QED  BY ONLY <1>3, <1>4, <2>1, t \in Tiles, SumOne
<1>6. LeftOver(g) \in Nat
      BY LeftTypes
<1>7. LeftOver(g) = SumFunctionOnSet(c, Tiles) /\ LeftOver(h) = SumFunctionOnSet(d, Tiles)
      BY <1>1, <1>2 DEF LeftOver
<1>8. c[t] \in Int /\ d[t] = c[t] - 1
      BY <1>1, <1>2, <1>3
<1>9. QED  BY <1>5, <1>6, <1>7, <1>8

LEMMA SellRaises ==
    ASSUME NEW g, Sound(g), NEW p \in Players, p \notin g.bankrupt,
           NEW t \in WithBuildings(g, p)
    PROVE  /\ Raisable(Sell(g, p, t), p) = Raisable(g, p)
           /\ LeftOver(Sell(g, p, t)) = LeftOver(g) - 1
<1>1. t \in Tiles /\ g.owner[t] = p /\ g.level[t] > 0 /\ g \in States
      BY DEF WithBuildings, Owned, Sound
<1>2. PICK n \in Nat : n = SellValue(t)
      BY CostTypes, <1>1
<1>3. PICK h : h = Sell(g, p, t)
      OBVIOUS
<1>4. h \in States
      BY <1>1, <1>3, SellFacts DEF Sound
<1>5. /\ h.cash[p] = g.cash[p] + n /\ h.owner = g.owner /\ h.mortgaged = g.mortgaged
      /\ h.level[t] = g.level[t] - 1 /\ \A u \in Tiles : u # t => h.level[u] = g.level[u]
      BY <1>1, <1>2, <1>3 DEF Sell, Credit, States
<1>6. LeftOver(h) = LeftOver(g) - 1
  <2>1. g.level[t] \in Nat
        BY <1>1, ValueNat
  <2>2. Left(h)[t] = Left(g)[t] - 1
        BY <1>1, <1>5, <2>1 DEF Left
  <2>3. QED  BY <1>1, <1>4, <1>5, <2>2, LeftOne
<1>7. Owned(h, p) = Owned(g, p) /\ t \in Owned(g, p)
      BY <1>1, <1>5 DEF Owned
<1>8. Free(h, p) = Free(g, p)
  <2>1. \A u \in Tiles : Built(h, SetOf(u) \ Owned(g, p)) <=> Built(g, SetOf(u) \ Owned(g, p))
        BY <1>5, <1>7 DEF Built, SetOf
  <2>2. Owned(g, p) \subseteq Tiles
        BY DEF Owned
  <2>3. QED  BY <1>5, <1>7, <2>1, <2>2 DEF Free
<1>9. SumFunctionOnSet(BuildingValues(h), Owned(g, p))
        = SumFunctionOnSet(BuildingValues(g), Owned(g, p)) - n
  <2>1. PICK c : c = BuildingValues(g)
        OBVIOUS
  <2>2. PICK d : d = BuildingValues(h)
        OBVIOUS
  <2>3. PICK S : S = Owned(g, p)
        OBVIOUS
  <2>4. S \in SUBSET Tiles /\ IsFiniteSet(S) /\ t \in S
        BY <1>7, <2>3, TilesAssumption, FS_Subset DEF Owned
  <2>5. \A u \in S : c[u] \in Int /\ d[u] \in Int
        BY <1>1, <1>4, <2>1, <2>2, <2>4, ValueNat DEF BuildingValues
  <2>6. \A u \in S : u # t => d[u] = c[u]
        BY <1>5, <2>1, <2>2, <2>4 DEF BuildingValues
  <2>7. d[t] = c[t] - n
    <3>1. PICK k \in Nat : k = g.level[t]
          BY <1>1, ValueNat
    <3>2. (k - 1) * n = k * n - n
          OBVIOUS
    <3>3. c[t] = k * n /\ d[t] = (k - 1) * n
          BY <1>1, <1>2, <1>5, <2>1, <2>2, <3>1 DEF BuildingValues
    <3>4. QED  BY <3>2, <3>3
  <2>8. /\ SumFunctionOnSet(d, S) = SumFunctionOnSet(c, S) + d[t] - c[t]
        /\ SumFunctionOnSet(c, S) \in Int
        BY ONLY <2>4, <2>5, <2>6, SumOne
  <2>9. c[t] \in Int
        BY <2>4, <2>5
  <2>10. SumFunctionOnSet(d, S) = SumFunctionOnSet(c, S) - n
        BY <2>7, <2>8, <2>9
  <2>11. QED  BY <2>1, <2>2, <2>3, <2>10
<1>10. Raisable(h, p) = Raisable(g, p)
  <2>1. PICK x \in Int : x = SumFunctionOnSet(BuildingValues(g), Owned(g, p))
        BY <1>1, RaisableSplit
  <2>2. PICK y \in Int : y = SumFunctionOnSet(MortgageValues, Free(g, p))
        BY <1>1, RaisableSplit
  <2>3. PICK z \in Int : z = g.cash[p]
        BY <1>1, RaisableSplit
  <2>4. Raisable(g, p) = z + x + y
        BY <1>1, <2>1, <2>2, <2>3, RaisableSplit
  <2>5. Raisable(h, p) = (z + n) + (x - n) + y
        BY <1>4, <1>5, <1>7, <1>8, <1>9, <2>1, <2>2, <2>3, RaisableSplit
  <2>6. QED  BY <2>4, <2>5
<1>11. QED  BY <1>3, <1>6, <1>10

LEMMA MortgageRaises ==
    ASSUME NEW g, Sound(g), NEW p \in Players, p \notin g.bankrupt,
           NEW t \in Mortgageable(g, p)
    PROVE  /\ Raisable(Mortgage(g, p, t), p) = Raisable(g, p)
           /\ LeftOver(Mortgage(g, p, t)) = LeftOver(g) - 1
<1>1. /\ t \in Tiles /\ g.owner[t] = p /\ t \notin g.mortgaged /\ ~Built(g, SetOf(t))
      /\ g \in States /\ g.owner[t] # None
      BY NoneAssumption DEF Mortgageable, Owned, Sound
<1>2. PICK n \in Nat : n = Board[t].mortgage
      BY CostTypes, <1>1
<1>3. PICK h : h = Mortgage(g, p, t)
      OBVIOUS
<1>4. h \in States
      BY <1>1, <1>3, MortgageFacts DEF Sound
<1>5. /\ h.cash[p] = g.cash[p] + n /\ h.owner = g.owner
      /\ h.mortgaged = g.mortgaged \cup {t} /\ h.level = g.level
      BY <1>1, <1>2, <1>3 DEF Mortgage, Credit, States
<1>6. LeftOver(h) = LeftOver(g) - 1
  <2>1. g.level[t] \in Nat
        BY <1>1, ValueNat
  <2>2. Left(h)[t] = Left(g)[t] - 1
        BY <1>1, <1>5, <2>1 DEF Left
  <2>3. QED  BY <1>1, <1>4, <1>5, <2>2, LeftOne
<1>7. Owned(h, p) = Owned(g, p) /\ BuildingValues(h) = BuildingValues(g)
      BY <1>5 DEF Owned, BuildingValues
<1>8. t \in Free(g, p)
      BY <1>1 DEF Free, Owned, Built
<1>9. Free(h, p) = Free(g, p) \ {t}
      BY <1>5, <1>7 DEF Free, Built
<1>10. SumFunctionOnSet(MortgageValues, Free(g, p))
         = n + SumFunctionOnSet(MortgageValues, Free(h, p))
  <2>1. PICK S : S = Free(g, p)
        OBVIOUS
  <2>2. S \in SUBSET Tiles /\ IsFiniteSet(S) /\ t \in S
        BY <1>8, <2>1, TilesAssumption, FS_Subset DEF Free, Owned
  <2>3. \A u \in S : MortgageValues[u] \in Int
        BY <2>2, CostTypes DEF MortgageValues
  <2>4. SumFunctionOnSet(MortgageValues, S)
          = MortgageValues[t] + SumFunctionOnSet(MortgageValues, S \ {t})
        BY ONLY <2>2, <2>3, SumRemove
  <2>5. MortgageValues[t] = n
        BY <1>1, <1>2 DEF MortgageValues
  <2>6. QED  BY <1>9, <2>1, <2>4, <2>5
<1>11. Raisable(h, p) = Raisable(g, p)
  <2>1. PICK x \in Int : x = SumFunctionOnSet(BuildingValues(g), Owned(g, p))
        BY <1>1, RaisableSplit
  <2>2. PICK y \in Int : y = SumFunctionOnSet(MortgageValues, Free(h, p))
        BY <1>4, RaisableSplit
  <2>3. PICK z \in Int : z = g.cash[p]
        BY <1>1, RaisableSplit
  <2>4. Raisable(g, p) = z + x + (n + y)
        BY <1>1, <1>10, <2>1, <2>2, <2>3, RaisableSplit
  <2>5. Raisable(h, p) = (z + n) + x + y
        BY <1>4, <1>5, <1>7, <2>1, <2>2, <2>3, RaisableSplit
  <2>6. QED  BY <2>4, <2>5
<1>12. QED  BY <1>3, <1>6, <1>11

LEMMA RaiseMoneyRaises ==
    ASSUME NEW g, Sound(g), NEW p \in Players, p \notin g.bankrupt
    PROVE  /\ Raisable(RaiseMoney(g, p), p) = Raisable(g, p)
           /\ IF Spent(g, p) THEN RaiseMoney(g, p) = g
              ELSE LeftOver(RaiseMoney(g, p)) = LeftOver(g) - 1
<1>1. g \in States
      BY DEF Sound
<1>2. CASE Spent(g, p)
      BY <1>2 DEF Spent, RaiseMoney
<1>3. CASE ~Spent(g, p) /\ WithBuildings(g, p) # {}
  <2>1. PICK t : t = BuildingToSell(g, p)
        OBVIOUS
  <2>2. t \in WithBuildings(g, p)
        BY <1>1, <1>3, <2>1, BuildingToSellFacts
  <2>3. RaiseMoney(g, p) = Sell(g, p, t)
        BY <1>3, <2>1 DEF RaiseMoney, Spent
  <2>4. QED  BY <1>3, <2>2, <2>3, SellRaises
<1>4. CASE ~Spent(g, p) /\ WithBuildings(g, p) = {}
  <2>1. PICK t : t = Min(Mortgageable(g, p))
        OBVIOUS
  <2>2. Mortgageable(g, p) \subseteq Nat /\ Mortgageable(g, p) # {}
        BY <1>4, TilesAssumption DEF Mortgageable, Owned, Spent
  <2>3. t \in Mortgageable(g, p)
        BY <2>1, <2>2, MinFacts
  <2>4. RaiseMoney(g, p) = Mortgage(g, p, t)
        BY <1>4, <2>1, <2>2 DEF RaiseMoney, Spent
  <2>5. QED  BY <1>4, <2>3, <2>4, MortgageRaises
<1>5. QED  BY <1>2, <1>3, <1>4

(* The loop runs long enough, and raises what there is to raise.           *)
LEMMA LiquidatedRaises ==
    ASSUME NEW g, Sound(g), NEW p \in Players, p \notin g.bankrupt
    PROVE  /\ Raisable(Liquidated(g, p), p) = Raisable(g, p)
           /\ Spent(Liquidated(g, p), p)
<1>1. PICK N : N = (Hotel + 1) * Cardinality(Tiles)
      OBVIOUS
<1>2. N \in Nat
  <2>1. Hotel + 1 \in Nat /\ Cardinality(Tiles) \in Nat
        BY AmountTypes, TilesAssumption, FS_CardinalityType DEF Hotel
  <2>2. \A x, y \in Nat : x * y \in Nat
        OBVIOUS
  <2>3. QED  BY <1>1, <2>1, <2>2
<1>3. PICK f : f = CHOOSE h : Raised(g, p, N, h)
      OBVIOUS
<1>4. Raised(g, p, N, f)
      BY <1>2, <1>3, RaisedExists
<1>5. Liquidated(g, p) = f[N]
      BY <1>1, <1>3 DEF Liquidated, Raised
<1> DEFINE P == {n \in Nat : n <= N =>
                    /\ Sound(f[n]) /\ p \notin f[n].bankrupt
                    /\ Raisable(f[n], p) = Raisable(g, p)
                    /\ Spent(f[n], p) \/ LeftOver(f[n]) + n <= LeftOver(g)}
<1>6. LeftOver(g) \in Nat /\ LeftOver(g) <= N
      BY <1>1, LeftTypes DEF Sound
<1>7. 0 \in P
  <2>1. f[0] = g
        BY <1>2, <1>4 DEF Raised
  <2>2. QED  BY <1>6, <2>1
<1>8. ASSUME NEW n \in Nat, n \in P PROVE n + 1 \in P
  <2>1. SUFFICES ASSUME n + 1 <= N
                 PROVE  /\ Sound(f[n + 1]) /\ p \notin f[n + 1].bankrupt
                        /\ Raisable(f[n + 1], p) = Raisable(g, p)
                        /\ \/ Spent(f[n + 1], p)
                           \/ LeftOver(f[n + 1]) + (n + 1) <= LeftOver(g)
        OBVIOUS
  <2>2. f[n + 1] = RaiseMoney(f[n], p)
        BY <1>2, <1>4, <2>1 DEF Raised
  <2>3. PICK e : e = f[n]
        OBVIOUS
  <2>4. /\ Sound(e) /\ p \notin e.bankrupt /\ Raisable(e, p) = Raisable(g, p)
        /\ Spent(e, p) \/ LeftOver(e) + n <= LeftOver(g)
        BY <1>2, <1>8, <2>1, <2>3
  <2>5. PICK h : h = RaiseMoney(e, p)
        OBVIOUS
  <2>6. Sound(h) /\ p \notin h.bankrupt
        BY <2>4, <2>5, RaiseMoneyFacts DEF Managed, SameTurn
  <2>7. Raisable(h, p) = Raisable(g, p)
        BY <2>4, <2>5, RaiseMoneyRaises
  <2>8. Spent(h, p) \/ LeftOver(h) + (n + 1) <= LeftOver(g)
    <3>1. CASE Spent(e, p)
      <4>1. h = e
            BY <2>4, <2>5, <3>1, RaiseMoneyRaises
      <4>2. QED  BY <3>1, <4>1
    <3>2. CASE ~Spent(e, p)
      <4>1. LeftOver(h) = LeftOver(e) - 1 /\ LeftOver(e) + n <= LeftOver(g)
            BY <2>4, <2>5, <3>2, RaiseMoneyRaises
      <4>2. LeftOver(e) \in Nat
            BY <2>4, LeftTypes DEF Sound
      <4>3. QED  BY <1>6, <4>1, <4>2
    <3>3. QED  BY <3>1, <3>2
  <2>9. QED  BY <2>2, <2>3, <2>5, <2>6, <2>7, <2>8
<1>9. Nat \subseteq P
  <2> HIDE DEF P
  <2> QED  BY <1>7, <1>8, SetInduction
<1>10. PICK e : e = f[N]
      OBVIOUS
<1>11. /\ Sound(e) /\ p \notin e.bankrupt /\ Raisable(e, p) = Raisable(g, p)
       /\ Spent(e, p) \/ LeftOver(e) + N <= LeftOver(g)
      BY <1>2, <1>9, <1>10
<1>12. Spent(e, p)
  <2>1. SUFFICES ASSUME ~Spent(e, p) PROVE FALSE
        OBVIOUS
  <2>2. PICK h : h = RaiseMoney(e, p)
        OBVIOUS
  <2>3. Sound(h) /\ LeftOver(h) = LeftOver(e) - 1
        BY <1>11, <2>1, <2>2, RaiseMoneyFacts, RaiseMoneyRaises
  <2>4. LeftOver(h) \in Nat /\ LeftOver(e) \in Nat
        BY <1>11, <2>3, LeftTypes DEF Sound
  <2>5. QED  BY <1>2, <1>6, <1>11, <2>1, <2>3, <2>4
<1>13. QED  BY <1>5, <1>10, <1>11, <1>12

(* With nothing to sell or to mortgage, the cash is all there is.          *)
LEMMA NothingToRaise ==
    ASSUME NEW g \in States, NEW p \in Players,
           WithBuildings(g, p) = {}, Mortgageable(g, p) = {}
    PROVE  Raisable(g, p) = g.cash[p]
<1>1. \A t \in Owned(g, p) : t \in Tiles /\ g.level[t] = 0
  <2>1. \A t \in Tiles : g.level[t] \in Nat
        BY ValueNat
  <2>2. QED  BY <2>1 DEF WithBuildings, Owned
<1>2. Free(g, p) = {}
  <2>1. ASSUME NEW t \in Free(g, p) PROVE t \in Mortgageable(g, p)
    <3>1. t \in Owned(g, p) \ g.mortgaged /\ g.level[t] = 0
          BY <1>1, <2>1 DEF Free
    <3>2. ~Built(g, SetOf(t))
          BY <1>1, <2>1 DEF Free, Built
    <3>3. QED  BY <3>1, <3>2 DEF Mortgageable
  <2>2. QED  BY <2>1
<1>3. SumFunctionOnSet(MortgageValues, Free(g, p)) = 0
      BY <1>2, SumEmpty
<1>4. SumFunctionOnSet(BuildingValues(g), Owned(g, p)) = 0
  <2>1. PICK S : S = Owned(g, p)
        OBVIOUS
  <2>2. PICK c : c = BuildingValues(g)
        OBVIOUS
  <2>3. S \in SUBSET Tiles /\ IsFiniteSet(Tiles) /\ IsFiniteSet(S)
        BY <2>1, TilesAssumption, FS_Subset DEF Owned
  <2>4. ASSUME NEW t \in S PROVE c[t] = 0
    <3>1. t \in Tiles /\ g.level[t] = 0
          BY <1>1, <2>1
    <3>2. PICK n \in Nat : n = SellValue(t)
          BY <3>1, CostTypes
    <3>3. 0 * n = 0
          OBVIOUS
    <3>4. QED  BY <2>2, <3>1, <3>2, <3>3 DEF BuildingValues
  <2>5. \A t \in S : c[t] = IF t \in {} THEN c[t] ELSE 0
        BY <2>4
  <2>6. \A t \in S : c[t] \in Int
        BY <2>4
  <2>7. {} \in SUBSET S
        OBVIOUS
  <2>8. SumFunctionOnSet(c, S) = SumFunctionOnSet(c, {})
        BY ONLY <2>3, <2>5, <2>6, <2>7, SumWithin
  <2>9. QED  BY <2>1, <2>2, <2>8, SumEmpty
<1>5. QED  BY <1>3, <1>4, RaisableSplit

(* A debtor is bankrupted by autoResolveDebt for want of money only.       *)
LEMMA AutoResolveBankrupts ==
    ASSUME NEW g, Sound(g), NEW p \in Players, CanAutoResolve(g, p)
    PROVE  /\ g.debt # None /\ g.debt.by = p
           /\ AutoResolve(g, p).bankrupt \subseteq g.bankrupt \cup {p}
           /\ AutoResolve(g, p).bankrupt # g.bankrupt => Raisable(g, p) < g.debt.amount
<1>1. g.debt # None /\ g.debt.by = p /\ g.phase = "awaiting_debt_resolution"
      BY DEF CanAutoResolve, ResolvingOwnDebt
<1>2. p \notin g.bankrupt
      BY <1>1 DEF Sound, Turns, Records, Finished, Active
<1>3. PICK h : h = Liquidated(g, p)
      OBVIOUS
<1>4. Sound(h) /\ Managed(g, h) /\ Raisable(h, p) = Raisable(g, p) /\ Spent(h, p)
      BY <1>2, <1>3, LiquidatedFacts, LiquidatedRaises
<1>5. h.bankrupt = g.bankrupt /\ h.debt = g.debt /\ h \in States
      BY <1>4 DEF Managed, SameTurn, Sound
<1>6. CASE DebtPayable(h)
  <2>1. CanPayDebt(h, p)
        BY <1>1, <1>4, <1>6 DEF CanPayDebt, ResolvingOwnDebt, Managed
  <2>2. AutoResolve(g, p) = PayDebt(h, p)
        BY <1>3, <1>6 DEF AutoResolve
  <2>3. AutoResolve(g, p).bankrupt = g.bankrupt
        BY <1>4, <1>5, <2>1, <2>2, PayDebtFacts DEF SameTurn
  <2>4. QED  BY <1>1, <2>3
<1>7. CASE ~DebtPayable(h)
  <2>1. CanDeclareBankruptcy(h, p) /\ ~SaleRefused(h, p)
        BY <1>3, <1>7 DEF CanAutoResolve
  <2>2. AutoResolve(g, p) = DeclareBankruptcy(h, p)
        BY <1>3, <1>7 DEF AutoResolve
  <2>3. AutoResolve(g, p).bankrupt = g.bankrupt \cup {p}
        BY <1>4, <1>5, <2>1, <2>2, BankruptcyBankrupts
  <2>4. Raisable(h, p) = h.cash[p]
        BY <1>4, <1>5, <1>7, <2>1, NothingToRaise DEF Spent
  <2>5. g.debt.amount \in Nat /\ h.cash[p] \in Nat
    <3>1. g.debt \in Debts
          BY <1>1, FieldTypes DEF Sound
    <3>2. QED  BY <1>5, <3>1, FieldTypes DEF Debts
  <2>6. h.cash[p] < g.debt.amount
        BY <1>1, <1>5, <1>7, <2>5 DEF DebtPayable, CanPay
  <2>7. QED  BY <1>1, <1>4, <2>3, <2>4, <2>6
<1>8. QED  BY <1>6, <1>7

LEMMA StepBankrupts ==
    ASSUME Sound(game), Next,
           NEW b \in (game'.bankrupt \ game.bankrupt) \ Humans
    PROVE  /\ game.debt # None /\ game.debt.by = b
           /\ Raisable(game, b) < game.debt.amount
<1>1. game \in States
      BY DEF Sound
<1>2. SUFFICES ASSUME game'.bankrupt # game.bankrupt,
                      NEW p \in Players, AutoResolveIntent(p) \/ BankruptcyIntent(p)
               PROVE  /\ game.debt # None /\ game.debt.by = b
                      /\ Raisable(game, b) < game.debt.amount
  <2>1. game'.bankrupt # game.bankrupt
        OBVIOUS
  <2>2. \A h : game' = h => h.bankrupt # game.bankrupt
        BY <2>1
  <2>3. ~FinishIntent
    <3>1. Finish(game).bankrupt = game.bankrupt
          BY <1>1 DEF Finish, NoDoubles, States
    <3>2. QED  BY <2>2, <3>1 DEF FinishIntent, Apply
  <2>4. ASSUME NEW p \in Players PROVE ~RollAndMoveIntent(p)
        BY <2>2, RollFacts DEF RollAndMoveIntent, Apply, Rolled, SameTurn
  <2>5. ASSUME NEW p \in Players PROVE ~BuyIntent(p) /\ ~DeclineIntent(p)
        BY <2>2, BuyFacts, DeclineFacts DEF BuyIntent, DeclineIntent, Apply, SameTurn
  <2>6. ASSUME NEW p \in Players PROVE ~BidIntent(p) /\ ~PassIntent(p)
    <3>1. MinBid..MaxCash \subseteq Nat
          BY AmountTypes, BoundAssumption
    <3>2. QED  BY <2>2, <3>1, BidFacts, PassFacts DEF BidIntent, PassIntent, Apply, SameTurn
  <2>7. ASSUME NEW p \in Players PROVE ~BuildIntent(p) /\ ~UnmortgageIntent(p)
        BY <2>2, BuildFacts, UnmortgageFacts DEF BuildIntent, UnmortgageIntent, Apply, SameTurn
  <2>8. ASSUME NEW p \in Players PROVE ~SellIntent(p)
    <3>1. \A t \in Tiles : CanSell(game, p, t) => Sell(game, p, t).bankrupt = game.bankrupt
          BY SellFacts DEF CanSell, CanRaiseMoney, IsCurrentTurn, Managed, SameTurn
    <3>2. QED  BY <2>2, <3>1 DEF SellIntent, Apply
  <2>9. ASSUME NEW p \in Players PROVE ~MortgageIntent(p)
    <3>1. \A t \in Tiles : CanMortgage(game, p, t) => Mortgage(game, p, t).bankrupt = game.bankrupt
          BY MortgageFacts, NoneAssumption
          DEF CanMortgage, CanRaiseMoney, IsCurrentTurn, Managed, SameTurn
    <3>2. QED  BY <2>2, <3>1 DEF MortgageIntent, Apply
  <2>10. \A o : Offer(game, o).bankrupt = game.bankrupt /\ DropOffer(game).bankrupt = game.bankrupt
        BY <1>1 DEF Offer, DropOffer, States
  <2>11. \A o \in Offers : ValidTrade(game, o) => AcceptOffer(game, o).bankrupt = game.bankrupt
        BY AcceptFacts DEF SameTurn
  <2>12. ASSUME NEW p \in Players PROVE ~ProposeIntent(p)
        BY <2>2, <2>10, <2>11, OfferTypes DEF ProposeIntent, Apply
  <2>13. ASSUME NEW p \in Players PROVE ~AcceptIntent(p) /\ ~DropIntent(p)
    <3>1. game.offer # None => game.offer \in Offers
          BY <1>1, FieldTypes
    <3>2. QED  BY <2>2, <2>10, <2>11, <3>1 DEF AcceptIntent, DropIntent, Apply
  <2>14. ASSUME NEW p \in Players PROVE ~PayDebtIntent(p) /\ ~JailFineIntent(p) /\ ~JailCardIntent(p)
        BY <2>2, PayDebtFacts, JailFineFacts, UseCardFacts
        DEF PayDebtIntent, JailFineIntent, JailCardIntent, Apply, SameTurn
  <2>15. ASSUME NEW p \in Players PROVE ~EndTurnIntent(p)
    <3>1. EndTurn(game).bankrupt = game.bankrupt
          BY <1>1 DEF EndTurn, NoDoubles, States
    <3>2. QED  BY <2>2, <3>1 DEF EndTurnIntent, Apply
  <2>16. QED  BY <1>2, <2>1, <2>3, <2>4, <2>5, <2>6, <2>7, <2>8, <2>9, <2>12, <2>13,
                 <2>14, <2>15 DEF Next
<1>3. CASE AutoResolveIntent(p)
  <2>1. CanAutoResolve(game, p) /\ game' = AutoResolve(game, p)
        BY <1>3 DEF AutoResolveIntent, Apply
  <2>2. /\ game.debt # None /\ game.debt.by = p
        /\ game'.bankrupt \subseteq game.bankrupt \cup {p}
        /\ Raisable(game, p) < game.debt.amount
        BY <1>2, <2>1, AutoResolveBankrupts
  <2>3. b = p
        BY <2>2
  <2>4. QED  BY <2>2, <2>3
<1>4. CASE BankruptcyIntent(p)
  <2>1. p \in Humans /\ CanDeclareBankruptcy(game, p) /\ game' = DeclareBankruptcy(game, p)
        BY <1>4 DEF BankruptcyIntent, Apply
  <2>2. game'.bankrupt = game.bankrupt \cup {p}
        BY <2>1, BankruptcyBankrupts
  <2>3. QED  BY <2>1, <2>2
<1>5. QED  BY <1>2, <1>3, <1>4

(* A bot goes bankrupt only of a debt that all its cash, buildings and     *)
(* mortgages do not cover: the loop of autoResolveDebt never stops early.  *)
THEOREM BotsPay == Spec => BotsPayWhatTheyCan
<1>1. Inv /\ [Next]_game =>
        [\A p \in (game'.bankrupt \ game.bankrupt) \ Humans :
            game.debt # None /\ game.debt.by = p /\ Raisable(game, p) < game.debt.amount]_game
      BY StepBankrupts DEF Inv
<1>2. QED  BY <1>1, Soundness, PTL DEF Spec, BotsPayWhatTheyCan

===========================================================================
