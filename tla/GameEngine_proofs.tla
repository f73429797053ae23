------------------------- MODULE GameEngine_proofs -------------------------
(***************************************************************************)
(* Proofs about GameEngine.  Every function of the engine takes a sound    *)
(* state to a sound state; the safety properties are parts of soundness.   *)
(***************************************************************************)
EXTENDS GameEngine, FiniteFacts

---------------------------------------------------------------------------
(* The inductive invariant, of a state of the engine *)

(* TurnHolderActive *)
Turns(g) ==
    ~Finished(g) =>
        /\ g.current \in Active(g)
        /\ Cardinality(Active(g)) >= 2
        /\ Active(g) \cap Humans # {}

(* PhaseMatchesRecords; and nobody owes itself.                            *)
Records(g) ==
    /\ (g.phase = "awaiting_property_decision") <=> (g.pending # None)
    /\ (g.phase = "awaiting_auction_bid") <=> (g.auction # None)
    /\ (g.phase = "awaiting_debt_resolution") <=> (g.debt # None)
    /\ g.pending # None => g.owner[g.pending] = None
    /\ g.auction # None => g.owner[g.auction.tile] = None
    /\ g.debt # None => g.debt.by = g.current /\ g.debt.to # g.debt.by
    /\ Finished(g) => g.offer = None

(* The rest of PhaseMatchesRecords, about the prisoners.                   *)
Prisoners(g) ==
    ~Finished(g) =>
        \A p \in g.jailed : g.jailTurns[p] >= MaxJailTurns =>
            g.debt # None /\ g.debt.by = p /\ g.debt.reason = "jail_fine"

(* AuctionOpen, of an auction, and the turn to bid: it is with the first   *)
(* bidder left after the one who holds the highest bid, so that a pass     *)
(* never gives it to that one.                                             *)
Bidding(a) ==
    /\ a.bidder \in Remaining(a) \ {a.highest}
    /\ a.highest # None => a.highest \in Remaining(a)
    /\ a.bid = 0 <=> a.highest = None
    /\ a.highest # None => a.bidder = SeatAfter(Remaining(a), a.highest)

(* A bidder who has gone bankrupt cannot win: it has no cash.              *)
Penniless(g) ==
    g.auction # None => \A p \in g.auction.active \cap g.bankrupt : g.cash[p] = 0

(* BankruptHoldNothing *)
Holdings(g) ==
    \A p \in g.bankrupt :
        /\ \A t \in Tiles : g.owner[t] # p
        /\ g.cards[p] = {}
        /\ p \notin g.jailed

(* Each free card is in one place.                                         *)
Placed(g) ==
    /\ \A p, q \in Players : p # q => g.cards[p] \cap g.cards[q] = {}
    /\ \A p \in Players : g.cards[p] \cap g.deck = {}
    /\ \A c \in FreeCards : c \notin g.deck => \E p \in Players : c \in g.cards[p]

(* NoMortgageBesideBuildings *)
Unmixed(g) ==
    \A t \in Tiles : Built(g, SetOf(t)) => SetOf(t) \cap g.mortgaged = {}

(* A tile of the bank has no buildings and no mortgage.                    *)
Bare(g) ==
    \A t \in Tiles : g.owner[t] = None => g.level[t] = 0 /\ t \notin g.mortgaged

Sound(g) ==
    /\ g \in States
    /\ Turns(g) /\ Records(g) /\ Prisoners(g)
    /\ g.auction # None => Bidding(g.auction)
    /\ Penniless(g) /\ Holdings(g) /\ Placed(g) /\ Unmixed(g) /\ Bare(g)

(* What most functions leave alone; and none but the end of a turn leads   *)
(* back to a roll.                                                         *)
SameTurn(g, h) ==
    /\ h.turn = g.turn /\ h.current = g.current /\ h.bankrupt = g.bankrupt
    /\ h.phase = g.phase \/ h.phase \notin RollPhases

(* What a payment leaves alone: all but the cash.                          *)
Paid(g, h) ==
    /\ SameTurn(g, h) /\ h.phase = g.phase
    /\ h.pending = g.pending /\ h.auction = g.auction /\ h.debt = g.debt /\ h.offer = g.offer
    /\ h.deck = g.deck /\ h.cards = g.cards /\ h.jailed = g.jailed /\ h.jailTurns = g.jailTurns
    /\ h.owner = g.owner /\ h.level = g.level /\ h.mortgaged = g.mortgaged
    /\ h.doubles = g.doubles /\ h.again = g.again

(* All but cash, buildings and mortgages.                                  *)
Managed(g, h) ==
    /\ SameTurn(g, h) /\ h.phase = g.phase
    /\ h.pending = g.pending /\ h.auction = g.auction /\ h.debt = g.debt /\ h.offer = g.offer
    /\ h.deck = g.deck /\ h.cards = g.cards /\ h.jailed = g.jailed /\ h.jailTurns = g.jailTurns
    /\ h.owner = g.owner

(* All but the count of doubles.                                           *)
Recounted(g, h) ==
    /\ SameTurn(g, h) /\ h.phase = g.phase /\ h.cash = g.cash
    /\ h.pending = g.pending /\ h.auction = g.auction /\ h.debt = g.debt /\ h.offer = g.offer
    /\ h.deck = g.deck /\ h.cards = g.cards /\ h.jailed = g.jailed /\ h.jailTurns = g.jailTurns
    /\ h.owner = g.owner /\ h.level = g.level /\ h.mortgaged = g.mortgaged

---------------------------------------------------------------------------
(* Money *)

LEMMA FieldTypes ==
    ASSUME NEW g \in States
    PROVE  /\ g.phase \in Phases /\ g.turn \in Nat /\ g.current \in Players
           /\ g.pending \in Tiles \cup {None} /\ g.auction \in Auctions \cup {None}
           /\ g.debt \in Debts \cup {None} /\ g.offer \in Offers \cup {None}
           /\ g.deck \in SUBSET FreeCards /\ g.cash \in [Players -> Nat]
           /\ g.jailed \in SUBSET Players /\ g.jailTurns \in [Players -> 0..MaxJailTurns]
           /\ g.cards \in [Players -> SUBSET FreeCards] /\ g.bankrupt \in SUBSET Players
           /\ g.owner \in [Tiles -> Players \cup {None}] /\ g.level \in [Tiles -> 0..Hotel]
           /\ g.mortgaged \in SUBSET Tiles /\ g.doubles \in 0..2 /\ g.again \in BOOLEAN
BY DEF States

LEMMA PhaseNames ==
    {"awaiting_roll", "awaiting_property_decision", "awaiting_turn_end",
     "awaiting_auction_bid", "awaiting_debt_resolution", "finished"} \subseteq Phases
BY DEF Phases, TradePhases, RollPhases

LEMMA AmountTypes ==
    /\ StartCash \in Nat /\ PassGoCash \in Nat /\ JailFine \in Nat /\ TaxAmount \in Nat
    /\ CardAmount \in Nat /\ HotelRepair \in Nat
    /\ MaxHouses \in Nat \ {0} /\ MaxJailTurns \in Nat \ {0} /\ MinBid \in Nat \ {0}
BY AmountsAssumption

LEMMA CostTypes ==
    ASSUME NEW t \in Tiles
    PROVE  /\ Board[t].price \in Nat /\ Board[t].houseCost \in Nat /\ Board[t].mortgage \in Nat
           /\ SellValue(t) \in Nat /\ UnmortgageCost(t) \in Nat
<1>1. Board[t].price \in Nat /\ Board[t].houseCost \in Nat /\ Board[t].mortgage \in Nat
      BY BoardAssumption
<1>2. ASSUME NEW n \in Nat PROVE n \div 2 \in Nat /\ (11 * n + 9) \div 10 \in Nat
      OBVIOUS
<1>3. QED  BY <1>1, <1>2 DEF SellValue, UnmortgageCost

(* A part of soundness is kept by what leaves its fields alone.            *)
LEMMA PartsKept ==
    ASSUME NEW g, NEW h
    PROVE  /\ Turns(g) /\ h.phase = g.phase /\ h.current = g.current /\ h.bankrupt = g.bankrupt
                => Turns(h)
           /\ Records(g) /\ h.phase = g.phase /\ h.current = g.current
              /\ h.pending = g.pending /\ h.auction = g.auction /\ h.debt = g.debt
              /\ h.owner = g.owner /\ h.offer = g.offer
                => Records(h)
           /\ Prisoners(g) /\ h.phase = g.phase /\ h.jailed = g.jailed
              /\ h.jailTurns = g.jailTurns /\ h.debt = g.debt
                => Prisoners(h)
           /\ Penniless(g) /\ h.auction = g.auction /\ h.bankrupt = g.bankrupt /\ h.cash = g.cash
                => Penniless(h)
           /\ Holdings(g) /\ h.bankrupt = g.bankrupt /\ h.owner = g.owner
              /\ h.cards = g.cards /\ h.jailed = g.jailed
                => Holdings(h)
           /\ Placed(g) /\ h.cards = g.cards /\ h.deck = g.deck => Placed(h)
           /\ Unmixed(g) /\ h.level = g.level /\ h.mortgaged = g.mortgaged => Unmixed(h)
           /\ Bare(g) /\ h.owner = g.owner /\ h.level = g.level
              /\ h.mortgaged = g.mortgaged => Bare(h)
<1>1. Turns(g) /\ h.phase = g.phase /\ h.current = g.current /\ h.bankrupt = g.bankrupt
        => Turns(h)
      BY DEF Turns, Active, Finished
<1>2. Records(g) /\ h.phase = g.phase /\ h.current = g.current
      /\ h.pending = g.pending /\ h.auction = g.auction /\ h.debt = g.debt
      /\ h.owner = g.owner /\ h.offer = g.offer
        => Records(h)
      BY DEF Records, Finished
<1>3. Prisoners(g) /\ h.phase = g.phase /\ h.jailed = g.jailed
      /\ h.jailTurns = g.jailTurns /\ h.debt = g.debt
        => Prisoners(h)
      BY DEF Prisoners, Finished
<1>4. Penniless(g) /\ h.auction = g.auction /\ h.bankrupt = g.bankrupt /\ h.cash = g.cash
        => Penniless(h)
      BY DEF Penniless
<1>5. Holdings(g) /\ h.bankrupt = g.bankrupt /\ h.owner = g.owner
      /\ h.cards = g.cards /\ h.jailed = g.jailed
        => Holdings(h)
      BY DEF Holdings
<1>6. Placed(g) /\ h.cards = g.cards /\ h.deck = g.deck => Placed(h)
      BY DEF Placed
<1>7. Unmixed(g) /\ h.level = g.level /\ h.mortgaged = g.mortgaged => Unmixed(h)
      BY DEF Unmixed, Built
<1>8. Bare(g) /\ h.owner = g.owner /\ h.level = g.level /\ h.mortgaged = g.mortgaged
        => Bare(h)
      BY DEF Bare
<1>9. QED  BY <1>1, <1>2, <1>3, <1>4, <1>5, <1>6, <1>7, <1>8

(* A change of the cash of players who are not bankrupt, or of any players *)
(* when there is no auction.                                               *)
LEMMA CashFacts ==
    ASSUME NEW g, Sound(g), NEW c \in [Players -> Nat],
           g.auction = None \/ \A p \in g.bankrupt : c[p] = g.cash[p]
    PROVE  /\ Sound([g EXCEPT !.cash = c])
           /\ Paid(g, [g EXCEPT !.cash = c])
<1> DEFINE h == [g EXCEPT !.cash = c]
<1>1. g \in States
      BY DEF Sound
<1>2. /\ h \in States
      /\ h.phase = g.phase /\ h.turn = g.turn /\ h.current = g.current
      /\ h.pending = g.pending /\ h.auction = g.auction /\ h.debt = g.debt
      /\ h.offer = g.offer /\ h.deck = g.deck /\ h.cash = c
      /\ h.jailed = g.jailed /\ h.jailTurns = g.jailTurns /\ h.cards = g.cards
      /\ h.bankrupt = g.bankrupt /\ h.owner = g.owner /\ h.level = g.level
      /\ h.mortgaged = g.mortgaged /\ h.doubles = g.doubles /\ h.again = g.again
      BY <1>1 DEF States
<1> HIDE DEF h
<1>3. Penniless(h)
      BY <1>2 DEF Sound, Penniless
<1>4. Sound(h) /\ Paid(g, h)
      BY <1>2, <1>3, PartsKept DEF Sound, Paid, SameTurn
<1>5. QED  BY <1>4 DEF h

(* A player who is not bankrupt pays what it has, or is paid.              *)
LEMMA DebitFacts ==
    ASSUME NEW g, Sound(g), NEW p \in Players, NEW n \in Nat, CanPay(g, p, n),
           g.auction = None \/ p \notin g.bankrupt
    PROVE  /\ Sound(Debit(g, p, n)) /\ Paid(g, Debit(g, p, n))
           /\ Debit(g, p, n).cash = [g.cash EXCEPT ![p] = @ - n]
<1>1. g \in States
      BY DEF Sound
<1>2. PICK c : c = [g.cash EXCEPT ![p] = @ - n]
      OBVIOUS
<1>3. c \in [Players -> Nat] /\ \A q \in Players : q # p => c[q] = g.cash[q]
      BY <1>1, <1>2, FieldTypes DEF CanPay
<1>4. Debit(g, p, n) = [g EXCEPT !.cash = c] /\ [g EXCEPT !.cash = c].cash = c
      BY <1>1, <1>2 DEF Debit, States
<1>5. g.auction = None \/ \A q \in g.bankrupt : c[q] = g.cash[q]
      BY <1>1, <1>3, FieldTypes
<1>6. Sound([g EXCEPT !.cash = c]) /\ Paid(g, [g EXCEPT !.cash = c])
      BY <1>3, <1>5, CashFacts
<1>7. QED  BY <1>2, <1>4, <1>6

LEMMA CreditFacts ==
    ASSUME NEW g, Sound(g), NEW p \in Players, NEW n \in Nat,
           g.auction = None \/ p \notin g.bankrupt
    PROVE  /\ Sound(Credit(g, p, n)) /\ Paid(g, Credit(g, p, n))
           /\ Credit(g, p, n).cash = [g.cash EXCEPT ![p] = @ + n]
<1>1. g \in States
      BY DEF Sound
<1>2. PICK c : c = [g.cash EXCEPT ![p] = @ + n]
      OBVIOUS
<1>3. c \in [Players -> Nat] /\ \A q \in Players : q # p => c[q] = g.cash[q]
      BY <1>1, <1>2, FieldTypes
<1>4. Credit(g, p, n) = [g EXCEPT !.cash = c] /\ [g EXCEPT !.cash = c].cash = c
      BY <1>1, <1>2 DEF Credit, States
<1>5. g.auction = None \/ \A q \in g.bankrupt : c[q] = g.cash[q]
      BY <1>1, <1>3, FieldTypes
<1>6. Sound([g EXCEPT !.cash = c]) /\ Paid(g, [g EXCEPT !.cash = c])
      BY <1>3, <1>5, CashFacts
<1>7. QED  BY <1>2, <1>4, <1>6

(* What a player is paid for passing GO or by a card.                      *)
LEMMA BonusFacts ==
    ASSUME NEW g, Sound(g), g.auction = None, NEW p \in Players
    PROVE  /\ Sound(Credit(g, p, CardAmount)) /\ Paid(g, Credit(g, p, CardAmount))
           /\ Sound(Credit(g, p, PassGoCash)) /\ Paid(g, Credit(g, p, PassGoCash))
<1>1. \A n \in Nat : Sound(Credit(g, p, n)) /\ Paid(g, Credit(g, p, n))
      BY CreditFacts
<1>2. QED  BY <1>1, AmountTypes

LEMMA TransferFacts ==
    ASSUME NEW g, Sound(g), NEW p \in Players, NEW q \in Players, NEW n \in Nat,
           CanPay(g, p, n),
           g.auction = None \/ (p \notin g.bankrupt /\ q \notin g.bankrupt)
    PROVE  /\ Sound(Transfer(g, p, q, n)) /\ Paid(g, Transfer(g, p, q, n))
           /\ \A r \in Players : r # p \/ q = p => Transfer(g, p, q, n).cash[r] >= g.cash[r]
<1>1. PICK h : h = Debit(g, p, n)
      OBVIOUS
<1>2. Sound(h) /\ Paid(g, h) /\ h.cash = [g.cash EXCEPT ![p] = @ - n]
      BY <1>1, DebitFacts
<1>3. g.cash \in [Players -> Nat]
      BY FieldTypes DEF Sound
<1>4. Transfer(g, p, q, n) = Credit(h, q, n)
      BY <1>1 DEF Transfer
<1>5. /\ Sound(Credit(h, q, n)) /\ Paid(h, Credit(h, q, n))
      /\ Credit(h, q, n).cash = [h.cash EXCEPT ![q] = @ + n]
      BY <1>2, CreditFacts DEF Paid, SameTurn
<1>6. Paid(g, Credit(h, q, n))
      BY <1>2, <1>5 DEF Paid, SameTurn
<1>7. \A r \in Players : r # p \/ q = p => Credit(h, q, n).cash[r] >= g.cash[r]
      BY <1>2, <1>3, <1>5
<1>8. QED  BY <1>4, <1>5, <1>6, <1>7

(* A debt of the player whose turn it is, at the end of a move.            *)
LEMMA CreateDebtFacts ==
    ASSUME NEW g, Sound(g), g.phase = "awaiting_turn_end",
           NEW p \in Players, g.current = p, NEW q \in Players \cup {None}, q # p, NEW n \in Nat,
           NEW why \in {"rent", "tax", "card"}
    PROVE  /\ Sound(CreateDebt(g, p, q, n, why)) /\ SameTurn(g, CreateDebt(g, p, q, n, why))
           /\ CreateDebt(g, p, q, n, why).phase = "awaiting_debt_resolution"
<1> DEFINE d == [by |-> p, to |-> q, amount |-> n, reason |-> why]
           h == CreateDebt(g, p, q, n, why)
<1>1. g \in States
      BY DEF Sound
<1>2. d \in Debts /\ d # None /\ d.by = p /\ d.to # p
      BY NoneAssumption DEF Debts
<1>3. g.pending = None /\ g.auction = None /\ g.debt = None
      BY DEF Sound, Records
<1>4. h = [g EXCEPT !.phase = "awaiting_debt_resolution", !.pending = None,
                    !.auction = None, !.again = FALSE, !.debt = d]
      BY DEF CreateDebt
<1> HIDE DEF d, h
<1>5. /\ h \in States
      /\ h.phase = "awaiting_debt_resolution" /\ h.turn = g.turn /\ h.current = g.current
      /\ h.pending = g.pending /\ h.auction = g.auction /\ h.debt = d
      /\ h.offer = g.offer /\ h.deck = g.deck /\ h.cash = g.cash
      /\ h.jailed = g.jailed /\ h.jailTurns = g.jailTurns /\ h.cards = g.cards
      /\ h.bankrupt = g.bankrupt /\ h.owner = g.owner /\ h.level = g.level
      /\ h.mortgaged = g.mortgaged
      BY <1>1, <1>2, <1>3, <1>4 DEF States, Phases
<1>6. Turns(h)
      BY <1>5 DEF Sound, Turns, Active, Finished
<1>7. Records(h)
      BY <1>2, <1>3, <1>5 DEF Sound, Records, Finished
<1>8. Prisoners(h)
      BY <1>3, <1>5 DEF Sound, Prisoners, Finished
<1>9. Sound(h) /\ SameTurn(g, h)
      BY <1>3, <1>5, <1>6, <1>7, <1>8, PartsKept DEF Sound, SameTurn, RollPhases
<1>10. QED  BY <1>5, <1>9 DEF h


---------------------------------------------------------------------------
(* Doubles and jail *)

LEMMA DoublesFacts ==
    ASSUME NEW g, Sound(g), NEW n \in 0..2, NEW b \in BOOLEAN
    PROVE  /\ Sound([g EXCEPT !.doubles = n, !.again = b])
           /\ Recounted(g, [g EXCEPT !.doubles = n, !.again = b])
<1> DEFINE h == [g EXCEPT !.doubles = n, !.again = b]
<1>1. g \in States
      BY DEF Sound
<1>2. h \in States /\ Recounted(g, h)
      BY <1>1 DEF States, Recounted, SameTurn
<1> HIDE DEF h
<1>3. Sound(h)
      BY <1>2, PartsKept DEF Sound, Recounted, SameTurn
<1>4. QED  BY <1>2, <1>3 DEF h

LEMMA NoDoublesFacts ==
    ASSUME NEW g, Sound(g)
    PROVE  Sound(NoDoubles(g)) /\ Recounted(g, NoDoubles(g))
<1>1. 0 \in 0..2 /\ FALSE \in BOOLEAN
      OBVIOUS
<1>2. QED  BY <1>1, DoublesFacts DEF NoDoubles

(* Doubles are counted when they are not the third.                        *)
LEMMA CountDoublesFacts ==
    ASSUME NEW g, Sound(g), NEW roll, ~(roll.doubles /\ g.doubles = 2)
    PROVE  Sound(CountDoubles(g, roll)) /\ Recounted(g, CountDoubles(g, roll))
<1>1. CASE ~roll.doubles
      BY <1>1, NoDoublesFacts DEF CountDoubles
<1>2. CASE roll.doubles
  <2>1. PICK n \in 0..2 : n = g.doubles + 1
        BY <1>2, FieldTypes DEF Sound
  <2>2. PICK b \in BOOLEAN : b = TRUE
        OBVIOUS
  <2>3. CountDoubles(g, roll) = [g EXCEPT !.doubles = n, !.again = b]
        BY <1>2, <2>1, <2>2 DEF CountDoubles
  <2>4. Sound([g EXCEPT !.doubles = n, !.again = b])
        /\ Recounted(g, [g EXCEPT !.doubles = n, !.again = b])
        BY DoublesFacts
  <2>5. QED  BY <2>3, <2>4
<1>3. QED  BY <1>1, <1>2

LEMMA ReleaseFacts ==
    ASSUME NEW g, Sound(g), NEW p \in Players
    PROVE  /\ Sound(Release(g, p)) /\ SameTurn(g, Release(g, p))
           /\ Release(g, p).phase = g.phase /\ Release(g, p).debt = g.debt
           /\ Release(g, p).cash = g.cash /\ Release(g, p).deck = g.deck
           /\ Release(g, p).jailed = g.jailed \ {p}
           /\ \A q \in Players : q # p => Release(g, p).jailTurns[q] = g.jailTurns[q]
<1> DEFINE h == Release(g, p)
<1>1. g \in States
      BY DEF Sound
<1>2. PICK j : j = [g.jailTurns EXCEPT ![p] = 0]
      OBVIOUS
<1>3. j \in [Players -> 0..MaxJailTurns] /\ \A q \in Players : q # p => j[q] = g.jailTurns[q]
      BY <1>1, <1>2, FieldTypes, AmountsAssumption
<1>4. h = [g EXCEPT !.jailed = g.jailed \ {p}, !.jailTurns = j]
      BY <1>1, <1>2 DEF Release, States
<1> HIDE DEF h
<1>5. /\ h \in States
      /\ h.phase = g.phase /\ h.turn = g.turn /\ h.current = g.current
      /\ h.pending = g.pending /\ h.auction = g.auction /\ h.debt = g.debt
      /\ h.offer = g.offer /\ h.deck = g.deck /\ h.cash = g.cash
      /\ h.jailed = g.jailed \ {p} /\ h.jailTurns = j /\ h.cards = g.cards
      /\ h.bankrupt = g.bankrupt /\ h.owner = g.owner /\ h.level = g.level
      /\ h.mortgaged = g.mortgaged
      BY <1>1, <1>3, <1>4 DEF States
<1>6. Prisoners(h)
      BY <1>1, <1>3, <1>5, FieldTypes DEF Sound, Prisoners, Finished
<1>7. Holdings(h)
      BY <1>5 DEF Sound, Holdings
<1>8. Sound(h) /\ SameTurn(g, h)
      BY <1>5, <1>6, <1>7, PartsKept DEF Sound, SameTurn
<1>9. QED  BY <1>3, <1>5, <1>8 DEF h

LEMMA JailUpdate ==
    ASSUME NEW g \in States, NEW x \in Phases, NEW y \in Tiles \cup {None},
           NEW k \in SUBSET Players, NEW j \in [Players -> 0..MaxJailTurns]
    PROVE  [g EXCEPT !.phase = x, !.pending = y, !.jailed = k, !.jailTurns = j] \in States
BY DEF States

(* The player whose turn it is goes to jail, in the course of a move.      *)
LEMMA SendToJailFacts ==
    ASSUME NEW g, Sound(g), g.phase \in RollPhases \cup {"awaiting_turn_end"},
           NEW p \in Players, g.current = p
    PROVE  /\ Sound(SendToJail(g, p)) /\ SameTurn(g, SendToJail(g, p))
           /\ SendToJail(g, p).phase = "awaiting_turn_end"
<1>1. g \in States
      BY DEF Sound
<1>2. PICK j : j = [g.jailTurns EXCEPT ![p] = 0]
      OBVIOUS
<1>3. /\ j \in [Players -> 0..MaxJailTurns] /\ \A q \in Players : q # p => j[q] = g.jailTurns[q]
      /\ j[p] = 0
      BY <1>1, <1>2, FieldTypes, AmountsAssumption
<1>4. PICK k \in SUBSET Players : k = g.jailed \cup {p}
      BY <1>1, FieldTypes
<1> DEFINE h == [g EXCEPT !.phase = "awaiting_turn_end", !.pending = None,
                          !.jailed = k, !.jailTurns = j]
<1>5. SendToJail(g, p) = NoDoubles(h)
      BY <1>1, <1>2, <1>4 DEF SendToJail, NoDoubles, States
<1>6. g.pending = None /\ g.auction = None /\ g.debt = None /\ ~Finished(g)
      BY DEF Sound, Records, RollPhases, Finished
<1>a. h \in States
  <2>1. PICK x \in Phases, y \in Tiles \cup {None} : x = "awaiting_turn_end" /\ y = None
        BY PhaseNames
  <2>2. [g EXCEPT !.phase = x, !.pending = y, !.jailed = k, !.jailTurns = j] \in States
        BY <1>1, <1>3, JailUpdate
  <2>3. QED  BY <2>1, <2>2
<1>7. /\ h \in States
      /\ h.phase = "awaiting_turn_end" /\ h.turn = g.turn /\ h.current = g.current
      /\ h.pending = g.pending /\ h.auction = g.auction /\ h.debt = g.debt
      /\ h.offer = g.offer /\ h.deck = g.deck /\ h.cash = g.cash
      /\ h.jailed = k /\ h.jailTurns = j /\ h.cards = g.cards
      /\ h.bankrupt = g.bankrupt /\ h.owner = g.owner /\ h.level = g.level
      /\ h.mortgaged = g.mortgaged
      BY <1>1, <1>6, <1>a DEF States
<1> HIDE DEF h
<1>8. Turns(h)
      BY <1>6, <1>7 DEF Sound, Turns, Active, Finished
<1>9. Records(h)
      BY <1>6, <1>7 DEF Sound, Records, Finished
<1>10. Prisoners(h)
      BY <1>1, <1>3, <1>4, <1>6, <1>7, FieldTypes, AmountsAssumption
      DEF Sound, Prisoners, Finished
<1>11. Holdings(h)
      BY <1>4, <1>6, <1>7 DEF Sound, Holdings, Turns, Active
<1>12. Sound(h) /\ SameTurn(g, h)
      BY <1>6, <1>7, <1>8, <1>9, <1>10, <1>11, PartsKept DEF Sound, SameTurn, RollPhases
<1>13. QED  BY <1>5, <1>7, <1>12, NoDoublesFacts DEF Recounted, SameTurn

(* A move begins by closing the roll.                                      *)
LEMMA MovedFacts ==
    ASSUME NEW g, Sound(g), g.phase \in RollPhases
    PROVE  /\ Sound([g EXCEPT !.phase = "awaiting_turn_end", !.pending = None])
           /\ SameTurn(g, [g EXCEPT !.phase = "awaiting_turn_end", !.pending = None])
           /\ [g EXCEPT !.phase = "awaiting_turn_end", !.pending = None].phase = "awaiting_turn_end"
           /\ [g EXCEPT !.phase = "awaiting_turn_end", !.pending = None].deck = g.deck
<1> DEFINE h == [g EXCEPT !.phase = "awaiting_turn_end", !.pending = None]
<1>1. g \in States
      BY DEF Sound
<1>2. g.pending = None /\ g.auction = None /\ g.debt = None /\ ~Finished(g)
      BY DEF Sound, Records, RollPhases, Finished
<1>3. /\ h \in States
      /\ h.phase = "awaiting_turn_end" /\ h.turn = g.turn /\ h.current = g.current
      /\ h.pending = g.pending /\ h.auction = g.auction /\ h.debt = g.debt
      /\ h.offer = g.offer /\ h.deck = g.deck /\ h.cash = g.cash
      /\ h.jailed = g.jailed /\ h.jailTurns = g.jailTurns /\ h.cards = g.cards
      /\ h.bankrupt = g.bankrupt /\ h.owner = g.owner /\ h.level = g.level
      /\ h.mortgaged = g.mortgaged
      BY <1>1, <1>2 DEF States, Phases, TradePhases
<1> HIDE DEF h
<1>4. Turns(h)
      BY <1>2, <1>3 DEF Sound, Turns, Active, Finished
<1>5. Records(h)
      BY <1>2, <1>3 DEF Sound, Records, Finished
<1>6. Prisoners(h)
      BY <1>2, <1>3 DEF Sound, Prisoners, Finished
<1>7. Sound(h) /\ SameTurn(g, h)
      BY <1>2, <1>3, <1>4, <1>5, <1>6, PartsKept DEF Sound, SameTurn, RollPhases
<1>8. QED  BY <1>3, <1>7 DEF h


---------------------------------------------------------------------------
(* Moves *)

(* The player whose turn it is stands somewhere and the move is closed.    *)
Standing(g, p) ==
    Sound(g) /\ g.phase = "awaiting_turn_end" /\ p \in Players /\ g.current = p

LEMMA StandingFacts ==
    ASSUME NEW g, NEW p, Standing(g, p)
    PROVE  /\ g \in States /\ g.pending = None /\ g.auction = None /\ g.debt = None
           /\ p \notin g.bankrupt /\ ~Finished(g)
BY DEF Standing, Sound, Records, Turns, Active, Finished

LEMMA RentNat ==
    ASSUME NEW g \in States, NEW t \in Tiles, g.owner[t] \in Players, NEW dice \in Nat
    PROVE  Rent(g, t, dice) \in Nat
<1>1. g.level[t] \in 0..Hotel
      BY FieldTypes
<1>2. CASE Board[t].kind = "property"
  <2>1. 0 \in 0..Hotel
        BY AmountsAssumption DEF Hotel
  <2>2. \A n \in 0..Hotel : Board[t].rents[n] \in Nat
        BY <1>2, BoardAssumption
  <2>3. 2 * Board[t].rents[0] \in Nat /\ Board[t].rents[g.level[t]] \in Nat
        BY <1>1, <2>1, <2>2
  <2>4. QED  BY <1>2, <2>3 DEF Rent
<1>3. CASE Board[t].kind \in {"airport", "utility"}
  <2> DEFINE owned == Cardinality(SameKind(t) \cap Owned(g, g.owner[t]))
             rent == Board[t].rents[owned]
  <2>1. t \in SameKind(t) \cap Owned(g, g.owner[t]) /\ SameKind(t) \subseteq Tiles
        BY DEF SameKind, Owned
  <2>2. IsFiniteSet(SameKind(t))
        BY <2>1, TilesAssumption, FS_Subset
  <2>3. /\ Cardinality(SameKind(t)) \in Nat /\ owned \in Nat
        /\ owned <= Cardinality(SameKind(t)) /\ owned # 0
        BY <2>1, <2>2, FS_Subset, FS_CardinalityType, FS_EmptySet
  <2>4. owned \in 1..Cardinality(SameKind(t))
        BY <2>3
  <2>5. rent \in Nat
        BY <1>3, <2>4, BoardAssumption
  <2>6. Rent(g, t, dice) = IF Board[t].kind = "airport" THEN rent ELSE dice * rent
        BY <1>3 DEF Rent
  <2> HIDE DEF rent
  <2>7. dice * rent \in Nat
        BY <2>5
  <2>8. QED  BY <2>5, <2>6, <2>7
<1>4. QED  BY <1>2, <1>3, BoardAssumption

LEMMA DebitOrDebtFacts ==
    ASSUME NEW g, NEW p, Standing(g, p), NEW n \in Nat, NEW why \in {"tax", "card"}
    PROVE  Sound(DebitOrDebt(g, p, n, why)) /\ SameTurn(g, DebitOrDebt(g, p, n, why))
<1>1. CASE CanPay(g, p, n)
      BY <1>1, StandingFacts, DebitFacts DEF DebitOrDebt, Standing, Paid
<1>2. CASE ~CanPay(g, p, n)
      BY <1>2, CreateDebtFacts, NoneAssumption DEF DebitOrDebt, Standing
<1>3. QED  BY <1>1, <1>2

LEMMA PayRentFacts ==
    ASSUME NEW g, NEW p, Standing(g, p), NEW t \in Tiles, NEW dice \in Nat
    PROVE  Sound(PayRent(g, p, t, dice)) /\ SameTurn(g, PayRent(g, p, t, dice))
<1>1. CASE g.owner[t] \in {None, p} \/ t \in g.mortgaged
      BY <1>1 DEF PayRent, Standing, SameTurn
<1>2. CASE ~(g.owner[t] \in {None, p} \/ t \in g.mortgaged)
  <2>1. PICK q : q = g.owner[t]
        OBVIOUS
  <2>2. PICK n : n = Rent(g, t, dice)
        OBVIOUS
  <2>3. q \in Players /\ q # p /\ n \in Nat
        BY <1>2, <2>1, <2>2, StandingFacts, FieldTypes, RentNat
  <2>4. PayRent(g, p, t, dice) = TransferOrDebt(g, p, q, n, "rent")
        BY <1>2, <2>1, <2>2 DEF PayRent
  <2>5. CASE CanPay(g, p, n)
        BY <2>3, <2>4, <2>5, StandingFacts, TransferFacts DEF TransferOrDebt, Standing, Paid
  <2>6. CASE ~CanPay(g, p, n)
        BY <2>3, <2>4, <2>6, CreateDebtFacts DEF TransferOrDebt, Standing
  <2>7. QED  BY <2>5, <2>6
<1>3. QED  BY <1>1, <1>2

(* A tile that nobody owns is offered.                                     *)
LEMMA PendingFacts ==
    ASSUME NEW g, NEW p, Standing(g, p), NEW t \in Tiles, g.owner[t] = None
    PROVE  /\ Sound([g EXCEPT !.phase = "awaiting_property_decision", !.pending = t])
           /\ SameTurn(g, [g EXCEPT !.phase = "awaiting_property_decision", !.pending = t])
<1> DEFINE h == [g EXCEPT !.phase = "awaiting_property_decision", !.pending = t]
<1>1. g \in States /\ g.auction = None /\ g.debt = None /\ ~Finished(g) /\ t # None
      BY StandingFacts, NoneAssumption
<1>2. /\ h \in States
      /\ h.phase = "awaiting_property_decision" /\ h.turn = g.turn /\ h.current = g.current
      /\ h.pending = t /\ h.auction = g.auction /\ h.debt = g.debt
      /\ h.offer = g.offer /\ h.deck = g.deck /\ h.cash = g.cash
      /\ h.jailed = g.jailed /\ h.jailTurns = g.jailTurns /\ h.cards = g.cards
      /\ h.bankrupt = g.bankrupt /\ h.owner = g.owner /\ h.level = g.level
      /\ h.mortgaged = g.mortgaged
      BY <1>1, PhaseNames DEF States
<1> HIDE DEF h
<1>3. Turns(h)
      BY <1>1, <1>2 DEF Standing, Sound, Turns, Active, Finished
<1>4. Records(h)
      BY <1>1, <1>2 DEF Standing, Sound, Records, Finished
<1>5. Prisoners(h)
      BY <1>1, <1>2 DEF Standing, Sound, Prisoners, Finished
<1>6. Sound(h) /\ SameTurn(g, h)
      BY <1>1, <1>2, <1>3, <1>4, <1>5, PartsKept DEF Standing, Sound, SameTurn, RollPhases
<1>7. QED  BY <1>6 DEF h

LEMMA ArriveFacts ==
    ASSUME NEW g, NEW p, Standing(g, p), NEW at \in Places, NEW dice \in Nat
    PROVE  Sound(Arrive(g, p, at, dice)) /\ SameTurn(g, Arrive(g, p, at, dice))
<1>1. \/ at.kind = "ownable" /\ at.tile \in Tiles
      \/ at.kind = "tax" \/ at.kind = "go_to_jail" \/ at.kind = "idle"
      BY DEF Places
<1>2. CASE at.kind = "go_to_jail"
  <2>1. Arrive(g, p, at, dice) = SendToJail(g, p)
        BY <1>2 DEF Arrive
  <2>2. QED  BY <2>1, SendToJailFacts DEF Standing
<1>3. CASE at.kind = "tax"
  <2>1. Arrive(g, p, at, dice) = DebitOrDebt(g, p, TaxAmount, "tax")
        BY <1>3 DEF Arrive
  <2>2. QED  BY <2>1, DebitOrDebtFacts, AmountsAssumption
<1>4. CASE at.kind = "idle"
  <2>1. Arrive(g, p, at, dice) = g
        BY <1>4 DEF Arrive
  <2>2. QED  BY <2>1 DEF Standing, SameTurn
<1>5. CASE at.kind = "ownable" /\ at.tile \in Tiles
  <2>1. Arrive(g, p, at, dice) =
            IF g.owner[at.tile] = None
            THEN [g EXCEPT !.phase = "awaiting_property_decision", !.pending = at.tile]
            ELSE PayRent(g, p, at.tile, dice)
        BY <1>5 DEF Arrive
  <2>2. PICK t \in Tiles : t = at.tile
        BY <1>5
  <2>3. CASE g.owner[t] = None
    <3>1. Arrive(g, p, at, dice) =
              [g EXCEPT !.phase = "awaiting_property_decision", !.pending = t]
          BY <2>1, <2>2, <2>3
    <3>2. /\ Sound([g EXCEPT !.phase = "awaiting_property_decision", !.pending = t])
          /\ SameTurn(g, [g EXCEPT !.phase = "awaiting_property_decision", !.pending = t])
          BY <2>3, PendingFacts
    <3>3. QED  BY <3>1, <3>2
  <2>4. CASE g.owner[t] # None
        BY <2>1, <2>2, <2>4, PayRentFacts
  <2>5. QED  BY <2>3, <2>4
<1>6. QED  BY <1>1, <1>2, <1>3, <1>4, <1>5


---------------------------------------------------------------------------
(* Cards *)

LEMMA OthersFacts ==
    ASSUME NEW g \in States, NEW p \in Players
    PROVE  /\ Others(g, p) \subseteq Players /\ p \notin Others(g, p)
           /\ IsFiniteSet(Others(g, p)) /\ Cardinality(Others(g, p)) \in Nat
           /\ Others(g, p) \cap g.bankrupt = {}
<1>1. Others(g, p) \subseteq Players /\ p \notin Others(g, p) /\ Others(g, p) \cap g.bankrupt = {}
      BY DEF Others, Active
<1>2. QED  BY <1>1, PlayersAssumption, FS_Subset, FS_CardinalityType

LEMMA CollectFacts ==
    ASSUME NEW g, NEW p, Standing(g, p)
    PROVE  Sound(CollectFromEach(g, p)) /\ SameTurn(g, CollectFromEach(g, p))
<1>1. g \in States /\ g.auction = None /\ p \in Players
      BY StandingFacts DEF Standing
<1>2. g.cash \in [Players -> Nat]
      BY <1>1, FieldTypes
<1>3. PICK share : share = [q \in Players |-> Min({g.cash[q], CardAmount})]
      OBVIOUS
<1>4. ASSUME NEW q \in Players PROVE share[q] \in Nat /\ share[q] <= g.cash[q]
  <2>1. g.cash[q] \in Nat /\ CardAmount \in Nat
        BY <1>2, AmountsAssumption
  <2>2. /\ Min({g.cash[q], CardAmount}) \in {g.cash[q], CardAmount}
        /\ Min({g.cash[q], CardAmount}) <= g.cash[q]
        BY <2>1, MinFacts
  <2>3. QED  BY <1>3, <2>1, <2>2
<1>5. PICK sum : sum = SumFunctionOnSet(share, Others(g, p))
      OBVIOUS
<1>6. sum \in Nat
      BY <1>1, <1>4, <1>5, OthersFacts, SumNat
<1>7. PICK c : c = [q \in Players |->
                        IF q = p THEN g.cash[p] + sum
                        ELSE IF q \in Others(g, p) THEN g.cash[q] - share[q] ELSE g.cash[q]]
      OBVIOUS
<1>8. c \in [Players -> Nat]
      BY <1>1, <1>2, <1>4, <1>6, <1>7
<1>9. CollectFromEach(g, p) = [g EXCEPT !.cash = c]
      BY <1>3, <1>5, <1>7 DEF CollectFromEach
<1>10. Sound([g EXCEPT !.cash = c]) /\ Paid(g, [g EXCEPT !.cash = c])
      BY <1>1, <1>8, CashFacts DEF Standing
<1>11. QED  BY <1>9, <1>10 DEF Paid

LEMMA PayEachFacts ==
    ASSUME NEW g, NEW p, Standing(g, p)
    PROVE  Sound(PayEach(g, p)) /\ SameTurn(g, PayEach(g, p))
<1>1. g \in States /\ g.auction = None /\ p \in Players
      BY StandingFacts DEF Standing
<1>2. g.cash \in [Players -> Nat] /\ CardAmount \in Nat
      BY <1>1, FieldTypes, AmountsAssumption
<1>3. PICK total : total = Cardinality(Others(g, p)) * CardAmount
      OBVIOUS
<1>4. total \in Nat
      BY <1>1, <1>2, <1>3, OthersFacts
<1>5. CASE CanPay(g, p, total)
  <2>1. PICK c : c = [q \in Players |->
                          IF q = p THEN g.cash[p] - total
                          ELSE IF q \in Others(g, p) THEN g.cash[q] + CardAmount
                          ELSE g.cash[q]]
        OBVIOUS
  <2>2. c \in [Players -> Nat]
        BY <1>1, <1>2, <1>4, <1>5, <2>1 DEF CanPay
  <2>3. PayEach(g, p) = [g EXCEPT !.cash = c]
        BY <1>3, <1>5, <2>1 DEF PayEach
  <2>4. Sound([g EXCEPT !.cash = c]) /\ Paid(g, [g EXCEPT !.cash = c])
        BY <1>1, <2>2, CashFacts DEF Standing
  <2>5. QED  BY <2>3, <2>4 DEF Paid
<1>6. CASE ~CanPay(g, p, total)
  <2>1. PayEach(g, p) = CreateDebt(g, p, None, total, "card")
        BY <1>3, <1>6 DEF PayEach
  <2>2. QED  BY <1>4, <2>1, CreateDebtFacts, NoneAssumption DEF Standing
<1>7. QED  BY <1>5, <1>6

LEMMA RepairsFacts ==
    ASSUME NEW g, NEW p, Standing(g, p)
    PROVE  Sound(Repairs(g, p)) /\ SameTurn(g, Repairs(g, p))
<1>1. g \in States
      BY StandingFacts
<1>2. PICK cost : cost = [t \in Tiles |-> RepairCost(g, t)]
      OBVIOUS
<1>3. ASSUME NEW t \in Tiles PROVE cost[t] \in Nat
  <2>1. g.level[t] \in Nat /\ CardAmount \in Nat /\ HotelRepair \in Nat
        BY <1>1, FieldTypes, AmountsAssumption
  <2>2. CardAmount * g.level[t] \in Nat
        BY <2>1
  <2>3. QED  BY <1>2, <2>1, <2>2 DEF RepairCost
<1>4. Owned(g, p) \subseteq Tiles /\ IsFiniteSet(Owned(g, p))
      BY TilesAssumption, FS_Subset DEF Owned
<1>5. PICK n : n = SumFunctionOnSet(cost, Owned(g, p))
      OBVIOUS
<1>6. n \in Nat
      BY <1>3, <1>4, <1>5, SumNat
<1>7. Repairs(g, p) = DebitOrDebt(g, p, n, "card")
      BY <1>2, <1>5 DEF Repairs
<1>8. QED  BY <1>6, <1>7, DebitOrDebtFacts

(* A free card goes from the deck to the player.                           *)
LEMMA FreeCardFacts ==
    ASSUME NEW g, NEW p, Standing(g, p), NEW c \in g.deck
    PROVE  /\ Sound([g EXCEPT !.cards[p] = @ \cup {c}, !.deck = @ \ {c}])
           /\ SameTurn(g, [g EXCEPT !.cards[p] = @ \cup {c}, !.deck = @ \ {c}])
<1>1. g \in States /\ p \in Players /\ p \notin g.bankrupt
      BY StandingFacts DEF Standing
<1>2. g.cards \in [Players -> SUBSET FreeCards] /\ g.deck \in SUBSET FreeCards
      BY <1>1, FieldTypes
<1>3. PICK k : k = [g.cards EXCEPT ![p] = @ \cup {c}]
      OBVIOUS
<1>4. PICK d : d = g.deck \ {c}
      OBVIOUS
<1>5. /\ k \in [Players -> SUBSET FreeCards] /\ d \in SUBSET FreeCards
      /\ k[p] = g.cards[p] \cup {c} /\ \A q \in Players : q # p => k[q] = g.cards[q]
      BY <1>1, <1>2, <1>3, <1>4
<1> DEFINE h == [g EXCEPT !.cards = k, !.deck = d]
<1>6. [g EXCEPT !.cards[p] = @ \cup {c}, !.deck = @ \ {c}] = h
      BY <1>1, <1>3, <1>4 DEF States
<1>7. /\ h \in States
      /\ h.phase = g.phase /\ h.turn = g.turn /\ h.current = g.current
      /\ h.pending = g.pending /\ h.auction = g.auction /\ h.debt = g.debt
      /\ h.offer = g.offer /\ h.deck = d /\ h.cash = g.cash
      /\ h.jailed = g.jailed /\ h.jailTurns = g.jailTurns /\ h.cards = k
      /\ h.bankrupt = g.bankrupt /\ h.owner = g.owner /\ h.level = g.level
      /\ h.mortgaged = g.mortgaged
      BY <1>1, <1>5 DEF States
<1> HIDE DEF h
<1>8. Holdings(h)
      BY <1>1, <1>2, <1>5, <1>7, FieldTypes DEF Standing, Sound, Holdings
<1>9. Placed(h)
  <2>1. Placed(g)
        BY DEF Standing, Sound
  <2>2. \A q, r \in Players : q # r => k[q] \cap k[r] = {}
        BY <1>1, <1>2, <1>5, <2>1 DEF Placed
  <2>3. \A q \in Players : k[q] \cap d = {}
        BY <1>1, <1>2, <1>4, <1>5, <2>1 DEF Placed
  <2>4. \A b \in FreeCards : b \notin d => \E q \in Players : b \in k[q]
        BY <1>1, <1>2, <1>4, <1>5, <2>1 DEF Placed
  <2>5. QED  BY <1>7, <2>2, <2>3, <2>4 DEF Placed
<1>10. Sound(h) /\ SameTurn(g, h)
      BY <1>7, <1>8, <1>9, PartsKept DEF Standing, Sound, SameTurn
<1>11. QED  BY <1>6, <1>10

(* What can be drawn from a deck with these free cards.                    *)
Drawn(card, deck) ==
    /\ card.effect \in Effects
    /\ card.effect = "get_out_of_jail_free" => card.key \in deck
    /\ card.effect = "move" => card.at \in Places

LEMMA CardsOfFacts ==
    ASSUME NEW g \in States, NEW card \in CardsOf(g)
    PROVE  Drawn(card, g.deck) /\ card # None
<1>1. g.deck \subseteq FreeCards
      BY FieldTypes
<1>2. card \in Cards
      BY <1>1 DEF CardsOf, Cards
<1>3. Drawn(card, g.deck)
      BY DEF CardsOf, Drawn
<1>4. QED  BY <1>2, <1>3, NoCardAssumption


LEMMA ApplyCardFacts ==
    ASSUME NEW g, NEW p, Standing(g, p), NEW card, Drawn(card, g.deck), NEW dice \in Nat
    PROVE  Sound(ApplyCard(g, p, card, dice)) /\ SameTurn(g, ApplyCard(g, p, card, dice))
<1> DEFINE h == ApplyCard(g, p, card, dice)
<1>1. /\ g \in States /\ g.auction = None /\ p \in Players /\ Sound(g)
      /\ g.phase = "awaiting_turn_end" /\ g.current = p
      BY StandingFacts DEF Standing
<1>2. card.effect \in {"collect_money", "pay_money", "go_to_jail", "move",
                       "collect_from_each_player", "pay_each_player",
                       "property_repairs", "get_out_of_jail_free"}
      BY EffectsAssumption DEF Drawn
<1>3. CASE card.effect = "collect_money"
  <2>1. h = Credit(g, p, CardAmount)
        BY <1>3 DEF ApplyCard
  <2>2. QED  BY <1>1, <2>1, BonusFacts DEF Paid
<1>4. CASE card.effect = "pay_money"
  <2>1. h = DebitOrDebt(g, p, CardAmount, "card")
        BY <1>4 DEF ApplyCard
  <2>2. QED  BY <2>1, DebitOrDebtFacts, AmountsAssumption
<1>5. CASE card.effect = "go_to_jail"
  <2>1. h = SendToJail(g, p)
        BY <1>5 DEF ApplyCard
  <2>2. QED  BY <1>1, <2>1, SendToJailFacts
<1>6. CASE card.effect = "move"
  <2>1. h = CardMove(g, p, card, dice)
        BY <1>6 DEF ApplyCard
  <2>2. PICK f : f = IF card.go THEN Credit(g, p, PassGoCash) ELSE g
        OBVIOUS
  <2>3. Standing(f, p) /\ SameTurn(g, f)
    <3>1. CASE card.go
          BY <1>1, <2>2, <3>1, BonusFacts DEF Standing, Paid, SameTurn
    <3>2. CASE ~card.go
          BY <2>2, <3>2 DEF SameTurn
    <3>3. QED  BY <3>1, <3>2
  <2>4. PICK at \in Places : at = card.at
        BY <1>6 DEF Drawn
  <2>5. h = Arrive(f, p, at, dice)
        BY <2>1, <2>2, <2>4 DEF CardMove
  <2>6. Sound(Arrive(f, p, at, dice)) /\ SameTurn(f, Arrive(f, p, at, dice))
        BY <2>3, ArriveFacts
  <2>7. QED  BY <2>3, <2>5, <2>6 DEF SameTurn
<1>7. CASE card.effect = "collect_from_each_player"
  <2>1. h = CollectFromEach(g, p)
        BY <1>7 DEF ApplyCard
  <2>2. QED  BY <2>1, CollectFacts
<1>8. CASE card.effect = "pay_each_player"
  <2>1. h = PayEach(g, p)
        BY <1>8 DEF ApplyCard
  <2>2. QED  BY <2>1, PayEachFacts
<1>9. CASE card.effect = "property_repairs"
  <2>1. h = Repairs(g, p)
        BY <1>9 DEF ApplyCard
  <2>2. QED  BY <2>1, RepairsFacts
<1>10. CASE card.effect = "get_out_of_jail_free"
  <2>1. h = [g EXCEPT !.cards[p] = @ \cup {card.key}, !.deck = @ \ {card.key}]
        BY <1>10 DEF ApplyCard
  <2>2. PICK c \in g.deck : c = card.key
        BY <1>10 DEF Drawn
  <2>3. h = [g EXCEPT !.cards[p] = @ \cup {c}, !.deck = @ \ {c}]
        BY <2>1, <2>2
  <2>4. /\ Sound([g EXCEPT !.cards[p] = @ \cup {c}, !.deck = @ \ {c}])
        /\ SameTurn(g, [g EXCEPT !.cards[p] = @ \cup {c}, !.deck = @ \ {c}])
        BY FreeCardFacts
  <2>5. QED  BY <2>3, <2>4
<1>11. QED  BY <1>2, <1>3, <1>4, <1>5, <1>6, <1>7, <1>8, <1>9, <1>10

---------------------------------------------------------------------------
(* Rolls *)

(* What a roll brings.                                                     *)
Thrown(roll, deck) ==
    /\ roll.dice \in Nat
    /\ roll.card = None => roll.at \in Places
    /\ roll.card # None => Drawn(roll.card, deck)

LEMMA RollsFacts ==
    ASSUME NEW g \in States, NEW roll \in Rolls(g)
    PROVE  Thrown(roll, g.deck)
<1>1. roll.dice \in Nat
      BY InputAssumption DEF Rolls
<1>2. \/ roll.card = None /\ roll.at \in Places
      \/ roll.card \in CardsOf(g)
      BY DEF Rolls
<1>3. QED  BY <1>1, <1>2, CardsOfFacts DEF Thrown

(* What a roll leaves alone, and that it is over.                          *)
Rolled(g, h) == SameTurn(g, h) /\ h.phase \notin RollPhases

LEMMA MoveByFacts ==
    ASSUME NEW g, Sound(g), g.phase \in RollPhases, NEW p \in Players, g.current = p,
           NEW roll, Thrown(roll, g.deck)
    PROVE  Sound(MoveBy(g, p, roll)) /\ Rolled(g, MoveBy(g, p, roll))
<1>1. PICK paid : paid = IF roll.go THEN Credit(g, p, PassGoCash) ELSE g
      OBVIOUS
<1>2. g.auction = None
      BY DEF Sound, Records, RollPhases
<1>3. Sound(paid) /\ SameTurn(g, paid) /\ paid.phase = g.phase /\ paid.deck = g.deck
  <2>1. CASE roll.go
        BY <1>1, <1>2, <2>1, BonusFacts DEF Paid
  <2>2. CASE ~roll.go
        BY <1>1, <2>2 DEF SameTurn
  <2>3. QED  BY <2>1, <2>2
<1>4. PICK moved : moved = [paid EXCEPT !.phase = "awaiting_turn_end", !.pending = None]
      OBVIOUS
<1>5. Sound(moved) /\ SameTurn(paid, moved) /\ moved.phase = "awaiting_turn_end"
      /\ moved.deck = paid.deck
      BY <1>3, <1>4, MovedFacts
<1>6. Standing(moved, p) /\ moved.deck = g.deck /\ SameTurn(g, moved)
      BY <1>3, <1>5 DEF Standing, SameTurn
<1>7. MoveBy(g, p, roll) = IF roll.card # None THEN ApplyCard(moved, p, roll.card, roll.dice)
                           ELSE Arrive(moved, p, roll.at, roll.dice)
      BY <1>1, <1>4 DEF MoveBy
<1>8. PICK dice \in Nat : dice = roll.dice
      BY DEF Thrown
<1>9. CASE roll.card # None
  <2>1. PICK card : card = roll.card
        OBVIOUS
  <2>2. Drawn(card, moved.deck)
        BY <1>6, <1>9, <2>1 DEF Thrown
  <2>3. /\ Sound(ApplyCard(moved, p, card, dice))
        /\ SameTurn(moved, ApplyCard(moved, p, card, dice))
        BY <1>6, <2>2, ApplyCardFacts
  <2>4. QED  BY <1>5, <1>6, <1>7, <1>8, <1>9, <2>1, <2>3 DEF Rolled, SameTurn, RollPhases
<1>10. CASE roll.card = None
  <2>1. PICK at \in Places : at = roll.at
        BY <1>10 DEF Thrown
  <2>2. Sound(Arrive(moved, p, at, dice)) /\ SameTurn(moved, Arrive(moved, p, at, dice))
        BY <1>6, ArriveFacts
  <2>3. QED  BY <1>5, <1>6, <1>7, <1>8, <1>10, <2>1, <2>2 DEF Rolled, SameTurn, RollPhases
<1>11. QED  BY <1>9, <1>10

LEMMA MoveFacts ==
    ASSUME NEW g, Sound(g), g.phase \in RollPhases, NEW p \in Players, g.current = p,
           NEW roll, Thrown(roll, g.deck)
    PROVE  Sound(Move(g, p, roll)) /\ Rolled(g, Move(g, p, roll))
<1>1. CASE roll.doubles /\ g.doubles = 2
      BY <1>1, SendToJailFacts DEF Move, Rolled, RollPhases
<1>2. CASE ~(roll.doubles /\ g.doubles = 2)
  <2>1. PICK h : h = CountDoubles(g, roll)
        OBVIOUS
  <2>2. Sound(h) /\ Recounted(g, h)
        BY <1>2, <2>1, CountDoublesFacts
  <2>3. Sound(MoveBy(h, p, roll)) /\ Rolled(h, MoveBy(h, p, roll))
        BY <2>2, MoveByFacts DEF Recounted, SameTurn
  <2>4. Move(g, p, roll) = MoveBy(h, p, roll)
        BY <1>2, <2>1 DEF Move
  <2>5. QED  BY <2>2, <2>3, <2>4 DEF Recounted, Rolled, SameTurn
<1>3. QED  BY <1>1, <1>2


(* A player who leaves jail moves; its doubles do not count.               *)
LEMMA ReleasedMoveFacts ==
    ASSUME NEW g, Sound(g), g.phase \in RollPhases, NEW p \in Players, g.current = p,
           NEW roll, Thrown(roll, g.deck)
    PROVE  /\ Sound(NoDoubles(MoveBy(NoDoubles(Release(g, p)), p, roll)))
           /\ Rolled(g, NoDoubles(MoveBy(NoDoubles(Release(g, p)), p, roll)))
<1>1. PICK a : a = Release(g, p)
      OBVIOUS
<1>2. Sound(a) /\ SameTurn(g, a) /\ a.phase = g.phase /\ a.deck = g.deck
      BY <1>1, ReleaseFacts
<1>3. PICK b : b = NoDoubles(a)
      OBVIOUS
<1>4. Sound(b) /\ SameTurn(g, b) /\ b.phase = g.phase /\ b.deck = g.deck
      BY <1>2, <1>3, NoDoublesFacts DEF Recounted, SameTurn
<1>5. PICK c : c = MoveBy(b, p, roll)
      OBVIOUS
<1>6. Sound(c) /\ Rolled(g, c)
      BY <1>4, <1>5, MoveByFacts DEF Rolled, SameTurn
<1>7. Sound(NoDoubles(c)) /\ Rolled(g, NoDoubles(c))
      BY <1>6, NoDoublesFacts DEF Recounted, Rolled, SameTurn
<1>8. QED  BY <1>1, <1>3, <1>5, <1>7

(* A failure to roll doubles that does not cost the fine yet.              *)
LEMMA StayInJailFacts ==
    ASSUME NEW g, Sound(g), g.phase \in RollPhases, NEW p \in Players, g.current = p,
           g.jailTurns[p] + 1 < MaxJailTurns
    PROVE  LET h == [g EXCEPT !.jailTurns[p] = @ + 1]
           IN  /\ Sound(NoDoubles([h EXCEPT !.phase = "awaiting_turn_end"]))
               /\ Rolled(g, NoDoubles([h EXCEPT !.phase = "awaiting_turn_end"]))
<1>1. g \in States /\ g.debt = None /\ g.pending = None /\ g.auction = None /\ ~Finished(g)
      BY DEF Sound, Records, RollPhases, Finished
<1>2. PICK j : j = [g.jailTurns EXCEPT ![p] = @ + 1]
      OBVIOUS
<1>3. /\ j \in [Players -> 0..MaxJailTurns] /\ j[p] < MaxJailTurns
      /\ \A q \in Players : q # p => j[q] = g.jailTurns[q]
      BY <1>1, <1>2, FieldTypes, AmountTypes
<1> DEFINE h == [g EXCEPT !.phase = "awaiting_turn_end", !.jailTurns = j]
<1>4. h = [[g EXCEPT !.jailTurns[p] = @ + 1] EXCEPT !.phase = "awaiting_turn_end"]
      BY <1>1, <1>2 DEF States
<1>5. /\ h \in States
      /\ h.phase = "awaiting_turn_end" /\ h.turn = g.turn /\ h.current = g.current
      /\ h.pending = g.pending /\ h.auction = g.auction /\ h.debt = g.debt
      /\ h.offer = g.offer /\ h.deck = g.deck /\ h.cash = g.cash
      /\ h.jailed = g.jailed /\ h.jailTurns = j /\ h.cards = g.cards
      /\ h.bankrupt = g.bankrupt /\ h.owner = g.owner /\ h.level = g.level
      /\ h.mortgaged = g.mortgaged
      BY <1>1, <1>3, PhaseNames DEF States
<1> HIDE DEF h
<1>6. Turns(h)
      BY <1>1, <1>5 DEF Sound, Turns, Active, Finished
<1>7. Records(h)
      BY <1>1, <1>5 DEF Sound, Records, Finished
<1>8. Prisoners(h)
  <2>1. ASSUME NEW q \in g.jailed PROVE ~(j[q] >= MaxJailTurns)
    <3>1. q \in Players /\ g.jailTurns[q] \in Nat /\ MaxJailTurns \in Nat
          BY <1>1, FieldTypes, AmountTypes
    <3>2. ~(g.jailTurns[q] >= MaxJailTurns)
          BY <1>1 DEF Sound, Prisoners
    <3>3. j[q] \in Nat
          BY <1>3, <3>1, AmountTypes
    <3>4. QED  BY <1>3, <3>1, <3>2, <3>3
  <2>2. QED  BY <1>5, <2>1 DEF Prisoners
<1>9. Sound(h) /\ SameTurn(g, h)
      BY <1>1, <1>5, <1>6, <1>7, <1>8, PartsKept DEF Sound, SameTurn, RollPhases
<1>10. QED  BY <1>4, <1>5, <1>9, NoDoublesFacts DEF Recounted, Rolled, SameTurn, RollPhases

(* The last failure of a player who cannot pay the fine.                   *)
LEMMA JailDebtFacts ==
    ASSUME NEW g, Sound(g), g.phase \in RollPhases, NEW p \in Players, g.current = p,
           g.jailTurns[p] < MaxJailTurns
    PROVE  LET h == CreateDebt([g EXCEPT !.jailTurns[p] = @ + 1], p, None, JailFine, "jail_fine")
           IN  Sound(h) /\ Rolled(g, h)
<1>1. g \in States /\ g.debt = None /\ g.pending = None /\ g.auction = None /\ ~Finished(g)
      BY DEF Sound, Records, RollPhases, Finished
<1>2. PICK j : j = [g.jailTurns EXCEPT ![p] = @ + 1]
      OBVIOUS
<1>3. /\ j \in [Players -> 0..MaxJailTurns]
      /\ \A q \in Players : q # p => j[q] = g.jailTurns[q]
      BY <1>1, <1>2, FieldTypes, AmountTypes
<1>4. PICK d : d = [by |-> p, to |-> None, amount |-> JailFine, reason |-> "jail_fine"]
      OBVIOUS
<1>5. d \in Debts /\ d # None /\ d.by = p /\ d.to # p /\ d.reason = "jail_fine"
      BY <1>4, AmountTypes, NoneAssumption DEF Debts
<1>6. PICK b \in BOOLEAN : b = FALSE
      OBVIOUS
<1> DEFINE h == [g EXCEPT !.phase = "awaiting_debt_resolution", !.again = b,
                          !.jailTurns = j, !.debt = d]
<1>7. CreateDebt([g EXCEPT !.jailTurns[p] = @ + 1], p, None, JailFine, "jail_fine") = h
      BY <1>1, <1>2, <1>4, <1>6 DEF CreateDebt, States
<1>8. /\ h \in States
      /\ h.phase = "awaiting_debt_resolution" /\ h.turn = g.turn /\ h.current = g.current
      /\ h.pending = g.pending /\ h.auction = g.auction /\ h.debt = d
      /\ h.offer = g.offer /\ h.deck = g.deck /\ h.cash = g.cash
      /\ h.jailed = g.jailed /\ h.jailTurns = j /\ h.cards = g.cards
      /\ h.bankrupt = g.bankrupt /\ h.owner = g.owner /\ h.level = g.level
      /\ h.mortgaged = g.mortgaged
      BY <1>1, <1>3, <1>5, PhaseNames DEF States
<1> HIDE DEF h
<1>9. Turns(h)
      BY <1>1, <1>8 DEF Sound, Turns, Active, Finished
<1>10. Records(h)
      BY <1>1, <1>5, <1>8 DEF Sound, Records, Finished
<1>11. Prisoners(h)
  <2>1. ASSUME NEW q \in g.jailed, q # p PROVE ~(j[q] >= MaxJailTurns)
    <3>1. q \in Players
          BY <1>1, FieldTypes
    <3>2. QED  BY <1>1, <1>3, <2>1, <3>1 DEF Sound, Prisoners
  <2>2. QED  BY <1>5, <1>8, <2>1 DEF Prisoners
<1>12. Sound(h) /\ SameTurn(g, h)
      BY <1>1, <1>8, <1>9, <1>10, <1>11, PartsKept DEF Sound, SameTurn, RollPhases
<1>13. QED  BY <1>7, <1>8, <1>12 DEF Rolled, RollPhases

LEMMA JailedRollFacts ==
    ASSUME NEW g, Sound(g), NEW p \in Players, CanRoll(g, p), p \in g.jailed,
           NEW roll, Thrown(roll, g.deck), roll.doubles \in BOOLEAN
    PROVE  Sound(JailedRoll(g, p, roll)) /\ Rolled(g, JailedRoll(g, p, roll))
<1>1. g \in States /\ g.phase \in RollPhases /\ g.current = p /\ p \notin g.bankrupt
      BY DEF CanRoll, IsCurrentTurn, Sound
<1>2. g.auction = None /\ g.debt = None /\ ~Finished(g)
      BY <1>1 DEF Sound, Records, RollPhases, Finished
<1>3. PICK f : f = [g EXCEPT !.jailTurns[p] = @ + 1]
      OBVIOUS
<1>4. /\ f.jailTurns[p] = g.jailTurns[p] + 1 /\ f.cash = g.cash
      /\ g.jailTurns[p] \in Nat /\ MaxJailTurns \in Nat
      BY <1>1, <1>3, AmountTypes DEF States
<1>5. g.jailTurns[p] < MaxJailTurns
      BY <1>2, <1>4 DEF Sound, Prisoners
<1>6. CASE roll.doubles
  <2>1. JailedRoll(g, p, roll) = NoDoubles(MoveBy(NoDoubles(Release(g, p)), p, roll))
        BY <1>6 DEF JailedRoll
  <2>2. QED  BY <1>1, <2>1, ReleasedMoveFacts
<1>7. CASE ~roll.doubles /\ f.jailTurns[p] < MaxJailTurns
  <2>1. JailedRoll(g, p, roll) = NoDoubles([f EXCEPT !.phase = "awaiting_turn_end"])
        BY <1>3, <1>4, <1>7 DEF JailedRoll
  <2>2. QED  BY <1>1, <1>3, <1>4, <1>7, <2>1, StayInJailFacts
<1>8. CASE ~roll.doubles /\ f.jailTurns[p] >= MaxJailTurns /\ CanPay(g, p, JailFine)
  <2>1. PICK paid : paid = Debit(g, p, JailFine)
        OBVIOUS
  <2>2. \A n \in Nat : CanPay(g, p, n) => Sound(Debit(g, p, n)) /\ Paid(g, Debit(g, p, n))
        BY <1>2, DebitFacts
  <2>3. Sound(paid) /\ Paid(g, paid)
        BY <1>8, <2>1, <2>2, AmountTypes
  <2>4. Release(Debit(f, p, JailFine), p) = Release(paid, p)
    <3>1. PICK c, j, z :
            /\ c = [g.cash EXCEPT ![p] = @ - JailFine]
            /\ j = [g.jailTurns EXCEPT ![p] = @ + 1]
            /\ z = [g.jailTurns EXCEPT ![p] = 0]
          OBVIOUS
    <3>2. z = [j EXCEPT ![p] = 0]
          BY <1>1, <3>1, FieldTypes
    <3>3. PICK d : d = Debit(f, p, JailFine)
          OBVIOUS
    <3>4. paid = [g EXCEPT !.cash = c] /\ paid.jailTurns = g.jailTurns
          BY <1>1, <2>1, <3>1 DEF Debit, States
    <3>5. d = [g EXCEPT !.cash = c, !.jailTurns = j]
          BY <1>1, <1>3, <3>1, <3>3 DEF Debit, States
    <3>6. Release(paid, p) = [g EXCEPT !.cash = c, !.jailed = @ \ {p}, !.jailTurns = z]
          BY <1>1, <3>1, <3>4 DEF Release, States
    <3>7. Release(d, p) = [g EXCEPT !.cash = c, !.jailed = @ \ {p}, !.jailTurns = z]
          BY <1>1, <3>2, <3>5 DEF Release, States
    <3>8. QED  BY <3>3, <3>6, <3>7
  <2>5. JailedRoll(g, p, roll) = NoDoubles(MoveBy(NoDoubles(Release(paid, p)), p, roll))
        BY <1>3, <1>4, <1>8, <2>4 DEF JailedRoll
  <2>6. /\ Sound(NoDoubles(MoveBy(NoDoubles(Release(paid, p)), p, roll)))
        /\ Rolled(paid, NoDoubles(MoveBy(NoDoubles(Release(paid, p)), p, roll)))
        BY <1>1, <2>3, ReleasedMoveFacts DEF Paid, SameTurn
  <2>7. QED  BY <2>3, <2>5, <2>6 DEF Paid, Rolled, SameTurn
<1>9. CASE ~roll.doubles /\ f.jailTurns[p] >= MaxJailTurns /\ ~CanPay(g, p, JailFine)
  <2>1. JailedRoll(g, p, roll) = CreateDebt(f, p, None, JailFine, "jail_fine")
        BY <1>3, <1>4, <1>9 DEF JailedRoll
  <2>2. QED  BY <1>1, <1>3, <1>5, <2>1, JailDebtFacts
<1>10. QED  BY <1>4, <1>6, <1>7, <1>8, <1>9

LEMMA RollFacts ==
    ASSUME NEW g, Sound(g), NEW p \in Players, CanRoll(g, p), NEW roll \in Rolls(g)
    PROVE  Sound(RollAndMove(g, p, roll)) /\ Rolled(g, RollAndMove(g, p, roll))
<1>1. g.phase \in RollPhases /\ g.current = p /\ g \in States
      BY DEF CanRoll, IsCurrentTurn, Sound
<1>2. Thrown(roll, g.deck)
      BY <1>1, RollsFacts
<1>3. roll.doubles \in BOOLEAN
      BY DEF Rolls
<1>4. QED  BY <1>1, <1>2, <1>3, JailedRollFacts, MoveFacts DEF RollAndMove


---------------------------------------------------------------------------
(* Seats *)

(* The next seat is the least one above, or the least one of all.          *)
LEMMA SeatAfterFacts ==
    ASSUME NEW S, S \subseteq Players, S # {}, NEW p \in Players
    PROVE  /\ SeatAfter(S, p) \in S
           /\ (\E x \in S : x > p) =>
                 SeatAfter(S, p) > p /\ \A x \in S : x > p => SeatAfter(S, p) <= x
           /\ ~(\E x \in S : x > p) => \A x \in S : SeatAfter(S, p) <= x
<1>1. S \subseteq Nat /\ p \in Nat
      BY PlayersAssumption
<1>2. PICK later : later = {q \in S : q > p}
      OBVIOUS
<1>3. SeatAfter(S, p) = IF later # {} THEN Min(later) ELSE Min(S)
      BY <1>2 DEF SeatAfter
<1>4. CASE later # {}
  <2>1. later \subseteq Nat
        BY <1>1, <1>2
  <2>2. Min(later) \in later /\ \A y \in later : Min(later) <= y
        BY <1>4, <2>1, MinFacts
  <2>3. QED  BY <1>2, <1>3, <1>4, <2>2
<1>5. CASE later = {}
  <2>1. Min(S) \in S /\ \A y \in S : Min(S) <= y
        BY <1>1, MinFacts
  <2>2. QED  BY <1>2, <1>3, <1>5, <2>1
<1>6. QED  BY <1>4, <1>5

(* It is another seat, if there is one.                                    *)
LEMMA SeatAfterOther ==
    ASSUME NEW S, S \subseteq Players, NEW p \in S, S # {p}
    PROVE  SeatAfter(S, p) \in S \ {p}
<1>1. S \subseteq Nat /\ p \in Players /\ S # {}
      BY PlayersAssumption
<1>2. PICK q \in S : q # p
      OBVIOUS
<1>3. CASE \E x \in S : x > p
  <2>1. SeatAfter(S, p) \in S /\ SeatAfter(S, p) > p
        BY <1>1, <1>3, SeatAfterFacts
  <2>2. QED  BY <1>1, <2>1
<1>4. CASE ~\E x \in S : x > p
  <2>1. q < p
        BY <1>1, <1>2, <1>4
  <2>2. SeatAfter(S, p) \in S /\ SeatAfter(S, p) <= q
        BY <1>1, <1>4, SeatAfterFacts
  <2>3. QED  BY <1>1, <2>1, <2>2
<1>5. QED  BY <1>3, <1>4

(* When the seat after h gets up, the seat after it is the one after h.    *)
LEMMA SeatAfterSkip ==
    ASSUME NEW S, S \subseteq Players, NEW h \in S, NEW p, p = SeatAfter(S, h), p # h,
           S \ {p} # {h}
    PROVE  SeatAfter(S \ {p}, p) = SeatAfter(S \ {p}, h)
<1>1. PICK T : T = S \ {p}
      OBVIOUS
<1>2. S \subseteq Nat /\ h \in T /\ T \subseteq Players /\ h \in Players /\ h \in Nat
      BY <1>1, PlayersAssumption
<1>3. /\ p \in S
      /\ (\E x \in S : x > h) => p > h /\ \A x \in S : x > h => p <= x
      /\ ~(\E x \in S : x > h) => \A x \in S : p <= x
      BY <1>2, SeatAfterFacts
<1>4. p \in Players /\ p \in Nat
      BY <1>2, <1>3
<1>5. PICK a, b : a = SeatAfter(T, p) /\ b = SeatAfter(T, h)
      OBVIOUS
<1>6. /\ a \in T
      /\ (\E x \in T : x > p) => a > p /\ \A x \in T : x > p => a <= x
      /\ ~(\E x \in T : x > p) => \A x \in T : a <= x
      BY <1>2, <1>4, <1>5, SeatAfterFacts
<1>7. /\ b \in T \ {h}
      /\ (\E x \in T : x > h) => b > h /\ \A x \in T : x > h => b <= x
      /\ ~(\E x \in T : x > h) => \A x \in T : b <= x
      BY <1>1, <1>2, <1>5, SeatAfterOther, SeatAfterFacts
<1>8. ASSUME NEW x \in T PROVE x \in S /\ x # p /\ x \in Nat
      BY <1>1, <1>2
<1>9. a \in Nat /\ b \in Nat
      BY <1>6, <1>7, <1>8
<1>10. CASE \E x \in S : x > h
  <2>1. p > h /\ \A x \in S : x > h => p <= x
        BY <1>3, <1>10
  <2>2. ASSUME NEW x \in T PROVE x > h <=> x > p
        BY <1>2, <1>4, <1>8, <2>1
  <2>3. CASE \E x \in T : x > p
    <3>1. /\ a > p /\ \A x \in T : x > p => a <= x
          /\ b > h /\ \A x \in T : x > h => b <= x
          BY <1>6, <1>7, <2>2, <2>3
    <3>2. a <= b /\ b <= a
          BY <1>6, <1>7, <2>2, <3>1
    <3>3. QED  BY <1>1, <1>5, <1>9, <3>2
  <2>4. CASE ~\E x \in T : x > p
    <3>1. \A x \in T : a <= x /\ b <= x
          BY <1>6, <1>7, <2>2, <2>4
    <3>2. a <= b /\ b <= a
          BY <1>6, <1>7, <3>1
    <3>3. QED  BY <1>1, <1>5, <1>9, <3>2
  <2>5. QED  BY <2>3, <2>4
<1>11. CASE ~\E x \in S : x > h
  <2>1. \A x \in S : p <= x
        BY <1>3, <1>11
  <2>2. ~\E x \in T : x > h
        BY <1>8, <1>11
  <2>3. \A x \in T : x > p
        BY <1>4, <1>8, <2>1
  <2>4. \A x \in T : a <= x /\ b <= x
        BY <1>6, <1>7, <2>2, <2>3
  <2>5. a <= b /\ b <= a
        BY <1>6, <1>7, <2>4
  <2>6. QED  BY <1>1, <1>5, <1>9, <2>5
<1>12. QED  BY <1>10, <1>11


---------------------------------------------------------------------------
(* Property decision and auction *)

LEMMA SettledUpdate ==
    ASSUME NEW g \in States, NEW x \in Phases, NEW y \in Tiles \cup {None},
           NEW a \in Auctions \cup {None}, NEW w \in [Tiles -> Players \cup {None}]
    PROVE  [g EXCEPT !.phase = x, !.pending = y, !.auction = a, !.owner = w] \in States
BY DEF States

(* The offered or auctioned tile finds an owner, or none, and the player   *)
(* whose turn it is may go on.                                             *)
LEMMA SettledFacts ==
    ASSUME NEW g, Sound(g),
           g.phase \in {"awaiting_property_decision", "awaiting_auction_bid"},
           NEW t \in Tiles, g.owner[t] = None,
           NEW q \in (Players \ g.bankrupt) \cup {None}
    PROVE  LET h == [g EXCEPT !.phase = "awaiting_turn_end", !.pending = None,
                              !.auction = None, !.owner[t] = q]
           IN  Sound(h) /\ SameTurn(g, h)
<1>1. g \in States /\ g.debt = None /\ ~Finished(g)
      BY DEF Sound, Records, Finished
<1>2. PICK w : w = [g.owner EXCEPT ![t] = q]
      OBVIOUS
<1>3. w \in [Tiles -> Players \cup {None}] /\ \A u \in Tiles : w[u] \in {q, g.owner[u]}
      BY <1>1, <1>2, FieldTypes
<1> DEFINE h == [g EXCEPT !.phase = "awaiting_turn_end", !.pending = None,
                          !.auction = None, !.owner = w]
<1>4. h = [g EXCEPT !.phase = "awaiting_turn_end", !.pending = None,
                    !.auction = None, !.owner[t] = q]
      BY <1>1, <1>2 DEF States
<1>a. h \in States
  <2>1. PICK x \in Phases, y \in Tiles \cup {None}, a \in Auctions \cup {None} :
            x = "awaiting_turn_end" /\ y = None /\ a = None
        BY PhaseNames
  <2>2. [g EXCEPT !.phase = x, !.pending = y, !.auction = a, !.owner = w] \in States
        BY <1>1, <1>3, SettledUpdate
  <2>3. QED  BY <2>1, <2>2
<1>5. /\ h \in States
      /\ h.phase = "awaiting_turn_end" /\ h.turn = g.turn /\ h.current = g.current
      /\ h.pending = None /\ h.auction = None /\ h.debt = g.debt
      /\ h.offer = g.offer /\ h.deck = g.deck /\ h.cash = g.cash
      /\ h.jailed = g.jailed /\ h.jailTurns = g.jailTurns /\ h.cards = g.cards
      /\ h.bankrupt = g.bankrupt /\ h.owner = w /\ h.level = g.level
      /\ h.mortgaged = g.mortgaged
      BY <1>1, <1>a DEF States
<1> HIDE DEF h
<1>6. Turns(h)
      BY <1>1, <1>5 DEF Sound, Turns, Active, Finished
<1>7. Records(h)
      BY <1>1, <1>5 DEF Sound, Records, Finished
<1>8. Prisoners(h)
      BY <1>1, <1>5 DEF Sound, Prisoners, Finished
<1>9. Penniless(h)
      BY <1>5 DEF Penniless
<1>10. Holdings(h)
  <2>1. g.bankrupt \in SUBSET Players
        BY <1>1, FieldTypes
  <2>2. ASSUME NEW p \in g.bankrupt, NEW u \in Tiles PROVE w[u] # p
        BY <1>3, <2>1, NoneAssumption DEF Sound, Holdings
  <2>3. QED  BY <1>5, <2>2 DEF Sound, Holdings
<1>11. Bare(h)
  <2>1. \A u \in Tiles : w[u] = None => g.owner[u] = None
        BY <1>1, <1>2, FieldTypes
  <2>2. QED  BY <1>5, <2>1 DEF Sound, Bare
<1>12. Sound(h) /\ SameTurn(g, h)
      BY <1>1, <1>5, <1>6, <1>7, <1>8, <1>9, <1>10, <1>11, PartsKept
      DEF Sound, SameTurn, RollPhases
<1>13. QED  BY <1>4, <1>12

LEMMA BuyFacts ==
    ASSUME NEW g, Sound(g), NEW p \in Players, CanBuy(g, p)
    PROVE  Sound(BuyProperty(g, p)) /\ SameTurn(g, BuyProperty(g, p))
<1>1. /\ g \in States /\ g.phase = "awaiting_property_decision" /\ g.auction = None
      /\ g.pending \in Tiles /\ p \notin g.bankrupt
      BY FieldTypes DEF CanBuy, CanDecide, IsCurrentTurn, Sound, Records
<1>2. PICK t \in Tiles : t = g.pending
      BY <1>1
<1>3. PICK n \in Nat : n = Board[t].price
      BY BoardAssumption
<1>4. PICK paid : paid = Debit(g, p, n)
      OBVIOUS
<1>5. Sound(paid) /\ Paid(g, paid)
      BY <1>1, <1>2, <1>3, <1>4, DebitFacts DEF CanBuy
<1>6. /\ p \in (Players \ paid.bankrupt) \cup {None} /\ paid.auction = None /\ paid \in States
      /\ paid.owner[t] = None
      BY <1>1, <1>2, <1>5 DEF Paid, SameTurn, Sound, Records
<1>7. BuyProperty(g, p) = [paid EXCEPT !.phase = "awaiting_turn_end", !.pending = None,
                                       !.auction = None, !.owner[t] = p]
  <2>1. BuyProperty(g, p) = [paid EXCEPT !.phase = "awaiting_turn_end", !.pending = None,
                                         !.owner[t] = p]
        BY <1>2, <1>3, <1>4 DEF BuyProperty
  <2>2. QED  BY <1>6, <2>1 DEF States
<1>8. PICK h : h = [paid EXCEPT !.phase = "awaiting_turn_end", !.pending = None,
                                !.auction = None, !.owner[t] = p]
      OBVIOUS
<1>9. Sound(h) /\ SameTurn(paid, h)
      BY <1>1, <1>5, <1>6, <1>8, SettledFacts DEF Paid
<1>10. QED  BY <1>5, <1>7, <1>8, <1>9 DEF Paid, SameTurn

(* Somebody is to bid in the auction.                                      *)
LEMMA AuctionFacts ==
    ASSUME NEW g, Sound(g),
           g.phase \in {"awaiting_property_decision", "awaiting_auction_bid"},
           NEW a \in Auctions, Bidding(a), g.owner[a.tile] = None,
           \A p \in a.active \cap g.bankrupt : g.cash[p] = 0
    PROVE  LET h == [g EXCEPT !.phase = "awaiting_auction_bid", !.pending = None,
                              !.auction = a]
           IN  Sound(h) /\ SameTurn(g, h)
<1> DEFINE h == [g EXCEPT !.phase = "awaiting_auction_bid", !.pending = None, !.auction = a]
<1>1. g \in States /\ g.debt = None /\ ~Finished(g) /\ a # None
      BY NoneAssumption DEF Sound, Records, Finished
<1>2. /\ h \in States
      /\ h.phase = "awaiting_auction_bid" /\ h.turn = g.turn /\ h.current = g.current
      /\ h.pending = None /\ h.auction = a /\ h.debt = g.debt
      /\ h.offer = g.offer /\ h.deck = g.deck /\ h.cash = g.cash
      /\ h.jailed = g.jailed /\ h.jailTurns = g.jailTurns /\ h.cards = g.cards
      /\ h.bankrupt = g.bankrupt /\ h.owner = g.owner /\ h.level = g.level
      /\ h.mortgaged = g.mortgaged
      BY <1>1, PhaseNames DEF States
<1> HIDE DEF h
<1>3. Turns(h)
      BY <1>1, <1>2 DEF Sound, Turns, Active, Finished
<1>4. Records(h)
      BY <1>1, <1>2 DEF Sound, Records, Finished
<1>5. Prisoners(h)
      BY <1>1, <1>2 DEF Sound, Prisoners, Finished
<1>6. Penniless(h)
      BY <1>2 DEF Penniless
<1>7. Sound(h) /\ SameTurn(g, h)
      BY <1>1, <1>2, <1>3, <1>4, <1>5, <1>6, PartsKept DEF Sound, SameTurn, RollPhases
<1>8. QED  BY <1>7 DEF h

LEMMA DeclineFacts ==
    ASSUME NEW g, Sound(g), NEW p \in Players, CanDecide(g, p)
    PROVE  Sound(Decline(g)) /\ SameTurn(g, Decline(g))
<1>1. /\ g \in States /\ g.phase = "awaiting_property_decision"
      /\ g.pending \in Tiles /\ g.owner[g.pending] = None /\ p \in Active(g)
      BY FieldTypes DEF CanDecide, IsCurrentTurn, Sound, Active
<1>2. PICK m : m = Min(Active(g))
      OBVIOUS
<1>3. m \in Active(g) /\ Active(g) \subseteq Players
      BY <1>1, <1>2, MinFacts, PlayersAssumption DEF Active
<1>4. PICK a : a = [tile |-> g.pending, bid |-> 0, highest |-> None, bidder |-> m,
                    active |-> Active(g), passed |-> {}]
      OBVIOUS
<1>5. /\ a \in Auctions /\ a.tile = g.pending /\ a.bid = 0 /\ a.highest = None /\ a.bidder = m
      /\ a.active = Active(g) /\ a.passed = {}
      BY <1>1, <1>3, <1>4 DEF Auctions
<1>6. Bidding(a)
      BY <1>3, <1>5, NoneAssumption DEF Bidding, Remaining
<1>7. a.active \cap g.bankrupt = {}
      BY <1>5 DEF Active
<1>8. Decline(g) = [g EXCEPT !.phase = "awaiting_auction_bid", !.pending = None, !.auction = a]
      BY <1>2, <1>4 DEF Decline
<1>9. /\ g.owner[a.tile] = None /\ \A q \in a.active \cap g.bankrupt : g.cash[q] = 0
      /\ g.phase \in {"awaiting_property_decision", "awaiting_auction_bid"}
      BY <1>1, <1>5, <1>7
<1>10. PICK h : h = [g EXCEPT !.phase = "awaiting_auction_bid", !.pending = None,
                              !.auction = a]
      OBVIOUS
<1>11. Sound(h) /\ SameTurn(g, h)
      BY <1>5, <1>6, <1>9, <1>10, AuctionFacts
<1>12. QED  BY <1>8, <1>10, <1>11


(* What an auction is in a sound state.                                    *)
LEMMA InAuctionFacts ==
    ASSUME NEW g, Sound(g), InAuction(g)
    PROVE  /\ g \in States /\ g.auction \in Auctions /\ Bidding(g.auction)
           /\ g.auction.tile \in Tiles /\ g.owner[g.auction.tile] = None
           /\ g.auction.bid \in Nat /\ g.auction.highest \in Players \cup {None}
           /\ g.auction.bidder \in Players /\ g.auction.bidder = CurrentBidder(g.auction)
           /\ g.auction.active \subseteq Players /\ Remaining(g.auction) \subseteq Players
           /\ \A p \in g.auction.active \cap g.bankrupt : g.cash[p] = 0
<1>1. /\ g \in States /\ g.auction \in Auctions /\ Bidding(g.auction)
      /\ g.owner[g.auction.tile] = None
      /\ \A p \in g.auction.active \cap g.bankrupt : g.cash[p] = 0
      BY FieldTypes DEF InAuction, Sound, Records, Penniless
<1>2. /\ g.auction.tile \in Tiles /\ g.auction.bid \in Nat
      /\ g.auction.highest \in Players \cup {None}
      /\ g.auction.active \subseteq Players /\ Remaining(g.auction) \subseteq Players
      BY <1>1 DEF Auctions, Remaining
<1>3. g.auction.bidder \in Remaining(g.auction)
      BY <1>1 DEF Bidding
<1>4. QED  BY <1>1, <1>2, <1>3 DEF CurrentBidder

(* The highest bidder pays, and the tile is its.                           *)
LEMMA WinFacts ==
    ASSUME NEW g, Sound(g), InAuction(g), NEW a, a.tile = g.auction.tile,
           NEW q \in Players \ g.bankrupt, a.highest = q, a.bid \in Nat, CanPay(g, q, a.bid)
    PROVE  Sound(Win(g, a)) /\ SameTurn(g, Win(g, a))
<1>1. PICK t \in Tiles : t = a.tile
      BY InAuctionFacts
<1>2. PICK n \in Nat : n = a.bid
      OBVIOUS
<1>3. PICK paid : paid = Debit(g, q, n)
      OBVIOUS
<1>4. Sound(paid) /\ Paid(g, paid)
      BY <1>2, <1>3, DebitFacts
<1>5. /\ q \in (Players \ paid.bankrupt) \cup {None} /\ paid.pending = None /\ paid \in States
      /\ paid.phase = "awaiting_auction_bid"
      BY <1>4 DEF Paid, SameTurn, Sound, InAuction, Records
<1>6. Win(g, a) = [paid EXCEPT !.phase = "awaiting_turn_end", !.pending = None,
                               !.auction = None, !.owner[t] = q]
  <2>1. Win(g, a) = [paid EXCEPT !.phase = "awaiting_turn_end", !.auction = None,
                                 !.owner[t] = q]
        BY <1>1, <1>2, <1>3 DEF Win
  <2>2. QED  BY <1>5, <2>1 DEF States
<1>7. PICK h : h = [paid EXCEPT !.phase = "awaiting_turn_end", !.pending = None,
                                !.auction = None, !.owner[t] = q]
      OBVIOUS
<1>8. paid.owner[t] = None
      BY <1>1, <1>4 DEF Paid, Sound, InAuction, Records
<1>9. Sound(h) /\ SameTurn(paid, h)
      BY <1>4, <1>5, <1>7, <1>8, SettledFacts
<1>10. QED  BY <1>4, <1>6, <1>7, <1>9 DEF Paid, SameTurn

LEMMA WithoutWinnerFacts ==
    ASSUME NEW g, Sound(g), InAuction(g), NEW a, a.tile = g.auction.tile
    PROVE  Sound(WithoutWinner(g, a)) /\ SameTurn(g, WithoutWinner(g, a))
<1>1. PICK t \in Tiles : t = a.tile
      BY InAuctionFacts
<1>2. /\ g.pending = None /\ g \in States /\ g.phase = "awaiting_auction_bid"
      /\ g.owner[t] = None
      BY <1>1 DEF Sound, InAuction, Records
<1>3. WithoutWinner(g, a) = [g EXCEPT !.phase = "awaiting_turn_end", !.pending = None,
                                      !.auction = None, !.owner[t] = None]
      BY <1>1, <1>2 DEF WithoutWinner, States
<1>4. PICK h : h = [g EXCEPT !.phase = "awaiting_turn_end", !.pending = None,
                             !.auction = None, !.owner[t] = None]
      OBVIOUS
<1>5. Sound(h) /\ SameTurn(g, h)
      BY <1>2, <1>4, SettledFacts
<1>6. QED  BY <1>3, <1>4, <1>5

(* The auction goes on.                                                    *)
LEMMA NextBidFacts ==
    ASSUME NEW g, Sound(g), InAuction(g), NEW a \in Auctions, Bidding(a),
           a.tile = g.auction.tile, a.active = g.auction.active
    PROVE  Sound([g EXCEPT !.auction = a]) /\ SameTurn(g, [g EXCEPT !.auction = a])
<1>1. g.pending = None /\ g \in States /\ g.phase = "awaiting_auction_bid"
      BY DEF Sound, InAuction, Records
<1>2. [g EXCEPT !.auction = a] =
          [g EXCEPT !.phase = "awaiting_auction_bid", !.pending = None, !.auction = a]
      BY <1>1 DEF States
<1>3. PICK h : h = [g EXCEPT !.phase = "awaiting_auction_bid", !.pending = None,
                             !.auction = a]
      OBVIOUS
<1>4. g.owner[a.tile] = None /\ \A p \in a.active \cap g.bankrupt : g.cash[p] = 0
      BY InAuctionFacts
<1>5. Sound(h) /\ SameTurn(g, h)
      BY <1>1, <1>3, <1>4, AuctionFacts
<1>6. QED  BY <1>2, <1>3, <1>5

LEMMA BidFacts ==
    ASSUME NEW g, Sound(g), NEW p \in Players, NEW n \in Nat, CanBid(g, p, n)
    PROVE  Sound(PlaceBid(g, p, n)) /\ SameTurn(g, PlaceBid(g, p, n))
<1>1. InAuction(g) /\ CanPay(g, p, n) /\ n >= MinimumBid(g.auction)
      BY DEF CanBid
<1>2. PICK o : o = g.auction
      OBVIOUS
<1>3. /\ g \in States /\ o \in Auctions /\ Bidding(o) /\ o.tile \in Tiles /\ o.bid \in Nat
      /\ o.bidder = p /\ Remaining(o) \subseteq Players
      /\ \A q \in o.active \cap g.bankrupt : g.cash[q] = 0
      BY <1>1, <1>2, InAuctionFacts DEF CanBid
<1>4. p \in Remaining(o) /\ p # None
      BY <1>3, NoneAssumption DEF Bidding
<1>5. n > 0
      BY <1>1, <1>2, <1>3, AmountTypes DEF MinimumBid
<1>6. p \notin g.bankrupt
  <2>1. g.cash[p] >= n /\ g.cash[p] \in Nat
        BY <1>1, <1>3, FieldTypes DEF CanPay
  <2>2. g.cash[p] # 0
        BY <1>5, <2>1
  <2>3. QED  BY <1>3, <1>4, <2>2 DEF Remaining
<1>7. PICK bid : bid = [o EXCEPT !.bid = n, !.highest = p]
      OBVIOUS
<1>8. PICK b : b = NextBidder(bid, p)
      OBVIOUS
<1>9. PICK a : a = [bid EXCEPT !.bidder = b]
      OBVIOUS
<1>10. /\ a.tile = o.tile /\ a.active = o.active /\ a.passed = o.passed
       /\ a.bid = n /\ a.highest = p /\ a.bidder = b
       /\ bid.highest = p /\ bid.active = o.active /\ bid.passed = o.passed
      BY <1>3, <1>7, <1>9 DEF Auctions
<1>11. Remaining(a) = Remaining(o) /\ Remaining(bid) = Remaining(o)
      BY <1>10 DEF Remaining
<1>12. PlaceBid(g, p, n) = IF a.bidder = None THEN Win(g, a) ELSE [g EXCEPT !.auction = a]
      BY <1>2, <1>7, <1>8, <1>9 DEF PlaceBid
<1>13. CASE Remaining(o) = {p}
  <2>1. a.bidder = None
        BY <1>8, <1>10, <1>11, <1>13 DEF NextBidder
  <2>2. Sound(Win(g, a)) /\ SameTurn(g, Win(g, a))
        BY <1>1, <1>2, <1>6, <1>10, WinFacts
  <2>3. QED  BY <1>12, <2>1, <2>2
<1>14. CASE Remaining(o) # {p}
  <2>1. b = SeatAfter(Remaining(o), p)
        BY <1>4, <1>8, <1>10, <1>11, <1>14 DEF NextBidder
  <2>2. b \in Remaining(o) \ {p}
        BY <1>3, <1>4, <1>14, <2>1, SeatAfterOther
  <2>3. b \in Players /\ a.bidder # None
        BY <1>3, <1>10, <2>2, NoneAssumption
  <2>4. a \in Auctions
        BY <1>3, <1>7, <1>9, <2>3 DEF Auctions
  <2>5. Bidding(a)
        BY <1>4, <1>5, <1>10, <1>11, <2>1, <2>2 DEF Bidding
  <2>6. Sound([g EXCEPT !.auction = a]) /\ SameTurn(g, [g EXCEPT !.auction = a])
        BY <1>1, <1>2, <1>10, <2>4, <2>5, NextBidFacts
  <2>7. QED  BY <1>12, <2>3, <2>6
<1>15. QED  BY <1>13, <1>14

LEMMA PassFacts ==
    ASSUME NEW g, Sound(g), NEW p \in Players, CanPass(g, p)
    PROVE  Sound(PassBid(g, p)) /\ SameTurn(g, PassBid(g, p))
<1>1. InAuction(g)
      BY DEF CanPass
<1>2. PICK o : o = g.auction
      OBVIOUS
<1>3. /\ g \in States /\ o \in Auctions /\ Bidding(o) /\ o.tile \in Tiles /\ o.bid \in Nat
      /\ o.bidder = p /\ Remaining(o) \subseteq Players /\ o.highest \in Players \cup {None}
      /\ \A q \in o.active \cap g.bankrupt : g.cash[q] = 0
      BY <1>1, <1>2, InAuctionFacts DEF CanPass
<1>4. /\ p \in Remaining(o) /\ p # o.highest
      /\ o.highest # None => o.highest \in Remaining(o) /\ p = SeatAfter(Remaining(o), o.highest)
      /\ o.bid = 0 <=> o.highest = None
      BY <1>3 DEF Bidding
<1>5. PICK passed : passed = [o EXCEPT !.passed = @ \cup {p}]
      OBVIOUS
<1>6. PICK b : b = NextBidder(passed, p)
      OBVIOUS
<1>7. PICK a : a = [passed EXCEPT !.bidder = b]
      OBVIOUS
<1>8. /\ a.tile = o.tile /\ a.active = o.active /\ a.passed = o.passed \cup {p}
      /\ a.bid = o.bid /\ a.highest = o.highest /\ a.bidder = b
      /\ passed.highest = o.highest /\ passed.active = o.active
      /\ passed.passed = o.passed \cup {p}
      BY <1>3, <1>5, <1>7 DEF Auctions
<1>9. PICK R : R = Remaining(o) \ {p}
      OBVIOUS
<1>10. Remaining(a) = R /\ Remaining(passed) = R /\ R \subseteq Players /\ IsFiniteSet(R)
  <2>1. Remaining(a) = R /\ Remaining(passed) = R /\ R \subseteq Players
        BY <1>3, <1>8, <1>9 DEF Remaining
  <2>2. QED  BY <2>1, PlayersAssumption, FS_Subset
<1>11. a = AfterPass(g, p)
      BY <1>2, <1>5, <1>6, <1>7 DEF AfterPass
<1>12. CASE PassWins(a)
  <2>1. PassBid(g, p) = Win(g, a)
        BY <1>11, <1>12 DEF PassBid
  <2>2. a.highest # None /\ CanPay(g, a.highest, a.bid)
        BY <1>2, <1>8, <1>11, <1>12 DEF PassWins, CanPass, CanWin
  <2>3. o.highest \in Players /\ o.bid > 0 /\ o.highest \in o.active
        BY <1>3, <1>4, <1>8, <2>2 DEF Remaining
  <2>4. o.highest \notin g.bankrupt
    <3>1. g.cash[o.highest] \in Nat /\ g.cash[o.highest] >= o.bid
          BY <1>3, <1>8, <2>2, <2>3, FieldTypes DEF CanPay
    <3>2. g.cash[o.highest] # 0
          BY <1>3, <2>3, <3>1
    <3>3. QED  BY <1>3, <2>3, <3>2
  <2>5. Sound(Win(g, a)) /\ SameTurn(g, Win(g, a))
        BY <1>1, <1>2, <1>3, <1>8, <2>2, <2>3, <2>4, WinFacts
  <2>6. QED  BY <2>1, <2>5
<1>13. CASE ~PassWins(a) /\ R = {}
  <2>1. PassBid(g, p) = WithoutWinner(g, a)
        BY <1>10, <1>11, <1>13 DEF PassBid
  <2>2. QED  BY <1>1, <1>2, <1>8, <2>1, WithoutWinnerFacts
<1>14. CASE ~PassWins(a) /\ R # {}
  <2>1. PassBid(g, p) = [g EXCEPT !.auction = a]
        BY <1>10, <1>11, <1>14 DEF PassBid
  <2>2. R # {o.highest}
    <3>1. ASSUME R = {o.highest} PROVE FALSE
      <4>1. o.highest # None
            BY <1>3, <1>10, <3>1, NoneAssumption
      <4>2. Cardinality({o.highest}) = 1
            BY FS_Singleton
      <4>3. QED  BY <1>8, <1>10, <1>14, <3>1, <4>1, <4>2 DEF PassWins
    <3>2. QED  BY <3>1
  <2>3. b = SeatAfter(R, p)
        BY <1>6, <1>8, <1>10, <1>14, <2>2 DEF NextBidder
  <2>4. b \in R /\ b # None /\ b \in Players
        BY <1>10, <1>14, <2>3, SeatAfterFacts, NoneAssumption
  <2>5. o.highest # None => o.highest \in R /\ b = SeatAfter(R, o.highest) /\ b # o.highest
    <3>1. SUFFICES ASSUME o.highest # None
                   PROVE  o.highest \in R /\ b = SeatAfter(R, o.highest) /\ b # o.highest
          OBVIOUS
    <3>2. o.highest \in R
          BY <1>4, <1>9, <3>1
    <3>3. b = SeatAfter(R, o.highest)
          BY <1>3, <1>4, <1>9, <2>2, <2>3, <3>1, SeatAfterSkip
    <3>4. SeatAfter(R, o.highest) \in R \ {o.highest}
          BY <1>10, <2>2, <3>2, SeatAfterOther
    <3>5. QED  BY <3>2, <3>3, <3>4
  <2>6. a \in Auctions
        BY <1>3, <1>5, <1>7, <2>4 DEF Auctions
  <2>7. Bidding(a)
        BY <1>4, <1>8, <1>10, <2>4, <2>5 DEF Bidding
  <2>8. Sound([g EXCEPT !.auction = a]) /\ SameTurn(g, [g EXCEPT !.auction = a])
        BY <1>1, <1>2, <1>8, <2>6, <2>7, NextBidFacts
  <2>9. QED  BY <2>1, <2>8
<1>15. QED  BY <1>12, <1>13, <1>14


---------------------------------------------------------------------------
(* Buildings and mortgages *)

(* The tiles of a set have the same set.                                   *)
LEMMA SetOfSame ==
    ASSUME NEW t \in Tiles, NEW u \in Tiles, t \in SetOf(u)
    PROVE  SetOf(u) = SetOf(t)
BY DEF SetOf

LEMMA ManagedFacts ==
    ASSUME NEW g, Sound(g), NEW l \in [Tiles -> 0..Hotel], NEW m \in SUBSET Tiles,
           \A t \in Tiles : (\E u \in SetOf(t) : l[u] > 0) => SetOf(t) \cap m = {},
           \A t \in Tiles : g.owner[t] = None => l[t] = 0 /\ t \notin m
    PROVE  /\ Sound([g EXCEPT !.level = l, !.mortgaged = m])
           /\ Managed(g, [g EXCEPT !.level = l, !.mortgaged = m])
           /\ [g EXCEPT !.level = l, !.mortgaged = m].cash = g.cash
<1> DEFINE h == [g EXCEPT !.level = l, !.mortgaged = m]
<1>1. g \in States
      BY DEF Sound
<1>2. h \in States /\ Managed(g, h) /\ h.cash = g.cash /\ h.level = l /\ h.mortgaged = m
      BY <1>1 DEF States, Managed, SameTurn
<1> HIDE DEF h
<1>3. Unmixed(h)
      BY <1>2 DEF Unmixed, Built
<1>4. Bare(h)
      BY <1>2 DEF Bare, Managed
<1>5. Sound(h)
      BY <1>2, <1>3, <1>4, PartsKept DEF Sound, Managed, SameTurn
<1>6. QED  BY <1>2, <1>5 DEF h

LEMMA BuildFacts ==
    ASSUME NEW g, Sound(g), NEW p \in Players, NEW t \in Tiles, CanBuild(g, p, t)
    PROVE  Sound(Build(g, p, t)) /\ SameTurn(g, Build(g, p, t))
<1>1. g \in States /\ p \notin g.bankrupt /\ g.level[t] < Hotel
      BY DEF CanBuild, CanManage, IsCurrentTurn, Sound
<1>2. PICK n \in Nat : n = Board[t].houseCost
      BY CostTypes
<1>3. PICK f : f = Debit(g, p, n)
      OBVIOUS
<1>4. Sound(f) /\ Paid(g, f)
      BY <1>1, <1>2, <1>3, DebitFacts DEF CanBuild
<1>5. PICK l : l = [g.level EXCEPT ![t] = @ + 1]
      OBVIOUS
<1>6. /\ l \in [Tiles -> 0..Hotel] /\ \A u \in Tiles : u # t => l[u] = g.level[u]
      /\ g.mortgaged \in SUBSET Tiles
      BY <1>1, <1>5, FieldTypes, AmountTypes DEF Hotel
<1>7. \A u \in Tiles : (\E v \in SetOf(u) : l[v] > 0) => SetOf(u) \cap g.mortgaged = {}
  <2>1. SUFFICES ASSUME NEW u \in Tiles, NEW v \in SetOf(u), l[v] > 0
                 PROVE  SetOf(u) \cap g.mortgaged = {}
        OBVIOUS
  <2>2. CASE v = t
        BY <2>2, SetOfSame DEF CanBuild
  <2>3. CASE v # t
        BY <1>6, <2>1, <2>3 DEF Sound, Unmixed, Built, SetOf
  <2>4. QED  BY <2>2, <2>3
<1>8. Build(g, p, t) = [f EXCEPT !.level = l, !.mortgaged = g.mortgaged]
      BY <1>2, <1>3, <1>4, <1>5 DEF Build, Paid, Sound, States
<1>9. PICK h : h = [f EXCEPT !.level = l, !.mortgaged = g.mortgaged]
      OBVIOUS
<1>10. \A u \in Tiles : f.owner[u] = None => l[u] = 0 /\ u \notin g.mortgaged
  <2>1. g.owner[t] = p
        BY DEF CanBuild, OwnsSet, SetOf, Owned
  <2>2. QED  BY <1>4, <1>6, <2>1, NoneAssumption DEF Paid, Sound, Bare
<1>11. Sound(h) /\ Managed(f, h)
      BY <1>4, <1>6, <1>7, <1>9, <1>10, ManagedFacts
<1>12. QED  BY <1>4, <1>8, <1>9, <1>11 DEF Managed, Paid, SameTurn

(* The conditions of a sale that keep the state sound are that there is a  *)
(* building and that the player is not bankrupt.                           *)
LEMMA SellFacts ==
    ASSUME NEW g, Sound(g), NEW p \in Players, p \notin g.bankrupt,
           NEW t \in Tiles, g.level[t] > 0
    PROVE  Sound(Sell(g, p, t)) /\ Managed(g, Sell(g, p, t))
<1>1. g \in States
      BY DEF Sound
<1>2. PICK n \in Nat : n = SellValue(t)
      BY CostTypes
<1>3. PICK f : f = Credit(g, p, n)
      OBVIOUS
<1>4. Sound(f) /\ Paid(g, f)
      BY <1>2, <1>3, CreditFacts
<1>5. PICK l : l = [g.level EXCEPT ![t] = @ - 1]
      OBVIOUS
<1>6. /\ l \in [Tiles -> 0..Hotel] /\ \A u \in Tiles : l[u] > 0 => g.level[u] > 0
      /\ g.mortgaged \in SUBSET Tiles
      BY <1>1, <1>5, FieldTypes, AmountTypes DEF Hotel
<1>7. \A u \in Tiles : (\E v \in SetOf(u) : l[v] > 0) => SetOf(u) \cap g.mortgaged = {}
      BY <1>6 DEF Sound, Unmixed, Built, SetOf
<1>8. Sell(g, p, t) = [f EXCEPT !.level = l, !.mortgaged = g.mortgaged]
      BY <1>2, <1>3, <1>4, <1>5 DEF Sell, Paid, Sound, States
<1>9. PICK h : h = [f EXCEPT !.level = l, !.mortgaged = g.mortgaged]
      OBVIOUS
<1>10. \A u \in Tiles : f.owner[u] = None => l[u] = 0 /\ u \notin g.mortgaged
      BY <1>1, <1>4, <1>5, <1>6, FieldTypes DEF Paid, Sound, Bare
<1>11. Sound(h) /\ Managed(f, h)
      BY <1>4, <1>6, <1>7, <1>9, <1>10, ManagedFacts
<1>12. QED  BY <1>4, <1>8, <1>9, <1>11 DEF Managed, Paid, SameTurn

LEMMA MortgageFacts ==
    ASSUME NEW g, Sound(g), NEW p \in Players, p \notin g.bankrupt,
           NEW t \in Tiles, g.owner[t] # None, ~Built(g, SetOf(t))
    PROVE  Sound(Mortgage(g, p, t)) /\ Managed(g, Mortgage(g, p, t))
<1>1. g \in States
      BY DEF Sound
<1>2. PICK n \in Nat : n = Board[t].mortgage
      BY CostTypes
<1>3. PICK f : f = Credit(g, p, n)
      OBVIOUS
<1>4. Sound(f) /\ Paid(g, f)
      BY <1>2, <1>3, CreditFacts
<1>5. PICK m : m = g.mortgaged \cup {t}
      OBVIOUS
<1>6. m \in SUBSET Tiles /\ g.level \in [Tiles -> 0..Hotel]
      BY <1>1, <1>5, FieldTypes
<1>7. \A u \in Tiles : (\E v \in SetOf(u) : g.level[v] > 0) => SetOf(u) \cap m = {}
  <2>1. SUFFICES ASSUME NEW u \in Tiles, NEW v \in SetOf(u), g.level[v] > 0
                 PROVE  SetOf(u) \cap m = {}
        OBVIOUS
  <2>2. SetOf(u) \cap g.mortgaged = {}
        BY <2>1 DEF Sound, Unmixed, Built
  <2>3. t \notin SetOf(u)
        BY <2>1, SetOfSame DEF Built
  <2>4. QED  BY <1>5, <2>2, <2>3
<1>8. Mortgage(g, p, t) = [f EXCEPT !.level = g.level, !.mortgaged = m]
      BY <1>2, <1>3, <1>4, <1>5 DEF Mortgage, Paid, Sound, States
<1>9. PICK h : h = [f EXCEPT !.level = g.level, !.mortgaged = m]
      OBVIOUS
<1>10. \A u \in Tiles : f.owner[u] = None => g.level[u] = 0 /\ u \notin m
      BY <1>4, <1>5 DEF Paid, Sound, Bare
<1>11. Sound(h) /\ Managed(f, h)
      BY <1>4, <1>6, <1>7, <1>9, <1>10, ManagedFacts
<1>12. QED  BY <1>4, <1>8, <1>9, <1>11 DEF Managed, Paid, SameTurn

LEMMA UnmortgageFacts ==
    ASSUME NEW g, Sound(g), NEW p \in Players, NEW t \in Tiles, CanUnmortgage(g, p, t)
    PROVE  Sound(Unmortgage(g, p, t)) /\ SameTurn(g, Unmortgage(g, p, t))
<1>1. g \in States /\ p \notin g.bankrupt
      BY DEF CanUnmortgage, CanManage, IsCurrentTurn, Sound
<1>2. PICK n \in Nat : n = UnmortgageCost(t)
      BY CostTypes
<1>3. PICK f : f = Debit(g, p, n)
      OBVIOUS
<1>4. Sound(f) /\ Paid(g, f)
      BY <1>1, <1>2, <1>3, DebitFacts DEF CanUnmortgage
<1>5. PICK m : m = g.mortgaged \ {t}
      OBVIOUS
<1>6. m \in SUBSET Tiles /\ g.level \in [Tiles -> 0..Hotel]
      BY <1>1, <1>5, FieldTypes
<1>7. \A u \in Tiles : (\E v \in SetOf(u) : g.level[v] > 0) => SetOf(u) \cap m = {}
      BY <1>5 DEF Sound, Unmixed, Built
<1>8. Unmortgage(g, p, t) = [f EXCEPT !.level = g.level, !.mortgaged = m]
      BY <1>2, <1>3, <1>4, <1>5 DEF Unmortgage, Paid, Sound, States
<1>9. PICK h : h = [f EXCEPT !.level = g.level, !.mortgaged = m]
      OBVIOUS
<1>10. \A u \in Tiles : f.owner[u] = None => g.level[u] = 0 /\ u \notin m
      BY <1>4, <1>5 DEF Paid, Sound, Bare
<1>11. Sound(h) /\ Managed(f, h)
      BY <1>4, <1>6, <1>7, <1>9, <1>10, ManagedFacts
<1>12. QED  BY <1>4, <1>8, <1>9, <1>11 DEF Managed, Paid, SameTurn

---------------------------------------------------------------------------
(* Trades *)

LEMMA OfferFacts ==
    ASSUME NEW g, Sound(g), NEW o \in Offers \cup {None}, o = None \/ ~Finished(g)
    PROVE  /\ Sound([g EXCEPT !.offer = o]) /\ SameTurn(g, [g EXCEPT !.offer = o])
<1> DEFINE h == [g EXCEPT !.offer = o]
<1>1. g \in States
      BY DEF Sound
<1>2. /\ h \in States
      /\ h.phase = g.phase /\ h.turn = g.turn /\ h.current = g.current
      /\ h.pending = g.pending /\ h.auction = g.auction /\ h.debt = g.debt
      /\ h.offer = o /\ h.deck = g.deck /\ h.cash = g.cash
      /\ h.jailed = g.jailed /\ h.jailTurns = g.jailTurns /\ h.cards = g.cards
      /\ h.bankrupt = g.bankrupt /\ h.owner = g.owner /\ h.level = g.level
      /\ h.mortgaged = g.mortgaged
      BY <1>1 DEF States
<1> HIDE DEF h
<1>3. Records(h)
      BY <1>2 DEF Sound, Records, Finished
<1>4. Sound(h) /\ SameTurn(g, h)
      BY <1>2, <1>3, PartsKept DEF Sound, SameTurn
<1>5. QED  BY <1>4 DEF h

(* The buildings on traded tiles are sold.                                 *)
LEMMA LiquidateBuildingsFacts ==
    ASSUME NEW g, Sound(g), NEW p \in Players, p \notin g.bankrupt, NEW S, S \subseteq Tiles
    PROVE  /\ Sound(LiquidateBuildings(g, p, S)) /\ Managed(g, LiquidateBuildings(g, p, S))
           /\ \A q \in Players : LiquidateBuildings(g, p, S).cash[q] >= g.cash[q]
<1>1. g \in States /\ g.cash \in [Players -> Nat] /\ g.level \in [Tiles -> 0..Hotel]
      /\ g.mortgaged \in SUBSET Tiles
      BY FieldTypes DEF Sound
<1>2. PICK value : value = [t \in Tiles |-> g.level[t] * SellValue(t)]
      OBVIOUS
<1>3. ASSUME NEW t \in Tiles PROVE value[t] \in Nat
  <2>1. PICK k \in Nat, n \in Nat : k = g.level[t] /\ n = SellValue(t)
        BY <1>1, CostTypes
  <2>2. k * n \in Nat
        OBVIOUS
  <2>3. QED  BY <1>2, <2>1, <2>2
<1>4. IsFiniteSet(S)
      BY TilesAssumption, FS_Subset
<1>5. PICK n : n = BuildingValue(g, S)
      OBVIOUS
<1>6. n \in Nat
      BY <1>2, <1>3, <1>4, <1>5, SumNat DEF BuildingValue
<1>7. PICK f : f = Credit(g, p, n)
      OBVIOUS
<1>8. Sound(f) /\ Paid(g, f) /\ f.cash = [g.cash EXCEPT ![p] = @ + n]
      BY <1>6, <1>7, CreditFacts
<1>9. PICK l : l = [t \in Tiles |-> IF t \in S THEN 0 ELSE g.level[t]]
      OBVIOUS
<1>10. l \in [Tiles -> 0..Hotel] /\ \A t \in Tiles : l[t] > 0 => g.level[t] > 0
      BY <1>1, <1>9, AmountTypes DEF Hotel
<1>11. \A t \in Tiles : (\E u \in SetOf(t) : l[u] > 0) => SetOf(t) \cap g.mortgaged = {}
      BY <1>10 DEF Sound, Unmixed, Built, SetOf
<1>12. LiquidateBuildings(g, p, S) = [f EXCEPT !.level = l, !.mortgaged = g.mortgaged]
      BY <1>5, <1>7, <1>8, <1>9 DEF LiquidateBuildings, Paid, Sound, States
<1>13. PICK h : h = [f EXCEPT !.level = l, !.mortgaged = g.mortgaged]
      OBVIOUS
<1>14. Sound(h) /\ Managed(f, h) /\ h.cash = f.cash
  <2>1. \A t \in Tiles : f.owner[t] = None => l[t] = 0 /\ t \notin g.mortgaged
        BY <1>8, <1>9 DEF Paid, Sound, Bare
  <2>2. Sound(h) /\ Managed(f, h)
        BY <1>1, <1>8, <1>10, <1>11, <1>13, <2>1, ManagedFacts
  <2>3. h.cash = f.cash
        BY <1>8, <1>13 DEF Sound, States
  <2>4. QED  BY <2>2, <2>3
<1>15. \A q \in Players : h.cash[q] >= g.cash[q]
      BY <1>1, <1>6, <1>8, <1>14
<1>16. QED  BY <1>8, <1>12, <1>13, <1>14, <1>15 DEF Managed, Paid, SameTurn

(* Tiles that have an owner change hands, and the offer is gone.           *)
LEMMA HandOverFacts ==
    ASSUME NEW g, Sound(g), NEW w \in [Tiles -> Players \cup {None}],
           \A t \in Tiles : w[t] # g.owner[t] =>
              g.owner[t] # None /\ w[t] \in Players \ g.bankrupt
    PROVE  LET h == [g EXCEPT !.owner = w, !.offer = None]
           IN  Sound(h) /\ SameTurn(g, h)
<1> DEFINE h == [g EXCEPT !.owner = w, !.offer = None]
<1>1. g \in States
      BY DEF Sound
<1>2. /\ h \in States
      /\ h.phase = g.phase /\ h.turn = g.turn /\ h.current = g.current
      /\ h.pending = g.pending /\ h.auction = g.auction /\ h.debt = g.debt
      /\ h.offer = None /\ h.deck = g.deck /\ h.cash = g.cash
      /\ h.jailed = g.jailed /\ h.jailTurns = g.jailTurns /\ h.cards = g.cards
      /\ h.bankrupt = g.bankrupt /\ h.owner = w /\ h.level = g.level
      /\ h.mortgaged = g.mortgaged
      BY <1>1 DEF States
<1> HIDE DEF h
<1>3. Records(h)
  <2>1. g.pending # None => g.pending \in Tiles
        BY <1>1, FieldTypes
  <2>2. g.auction # None => g.auction.tile \in Tiles
        BY <1>1, FieldTypes DEF Auctions
  <2>3. QED  BY <1>2, <2>1, <2>2 DEF Sound, Records, Finished
<1>4. Holdings(h)
      BY <1>2 DEF Sound, Holdings
<1>5. Bare(h)
  <2>1. \A t \in Tiles : w[t] = None => g.owner[t] = None
        BY NoneAssumption
  <2>2. QED  BY <1>2, <2>1 DEF Sound, Bare
<1>6. Sound(h) /\ SameTurn(g, h)
      BY <1>2, <1>3, <1>4, <1>5, PartsKept DEF Sound, SameTurn
<1>7. QED  BY <1>6 DEF h

LEMMA AcceptFacts ==
    ASSUME NEW g, Sound(g), NEW o \in Offers, ValidTrade(g, o)
    PROVE  Sound(AcceptOffer(g, o)) /\ SameTurn(g, AcceptOffer(g, o))
<1>1. PICK p \in Players, q \in Players, n \in Nat, m \in Nat, S \in SUBSET Tiles, T \in SUBSET Tiles :
        p = o.from /\ q = o.to /\ n = o.give /\ m = o.want /\ S = o.offered /\ T = o.requested
      BY DEF Offers
<1>2. /\ p \notin g.bankrupt /\ q \notin g.bankrupt
      /\ g.cash[p] >= n /\ g.cash[q] >= m
      /\ S \subseteq Owned(g, p) /\ T \subseteq Owned(g, q)
      BY <1>1 DEF ValidTrade, CanPay
<1>3. g \in States /\ g.cash \in [Players -> Nat] /\ g.owner \in [Tiles -> Players \cup {None}]
      BY FieldTypes DEF Sound
<1>4. PICK a : a = LiquidateBuildings(g, p, S)
      OBVIOUS
<1>5. Sound(a) /\ Managed(g, a) /\ \A r \in Players : a.cash[r] >= g.cash[r]
      BY <1>2, <1>4, LiquidateBuildingsFacts
<1>6. PICK b : b = LiquidateBuildings(a, q, T)
      OBVIOUS
<1>7. Sound(b) /\ Managed(g, b) /\ \A r \in Players : b.cash[r] >= a.cash[r]
      BY <1>2, <1>5, <1>6, LiquidateBuildingsFacts DEF Managed, SameTurn
<1>8. a.cash \in [Players -> Nat] /\ b.cash \in [Players -> Nat]
      BY <1>5, <1>7, FieldTypes DEF Sound
<1>9. b.cash[p] >= n /\ b.cash[q] >= m
      BY <1>2, <1>3, <1>5, <1>7, <1>8
<1>10. PICK c : c = Transfer(b, p, q, n)
      OBVIOUS
<1>11. Sound(c) /\ Paid(b, c) /\ \A r \in Players : r # p \/ q = p => c.cash[r] >= b.cash[r]
  <2>1. CanPay(b, p, n) /\ p \notin b.bankrupt /\ q \notin b.bankrupt
        BY <1>2, <1>7, <1>9 DEF CanPay, Managed, SameTurn
  <2>2. QED  BY <1>7, <1>10, <2>1, TransferFacts
<1>12. c.cash \in [Players -> Nat]
      BY <1>11, FieldTypes DEF Sound
<1>13. c.cash[q] >= m
      BY <1>8, <1>9, <1>11, <1>12
<1>14. PICK d : d = Transfer(c, q, p, m)
      OBVIOUS
<1>15. Sound(d) /\ Paid(c, d)
  <2>1. CanPay(c, q, m) /\ p \notin c.bankrupt /\ q \notin c.bankrupt
        BY <1>2, <1>7, <1>11, <1>13 DEF CanPay, Managed, Paid, SameTurn
  <2>2. QED  BY <1>11, <1>14, <2>1, TransferFacts
<1>16. SameTurn(g, d) /\ d.owner = g.owner
      BY <1>7, <1>11, <1>15 DEF Managed, Paid, SameTurn
<1>17. PICK w : w = [t \in Tiles |-> IF t \in S THEN q ELSE IF t \in T THEN p ELSE g.owner[t]]
      OBVIOUS
<1>18. AcceptOffer(g, o) = [d EXCEPT !.owner = w, !.offer = None]
      BY <1>1, <1>4, <1>6, <1>10, <1>14, <1>17 DEF AcceptOffer
<1>19. /\ w \in [Tiles -> Players \cup {None}]
       /\ \A t \in Tiles : w[t] # d.owner[t] =>
             d.owner[t] # None /\ w[t] \in Players \ d.bankrupt
      BY <1>2, <1>3, <1>16, <1>17, NoneAssumption DEF Owned, SameTurn
<1>20. PICK h : h = [d EXCEPT !.owner = w, !.offer = None]
      OBVIOUS
<1>21. Sound(h) /\ SameTurn(d, h)
      BY <1>15, <1>19, <1>20, HandOverFacts
<1>22. QED  BY <1>16, <1>18, <1>20, <1>21 DEF SameTurn


---------------------------------------------------------------------------
(* The end of a turn and of the game *)

(* The parts of soundness that do not depend on turn, phase and records.   *)
Solid(g) == g \in States /\ Holdings(g) /\ Placed(g) /\ Unmixed(g) /\ Bare(g)

LEMMA TurnUpdate ==
    ASSUME NEW g \in States, NEW x \in Phases, NEW n \in Nat, NEW c \in Players
    PROVE  [g EXCEPT !.phase = x, !.turn = n, !.current = c] \in States
BY DEF States

LEMMA RecordsUpdate ==
    ASSUME NEW g \in States, NEW y \in Tiles \cup {None}, NEW a \in Auctions \cup {None},
           NEW d \in Debts \cup {None}, NEW o \in Offers \cup {None}
    PROVE  [g EXCEPT !.pending = y, !.auction = a, !.debt = d, !.offer = o] \in States
BY DEF States

LEMMA SolidNoDoubles ==
    ASSUME NEW g, Solid(g)
    PROVE  Solid(NoDoubles(g)) /\ Recounted(g, NoDoubles(g))
<1>1. PICK n \in 0..2 : n = 0
      OBVIOUS
<1>2. PICK b \in BOOLEAN : b = FALSE
      OBVIOUS
<1>3. NoDoubles(g) = [g EXCEPT !.doubles = n, !.again = b]
      BY <1>1, <1>2 DEF NoDoubles
<1>4. NoDoubles(g) \in States /\ Recounted(g, NoDoubles(g))
      BY <1>3 DEF Solid, States, Recounted, SameTurn
<1>5. QED  BY <1>4, PartsKept DEF Solid, Recounted, SameTurn

(* A finished game is sound, whoever is named as the current player.       *)
LEMMA FinishFacts ==
    ASSUME NEW g, Solid(g), NEW c \in Players
    PROVE  /\ Sound([Finish(g) EXCEPT !.current = c])
           /\ [Finish(g) EXCEPT !.current = c].turn = g.turn
           /\ [Finish(g) EXCEPT !.current = c].bankrupt = g.bankrupt
<1>1. PICK f : f = NoDoubles(g)
      OBVIOUS
<1>2. Solid(f) /\ Recounted(g, f)
      BY <1>1, SolidNoDoubles
<1> DEFINE h == [f EXCEPT !.phase = "finished", !.current = c, !.pending = None,
                          !.auction = None, !.debt = None, !.offer = None]
<1>3. [Finish(g) EXCEPT !.current = c] = h
      BY <1>1, <1>2 DEF Finish, Solid, States
<1>4. h \in States
  <2>1. PICK x \in Phases, y \in Tiles \cup {None}, a \in Auctions \cup {None},
             d \in Debts \cup {None}, o \in Offers \cup {None} :
            x = "finished" /\ y = None /\ a = None /\ d = None /\ o = None
        BY PhaseNames
  <2>2. PICK e : e = [f EXCEPT !.phase = x, !.turn = f.turn, !.current = c]
        OBVIOUS
  <2>3. e \in States
        BY <1>2, <2>2, TurnUpdate DEF Solid, States
  <2>4. [e EXCEPT !.pending = y, !.auction = a, !.debt = d, !.offer = o] \in States
        BY <2>3 DEF States
  <2>5. h = [e EXCEPT !.pending = y, !.auction = a, !.debt = d, !.offer = o]
        BY <1>2, <2>1, <2>2 DEF Solid, States
  <2>6. QED  BY <2>4, <2>5
<1>5. /\ h.phase = "finished" /\ h.pending = None /\ h.auction = None
      /\ h.debt = None /\ h.offer = None
      /\ h.turn = f.turn /\ h.bankrupt = f.bankrupt /\ h.owner = f.owner /\ h.level = f.level
      /\ h.mortgaged = f.mortgaged /\ h.cards = f.cards /\ h.deck = f.deck
      /\ h.jailed = f.jailed
      BY <1>2 DEF Solid, States
<1> HIDE DEF h
<1>6. Turns(h) /\ Records(h) /\ Prisoners(h) /\ Penniless(h)
      BY <1>5 DEF Turns, Records, Prisoners, Penniless, Finished
<1>7. Sound(h) /\ h.turn = g.turn /\ h.bankrupt = g.bankrupt
      BY <1>2, <1>4, <1>5, <1>6, PartsKept DEF Solid, Sound, Recounted, SameTurn
<1>8. QED  BY <1>3, <1>7

(* The next turn, of a player c who is still in the game, with the trade   *)
(* offer that is left open.                                                *)
NextTurn(g, c, o) ==
    [NoDoubles(g) EXCEPT !.phase = "awaiting_roll", !.turn = @ + 1, !.current = c,
                         !.pending = None, !.auction = None, !.offer = o]

LEMMA NextTurnFacts ==
    ASSUME NEW g, Solid(g), g.debt = None, NEW o \in Offers \cup {None},
           Cardinality(Active(g)) >= 2, Active(g) \cap Humans # {},
           NEW c \in Active(g),
           \A p \in g.jailed : ~(g.jailTurns[p] >= MaxJailTurns)
    PROVE  /\ Sound(NextTurn(g, c, o)) /\ NextTurn(g, c, o).turn = g.turn + 1
           /\ NextTurn(g, c, o).current = c /\ NextTurn(g, c, o).bankrupt = g.bankrupt
<1>1. PICK f : f = NoDoubles(g)
      OBVIOUS
<1>2. Solid(f) /\ Recounted(g, f)
      BY <1>1, SolidNoDoubles
<1>3. f \in States /\ f.turn \in Nat /\ c \in Players
      BY <1>2, FieldTypes DEF Solid, Active
<1>4. PICK n \in Nat : n = f.turn + 1
      BY <1>3
<1> DEFINE h == [f EXCEPT !.phase = "awaiting_roll", !.turn = n, !.current = c,
                          !.pending = None, !.auction = None, !.offer = o]
<1>5. NextTurn(g, c, o) = h
      BY <1>1, <1>3, <1>4 DEF NextTurn, States
<1>6. h \in States
  <2>1. PICK x \in Phases, y \in Tiles \cup {None}, a \in Auctions \cup {None},
             d \in Debts \cup {None} :
            x = "awaiting_roll" /\ y = None /\ a = None /\ d = f.debt
        BY <1>3, PhaseNames, FieldTypes
  <2>2. PICK e : e = [f EXCEPT !.phase = x, !.turn = n, !.current = c]
        OBVIOUS
  <2>3. e \in States
        BY <1>3, <2>2, TurnUpdate
  <2>4. [e EXCEPT !.pending = y, !.auction = a, !.debt = d, !.offer = o] \in States
        BY <2>3, RecordsUpdate
  <2>5. h = [e EXCEPT !.pending = y, !.auction = a, !.debt = d, !.offer = o]
        BY <1>3, <2>1, <2>2 DEF States
  <2>6. QED  BY <2>4, <2>5
<1>7. /\ h.phase = "awaiting_roll" /\ h.pending = None /\ h.auction = None
      /\ h.debt = f.debt /\ h.current = c
      /\ h.turn = n /\ h.bankrupt = f.bankrupt /\ h.owner = f.owner /\ h.level = f.level
      /\ h.mortgaged = f.mortgaged /\ h.cards = f.cards /\ h.deck = f.deck
      /\ h.jailed = f.jailed /\ h.jailTurns = f.jailTurns
      BY <1>3 DEF States
<1> HIDE DEF h
<1>8. Turns(h)
      BY <1>2, <1>7 DEF Turns, Active, Recounted, SameTurn
<1>9. Records(h) /\ Prisoners(h) /\ Penniless(h)
      BY <1>2, <1>7 DEF Records, Prisoners, Penniless, Finished, Recounted
<1>10. Sound(h)
      BY <1>2, <1>6, <1>7, <1>8, <1>9, PartsKept DEF Solid, Sound
<1>11. h.turn = g.turn + 1 /\ h.current = c /\ h.bankrupt = g.bankrupt
      BY <1>2, <1>4, <1>7 DEF Recounted, SameTurn
<1>12. QED  BY <1>5, <1>10, <1>11

(* The turn stays, or passes to the next seat that is still in the game.   *)
Passed(g, h) ==
    h.turn # g.turn =>
        h.turn = g.turn + 1 /\ h.current = SeatAfter(Players \ h.bankrupt, g.current)

LEMMA EndTurnFacts ==
    ASSUME NEW g, Sound(g), NEW p \in Players, CanEndTurn(g, p)
    PROVE  Sound(EndTurn(g)) /\ Passed(g, EndTurn(g))
<1>1. /\ g \in States /\ g.phase = "awaiting_turn_end" /\ g.pending = None /\ g.auction = None
      /\ g.debt = None /\ ~Finished(g) /\ Solid(g)
      BY DEF CanEndTurn, Sound, Records, Finished, Solid
<1>2. CASE g.again
  <2>1. PICK b \in BOOLEAN : b = FALSE
        OBVIOUS
  <2> DEFINE h == [g EXCEPT !.phase = "awaiting_roll", !.again = b, !.offer = None]
  <2>2. EndTurn(g) = h
        BY <1>2, <2>1 DEF EndTurn
  <2>3. /\ h \in States
        /\ h.phase = "awaiting_roll" /\ h.turn = g.turn /\ h.current = g.current
        /\ h.pending = g.pending /\ h.auction = g.auction /\ h.debt = g.debt
        /\ h.offer = None /\ h.deck = g.deck /\ h.cash = g.cash
        /\ h.jailed = g.jailed /\ h.jailTurns = g.jailTurns /\ h.cards = g.cards
        /\ h.bankrupt = g.bankrupt /\ h.owner = g.owner /\ h.level = g.level
        /\ h.mortgaged = g.mortgaged
        BY <1>1, PhaseNames DEF States
  <2> HIDE DEF h
  <2>4. Turns(h)
        BY <1>1, <2>3 DEF Sound, Turns, Active, Finished
  <2>5. Records(h) /\ Prisoners(h)
        BY <1>1, <2>3 DEF Sound, Records, Prisoners, Finished
  <2>6. Sound(h) /\ h.turn = g.turn
        BY <1>1, <2>3, <2>4, <2>5, PartsKept DEF Sound
  <2>7. QED  BY <2>2, <2>6 DEF Passed
<1>3. CASE ~g.again
  <2>1. PICK c : c = SeatAfter(Active(g), g.current)
        OBVIOUS
  <2>2. /\ Cardinality(Active(g)) >= 2 /\ Active(g) \cap Humans # {} /\ g.current \in Players
        /\ Active(g) \subseteq Players /\ Active(g) # {}
        BY <1>1, FieldTypes DEF Sound, Turns, Active
  <2>3. c \in Active(g)
        BY <2>1, <2>2, SeatAfterFacts
  <2>4. \A q \in g.jailed : ~(g.jailTurns[q] >= MaxJailTurns)
        BY <1>1 DEF Sound, Prisoners
  <2>5. PICK f : f = NoDoubles(g)
        OBVIOUS
  <2>6. f \in States /\ f.pending = None /\ f.auction = None
        BY <1>1, <2>5, SolidNoDoubles DEF Recounted, Solid
  <2>7. EndTurn(g) = [f EXCEPT !.phase = "awaiting_roll", !.turn = @ + 1, !.current = c,
                               !.pending = None, !.auction = None, !.offer = None]
    <3>1. EndTurn(g) = [f EXCEPT !.phase = "awaiting_roll", !.turn = @ + 1, !.offer = None,
                                 !.current = c]
          BY <1>3, <2>1, <2>5 DEF EndTurn
    <3>2. QED  BY <2>6, <3>1 DEF States
  <2>8. PICK o \in Offers \cup {None} : o = None
        OBVIOUS
  <2>9. PICK h : h = NextTurn(g, c, o)
        OBVIOUS
  <2>10. Sound(h) /\ h.turn = g.turn + 1 /\ h.current = c /\ h.bankrupt = g.bankrupt
        BY <1>1, <2>2, <2>3, <2>4, <2>9, NextTurnFacts
  <2>11. EndTurn(g) = h
        BY <2>5, <2>7, <2>8, <2>9 DEF NextTurn
  <2>12. QED  BY <2>1, <2>10, <2>11 DEF Passed, Active
<1>4. QED  BY <1>2, <1>3

LEMMA FinishIntentFacts ==
    ASSUME NEW g, Sound(g)
    PROVE  Sound(Finish(g)) /\ Passed(g, Finish(g))
<1>1. g \in States /\ Solid(g) /\ g.current \in Players
      BY FieldTypes DEF Sound, Solid
<1>2. PICK c \in Players : c = g.current
      BY <1>1
<1>3. PICK f : f = NoDoubles(g)
      OBVIOUS
<1>4. f \in States /\ f.current = c
      BY <1>1, <1>2, <1>3, SolidNoDoubles DEF Recounted, SameTurn, Solid
<1>5. Finish(g) = [f EXCEPT !.phase = "finished", !.auction = None, !.pending = None,
                            !.offer = None, !.debt = None]
      BY <1>3 DEF Finish
<1>6. PICK e : e = Finish(g)
      OBVIOUS
<1>7. e = [e EXCEPT !.current = c]
      BY <1>4, <1>5, <1>6 DEF States
<1>8. Sound([e EXCEPT !.current = c]) /\ [e EXCEPT !.current = c].turn = g.turn
      BY <1>1, <1>6, FinishFacts
<1>9. QED  BY <1>6, <1>7, <1>8 DEF Passed


---------------------------------------------------------------------------
(* Debt and bankruptcy *)

(* A debt is closed when nobody is left in jail who owes the fine.         *)
LEMMA ClosedDebtFacts ==
    ASSUME NEW g, Sound(g), g.phase = "awaiting_debt_resolution",
           \A p \in g.jailed : ~(g.jailTurns[p] >= MaxJailTurns),
           NEW b \in BOOLEAN
    PROVE  LET h == [g EXCEPT !.phase = "awaiting_turn_end", !.debt = None,
                              !.pending = None, !.auction = None, !.again = b]
           IN  Sound(h) /\ SameTurn(g, h)
<1>1. g \in States /\ g.pending = None /\ g.auction = None /\ ~Finished(g)
      BY DEF Sound, Records, Finished
<1> DEFINE h == [g EXCEPT !.phase = "awaiting_turn_end", !.debt = None, !.again = b]
<1>2. h = [g EXCEPT !.phase = "awaiting_turn_end", !.debt = None,
                    !.pending = None, !.auction = None, !.again = b]
      BY <1>1 DEF States
<1>3. /\ h \in States
      /\ h.phase = "awaiting_turn_end" /\ h.turn = g.turn /\ h.current = g.current
      /\ h.pending = g.pending /\ h.auction = g.auction /\ h.debt = None
      /\ h.offer = g.offer /\ h.deck = g.deck /\ h.cash = g.cash
      /\ h.jailed = g.jailed /\ h.jailTurns = g.jailTurns /\ h.cards = g.cards
      /\ h.bankrupt = g.bankrupt /\ h.owner = g.owner /\ h.level = g.level
      /\ h.mortgaged = g.mortgaged
      BY <1>1, PhaseNames DEF States
<1> HIDE DEF h
<1>4. Turns(h)
      BY <1>1, <1>3 DEF Sound, Turns, Active, Finished
<1>5. Records(h) /\ Prisoners(h)
      BY <1>1, <1>3 DEF Sound, Records, Prisoners, Finished
<1>6. Sound(h) /\ SameTurn(g, h)
      BY <1>1, <1>3, <1>4, <1>5, PartsKept DEF Sound, SameTurn, RollPhases
<1>7. QED  BY <1>2, <1>6

LEMMA PayDebtFacts ==
    ASSUME NEW g, Sound(g), NEW p \in Players, CanPayDebt(g, p)
    PROVE  Sound(PayDebt(g, p)) /\ SameTurn(g, PayDebt(g, p))
<1>1. PICK d : d = g.debt
      OBVIOUS
<1>2. /\ g \in States /\ g.phase = "awaiting_debt_resolution" /\ d # None /\ d \in Debts
      /\ d.by = p /\ g.auction = None /\ ~Finished(g) /\ CanPay(g, p, d.amount)
      /\ d.amount \in Nat /\ d.to \in Players \cup {None}
  <2>1. /\ g \in States /\ g.phase = "awaiting_debt_resolution" /\ d # None /\ d \in Debts
        /\ d.by = p /\ g.auction = None /\ ~Finished(g) /\ CanPay(g, p, d.amount)
        BY <1>1, FieldTypes
        DEF CanPayDebt, ResolvingOwnDebt, DebtPayable, Sound, Records, Finished
  <2>2. QED  BY <2>1 DEF Debts
<1>3. PICK paid : paid = IF d.to # None THEN Transfer(g, p, d.to, d.amount)
                         ELSE Debit(g, p, d.amount)
      OBVIOUS
<1>4. Sound(paid) /\ Paid(g, paid)
  <2>1. CASE d.to # None
        BY <1>2, <1>3, <2>1, TransferFacts
  <2>2. CASE d.to = None
        BY <1>2, <1>3, <2>2, DebitFacts
  <2>3. QED  BY <2>1, <2>2
<1>5. PICK f : f = IF d.reason = "jail_fine" THEN Release(paid, p) ELSE paid
      OBVIOUS
<1>6. /\ Sound(f) /\ SameTurn(g, f) /\ f.phase = g.phase
      /\ f.jailed \subseteq g.jailed /\ (d.reason = "jail_fine" => p \notin f.jailed)
      /\ \A q \in Players : q # p \/ d.reason # "jail_fine" => f.jailTurns[q] = g.jailTurns[q]
  <2>1. CASE d.reason = "jail_fine"
        BY <1>4, <1>5, <2>1, ReleaseFacts DEF Paid, SameTurn
  <2>2. CASE d.reason # "jail_fine"
        BY <1>4, <1>5, <2>2 DEF Paid, SameTurn
  <2>3. QED  BY <2>1, <2>2
<1>7. ASSUME NEW q \in f.jailed PROVE ~(f.jailTurns[q] >= MaxJailTurns)
  <2>1. q \in g.jailed /\ q \in Players
        BY <1>2, <1>6, FieldTypes
  <2>2. g.jailTurns[q] >= MaxJailTurns => q = p /\ d.reason = "jail_fine"
        BY <1>1, <1>2, <2>1 DEF Sound, Prisoners
  <2>3. QED  BY <1>6, <1>7, <2>1, <2>2
<1>8. PICK b \in BOOLEAN : b = FALSE
      OBVIOUS
<1>9. PICK h : h = [f EXCEPT !.phase = "awaiting_turn_end", !.debt = None,
                             !.pending = None, !.auction = None, !.again = b]
      OBVIOUS
<1>10. Sound(h) /\ SameTurn(f, h)
      BY <1>2, <1>6, <1>7, <1>9, ClosedDebtFacts
<1>11. PayDebt(g, p) = h
      BY <1>1, <1>3, <1>5, <1>8, <1>9 DEF PayDebt
<1>12. QED  BY <1>6, <1>10, <1>11 DEF SameTurn

LEMMA BankruptUpdate ==
    ASSUME NEW g \in States, NEW c \in [Players -> Nat], NEW b \in SUBSET Players,
           NEW k \in SUBSET Players, NEW j \in [Players -> 0..MaxJailTurns],
           NEW s \in [Players -> SUBSET FreeCards]
    PROVE  [g EXCEPT !.cash = c, !.bankrupt = b, !.jailed = k, !.jailTurns = j,
                     !.cards = s] \in States
BY DEF States

LEMMA EstateUpdate ==
    ASSUME NEW g \in States, NEW d \in SUBSET FreeCards,
           NEW w \in [Tiles -> Players \cup {None}], NEW l \in [Tiles -> 0..Hotel],
           NEW m \in SUBSET Tiles, NEW debt \in Debts \cup {None}
    PROVE  [g EXCEPT !.deck = d, !.owner = w, !.level = l, !.mortgaged = m,
                     !.debt = debt] \in States
BY DEF States

(* The assets of a player who gives up go to its creditor or to the bank.  *)
LEMMA LiquidateFacts ==
    ASSUME NEW g, Sound(g), NEW p \in Players, CanDeclareBankruptcy(g, p),
           NEW h, h = LiquidateAssets(g, p)
    PROVE  /\ Solid(h) /\ h.bankrupt = g.bankrupt \cup {p}
           /\ h.phase = g.phase /\ h.turn = g.turn /\ h.current = g.current
           /\ h.pending = g.pending /\ h.auction = g.auction /\ h.offer = g.offer
           /\ h.debt = IF g.debt # None /\ g.debt.by = p THEN None ELSE g.debt
           /\ \A t \in Tiles : g.owner[t] = None => h.owner[t] = None
           /\ h.jailed = g.jailed \ {p}
           /\ \A q \in Players : q # p => h.jailTurns[q] = g.jailTurns[q]
           /\ h.cash[p] = 0 /\ \A q \in Players : q # p => h.cash[q] = g.cash[q]
<1>1. g \in States /\ p \notin g.bankrupt
      BY DEF CanDeclareBankruptcy, Sound
<1>2. PICK q : q = Creditor(g, p)
      OBVIOUS
<1>3. q \in (Players \ (g.bankrupt \cup {p})) \cup {None}
  <2>1. CASE g.debt # None /\ g.debt.by = p
    <3>1. g.debt.to \in Players \cup {None} /\ g.debt.to # p
          BY <1>1, <2>1, FieldTypes DEF Debts, Sound, Records
    <3>2. QED  BY <1>2, <2>1, <3>1 DEF Creditor, CanDeclareBankruptcy
  <2>2. CASE ~(g.debt # None /\ g.debt.by = p)
        BY <1>2, <2>2 DEF Creditor
  <2>3. QED  BY <2>1, <2>2
<1>4. PICK c : c = [g.cash EXCEPT ![p] = 0]
      OBVIOUS
<1>5. PICK b : b = g.bankrupt \cup {p}
      OBVIOUS
<1>6. PICK k : k = g.jailed \ {p}
      OBVIOUS
<1>7. PICK j : j = [g.jailTurns EXCEPT ![p] = 0]
      OBVIOUS
<1>8. PICK s : s = [g.cards EXCEPT ![p] = {}]
      OBVIOUS
<1>9. PICK d : d = g.deck \cup g.cards[p]
      OBVIOUS
<1>10. PICK w : w = [t \in Tiles |-> IF t \in Owned(g, p) THEN q ELSE g.owner[t]]
      OBVIOUS
<1>11. PICK l : l = [t \in Tiles |-> IF t \in Owned(g, p) THEN 0 ELSE g.level[t]]
      OBVIOUS
<1>12. PICK m : m = g.mortgaged \ Owned(g, p)
      OBVIOUS
<1>13. PICK e : e = IF g.debt # None /\ g.debt.by = p THEN None ELSE g.debt
      OBVIOUS
<1>14. /\ c \in [Players -> Nat] /\ c[p] = 0 /\ \A r \in Players : r # p => c[r] = g.cash[r]
       /\ b \in SUBSET Players /\ k \in SUBSET Players
       /\ j \in [Players -> 0..MaxJailTurns]
       /\ \A r \in Players : r # p => j[r] = g.jailTurns[r]
      BY <1>1, <1>4, <1>5, <1>6, <1>7, FieldTypes, AmountTypes
<1>15. /\ s \in [Players -> SUBSET FreeCards] /\ s[p] = {}
       /\ \A r \in Players : r # p => s[r] = g.cards[r]
       /\ d \in SUBSET FreeCards
      BY <1>1, <1>8, <1>9, FieldTypes
<1>16. /\ w \in [Tiles -> Players \cup {None}] /\ l \in [Tiles -> 0..Hotel]
       /\ m \in SUBSET Tiles /\ e \in Debts \cup {None}
      BY <1>1, <1>3, <1>10, <1>11, <1>12, <1>13, FieldTypes, AmountTypes DEF Hotel
<1>17. PICK f : f = [g EXCEPT !.cash = c, !.bankrupt = b, !.jailed = k, !.jailTurns = j,
                              !.cards = s]
      OBVIOUS
<1>18. f \in States
      BY <1>1, <1>14, <1>15, <1>17, BankruptUpdate
<1>19. h = [f EXCEPT !.deck = d, !.owner = w, !.level = l, !.mortgaged = m, !.debt = e]
  <2>1. h = [g EXCEPT !.cash = c, !.bankrupt = b, !.jailed = k, !.jailTurns = j,
                      !.cards = s, !.deck = d, !.owner = w, !.level = l,
                      !.mortgaged = m, !.debt = e]
        BY <1>1, <1>2, <1>4, <1>5, <1>6, <1>7, <1>8, <1>9, <1>10, <1>11, <1>12, <1>13
        DEF LiquidateAssets, States
  <2>2. QED  BY <1>17, <2>1
<1>20. h \in States
  <2>1. \A x \in SUBSET FreeCards, u \in [Tiles -> Players \cup {None}], v \in [Tiles -> 0..Hotel],
           y \in SUBSET Tiles, z \in Debts \cup {None} :
           [f EXCEPT !.deck = x, !.owner = u, !.level = v, !.mortgaged = y, !.debt = z] \in States
        BY <1>18, EstateUpdate
  <2>2. /\ d \in SUBSET FreeCards /\ w \in [Tiles -> Players \cup {None}]
        /\ l \in [Tiles -> 0..Hotel] /\ m \in SUBSET Tiles /\ e \in Debts \cup {None}
        BY <1>15, <1>16
  <2>3. [f EXCEPT !.deck = d, !.owner = w, !.level = l, !.mortgaged = m, !.debt = e] \in States
        BY ONLY <2>1, <2>2, Zenon
  <2>4. QED  BY <1>19, <2>3
<1>21. /\ f.cash = c /\ f.bankrupt = b /\ f.jailed = k /\ f.jailTurns = j /\ f.cards = s
       /\ f.phase = g.phase /\ f.turn = g.turn /\ f.current = g.current
       /\ f.pending = g.pending /\ f.auction = g.auction /\ f.offer = g.offer
      BY <1>1, <1>17 DEF States
<1>22. /\ h.cash = c /\ h.bankrupt = b /\ h.jailed = k /\ h.jailTurns = j /\ h.cards = s
       /\ h.phase = g.phase /\ h.turn = g.turn /\ h.current = g.current
       /\ h.pending = g.pending /\ h.auction = g.auction /\ h.offer = g.offer
       /\ h.deck = d /\ h.owner = w /\ h.level = l /\ h.mortgaged = m /\ h.debt = e
      BY <1>18, <1>19, <1>21 DEF States
<1>23. Holdings(h)
  <2>1. ASSUME NEW r \in b, NEW t \in Tiles PROVE w[t] # r
        BY <1>1, <1>3, <1>5, <1>10, <1>14, <2>1, NoneAssumption
        DEF Sound, Holdings, Owned
  <2>2. ASSUME NEW r \in b PROVE s[r] = {} /\ r \notin k
        BY <1>5, <1>6, <1>14, <1>15, <2>2 DEF Sound, Holdings
  <2>3. QED  BY <1>22, <2>1, <2>2 DEF Holdings
<1>24. Placed(h)
  <2>1. Placed(g) /\ g.cards \in [Players -> SUBSET FreeCards]
        BY <1>1, FieldTypes DEF Sound
  <2>2. \A r, z \in Players : r # z => s[r] \cap s[z] = {}
        BY <1>15, <2>1 DEF Placed
  <2>3. \A r \in Players : s[r] \cap d = {}
        BY <1>9, <1>15, <2>1 DEF Placed
  <2>4. \A x \in FreeCards : x \notin d => \E r \in Players : x \in s[r]
        BY <1>9, <1>15, <2>1 DEF Placed
  <2>5. QED  BY <1>22, <2>2, <2>3, <2>4 DEF Placed
<1>25. Unmixed(h)
  <2>1. \A t \in Tiles : l[t] > 0 => g.level[t] > 0
        BY <1>11
  <2>2. QED  BY <1>12, <1>22, <2>1 DEF Sound, Unmixed, Built, SetOf
<1>26. \A t \in Tiles : g.owner[t] = None => h.owner[t] = None
      BY <1>10, <1>22, NoneAssumption DEF Owned
<1>27. Bare(h)
  <2>1. ASSUME NEW t \in Tiles, w[t] = None PROVE l[t] = 0 /\ t \notin m
        BY <1>10, <1>11, <1>12, <2>1 DEF Sound, Bare
  <2>2. QED  BY <1>22, <2>1 DEF Bare
<1>28. QED
      BY <1>5, <1>6, <1>13, <1>14, <1>20, <1>22, <1>23, <1>24, <1>25, <1>26, <1>27 DEF Solid



(* The players left after a bankruptcy can be counted.                     *)
LEMMA ActiveFacts ==
    ASSUME NEW g
    PROVE  /\ Active(g) \subseteq Players /\ IsFiniteSet(Active(g))
           /\ Cardinality(Active(g)) \in Nat /\ Active(g) \subseteq Nat
<1>1. Active(g) \subseteq Players /\ Players \subseteq Nat /\ IsFiniteSet(Players)
      BY PlayersAssumption DEF Active
<1>2. IsFiniteSet(Active(g))
      BY <1>1, FS_Subset
<1>3. QED  BY <1>1, <1>2, FS_CardinalityType

LEMMA BankruptcyFacts ==
    ASSUME NEW g, Sound(g), NEW p \in Players, CanDeclareBankruptcy(g, p)
    PROVE  Sound(DeclareBankruptcy(g, p)) /\ Passed(g, DeclareBankruptcy(g, p))
<1>1. PICK h : h = LiquidateAssets(g, p)
      OBVIOUS
<1>2. /\ Solid(h) /\ h.bankrupt = g.bankrupt \cup {p}
      /\ h.phase = g.phase /\ h.turn = g.turn /\ h.current = g.current
      /\ h.pending = g.pending /\ h.auction = g.auction /\ h.offer = g.offer
      /\ h.debt = IF g.debt # None /\ g.debt.by = p THEN None ELSE g.debt
      /\ \A t \in Tiles : g.owner[t] = None => h.owner[t] = None
      /\ h.jailed = g.jailed \ {p}
      /\ \A q \in Players : q # p => h.jailTurns[q] = g.jailTurns[q]
      /\ h.cash[p] = 0 /\ \A q \in Players : q # p => h.cash[q] = g.cash[q]
      BY <1>1, LiquidateFacts
<1>3. /\ g \in States /\ ~Finished(g) /\ g.current \in Active(g) /\ p \notin g.bankrupt
      /\ g.pending \in Tiles \cup {None} /\ g.auction \in Auctions \cup {None}
      /\ g.jailed \subseteq Players /\ g.current \in Players /\ g.turn \in Nat
      /\ g.offer \in Offers \cup {None}
      BY FieldTypes DEF CanDeclareBankruptcy, Sound, Turns
<1>4. /\ Active(h) = Active(g) \ {p} /\ Active(h) \subseteq Players
      /\ Active(h) \subseteq Nat /\ Cardinality(Active(h)) \in Nat
      BY <1>2, ActiveFacts DEF Active
<1>5. CASE GameDecided(h)
  <2>1. PICK c : c = IF Active(h) # {} THEN Min(Active(h)) ELSE g.current
        OBVIOUS
  <2>2. c \in Players
        BY <1>3, <1>4, <2>1, MinFacts
  <2>3. PICK e : e = [Finish(h) EXCEPT !.current = c]
        OBVIOUS
  <2>4. Sound(e) /\ e.turn = h.turn
        BY <1>2, <2>2, <2>3, FinishFacts
  <2>5. DeclareBankruptcy(g, p) = e
        BY <1>1, <1>5, <2>1, <2>3 DEF DeclareBankruptcy
  <2>6. QED  BY <1>2, <2>4, <2>5 DEF Passed
<1>6. CASE ~GameDecided(h)
  <2>1. Cardinality(Active(h)) >= 2 /\ Active(h) \cap Humans # {} /\ Active(h) # {}
        BY <1>4, <1>6 DEF GameDecided
  <2>2. CASE g.current # p
    <3>1. h.debt = g.debt
          BY <1>2, <2>2 DEF Sound, Records
    <3>2. Turns(h)
          BY <1>2, <1>3, <1>4, <2>1, <2>2 DEF Turns
    <3>3. Records(h)
      <4>1. Records(g) /\ ~Finished(h)
            BY <1>2, <1>3 DEF Sound, Finished
      <4>2. g.auction # None => g.auction.tile \in Tiles
            BY <1>3 DEF Auctions
      <4>3. QED  BY <1>2, <1>3, <3>1, <4>1, <4>2 DEF Records
    <3>4. Prisoners(h)
          BY <1>2, <1>3, <3>1 DEF Sound, Prisoners
    <3>5. Penniless(h)
      <4>1. g.auction # None => g.auction.active \subseteq Players
            BY <1>3 DEF Auctions
      <4>2. QED  BY <1>2, <4>1 DEF Sound, Penniless
    <3>6. h.auction # None => Bidding(h.auction)
          BY <1>2 DEF Sound
    <3>7. Sound(h)
          BY <1>2, <3>2, <3>3, <3>4, <3>5, <3>6 DEF Sound, Solid
    <3>8. DeclareBankruptcy(g, p) = h
          BY <1>1, <1>6, <2>2 DEF DeclareBankruptcy
    <3>9. QED  BY <1>2, <3>7, <3>8 DEF Passed
  <2>3. CASE g.current = p
    <3>1. h.debt = None
          BY <1>2, <2>3 DEF Sound, Records
    <3>2. PICK c : c = SeatAfter(Active(h), p)
          OBVIOUS
    <3>3. c \in Active(h)
          BY <1>4, <2>1, <3>2, SeatAfterFacts
    <3>4. ASSUME NEW q \in h.jailed PROVE ~(h.jailTurns[q] >= MaxJailTurns)
      <4>1. q \in g.jailed /\ q # p /\ q \in Players
            BY <1>2, <1>3
      <4>2. g.jailTurns[q] >= MaxJailTurns => g.debt # None /\ g.debt.by = q
            BY <1>3, <4>1 DEF Sound, Prisoners
      <4>3. g.debt # None => g.debt.by = p
            BY <2>3 DEF Sound, Records
      <4>4. QED  BY <1>2, <4>1, <4>2, <4>3
    <3>5. PICK o \in Offers \cup {None} : o = h.offer
          BY <1>2, <1>3
    <3>6. PICK e : e = NextTurn(h, c, o)
          OBVIOUS
    <3>7. Sound(e) /\ e.turn = h.turn + 1 /\ e.current = c /\ e.bankrupt = h.bankrupt
          BY <1>2, <2>1, <3>1, <3>3, <3>4, <3>6, NextTurnFacts
    <3>8. DeclareBankruptcy(g, p) = e
      <4>1. PICK f : f = NoDoubles(h)
            OBVIOUS
      <4>2. f \in States /\ f.offer = o
            BY <1>2, <3>5, <4>1, SolidNoDoubles DEF Recounted, Solid
      <4>3. DeclareBankruptcy(g, p) =
              [f EXCEPT !.phase = "awaiting_roll", !.turn = @ + 1, !.current = c,
                        !.auction = None, !.pending = None]
            BY <1>1, <1>6, <2>3, <3>2, <4>1 DEF DeclareBankruptcy
      <4>4. e = [f EXCEPT !.phase = "awaiting_roll", !.turn = @ + 1, !.current = c,
                          !.pending = None, !.auction = None, !.offer = o]
            BY <3>6, <4>1 DEF NextTurn
      <4>5. QED  BY <4>2, <4>3, <4>4 DEF States
    <3>9. QED  BY <1>2, <2>3, <3>2, <3>7, <3>8 DEF Passed, Active
  <2>4. QED  BY <2>2, <2>3
<1>7. QED  BY <1>5, <1>6


---------------------------------------------------------------------------
(* The loop that raises money *)

LEMMA BuildingToSellFacts ==
    ASSUME NEW g \in States, NEW p, WithBuildings(g, p) # {}
    PROVE  /\ BuildingToSell(g, p) \in WithBuildings(g, p)
           /\ BuildingToSell(g, p) \in Tiles /\ g.level[BuildingToSell(g, p)] > 0
<1>1. /\ WithBuildings(g, p) \subseteq Tiles /\ Tiles \subseteq Nat
      /\ \A t \in WithBuildings(g, p) : g.level[t] > 0 /\ g.level[t] \in 0..Hotel
      BY FieldTypes, TilesAssumption DEF WithBuildings, Owned
<1>2. PICK L : L = {g.level[t] : t \in WithBuildings(g, p)}
      OBVIOUS
<1>3. L \subseteq 0..Hotel /\ L # {} /\ Hotel \in Nat
      BY <1>1, <1>2, AmountTypes DEF Hotel
<1>4. Max(L) \in L
      BY <1>3, MaxFacts
<1>5. PICK S : S = {t \in WithBuildings(g, p) : g.level[t] = Max(L)}
      OBVIOUS
<1>6. S \subseteq Nat /\ S # {}
      BY <1>1, <1>2, <1>4, <1>5
<1>7. Min(S) \in S
      BY <1>6, MinFacts
<1>8. BuildingToSell(g, p) = Min(S)
      BY <1>2, <1>5 DEF BuildingToSell
<1>9. QED  BY <1>1, <1>5, <1>7, <1>8

LEMMA RaiseMoneyFacts ==
    ASSUME NEW g, Sound(g), NEW p \in Players, p \notin g.bankrupt
    PROVE  Sound(RaiseMoney(g, p)) /\ Managed(g, RaiseMoney(g, p))
<1>1. g \in States
      BY DEF Sound
<1>2. Managed(g, g)
      BY DEF Managed, SameTurn
<1>3. CASE RaiseMoney(g, p) = g
      BY <1>2, <1>3
<1>4. CASE WithBuildings(g, p) # {} /\ RaiseMoney(g, p) = Sell(g, p, BuildingToSell(g, p))
  <2>1. PICK t : t = BuildingToSell(g, p)
        OBVIOUS
  <2>2. t \in Tiles /\ g.level[t] > 0
        BY <1>1, <1>4, <2>1, BuildingToSellFacts
  <2>3. QED  BY <1>4, <2>1, <2>2, SellFacts
<1>5. CASE Mortgageable(g, p) # {} /\ RaiseMoney(g, p) = Mortgage(g, p, Min(Mortgageable(g, p)))
  <2>1. PICK t : t = Min(Mortgageable(g, p))
        OBVIOUS
  <2>2. Mortgageable(g, p) \subseteq Nat
        BY TilesAssumption DEF Mortgageable, Owned
  <2>3. t \in Mortgageable(g, p)
        BY <1>5, <2>1, <2>2, MinFacts
  <2>4. t \in Tiles /\ g.owner[t] # None /\ ~Built(g, SetOf(t))
        BY <2>3, NoneAssumption DEF Mortgageable, Owned
  <2>5. QED  BY <1>5, <2>1, <2>4, MortgageFacts
<1>6. QED  BY <1>3, <1>4, <1>5 DEF RaiseMoney

(* The states the loop goes through from g, in m iterations.               *)
Raised(g, p, m, f) ==
    f = [n \in 0..m |-> IF n = 0 THEN g ELSE RaiseMoney(f[n - 1], p)]

LEMMA RaisedExists ==
    ASSUME NEW g, NEW p
    PROVE  \A m \in Nat : \E f : Raised(g, p, m, f)
<1> DEFINE P == {m \in Nat : \E f : Raised(g, p, m, f)}
<1>1. 0 \in P
  <2>1. PICK f : f = [n \in 0..0 |-> g]
        OBVIOUS
  <2>2. Raised(g, p, 0, f)
        BY <2>1 DEF Raised
  <2>3. QED  BY <2>2
<1>2. ASSUME NEW m \in Nat, m \in P PROVE m + 1 \in P
  <2>1. PICK f : Raised(g, p, m, f)
        BY <1>2
  <2>2. PICK h : h = [n \in 0..(m + 1) |-> IF n = 0 THEN g ELSE RaiseMoney(f[n - 1], p)]
        OBVIOUS
  <2>3. \A n \in 0..m : h[n] = f[n]
        BY <2>1, <2>2 DEF Raised
  <2>4. \A n \in 0..(m + 1) : n # 0 => h[n - 1] = f[n - 1]
        BY <2>3
  <2>5. Raised(g, p, m + 1, h)
        BY <2>2, <2>4 DEF Raised
  <2>6. QED  BY <2>5
<1>3. Nat \subseteq P
  <2> HIDE DEF P
  <2> QED  BY <1>1, <1>2, SetInduction
<1>4. QED  BY <1>3

(* Liquidation keeps the state sound and changes nothing but cash,         *)
(* buildings and mortgages.                                                *)
LEMMA LiquidatedFacts ==
    ASSUME NEW g, Sound(g), NEW p \in Players, p \notin g.bankrupt
    PROVE  Sound(Liquidated(g, p)) /\ Managed(g, Liquidated(g, p))
<1>1. PICK N : N = (Hotel + 1) * Cardinality(Tiles)
      OBVIOUS
<1>2. N \in Nat
  <2>1. Hotel + 1 \in Nat /\ Cardinality(Tiles) \in Nat
        BY AmountTypes, TilesAssumption, FS_CardinalityType DEF Hotel
  <2>2. \A x, y \in Nat : x * y \in Nat
        OBVIOUS
  <2>3. QED  BY <1>1, <2>1, <2>2
<1>3. PICK f : f = CHOOSE h : Raised(g, p, N, h)
      OBVIOUS
<1>4. Raised(g, p, N, f)
      BY <1>2, <1>3, RaisedExists
<1>5. Liquidated(g, p) = f[N]
      BY <1>1, <1>3 DEF Liquidated, Raised
<1> DEFINE P == {n \in Nat : n <= N => Sound(f[n]) /\ Managed(g, f[n])}
<1>6. 0 \in P
  <2>1. f[0] = g
        BY <1>2, <1>4 DEF Raised
  <2>2. QED  BY <2>1 DEF Managed, SameTurn
<1>7. ASSUME NEW n \in Nat, n \in P PROVE n + 1 \in P
  <2>1. SUFFICES ASSUME n + 1 <= N
                 PROVE  Sound(f[n + 1]) /\ Managed(g, f[n + 1])
        OBVIOUS
  <2>2. f[n + 1] = RaiseMoney(f[n], p)
        BY <1>2, <1>4, <2>1 DEF Raised
  <2>3. PICK e : e = f[n]
        OBVIOUS
  <2>4. Sound(e) /\ Managed(g, e)
        BY <1>2, <1>7, <2>1, <2>3
  <2>5. p \notin e.bankrupt
        BY <2>4 DEF Managed, SameTurn
  <2>6. PICK h : h = RaiseMoney(e, p)
        OBVIOUS
  <2>7. Sound(h) /\ Managed(e, h)
        BY <2>4, <2>5, <2>6, RaiseMoneyFacts
  <2>8. Managed(g, h)
        BY <2>4, <2>7 DEF Managed, SameTurn
  <2>9. QED  BY <2>2, <2>3, <2>6, <2>7, <2>8
<1>8. Nat \subseteq P
  <2> HIDE DEF P
  <2> QED  BY <1>6, <1>7, SetInduction
<1>9. QED  BY <1>2, <1>5, <1>8

LEMMA AutoResolveFacts ==
    ASSUME NEW g, Sound(g), NEW p \in Players, CanAutoResolve(g, p)
    PROVE  Sound(AutoResolve(g, p)) /\ Passed(g, AutoResolve(g, p))
<1>1. g.debt # None /\ g.debt.by = p /\ g.phase = "awaiting_debt_resolution"
      BY DEF CanAutoResolve, ResolvingOwnDebt
<1>2. p \notin g.bankrupt
      BY <1>1 DEF Sound, Turns, Records, Finished, Active
<1>3. PICK h : h = Liquidated(g, p)
      OBVIOUS
<1>4. Sound(h) /\ Managed(g, h)
      BY <1>2, <1>3, LiquidatedFacts
<1>5. ResolvingOwnDebt(h, p) /\ h.turn = g.turn /\ h.current = g.current
      BY <1>1, <1>4 DEF ResolvingOwnDebt, Managed, SameTurn
<1>6. CASE DebtPayable(h)
  <2>1. CanPayDebt(h, p)
        BY <1>5, <1>6 DEF CanPayDebt
  <2>2. Sound(PayDebt(h, p)) /\ SameTurn(h, PayDebt(h, p))
        BY <1>4, <2>1, PayDebtFacts
  <2>3. AutoResolve(g, p) = PayDebt(h, p)
        BY <1>3, <1>6 DEF AutoResolve
  <2>4. QED  BY <1>5, <2>2, <2>3 DEF SameTurn, Passed
<1>7. CASE ~DebtPayable(h)
  <2>1. CanDeclareBankruptcy(h, p)
        BY <1>3, <1>7 DEF CanAutoResolve
  <2>2. Sound(DeclareBankruptcy(h, p)) /\ Passed(h, DeclareBankruptcy(h, p))
        BY <1>4, <2>1, BankruptcyFacts
  <2>3. AutoResolve(g, p) = DeclareBankruptcy(h, p)
        BY <1>3, <1>7 DEF AutoResolve
  <2>4. QED  BY <1>5, <2>2, <2>3 DEF Passed
<1>8. QED  BY <1>6, <1>7


---------------------------------------------------------------------------
(* Jail and trade intents *)

LEMMA JailFineFacts ==
    ASSUME NEW g, Sound(g), NEW p \in Players, CanPayJailFine(g, p)
    PROVE  Sound(PayJailFine(g, p)) /\ SameTurn(g, PayJailFine(g, p))
<1>1. PICK n \in Nat : n = JailFine
      BY AmountTypes
<1>2. PICK h : h = Debit(g, p, n)
      OBVIOUS
<1>3. CanPay(g, p, n) /\ p \notin g.bankrupt
      BY <1>1 DEF CanPayJailFine, IsCurrentTurn
<1>4. Sound(h) /\ Paid(g, h)
      BY <1>2, <1>3, DebitFacts
<1>5. Sound(Release(h, p)) /\ SameTurn(h, Release(h, p))
      BY <1>4, ReleaseFacts
<1>6. PayJailFine(g, p) = Release(h, p)
      BY <1>1, <1>2 DEF PayJailFine
<1>7. QED  BY <1>4, <1>5, <1>6 DEF Paid, SameTurn

LEMMA ReturnedCardFacts ==
    ASSUME NEW g, Sound(g), NEW p \in Players, NEW c \in g.cards[p]
    PROVE  LET h == [g EXCEPT !.cards[p] = @ \ {c}, !.deck = @ \cup {c}]
           IN  Sound(h) /\ SameTurn(g, h)
<1>1. g \in States /\ g.cards \in [Players -> SUBSET FreeCards] /\ g.deck \in SUBSET FreeCards
      BY FieldTypes DEF Sound
<1>2. PICK s : s = [g.cards EXCEPT ![p] = @ \ {c}]
      OBVIOUS
<1>3. PICK d : d = g.deck \cup {c}
      OBVIOUS
<1>4. /\ s \in [Players -> SUBSET FreeCards] /\ d \in SUBSET FreeCards
      /\ s[p] = g.cards[p] \ {c} /\ \A q \in Players : q # p => s[q] = g.cards[q]
      BY <1>1, <1>2, <1>3
<1> DEFINE h == [g EXCEPT !.cards = s, !.deck = d]
<1>5. h = [g EXCEPT !.cards[p] = @ \ {c}, !.deck = @ \cup {c}]
      BY <1>1, <1>2, <1>3 DEF States
<1>6. /\ h \in States
      /\ h.phase = g.phase /\ h.turn = g.turn /\ h.current = g.current
      /\ h.pending = g.pending /\ h.auction = g.auction /\ h.debt = g.debt
      /\ h.offer = g.offer /\ h.deck = d /\ h.cash = g.cash
      /\ h.jailed = g.jailed /\ h.jailTurns = g.jailTurns /\ h.cards = s
      /\ h.bankrupt = g.bankrupt /\ h.owner = g.owner /\ h.level = g.level
      /\ h.mortgaged = g.mortgaged
      BY <1>1, <1>4 DEF States
<1> HIDE DEF h
<1>7. Placed(h)
  <2>1. \A q, r \in Players : q # r => s[q] \cap s[r] = {}
        BY <1>4 DEF Sound, Placed
  <2>2. \A q \in Players : s[q] \cap d = {}
        BY <1>3, <1>4 DEF Sound, Placed
  <2>3. \A x \in FreeCards : x \notin d => \E q \in Players : x \in s[q]
        BY <1>3, <1>4 DEF Sound, Placed
  <2>4. QED  BY <1>6, <2>1, <2>2, <2>3 DEF Placed
<1>8. Holdings(h)
  <2>1. p \notin g.bankrupt
        BY DEF Sound, Holdings
  <2>2. g.bankrupt \subseteq Players
        BY <1>1, FieldTypes
  <2>3. QED  BY <1>4, <1>6, <2>1, <2>2 DEF Sound, Holdings
<1>9. Sound(h) /\ SameTurn(g, h)
      BY <1>6, <1>7, <1>8, PartsKept DEF Sound, SameTurn
<1>10. QED  BY <1>5, <1>9

LEMMA UseCardFacts ==
    ASSUME NEW g, Sound(g), NEW p \in Players, NEW c, CanUseCard(g, p, c)
    PROVE  Sound(UseCard(g, p, c)) /\ SameTurn(g, UseCard(g, p, c))
<1>1. c \in g.cards[p]
      BY DEF CanUseCard
<1>2. PICK h : h = [g EXCEPT !.cards[p] = @ \ {c}, !.deck = @ \cup {c}]
      OBVIOUS
<1>3. Sound(h) /\ SameTurn(g, h)
      BY <1>1, <1>2, ReturnedCardFacts
<1>4. Sound(Release(h, p)) /\ SameTurn(h, Release(h, p))
      BY <1>3, ReleaseFacts
<1>5. UseCard(g, p, c) = Release(h, p)
      BY <1>2 DEF UseCard
<1>6. QED  BY <1>3, <1>4, <1>5 DEF SameTurn

LEMMA DropFacts ==
    ASSUME NEW g, Sound(g)
    PROVE  Sound(DropOffer(g)) /\ SameTurn(g, DropOffer(g))
<1>1. PICK o \in Offers \cup {None} : o = None
      OBVIOUS
<1>2. Sound([g EXCEPT !.offer = o]) /\ SameTurn(g, [g EXCEPT !.offer = o])
      BY <1>1, OfferFacts
<1>3. DropOffer(g) = [g EXCEPT !.offer = o]
      BY <1>1 DEF DropOffer
<1>4. QED  BY <1>2, <1>3


---------------------------------------------------------------------------
(* The initial state and the steps *)

LEMMA InitSound == Init => Sound(game)
<1>1. SUFFICES ASSUME Init PROVE Sound(game)
      OBVIOUS
<1>2. PICK g : g = game
      OBVIOUS
<1>3. Min(Players) \in Players /\ Players \subseteq Nat
  <2>1. Players \subseteq Nat /\ Players # {}
        BY PlayersAssumption, FS_EmptySet
  <2>2. QED  BY <2>1, MinFacts
<1>4. PICK x \in Phases, c \in Players, n \in 0..2, b \in BOOLEAN :
          x = "awaiting_first_turn" /\ c = Min(Players) /\ n = 0 /\ b = FALSE
  <2>1. "awaiting_first_turn" \in Phases
        BY DEF Phases, TradePhases, RollPhases
  <2>2. PICK b \in BOOLEAN : b = FALSE
        OBVIOUS
  <2>3. PICK n \in 0..2 : n = 0
        OBVIOUS
  <2>4. QED  BY <1>3, <2>1, <2>2, <2>3
<1>5. PICK k \in [Players -> Nat], j \in [Players -> 0..MaxJailTurns],
           s \in [Players -> SUBSET FreeCards], w \in [Tiles -> Players \cup {None}],
           l \in [Tiles -> 0..Hotel] :
          /\ k = [p \in Players |-> StartCash] /\ j = [p \in Players |-> 0]
          /\ s = [p \in Players |-> {}] /\ w = [t \in Tiles |-> None]
          /\ l = [t \in Tiles |-> 0]
  <2>1. [p \in Players |-> StartCash] \in [Players -> Nat]
        BY AmountTypes
  <2>2. [p \in Players |-> 0] \in [Players -> 0..MaxJailTurns]
        BY AmountTypes
  <2>3. [p \in Players |-> {}] \in [Players -> SUBSET FreeCards]
        OBVIOUS
  <2>4. [t \in Tiles |-> None] \in [Tiles -> Players \cup {None}]
        OBVIOUS
  <2>5. [t \in Tiles |-> 0] \in [Tiles -> 0..Hotel]
        BY AmountTypes DEF Hotel
  <2>6. QED  BY <2>1, <2>2, <2>3, <2>4, <2>5
<1>6. g = [phase |-> x, turn |-> 1, current |-> c, doubles |-> n, again |-> b,
           pending |-> None, auction |-> None, debt |-> None, offer |-> None,
           deck |-> FreeCards, cash |-> k, jailed |-> {}, jailTurns |-> j, cards |-> s,
           bankrupt |-> {}, owner |-> w, level |-> l, mortgaged |-> {}]
      BY <1>1, <1>2, <1>4, <1>5 DEF Init, InitialGame
<1>7. g \in States
      BY <1>4, <1>5, <1>6 DEF States
<1>8. /\ g.phase = "awaiting_first_turn" /\ g.current \in Players /\ g.bankrupt = {}
      /\ g.pending = None /\ g.auction = None /\ g.debt = None /\ g.jailed = {}
      /\ g.deck = FreeCards /\ g.mortgaged = {}
      /\ \A p \in Players : g.cards[p] = {}
      BY <1>4, <1>5, <1>6
<1>9. Turns(g)
  <2>1. Active(g) = Players /\ Players \cap Humans # {}
        BY <1>8, HumansAssumption DEF Active
  <2>2. QED  BY <1>8, <2>1, PlayersAssumption DEF Turns
<1>10. Records(g) /\ Prisoners(g) /\ Penniless(g) /\ Holdings(g) /\ Placed(g) /\ Unmixed(g)
      BY <1>8 DEF Records, Prisoners, Penniless, Holdings, Placed, Unmixed, Finished
<1>11. Bare(g)
  <2>1. \A t \in Tiles : g.level[t] = 0
        BY <1>5, <1>6
  <2>2. QED  BY <1>8, <2>1 DEF Bare
<1>12. QED  BY <1>2, <1>7, <1>8, <1>9, <1>10, <1>11 DEF Sound

LEMMA SameTurnPassed ==
    ASSUME NEW g, NEW h, SameTurn(g, h)
    PROVE  Passed(g, h)
BY DEF SameTurn, Passed

LEMMA OfferTypes ==
    ASSUME NEW g, Sound(g), NEW p \in Players, NEW o,
           o \in [from : {p}, to : Players, give : TradeCash, want : TradeCash,
                  offered : SUBSET Owned(g, p), requested : SUBSET Tiles]
    PROVE  o \in Offers
<1>1. TradeCash \subseteq Nat /\ Owned(g, p) \subseteq Tiles
      BY InputAssumption DEF Owned
<1>2. QED  BY <1>1 DEF Offers

LEMMA NextSound ==
    ASSUME Sound(game), Next
    PROVE  Sound(game') /\ Passed(game, game')
<1>1. CASE FinishIntent
  <2>1. game' = Finish(game)
        BY <1>1 DEF FinishIntent, Apply
  <2>2. QED  BY <2>1, FinishIntentFacts
<1>2. ASSUME NEW p \in Players,
             \/ RollAndMoveIntent(p)
             \/ BuyIntent(p) \/ DeclineIntent(p) \/ BidIntent(p) \/ PassIntent(p)
             \/ BuildIntent(p) \/ SellIntent(p) \/ MortgageIntent(p) \/ UnmortgageIntent(p)
             \/ ProposeIntent(p) \/ AcceptIntent(p) \/ DropIntent(p)
             \/ BankruptcyIntent(p) \/ PayDebtIntent(p) \/ AutoResolveIntent(p)
             \/ JailFineIntent(p) \/ JailCardIntent(p) \/ EndTurnIntent(p)
      PROVE  Sound(game') /\ Passed(game, game')
  <2>1. CASE RollAndMoveIntent(p)
    <3>1. PICK roll \in Rolls(game) : game' = RollAndMove(game, p, roll)
          BY <2>1 DEF RollAndMoveIntent, Apply
    <3>2. CanRoll(game, p)
          BY <2>1 DEF RollAndMoveIntent
    <3>3. Sound(RollAndMove(game, p, roll)) /\ SameTurn(game, RollAndMove(game, p, roll))
          BY <3>2, RollFacts DEF Rolled
    <3>4. QED  BY <3>1, <3>3, SameTurnPassed
  <2>2. CASE BuyIntent(p)
    <3>1. CanBuy(game, p) /\ game' = BuyProperty(game, p)
          BY <2>2 DEF BuyIntent, Apply
    <3>2. QED  BY <3>1, BuyFacts, SameTurnPassed
  <2>3. CASE DeclineIntent(p)
    <3>1. CanDecide(game, p) /\ game' = Decline(game)
          BY <2>3 DEF DeclineIntent, Apply
    <3>2. QED  BY <3>1, DeclineFacts, SameTurnPassed
  <2>4. CASE BidIntent(p)
    <3>1. PICK n \in MinBid..MaxCash : CanBid(game, p, n) /\ game' = PlaceBid(game, p, n)
          BY <2>4 DEF BidIntent, Apply
    <3>2. n \in Nat
          BY AmountTypes, BoundAssumption
    <3>3. QED  BY <3>1, <3>2, BidFacts, SameTurnPassed
  <2>5. CASE PassIntent(p)
    <3>1. CanPass(game, p) /\ game' = PassBid(game, p)
          BY <2>5 DEF PassIntent, Apply
    <3>2. QED  BY <3>1, PassFacts, SameTurnPassed
  <2>6. CASE BuildIntent(p)
    <3>1. PICK t \in Tiles : CanBuild(game, p, t) /\ game' = Build(game, p, t)
          BY <2>6 DEF BuildIntent, Apply
    <3>2. QED  BY <3>1, BuildFacts, SameTurnPassed
  <2>7. CASE SellIntent(p)
    <3>1. PICK t \in Tiles : CanSell(game, p, t) /\ game' = Sell(game, p, t)
          BY <2>7 DEF SellIntent, Apply
    <3>2. p \notin game.bankrupt /\ game.level[t] > 0
          BY <3>1 DEF CanSell, CanRaiseMoney, IsCurrentTurn
    <3>3. QED  BY <3>1, <3>2, SellFacts, SameTurnPassed DEF Managed
  <2>8. CASE MortgageIntent(p)
    <3>1. PICK t \in Tiles : CanMortgage(game, p, t) /\ game' = Mortgage(game, p, t)
          BY <2>8 DEF MortgageIntent, Apply
    <3>2. p \notin game.bankrupt /\ game.owner[t] # None /\ ~Built(game, SetOf(t))
          BY <3>1, NoneAssumption DEF CanMortgage, CanRaiseMoney, IsCurrentTurn
    <3>3. QED  BY <3>1, <3>2, MortgageFacts, SameTurnPassed DEF Managed
  <2>9. CASE UnmortgageIntent(p)
    <3>1. PICK t \in Tiles : CanUnmortgage(game, p, t) /\ game' = Unmortgage(game, p, t)
          BY <2>9 DEF UnmortgageIntent, Apply
    <3>2. QED  BY <3>1, UnmortgageFacts, SameTurnPassed
  <2>10. CASE ProposeIntent(p)
    <3>1. PICK o \in [from : {p}, to : Players, give : TradeCash, want : TradeCash,
                      offered : SUBSET Owned(game, p), requested : SUBSET Tiles] :
            /\ ValidTrade(game, o)
            /\ \/ game' = Offer(game, o)
               \/ game' = AcceptOffer(game, o)
               \/ game' = DropOffer(game)
          BY <2>10 DEF ProposeIntent, Apply
    <3>2. o \in Offers
          BY OfferTypes
    <3>3. ~Finished(game)
          BY <2>10 DEF ProposeIntent, CanTrade, Finished, TradePhases, RollPhases
    <3>4. CASE game' = Offer(game, o)
          BY <3>2, <3>3, <3>4, OfferFacts, SameTurnPassed DEF Offer
    <3>5. CASE game' = AcceptOffer(game, o)
          BY <3>1, <3>2, <3>5, AcceptFacts, SameTurnPassed
    <3>6. CASE game' = DropOffer(game)
          BY <3>6, DropFacts, SameTurnPassed
    <3>7. QED  BY <3>1, <3>4, <3>5, <3>6
  <2>11. CASE AcceptIntent(p)
    <3>1. PICK o : o = game.offer
          OBVIOUS
    <3>2. o # None /\ ValidTrade(game, o) /\ game' = AcceptOffer(game, o)
          BY <2>11, <3>1 DEF AcceptIntent, Apply
    <3>3. o \in Offers
          BY <3>1, <3>2, FieldTypes DEF Sound
    <3>4. QED  BY <3>2, <3>3, AcceptFacts, SameTurnPassed
  <2>12. CASE DropIntent(p)
    <3>1. game' = DropOffer(game)
          BY <2>12 DEF DropIntent, Apply
    <3>2. QED  BY <3>1, DropFacts, SameTurnPassed
  <2>13. CASE BankruptcyIntent(p)
    <3>1. CanDeclareBankruptcy(game, p) /\ game' = DeclareBankruptcy(game, p)
          BY <2>13 DEF BankruptcyIntent, Apply
    <3>2. QED  BY <3>1, BankruptcyFacts
  <2>14. CASE PayDebtIntent(p)
    <3>1. CanPayDebt(game, p) /\ game' = PayDebt(game, p)
          BY <2>14 DEF PayDebtIntent, Apply
    <3>2. QED  BY <3>1, PayDebtFacts, SameTurnPassed
  <2>15. CASE AutoResolveIntent(p)
    <3>1. CanAutoResolve(game, p) /\ game' = AutoResolve(game, p)
          BY <2>15 DEF AutoResolveIntent, Apply
    <3>2. QED  BY <3>1, AutoResolveFacts
  <2>16. CASE JailFineIntent(p)
    <3>1. CanPayJailFine(game, p) /\ game' = PayJailFine(game, p)
          BY <2>16 DEF JailFineIntent, Apply
    <3>2. QED  BY <3>1, JailFineFacts, SameTurnPassed
  <2>17. CASE JailCardIntent(p)
    <3>1. PICK c \in FreeCards : CanUseCard(game, p, c) /\ game' = UseCard(game, p, c)
          BY <2>17 DEF JailCardIntent, Apply
    <3>2. QED  BY <3>1, UseCardFacts, SameTurnPassed
  <2>18. CASE EndTurnIntent(p)
    <3>1. CanEndTurn(game, p) /\ game' = EndTurn(game)
          BY <2>18 DEF EndTurnIntent, Apply
    <3>2. QED  BY <3>1, EndTurnFacts
  <2>19. QED  BY <1>2, <2>1, <2>2, <2>3, <2>4, <2>5, <2>6, <2>7, <2>8, <2>9, <2>10, <2>11,
                 <2>12, <2>13, <2>14, <2>15, <2>16, <2>17, <2>18
<1>3. QED  BY <1>1, <1>2 DEF Next

Inv == Sound(game)

LEMMA InvStep == Inv /\ [Next]_game => Inv'
<1>1. CASE Inv /\ Next
      BY <1>1, NextSound DEF Inv
<1>2. CASE Inv /\ UNCHANGED game
      BY <1>2 DEF Inv
<1>3. QED  BY <1>1, <1>2

(* The engine never leaves the sound states.                               *)
THEOREM Soundness == Spec => []Inv
<1>1. Init => Inv
      BY InitSound DEF Inv
<1>2. Inv /\ [Next]_game => Inv'
      BY InvStep
<1>3. QED  BY <1>1, <1>2, PTL DEF Spec

---------------------------------------------------------------------------
(* The properties *)

(* Every field of the state keeps its type through every intent: nobody    *)
(* pays more than it has and no tile gets more buildings than a hotel.     *)
THEOREM TypeCorrect == Spec => []TypeOK
<1>1. Inv => TypeOK
      BY DEF Inv, Sound, TypeOK
<1>2. QED  BY <1>1, Soundness, PTL

(* An unfinished game has two players left, one of them human, and the     *)
(* turn is with a player who is still in the game.                         *)
THEOREM TurnHolder == Spec => []TurnHolderActive
<1>1. Inv => TurnHolderActive
      BY DEF Inv, Sound, Turns, TurnHolderActive
<1>2. QED  BY <1>1, Soundness, PTL

(* The phase says which of pending tile, auction and debt is open.         *)
THEOREM PhasesAgree == Spec => []PhaseMatchesRecords
<1>1. Inv => PhaseMatchesRecords
      BY DEF Inv, Sound, Records, Prisoners, PhaseMatchesRecords
<1>2. QED  BY <1>1, Soundness, PTL

(* In an open auction a bidder who may still bid has the turn, and the     *)
(* highest bidder has not passed.                                          *)
THEOREM AuctionsOpen == Spec => []AuctionOpen
<1>1. Inv => AuctionOpen
      BY DEF Inv, Sound, Bidding, AuctionOpen
<1>2. QED  BY <1>1, Soundness, PTL

(* A bankrupt player has no tile and no card and is not in jail.           *)
THEOREM BankruptsHoldNothing == Spec => []BankruptHoldNothing
<1>1. Inv => BankruptHoldNothing
      BY DEF Inv, Sound, Holdings, BankruptHoldNothing, Owned
<1>2. QED  BY <1>1, Soundness, PTL

(* A free card is in the deck or with exactly one player.                  *)
THEOREM CardsConserved == Spec => []FreeCardsConserved
<1>1. ASSUME Inv PROVE FreeCardsConserved
  <2>1. Placed(game)
        BY <1>1 DEF Inv, Sound
  <2>2. ASSUME NEW c \in FreeCards
        PROVE  Cardinality({p \in Players : c \in game.cards[p]})
                 = IF c \in game.deck THEN 0 ELSE 1
    <3>1. PICK H : H = {p \in Players : c \in game.cards[p]}
          OBVIOUS
    <3>2. CASE c \in game.deck
      <4>1. H = {}
            BY <2>1, <3>1, <3>2 DEF Placed
      <4>2. QED  BY <3>1, <3>2, <4>1, FS_EmptySet
    <3>3. CASE c \notin game.deck
      <4>1. PICK p \in Players : c \in game.cards[p]
            BY <2>1, <3>3 DEF Placed
      <4>2. H = {p}
            BY <2>1, <3>1, <4>1 DEF Placed
      <4>3. Cardinality({p}) = 1
            BY FS_Singleton
      <4>4. QED  BY <3>1, <3>3, <4>2, <4>3
    <3>4. QED  BY <3>2, <3>3
  <2>3. QED  BY <2>2 DEF FreeCardsConserved
<1>2. QED  BY <1>1, Soundness, PTL

(* No set has a building and a mortgage, whatever trades and bankruptcies  *)
(* did to it.                                                              *)
THEOREM NoMixedSets == Spec => []NoMortgageBesideBuildings
<1>1. Inv => NoMortgageBesideBuildings
      BY DEF Inv, Sound, Unmixed, NoMortgageBesideBuildings
<1>2. QED  BY <1>1, Soundness, PTL

(* The turn passes to the next seat that is still in the game, at the end  *)
(* of a turn and at a bankruptcy.                                          *)
THEOREM TurnOrder == Spec => NobodySkipped
<1>1. Inv /\ [Next]_game =>
        [game'.turn # game.turn =>
            /\ game'.turn = game.turn + 1
            /\ game'.current = SeatAfter(Players \ game'.bankrupt, game.current)]_game
      BY NextSound DEF Inv, Passed
<1>2. QED  BY <1>1, Soundness, PTL DEF Spec, NobodySkipped


===========================================================================
