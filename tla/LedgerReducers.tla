--------------------------- MODULE LedgerReducers ---------------------------
(***************************************************************************)
(* The event-sourced ledger (weatherbot/domain): the state that            *)
(* LedgerState keeps and, for each kind of event, the reducer of           *)
(* reducers.py as two operators.  CanX(L, ...) says that the reducer       *)
(* accepts the event in ledger L, that is, does not raise; X(L, ...) is    *)
(* the ledger it returns.                                                  *)
(*                                                                         *)
(* Decimals are counted in quanta, Unit of them to one (10^6 in            *)
(* money.py), so prices, payouts and quantities are integers.  A quotient  *)
(* of decimals has 28 digits, Precision steps to one.                      *)
(***************************************************************************)
EXTENDS Integers, FiniteSets, FiniteSetsExt, Optional

CONSTANTS
  Intents,        \* order intent ids
  Terms,          \* the immutable data of each OrderIntent
  Markets,
  Outcomes,
  PayoutVectors,  \* possible MarketResolution.payouts: outcome -> payout
  Unit,           \* quanta in one
  Precision       \* a quotient is rounded to multiples of 1 / Precision

Keys == Markets \X Outcomes

ASSUME FiniteAssumption == IsFiniteSet(Intents) /\ IsFiniteSet(Keys)
ASSUME UnitAssumption == Unit \in Nat \ {0} /\ Precision \in Nat \ {0}
ASSUME TermsAssumption ==
  Terms \in [Intents -> [side: {"buy", "sell"}, key: Keys, quantity: Nat \ {0},
                         limit: 1 .. Unit, fee: Nat]]
ASSUME SellFeeAssumption == \A i \in Intents : Terms[i].side = "sell" => Terms[i].fee = 0
ASSUME PayoutAssumption ==
  \A p \in PayoutVectors : DOMAIN p \subseteq Outcomes /\ \A o \in DOMAIN p : p[o] \in 0 .. Unit
ASSUME NonePayoutAssumption == None \notin PayoutVectors

-----------------------------------------------------------------------------
(* Decimal.quantize with ROUND_HALF_EVEN, of n / d. *)
HalfEven(n, d) ==
  LET q == n \div d  r == n % d IN
  IF 2 * r < d \/ (2 * r = d /\ q % 2 = 0) THEN q ELSE q + 1

(* money_from_unit_price *)
Value(price, quantity) == HalfEven(price * quantity, Unit)

(* The order life cycle. *)
Terminal == {"filled", "rejected", "cancelled"}
OrderStates == Terminal \cup
  {"none", "created", "submitted", "acknowledged", "partially_filled", "unknown"}

AllowedTransitions ==
  ({"created"} \X {"submitted", "rejected", "cancelled"})
  \cup ({"submitted", "unknown"} \X ({"acknowledged", "partially_filled", "unknown"} \cup Terminal))
  \cup ({"acknowledged", "partially_filled"} \X
           {"partially_filled", "filled", "cancelled", "unknown"})

(* A fill, as its delivery_fingerprint identifies it. *)
FillData == [id: Nat, quantity: Nat \ {0}, price: 1 .. Unit, fee: Nat]

Order == [state: OrderStates, filled: Nat, gross: Nat, fees: Nat,
          cash: Nat,                 \* reserved_cash
          quantity: Nat,             \* reserved_quantity
          fills: SUBSET FillData]
NoOrder == [state |-> "none", filled |-> 0, gross |-> 0, fees |-> 0,
            cash |-> 0, quantity |-> 0, fills |-> {}]

Position == [status: {"none", "open", "settled"}, quantity: Nat, reserved: Nat,
             cost: Nat, pnl: Int]
NoPosition == [status |-> "none", quantity |-> 0, reserved |-> 0, cost |-> 0, pnl |-> 0]

LedgerState ==
  [opened: BOOLEAN, cash: Nat, reserved: Nat,
   orders: [Intents -> Order], positions: [Keys -> Position],
   resolutions: [Markets -> PayoutVectors \cup {None}],
   evidence: [Markets -> PayoutVectors \cup {None}]]

Empty == [opened |-> FALSE, cash |-> 0, reserved |-> 0,
          orders |-> [i \in Intents |-> NoOrder],
          positions |-> [k \in Keys |-> NoPosition],
          resolutions |-> [m \in Markets |-> None],
          evidence |-> [m \in Markets |-> None]]

IsBuy(i) == Terms[i].side = "buy"
AvailableCash(L) == L.cash - L.reserved
Remaining(L, i) == Terms[i].quantity - L.orders[i].filled
FeeLeft(L, i) == Terms[i].fee - L.orders[i].fees

-----------------------------------------------------------------------------
(* LedgerState.assert_invariants, run on the result of every reducer. *)

OrderSound(L, i) ==
  LET o == L.orders[i] IN
  o.state # "none" =>
    /\ o.filled <= Terms[i].quantity
    /\ o.cash >= 0 /\ o.quantity >= 0
    /\ o.state \in Terminal => o.cash = 0 /\ o.quantity = 0
    /\ IF IsBuy(i)
       THEN /\ o.quantity = 0
            /\ FeeLeft(L, i) >= 0
            /\ o.state \notin Terminal =>
                 o.cash = Value(Terms[i].limit, Remaining(L, i)) + FeeLeft(L, i)
       ELSE /\ o.cash = 0
            /\ o.state \notin Terminal => o.quantity = Remaining(L, i)

CashReserved(L) == SumFunction([i \in Intents |-> L.orders[i].cash])
QuantityReserved(L, k) ==
  SumFunction([i \in {j \in Intents : Terms[j].key = k} |-> L.orders[i].quantity])

PositionSound(L, k) ==
  LET p == L.positions[k] IN
  /\ 0 <= p.reserved /\ p.reserved <= p.quantity
  /\ p.cost >= 0
  /\ p.reserved = QuantityReserved(L, k)
  /\ p.status = "settled" => p.quantity = 0 /\ p.cost = 0

EvidenceAgrees(L) ==
  \A m \in Markets :
     L.evidence[m] # None /\ L.resolutions[m] # None => L.evidence[m] = L.resolutions[m]

BooksSound(L) ==
  /\ L.cash >= 0 /\ L.reserved >= 0
  /\ L.reserved = CashReserved(L)
  /\ \A i \in Intents : OrderSound(L, i)
  /\ \A k \in Keys : PositionSound(L, k)
  /\ EvidenceAgrees(L)

AssertInvariants(L) ==
  /\ BooksSound(L)
  /\ AvailableCash(L) >= 0
  /\ ~L.opened => L = Empty

-----------------------------------------------------------------------------
(* _apply_account_opened *)
CanOpen(L) == ~L.opened
Open(L, amount) == [L EXCEPT !.opened = TRUE, !.cash = amount]

(* _apply_intent_created, OrderAggregate.new, cash_reservation.  An intent  *)
(* that exists is returned unchanged or refused.                            *)
CashReservation(i) ==
  IF IsBuy(i) THEN Value(Terms[i].limit, Terms[i].quantity) + Terms[i].fee ELSE 0

NewOrder(i) ==
  [NoOrder EXCEPT !.state = "created", !.cash = CashReservation(i),
                  !.quantity = IF IsBuy(i) THEN 0 ELSE Terms[i].quantity]

CanCreate(L, i) ==
  LET p == L.positions[Terms[i].key] IN
  /\ L.opened
  /\ L.orders[i].state = "none"
  /\ IF IsBuy(i) THEN AvailableCash(L) >= CashReservation(i)
     ELSE p.status = "open" /\ p.quantity - p.reserved >= Terms[i].quantity

Create(L, i) ==
  IF IsBuy(i)
  THEN [L EXCEPT !.orders[i] = NewOrder(i), !.reserved = @ + CashReservation(i)]
  ELSE [L EXCEPT !.orders[i] = NewOrder(i),
                 !.positions[Terms[i].key].reserved = @ + Terms[i].quantity]

(* _apply_submitted, _apply_acknowledged, _apply_unknown.  Only a created   *)
(* order is submitted, so it has no other backend_order_id yet.             *)
CanMove(L, i, target) == <<L.orders[i].state, target>> \in AllowedTransitions
Move(L, i, target) == [L EXCEPT !.orders[i].state = target]

(* _release_reservations *)
CanRelease(L, i) ==
  ~IsBuy(i) => L.positions[Terms[i].key].status # "none"
               /\ L.positions[Terms[i].key].reserved >= L.orders[i].quantity

(* Mutant: the order forgets its reservation, the account does not. *)
ReleaseOrderOnly(L, i) ==
  IF IsBuy(i) THEN [L EXCEPT !.orders[i].cash = 0] ELSE [L EXCEPT !.orders[i].quantity = 0]

Release(L, i) ==
  IF IsBuy(i)
  THEN [L EXCEPT !.reserved = @ - L.orders[i].cash, !.orders[i].cash = 0]
  ELSE [L EXCEPT !.positions[Terms[i].key].reserved = @ - L.orders[i].quantity,
                 !.orders[i].quantity = 0]

(* _apply_terminal: a rejection or a cancellation *)
CanTerminate(L, i, target) == CanMove(L, i, target) /\ CanRelease(L, i)
Terminate(L, i, target) == Move(Release(L, i), i, target)

-----------------------------------------------------------------------------
(* _apply_buy_fill *)
Debit(f) == Value(f.price, f.quantity) + f.fee
ReservationAfter(L, i, f) ==
  Value(Terms[i].limit, Remaining(L, i) - f.quantity) + (FeeLeft(L, i) - f.fee)

(* Mutant: a late fill reopens a settled position. *)
CanBuyFillSettled(L, i, f) ==
  /\ f.price <= Terms[i].limit
  /\ f.fee <= FeeLeft(L, i)
  /\ ReservationAfter(L, i, f) <= L.orders[i].cash
  /\ Debit(f) <= L.cash

CanBuyFill(L, i, f) ==
  /\ f.price <= Terms[i].limit
  /\ f.fee <= FeeLeft(L, i)
  /\ ReservationAfter(L, i, f) <= L.orders[i].cash
  /\ Debit(f) <= L.cash
  /\ L.positions[Terms[i].key].status # "settled"

BuyFill(L, i, f) ==
  LET p == L.positions[Terms[i].key]
      after == ReservationAfter(L, i, f) IN
  [L EXCEPT !.cash = @ - Debit(f),
            !.reserved = @ - (L.orders[i].cash - after),
            !.orders[i].cash = after,
            !.positions[Terms[i].key] =
               [@ EXCEPT !.status = "open", !.quantity = p.quantity + f.quantity,
                         !.cost = p.cost + Debit(f)]]

(* _apply_sell_fill.  The cost of the part sold is the cost basis scaled by *)
(* the quotient of the quantities, which has been rounded itself: a tie in  *)
(* the exact cost may go either way.                                        *)
AllocatedCost(p, quantity) ==
  IF quantity = p.quantity THEN p.cost
  ELSE HalfEven(p.cost * HalfEven(quantity * Precision, p.quantity), Precision)

CanSellFill(L, i, f) ==
  LET p == L.positions[Terms[i].key] IN
  /\ f.price >= Terms[i].limit
  /\ p.status = "open"
  /\ f.quantity <= p.quantity /\ f.quantity <= p.reserved
  /\ f.quantity <= L.orders[i].quantity
  /\ f.fee <= Value(f.price, f.quantity)

(* Mutant: the fee is not taken off the profit. *)
SellFillGrossProfit(L, i, f) ==
  LET p == L.positions[Terms[i].key]
      gross == Value(f.price, f.quantity)
      cost == AllocatedCost(p, f.quantity) IN
  [L EXCEPT !.cash = @ + gross - f.fee,
            !.orders[i].quantity = @ - f.quantity,
            !.positions[Terms[i].key] =
               [@ EXCEPT !.quantity = p.quantity - f.quantity,
                         !.reserved = p.reserved - f.quantity,
                         !.cost = p.cost - cost,
                         !.pnl = p.pnl + gross - cost]]

SellFill(L, i, f) ==
  LET p == L.positions[Terms[i].key]
      net == Value(f.price, f.quantity) - f.fee
      cost == AllocatedCost(p, f.quantity) IN
  [L EXCEPT !.cash = @ + net,
            !.orders[i].quantity = @ - f.quantity,
            !.positions[Terms[i].key] =
               [@ EXCEPT !.quantity = p.quantity - f.quantity,
                         !.reserved = p.reserved - f.quantity,
                         !.cost = IF f.quantity = p.quantity THEN 0 ELSE p.cost - cost,
                         !.pnl = p.pnl + net - cost]]

(* _apply_fill.  A fill_id the order has seen changes nothing, whatever the *)
(* event that carries it.                                                   *)
FillTarget(L, i, f) == IF f.quantity = Remaining(L, i) THEN "filled" ELSE "partially_filled"

(* Mutant: a fill that was reported before is booked again. *)
CanFillAgain(L, i, f) ==
  /\ f.quantity <= Remaining(L, i)
  /\ CanMove(L, i, FillTarget(L, i, f))
  /\ IF IsBuy(i) THEN CanBuyFill(L, i, f) ELSE CanSellFill(L, i, f)

CanFill(L, i, f) ==
  /\ f.id \notin {g.id : g \in L.orders[i].fills}
  /\ f.quantity <= Remaining(L, i)
  /\ CanMove(L, i, FillTarget(L, i, f))
  /\ IF IsBuy(i) THEN CanBuyFill(L, i, f) ELSE CanSellFill(L, i, f)

Booked(L, i, f) ==
  LET M == IF IsBuy(i) THEN BuyFill(L, i, f) ELSE SellFill(L, i, f)
      o == M.orders[i] IN
  [M EXCEPT !.orders[i] =
      [@ EXCEPT !.state = FillTarget(L, i, f), !.filled = o.filled + f.quantity,
                !.gross = o.gross + Value(f.price, f.quantity), !.fees = o.fees + f.fee,
                !.fills = o.fills \cup {f}]]

Fill(L, i, f) ==
  IF FillTarget(L, i, f) = "filled" THEN Release(Booked(L, i, f), i) ELSE Booked(L, i, f)

-----------------------------------------------------------------------------
(* _apply_resolution_evidence *)
CanRecordEvidence(L, m, p) ==
  L.opened /\ L.evidence[m] = None /\ L.resolutions[m] \in {None, p}

RecordEvidence(L, m, p) == [L EXCEPT !.evidence[m] = p]

(* _apply_resolution *)
CanResolve(L, m, p) == L.evidence[m] \in {None, p} /\ L.resolutions[m] = None
Resolve(L, m, p) == [L EXCEPT !.resolutions[m] = p]

(* _apply_settlement *)
Proceeds(L, k) == Value(L.resolutions[k[1]][k[2]], L.positions[k].quantity)

CanSettle(L, k, fee) ==
  LET p == L.positions[k] IN
  /\ p.status = "open" /\ p.quantity > 0 /\ p.reserved = 0
  /\ L.resolutions[k[1]] # None
  /\ k[2] \in DOMAIN L.resolutions[k[1]]
  /\ fee <= Proceeds(L, k)

Settle(L, k, fee) ==
  LET p == L.positions[k]
      net == Proceeds(L, k) - fee IN
  [L EXCEPT !.cash = @ + net,
            !.positions[k] = [@ EXCEPT !.status = "settled", !.quantity = 0, !.reserved = 0,
                                       !.cost = 0, !.pnl = p.pnl + net - p.cost]]
=============================================================================
