---------------------------- MODULE LedgerProofs ----------------------------
(***************************************************************************)
(* Theorems about Ledger, proved for all intents, markets, payouts, fills, *)
(* fees and deposits, as long as the orders and the positions are finitely *)
(* many.  Each reducer's result is described field by field (Created,      *)
(* Filled, Settled, ...) and shown to be a ledger over the integers; that  *)
(* its amounts are not negative is what assert_invariants adds.  Frame     *)
(* says what an event about order i leaves alone.  From these descriptions *)
(* follow how each sum over orders, fills and positions changes.           *)
(***************************************************************************)
EXTENDS Ledger, DataFacts

IntPosition == [status: {"none", "open", "settled"}, quantity: Int, reserved: Int,
                cost: Int, pnl: Int]

IntLedger ==
  [opened: BOOLEAN, cash: Int, reserved: Int,
   orders: [Intents -> Order], positions: [Keys -> IntPosition],
   resolutions: [Markets -> PayoutVectors \cup {None}],
   evidence: [Markets -> PayoutVectors \cup {None}]]

Frame(L, N, i) ==
  /\ \A j \in Intents : j # i => N.orders[j] = L.orders[j]
  /\ \A k \in Keys : L.positions[k].status = "settled" => N.positions[k] = L.positions[k]
  /\ N.evidence = L.evidence
  /\ N.resolutions = L.resolutions

(* N differs from L in order i, in position k and in the amounts only. *)
Local(L, N, i, k) ==
  /\ N.opened = L.opened /\ N.evidence = L.evidence /\ N.resolutions = L.resolutions
  /\ \A j \in Intents : j # i => N.orders[j] = L.orders[j]
  /\ \A l \in Keys : l # k => N.positions[l] = L.positions[l]

(* An order and a position, field by field. *)
OrderIs(o, state, filled, fees, cash, quantity, fills) ==
  /\ o.state = state /\ o.filled = filled /\ o.fees = fees
  /\ o.cash = cash /\ o.quantity = quantity /\ o.fills = fills

PositionIs(p, status, quantity, reserved, cost, pnl) ==
  /\ p.status = status /\ p.quantity = quantity /\ p.reserved = reserved
  /\ p.cost = cost /\ p.pnl = pnl

(* A settled position has nothing reserved. *)
SettledFree(L) ==
  \A k \in Keys : L.positions[k].status = "settled" => L.positions[k].reserved = 0

(* What ClosedForGood says of one step. *)
Kept(L, N) ==
  /\ \A i \in Intents : L.orders[i].state \in Terminal => N.orders[i] = L.orders[i]
  /\ \A k \in Keys : L.positions[k].status = "settled" => N.positions[k] = L.positions[k]
  /\ \A m \in Markets :
       /\ L.evidence[m] # None => N.evidence[m] = L.evidence[m]
       /\ L.resolutions[m] # None => N.resolutions[m] = L.resolutions[m]

-----------------------------------------------------------------------------
(* Rounding a non-negative quotient yields a natural number (as_decimal). *)
LEMMA HalfEvenNat ==
  ASSUME NEW n \in Nat, NEW d \in Nat \ {0}
  PROVE  HalfEven(n, d) \in Nat
<1>1. n \div d \in Nat /\ n % d \in Nat
  OBVIOUS
<1>2. QED
  BY <1>1 DEF HalfEven

(* Money is a natural number of quanta (money_from_unit_price). *)
LEMMA ValueNat ==
  ASSUME NEW p \in Nat, NEW q \in Nat
  PROVE  Value(p, q) \in Nat
<1>1. p * q \in Nat
  OBVIOUS
<1>2. QED
  BY <1>1, HalfEvenNat, UnitAssumption DEF Value

(* The terms of an intent (OrderIntent). *)
LEMMA TermsType ==
  ASSUME NEW i \in Intents
  PROVE  /\ Terms[i].key \in Keys /\ Terms[i].quantity \in Nat
         /\ Terms[i].limit \in Nat /\ Terms[i].fee \in Nat
  BY TermsAssumption, UnitAssumption

LEMMA LedgerIsInt ==
  ASSUME NEW L \in LedgerState
  PROVE  L \in IntLedger
<1>1. \A k \in Keys : L.positions[k] \in IntPosition
  BY DEF LedgerState, Position, IntPosition
<1>2. QED
  BY <1>1 DEF LedgerState, IntLedger

(* assert_invariants turns integers into amounts. *)
LEMMA AssertedIsLedger ==
  ASSUME NEW L \in IntLedger, AssertInvariants(L)
  PROVE  L \in LedgerState /\ SettledFree(L)
<1>1. L.cash \in Nat /\ L.reserved \in Nat
  BY DEF AssertInvariants, BooksSound, IntLedger
<1>2. ASSUME NEW k \in Keys
      PROVE  /\ L.positions[k] \in Position
             /\ L.positions[k].status = "settled" => L.positions[k].reserved = 0
  <2>1. L.positions[k] \in IntPosition
    BY DEF IntLedger
  <2>2. PositionSound(L, k)
    BY DEF AssertInvariants, BooksSound
  <2> DEFINE p == L.positions[k]
  <2>3. /\ p \in IntPosition
        /\ 0 <= p.reserved /\ p.reserved <= p.quantity /\ p.cost >= 0
        /\ p.status = "settled" => p.quantity = 0
    BY <2>1, <2>2 DEF PositionSound
  <2> HIDE DEF p
  <2>4. p \in Position /\ (p.status = "settled" => p.reserved = 0)
    BY <2>3 DEF IntPosition, Position
  <2>5. QED
    BY <2>4 DEF p
<1>3. L.positions \in [Keys -> Position]
  BY <1>2 DEF IntLedger
<1>4. QED
  BY <1>1, <1>2, <1>3 DEF IntLedger, LedgerState, SettledFree

(* Replacing one order. *)
Replaced(L, N, i, o) ==
  /\ N \in IntLedger /\ Frame(L, N, i) /\ \A k \in Keys : Local(L, N, i, k)
  /\ N.orders[i] = o /\ N.positions = L.positions
  /\ N.cash = L.cash /\ N.reserved = L.reserved

LEMMA OrderReplaced ==
  ASSUME NEW L \in IntLedger, NEW i \in Intents, NEW o \in Order, NEW N,
         N = [L EXCEPT !.orders = [L.orders EXCEPT ![i] = o]]
  PROVE  Replaced(L, N, i, o)
<1> DEFINE os == [L.orders EXCEPT ![i] = o]
<1>1. os \in [Intents -> Order] /\ os[i] = o /\ \A j \in Intents : j # i => os[j] = L.orders[j]
  BY DEF IntLedger
<1>2. N = [L EXCEPT !.orders = os]
  OBVIOUS
<1> HIDE DEF os
<1>3. N \in IntLedger /\ N.orders = os /\ N.positions = L.positions
      /\ N.evidence = L.evidence /\ N.resolutions = L.resolutions
      /\ N.cash = L.cash /\ N.reserved = L.reserved /\ N.opened = L.opened
  BY <1>1, <1>2 DEF IntLedger
<1>4. QED
  BY <1>1, <1>3 DEF Frame, Local, Replaced

(* _apply_submitted, _apply_acknowledged, _apply_unknown *)
Moved(L, N, i, t) ==
  LET o == L.orders[i] IN
  /\ \A k \in Keys : Local(L, N, i, k)
  /\ N.cash = L.cash /\ N.reserved = L.reserved /\ N.positions = L.positions
  /\ OrderIs(N.orders[i], t, o.filled, o.fees, o.cash, o.quantity, o.fills)

LEMMA MoveEffect ==
  ASSUME NEW L \in IntLedger, NEW i \in Intents, NEW t \in OrderStates
  PROVE  /\ Move(L, i, t) \in IntLedger /\ Frame(L, Move(L, i, t), i)
         /\ Moved(L, Move(L, i, t), i, t)
<1> DEFINE o == L.orders[i]
           n == [o EXCEPT !.state = t]
           N == Move(L, i, t)
<1>1. o \in Order
  BY DEF IntLedger
<1>2. n \in Order /\ OrderIs(n, t, o.filled, o.fees, o.cash, o.quantity, o.fills)
  BY <1>1 DEF Order, OrderIs
<1>3. N = [L EXCEPT !.orders = [L.orders EXCEPT ![i] = n]]
  BY Zenon DEF Move
<1> HIDE DEF n, N
<1>4. Replaced(L, N, i, n)
  BY <1>2, <1>3, OrderReplaced
<1>5. QED
  BY <1>2, <1>4 DEF Replaced, Moved, N

LEMMA TargetIsState ==
  ASSUME NEW L, NEW i, NEW t, CanMove(L, i, t)
  PROVE  t \in OrderStates /\ L.orders[i].state \notin Terminal
  BY DEF CanMove, AllowedTransitions, OrderStates, Terminal

(* _release_reservations.  A sell order gives back what it holds of its     *)
(* position; where that position is settled it holds nothing.               *)
Released(L, N, i) ==
  LET o == L.orders[i]
      p == L.positions[Terms[i].key]
      held == IF IsBuy(i) THEN o.cash ELSE 0
      kept == IF IsBuy(i) THEN 0 ELSE o.quantity IN
  /\ Local(L, N, i, Terms[i].key)
  /\ N.cash = L.cash /\ N.reserved = L.reserved - held
  /\ OrderIs(N.orders[i], o.state, o.filled, o.fees, o.cash - held, o.quantity - kept, o.fills)
  /\ PositionIs(N.positions[Terms[i].key], p.status, p.quantity, p.reserved - kept, p.cost, p.pnl)

LEMMA ReleaseEffect ==
  ASSUME NEW L \in IntLedger, NEW i \in Intents,
         ~IsBuy(i) /\ L.positions[Terms[i].key].status = "settled" => L.orders[i].quantity = 0
  PROVE  /\ Release(L, i) \in IntLedger /\ Frame(L, Release(L, i), i)
         /\ Released(L, Release(L, i), i)
<1> DEFINE key == Terms[i].key
           o == L.orders[i]
           p == L.positions[key]
           N == Release(L, i)
<1>1. key \in Keys /\ o \in Order /\ p \in IntPosition
  BY TermsType DEF IntLedger
<1>2. CASE IsBuy(i)
  <2> DEFINE r == L.reserved - o.cash
             n == [o EXCEPT !.cash = 0]
             os == [L.orders EXCEPT ![i] = n]
  <2>1. n \in Order /\ OrderIs(n, o.state, o.filled, o.fees, o.cash - o.cash, o.quantity - 0, o.fills)
    BY <1>1 DEF Order, OrderIs
  <2>2. r \in Int
    BY <1>1 DEF Order, IntLedger
  <2>3. N = [L EXCEPT !.reserved = r, !.orders = os]
    BY <1>2, Zenon DEF Release
  <2> HIDE DEF r, n, N
  <2>4. os \in [Intents -> Order] /\ os[i] = n /\ \A j \in Intents : j # i => os[j] = L.orders[j]
    BY <2>1 DEF IntLedger
  <2> HIDE DEF os
  <2>5. /\ N \in IntLedger /\ N.orders = os /\ N.positions = L.positions /\ N.cash = L.cash
        /\ N.reserved = r /\ N.opened = L.opened
        /\ N.evidence = L.evidence /\ N.resolutions = L.resolutions
    BY <2>2, <2>3, <2>4 DEF IntLedger
  <2>6. PositionIs(N.positions[key], p.status, p.quantity, p.reserved - 0, p.cost, p.pnl)
    BY <1>1, <2>5 DEF PositionIs, IntPosition
  <2>7. Released(L, N, i)
    BY <1>2, <2>1, <2>4, <2>5, <2>6 DEF Released, Local, r
  <2>8. QED
    BY <2>4, <2>5, <2>7 DEF Frame, N
<1>3. CASE ~IsBuy(i)
  <2> DEFINE q == [p EXCEPT !.reserved = p.reserved - o.quantity]
             ps == [L.positions EXCEPT ![key] = q]
             n == [o EXCEPT !.quantity = 0]
             os == [L.orders EXCEPT ![i] = n]
  <2>1. n \in Order /\ OrderIs(n, o.state, o.filled, o.fees, o.cash - 0, o.quantity - o.quantity, o.fills)
    BY <1>1 DEF Order, OrderIs
  <2>2. /\ q \in IntPosition
        /\ PositionIs(q, p.status, p.quantity, p.reserved - o.quantity, p.cost, p.pnl)
    BY <1>1 DEF Order, IntPosition, PositionIs
  <2>3. p.status = "settled" => q = p
    BY <1>1, <1>3 DEF IntPosition
  <2>4. N = [L EXCEPT !.positions = ps, !.orders = os]
    BY <1>3, Zenon DEF Release
  <2> HIDE DEF n, q, N
  <2>5. os \in [Intents -> Order] /\ os[i] = n /\ \A j \in Intents : j # i => os[j] = L.orders[j]
    BY <2>1 DEF IntLedger
  <2>6. /\ ps \in [Keys -> IntPosition] /\ ps[key] = q
        /\ \A k \in Keys : k # key => ps[k] = L.positions[k]
        /\ \A k \in Keys : L.positions[k].status = "settled" => ps[k] = L.positions[k]
    BY <1>1, <2>2, <2>3 DEF IntLedger
  <2> HIDE DEF ps, os
  <2>7. /\ N \in IntLedger /\ N.orders = os /\ N.positions = ps /\ N.cash = L.cash
        /\ N.reserved = L.reserved /\ N.opened = L.opened
        /\ N.evidence = L.evidence /\ N.resolutions = L.resolutions
    BY <2>4, <2>5, <2>6 DEF IntLedger
  <2>8. L.reserved = L.reserved - 0
    BY DEF IntLedger
  <2>9. Released(L, N, i)
    BY <1>3, <2>1, <2>2, <2>5, <2>6, <2>7, <2>8 DEF Released, Local
  <2>10. QED
    BY <2>5, <2>6, <2>7, <2>9 DEF Frame, N
<1>4. QED
  BY <1>2, <1>3

LEMMA FrameTransitive ==
  ASSUME NEW L, NEW M, NEW N, NEW i, Frame(L, M, i), Frame(M, N, i)
  PROVE  Frame(L, N, i)
<1>1. ASSUME NEW k \in Keys, L.positions[k].status = "settled"
      PROVE  N.positions[k] = L.positions[k]
  <2>1. M.positions[k] = L.positions[k]
    BY <1>1 DEF Frame
  <2>2. QED
    BY <1>1, <2>1 DEF Frame
<1>2. QED
  BY <1>1 DEF Frame

(* _apply_terminal *)
Terminated(L, N, i, t) ==
  LET o == L.orders[i]
      p == L.positions[Terms[i].key]
      held == IF IsBuy(i) THEN o.cash ELSE 0
      kept == IF IsBuy(i) THEN 0 ELSE o.quantity IN
  /\ Local(L, N, i, Terms[i].key)
  /\ N.cash = L.cash /\ N.reserved = L.reserved - held
  /\ OrderIs(N.orders[i], t, o.filled, o.fees, o.cash - held, o.quantity - kept, o.fills)
  /\ PositionIs(N.positions[Terms[i].key], p.status, p.quantity, p.reserved - kept, p.cost, p.pnl)

LEMMA TerminateEffect ==
  ASSUME NEW L \in LedgerState, SettledFree(L), NEW i \in Intents, NEW t, CanTerminate(L, i, t)
  PROVE  /\ Terminate(L, i, t) \in IntLedger /\ Frame(L, Terminate(L, i, t), i)
         /\ Terminated(L, Terminate(L, i, t), i, t)
<1> DEFINE M == Release(L, i)
<1>1. L \in IntLedger
  BY LedgerIsInt
<1>2. ASSUME ~IsBuy(i), L.positions[Terms[i].key].status = "settled"
      PROVE  L.orders[i].quantity = 0
  <2>1. L.positions[Terms[i].key].reserved = 0
    BY <1>2, TermsType DEF SettledFree
  <2>2. L.orders[i].quantity \in Nat
    BY DEF LedgerState, Order
  <2>3. 0 >= L.orders[i].quantity
    BY <1>2, <2>1 DEF CanTerminate, CanRelease
  <2>4. QED
    BY <2>2, <2>3
<1>3. M \in IntLedger /\ Frame(L, M, i) /\ Released(L, M, i)
  BY <1>1, <1>2, ReleaseEffect
<1>4. t \in OrderStates
  BY TargetIsState DEF CanTerminate
<1>5. Terminate(L, i, t) = Move(M, i, t)
  BY DEF Terminate
<1> HIDE DEF M
<1> DEFINE N == Move(M, i, t)
<1>6. N \in IntLedger /\ Frame(M, N, i) /\ Moved(M, N, i, t)
  BY <1>3, <1>4, MoveEffect
<1> HIDE DEF N
<1>7. Local(L, N, i, Terms[i].key)
  BY <1>3, <1>6, TermsType DEF Released, Moved, Local
<1>8. Terminated(L, N, i, t)
  BY <1>3, <1>6, <1>7 DEF Terminated, Released, Moved, OrderIs
<1>9. QED
  BY <1>3, <1>5, <1>6, <1>8, FrameTransitive DEF N

(* _apply_intent_created *)
Created(L, N, i) ==
  LET p == L.positions[Terms[i].key]
      kept == IF IsBuy(i) THEN 0 ELSE Terms[i].quantity IN
  /\ Local(L, N, i, Terms[i].key)
  /\ N.cash = L.cash /\ N.reserved = L.reserved + CashReservation(i)
  /\ OrderIs(N.orders[i], "created", 0, 0, CashReservation(i), kept, {})
  /\ PositionIs(N.positions[Terms[i].key], p.status, p.quantity, p.reserved + kept, p.cost, p.pnl)

LEMMA CreateEffect ==
  ASSUME NEW L \in LedgerState, NEW i \in Intents, CanCreate(L, i)
  PROVE  /\ Create(L, i) \in IntLedger /\ Frame(L, Create(L, i), i)
         /\ Created(L, Create(L, i), i)
<1> DEFINE key == Terms[i].key
           p == L.positions[key]
           os == [L.orders EXCEPT ![i] = NewOrder(i)]
           kept == IF IsBuy(i) THEN 0 ELSE Terms[i].quantity
           N == Create(L, i)
<1>1. key \in Keys /\ p \in IntPosition /\ L \in IntLedger
  BY TermsType, LedgerIsInt DEF IntLedger
<1>2. CashReservation(i) \in Nat
  <2>1. Value(Terms[i].limit, Terms[i].quantity) \in Nat
    BY TermsType, ValueNat
  <2>2. QED
    BY <2>1, TermsType DEF CashReservation
<1>3. /\ NewOrder(i) \in Order
      /\ OrderIs(NewOrder(i), "created", 0, 0, CashReservation(i), kept, {})
  <2> DEFINE c == CashReservation(i)
             n == [NoOrder EXCEPT !.state = "created", !.cash = c, !.quantity = kept]
  <2>1. c \in Nat /\ kept \in Nat
    BY <1>2, TermsType
  <2>2. NewOrder(i) = n
    BY DEF NewOrder
  <2> HIDE DEF c, kept
  <2>3. n \in Order /\ OrderIs(n, "created", 0, 0, c, kept, {})
    BY <2>1 DEF NoOrder, Order, OrderStates, FillData, OrderIs
  <2>4. QED
    BY <2>2, <2>3 DEF c
<1>4. os \in [Intents -> Order] /\ os[i] = NewOrder(i) /\ \A j \in Intents : j # i => os[j] = L.orders[j]
  BY <1>1, <1>3 DEF IntLedger
<1>5. CASE IsBuy(i)
  <2> DEFINE r == L.reserved + CashReservation(i)
  <2>1. r \in Int
    BY <1>1, <1>2 DEF IntLedger
  <2>2. N = [L EXCEPT !.orders = os, !.reserved = r]
    BY <1>5, Zenon DEF Create
  <2> HIDE DEF r, os, N
  <2>3. /\ N \in IntLedger /\ N.orders = os /\ N.positions = L.positions /\ N.cash = L.cash
        /\ N.reserved = r /\ N.opened = L.opened
        /\ N.evidence = L.evidence /\ N.resolutions = L.resolutions
    BY <1>1, <1>4, <2>1, <2>2 DEF IntLedger
  <2>4. PositionIs(N.positions[key], p.status, p.quantity, p.reserved + 0, p.cost, p.pnl)
    BY <1>1, <2>3 DEF PositionIs, IntPosition
  <2>5. Created(L, N, i)
    BY <1>3, <1>4, <1>5, <2>3, <2>4 DEF Created, Local, r
  <2>6. QED
    BY <1>4, <2>3, <2>5 DEF Frame, N
<1>6. CASE ~IsBuy(i)
  <2> DEFINE q == [p EXCEPT !.reserved = p.reserved + Terms[i].quantity]
             ps == [L.positions EXCEPT ![key] = q]
  <2>1. /\ q \in IntPosition
        /\ PositionIs(q, p.status, p.quantity, p.reserved + Terms[i].quantity, p.cost, p.pnl)
    BY <1>1, TermsType DEF IntPosition, PositionIs
  <2>2. p.status = "open"
    BY <1>6 DEF CanCreate
  <2>3. N = [L EXCEPT !.orders = os, !.positions = ps]
    BY <1>6, Zenon DEF Create
  <2> HIDE DEF q
  <2>4. /\ ps \in [Keys -> IntPosition] /\ ps[key] = q
        /\ \A k \in Keys : k # key => ps[k] = L.positions[k]
        /\ \A k \in Keys : L.positions[k].status = "settled" => ps[k] = L.positions[k]
    BY <1>1, <2>1, <2>2 DEF IntLedger
  <2> HIDE DEF ps, os, N
  <2>5. /\ N \in IntLedger /\ N.orders = os /\ N.positions = ps /\ N.cash = L.cash
        /\ N.reserved = L.reserved /\ N.opened = L.opened
        /\ N.evidence = L.evidence /\ N.resolutions = L.resolutions
    BY <1>1, <1>4, <2>3, <2>4 DEF IntLedger
  <2>6. L.reserved = L.reserved + CashReservation(i)
    BY <1>1, <1>6 DEF CashReservation, IntLedger
  <2>7. Created(L, N, i)
    BY <1>3, <1>4, <1>6, <2>1, <2>4, <2>5, <2>6 DEF Created, Local
  <2>8. QED
    BY <1>4, <2>4, <2>5, <2>7 DEF Frame, N
<1>7. QED
  BY <1>5, <1>6

(* The amounts a fill computes (_apply_buy_fill). *)
LEMMA FillAmounts ==
  ASSUME NEW L \in LedgerState, NEW i \in Intents, NEW f \in FillData,
         f.quantity <= Remaining(L, i)
  PROVE  /\ f.quantity \in Nat /\ f.fee \in Nat /\ f.price \in Nat
         /\ Value(f.price, f.quantity) \in Nat /\ Debit(f) \in Nat
         /\ IsBuy(i) /\ f.fee <= FeeLeft(L, i) => ReservationAfter(L, i, f) \in Nat
<1>1. f.quantity \in Nat /\ f.fee \in Nat /\ f.price \in Nat
  BY UnitAssumption DEF FillData
<1>2. Value(f.price, f.quantity) \in Nat
  BY <1>1, ValueNat
<1>3. Debit(f) \in Nat
  BY <1>1, <1>2 DEF Debit
<1>4. L.orders[i].filled \in Nat /\ L.orders[i].fees \in Nat
  BY DEF LedgerState, Order
<1>5. Remaining(L, i) - f.quantity \in Nat
  BY <1>1, <1>4, TermsType DEF Remaining
<1>6. Value(Terms[i].limit, Remaining(L, i) - f.quantity) \in Nat
  BY <1>5, TermsType, ValueNat
<1>7. f.fee <= FeeLeft(L, i) => FeeLeft(L, i) - f.fee \in Nat
  BY <1>1, <1>4, TermsType DEF FeeLeft
<1>8. QED
  BY <1>1, <1>2, <1>3, <1>6, <1>7 DEF ReservationAfter

(* _apply_buy_fill *)
Bought(L, N, i, f) ==
  LET o == L.orders[i]
      p == L.positions[Terms[i].key]
      after == ReservationAfter(L, i, f) IN
  /\ Local(L, N, i, Terms[i].key)
  /\ N.cash = L.cash - Debit(f) /\ N.reserved = L.reserved - (o.cash - after)
  /\ OrderIs(N.orders[i], o.state, o.filled, o.fees, after, o.quantity, o.fills)
  /\ PositionIs(N.positions[Terms[i].key], "open", p.quantity + f.quantity, p.reserved,
                p.cost + Debit(f), p.pnl)

LEMMA BuyFillEffect ==
  ASSUME NEW L \in LedgerState, NEW i \in Intents, NEW f \in FillData,
         f.quantity <= Remaining(L, i), IsBuy(i), CanBuyFill(L, i, f)
  PROVE  /\ BuyFill(L, i, f) \in IntLedger /\ Frame(L, BuyFill(L, i, f), i)
         /\ Bought(L, BuyFill(L, i, f), i, f)
<1> DEFINE key == Terms[i].key
           o == L.orders[i]
           p == L.positions[key]
           after == ReservationAfter(L, i, f)
           debit == Debit(f)
           bought == f.quantity
<1>1. key \in Keys /\ o \in Order /\ p \in IntPosition /\ L \in IntLedger
  BY TermsType, LedgerIsInt DEF IntLedger
<1>2. after \in Nat /\ debit \in Nat /\ bought \in Nat /\ p.status # "settled"
  BY FillAmounts DEF CanBuyFill
<1> DEFINE N == BuyFill(L, i, f)
           c == L.cash - debit
           r == L.reserved - (o.cash - after)
           n == [o EXCEPT !.cash = after]
           os == [L.orders EXCEPT ![i] = n]
           q == [p EXCEPT !.status = "open", !.quantity = p.quantity + bought,
                          !.cost = p.cost + debit]
           ps == [L.positions EXCEPT ![key] = q]
<1>3. N = [L EXCEPT !.cash = c, !.reserved = r, !.orders = os, !.positions = ps]
  BY Zenon DEF BuyFill
<1> HIDE DEF after, debit, bought, N
<1>4. c \in Int /\ r \in Int
  BY <1>1, <1>2 DEF IntLedger, Order
<1>5. n \in Order /\ OrderIs(n, o.state, o.filled, o.fees, after, o.quantity, o.fills)
  BY <1>1, <1>2 DEF Order, OrderIs
<1>6. q \in IntPosition /\ PositionIs(q, "open", p.quantity + bought, p.reserved, p.cost + debit, p.pnl)
  <2> DEFINE a == p.quantity + bought
             b == p.cost + debit
  <2>1. a \in Int /\ b \in Int
    BY <1>1, <1>2 DEF IntPosition
  <2> HIDE DEF a, b, p
  <2> DEFINE w == [p EXCEPT !.status = "open", !.quantity = a, !.cost = b]
  <2>2. w \in IntPosition /\ PositionIs(w, "open", a, p.reserved, b, p.pnl)
    BY <1>1, <2>1 DEF IntPosition, PositionIs
  <2>3. QED
    BY <2>2 DEF a, b
<1> HIDE DEF n, q
<1>7. os \in [Intents -> Order] /\ os[i] = n /\ \A j \in Intents : j # i => os[j] = L.orders[j]
  BY <1>1, <1>5 DEF IntLedger
<1>8. /\ ps \in [Keys -> IntPosition] /\ ps[key] = q
      /\ \A k \in Keys : k # key => ps[k] = L.positions[k]
      /\ \A k \in Keys : L.positions[k].status = "settled" => ps[k] = L.positions[k]
  BY <1>1, <1>2, <1>6 DEF IntLedger
<1> HIDE DEF c, r, os, ps
<1>9. /\ N \in IntLedger /\ N.orders = os /\ N.positions = ps /\ N.cash = c /\ N.reserved = r
      /\ N.opened = L.opened /\ N.evidence = L.evidence /\ N.resolutions = L.resolutions
  BY <1>1, <1>3, <1>4, <1>7, <1>8 DEF IntLedger
<1>10. Bought(L, N, i, f)
  BY <1>5, <1>6, <1>7, <1>8, <1>9 DEF Bought, Local, c, r, after, debit, bought
<1>11. QED
  BY <1>7, <1>8, <1>9, <1>10 DEF Frame, N

(* The cost of what is sold of an open position (_apply_sell_fill). *)
LEMMA AllocatedInt ==
  ASSUME NEW L \in LedgerState, NEW i \in Intents, NEW f \in FillData, CanSellFill(L, i, f)
  PROVE  LET p == L.positions[Terms[i].key]
             cost == AllocatedCost(p, f.quantity) IN
         cost \in Int /\ (f.quantity = p.quantity => 0 = p.cost - cost)
<1> DEFINE p == L.positions[Terms[i].key]
           cost == AllocatedCost(p, f.quantity)
           sold == f.quantity
<1>1. p \in Position /\ sold \in Nat
  BY TermsType DEF LedgerState, FillData
<1>2. p.cost \in Int
  BY <1>1 DEF Position
<1>3. CASE sold = p.quantity
  BY <1>2, <1>3 DEF AllocatedCost
<1>4. CASE sold # p.quantity
  <2>1. p.quantity \in Nat \ {0} /\ p.cost \in Nat
    BY <1>1, <1>4 DEF CanSellFill, Position
  <2>2. Precision \in Nat \ {0} /\ sold * Precision \in Nat
    BY <1>1, UnitAssumption
  <2> DEFINE share == HalfEven(sold * Precision, p.quantity)
  <2>3. share \in Nat
    BY <2>1, <2>2, HalfEvenNat
  <2>4. cost = HalfEven(p.cost * share, Precision)
    BY <1>4 DEF AllocatedCost
  <2> HIDE DEF share
  <2>5. p.cost * share \in Nat
    BY <2>1, <2>3
  <2>6. HalfEven(p.cost * share, Precision) \in Nat
    BY <2>2, <2>5, HalfEvenNat
  <2>7. QED
    BY <1>4, <2>4, <2>6
<1>5. QED
  BY <1>3, <1>4

(* _apply_sell_fill *)
Sold(L, N, i, f) ==
  LET o == L.orders[i]
      p == L.positions[Terms[i].key]
      net == Value(f.price, f.quantity) - f.fee
      cost == AllocatedCost(p, f.quantity) IN
  /\ Local(L, N, i, Terms[i].key)
  /\ N.cash = L.cash + net /\ N.reserved = L.reserved
  /\ OrderIs(N.orders[i], o.state, o.filled, o.fees, o.cash, o.quantity - f.quantity, o.fills)
  /\ PositionIs(N.positions[Terms[i].key], "open", p.quantity - f.quantity,
                p.reserved - f.quantity, p.cost - cost, p.pnl + net - cost)

LEMMA SellFillEffect ==
  ASSUME NEW L \in LedgerState, NEW i \in Intents, NEW f \in FillData,
         f.quantity <= Remaining(L, i), CanSellFill(L, i, f)
  PROVE  /\ SellFill(L, i, f) \in IntLedger /\ Frame(L, SellFill(L, i, f), i)
         /\ Sold(L, SellFill(L, i, f), i, f)
<1> DEFINE key == Terms[i].key
           o == L.orders[i]
           p == L.positions[key]
           net == Value(f.price, f.quantity) - f.fee
           cost == AllocatedCost(p, f.quantity)
           sold == f.quantity
<1>1. /\ key \in Keys /\ o \in Order /\ p \in Position /\ p \in IntPosition
      /\ L \in IntLedger /\ p.status = "open"
  BY TermsType, LedgerIsInt DEF IntLedger, LedgerState, CanSellFill
<1>2. net \in Int /\ sold \in Nat /\ o.quantity - sold \in Nat
  BY <1>1, FillAmounts DEF CanSellFill, Order
<1>3. cost \in Int /\ (sold = p.quantity => 0 = p.cost - cost)
  BY AllocatedInt
<1> DEFINE N == SellFill(L, i, f)
           c == L.cash + net
           n == [o EXCEPT !.quantity = o.quantity - sold]
           os == [L.orders EXCEPT ![i] = n]
           left == IF sold = p.quantity THEN 0 ELSE p.cost - cost
           q == [p EXCEPT !.quantity = p.quantity - sold, !.reserved = p.reserved - sold,
                          !.cost = left, !.pnl = p.pnl + net - cost]
           ps == [L.positions EXCEPT ![key] = q]
<1>4. N = [L EXCEPT !.cash = c, !.orders = os, !.positions = ps]
  BY Zenon DEF SellFill
<1> HIDE DEF net, cost, sold, N
<1>5. c \in Int /\ left \in Int /\ left = p.cost - cost
  BY <1>1, <1>2, <1>3 DEF IntLedger, IntPosition
<1>6. n \in Order /\ OrderIs(n, o.state, o.filled, o.fees, o.cash, o.quantity - sold, o.fills)
  BY <1>1, <1>2 DEF Order, OrderIs
<1>7. /\ q \in IntPosition
      /\ PositionIs(q, "open", p.quantity - sold, p.reserved - sold, p.cost - cost, p.pnl + net - cost)
  <2> DEFINE a == p.quantity - sold
             b == p.reserved - sold
             g == p.pnl + net - cost
             z == p.cost - cost
  <2>1. a \in Int /\ b \in Int /\ g \in Int /\ left = z
    BY <1>1, <1>2, <1>3, <1>5 DEF IntPosition
  <2> HIDE DEF a, b, g, z, left, p
  <2> DEFINE w == [p EXCEPT !.quantity = a, !.reserved = b, !.cost = left, !.pnl = g]
  <2>2. w \in IntPosition /\ PositionIs(w, "open", a, b, z, g)
    BY <1>1, <1>5, <2>1 DEF IntPosition, PositionIs
  <2>3. QED
    BY <2>2 DEF a, b, g, z
<1> HIDE DEF n, q
<1>8. os \in [Intents -> Order] /\ os[i] = n /\ \A j \in Intents : j # i => os[j] = L.orders[j]
  BY <1>1, <1>6 DEF IntLedger
<1>9. /\ ps \in [Keys -> IntPosition] /\ ps[key] = q
      /\ \A k \in Keys : k # key => ps[k] = L.positions[k]
      /\ \A k \in Keys : L.positions[k].status = "settled" => ps[k] = L.positions[k]
  BY <1>1, <1>7 DEF IntLedger
<1> HIDE DEF c, os, ps
<1>10. /\ N \in IntLedger /\ N.orders = os /\ N.positions = ps /\ N.cash = c
       /\ N.reserved = L.reserved /\ N.opened = L.opened
       /\ N.evidence = L.evidence /\ N.resolutions = L.resolutions
  BY <1>1, <1>4, <1>5, <1>8, <1>9 DEF IntLedger
<1>11. Sold(L, N, i, f)
  BY <1>6, <1>7, <1>8, <1>9, <1>10 DEF Sold, Local, c, net, cost, sold
<1>12. QED
  BY <1>8, <1>9, <1>10, <1>11 DEF Frame, N

(* _apply_fill: the amounts, the order's own counters and, when the order   *)
(* is filled, the release of what it still reserves.                        *)
FilledBuy(L, N, i, f) ==
  LET o == L.orders[i]
      p == L.positions[Terms[i].key]
      t == FillTarget(L, i, f)
      left == IF t = "filled" THEN 0 ELSE ReservationAfter(L, i, f) IN
  /\ Local(L, N, i, Terms[i].key)
  /\ N.cash = L.cash - Debit(f) /\ N.reserved = L.reserved - (o.cash - left)
  /\ OrderIs(N.orders[i], t, o.filled + f.quantity, o.fees + f.fee, left, o.quantity,
             o.fills \cup {f})
  /\ PositionIs(N.positions[Terms[i].key], "open", p.quantity + f.quantity, p.reserved,
                p.cost + Debit(f), p.pnl)

FilledSell(L, N, i, f) ==
  LET o == L.orders[i]
      p == L.positions[Terms[i].key]
      t == FillTarget(L, i, f)
      freed == IF t = "filled" THEN o.quantity ELSE f.quantity
      net == Value(f.price, f.quantity) - f.fee
      cost == AllocatedCost(p, f.quantity) IN
  /\ Local(L, N, i, Terms[i].key)
  /\ N.cash = L.cash + net /\ N.reserved = L.reserved
  /\ OrderIs(N.orders[i], t, o.filled + f.quantity, o.fees + f.fee, o.cash, o.quantity - freed,
             o.fills \cup {f})
  /\ PositionIs(N.positions[Terms[i].key], "open", p.quantity - f.quantity, p.reserved - freed,
                p.cost - cost, p.pnl + net - cost)

Filled(L, N, i, f) == IF IsBuy(i) THEN FilledBuy(L, N, i, f) ELSE FilledSell(L, N, i, f)

LEMMA FillEffect ==
  ASSUME NEW L \in LedgerState, NEW i \in Intents, NEW f \in FillData, CanFill(L, i, f)
  PROVE  /\ Fill(L, i, f) \in IntLedger /\ Frame(L, Fill(L, i, f), i)
         /\ Filled(L, Fill(L, i, f), i, f)
<1> DEFINE M == IF IsBuy(i) THEN BuyFill(L, i, f) ELSE SellFill(L, i, f)
           t == FillTarget(L, i, f)
           B == Booked(L, i, f)
           o == M.orders[i]
           key == Terms[i].key
<1>1. f.quantity <= Remaining(L, i) /\ t \in OrderStates /\ key \in Keys
  BY TermsType DEF CanFill, FillTarget, OrderStates, Terminal
<1>2. /\ M \in IntLedger /\ Frame(L, M, i)
      /\ IF IsBuy(i) THEN Bought(L, M, i, f) ELSE Sold(L, M, i, f)
  BY <1>1, BuyFillEffect, SellFillEffect DEF CanFill
<1>3. /\ B \in IntLedger /\ Frame(M, B, i) /\ B.positions = M.positions
      /\ Local(M, B, i, key) /\ B.cash = M.cash /\ B.reserved = M.reserved
      /\ OrderIs(B.orders[i], t, o.filled + f.quantity, o.fees + f.fee, o.cash, o.quantity,
                 o.fills \cup {f})
  <2> DEFINE v == Value(f.price, f.quantity)
             a == o.filled + f.quantity
             b == o.gross + v
             c == o.fees + f.fee
             d == o.fills \cup {f}
             n == [o EXCEPT !.state = t, !.filled = a, !.gross = b, !.fees = c, !.fills = d]
  <2>1. B = [M EXCEPT !.orders = [M.orders EXCEPT ![i] = n]]
    BY Zenon DEF Booked
  <2>2. n \in Order /\ OrderIs(n, t, a, c, o.cash, o.quantity, d)
    <3>1. o \in Order
      <4> HIDE DEF M
      <4>1. QED
        BY <1>2 DEF IntLedger
    <3>2. f.quantity \in Nat /\ f.fee \in Nat /\ v \in Nat
      BY <1>1, FillAmounts
    <3> HIDE DEF o, v
    <3>3. a \in Nat /\ b \in Nat /\ c \in Nat
      BY <3>1, <3>2 DEF Order
    <3>4. d \in SUBSET FillData
      BY <3>1 DEF Order
    <3> HIDE DEF a, b, c, d, t
    <3>5. QED
      BY <1>1, <3>1, <3>3, <3>4 DEF Order, OrderIs
  <2> HIDE DEF M, B, n
  <2>3. Replaced(M, B, i, n)
    BY <1>2, <2>1, <2>2, OrderReplaced
  <2>4. QED
    BY <1>1, <2>2, <2>3 DEF Replaced
<1>4. Fill(L, i, f) = IF t = "filled" THEN Release(B, i) ELSE B
  BY DEF Fill
<1> HIDE DEF M, B
<1>5. Frame(L, B, i) /\ Local(L, B, i, key)
  BY <1>2, <1>3, FrameTransitive DEF Bought, Sold, Local
<1> DEFINE R == Release(B, i)
<1>6. R \in IntLedger /\ Frame(B, R, i) /\ Released(B, R, i)
  <2>1. B.positions[key].status = "open"
    BY <1>2, <1>3 DEF Bought, Sold, PositionIs
  <2>2. QED
    BY <1>3, <2>1, ReleaseEffect
<1> HIDE DEF R
<1>7. Frame(L, R, i) /\ Local(L, R, i, key)
  BY <1>5, <1>6, FrameTransitive DEF Released, Local
<1>8. L \in IntLedger /\ L.orders[i] \in Order /\ L.positions[key] \in IntPosition
  BY <1>1, LedgerIsInt DEF IntLedger
<1>9. CASE IsBuy(i)
  <2> DEFINE after == ReservationAfter(L, i, f)
  <2>1. after \in Nat /\ f.quantity \in Nat /\ Debit(f) \in Nat
    BY <1>1, <1>9, FillAmounts DEF CanFill, CanBuyFill
  <2>2. Bought(L, M, i, f)
    BY <1>2, <1>9
  <2> HIDE DEF after
  <2>3. CASE t = "filled"
    <3>1. FilledBuy(L, R, i, f)
      BY <1>3, <1>6, <1>7, <1>8, <1>9, <2>1, <2>2, <2>3
      DEF FilledBuy, Bought, Released, OrderIs, PositionIs, after, IntLedger, Order, IntPosition
    <3>2. QED
      BY <1>4, <1>6, <1>7, <1>9, <2>3, <3>1 DEF Filled, R
  <2>4. CASE t # "filled"
    <3>1. FilledBuy(L, B, i, f)
      BY <1>3, <1>5, <2>2, <2>4 DEF FilledBuy, Bought, OrderIs, PositionIs
    <3>2. QED
      BY <1>3, <1>4, <1>5, <1>9, <2>4, <3>1 DEF Filled
  <2>5. QED
    BY <2>3, <2>4
<1>10. CASE ~IsBuy(i)
  <2>1. f.quantity \in Nat
    BY <1>1, FillAmounts
  <2>2. Sold(L, M, i, f)
    BY <1>2, <1>10
  <2>3. CASE t = "filled"
    <3>1. FilledSell(L, R, i, f)
      BY <1>3, <1>6, <1>7, <1>8, <1>10, <2>1, <2>2, <2>3
      DEF FilledSell, Sold, Released, OrderIs, PositionIs, IntLedger, Order, IntPosition
    <3>2. QED
      BY <1>4, <1>6, <1>7, <1>10, <2>3, <3>1 DEF Filled, R
  <2>4. CASE t # "filled"
    <3>1. FilledSell(L, B, i, f)
      BY <1>3, <1>5, <2>2, <2>4 DEF FilledSell, Sold, OrderIs, PositionIs
    <3>2. QED
      BY <1>3, <1>4, <1>5, <1>10, <2>4, <3>1 DEF Filled
  <2>5. QED
    BY <2>3, <2>4
<1>11. QED
  BY <1>9, <1>10

(* An event about an order that is not terminal keeps what is closed. *)
LEMMA FrameKeeps ==
  ASSUME NEW L, NEW N, NEW i \in Intents, Frame(L, N, i), L.orders[i].state \notin Terminal
  PROVE  Kept(L, N)
<1>1. \A j \in Intents : L.orders[j].state \in Terminal => N.orders[j] = L.orders[j]
  BY DEF Frame
<1>2. QED
  BY <1>1 DEF Frame, Kept

(* N has the orders and positions of L. *)
SameDeals(L, N) ==
  N.orders = L.orders /\ N.positions = L.positions /\ N.reserved = L.reserved

(* _apply_account_opened *)
LEMMA OpenEffect ==
  ASSUME NEW L \in LedgerState, NEW amount \in Nat
  PROVE  /\ Open(L, amount) \in IntLedger /\ Kept(L, Open(L, amount))
         /\ SameDeals(L, Open(L, amount)) /\ Open(L, amount).cash = amount
<1>1. L \in IntLedger /\ amount \in Int
  BY LedgerIsInt
<1>2. Open(L, amount) \in IntLedger
  BY <1>1, Zenon DEF Open, IntLedger
<1>3. /\ Open(L, amount).orders = L.orders /\ Open(L, amount).positions = L.positions
      /\ Open(L, amount).evidence = L.evidence /\ Open(L, amount).resolutions = L.resolutions
      /\ Open(L, amount).reserved = L.reserved /\ Open(L, amount).cash = amount
  BY <1>1 DEF Open, IntLedger
<1>4. QED
  BY <1>2, <1>3 DEF Kept, SameDeals

(* _apply_resolution_evidence *)
LEMMA EvidenceEffect ==
  ASSUME NEW L \in LedgerState, NEW m \in Markets, NEW p \in PayoutVectors,
         CanRecordEvidence(L, m, p)
  PROVE  LET N == RecordEvidence(L, m, p) IN
         /\ N \in IntLedger /\ Kept(L, N) /\ SameDeals(L, N)
         /\ N.cash = L.cash /\ N.opened = L.opened /\ N.resolutions = L.resolutions
         /\ N.evidence[m] = p /\ \A n \in Markets : n # m => N.evidence[n] = L.evidence[n]
<1> DEFINE e == [L.evidence EXCEPT ![m] = p]
           N == RecordEvidence(L, m, p)
<1>1. L \in IntLedger
  BY LedgerIsInt
<1>2. /\ e \in [Markets -> PayoutVectors \cup {None}]
      /\ \A n \in Markets : L.evidence[n] # None => e[n] = L.evidence[n]
      /\ e[m] = p /\ \A n \in Markets : n # m => e[n] = L.evidence[n]
  BY <1>1 DEF IntLedger, CanRecordEvidence
<1>3. N = [L EXCEPT !.evidence = e]
  BY Zenon DEF RecordEvidence
<1> HIDE DEF e, N
<1>4. /\ N \in IntLedger /\ N.orders = L.orders /\ N.positions = L.positions
      /\ N.reserved = L.reserved /\ N.cash = L.cash /\ N.opened = L.opened
      /\ N.resolutions = L.resolutions /\ N.evidence = e
  BY <1>1, <1>2, <1>3 DEF IntLedger
<1>5. QED
  BY <1>2, <1>4 DEF Kept, SameDeals, N

(* _apply_resolution *)
LEMMA ResolveEffect ==
  ASSUME NEW L \in LedgerState, NEW m \in Markets, NEW p \in PayoutVectors, CanResolve(L, m, p)
  PROVE  LET N == Resolve(L, m, p) IN
         /\ N \in IntLedger /\ Kept(L, N) /\ SameDeals(L, N)
         /\ N.cash = L.cash /\ N.opened = L.opened /\ N.evidence = L.evidence
         /\ N.resolutions[m] = p /\ \A n \in Markets : n # m => N.resolutions[n] = L.resolutions[n]
<1> DEFINE e == [L.resolutions EXCEPT ![m] = p]
           N == Resolve(L, m, p)
<1>1. L \in IntLedger
  BY LedgerIsInt
<1>2. /\ e \in [Markets -> PayoutVectors \cup {None}]
      /\ \A n \in Markets : L.resolutions[n] # None => e[n] = L.resolutions[n]
      /\ e[m] = p /\ \A n \in Markets : n # m => e[n] = L.resolutions[n]
  BY <1>1 DEF IntLedger, CanResolve
<1>3. N = [L EXCEPT !.resolutions = e]
  BY Zenon DEF Resolve
<1> HIDE DEF e, N
<1>4. /\ N \in IntLedger /\ N.orders = L.orders /\ N.positions = L.positions
      /\ N.reserved = L.reserved /\ N.cash = L.cash /\ N.opened = L.opened
      /\ N.evidence = L.evidence /\ N.resolutions = e
  BY <1>1, <1>2, <1>3 DEF IntLedger
<1>5. QED
  BY <1>2, <1>4 DEF Kept, SameDeals, N

(* _apply_settlement *)
Settled(L, N, k, fee) ==
  LET p == L.positions[k]
      net == Proceeds(L, k) - fee IN
  /\ N.orders = L.orders /\ N.reserved = L.reserved
  /\ N.opened = L.opened /\ N.evidence = L.evidence /\ N.resolutions = L.resolutions
  /\ \A l \in Keys : l # k => N.positions[l] = L.positions[l]
  /\ N.cash = L.cash + net
  /\ PositionIs(N.positions[k], "settled", 0, 0, 0, p.pnl + net - p.cost)

(* Rewriting every field of a position. *)
LEMMA PositionRewritten ==
  ASSUME NEW p \in IntPosition, NEW s \in {"none", "open", "settled"},
         NEW quantity \in Int, NEW reserved \in Int, NEW cost \in Int, NEW pnl \in Int
  PROVE  LET q == [p EXCEPT !.status = s, !.quantity = quantity, !.reserved = reserved,
                            !.cost = cost, !.pnl = pnl] IN
         q \in IntPosition /\ PositionIs(q, s, quantity, reserved, cost, pnl)
  BY DEF IntPosition, PositionIs

LEMMA SettleEffect ==
  ASSUME NEW L \in LedgerState, NEW k \in Keys, NEW fee \in Nat, CanSettle(L, k, fee)
  PROVE  /\ Settle(L, k, fee) \in IntLedger /\ Kept(L, Settle(L, k, fee))
         /\ Settled(L, Settle(L, k, fee), k, fee) /\ Proceeds(L, k) \in Nat
<1> DEFINE p == L.positions[k]
           net == Proceeds(L, k) - fee
           c == L.cash + net
           g == p.pnl + net - p.cost
           q == [p EXCEPT !.status = "settled", !.quantity = 0, !.reserved = 0,
                          !.cost = 0, !.pnl = g]
           ps == [L.positions EXCEPT ![k] = q]
<1>1. L \in IntLedger /\ p \in IntPosition /\ p.status = "open"
  BY LedgerIsInt DEF IntLedger, CanSettle
<1>2. Proceeds(L, k) \in Nat
  <2>1. L.positions[k].quantity \in Nat /\ k[1] \in Markets
    BY DEF LedgerState, Position, Keys
  <2>2. L.resolutions[k[1]] \in PayoutVectors
    BY <2>1 DEF LedgerState, CanSettle
  <2>3. L.resolutions[k[1]][k[2]] \in 0 .. Unit
    BY <2>2, PayoutAssumption DEF CanSettle
  <2>4. L.resolutions[k[1]][k[2]] \in Nat
    BY <2>3, UnitAssumption
  <2>5. QED
    BY <2>1, <2>4, ValueNat DEF Proceeds
<1> DEFINE N == Settle(L, k, fee)
<1>3. N = [L EXCEPT !.cash = c, !.positions = ps]
  BY Zenon DEF Settle
<1>4. net \in Int
  BY <1>2
<1> HIDE DEF net, N
<1>5. c \in Int /\ g \in Int
  BY <1>1, <1>4 DEF IntLedger, IntPosition
<1> HIDE DEF c, g
<1>6. q \in IntPosition /\ PositionIs(q, "settled", 0, 0, 0, g)
  <2> HIDE DEF p
  <2>1. 0 \in Int /\ "settled" \in {"none", "open", "settled"}
    OBVIOUS
  <2>2. QED
    BY <1>1, <1>5, <2>1, PositionRewritten, Zenon
<1>7. /\ ps \in [Keys -> IntPosition] /\ ps[k] = q
      /\ \A j \in Keys : j # k => ps[j] = L.positions[j]
      /\ \A j \in Keys : L.positions[j].status = "settled" => ps[j] = L.positions[j]
  <2> HIDE DEF q
  <2>1. QED
    BY <1>1, <1>6 DEF IntLedger
<1> HIDE DEF q, ps
<1>8. /\ N \in IntLedger /\ N.orders = L.orders /\ N.positions = ps /\ N.cash = c
      /\ N.reserved = L.reserved /\ N.opened = L.opened
      /\ N.evidence = L.evidence /\ N.resolutions = L.resolutions
  BY <1>1, <1>3, <1>5, <1>7 DEF IntLedger
<1>9. Settled(L, N, k, fee)
  BY <1>6, <1>7, <1>8 DEF Settled, c, g, net
<1>10. QED
  BY <1>2, <1>7, <1>8, <1>9 DEF Kept, N

-----------------------------------------------------------------------------
LEMMA InitHolds ==
  ASSUME Init
  PROVE  TypeOK /\ SettledFree(ledger)
<1>1. NoOrder \in Order
  BY DEF NoOrder, Order, OrderStates, FillData
<1>2. NoPosition \in Position
  BY DEF NoPosition, Position
<1>3. Empty \in LedgerState
  <2> DEFINE os == [i \in Intents |-> NoOrder]
             ps == [k \in Keys |-> NoPosition]
             nothing == [m \in Markets |-> None]
  <2>1. /\ os \in [Intents -> Order] /\ ps \in [Keys -> Position]
        /\ nothing \in [Markets -> PayoutVectors \cup {None}]
    BY <1>1, <1>2
  <2> HIDE DEF os, ps, nothing
  <2>2. [opened |-> FALSE, cash |-> 0, reserved |-> 0, orders |-> os, positions |-> ps,
         resolutions |-> nothing, evidence |-> nothing] \in LedgerState
    BY <2>1 DEF LedgerState
  <2>3. QED
    BY <2>2 DEF Empty, os, ps, nothing
<1>4. SettledFree(Empty)
  BY DEF SettledFree, Empty, NoPosition
<1>5. QED
  BY <1>3, <1>4 DEF Init, TypeOK

(* What one event makes of ledger L, with initial cash d before it and e    *)
(* after it.                                                                *)
OrderChange(L, N) ==
  \E i \in Intents :
     \/ CanCreate(L, i) /\ Created(L, N, i)
     \/ \E t : CanMove(L, i, t) /\ (Moved(L, N, i, t) \/ Terminated(L, N, i, t))
     \/ \E f \in FillData : CanFill(L, i, f) /\ Filled(L, N, i, f)

MarketChange(L, N) ==
  \/ SameDeals(L, N) /\ N.cash = L.cash
  \/ \E k \in Keys, fee \in Nat : Proceeds(L, k) \in Nat /\ Settled(L, N, k, fee)

Change(L, N, d, e) ==
  \/ ~L.opened /\ SameDeals(L, N) /\ N.cash = e
  \/ d = e /\ (OrderChange(L, N) \/ MarketChange(L, N))

(* One event: the reducer's result, once assert_invariants has accepted it, *)
(* is a ledger, and what was closed in the old one is the same in it.       *)
StepResult ==
  /\ TypeOK' /\ SettledFree(ledger') /\ AssertInvariants(ledger')
  /\ Kept(ledger, ledger') /\ Change(ledger, ledger', deposit, deposit')

LEMMA StepHolds ==
  ASSUME TypeOK, SettledFree(ledger), Next
  PROVE  StepResult
<1>1. ledger \in LedgerState /\ deposit \in Nat
  BY DEF TypeOK
<1>2. ASSUME NEW N, N \in IntLedger, Kept(ledger, N), ApplyEvent(N), deposit' \in Nat,
             Change(ledger, N, deposit, deposit')
      PROVE  StepResult
  <2>1. ledger' = N /\ N \in LedgerState /\ SettledFree(N)
    BY <1>2, AssertedIsLedger DEF ApplyEvent
  <2>2. QED
    BY <1>2, <2>1 DEF TypeOK, SettledFree, StepResult, ApplyEvent
<1>3. CASE AccountOpened
  <2>1. PICK amount \in Deposits :
           CanOpen(ledger) /\ ApplyEvent(Open(ledger, amount)) /\ deposit' = amount
    BY <1>3 DEF AccountOpened
  <2>2. amount \in Nat
    BY InputAssumption
  <2>3. QED
    BY <1>1, <1>2, <2>1, <2>2, OpenEffect DEF Change, CanOpen
<1>4. ASSUME NEW i \in Intents, OrderIntentCreated(i)
      PROVE  StepResult
  <2>1. /\ CanCreate(ledger, i) /\ ApplyEvent(Create(ledger, i))
        /\ deposit' = deposit /\ deposit' \in Nat
        /\ ledger.orders[i].state \notin Terminal
    BY <1>1, <1>4 DEF OrderIntentCreated, CanCreate, Terminal
  <2>2. QED
    BY <1>1, <1>2, <2>1, CreateEffect, FrameKeeps DEF Change, OrderChange
<1>5. ASSUME NEW i \in Intents, NEW t, OrderMoved(i, t)
      PROVE  StepResult
  <2>1. /\ CanMove(ledger, i, t) /\ ApplyEvent(Move(ledger, i, t))
        /\ deposit' = deposit /\ deposit' \in Nat
    BY <1>1, <1>5 DEF OrderMoved
  <2>2. t \in OrderStates /\ ledger.orders[i].state \notin Terminal /\ ledger \in IntLedger
    BY <1>1, <2>1, TargetIsState, LedgerIsInt
  <2>3. QED
    BY <1>2, <2>1, <2>2, MoveEffect, FrameKeeps DEF Change, OrderChange
<1>6. ASSUME NEW i \in Intents, NEW t, OrderTerminated(i, t)
      PROVE  StepResult
  <2>1. /\ CanTerminate(ledger, i, t) /\ ApplyEvent(Terminate(ledger, i, t))
        /\ deposit' = deposit /\ deposit' \in Nat
    BY <1>1, <1>6 DEF OrderTerminated
  <2>2. ledger.orders[i].state \notin Terminal
    BY <2>1, TargetIsState DEF CanTerminate
  <2>3. QED
    BY <1>1, <1>2, <2>1, <2>2, TerminateEffect, FrameKeeps DEF Change, OrderChange, CanTerminate
<1>7. ASSUME NEW i \in Intents, FillReceived(i)
      PROVE  StepResult
  <2>1. PICK f \in Fills : CanFill(ledger, i, f) /\ ApplyEvent(Fill(ledger, i, f)) /\ UNCHANGED deposit
    BY <1>7 DEF FillReceived
  <2>2. f \in FillData /\ deposit' \in Nat
    BY <1>1, <2>1, InputAssumption
  <2>3. ledger.orders[i].state \notin Terminal
    BY <2>1, TargetIsState DEF CanFill
  <2>4. QED
    BY <1>1, <1>2, <2>1, <2>2, <2>3, FillEffect, FrameKeeps DEF Change, OrderChange
<1>8. ASSUME NEW m \in Markets, MarketResolutionEvidenceRecorded(m) \/ MarketResolved(m)
      PROVE  StepResult
  <2>1. CASE MarketResolutionEvidenceRecorded(m)
    <3>1. PICK p \in PayoutVectors :
             /\ CanRecordEvidence(ledger, m, p) /\ ApplyEvent(RecordEvidence(ledger, m, p))
             /\ UNCHANGED deposit
      BY <2>1 DEF MarketResolutionEvidenceRecorded
    <3>2. QED
      BY <1>1, <1>2, <3>1, EvidenceEffect DEF Change, MarketChange
  <2>2. CASE MarketResolved(m)
    <3>1. PICK p \in PayoutVectors :
             /\ CanResolve(ledger, m, p) /\ ApplyEvent(Resolve(ledger, m, p))
             /\ UNCHANGED deposit
      BY <2>2 DEF MarketResolved
    <3>2. QED
      BY <1>1, <1>2, <3>1, ResolveEffect DEF Change, MarketChange
  <2>3. QED
    BY <1>8, <2>1, <2>2
<1>9. ASSUME NEW k \in Keys, PositionSettled(k)
      PROVE  StepResult
  <2>1. PICK fee \in Fees : CanSettle(ledger, k, fee) /\ ApplyEvent(Settle(ledger, k, fee)) /\ UNCHANGED deposit
    BY <1>9 DEF PositionSettled
  <2>2. fee \in Nat
    BY InputAssumption
  <2>3. QED
    BY <1>1, <1>2, <2>1, <2>2, SettleEffect DEF Change, MarketChange
<1>10. QED
  BY <1>3, <1>4, <1>5, <1>6, <1>7, <1>8, <1>9
  DEF Next, OrderSubmitted, OrderAcknowledged, OrderOutcomeUnknown, OrderRejected, OrderCancelled

-----------------------------------------------------------------------------
(* The sums over the positions and over the fills. *)
Costs(L) == SumFunction([k \in Keys |-> L.positions[k].cost])
Gains(L) == SumFunction([k \in Keys |-> L.positions[k].pnl])

(* BooksBalance and PositionIsFills of a ledger. *)
Balanced(L, d) == L.cash + Costs(L) = d + Gains(L)

IntentsOn(k, side) == {j \in Intents : Terms[j].key = k /\ Terms[j].side = side}
Total(o) == SumFunction([f \in o.fills |-> f.quantity])
FillsOn(L, k, side) == SumFunction([i \in IntentsOn(k, side) |-> Total(L.orders[i])])
FillsHeld(L) ==
  \A k \in Keys : L.positions[k].status # "settled" =>
     L.positions[k].quantity = FillsOn(L, k, "buy") - FillsOn(L, k, "sell")

(* An order has finitely many fills, and one that does not exist nothing. *)
FiniteFills(L) == \A i \in Intents : IsFiniteSet(L.orders[i].fills)
Fresh(L) == \A i \in Intents : L.orders[i].state = "none" =>
                OrderIs(L.orders[i], "none", 0, 0, 0, 0, {})

LEMMA PositionSums ==
  ASSUME NEW L \in IntLedger, NEW N \in IntLedger, NEW k \in Keys,
         \A l \in Keys : l # k => N.positions[l] = L.positions[l]
  PROVE  /\ Costs(L) \in Int /\ Gains(L) \in Int
         /\ Costs(N) = Costs(L) + (N.positions[k].cost - L.positions[k].cost)
         /\ Gains(N) = Gains(L) + (N.positions[k].pnl - L.positions[k].pnl)
<1>1. \A l \in Keys : L.positions[l] \in IntPosition /\ N.positions[l] \in IntPosition
  BY DEF IntLedger
<1> DEFINE S == Keys
           c == [l \in Keys |-> L.positions[l].cost]
           d == [l \in Keys |-> N.positions[l].cost]
           g == [l \in Keys |-> L.positions[l].pnl]
           h == [l \in Keys |-> N.positions[l].pnl]
<1>2. /\ S = DOMAIN c /\ S = DOMAIN d /\ S = DOMAIN g /\ S = DOMAIN h
      /\ \A y \in S : c[y] \in Int /\ d[y] \in Int /\ g[y] \in Int /\ h[y] \in Int
      /\ \A y \in S \ {k} : d[y] = c[y] /\ h[y] = g[y]
      /\ c[k] = L.positions[k].cost /\ d[k] = N.positions[k].cost
      /\ g[k] = L.positions[k].pnl /\ h[k] = N.positions[k].pnl
      /\ k \in S
  BY <1>1 DEF IntPosition
<1>3. /\ Costs(L) = SumFunction(c) /\ Costs(N) = SumFunction(d)
      /\ Gains(L) = SumFunction(g) /\ Gains(N) = SumFunction(h)
  BY DEF Costs, Gains
<1>4. IsFiniteSet(S)
  BY FiniteAssumption
<1> HIDE DEF S, c, d, g, h
<1>5. SumFunction(c) \in Int /\ SumFunction(g) \in Int
  BY <1>2, <1>4, SumFacts
<1>6. SumFunction(d) = SumFunction(c) + (d[k] - c[k])
  <2>1. OneChanges(c, d, S, k)
    BY <1>2 DEF OneChanges
  <2>2. QED
    BY <1>4, <2>1, SumChange
<1>7. SumFunction(h) = SumFunction(g) + (h[k] - g[k])
  <2>1. OneChanges(g, h, S, k)
    BY <1>2 DEF OneChanges
  <2>2. QED
    BY <1>4, <2>1, SumChange
<1>8. QED
  BY <1>2, <1>3, <1>5, <1>6, <1>7

(* A reducer that moves cash books the same amount in one position. *)
LEMMA BalanceKept ==
  ASSUME NEW L \in IntLedger, NEW N \in IntLedger, NEW k \in Keys, NEW d \in Int, Balanced(L, d),
         \A l \in Keys : l # k => N.positions[l] = L.positions[l],
         N.cash + N.positions[k].cost - N.positions[k].pnl
           = L.cash + L.positions[k].cost - L.positions[k].pnl
  PROVE  Balanced(N, d)
<1>1. /\ L.cash \in Int /\ N.cash \in Int
      /\ L.positions[k] \in IntPosition /\ N.positions[k] \in IntPosition
  BY DEF IntLedger
<1>2. /\ L.positions[k].cost \in Int /\ N.positions[k].cost \in Int
      /\ L.positions[k].pnl \in Int /\ N.positions[k].pnl \in Int
  BY <1>1 DEF IntPosition
<1>3. QED
  BY <1>1, <1>2, PositionSums DEF Balanced

(* Nothing is bought or earned before the account is opened. *)
LEMMA OpeningBalance ==
  ASSUME NEW N, SameDeals(Empty, N), NEW e, N.cash = e, e \in Nat
  PROVE  Balanced(N, e)
<1> DEFINE S == Keys
           z == [k \in Keys |-> N.positions[k].cost]
           y == [k \in Keys |-> N.positions[k].pnl]
<1>1. \A k \in Keys : N.positions[k] = NoPosition
  BY DEF SameDeals, Empty
<1>2. S = DOMAIN z /\ S = DOMAIN y /\ (\A k \in S : z[k] = 0) /\ (\A k \in S : y[k] = 0)
  BY <1>1 DEF NoPosition
<1>3. IsFiniteSet(S)
  BY FiniteAssumption
<1>4. Costs(N) = SumFunction(z) /\ Gains(N) = SumFunction(y)
  BY DEF Costs, Gains
<1> HIDE DEF S, z, y
<1>5. SumFunction(z) = 0
  BY <1>2, <1>3, SumZero
<1>6. SumFunction(y) = 0
  BY <1>2, <1>3, SumZero
<1>7. QED
  BY <1>4, <1>5, <1>6 DEF Balanced

LEMMA BalanceStep ==
  ASSUME NEW L \in LedgerState, NEW N \in LedgerState, AssertInvariants(L),
         NEW d \in Nat, NEW e \in Nat, Balanced(L, d), Change(L, N, d, e)
  PROVE  Balanced(N, e)
<1>1. L \in IntLedger /\ N \in IntLedger
  BY LedgerIsInt
<1>2. CASE ~L.opened /\ SameDeals(L, N) /\ N.cash = e
  <2>1. L = Empty
    BY <1>2 DEF AssertInvariants
  <2>2. QED
    BY <1>2, <2>1, OpeningBalance
<1>3. ASSUME d = e, NEW i \in Intents, CanCreate(L, i) /\ Created(L, N, i)
      PROVE  Balanced(N, e)
  BY <1>1, <1>3, TermsType, BalanceKept DEF Created, Local, PositionIs
<1>4. ASSUME d = e, NEW i \in Intents, NEW t, Moved(L, N, i, t) \/ Terminated(L, N, i, t)
      PROVE  Balanced(N, e)
  <2>1. CASE Moved(L, N, i, t)
    BY <1>1, <1>4, <2>1, TermsType, BalanceKept DEF Moved, Local
  <2>2. CASE Terminated(L, N, i, t)
    BY <1>1, <1>4, <2>2, TermsType, BalanceKept DEF Terminated, Local, PositionIs
  <2>3. QED
    BY <1>4, <2>1, <2>2
<1>5. ASSUME d = e, NEW i \in Intents, NEW f \in FillData, CanFill(L, i, f) /\ Filled(L, N, i, f)
      PROVE  Balanced(N, e)
  <2> DEFINE key == Terms[i].key
             p == L.positions[key]
             q == N.positions[key]
  <2>1. /\ L.cash \in Int /\ p.cost \in Int /\ p.pnl \in Int /\ key \in Keys
        /\ N.cash \in Int /\ q.cost \in Int /\ q.pnl \in Int
    BY <1>1, TermsType DEF IntLedger, IntPosition
  <2>2. CASE IsBuy(i)
    <3>1. Debit(f) \in Nat
      BY <1>5, FillAmounts DEF CanFill
    <3>2. /\ N.cash = L.cash - Debit(f) /\ q.cost = p.cost + Debit(f) /\ q.pnl = p.pnl
          /\ \A l \in Keys : l # key => N.positions[l] = L.positions[l]
      BY <1>5, <2>2 DEF Filled, FilledBuy, PositionIs, Local
    <3>3. N.cash + q.cost - q.pnl = L.cash + p.cost - p.pnl
      BY <2>1, <3>1, <3>2
    <3>4. QED
      BY <1>1, <1>5, <2>1, <3>2, <3>3, BalanceKept
  <2>3. CASE ~IsBuy(i)
    <3> DEFINE net == Value(f.price, f.quantity) - f.fee
               cost == AllocatedCost(p, f.quantity)
    <3>1. net \in Int
      BY <1>5, FillAmounts DEF CanFill
    <3>2. /\ N.cash = L.cash + net /\ q.cost = p.cost - cost /\ q.pnl = p.pnl + net - cost
          /\ \A l \in Keys : l # key => N.positions[l] = L.positions[l]
      BY <1>5, <2>3 DEF Filled, FilledSell, PositionIs, Local
    <3>3. cost \in Int
      BY <1>1, <1>5, <2>3, AllocatedInt DEF CanFill
    <3>4. N.cash + q.cost - q.pnl = L.cash + p.cost - p.pnl
      <4> HIDE DEF net, cost, p, q
      <4>1. QED
        BY <2>1, <3>1, <3>2, <3>3
    <3>5. QED
      BY <1>1, <1>5, <2>1, <3>2, <3>4, BalanceKept
  <2>4. QED
    BY <2>2, <2>3
<1>6. ASSUME d = e, SameDeals(L, N), N.cash = L.cash
      PROVE  Balanced(N, e)
  BY <1>6 DEF SameDeals, Balanced, Costs, Gains
<1>7. ASSUME d = e, NEW k \in Keys, NEW fee \in Nat, Proceeds(L, k) \in Nat, Settled(L, N, k, fee)
      PROVE  Balanced(N, e)
  <2> DEFINE p == L.positions[k]
             q == N.positions[k]
             net == Proceeds(L, k) - fee
  <2>1. L.cash \in Int /\ p.cost \in Int /\ p.pnl \in Int /\ net \in Int
    BY <1>1, <1>7 DEF IntLedger, IntPosition
  <2>2. /\ N.cash = L.cash + net /\ q.cost = 0 /\ q.pnl = p.pnl + net - p.cost
        /\ \A l \in Keys : l # k => N.positions[l] = L.positions[l]
    BY <1>7 DEF Settled, PositionIs
  <2>3. N.cash + q.cost - q.pnl = L.cash + p.cost - p.pnl
    <3> HIDE DEF net, p, q
    <3>1. QED
      BY <2>1, <2>2
  <2>4. QED
    BY <1>1, <1>7, <2>2, <2>3, BalanceKept
<1>8. QED
  BY <1>2, <1>3, <1>4, <1>5, <1>6, <1>7 DEF Change, OrderChange, MarketChange

(* The fills of the orders of one side on one key. *)
LEMMA FillsSame ==
  ASSUME NEW L, NEW N, NEW k, NEW side,
         \A i \in IntentsOn(k, side) : N.orders[i].fills = L.orders[i].fills
  PROVE  FillsOn(N, k, side) = FillsOn(L, k, side)
<1>1. \A i \in IntentsOn(k, side) : Total(N.orders[i]) = Total(L.orders[i])
  BY DEF Total
<1>2. QED
  BY <1>1 DEF FillsOn

LEMMA TotalNat ==
  ASSUME NEW o \in Order, IsFiniteSet(o.fills)
  PROVE  Total(o) \in Nat
<1> DEFINE S == o.fills
           g == [f \in o.fills |-> f.quantity]
<1>1. S = DOMAIN g /\ (\A y \in S : g[y] \in Nat) /\ IsFiniteSet(S) /\ Total(o) = SumFunction(g)
  BY DEF Order, FillData, Total
<1> HIDE DEF S, g
<1>2. QED
  BY <1>1, SumNat

(* A fill that is new to an order is counted once. *)
LEMMA TotalGrows ==
  ASSUME NEW o \in Order, IsFiniteSet(o.fills), NEW f \in FillData, f \notin o.fills,
         NEW n, n.fills = o.fills \cup {f}
  PROVE  Total(n) = Total(o) + f.quantity /\ IsFiniteSet(n.fills)
<1> DEFINE S == o.fills \cup {f}
           g == [x \in S |-> x.quantity]
           e == [x \in o.fills |-> x.quantity]
<1>1. OneLess(g, e, S, f) /\ g[f] = f.quantity /\ f.quantity \in Int
  BY DEF Order, FillData, OneLess
<1>2. IsFiniteSet(S) /\ n.fills = S
  BY FS_AddElement
<1>3. Total(n) = SumFunction(g) /\ Total(o) = SumFunction(e)
  BY DEF Total
<1> HIDE DEF S, g, e
<1>4. SumFunction(g) = g[f] + SumFunction(e)
  BY <1>1, <1>2, SumRest
<1>5. QED
  BY <1>1, <1>2, <1>3, <1>4, TotalNat

LEMMA FillsInt ==
  ASSUME NEW L \in LedgerState, FiniteFills(L), NEW k, NEW side
  PROVE  FillsOn(L, k, side) \in Int
<1> DEFINE S == IntentsOn(k, side)
           g == [j \in S |-> Total(L.orders[j])]
<1>1. \A j \in Intents : Total(L.orders[j]) \in Int
  BY TotalNat DEF LedgerState, FiniteFills
<1>2. S \subseteq Intents
  BY DEF IntentsOn
<1>3. IsFiniteSet(S)
  BY <1>2, FiniteAssumption, FS_Subset
<1>4. S = DOMAIN g /\ \A y \in S : g[y] \in Int
  BY <1>1, <1>2
<1>5. FillsOn(L, k, side) = SumFunction(g)
  BY DEF FillsOn
<1> HIDE DEF S, g
<1>6. QED
  BY <1>3, <1>4, <1>5, SumFacts

LEMMA FillsGrow ==
  ASSUME NEW L \in LedgerState, NEW N \in LedgerState, FiniteFills(L), FiniteFills(N),
         NEW i \in Intents, NEW q \in Int, Total(N.orders[i]) = Total(L.orders[i]) + q,
         \A j \in Intents : j # i => N.orders[j] = L.orders[j],
         NEW k \in Keys, NEW side, Terms[i].key = k, Terms[i].side = side
  PROVE  FillsOn(N, k, side) = FillsOn(L, k, side) + q /\ FillsOn(L, k, side) \in Int
<1> DEFINE S == IntentsOn(k, side)
           g == [j \in S |-> Total(L.orders[j])]
           h == [j \in S |-> Total(N.orders[j])]
<1>1. \A j \in Intents : Total(L.orders[j]) \in Int /\ Total(N.orders[j]) \in Int
  BY TotalNat DEF LedgerState, FiniteFills
<1>2. S \subseteq Intents /\ i \in S
  BY DEF IntentsOn
<1>3. IsFiniteSet(S)
  BY <1>2, FiniteAssumption, FS_Subset
<1>4. OneChanges(g, h, S, i) /\ h[i] = g[i] + q /\ g[i] \in Int /\ S = DOMAIN g /\ \A y \in S : g[y] \in Int
  BY <1>1, <1>2 DEF OneChanges
<1>5. FillsOn(L, k, side) = SumFunction(g) /\ FillsOn(N, k, side) = SumFunction(h)
  BY DEF FillsOn
<1> HIDE DEF S, g, h
<1>6. SumFunction(h) = SumFunction(g) + (h[i] - g[i]) /\ SumFunction(g) \in Int
  BY <1>3, <1>4, SumChange, SumFacts
<1>7. QED
  BY <1>4, <1>5, <1>6

(* Orders whose fills are the same hold the same. *)
LEMMA HeldSame ==
  ASSUME NEW L, NEW N, FillsHeld(L),
         \A i \in Intents : N.orders[i].fills = L.orders[i].fills,
         \A k \in Keys : N.positions[k].status # "settled" =>
            /\ L.positions[k].status # "settled"
            /\ N.positions[k].quantity = L.positions[k].quantity
  PROVE  FillsHeld(N)
<1>1. \A k \in Keys : FillsOn(N, k, "buy") = FillsOn(L, k, "buy")
                      /\ FillsOn(N, k, "sell") = FillsOn(L, k, "sell")
  BY FillsSame DEF IntentsOn
<1>2. QED
  BY <1>1 DEF FillsHeld

OrdersSound(L) == FiniteFills(L) /\ Fresh(L)

LEMMA OrdersStep ==
  ASSUME NEW L \in LedgerState, NEW N \in LedgerState, OrdersSound(L),
         NEW d, NEW e, Change(L, N, d, e)
  PROVE  OrdersSound(N)
<1>1. CASE N.orders = L.orders
  BY <1>1 DEF OrdersSound, FiniteFills, Fresh
<1>2. ASSUME NEW i \in Intents, \A j \in Intents : j # i => N.orders[j] = L.orders[j],
             N.orders[i].state # "none", IsFiniteSet(N.orders[i].fills)
      PROVE  OrdersSound(N)
  BY <1>2 DEF OrdersSound, FiniteFills, Fresh
<1>3. ASSUME NEW i \in Intents, CanCreate(L, i) /\ Created(L, N, i)
      PROVE  OrdersSound(N)
  BY <1>2, <1>3, FS_EmptySet DEF Created, Local, OrderIs
<1>4. ASSUME NEW i \in Intents, NEW t, CanMove(L, i, t), Moved(L, N, i, t) \/ Terminated(L, N, i, t)
      PROVE  OrdersSound(N)
  <2>1. t # "none"
    BY <1>4 DEF CanMove, AllowedTransitions, Terminal
  <2>2. Local(L, N, i, Terms[i].key) /\ N.orders[i].state = t /\ N.orders[i].fills = L.orders[i].fills
    BY <1>4, TermsType DEF Moved, Terminated, OrderIs
  <2>3. QED
    BY <1>2, <2>1, <2>2 DEF Local, OrdersSound, FiniteFills
<1>5. ASSUME NEW i \in Intents, NEW f \in FillData, CanFill(L, i, f) /\ Filled(L, N, i, f)
      PROVE  OrdersSound(N)
  <2>1. Local(L, N, i, Terms[i].key) /\ N.orders[i].state = FillTarget(L, i, f)
        /\ N.orders[i].fills = L.orders[i].fills \cup {f}
    BY <1>5 DEF Filled, FilledBuy, FilledSell, OrderIs
  <2>2. IsFiniteSet(N.orders[i].fills)
    BY <2>1, FS_AddElement DEF OrdersSound, FiniteFills
  <2>3. QED
    BY <1>2, <2>1, <2>2 DEF Local, FillTarget
<1>6. QED
  BY <1>1, <1>3, <1>4, <1>5 DEF Change, OrderChange, MarketChange, SameDeals, Settled

LEMMA HeldStep ==
  ASSUME NEW L \in LedgerState, NEW N \in LedgerState, OrdersSound(L), OrdersSound(N), FillsHeld(L),
         NEW d, NEW e, Change(L, N, d, e)
  PROVE  FillsHeld(N)
<1>1. CASE SameDeals(L, N)
  BY <1>1, HeldSame DEF SameDeals
<1>2. ASSUME NEW i \in Intents, CanCreate(L, i) /\ Created(L, N, i)
      PROVE  FillsHeld(N)
  <2>1. L.orders[i].fills = {} /\ N.orders[i].fills = {}
    BY <1>2 DEF CanCreate, Created, OrdersSound, Fresh, OrderIs
  <2>2. QED
    BY <1>2, <2>1, HeldSame, TermsType DEF Created, Local, PositionIs
<1>3. ASSUME NEW i \in Intents, NEW t, Moved(L, N, i, t) \/ Terminated(L, N, i, t)
      PROVE  FillsHeld(N)
  <2>1. CASE Moved(L, N, i, t)
    BY <2>1, HeldSame, TermsType DEF Moved, Local, OrderIs
  <2>2. CASE Terminated(L, N, i, t)
    BY <2>2, HeldSame, TermsType DEF Terminated, Local, OrderIs, PositionIs
  <2>3. QED
    BY <1>3, <2>1, <2>2
<1>4. ASSUME NEW i \in Intents, NEW f \in FillData, CanFill(L, i, f) /\ Filled(L, N, i, f)
      PROVE  FillsHeld(N)
  <2> DEFINE key == Terms[i].key
             side == Terms[i].side
             p == L.positions[key]
             q == N.positions[key]
             sold == IF IsBuy(i) THEN f.quantity ELSE -f.quantity
  <2>1. /\ Local(L, N, i, key) /\ N.orders[i].fills = L.orders[i].fills \cup {f}
        /\ p.status # "settled" /\ key \in Keys /\ f.quantity \in Nat
        /\ p.quantity \in Int
    BY <1>4, TermsType DEF Filled, FilledBuy, FilledSell, OrderIs, CanFill, CanBuyFill, CanSellFill,
                           FillData, LedgerState, Position
  <2>2. side = (IF IsBuy(i) THEN "buy" ELSE "sell")
    BY TermsAssumption DEF IsBuy
  <2>3. q.quantity = IF IsBuy(i) THEN p.quantity + f.quantity ELSE p.quantity - f.quantity
    BY <1>4 DEF Filled, FilledBuy, FilledSell, PositionIs
  <2>4. f \notin L.orders[i].fills
    BY <1>4 DEF CanFill
  <2>5. Total(N.orders[i]) = Total(L.orders[i]) + f.quantity
    BY <2>1, <2>4, TotalGrows DEF LedgerState, OrdersSound, FiniteFills
  <2>6. FillsOn(N, key, side) = FillsOn(L, key, side) + f.quantity /\ FillsOn(L, key, side) \in Int
    BY <2>1, <2>5, FillsGrow DEF Local, OrdersSound
  <2>7. \A k \in Keys, s \in {"buy", "sell"} : k # key \/ s # side => FillsOn(N, k, s) = FillsOn(L, k, s)
    BY <2>1, FillsSame DEF Local, IntentsOn
  <2>8. ASSUME NEW k \in Keys, N.positions[k].status # "settled"
        PROVE  N.positions[k].quantity = FillsOn(N, k, "buy") - FillsOn(N, k, "sell")
    <3>1. CASE k # key
      BY <2>1, <2>7, <2>8, <3>1 DEF Local, FillsHeld
    <3>2. CASE k = key
      <4>1. p.quantity = FillsOn(L, key, "buy") - FillsOn(L, key, "sell")
        BY <2>1 DEF FillsHeld
      <4>2. FillsOn(L, key, "buy") \in Int /\ FillsOn(L, key, "sell") \in Int
        BY <2>1, FillsInt DEF OrdersSound
      <4> HIDE DEF p, q, key
      <4>3. q.quantity = FillsOn(N, key, "buy") - FillsOn(N, key, "sell")
        BY <2>1, <2>2, <2>3, <2>6, <2>7, <4>1, <4>2
      <4>4. QED
        BY <3>2, <4>3 DEF q
    <3>3. QED
      BY <3>1, <3>2
  <2>9. QED
    BY <2>8 DEF FillsHeld
<1>5. ASSUME NEW k \in Keys, NEW fee \in Nat, Settled(L, N, k, fee)
      PROVE  FillsHeld(N)
  BY <1>5, HeldSame DEF Settled, PositionIs
<1>6. QED
  BY <1>1, <1>2, <1>3, <1>4, <1>5 DEF Change, OrderChange, MarketChange

(* An empty ledger: nothing reserved, nothing filled. *)
LEMMA EmptySums ==
  /\ CashReserved(Empty) = 0
  /\ \A k \in Keys : QuantityReserved(Empty, k) = 0
  /\ \A k \in Keys, side \in {"buy", "sell"} : FillsOn(Empty, k, side) = 0
<1>1. \A i \in Intents : Empty.orders[i] = NoOrder
  BY DEF Empty
<1>2. ASSUME NEW g, NEW S, S \subseteq Intents, S = DOMAIN g, \A i \in S : g[i] = 0
      PROVE  SumFunction(g) = 0
  <2>1. IsFiniteSet(S)
    BY <1>2, FiniteAssumption, FS_Subset
  <2>2. QED
    BY <1>2, <2>1, SumZero
<1>3. CashReserved(Empty) = 0
  <2> DEFINE g == [i \in Intents |-> Empty.orders[i].cash]
  <2>1. Intents = DOMAIN g /\ \A i \in Intents : g[i] = 0
    BY <1>1 DEF NoOrder
  <2>2. CashReserved(Empty) = SumFunction(g)
    BY DEF CashReserved
  <2> HIDE DEF g
  <2>3. QED
    BY <1>2, <2>1, <2>2
<1>4. ASSUME NEW k \in Keys
      PROVE  QuantityReserved(Empty, k) = 0
  <2> DEFINE S == {j \in Intents : Terms[j].key = k}
             g == [i \in S |-> Empty.orders[i].quantity]
  <2>1. S \subseteq Intents /\ S = DOMAIN g /\ \A i \in S : g[i] = 0
    BY <1>1 DEF NoOrder
  <2>2. QuantityReserved(Empty, k) = SumFunction(g)
    BY DEF QuantityReserved
  <2> HIDE DEF S, g
  <2>3. QED
    BY <1>2, <2>1, <2>2
<1>5. Total(NoOrder) = 0
  <2> DEFINE S == {}
             g == [f \in {} |-> f.quantity]
  <2>1. S = DOMAIN g /\ IsFiniteSet(S) /\ \A y \in S : g[y] = 0
    BY FS_EmptySet
  <2>2. Total(NoOrder) = SumFunction(g)
    BY DEF Total, NoOrder
  <2> HIDE DEF S, g
  <2>3. QED
    BY <2>1, <2>2, SumZero
<1>6. ASSUME NEW k \in Keys, NEW side \in {"buy", "sell"}
      PROVE  FillsOn(Empty, k, side) = 0
  <2> DEFINE S == IntentsOn(k, side)
             g == [i \in S |-> Total(Empty.orders[i])]
  <2>1. S \subseteq Intents /\ S = DOMAIN g
    BY DEF IntentsOn
  <2>2. \A i \in S : g[i] = 0
    BY <1>1, <1>5, <2>1
  <2>3. FillsOn(Empty, k, side) = SumFunction(g)
    BY DEF FillsOn
  <2> HIDE DEF S, g
  <2>4. QED
    BY <1>2, <2>1, <2>2, <2>3
<1>7. QED
  BY <1>3, <1>4, <1>6

(* The inductive invariant. *)
IInv ==
  /\ TypeOK /\ SettledFree(ledger) /\ AssertInvariants(ledger) /\ OrdersSound(ledger)
  /\ Balanced(ledger, deposit) /\ FillsHeld(ledger)

LEMMA InitIInv ==
  ASSUME Init
  PROVE  IInv
<1>1. TypeOK /\ SettledFree(ledger)
  BY InitHolds
<1>2. ledger = Empty /\ deposit = 0
  BY DEF Init
<1>3. /\ \A i \in Intents : Empty.orders[i] = NoOrder
      /\ \A k \in Keys : Empty.positions[k] = NoPosition
      /\ \A m \in Markets : Empty.evidence[m] = None
      /\ Empty.cash = 0 /\ Empty.reserved = 0
  BY DEF Empty
<1>4. AssertInvariants(Empty)
  <2>1. \A i \in Intents : OrderSound(Empty, i)
    BY <1>3 DEF OrderSound, NoOrder
  <2>2. \A k \in Keys : PositionSound(Empty, k)
    BY <1>3, EmptySums DEF PositionSound, NoPosition
  <2>3. EvidenceAgrees(Empty)
    BY <1>3 DEF EvidenceAgrees
  <2>4. QED
    BY <1>3, <2>1, <2>2, <2>3, EmptySums DEF AssertInvariants, BooksSound, AvailableCash
<1>5. OrdersSound(Empty)
  BY <1>3, FS_EmptySet DEF OrdersSound, FiniteFills, Fresh, NoOrder, OrderIs
<1>6. Balanced(Empty, 0)
  BY <1>3, OpeningBalance DEF SameDeals
<1>7. FillsHeld(Empty)
  BY <1>3, EmptySums DEF FillsHeld, NoPosition
<1>8. QED
  BY <1>1, <1>2, <1>4, <1>5, <1>6, <1>7 DEF IInv

LEMMA StepIInv ==
  ASSUME IInv, [Next]_vars
  PROVE  IInv'
<1>1. CASE Next
  <2>1. StepResult
    BY <1>1, StepHolds DEF IInv
  <2>2. /\ ledger \in LedgerState /\ ledger' \in LedgerState /\ deposit \in Nat /\ deposit' \in Nat
        /\ Change(ledger, ledger', deposit, deposit')
    BY <2>1 DEF IInv, TypeOK, StepResult
  <2>3. OrdersSound(ledger')
    BY <2>2, OrdersStep DEF IInv
  <2>4. FillsHeld(ledger')
    BY <2>2, <2>3, HeldStep DEF IInv
  <2>5. Balanced(ledger', deposit')
    BY <2>2, BalanceStep DEF IInv
  <2>6. TypeOK' /\ SettledFree(ledger') /\ AssertInvariants(ledger')
    BY <2>1 DEF StepResult
  <2>7. QED
    BY <2>3, <2>4, <2>5, <2>6 DEF IInv
<1>2. CASE UNCHANGED vars
  BY <1>2 DEF IInv, TypeOK, vars
<1>3. QED
  BY <1>1, <1>2

-----------------------------------------------------------------------------
(* What the reducers check is enough for assert_invariants. *)

(* Rounding to even is off by at most half. *)
LEMMA HalfEvenBounds ==
  ASSUME NEW n \in Nat, NEW d \in Nat \ {0}
  PROVE  LET h == HalfEven(n, d) IN
         /\ 2 * n - d <= 2 * (d * h) /\ 2 * (d * h) <= 2 * n + d
         /\ \A m \in Nat : n <= m * d => h <= m
<1> DEFINE q == n \div d
           r == n % d
           h == HalfEven(n, d)
           z == d * q
<1>1. q \in Nat /\ r \in Nat /\ n = z + r /\ r < d
  OBVIOUS
<1>2. \/ h = q /\ 2 * r <= d
      \/ h = q + 1 /\ 2 * r >= d
  BY <1>1 DEF HalfEven
<1>3. d * (q + 1) = z + d /\ z \in Nat
  BY <1>1
<1> HIDE DEF q, r, z, h
<1>4. \/ d * h = z /\ 2 * r <= d
      \/ d * h = z + d /\ 2 * r >= d
  BY <1>2, <1>3 DEF z
<1>5. 2 * n - d <= 2 * (d * h) /\ 2 * (d * h) <= 2 * n + d
  <2> DEFINE w == d * h
  <2>1. (w = z /\ 2 * r <= d) \/ (w = z + d /\ 2 * r >= d)
    BY <1>4
  <2> HIDE DEF w
  <2>2. 2 * n - d <= 2 * w /\ 2 * w <= 2 * n + d
    BY <1>1, <1>3, <2>1
  <2>3. QED
    BY <2>2 DEF w
<1>6. ASSUME NEW m \in Nat, n <= m * d
      PROVE  h <= m
  <2>1. CASE q < m
    BY <1>1, <1>2, <2>1
  <2>2. CASE q >= m
    <3>1. z >= m * d /\ m * d \in Nat
      BY <1>1, <2>2 DEF z
    <3>2. r = 0 /\ z = m * d
      BY <1>1, <1>3, <1>6, <3>1
    <3>3. q = m
      <4>1. CASE q > m
        <5>1. q >= m + 1 /\ d * (m + 1) = m * d + d
          BY <1>1, <4>1
        <5>2. d * q >= d * (m + 1)
          BY <1>1, <5>1
        <5>3. QED
          BY <3>1, <3>2, <5>1, <5>2 DEF z
      <4>2. QED
        BY <1>1, <2>2, <4>1
    <3>4. QED
      BY <1>1, <1>2, <3>2, <3>3
  <2>3. QED
    BY <1>1, <2>1, <2>2
<1>7. QED
  BY <1>5, <1>6 DEF h

(* Filling part of an order costs at most one quantum more than the         *)
(* reservation it frees (_apply_buy_fill).                                  *)
LEMMA FillCost ==
  ASSUME NEW limit \in Nat, NEW price \in Nat, NEW all \in Nat, NEW part \in Nat,
         price <= limit, part <= all
  PROVE  Value(limit, all) - Value(limit, all - part) - Value(price, part) >= -1
<1> DEFINE rest == all - part
           a == Value(limit, all)
           b == Value(limit, rest)
           c == Value(price, part)
           x == limit * rest
           y == limit * part
           w == price * part
<1>1. rest \in Nat /\ x \in Nat /\ y \in Nat /\ w \in Nat /\ w <= y /\ limit * all = x + y
  OBVIOUS
<1>2. a \in Nat /\ b \in Nat /\ c \in Nat /\ Unit \in Nat \ {0}
  BY <1>1, ValueNat, UnitAssumption
<1>3. /\ 2 * (x + y) - Unit <= 2 * (Unit * a)
      /\ 2 * (Unit * b) <= 2 * x + Unit
      /\ 2 * (Unit * c) <= 2 * w + Unit
  <2>1. limit * all \in Nat
    OBVIOUS
  <2>2. 2 * (limit * all) - Unit <= 2 * (Unit * a)
    BY <1>2, <2>1, HalfEvenBounds DEF Value
  <2>3. 2 * (Unit * b) <= 2 * x + Unit
    BY <1>1, <1>2, HalfEvenBounds DEF Value
  <2>4. 2 * (Unit * c) <= 2 * w + Unit
    BY <1>1, <1>2, HalfEvenBounds DEF Value
  <2>5. QED
    BY <1>1, <2>2, <2>3, <2>4
<1> HIDE DEF rest, a, b, c, x, y, w
<1> DEFINE d == a - b - c
<1>4. d \in Int /\ Unit * d = Unit * a - Unit * b - Unit * c
  BY <1>2
<1>5. 2 * (Unit * d) >= -3 * Unit
  <2> DEFINE ua == Unit * a
             ub == Unit * b
             uc == Unit * c
             ud == Unit * d
  <2>1. ua \in Int /\ ub \in Int /\ uc \in Int /\ ud = ua - ub - uc
    BY <1>2, <1>4
  <2>2. 2 * (x + y) - Unit <= 2 * ua /\ 2 * ub <= 2 * x + Unit /\ 2 * uc <= 2 * w + Unit
    BY <1>3
  <2> HIDE DEF ua, ub, uc, ud
  <2>3. 2 * ud >= -3 * Unit
    BY <1>1, <1>2, <2>1, <2>2
  <2>4. QED
    BY <2>3 DEF ud
<1>6. d >= -1
  <2> HIDE DEF d
  <2>1. CASE d <= -2
    <3>1. Unit * d <= Unit * (-2)
      BY <1>2, <1>4, <2>1
    <3>2. QED
      BY <1>2, <1>4, <1>5, <3>1
  <2>2. QED
    BY <1>4, <2>1
<1>7. QED
  BY <1>6 DEF a, b, c, rest

(* The cost of the part sold is at most the cost (_apply_sell_fill). *)
LEMMA AllocatedLess ==
  ASSUME NEW p \in Position, NEW sold \in Nat, sold <= p.quantity
  PROVE  AllocatedCost(p, sold) \in Nat /\ AllocatedCost(p, sold) <= p.cost
<1>1. p.cost \in Nat /\ p.quantity \in Nat
  BY DEF Position
<1>2. CASE sold = p.quantity
  BY <1>1, <1>2 DEF AllocatedCost
<1>3. CASE sold # p.quantity
  <2> DEFINE n == sold * Precision
             d == p.quantity
             share == HalfEven(n, d)
  <2>1. n \in Nat /\ d \in Nat \ {0} /\ Precision \in Nat \ {0}
    BY <1>1, <1>3, UnitAssumption
  <2>2. n <= Precision * d
    BY <1>1, <1>3, UnitAssumption
  <2>3. AllocatedCost(p, sold) = HalfEven(p.cost * share, Precision)
    BY <1>3 DEF AllocatedCost
  <2> HIDE DEF n, d
  <2>4. share \in Nat /\ share <= Precision
    BY <2>1, <2>2, HalfEvenNat, HalfEvenBounds
  <2> HIDE DEF share
  <2>5. p.cost * share \in Nat /\ p.cost * share <= p.cost * Precision
    BY <1>1, <2>1, <2>4
  <2>6. HalfEven(p.cost * share, Precision) \in Nat /\ HalfEven(p.cost * share, Precision) <= p.cost
    BY <1>1, <2>1, <2>5, HalfEvenNat, HalfEvenBounds
  <2>7. QED
    BY <2>3, <2>6
<1>4. QED
  BY <1>2, <1>3
(* What the orders reserve, when order i changes. *)
LEMMA ReserveSums ==
  ASSUME NEW L \in IntLedger, NEW N \in IntLedger, NEW i \in Intents,
         \A j \in Intents : j # i => N.orders[j] = L.orders[j]
  PROVE  /\ CashReserved(L) \in Nat /\ CashReserved(N) \in Nat
         /\ CashReserved(N) = CashReserved(L) + (N.orders[i].cash - L.orders[i].cash)
         /\ \A k \in Keys : QuantityReserved(L, k) \in Nat /\ QuantityReserved(N, k) \in Nat
         /\ \A k \in Keys : QuantityReserved(N, k) =
               IF k = Terms[i].key
               THEN QuantityReserved(L, k) + (N.orders[i].quantity - L.orders[i].quantity)
               ELSE QuantityReserved(L, k)
<1>1. \A j \in Intents : L.orders[j] \in Order /\ N.orders[j] \in Order
  BY DEF IntLedger
<1>2. \A j \in Intents : /\ L.orders[j].cash \in Nat /\ N.orders[j].cash \in Nat
                         /\ L.orders[j].quantity \in Nat /\ N.orders[j].quantity \in Nat
  BY <1>1 DEF Order
<1>3. /\ CashReserved(L) \in Nat /\ CashReserved(N) \in Nat
      /\ CashReserved(N) = CashReserved(L) + (N.orders[i].cash - L.orders[i].cash)
  <2> DEFINE S == Intents
             g == [j \in Intents |-> L.orders[j].cash]
             h == [j \in Intents |-> N.orders[j].cash]
  <2>1. /\ OneChanges(g, h, S, i) /\ g[i] = L.orders[i].cash /\ h[i] = N.orders[i].cash
        /\ S = DOMAIN g /\ S = DOMAIN h /\ (\A y \in S : g[y] \in Nat) /\ (\A y \in S : h[y] \in Nat)
    BY <1>2 DEF OneChanges
  <2>2. IsFiniteSet(S)
    BY FiniteAssumption
  <2>3. CashReserved(L) = SumFunction(g) /\ CashReserved(N) = SumFunction(h)
    BY DEF CashReserved
  <2> HIDE DEF S, g, h
  <2>4. SumFunction(h) = SumFunction(g) + (h[i] - g[i])
    BY <2>1, <2>2, SumChange
  <2>5. SumFunction(g) \in Nat /\ SumFunction(h) \in Nat
    BY <2>1, <2>2, SumNat
  <2>6. QED
    BY <2>1, <2>3, <2>4, <2>5
<1>4. ASSUME NEW k \in Keys
      PROVE  /\ QuantityReserved(L, k) \in Nat /\ QuantityReserved(N, k) \in Nat
             /\ QuantityReserved(N, k) =
                  IF k = Terms[i].key
                  THEN QuantityReserved(L, k) + (N.orders[i].quantity - L.orders[i].quantity)
                  ELSE QuantityReserved(L, k)
  <2> DEFINE S == {j \in Intents : Terms[j].key = k}
             g == [j \in S |-> L.orders[j].quantity]
             h == [j \in S |-> N.orders[j].quantity]
  <2>1. /\ S = DOMAIN g /\ S = DOMAIN h
        /\ (\A y \in S : g[y] \in Nat) /\ (\A y \in S : h[y] \in Nat)
    BY <1>2
  <2>2. IsFiniteSet(S)
    <3>1. S \subseteq Intents
      OBVIOUS
    <3>2. QED
      BY <3>1, FiniteAssumption, FS_Subset
  <2>3. QuantityReserved(L, k) = SumFunction(g) /\ QuantityReserved(N, k) = SumFunction(h)
    BY DEF QuantityReserved
  <2>4. CASE k = Terms[i].key
    <3>1. /\ OneChanges(g, h, S, i)
          /\ g[i] = L.orders[i].quantity /\ h[i] = N.orders[i].quantity
      BY <1>2, <2>4 DEF OneChanges
    <3> HIDE DEF S, g, h
    <3>2. SumFunction(h) = SumFunction(g) + (h[i] - g[i])
      BY <2>2, <3>1, SumChange
    <3>3. SumFunction(g) \in Nat /\ SumFunction(h) \in Nat
      BY <2>1, <2>2, SumNat
    <3>4. QED
      BY <2>3, <2>4, <3>1, <3>2, <3>3
  <2>5. CASE k # Terms[i].key
    <3>1. g = h
      BY <2>5
    <3> HIDE DEF S, g, h
    <3>2. SumFunction(g) \in Nat
      BY <2>1, <2>2, SumNat
    <3>3. QED
      BY <2>3, <2>5, <3>1, <3>2
  <2>6. QED
    BY <2>4, <2>5
<1>5. QED
  BY <1>3, <1>4

(* An event about order i leaves the books sound when it leaves that order  *)
(* and its position sound and reserves for both what the order says.        *)
LEMMA BooksAfter ==
  ASSUME NEW L \in LedgerState, BooksSound(L), NEW N \in IntLedger, NEW i \in Intents,
         Local(L, N, i, Terms[i].key), OrderSound(N, i), N.cash >= 0,
         N.reserved = L.reserved + (N.orders[i].cash - L.orders[i].cash),
         LET p == L.positions[Terms[i].key]
             q == N.positions[Terms[i].key] IN
         /\ q.reserved = p.reserved + (N.orders[i].quantity - L.orders[i].quantity)
         /\ q.reserved <= q.quantity /\ q.cost >= 0
         /\ q.status = "settled" => q.quantity = 0 /\ q.cost = 0
  PROVE  BooksSound(N)
<1>1. L \in IntLedger /\ Terms[i].key \in Keys
  BY LedgerIsInt, TermsType
<1>2. \A j \in Intents : j # i => N.orders[j] = L.orders[j]
  BY DEF Local
<1>3. /\ CashReserved(L) \in Nat /\ CashReserved(N) \in Nat
      /\ CashReserved(N) = CashReserved(L) + (N.orders[i].cash - L.orders[i].cash)
      /\ \A k \in Keys : QuantityReserved(L, k) \in Nat /\ QuantityReserved(N, k) \in Nat
      /\ \A k \in Keys : QuantityReserved(N, k) =
            IF k = Terms[i].key
            THEN QuantityReserved(L, k) + (N.orders[i].quantity - L.orders[i].quantity)
            ELSE QuantityReserved(L, k)
  BY <1>1, <1>2, ReserveSums
<1>4. N.reserved = CashReserved(N) /\ N.reserved >= 0
  BY <1>3 DEF BooksSound
<1>5. ASSUME NEW j \in Intents PROVE OrderSound(N, j)
  <2>1. CASE j = i
    BY <2>1
  <2>2. CASE j # i
    <3>1. N.orders[j] = L.orders[j] /\ OrderSound(L, j)
      BY <1>2, <2>2 DEF BooksSound
    <3>2. QED
      BY <3>1 DEF OrderSound, FeeLeft, Remaining
  <2>3. QED
    BY <2>1, <2>2
<1>6. ASSUME NEW k \in Keys PROVE PositionSound(N, k)
  <2>1. PositionSound(L, k)
    BY DEF BooksSound
  <2>2. CASE k = Terms[i].key
    BY <1>3, <2>1, <2>2 DEF PositionSound
  <2>3. CASE k # Terms[i].key
    <3>1. N.positions[k] = L.positions[k] /\ QuantityReserved(N, k) = QuantityReserved(L, k)
      BY <1>3, <2>3 DEF Local
    <3>2. QED
      BY <2>1, <3>1 DEF PositionSound
  <2>4. QED
    BY <2>2, <2>3
<1>7. EvidenceAgrees(N)
  BY DEF BooksSound, EvidenceAgrees, Local
<1>8. QED
  BY <1>4, <1>5, <1>6, <1>7 DEF BooksSound

(* The order an event is about: its amounts, and what assert_invariants says *)
(* of it and of its position.                                               *)
LEMMA OrderFacts ==
  ASSUME NEW L \in LedgerState, AssertInvariants(L), NEW i \in Intents
  PROVE  LET o == L.orders[i]
             p == L.positions[Terms[i].key] IN
         /\ o.filled \in Nat /\ o.fees \in Nat /\ o.cash \in Nat /\ o.quantity \in Nat
         /\ p.quantity \in Nat /\ p.reserved \in Nat /\ p.cost \in Nat
         /\ p.reserved <= p.quantity
         /\ p.status = "settled" => p.quantity = 0 /\ p.cost = 0
         /\ L.cash \in Nat /\ L.reserved \in Nat /\ L.cash >= L.reserved
         /\ BooksSound(L) /\ OrderSound(L, i)
<1>1. L.orders[i] \in Order /\ L.positions[Terms[i].key] \in Position
  BY TermsType DEF LedgerState
<1>2. BooksSound(L) /\ AvailableCash(L) >= 0
  BY DEF AssertInvariants
<1>3. OrderSound(L, i) /\ PositionSound(L, Terms[i].key)
  BY <1>2, TermsType DEF BooksSound
<1>4. L.cash \in Nat /\ L.reserved \in Nat
  BY DEF LedgerState
<1>5. QED
  BY <1>1, <1>2, <1>3, <1>4 DEF Order, Position, PositionSound, AvailableCash

(* _apply_intent_created *)
LEMMA CreateSuffices ==
  ASSUME NEW L \in LedgerState, AssertInvariants(L), OrdersSound(L), L.opened,
         NEW i \in Intents, CanCreate(L, i)
  PROVE  AssertInvariants(Create(L, i))
<1> DEFINE N == Create(L, i)
           o == L.orders[i]
           n == N.orders[i]
           p == L.positions[Terms[i].key]
           q == N.positions[Terms[i].key]
           kept == IF IsBuy(i) THEN 0 ELSE Terms[i].quantity
           c == CashReservation(i)
<1>1. N \in IntLedger /\ Created(L, N, i)
  BY CreateEffect
<1>2. OrderIs(o, "none", 0, 0, 0, 0, {})
  BY DEF CanCreate, OrdersSound, Fresh
<1>3. /\ Terms[i].quantity \in Nat /\ Terms[i].limit \in Nat /\ Terms[i].fee \in Nat
      /\ Value(Terms[i].limit, Terms[i].quantity) \in Nat
  BY TermsType, ValueNat
<1>4. c \in Nat /\ kept \in Nat
  BY <1>3 DEF CashReservation
<1> HIDE DEF N
<1>5. /\ Local(L, N, i, Terms[i].key) /\ N.cash = L.cash /\ N.reserved = L.reserved + c
      /\ OrderIs(n, "created", 0, 0, c, kept, {})
      /\ PositionIs(q, p.status, p.quantity, p.reserved + kept, p.cost, p.pnl)
  BY <1>1 DEF Created
<1>6. OrderSound(N, i)
  <2>1. Remaining(N, i) = Terms[i].quantity /\ FeeLeft(N, i) = Terms[i].fee
    BY <1>3, <1>5 DEF Remaining, FeeLeft, OrderIs
  <2>2. c = IF IsBuy(i) THEN Value(Terms[i].limit, Terms[i].quantity) + Terms[i].fee ELSE 0
    BY DEF CashReservation
  <2> HIDE DEF c
  <2>3. QED
    BY <1>3, <1>4, <1>5, <2>1, <2>2 DEF OrderSound, OrderIs, Terminal
<1> HIDE DEF c
<1>7. /\ BooksSound(L) /\ p.quantity \in Nat /\ p.reserved \in Nat /\ p.cost \in Nat
      /\ p.reserved <= p.quantity
      /\ p.status = "settled" => p.quantity = 0 /\ p.cost = 0
      /\ L.cash \in Nat /\ L.reserved \in Nat /\ L.cash >= L.reserved
  BY OrderFacts
<1>8. /\ L.cash - (L.reserved + c) >= 0
      /\ p.reserved + kept <= p.quantity
  <2>1. CASE IsBuy(i)
    BY <1>4, <1>7, <2>1 DEF CanCreate, AvailableCash, c
  <2>2. CASE ~IsBuy(i)
    <3>1. c = 0
      BY <2>2 DEF c, CashReservation
    <3>2. QED
      BY <1>3, <1>7, <2>2, <3>1 DEF CanCreate
  <2>3. QED
    BY <2>1, <2>2
<1>9. BooksSound(N)
  <2>1. N.reserved = L.reserved + (n.cash - o.cash)
    BY <1>2, <1>4, <1>5, <1>7 DEF OrderIs
  <2>2. /\ q.reserved = p.reserved + (n.quantity - o.quantity)
        /\ q.reserved <= q.quantity /\ q.cost >= 0
        /\ q.status = "settled" => q.quantity = 0 /\ q.cost = 0
    BY <1>2, <1>4, <1>5, <1>7, <1>8 DEF OrderIs, PositionIs
  <2>3. N.cash >= 0
    BY <1>5, <1>7
  <2>4. QED
    BY <1>1, <1>5, <1>6, <1>7, <2>1, <2>2, <2>3, BooksAfter
<1>10. AvailableCash(N) >= 0 /\ N.opened
  BY <1>5, <1>8 DEF AvailableCash, Local
<1>11. QED
  BY <1>9, <1>10 DEF AssertInvariants, N

(* _apply_terminal *)
LEMMA TerminateSuffices ==
  ASSUME NEW L \in LedgerState, AssertInvariants(L), SettledFree(L), L.opened,
         NEW i \in Intents, NEW t \in {"rejected", "cancelled"}, CanTerminate(L, i, t)
  PROVE  AssertInvariants(Terminate(L, i, t))
<1> DEFINE N == Terminate(L, i, t)
           o == L.orders[i]
           n == N.orders[i]
           p == L.positions[Terms[i].key]
           q == N.positions[Terms[i].key]
           held == IF IsBuy(i) THEN o.cash ELSE 0
           kept == IF IsBuy(i) THEN 0 ELSE o.quantity
<1>1. N \in IntLedger /\ Terminated(L, N, i, t)
  BY TerminateEffect
<1> HIDE DEF N
<1>2. /\ o.filled \in Nat /\ o.fees \in Nat /\ o.cash \in Nat /\ o.quantity \in Nat
      /\ p.quantity \in Nat /\ p.reserved \in Nat /\ p.cost \in Nat
      /\ p.reserved <= p.quantity
      /\ p.status = "settled" => p.quantity = 0 /\ p.cost = 0
      /\ L.cash \in Nat /\ L.reserved \in Nat /\ L.cash >= L.reserved
      /\ BooksSound(L) /\ OrderSound(L, i)
  BY OrderFacts
<1>3. /\ Local(L, N, i, Terms[i].key) /\ N.cash = L.cash /\ N.reserved = L.reserved - held
      /\ OrderIs(n, t, o.filled, o.fees, o.cash - held, o.quantity - kept, o.fills)
      /\ PositionIs(q, p.status, p.quantity, p.reserved - kept, p.cost, p.pnl)
  BY <1>1 DEF Terminated
<1>4. o.state # "none"
  BY DEF CanTerminate, CanMove, AllowedTransitions
<1>5. OrderSound(N, i)
  <2>1. FeeLeft(N, i) = FeeLeft(L, i)
    BY <1>3 DEF FeeLeft, OrderIs
  <2>2. /\ o.filled <= Terms[i].quantity
        /\ IF IsBuy(i) THEN o.quantity = 0 /\ FeeLeft(L, i) >= 0 ELSE o.cash = 0
    BY <1>2, <1>4 DEF OrderSound
  <2>3. n.cash = 0 /\ n.quantity = 0 /\ n.state \in Terminal /\ n.filled = o.filled
    BY <1>2, <1>3, <2>2 DEF OrderIs, Terminal
  <2>4. QED
    BY <2>1, <2>2, <2>3 DEF OrderSound
<1>6. held \in Nat /\ kept \in Nat
  BY <1>2
<1> HIDE DEF held, kept
<1>7. BooksSound(N)
  <2>1. N.reserved = L.reserved + (n.cash - o.cash)
    BY <1>2, <1>3, <1>6 DEF OrderIs
  <2>2. /\ q.reserved = p.reserved + (n.quantity - o.quantity)
        /\ q.reserved <= q.quantity /\ q.cost >= 0
        /\ q.status = "settled" => q.quantity = 0 /\ q.cost = 0
    BY <1>2, <1>3, <1>6 DEF OrderIs, PositionIs
  <2>3. N.cash >= 0
    BY <1>2, <1>3
  <2>4. QED
    BY <1>1, <1>2, <1>3, <1>5, <2>1, <2>2, <2>3, BooksAfter
<1>8. AvailableCash(N) >= 0 /\ N.opened
  BY <1>2, <1>3, <1>6 DEF AvailableCash, Local
<1>9. QED
  BY <1>7, <1>8 DEF AssertInvariants, N

(* _apply_fill of a buy: the cash may fall one quantum short of what the    *)
(* open orders reserve, and no further.                                     *)
LEMMA BuyFillSuffices ==
  ASSUME NEW L \in LedgerState, AssertInvariants(L), NEW i \in Intents, NEW f \in FillData,
         CanFill(L, i, f), IsBuy(i), NEW N \in IntLedger, FilledBuy(L, N, i, f)
  PROVE  BooksSound(N) /\ AvailableCash(N) >= -1
<1> DEFINE o == L.orders[i]
           n == N.orders[i]
           p == L.positions[Terms[i].key]
           q == N.positions[Terms[i].key]
           t == FillTarget(L, i, f)
           after == ReservationAfter(L, i, f)
           left == IF t = "filled" THEN 0 ELSE after
           cost == Value(f.price, f.quantity)
           all == Value(Terms[i].limit, Remaining(L, i))
           rest == Value(Terms[i].limit, Remaining(L, i) - f.quantity)
           fee == FeeLeft(L, i)
<1>1. /\ o.filled \in Nat /\ o.fees \in Nat /\ o.cash \in Nat /\ o.quantity \in Nat
      /\ p.quantity \in Nat /\ p.reserved \in Nat /\ p.cost \in Nat
      /\ p.reserved <= p.quantity
      /\ p.status = "settled" => p.quantity = 0 /\ p.cost = 0
      /\ L.cash \in Nat /\ L.reserved \in Nat /\ L.cash >= L.reserved
      /\ BooksSound(L) /\ OrderSound(L, i)
  BY OrderFacts
<1>2. /\ Local(L, N, i, Terms[i].key)
      /\ N.cash = L.cash - Debit(f) /\ N.reserved = L.reserved - (o.cash - left)
      /\ OrderIs(n, t, o.filled + f.quantity, o.fees + f.fee, left, o.quantity, o.fills \cup {f})
      /\ PositionIs(q, "open", p.quantity + f.quantity, p.reserved, p.cost + Debit(f), p.pnl)
  BY DEF FilledBuy
<1>3. o.state # "none" /\ o.state \notin Terminal
  BY TargetIsState DEF CanFill, CanMove, AllowedTransitions
<1>4. /\ f.quantity <= Remaining(L, i) /\ f.price <= Terms[i].limit /\ f.fee <= fee
      /\ Debit(f) <= L.cash /\ after <= o.cash
  BY DEF CanFill, CanBuyFill
<1>5. /\ f.quantity \in Nat /\ f.fee \in Nat /\ f.price \in Nat
      /\ cost \in Nat /\ Debit(f) \in Nat /\ after \in Nat
  BY <1>4, FillAmounts
<1>6. /\ Terms[i].quantity \in Nat /\ Terms[i].limit \in Nat /\ Terms[i].fee \in Nat
      /\ Remaining(L, i) \in Nat /\ Remaining(L, i) = Terms[i].quantity - o.filled
      /\ fee \in Nat /\ fee = Terms[i].fee - o.fees
  BY <1>1, <1>4, <1>5, TermsType DEF Remaining, FeeLeft
<1>7. o.quantity = 0 /\ o.cash = all + fee /\ after = rest + (fee - f.fee) /\ Debit(f) = cost + f.fee
  BY <1>1, <1>3 DEF OrderSound, ReservationAfter, Debit
<1>8. /\ t = "filled" => Remaining(L, i) = f.quantity
      /\ t \in {"filled", "partially_filled"}
  BY DEF FillTarget
<1>9. all \in Nat /\ rest \in Nat /\ all - rest - cost >= -1
  <2> DEFINE rem == Remaining(L, i)
             limit == Terms[i].limit
  <2>1. /\ rem \in Nat /\ limit \in Nat /\ rem - f.quantity \in Nat
        /\ f.price <= limit /\ f.quantity <= rem
    BY <1>4, <1>5, <1>6
  <2> HIDE DEF rem, limit
  <2>2. Value(limit, rem) - Value(limit, rem - f.quantity) - Value(f.price, f.quantity) >= -1
    BY <1>5, <2>1, FillCost
  <2>3. Value(limit, rem) \in Nat /\ Value(limit, rem - f.quantity) \in Nat
    BY <2>1, ValueNat
  <2>4. QED
    BY <2>2, <2>3 DEF rem, limit
<1>10. /\ Remaining(N, i) = Remaining(L, i) - f.quantity
       /\ FeeLeft(N, i) = fee - f.fee
  BY <1>1, <1>2, <1>5, <1>6 DEF Remaining, FeeLeft, OrderIs
<1>11. OrderSound(N, i)
  <2> HIDE DEF rest, fee, after
  <2>1. n.quantity = 0 /\ n.filled <= Terms[i].quantity /\ FeeLeft(N, i) >= 0
    <3>1. n.quantity = 0 /\ n.filled = o.filled + f.quantity
      BY <1>2, <1>7 DEF OrderIs
    <3>2. f.quantity <= Terms[i].quantity - o.filled
      BY <1>4, <1>6
    <3>3. FeeLeft(N, i) >= 0
      BY <1>4, <1>5, <1>6, <1>10
    <3>4. QED
      BY <1>1, <1>5, <1>6, <3>1, <3>2, <3>3
  <2>2. CASE t = "filled"
    <3>1. n.cash = 0 /\ n.state \in Terminal
      BY <1>2, <2>2 DEF OrderIs, Terminal
    <3>2. QED
      BY <2>1, <3>1 DEF OrderSound
  <2>3. CASE t = "partially_filled"
    <3>1. n.cash = after /\ n.state \notin Terminal
      BY <1>2, <2>3 DEF OrderIs, Terminal
    <3>2. after = Value(Terms[i].limit, Remaining(N, i)) + FeeLeft(N, i)
      BY <1>7, <1>10 DEF rest
    <3>3. QED
      BY <1>5, <2>1, <3>1, <3>2 DEF OrderSound
  <2>4. QED
    BY <1>8, <2>2, <2>3
<1>12. left \in Nat /\ left <= after
  BY <1>5
<1> HIDE DEF left, after, all, rest, cost, fee
<1>13. BooksSound(N)
  <2>1. N.reserved = L.reserved + (n.cash - o.cash)
    BY <1>1, <1>2, <1>12 DEF OrderIs
  <2>2. /\ q.reserved = p.reserved + (n.quantity - o.quantity)
        /\ q.reserved <= q.quantity /\ q.cost >= 0 /\ q.status # "settled"
    BY <1>1, <1>2, <1>5 DEF OrderIs, PositionIs
  <2>3. N.cash >= 0
    BY <1>1, <1>2, <1>4, <1>5
  <2>4. QED
    BY <1>1, <1>2, <1>11, <2>1, <2>2, <2>3, BooksAfter
<1>14. AvailableCash(N) >= -1
  <2>1. AvailableCash(N) = (L.cash - Debit(f)) - (L.reserved - (o.cash - left))
    BY <1>2 DEF AvailableCash
  <2>2. QED
    BY <1>1, <1>5, <1>6, <1>7, <1>9, <1>12, <2>1
<1>15. QED
  BY <1>13, <1>14

(* _apply_fill of a sale. *)
LEMMA SellFillSuffices ==
  ASSUME NEW L \in LedgerState, AssertInvariants(L), NEW i \in Intents, NEW f \in FillData,
         CanFill(L, i, f), ~IsBuy(i), NEW N \in IntLedger, FilledSell(L, N, i, f)
  PROVE  BooksSound(N) /\ AvailableCash(N) >= -1
<1> DEFINE o == L.orders[i]
           n == N.orders[i]
           p == L.positions[Terms[i].key]
           q == N.positions[Terms[i].key]
           t == FillTarget(L, i, f)
           freed == IF t = "filled" THEN o.quantity ELSE f.quantity
           net == Value(f.price, f.quantity) - f.fee
           cost == AllocatedCost(p, f.quantity)
<1>1. /\ o.filled \in Nat /\ o.fees \in Nat /\ o.cash \in Nat /\ o.quantity \in Nat
      /\ p.quantity \in Nat /\ p.reserved \in Nat /\ p.cost \in Nat
      /\ p.reserved <= p.quantity
      /\ L.cash \in Nat /\ L.reserved \in Nat /\ L.cash >= L.reserved
      /\ BooksSound(L) /\ OrderSound(L, i)
  BY OrderFacts
<1>2. /\ Local(L, N, i, Terms[i].key)
      /\ N.cash = L.cash + net /\ N.reserved = L.reserved
      /\ OrderIs(n, t, o.filled + f.quantity, o.fees + f.fee, o.cash, o.quantity - freed,
                 o.fills \cup {f})
      /\ PositionIs(q, "open", p.quantity - f.quantity, p.reserved - freed, p.cost - cost,
                    p.pnl + net - cost)
  BY DEF FilledSell
<1>3. o.state # "none" /\ o.state \notin Terminal
  BY TargetIsState DEF CanFill, CanMove, AllowedTransitions
<1>4. /\ f.quantity <= Remaining(L, i) /\ f.quantity <= p.quantity
      /\ f.fee <= Value(f.price, f.quantity)
  BY DEF CanFill, CanSellFill
<1>5. f.quantity \in Nat /\ f.fee \in Nat /\ Value(f.price, f.quantity) \in Nat
  BY <1>4, FillAmounts
<1>6. Terms[i].quantity \in Nat /\ Remaining(L, i) = Terms[i].quantity - o.filled
  BY TermsType DEF Remaining
<1>7. o.cash = 0 /\ o.quantity = Remaining(L, i)
  BY <1>1, <1>3 DEF OrderSound
<1>8. (t = "filled" /\ Remaining(L, i) = f.quantity) \/ t = "partially_filled"
  BY DEF FillTarget
<1>9. freed = f.quantity /\ net \in Nat
  BY <1>4, <1>5, <1>7, <1>8
<1>10. cost \in Nat /\ cost <= p.cost
  <2>1. p \in Position
    BY TermsType DEF LedgerState
  <2>2. QED
    BY <1>4, <1>5, <2>1, AllocatedLess
<1>11. Remaining(N, i) = Remaining(L, i) - f.quantity
  BY <1>1, <1>2, <1>5, <1>6 DEF Remaining, OrderIs
<1> HIDE DEF freed, net, cost
<1>12. OrderSound(N, i)
  <2>1. /\ n.cash = 0 /\ n.quantity = Remaining(N, i) /\ n.quantity >= 0
        /\ n.filled <= Terms[i].quantity /\ n.state = t
    BY <1>1, <1>2, <1>4, <1>5, <1>6, <1>7, <1>9, <1>11 DEF OrderIs
  <2>2. t = "filled" => n.quantity = 0
    BY <1>5, <1>8, <1>11, <2>1
  <2>3. t = "partially_filled" => t \notin Terminal
    BY DEF Terminal
  <2>4. QED
    BY <1>8, <2>1, <2>2, <2>3 DEF OrderSound
<1>13. BooksSound(N)
  <2>1. N.reserved = L.reserved + (n.cash - o.cash)
    BY <1>1, <1>2, <1>7 DEF OrderIs
  <2>2. /\ q.reserved = p.reserved + (n.quantity - o.quantity)
        /\ q.reserved <= q.quantity /\ q.cost >= 0 /\ q.status # "settled"
    BY <1>1, <1>2, <1>5, <1>9, <1>10 DEF OrderIs, PositionIs
  <2>3. N.cash >= 0
    BY <1>1, <1>2, <1>9
  <2>4. QED
    BY <1>1, <1>2, <1>12, <2>1, <2>2, <2>3, BooksAfter
<1>14. AvailableCash(N) >= -1
  BY <1>1, <1>2, <1>9 DEF AvailableCash
<1>15. QED
  BY <1>13, <1>14

(* The ledger with other evidence or resolutions. *)
LEMMA SameDealsSound ==
  ASSUME NEW L \in LedgerState, AssertInvariants(L), L.opened, NEW N, SameDeals(L, N),
         N.cash = L.cash, N.opened = L.opened, EvidenceAgrees(N)
  PROVE  AssertInvariants(N)
<1>1. BooksSound(L) /\ AvailableCash(L) >= 0
  BY DEF AssertInvariants
<1>2. N.orders = L.orders /\ N.positions = L.positions /\ N.reserved = L.reserved
  BY DEF SameDeals
<1>3. CashReserved(N) = CashReserved(L) /\ \A k \in Keys : QuantityReserved(N, k) = QuantityReserved(L, k)
  BY <1>2 DEF CashReserved, QuantityReserved
<1>4. \A i \in Intents : OrderSound(N, i)
  BY <1>1, <1>2 DEF BooksSound, OrderSound, FeeLeft, Remaining
<1>5. \A k \in Keys : PositionSound(N, k)
  BY <1>1, <1>2, <1>3 DEF BooksSound, PositionSound
<1>6. QED
  BY <1>1, <1>2, <1>3, <1>4, <1>5 DEF BooksSound, AssertInvariants, AvailableCash

(* _apply_settlement *)
LEMMA SettleSuffices ==
  ASSUME NEW L \in LedgerState, AssertInvariants(L), L.opened,
         NEW k \in Keys, NEW fee \in Nat, CanSettle(L, k, fee)
  PROVE  AssertInvariants(Settle(L, k, fee))
<1> DEFINE N == Settle(L, k, fee)
           net == Proceeds(L, k) - fee
<1>1. N \in IntLedger /\ Settled(L, N, k, fee) /\ net \in Nat
  BY SettleEffect DEF CanSettle
<1> HIDE DEF N
<1>2. BooksSound(L) /\ AvailableCash(L) >= 0 /\ L.cash \in Nat /\ L.reserved \in Nat
  BY DEF AssertInvariants, LedgerState
<1>3. /\ N.orders = L.orders /\ N.reserved = L.reserved /\ N.opened
      /\ N.evidence = L.evidence /\ N.resolutions = L.resolutions
      /\ \A l \in Keys : l # k => N.positions[l] = L.positions[l]
      /\ N.cash = L.cash + net
      /\ N.positions[k].status = "settled" /\ N.positions[k].quantity = 0
      /\ N.positions[k].reserved = 0 /\ N.positions[k].cost = 0
  BY <1>1 DEF Settled, PositionIs
<1>4. CashReserved(N) = CashReserved(L) /\ \A l \in Keys : QuantityReserved(N, l) = QuantityReserved(L, l)
  BY <1>3 DEF CashReserved, QuantityReserved
<1>5. \A i \in Intents : OrderSound(N, i)
  BY <1>2, <1>3 DEF BooksSound, OrderSound, FeeLeft, Remaining
<1>6. ASSUME NEW l \in Keys PROVE PositionSound(N, l)
  <2>1. PositionSound(L, l)
    BY <1>2 DEF BooksSound
  <2>2. CASE l = k
    BY <1>3, <1>4, <2>1, <2>2 DEF PositionSound, CanSettle
  <2>3. CASE l # k
    BY <1>3, <1>4, <2>1, <2>3 DEF PositionSound
  <2>4. QED
    BY <2>2, <2>3
<1>7. EvidenceAgrees(N)
  BY <1>2, <1>3 DEF BooksSound, EvidenceAgrees
<1> HIDE DEF net
<1>8. BooksSound(N) /\ AvailableCash(N) >= 0
  BY <1>1, <1>2, <1>3, <1>4, <1>5, <1>6, <1>7 DEF BooksSound, AvailableCash
<1>9. QED
  BY <1>3, <1>8 DEF AssertInvariants, N

LEMMA ReducersSufficeIn ==
  ASSUME IInv
  PROVE  ReducersSuffice
<1>1. SUFFICES ASSUME ledger.opened PROVE ReducersSuffice
  BY DEF ReducersSuffice
<1>2. ledger \in LedgerState /\ AssertInvariants(ledger) /\ SettledFree(ledger) /\ OrdersSound(ledger)
  BY DEF IInv, TypeOK
<1>3. ASSUME NEW i \in Intents, CanCreate(ledger, i)
      PROVE  AssertInvariants(Create(ledger, i))
  BY <1>1, <1>2, <1>3, CreateSuffices
<1>4. ASSUME NEW i \in Intents, NEW t \in {"rejected", "cancelled"}, CanTerminate(ledger, i, t)
      PROVE  AssertInvariants(Terminate(ledger, i, t))
  BY <1>1, <1>2, <1>4, TerminateSuffices
<1>5. ASSUME NEW i \in Intents, NEW f \in Fills, CanFill(ledger, i, f)
      PROVE  BooksSound(Fill(ledger, i, f)) /\ AvailableCash(Fill(ledger, i, f)) >= -1
  <2>1. f \in FillData
    BY InputAssumption
  <2>2. Fill(ledger, i, f) \in IntLedger /\ Filled(ledger, Fill(ledger, i, f), i, f)
    BY <1>2, <1>5, <2>1, FillEffect
  <2>3. QED
    BY <1>2, <1>5, <2>1, <2>2, BuyFillSuffices, SellFillSuffices DEF Filled
<1>6. ASSUME NEW m \in Markets, NEW p \in PayoutVectors, CanRecordEvidence(ledger, m, p)
      PROVE  AssertInvariants(RecordEvidence(ledger, m, p))
  <2> DEFINE N == RecordEvidence(ledger, m, p)
  <2>1. /\ SameDeals(ledger, N) /\ N.cash = ledger.cash /\ N.opened = ledger.opened
        /\ N.resolutions = ledger.resolutions
        /\ N.evidence[m] = p /\ \A n \in Markets : n # m => N.evidence[n] = ledger.evidence[n]
    BY <1>2, <1>6, EvidenceEffect
  <2> HIDE DEF N
  <2>2. EvidenceAgrees(N)
    BY <1>2, <1>6, <2>1 DEF EvidenceAgrees, AssertInvariants, BooksSound, CanRecordEvidence
  <2>3. QED
    BY <1>1, <1>2, <2>1, <2>2, SameDealsSound DEF N
<1>7. ASSUME NEW m \in Markets, NEW p \in PayoutVectors, CanResolve(ledger, m, p)
      PROVE  AssertInvariants(Resolve(ledger, m, p))
  <2> DEFINE N == Resolve(ledger, m, p)
  <2>1. /\ SameDeals(ledger, N) /\ N.cash = ledger.cash /\ N.opened = ledger.opened
        /\ N.evidence = ledger.evidence
        /\ N.resolutions[m] = p /\ \A n \in Markets : n # m => N.resolutions[n] = ledger.resolutions[n]
    BY <1>2, <1>7, ResolveEffect
  <2> HIDE DEF N
  <2>2. EvidenceAgrees(N)
    BY <1>2, <1>7, <2>1 DEF EvidenceAgrees, AssertInvariants, BooksSound, CanResolve
  <2>3. QED
    BY <1>1, <1>2, <2>1, <2>2, SameDealsSound DEF N
<1>8. ASSUME NEW k \in Keys, NEW fee \in Fees, CanSettle(ledger, k, fee)
      PROVE  AssertInvariants(Settle(ledger, k, fee))
  <2>1. fee \in Nat
    BY InputAssumption
  <2>2. QED
    BY <1>1, <1>2, <1>8, <2>1, SettleSuffices
<1>9. QED
  BY <1>3, <1>4, <1>5, <1>6, <1>7, <1>8 DEF ReducersSuffice

-----------------------------------------------------------------------------
LEMMA InvariantHolds == Spec => []IInv
<1>1. IInv /\ [Next]_vars => IInv'
  BY StepIInv
<1>2. QED
  BY <1>1, InitIInv, PTL DEF Spec

(* Every event sequence keeps the ledger well typed: cash, reservations,    *)
(* quantities and cost bases are never negative (apply_event, model.py).    *)
THEOREM TypeCorrect == Spec => []TypeOK
<1>1. IInv => TypeOK
  BY DEF IInv
<1>2. QED
  BY <1>1, InvariantHolds, PTL

(* What the reducers' own checks let through never trips                    *)
(* assert_invariants, except that a fill may leave the available cash one   *)
(* quantum short (apply_event): for every order size, price and fee, and    *)
(* however the events interleave.                                           *)
THEOREM ReducersSufficeHolds == Spec => []ReducersSuffice
<1>1. IInv => ReducersSuffice
  BY ReducersSufficeIn
<1>2. QED
  BY <1>1, InvariantHolds, PTL

(* The books balance: cash and the cost of open positions are the deposit   *)
(* and the profit taken, through partial fills, sales with a rounded cost   *)
(* allocation, fees and settlements (_apply_buy_fill, _apply_sell_fill,     *)
(* _apply_settlement).                                                      *)
THEOREM BooksBalanceHolds == Spec => []BooksBalance
<1>1. IInv => BooksBalance
  BY DEF IInv, Balanced, Costs, Gains, BooksBalance
<1>2. QED
  BY <1>1, InvariantHolds, PTL

(* An open position is what the fills of its orders, each counted once,     *)
(* bought and did not sell (_apply_fill).                                   *)
THEOREM PositionIsFillsHolds == Spec => []PositionIsFills
<1>1. IInv => PositionIsFills
  BY DEF IInv, FillsHeld, FillsOn, IntentsOn, Total, PositionIsFills, FilledOn
<1>2. QED
  BY <1>1, InvariantHolds, PTL

(* A terminal order, a settled position, recorded evidence and a recorded   *)
(* resolution never change again, whatever arrives late                     *)
(* (require_transition, _apply_settlement, _release_reservations).          *)
THEOREM ClosedForGoodHolds == Spec => ClosedForGood
<1>1. IInv /\ Next => Kept(ledger, ledger')
  BY StepHolds DEF IInv, StepResult
<1>2. IInv /\ [Next]_vars => [Kept(ledger, ledger')]_vars
  BY <1>1
<1>3. Spec => [][Kept(ledger, ledger')]_vars
  BY <1>2, InvariantHolds, PTL DEF Spec
<1>4. QED
  BY <1>3, PTL DEF ClosedForGood, Kept
=============================================================================
