------------------------- MODULE PaperTradingProofs -------------------------
(***************************************************************************)
(* Paper trading, for any number of processes, orders, plans, scopes and   *)
(* caps: the ledger holds of an order what its plan says, and the          *)
(* exposures stay within the caps of the policy.                           *)
(*                                                                         *)
(* The invariant is about the store (Good), and about what a process that  *)
(* is in the middle of a call has read of it (WorkOk): a batch is a        *)
(* transaction, and what was read stays true until it is used because the  *)
(* rows of a decision that was taken never change (Later).                 *)
(*                                                                         *)
(* An order lives its whole life in one batch, so between the transactions *)
(* an order is new or closed (OrderOk); within a batch the proof follows   *)
(* it event by event (Through, Partly), from what each reducer changes.  A *)
(* batch that no order's life is in (Quiet) deposits, settles or values,   *)
(* which never raises an exposure, or creates.  The caps then rest on two  *)
(* facts: the debit of a fill is at most the reservation it replaces, so   *)
(* that a life never raises the exposure of its position, and an entry     *)
(* adds its own reservation to a position that had none, which is what the *)
(* decision allowed for (ApprovedAllows).                                  *)
(***************************************************************************)
EXTENDS PaperTrading, DataFacts

-----------------------------------------------------------------------------
(* The invariant *)

LifeKinds == LifeCycle \cup {"fill"}

\* What is known of a position.
PositionOk(p) ==
    /\ {"status", "quantity", "cost"} \subseteq DOMAIN p
    /\ p.status \in {"none", "open", "settled"} /\ p.quantity \in Nat /\ p.cost \in Nat
    /\ p.status = "none" => p.quantity = 0 /\ p.cost = 0
    /\ p.status = "open" => p.quantity > 0

\* The shape of a ledger, within a batch too.
Shape(L) ==
    /\ {"orders", "positions"} \subseteq DOMAIN L
    /\ L.orders = [i \in Intents |-> L.orders[i]]
    /\ \A i \in Intents : {"state", "filled"} \subseteq DOMAIN L.orders[i]
    /\ L.positions = [k \in Keys |-> L.positions[k]]
    /\ \A k \in Keys : PositionOk(L.positions[k])

\* An order without a life is as it was created; one with a life is over.
OrderOk(L, log, i) ==
    /\ LifeOf(log, i) = {} => L.orders[i] \in {NoOrder, NewOrder(i)}
    /\ LifeOf(log, i) # {} => L.orders[i].state \in Terminal

\* Scopes are registered for what they are.
ScopesOk(log) ==
    \A n \in DOMAIN log : log[n].kind = "scope" => log[n].of \in Keys /\ log[n].data = Scopes[log[n].of]

Published(S) ==
    /\ {"log", "ledger", "claims", "adapters"} \subseteq DOMAIN S
    /\ IsSequence(S.log)
    /\ Shape(S.ledger)
    /\ \A i \in Intents : OrderOk(S.ledger, S.log, i)
    /\ ScopesOk(S.log)

\* An order that there is, and a plan, belong to a decision that was taken.
Decided(S, i) == S.claims[Decision[i]] # NoClaim
TablesOk(S) ==
    /\ S.claims = [d \in Decisions |-> S.claims[d]]
    /\ S.adapters = [i \in Intents |-> S.adapters[i]]
    /\ \A i \in Intents :
         /\ \/ S.ledger.orders[i] # NoOrder
            \/ LifeOf(S.log, i) # {}
            \/ S.adapters[i] # NoAdapter
            => Decided(S, i)
         /\ S.adapters[i] # NoAdapter => i \notin Legacy /\ S.adapters[i].payload.plan \in Plans[i]

\* The caps of a store.
ExposedIn(L, keys) == Exposure(L, ExposedKeys(L) \cap keys)
LegacyKeys == {Terms[i].key : i \in Legacy}
ScopedKeys(log) == {log[n].of : n \in {m \in DOMAIN log : log[m].kind = "scope"}}
InEvent(log, v) == {k \in ScopedKeys(log) : Scopes[k].event = v}
InCityDate(log, v) == {k \in ScopedKeys(log) : Scopes[k].cityDate = v}
InGroup(log, v) == {k \in ScopedKeys(log) : v \in Scopes[k].groups}
Capped(S) ==
    /\ ExposedIn(S.ledger, Keys \ LegacyKeys) <= Policy.total
    /\ Cardinality(ExposedKeys(S.ledger)) <= Max({Policy.positions, Cardinality(Legacy)})
    /\ \A k \in Keys :
         /\ ExposedIn(S.ledger, InEvent(S.log, Scopes[k].event)) <= Policy.event
         /\ ExposedIn(S.ledger, InCityDate(S.log, Scopes[k].cityDate)) <= Policy.cityDate
         /\ \A g \in Scopes[k].groups : ExposedIn(S.ledger, InGroup(S.log, g)) <= Policy.group

\* PlanFollowed, of a store.
FollowedFor(S, i) ==
    \/ LifeOf(S.log, i) = {}
    \/ S.adapters[i] # NoAdapter /\ Follows(S.log, i, S.adapters[i])
    \/ /\ S.adapters[i] = NoAdapter
       /\ \E n \in DOMAIN S.log : LifeOf(S.log, i) = {n} /\ S.log[n].id = <<"cancelled", i>>
FollowedIn(S) == \A i \in Intents : FollowedFor(S, i)

Good(S) == Published(S) /\ TablesOk(S) /\ FollowedIn(S) /\ Capped(S)

\* What a later store keeps of an earlier one.
Later(S, T) ==
    \A i \in Intents : Decided(S, i) => Decided(T, i) /\ T.adapters[i] = S.adapters[i]

\* What a process has read stays true until it acts on it.
WorkOk(S, step, w) ==
    /\ DOMAIN w = DOMAIN Idle
    /\ step \in {"cancel", "reconcile"} =>
         \A r \in w.pending : r.intent \in Intents /\ r.state = "created" /\ Decided(S, r.intent)
    /\ step = "cancel" => \A r \in w.pending : S.adapters[r.intent] = NoAdapter
    /\ step \in {"cancel", "reconcile"} /\ w.then = "check" => w.decision \in Decisions
    /\ step \in {"size", "commit", "submit"} => w.decision \in Decisions
    /\ step \in {"commit", "submit"} =>
         /\ w.intent \in Intents \ Legacy /\ Decision[w.intent] = w.decision
         /\ w.plan \in Plans[w.intent]
    /\ step = "submit" => S.adapters[w.intent] # NoAdapter

Processing ==
    /\ pc = [p \in Processes |-> pc[p]] /\ work = [p \in Processes |-> work[p]]
    /\ \A p \in Processes : WorkOk(store, pc[p], work[p])

IInv == Good(store) /\ Processing

-----------------------------------------------------------------------------
(* A batch, event by event *)

First(S) == [ok |-> TRUE, store |-> S]

IsBatch(f, S, events, intents, N) ==
    f = [n \in 0 .. N |-> IF n = 0 THEN First(S) ELSE AppendRow(S, f[n - 1], events[n], intents)]

LEMMA BatchRows ==
    ASSUME NEW f, NEW S, NEW events, NEW intents, NEW N \in Nat, IsBatch(f, S, events, intents, N)
    PROVE  /\ f[0] = First(S)
           /\ \A n \in Nat : n < N => f[n + 1] = AppendRow(S, f[n], events[n + 1], intents)
<1>1. f[0] = First(S)
  BY DEF IsBatch
<1>2. ASSUME NEW n \in Nat, n < N PROVE f[n + 1] = AppendRow(S, f[n], events[n + 1], intents)
  <2> DEFINE m == n + 1
  <2>1. m \in 0 .. N /\ m # 0 /\ m - 1 = n
    BY <1>2
  <2> HIDE DEF m
  <2>2. f[m] = AppendRow(S, f[m - 1], events[m], intents)
    BY <2>1 DEF IsBatch
  <2> QED
    BY <2>1, <2>2 DEF m
<1> QED
  BY <1>1, <1>2

LEMMA BatchExists ==
    ASSUME NEW S, NEW events, NEW intents, NEW N \in Nat
    PROVE  \E f : IsBatch(f, S, events, intents, N)
<1> DEFINE Row(r, n) == AppendRow(S, r, events[n], intents)
           A == {n \in Nat : \E f : IsBatch(f, S, events, intents, n)}
<1>1. 0 \in A
  <2> DEFINE f == [n \in 0 .. 0 |-> First(S)]
  <2>1. IsBatch(f, S, events, intents, 0)
    BY DEF IsBatch
  <2> QED
    BY <2>1
<1>2. ASSUME NEW n \in Nat, n \in A PROVE n + 1 \in A
  <2>1. PICK f : IsBatch(f, S, events, intents, n)
    BY <1>2
  <2> DEFINE g == [k \in 0 .. (n + 1) |-> IF k = n + 1 THEN Row(f[n], n + 1) ELSE f[k]]
  <2> HIDE DEF Row
  <2>2. \A k \in 0 .. n : g[k] = f[k]
    OBVIOUS
  <2>3. ASSUME NEW k \in 0 .. (n + 1)
        PROVE  g[k] = IF k = 0 THEN First(S) ELSE Row(g[k - 1], k)
    <3>1. CASE k = n + 1
      <4>1. k # 0 /\ k - 1 = n /\ g[n] = f[n]
        BY <3>1
      <4>2. g[k] = Row(f[n], k)
        BY <3>1
      <4> QED
        BY <4>1, <4>2
    <3>2. CASE k = 0
      BY <2>1, <3>2 DEF IsBatch
    <3>3. CASE k # 0 /\ k # n + 1
      <4>1. k \in 0 .. n /\ k - 1 \in 0 .. n
        BY <3>3
      <4>2. g[k] = f[k] /\ g[k - 1] = f[k - 1]
        BY <2>2, <4>1
      <4> HIDE DEF g
      <4>3. f[k] = Row(f[k - 1], k)
        BY <2>1, <3>3, <4>1 DEF IsBatch, Row
      <4> QED
        BY <3>3, <4>2, <4>3
    <3> QED
      BY <3>1, <3>2, <3>3
  <2>4. IsBatch(g, S, events, intents, n + 1)
    <3>1. g = [k \in 0 .. (n + 1) |-> g[k]]
      OBVIOUS
    <3> HIDE DEF g
    <3> QED
      BY <2>3, <3>1 DEF IsBatch, Row
  <2> QED
    BY <2>4
<1> HIDE DEF A
<1>3. N \in A
  BY <1>1, <1>2, InductionOnNaturals
<1> QED
  BY <1>3 DEF A

LEMMA BatchEquation ==
    ASSUME NEW S, NEW events, IsSequence(events), NEW intents
    PROVE  IsBatch(BatchStates(S, events, intents), S, events, intents, Len(events))
<1>1. Len(events) \in Nat
  BY SequenceDomain
<1>2. \E f : IsBatch(f, S, events, intents, Len(events))
  BY <1>1, BatchExists
<1>3. BatchStates(S, events, intents) = CHOOSE f : IsBatch(f, S, events, intents, Len(events))
  BY DEF BatchStates, IsBatch, First
<1> QED
  BY <1>2, <1>3

\* The stores a batch passes through when every event of it is accepted.
Through(g, S, events, intents) ==
    /\ g[0] = S
    /\ \A n \in Nat : n < Len(events) =>
         Accepts(g[n], events[n + 1], intents) /\ g[n + 1] = Insert(g[n], events[n + 1])

\* A batch is accepted event by event, or leaves the store as it was.
LEMMA BatchThrough ==
    ASSUME NEW S, NEW events, IsSequence(events), NEW intents
    PROVE  \/ ~Batch(S, events, intents).ok /\ Batch(S, events, intents).store = S
           \/ /\ Batch(S, events, intents).ok
              /\ \E g : /\ Through(g, S, events, intents)
                        /\ g[Len(events)] = Batch(S, events, intents).store
<1> DEFINE N == Len(events)
           f == BatchStates(S, events, intents)
           Accepted(n) == /\ f[n].ok
                          /\ \A m \in Nat : m < n =>
                               /\ Accepts(f[m].store, events[m + 1], intents)
                               /\ f[m + 1].store = Insert(f[m].store, events[m + 1])
           A == {n \in Nat : n <= N => (~f[n].ok /\ f[n].store = S) \/ Accepted(n)}
<1>1. N \in Nat
  BY SequenceDomain
<1>2. /\ f[0] = First(S)
      /\ \A n \in Nat : n < N => f[n + 1] = AppendRow(S, f[n], events[n + 1], intents)
  <2>1. IsBatch(f, S, events, intents, N)
    BY BatchEquation
  <2> QED
    BY <1>1, <2>1, BatchRows
<1> HIDE DEF N, f
<1>3. 0 \in A
  BY <1>2 DEF First
<1>4. ASSUME NEW n \in Nat, n \in A PROVE n + 1 \in A
  <2> SUFFICES ASSUME n + 1 <= N
               PROVE  (~f[n + 1].ok /\ f[n + 1].store = S) \/ Accepted(n + 1)
    OBVIOUS
  <2>1. n < N /\ n <= N
    BY <1>1
  <2>2. f[n + 1] = AppendRow(S, f[n], events[n + 1], intents)
    BY <1>2, <2>1
  <2>3. CASE ~(f[n].ok /\ Accepts(f[n].store, events[n + 1], intents))
    BY <2>2, <2>3 DEF AppendRow
  <2>4. CASE f[n].ok /\ Accepts(f[n].store, events[n + 1], intents)
    <3>1. f[n + 1].ok /\ f[n + 1].store = Insert(f[n].store, events[n + 1])
      BY <2>2, <2>4 DEF AppendRow
    <3>2. Accepted(n)
      BY <1>4, <2>1, <2>4
    <3>3. \A m \in Nat : m < n + 1 => m < n \/ m = n
      OBVIOUS
    <3> QED
      BY <2>4, <3>1, <3>2, <3>3
  <2> QED
    BY <2>3, <2>4
<1> HIDE DEF A
<1>5. N \in A
  BY <1>1, <1>3, <1>4, InductionOnNaturals
<1>6. (~f[N].ok /\ f[N].store = S) \/ Accepted(N)
  BY <1>1, <1>5 DEF A
<1>7. Batch(S, events, intents) = f[N]
  BY DEF Batch, f, N
<1>8. CASE Accepted(N)
  <2> DEFINE g == [n \in 0 .. N |-> f[n].store]
  <2>1. g[0] = S /\ g[N] = f[N].store
    BY <1>1, <1>2 DEF First
  <2>2. ASSUME NEW n \in Nat, n < N
        PROVE  Accepts(g[n], events[n + 1], intents) /\ g[n + 1] = Insert(g[n], events[n + 1])
    <3>1. g[n] = f[n].store /\ g[n + 1] = f[n + 1].store
      BY <1>1, <2>2
    <3> HIDE DEF g
    <3> QED
      BY <1>8, <2>2, <3>1
  <2> HIDE DEF g
  <2>3. Through(g, S, events, intents)
    BY <2>1, <2>2 DEF Through, N
  <2> QED
    BY <1>7, <1>8, <2>1, <2>3 DEF N
<1> QED
  BY <1>6, <1>7, <1>8

\* A batch that the log has already changes nothing.
LEMMA BatchRepeated ==
    ASSUME NEW S, NEW events, IsSequence(events), NEW intents, Elements(events) \subseteq Range(S.log)
    PROVE  Batch(S, events, intents).store = S
<1> SUFFICES ASSUME NEW g, Through(g, S, events, intents)
             PROVE  g[Len(events)] = S
  BY BatchThrough
<1> DEFINE A == {n \in Nat : n <= Len(events) => g[n] = S}
<1>1. Len(events) \in Nat /\ DOMAIN events = 1 .. Len(events)
  BY SequenceDomain
<1>2. 0 \in A
  BY DEF Through
<1>3. ASSUME NEW n \in Nat, n \in A PROVE n + 1 \in A
  <2> SUFFICES ASSUME n + 1 <= Len(events) PROVE g[n + 1] = S
    OBVIOUS
  <2>1. n < Len(events) /\ n + 1 \in DOMAIN events /\ g[n] = S
    BY <1>1, <1>3
  <2>2. events[n + 1] \in Range(S.log)
    BY <2>1 DEF Elements
  <2> QED
    BY <2>1, <2>2 DEF Through, Insert
<1> HIDE DEF A
<1>4. Len(events) \in A
  BY <1>1, <1>2, <1>3, InductionOnNaturals
<1> QED
  BY <1>1, <1>4 DEF A

-----------------------------------------------------------------------------
(* What one event changes *)

LEMMA HalfEvenNat ==
    ASSUME NEW n \in Nat, NEW d \in Nat \ {0}
    PROVE  HalfEven(n, d) \in Nat
<1>1. n \div d \in Nat
  OBVIOUS
<1> QED
  BY <1>1 DEF HalfEven

LEMMA ValueNat ==
    ASSUME NEW p \in Nat, NEW q \in Nat
    PROVE  Value(p, q) \in Nat
<1>1. p * q \in Nat
  OBVIOUS
<1> QED
  BY <1>1, UnitAssumption, HalfEvenNat DEF Value

\* The terms of an order, all of which buy.
LEMMA TermsOf ==
    ASSUME NEW i \in Intents
    PROVE  /\ Terms[i].key \in Keys /\ Terms[i].quantity \in Nat \ {0} /\ Terms[i].limit \in Nat
           /\ Terms[i].fee \in Nat /\ IsBuy(i) /\ CashReservation(i) \in Nat
<1>1. /\ Terms[i].key \in Keys /\ Terms[i].quantity \in Nat \ {0} /\ Terms[i].limit \in Nat
      /\ Terms[i].fee \in Nat /\ IsBuy(i)
  BY TermsAssumption, UnitAssumption, PaperAssumption
<1>2. Value(Terms[i].limit, Terms[i].quantity) \in Nat
  BY <1>1, ValueNat
<1> QED
  BY <1>1, <1>2 DEF CashReservation

LEMMA DebitNat == ASSUME NEW f \in FillData PROVE Debit(f) \in Nat
<1>1. f.price \in Nat /\ f.quantity \in Nat /\ f.fee \in Nat
  BY UnitAssumption DEF FillData
<1>2. Value(f.price, f.quantity) \in Nat
  BY <1>1, ValueNat
<1> QED
  BY <1>1, <1>2 DEF Debit

\* A new order of a buy.
LEMMA NewOrderIs ==
    ASSUME NEW i \in Intents
    PROVE  /\ NewOrder(i).state = "created" /\ NewOrder(i).cash = CashReservation(i)
           /\ NewOrder(i).filled = 0 /\ {"state", "filled"} \subseteq DOMAIN NewOrder(i)
           /\ NoOrder.state = "none" /\ NoOrder.cash = 0
           /\ {"state", "filled"} \subseteq DOMAIN NoOrder
BY DEF NewOrder, NoOrder

\* The orders but i's.
Others(L, M, i) == \A j \in Intents : j # i => M.orders[j] = L.orders[j]

LEMMA MoveEffect ==
    ASSUME NEW L, Shape(L), NEW i \in Intents, NEW target
    PROVE  LET M == Move(L, i, target) IN
           /\ Shape(M) /\ M.positions = L.positions /\ Others(L, M, i)
           /\ M.orders[i].state = target /\ M.orders[i].filled = L.orders[i].filled
<1> DEFINE M == Move(L, i, target)
<1>1. M.positions = L.positions /\ {"orders", "positions"} \subseteq DOMAIN M
  BY DEF Move, Shape
<1>2. M.orders = [j \in Intents |-> IF j = i THEN [L.orders[i] EXCEPT !.state = target] ELSE L.orders[j]]
  BY DEF Move, Shape
<1>3. {"state", "filled"} \subseteq DOMAIN L.orders[i]
  BY DEF Shape
<1> HIDE DEF M
<1>4. M.orders[i] = [L.orders[i] EXCEPT !.state = target] /\ Others(L, M, i)
  BY <1>2 DEF Others
<1>5. /\ M.orders[i].state = target /\ M.orders[i].filled = L.orders[i].filled
      /\ {"state", "filled"} \subseteq DOMAIN M.orders[i]
  BY <1>3, <1>4
<1>6. M.orders = [j \in Intents |-> M.orders[j]]
  BY <1>2
<1>7. Shape(M)
  BY <1>1, <1>4, <1>5, <1>6 DEF Shape, Others
<1> QED
  BY <1>1, <1>4, <1>5, <1>7 DEF M

\* Releasing a buy changes nothing of its position.
LEMMA ReleaseEffect ==
    ASSUME NEW L, Shape(L), NEW i \in Intents
    PROVE  LET M == Release(L, i) IN
           /\ Shape(M) /\ M.positions = L.positions /\ Others(L, M, i)
           /\ M.orders[i].state = L.orders[i].state /\ M.orders[i].filled = L.orders[i].filled
<1> DEFINE M == Release(L, i)
<1>0. IsBuy(i)
  BY TermsOf
<1>1. M.positions = L.positions /\ {"orders", "positions"} \subseteq DOMAIN M
  BY <1>0 DEF Release, Shape
<1>2. M.orders = [j \in Intents |-> IF j = i THEN [L.orders[i] EXCEPT !.cash = 0] ELSE L.orders[j]]
  BY <1>0 DEF Release, Shape
<1>3. {"state", "filled"} \subseteq DOMAIN L.orders[i]
  BY DEF Shape
<1> HIDE DEF M
<1>4. M.orders[i] = [L.orders[i] EXCEPT !.cash = 0] /\ Others(L, M, i)
  BY <1>2 DEF Others
<1>5. /\ M.orders[i].state = L.orders[i].state /\ M.orders[i].filled = L.orders[i].filled
      /\ {"state", "filled"} \subseteq DOMAIN M.orders[i]
  BY <1>3, <1>4
<1>6. M.orders = [j \in Intents |-> M.orders[j]]
  BY <1>2
<1>7. Shape(M)
  BY <1>1, <1>4, <1>5, <1>6 DEF Shape, Others
<1> QED
  BY <1>1, <1>4, <1>5, <1>7 DEF M

LEMMA TerminateEffect ==
    ASSUME NEW L, Shape(L), NEW i \in Intents, NEW target
    PROVE  LET M == Terminate(L, i, target) IN
           /\ Shape(M) /\ M.positions = L.positions /\ Others(L, M, i)
           /\ M.orders[i].state = target
<1> DEFINE R == Release(L, i)
<1>1. Shape(R) /\ R.positions = L.positions /\ Others(L, R, i)
  BY ReleaseEffect
<1> HIDE DEF R
<1>2. LET M == Move(R, i, target) IN
      /\ Shape(M) /\ M.positions = R.positions /\ Others(R, M, i) /\ M.orders[i].state = target
  BY <1>1, MoveEffect
<1> QED
  BY <1>1, <1>2 DEF Terminate, R, Others

\* A fill of a buy that the ledger accepts opens its position, or adds to it.
Bought(p, q, f) ==
    /\ p.status # "settled" /\ q.status = "open"
    /\ q.quantity = p.quantity + f.quantity /\ q.cost = p.cost + Debit(f)

LEMMA FillEffect ==
    ASSUME NEW L, Shape(L), NEW i \in Intents, NEW f \in FillData, CanFill(L, i, f)
    PROVE  LET M == Fill(L, i, f)  k == Terms[i].key IN
           /\ Shape(M) /\ Others(L, M, i)
           /\ M.orders[i].state = FillTarget(L, i, f)
           /\ Bought(L.positions[k], M.positions[k], f)
           /\ \A h \in Keys : h # k => M.positions[h] = L.positions[h]
<1> DEFINE k == Terms[i].key
           B == BuyFill(L, i, f)
           M == Booked(L, i, f)
           t == FillTarget(L, i, f)
<1>0. IsBuy(i) /\ k \in Keys /\ f.quantity \in Nat \ {0} /\ Debit(f) \in Nat
  BY TermsOf, DebitNat DEF FillData
<1>1. PositionOk(L.positions[k]) /\ L.positions[k].status # "settled"
  BY <1>0 DEF Shape, CanFill, CanBuyFill
<1>2. /\ {"orders", "positions"} \subseteq DOMAIN B
      /\ B.orders = [j \in Intents |-> IF j = i THEN [L.orders[i] EXCEPT !.cash = ReservationAfter(L, i, f)]
                                       ELSE L.orders[j]]
      /\ B.positions = [h \in Keys |->
           IF h = k THEN [L.positions[k] EXCEPT !.status = "open",
                                                !.quantity = L.positions[k].quantity + f.quantity,
                                                !.cost = L.positions[k].cost + Debit(f)]
           ELSE L.positions[h]]
  BY DEF BuyFill, Shape
<1> HIDE DEF B
<1>3. Bought(L.positions[k], B.positions[k], f) /\ PositionOk(B.positions[k])
  <2> DEFINE p == L.positions[k]
             q == [p EXCEPT !.status = "open", !.quantity = p.quantity + f.quantity,
                            !.cost = p.cost + Debit(f)]
  <2>1. B.positions[k] = q
    BY <1>0, <1>2
  <2> HIDE DEF p
  <2>2. PositionOk(p) /\ p.status # "settled"
    BY <1>1 DEF p
  <2>3. /\ q.status = "open" /\ q.quantity = p.quantity + f.quantity /\ q.cost = p.cost + Debit(f)
        /\ {"status", "quantity", "cost"} \subseteq DOMAIN q
    BY <2>2 DEF PositionOk
  <2> HIDE DEF q
  <2>4. PositionOk(q)
    BY <1>0, <2>2, <2>3 DEF PositionOk
  <2> QED
    BY <2>1, <2>2, <2>3, <2>4 DEF Bought, p
<1>4. /\ {"orders", "positions"} \subseteq DOMAIN M /\ M.positions = B.positions
      /\ M.orders = [j \in Intents |->
           IF j = i THEN [B.orders[i] EXCEPT !.state = t, !.filled = B.orders[i].filled + f.quantity,
                            !.gross = B.orders[i].gross + Value(f.price, f.quantity),
                            !.fees = B.orders[i].fees + f.fee, !.fills = B.orders[i].fills \cup {f}]
           ELSE B.orders[j]]
  BY <1>0, <1>2 DEF Booked, B
<1> HIDE DEF M, t
<1>5. {"state", "filled"} \subseteq DOMAIN B.orders[i]
  BY <1>2 DEF Shape
<1>6. M.orders[i].state = t /\ {"state", "filled"} \subseteq DOMAIN M.orders[i]
  BY <1>4, <1>5
<1>7. Others(L, M, i)
  BY <1>2, <1>4 DEF Others
<1>8. /\ \A h \in Keys : h # k => M.positions[h] = L.positions[h]
      /\ Bought(L.positions[k], M.positions[k], f) /\ PositionOk(M.positions[k])
      /\ M.positions = [h \in Keys |-> M.positions[h]]
  <2> HIDE DEF k
  <2>1. \A h \in Keys : h # k => B.positions[h] = L.positions[h]
    BY <1>2
  <2>2. B.positions = [h \in Keys |-> B.positions[h]]
    BY <1>2
  <2> QED
    BY <1>3, <1>4, <2>1, <2>2, Zenon
<1>9. Shape(M)
  <2>1. M.orders = [j \in Intents |-> M.orders[j]]
    BY <1>4
  <2>2. \A j \in Intents : {"state", "filled"} \subseteq DOMAIN M.orders[j]
    BY <1>6, <1>7 DEF Others, Shape
  <2>3. \A h \in Keys : PositionOk(M.positions[h])
    BY <1>8 DEF Shape
  <2> QED
    BY <1>4, <1>8, <2>1, <2>2, <2>3 DEF Shape
<1> DEFINE F == Fill(L, i, f)
<1>10. CASE t = "filled"
  <2>1. F = Release(M, i)
    BY <1>10 DEF Fill, M, t
  <2> QED
    BY <1>6, <1>7, <1>8, <1>9, <2>1, ReleaseEffect DEF Others, t
<1>11. CASE t # "filled"
  <2>1. F = M
    BY <1>11 DEF Fill, M, t
  <2> QED
    BY <1>6, <1>7, <1>8, <1>9, <2>1 DEF t
<1> QED
  BY <1>10, <1>11

-----------------------------------------------------------------------------
(* Batches that no order's life is in *)

\* The logs only grow.
Extends(a, b) ==
    /\ IsSequence(a) /\ IsSequence(b) /\ Len(a) <= Len(b)
    /\ \A n \in DOMAIN a : n \in DOMAIN b /\ b[n] = a[n]


\* g is the log with one more event.
OneMore(log, g, e) ==
    /\ Extends(log, g) /\ Len(g) = Len(log) + 1 /\ g[Len(log) + 1] = e
    /\ \A i \in Intents : LifeOf(g, i) = LifeOf(log, i)
                       \cup (IF e.of = i /\ e.kind \in LifeKinds THEN {Len(log) + 1} ELSE {})
    /\ ScopedKeys(g) = ScopedKeys(log) \cup (IF e.kind = "scope" THEN {e.of} ELSE {})
    /\ Len(log) + 1 \notin DOMAIN log /\ DOMAIN g = DOMAIN log \cup {Len(log) + 1}

LEMMA AppendLog ==
    ASSUME NEW log, IsSequence(log), NEW e
    PROVE  OneMore(log, Append(log, e), e)
<1> DEFINE g == Append(log, e)
           l == Len(log) + 1
<1>1. /\ IsSequence(g) /\ Len(g) = Len(log) + 1 /\ DOMAIN g = DOMAIN log \cup {l} /\ g[l] = e
      /\ \A n \in DOMAIN log : g[n] = log[n]
  BY AppendElements
<1>2. l \notin DOMAIN log /\ Len(log) \in Nat
  BY SequenceDomain
<1> HIDE DEF g, l
<1>3. Extends(log, g)
  BY <1>1, <1>2 DEF Extends
<1>4. ASSUME NEW i \in Intents
      PROVE  LifeOf(g, i) = LifeOf(log, i) \cup (IF e.of = i /\ e.kind \in LifeKinds THEN {l} ELSE {})
  BY <1>1, <1>2 DEF LifeOf, LifeKinds
<1>5. ScopedKeys(g) = ScopedKeys(log) \cup (IF e.kind = "scope" THEN {e.of} ELSE {})
  BY <1>1, <1>2 DEF ScopedKeys
<1> QED
  BY <1>1, <1>2, <1>3, <1>4, <1>5 DEF g, l, OneMore

LEMMA ExtendsTwice ==
    ASSUME NEW a, NEW b, NEW c, Extends(a, b), Extends(b, c)
    PROVE  Extends(a, c)
<1>1. Len(a) \in Nat /\ Len(b) \in Nat /\ Len(c) \in Nat
  BY SequenceDomain DEF Extends
<1> QED
  BY <1>1 DEF Extends

\* What such a batch may change: it creates orders of C, settles positions of
\* D and registers scopes of E.
Quiet(S, T, C, D, E) ==
    /\ Published(T)
    /\ T.claims = S.claims /\ T.adapters = S.adapters
    /\ Extends(S.log, T.log)
    /\ \A i \in Intents : LifeOf(T.log, i) = LifeOf(S.log, i)
    /\ \A i \in Intents :
         \/ T.ledger.orders[i] = S.ledger.orders[i]
         \/ i \in C /\ S.ledger.orders[i] = NoOrder /\ T.ledger.orders[i] = NewOrder(i)
    /\ \A k \in Keys :
         \/ T.ledger.positions[k] = S.ledger.positions[k]
         \/ k \in D /\ T.ledger.positions[k].status = "settled"
    /\ ScopedKeys(T.log) \subseteq ScopedKeys(S.log) \cup E

QuietKinds == {"opened", "created", "evidence", "resolved", "settled", "scope", "valuation"}

Fits(e, C, D, E) ==
    /\ e.kind \in QuietKinds
    /\ e.kind = "created" => e.of \in C
    /\ e.kind = "settled" => e.of \in D
    /\ e.kind = "scope" => e.of \in E /\ e.data = Scopes[e.of]

LEMMA QuietReflexive ==
    ASSUME NEW S, Published(S), NEW C, NEW D, NEW E
    PROVE  Quiet(S, S, C, D, E)
<1>1. Extends(S.log, S.log)
  <2>1. IsSequence(S.log) /\ Len(S.log) \in Nat
    BY SequenceDomain DEF Published
  <2> QED
    BY <2>1 DEF Extends
<1> QED
  BY <1>1 DEF Quiet

LEMMA QuietTwice ==
    ASSUME NEW S, NEW T, NEW U, NEW C, NEW D, NEW E, Quiet(S, T, C, D, E), Quiet(T, U, C, D, E)
    PROVE  Quiet(S, U, C, D, E)
<1>1. Extends(S.log, U.log)
  BY ExtendsTwice DEF Quiet
<1>2. ASSUME NEW i \in Intents
      PROVE  \/ U.ledger.orders[i] = S.ledger.orders[i]
             \/ i \in C /\ S.ledger.orders[i] = NoOrder /\ U.ledger.orders[i] = NewOrder(i)
  <2>1. NewOrder(i) # NoOrder
    BY NewOrderIs
  <2> QED
    BY <2>1 DEF Quiet
<1>3. ASSUME NEW k \in Keys
      PROVE  \/ U.ledger.positions[k] = S.ledger.positions[k]
             \/ k \in D /\ U.ledger.positions[k].status = "settled"
  BY DEF Quiet
<1>4. /\ Published(U) /\ U.claims = S.claims /\ U.adapters = S.adapters
      /\ \A i \in Intents : LifeOf(U.log, i) = LifeOf(S.log, i)
      /\ ScopedKeys(U.log) \subseteq ScopedKeys(S.log) \cup E
  BY DEF Quiet
<1> QED
  BY <1>1, <1>2, <1>3, <1>4 DEF Quiet

LEMMA SettleEffect ==
    ASSUME NEW L, Shape(L), NEW k \in Keys, NEW fee
    PROVE  LET M == Settle(L, k, fee) IN
           /\ Shape(M) /\ M.orders = L.orders /\ M.positions[k].status = "settled"
           /\ \A h \in Keys : h # k => M.positions[h] = L.positions[h]
<1> DEFINE M == Settle(L, k, fee)
           n == L.positions[k].pnl + (Proceeds(L, k) - fee) - L.positions[k].cost
           q == [L.positions[k] EXCEPT !.status = "settled", !.quantity = 0, !.reserved = 0,
                                       !.cost = 0, !.pnl = n]
<1>1. /\ {"orders", "positions"} \subseteq DOMAIN M /\ M.orders = L.orders
      /\ M.positions = [h \in Keys |-> IF h = k THEN q ELSE L.positions[h]]
  BY DEF Settle, Shape
<1>2. PositionOk(L.positions[k])
  BY DEF Shape
<1>3. q.status = "settled" /\ q.quantity = 0 /\ q.cost = 0 /\ {"status", "quantity", "cost"} \subseteq DOMAIN q
  <2> HIDE DEF n
  <2> QED
    BY <1>2 DEF PositionOk
<1> HIDE DEF M, q
<1>4. PositionOk(q)
  BY <1>3 DEF PositionOk
<1>5. \A h \in Keys : M.positions[h] = IF h = k THEN q ELSE L.positions[h]
  BY <1>1
<1>6. M.positions = [h \in Keys |-> M.positions[h]]
  BY <1>1
<1>7. Shape(M)
  BY <1>1, <1>4, <1>5, <1>6 DEF Shape
<1> QED
  BY <1>1, <1>3, <1>5, <1>7 DEF M

LEMMA CreateEffect ==
    ASSUME NEW L, Shape(L), NEW i \in Intents
    PROVE  LET M == Create(L, i) IN
           Shape(M) /\ M.positions = L.positions /\ Others(L, M, i) /\ M.orders[i] = NewOrder(i)
<1> DEFINE M == Create(L, i)
<1>0. IsBuy(i)
  BY TermsOf
<1>1. M.positions = L.positions /\ {"orders", "positions"} \subseteq DOMAIN M
  BY <1>0 DEF Create, Shape
<1>2. M.orders = [j \in Intents |-> IF j = i THEN NewOrder(i) ELSE L.orders[j]]
  BY <1>0 DEF Create, Shape
<1> HIDE DEF M
<1>3. M.orders[i] = NewOrder(i) /\ Others(L, M, i) /\ M.orders = [j \in Intents |-> M.orders[j]]
  BY <1>2 DEF Others
<1>4. Shape(M)
  BY <1>1, <1>3, NewOrderIs DEF Shape, Others
<1> QED
  BY <1>1, <1>3, <1>4 DEF M

QuietLedger(L, M, C, D) ==
    /\ Shape(M)
    /\ \A i \in Intents :
         \/ M.orders[i] = L.orders[i]
         \/ i \in C /\ L.orders[i].state = "none" /\ M.orders[i] = NewOrder(i)
    /\ \A k \in Keys :
         \/ M.positions[k] = L.positions[k]
         \/ k \in D /\ M.positions[k].status = "settled"

LEMMA QuietReduced ==
    ASSUME NEW L, Shape(L), NEW C \in SUBSET Intents, NEW D \in SUBSET Keys, NEW E \in SUBSET Keys,
           NEW e, Fits(e, C, D, E), CanApply(L, e)
    PROVE  QuietLedger(L, Reduced(L, e), C, D)
<1> DEFINE M == Reduced(L, e)
<1>1. CASE e.kind = "created"
  <2>1. e.of \in C /\ M = Create(L, e.of) /\ L.orders[e.of].state = "none"
    BY <1>1 DEF Fits, Reduced, CanApply, Reducible, CanCreate, LifeCycle
  <2> HIDE DEF M
  <2>2. e.of \in Intents
    BY <2>1
  <2>3. Shape(M) /\ M.positions = L.positions /\ Others(L, M, e.of) /\ M.orders[e.of] = NewOrder(e.of)
    BY <2>1, <2>2, CreateEffect
  <2>4. ASSUME NEW i \in Intents
        PROVE  \/ M.orders[i] = L.orders[i]
               \/ i \in C /\ L.orders[i].state = "none" /\ M.orders[i] = NewOrder(i)
    BY <2>1, <2>3 DEF Others
  <2> QED
    BY <2>3, <2>4 DEF M, QuietLedger
<1>2. CASE e.kind = "settled"
  <2>1. e.of \in D /\ M = Settle(L, e.of, e.data)
    BY <1>2 DEF Fits, Reduced, LifeCycle
  <2> HIDE DEF M
  <2>2. e.of \in Keys
    BY <2>1
  <2>3. /\ Shape(M) /\ M.orders = L.orders /\ M.positions[e.of].status = "settled"
        /\ \A h \in Keys : h # e.of => M.positions[h] = L.positions[h]
    BY <2>1, <2>2, SettleEffect
  <2>4. \A k \in Keys : M.positions[k] = L.positions[k] \/ (k \in D /\ M.positions[k].status = "settled")
    BY <2>1, <2>3
  <2> QED
    BY <2>3, <2>4 DEF M, QuietLedger
<1>3. CASE e.kind \notin {"created", "settled"}
  <2>1. /\ {"orders", "positions"} \subseteq DOMAIN M
        /\ M.orders = L.orders /\ M.positions = L.positions
    BY <1>3 DEF Fits, QuietKinds, Reduced, LifeCycle, Open, RecordEvidence, Resolve, Shape
  <2> HIDE DEF M
  <2> QED
    BY <2>1 DEF Shape, M, QuietLedger
<1> QED
  BY <1>1, <1>2, <1>3

LEMMA QuietInsert ==
    ASSUME NEW S, Published(S), NEW C \in SUBSET Intents, NEW D \in SUBSET Keys, NEW E \in SUBSET Keys,
           NEW e, Fits(e, C, D, E), NEW intents, Accepts(S, e, intents)
    PROVE  Quiet(S, Insert(S, e), C, D, E)
<1>1. CASE e \in Range(S.log)
  BY <1>1, QuietReflexive DEF Insert
<1>2. CASE e \notin Range(S.log)
  <2> DEFINE T == Insert(S, e)
             g == Append(S.log, e)
             M == Reduced(S.ledger, e)
  <2>1. /\ {"log", "ledger", "claims", "adapters"} \subseteq DOMAIN T
        /\ T.log = g /\ T.ledger = M /\ T.claims = S.claims /\ T.adapters = S.adapters
    BY <1>2 DEF Insert, Published
  <2>2. CanApply(S.ledger, e) /\ Shape(S.ledger) /\ IsSequence(S.log)
    BY <1>2 DEF Accepts, Published
  <2>3. QuietLedger(S.ledger, M, C, D)
    BY <2>2, QuietReduced
  <2>4. e.kind \notin LifeKinds
    BY DEF Fits, QuietKinds, LifeKinds, LifeCycle
  <2>5. OneMore(S.log, g, e)
    BY <2>2, AppendLog
  <2> HIDE DEF g, M, T
  <2>6. ScopedKeys(g) \subseteq ScopedKeys(S.log) \cup E
    BY <2>5 DEF Fits, OneMore
  <2>12. Extends(S.log, g) /\ \A i \in Intents : LifeOf(g, i) = LifeOf(S.log, i)
    BY <2>4, <2>5 DEF OneMore
  <2>7. ASSUME NEW i \in Intents, S.ledger.orders[i].state = "none"
        PROVE  LifeOf(S.log, i) = {} /\ S.ledger.orders[i] = NoOrder
    BY <2>7, NewOrderIs DEF Published, OrderOk, Terminal
  <2>8. ASSUME NEW i \in Intents PROVE OrderOk(M, g, i)
    BY <2>3, <2>12, <2>7 DEF Published, OrderOk, QuietLedger
  <2>9. ScopesOk(g)
    <3>1. ASSUME NEW n \in DOMAIN g, g[n].kind = "scope" PROVE g[n].of \in Keys /\ g[n].data = Scopes[g[n].of]
      <4>1. CASE n \in DOMAIN S.log
        BY <2>12, <3>1, <4>1 DEF Published, ScopesOk, Extends
      <4>2. CASE n = Len(S.log) + 1
        BY <2>5, <3>1, <4>2 DEF Fits, OneMore
      <4> QED
        BY <2>5, <3>1, <4>1, <4>2 DEF OneMore
    <3> QED
      BY <3>1 DEF ScopesOk
  <2>10. Published(T)
    <3>1. IsSequence(g)
      BY <2>12 DEF Extends
    <3> QED
      BY <2>1, <2>3, <2>8, <2>9, <3>1 DEF Published, QuietLedger
  <2>11. \A i \in Intents :
           \/ T.ledger.orders[i] = S.ledger.orders[i]
           \/ i \in C /\ S.ledger.orders[i] = NoOrder /\ T.ledger.orders[i] = NewOrder(i)
    BY <2>1, <2>3, <2>7 DEF QuietLedger
  <2>13. \A k \in Keys :
           \/ T.ledger.positions[k] = S.ledger.positions[k]
           \/ k \in D /\ T.ledger.positions[k].status = "settled"
    BY <2>1, <2>3 DEF QuietLedger
  <2> QED
    BY <2>1, <2>12, <2>13, <2>6, <2>10, <2>11 DEF Quiet, T
<1> QED
  BY <1>1, <1>2

LEMMA QuietBatch ==
    ASSUME NEW S, Published(S), NEW C \in SUBSET Intents, NEW D \in SUBSET Keys, NEW E \in SUBSET Keys,
           NEW events, IsSequence(events), \A n \in DOMAIN events : Fits(events[n], C, D, E), NEW intents
    PROVE  Quiet(S, Batch(S, events, intents).store, C, D, E)
<1> SUFFICES ASSUME NEW g, Through(g, S, events, intents)
             PROVE  Quiet(S, g[Len(events)], C, D, E)
  BY BatchThrough, QuietReflexive
<1> DEFINE A == {n \in Nat : n <= Len(events) => Quiet(S, g[n], C, D, E)}
<1>1. Len(events) \in Nat /\ DOMAIN events = 1 .. Len(events)
  BY SequenceDomain
<1>2. 0 \in A
  BY QuietReflexive DEF Through
<1>3. ASSUME NEW n \in Nat, n \in A PROVE n + 1 \in A
  <2> SUFFICES ASSUME n + 1 <= Len(events) PROVE Quiet(S, g[n + 1], C, D, E)
    OBVIOUS
  <2>1. n < Len(events) /\ n + 1 \in DOMAIN events /\ Quiet(S, g[n], C, D, E)
    BY <1>1, <1>3
  <2>2. Accepts(g[n], events[n + 1], intents) /\ g[n + 1] = Insert(g[n], events[n + 1])
    BY <2>1 DEF Through
  <2>3. Fits(events[n + 1], C, D, E) /\ Published(g[n])
    BY <2>1 DEF Quiet
  <2>4. Quiet(g[n], g[n + 1], C, D, E)
    BY <2>2, <2>3, QuietInsert
  <2> QED
    BY <2>1, <2>4, QuietTwice
<1> HIDE DEF A
<1>4. Len(events) \in A
  BY <1>1, <1>2, <1>3, InductionOnNaturals
<1> QED
  BY <1>1, <1>4 DEF A

-----------------------------------------------------------------------------
(* The events of a plan *)

\* The events of an order's life, of which no two are the same.
IsLife(events, i) ==
    /\ IsSequence(events)
    /\ \A n \in DOMAIN events :
         /\ events[n].of = i /\ events[n].kind \in LifeKinds
         /\ events[n].kind = "fill" => events[n].data \in FillData
    /\ \A n, m \in DOMAIN events : events[n].kind = events[m].kind => n = m

LEMMA TwoEvents ==
    ASSUME NEW a, NEW b
    PROVE  LET s == <<a, b>> IN
           IsSequence(s) /\ Len(s) = 2 /\ DOMAIN s = 1 .. 2 /\ s[1] = a /\ s[2] = b
<1>1. <<a, b>> \in Seq({a, b})
  OBVIOUS
<1>2. IsSequence(<<a, b>>)
  <2> DEFINE U == {a, b}
             s == <<a, b>>
  <2>1. s \in Seq(U)
    BY <1>1
  <2> HIDE DEF U, s
  <2>2. IsSequence(s)
    BY <2>1, OwnElements
  <2> QED
    BY <2>2 DEF s
<1> QED
  BY <1>2

LEMMA ThreeEvents ==
    ASSUME NEW a, NEW b, NEW c
    PROVE  LET s == <<a, b, c>> IN
           IsSequence(s) /\ Len(s) = 3 /\ DOMAIN s = 1 .. 3 /\ s[1] = a /\ s[2] = b /\ s[3] = c
<1>1. <<a, b, c>> \in Seq({a, b, c})
  OBVIOUS
<1>2. IsSequence(<<a, b, c>>)
  <2> DEFINE U == {a, b, c}
             s == <<a, b, c>>
  <2>1. s \in Seq(U)
    BY <1>1
  <2> HIDE DEF U, s
  <2>2. IsSequence(s)
    BY <2>1, OwnElements
  <2> QED
    BY <2>2 DEF s
<1> QED
  BY <1>2

LEMMA FourEvents ==
    ASSUME NEW a, NEW b, NEW c, NEW d
    PROVE  LET s == <<a, b, c>> \o <<d>> IN
           /\ IsSequence(s) /\ Len(s) = 4 /\ DOMAIN s = 1 .. 4
           /\ s[1] = a /\ s[2] = b /\ s[3] = c /\ s[4] = d
<1>1. <<a, b, c>> \o <<d>> \in Seq({a, b, c, d})
  OBVIOUS
<1>2. IsSequence(<<a, b, c>> \o <<d>>)
  <2> DEFINE U == {a, b, c, d}
             s == <<a, b, c>> \o <<d>>
  <2>1. s \in Seq(U)
    BY <1>1
  <2> HIDE DEF U, s
  <2>2. IsSequence(s)
    BY <2>1, OwnElements
  <2> QED
    BY <2>2 DEF s
<1> QED
  BY <1>2

\* The three lives a plan may give an order.
Rejects(events, i, plan, t) ==
    /\ plan.status = "rejected" /\ Len(events) = 2
    /\ events[1] = Moved("submitted", i, t) /\ events[2] = Moved("rejected", i, t)
FillsUp(events, i, plan, t) ==
    /\ plan.status = "full_fill" /\ Len(events) = 3
    /\ events[1] = Moved("submitted", i, t) /\ events[2] = Moved("acknowledged", i, t)
    /\ events[3] = Filled(i, plan.fill, t)
FillsPartly(events, i, plan, t) ==
    /\ plan.status = "partial_fill" /\ Len(events) = 4
    /\ events[1] = Moved("submitted", i, t) /\ events[2] = Moved("acknowledged", i, t)
    /\ events[3] = Filled(i, plan.fill, t) /\ events[4] = Moved("cancelled", i, t)

LEMMA PlanEvents ==
    ASSUME NEW i \in Intents \ Legacy, NEW plan \in Plans[i], NEW t
    PROVE  LET events == EventsForPlan(i, plan, t) IN
           /\ IsLife(events, i)
           /\ \/ Rejects(events, i, plan, t)
              \/ FillsUp(events, i, plan, t)
              \/ FillsPartly(events, i, plan, t)
<1> DEFINE events == EventsForPlan(i, plan, t)
           a == Moved("submitted", i, t)
           b == Moved("acknowledged", i, t)
           c == Filled(i, plan.fill, t)
           d == Moved("cancelled", i, t)
           r == Moved("rejected", i, t)
<1>1. /\ plan.status \in {"full_fill", "partial_fill", "rejected"}
      /\ plan.status # "rejected" => plan.fill \in FillData
  BY PaperAssumption
<1>2. /\ a.of = i /\ a.kind = "submitted" /\ b.of = i /\ b.kind = "acknowledged"
      /\ c.of = i /\ c.kind = "fill" /\ c.data = plan.fill
      /\ d.of = i /\ d.kind = "cancelled" /\ r.of = i /\ r.kind = "rejected"
  BY DEF Moved, Filled
<1>3. {"submitted", "acknowledged", "fill", "cancelled", "rejected"} \subseteq LifeKinds
  BY DEF LifeKinds, LifeCycle
<1>4. CASE plan.status = "rejected"
  <2>1. events = <<a, r>>
    BY <1>4 DEF EventsForPlan
  <2> HIDE DEF events, a, r
  <2>2. /\ IsSequence(events) /\ Len(events) = 2 /\ DOMAIN events = 1 .. 2
        /\ events[1] = a /\ events[2] = r
    BY <2>1, TwoEvents
  <2>3. IsLife(events, i)
    BY <1>2, <1>3, <2>2 DEF IsLife
  <2> QED
    BY <1>4, <2>2, <2>3 DEF Rejects, a, r, events
<1>5. CASE plan.status = "full_fill"
  <2>1. events = <<a, b, c>>
    <3>1. <<a, b, c>> \in Seq({a, b, c})
      OBVIOUS
    <3>2. events = <<a, b, c>> \o <<>>
      BY <1>5 DEF EventsForPlan
    <3> HIDE DEF events, a, b, c
    <3> QED
      BY <3>1, <3>2
  <2> HIDE DEF events, a, b, c
  <2>2. /\ IsSequence(events) /\ Len(events) = 3 /\ DOMAIN events = 1 .. 3
        /\ events[1] = a /\ events[2] = b /\ events[3] = c
    BY <2>1, ThreeEvents
  <2>3. IsLife(events, i)
    BY <1>1, <1>2, <1>3, <1>5, <2>2 DEF IsLife
  <2> QED
    BY <1>5, <2>2, <2>3 DEF FillsUp, a, b, c, events
<1>6. CASE plan.status = "partial_fill"
  <2>1. events = <<a, b, c>> \o <<d>>
    BY <1>6 DEF EventsForPlan
  <2> HIDE DEF events, a, b, c, d
  <2>2. /\ IsSequence(events) /\ Len(events) = 4 /\ DOMAIN events = 1 .. 4
        /\ events[1] = a /\ events[2] = b /\ events[3] = c /\ events[4] = d
    BY <2>1, FourEvents
  <2>3. IsLife(events, i)
    BY <1>1, <1>2, <1>3, <1>6, <2>2 DEF IsLife
  <2> QED
    BY <1>6, <2>2, <2>3 DEF FillsPartly, a, b, c, d, events
<1> QED
  BY <1>1, <1>4, <1>5, <1>6

\* g is the log with the first n of the events.
Added(log, g, events, n) ==
    /\ IsSequence(log) /\ IsSequence(g) /\ Len(g) = Len(log) + n
    /\ \A m \in 1 .. Len(log) : g[m] = log[m]
    /\ \A m \in 1 .. n : g[Len(log) + m] = events[m]

LEMMA AddedNext ==
    ASSUME NEW log, NEW g, NEW events, NEW n \in Nat, Added(log, g, events, n)
    PROVE  Added(log, Append(g, events[n + 1]), events, n + 1)
<1> DEFINE h == Append(g, events[n + 1])
<1>1. Len(log) \in Nat /\ DOMAIN log = 1 .. Len(log) /\ Len(g) = Len(log) + n /\ DOMAIN g = 1 .. Len(g)
  BY SequenceDomain DEF Added
<1>2. /\ IsSequence(h) /\ Len(h) = Len(g) + 1 /\ h[Len(g) + 1] = events[n + 1]
      /\ \A m \in DOMAIN g : h[m] = g[m]
  BY AppendElements DEF Added
<1> HIDE DEF h
<1>3. \A m \in 1 .. Len(log) : h[m] = log[m]
  BY <1>1, <1>2 DEF Added
<1>4. ASSUME NEW m \in 1 .. (n + 1) PROVE h[Len(log) + m] = events[m]
  <2>1. CASE m = n + 1
    BY <1>1, <1>2, <2>1
  <2>2. CASE m \in 1 .. n
    <3>1. Len(log) + m \in DOMAIN g
      BY <1>1, <2>2
    <3> QED
      BY <1>2, <2>2, <3>1 DEF Added
  <2> QED
    BY <2>1, <2>2
<1>5. Added(log, h, events, n + 1)
  BY <1>1, <1>2, <1>3, <1>4 DEF Added
<1> QED
  BY <1>5 DEF h

\* An event of a life that has not begun is new.
LEMMA AddedFresh ==
    ASSUME NEW log, NEW g, NEW events, NEW i, IsLife(events, i), NEW n \in Nat, n < Len(events),
           Added(log, g, events, n), LifeOf(log, i) = {}
    PROVE  events[n + 1] \notin Range(g)
<1> SUFFICES ASSUME NEW m \in DOMAIN g, g[m] = events[n + 1] PROVE FALSE
  BY DEF Range
<1>1. /\ Len(log) \in Nat /\ DOMAIN log = 1 .. Len(log) /\ Len(g) = Len(log) + n
      /\ DOMAIN g = 1 .. Len(g) /\ Len(events) \in Nat /\ DOMAIN events = 1 .. Len(events)
  BY SequenceDomain DEF Added, IsLife
<1>2. n + 1 \in DOMAIN events /\ m \in 1 .. (Len(log) + n)
  BY <1>1
<1>3. CASE m \in DOMAIN log
  <2>1. log[m] = events[n + 1]
    BY <1>1, <1>3 DEF Added
  <2>2. m \in LifeOf(log, i)
    BY <1>2, <1>3, <2>1 DEF LifeOf, IsLife, LifeKinds
  <2> QED
    BY <2>2
<1>4. CASE m \notin DOMAIN log
  <2>1. PICK l \in 1 .. n : m = Len(log) + l
    <3>1. m - Len(log) \in 1 .. n /\ m = Len(log) + (m - Len(log))
      BY <1>1, <1>2, <1>4
    <3> QED
      BY <3>1
  <2>2. events[l] = events[n + 1] /\ l \in DOMAIN events /\ l # n + 1
    BY <1>1, <2>1 DEF Added
  <2> QED
    BY <1>2, <2>2 DEF IsLife
<1> QED
  BY <1>3, <1>4

\* What the log holds then.
LEMMA AddedLog ==
    ASSUME NEW log, NEW g, NEW events, NEW i \in Intents, IsLife(events, i),
           Added(log, g, events, Len(events)), LifeOf(log, i) = {}
    PROVE  /\ Extends(log, g)
           /\ LifeOf(g, i) = (Len(log) + 1) .. (Len(log) + Len(events))
           /\ \A j \in Intents : j # i => LifeOf(g, j) = LifeOf(log, j)
           /\ \A n \in DOMAIN g : g[n].kind = "scope" => n \in DOMAIN log
<1> DEFINE N == Len(events)
<1>1. /\ Len(log) \in Nat /\ DOMAIN log = 1 .. Len(log) /\ Len(g) = Len(log) + N
      /\ DOMAIN g = 1 .. (Len(log) + N) /\ N \in Nat /\ DOMAIN events = 1 .. N
  BY SequenceDomain DEF Added, IsLife
<1>2. \A n \in DOMAIN log : g[n] = log[n]
  BY <1>1 DEF Added
<1>3. Extends(log, g)
  BY <1>1, <1>2 DEF Extends, Added
<1>4. ASSUME NEW n \in DOMAIN g, n \notin DOMAIN log
      PROVE  g[n].of = i /\ g[n].kind \in LifeKinds /\ n \in (Len(log) + 1) .. (Len(log) + N)
  <2>1. n - Len(log) \in 1 .. N /\ n = Len(log) + (n - Len(log))
    BY <1>1, <1>4
  <2>2. g[n] = events[n - Len(log)] /\ n - Len(log) \in DOMAIN events
    BY <1>1, <2>1 DEF Added
  <2> QED
    BY <1>1, <2>1, <2>2 DEF IsLife
<1>5. \A n \in (Len(log) + 1) .. (Len(log) + N) : n \in DOMAIN g /\ n \notin DOMAIN log
  BY <1>1
<1>6. LifeOf(g, i) = (Len(log) + 1) .. (Len(log) + N)
  <2>1. \A n \in DOMAIN log : ~(log[n].of = i /\ log[n].kind \in LifeKinds)
    BY DEF LifeOf, LifeKinds
  <2> HIDE DEF N
  <2> QED
    BY <1>2, <1>4, <1>5, <2>1 DEF LifeOf, LifeKinds
<1>7. ASSUME NEW j \in Intents, j # i PROVE LifeOf(g, j) = LifeOf(log, j)
  <2>1. \A n \in DOMAIN log : n \in DOMAIN g
    BY <1>1
  <2> QED
    BY <1>2, <1>4, <1>7, <2>1 DEF LifeOf
<1>8. \A n \in DOMAIN g : g[n].kind = "scope" => n \in DOMAIN log
  BY <1>4 DEF LifeKinds, LifeCycle
<1> QED
  BY <1>3, <1>6, <1>7, <1>8

-----------------------------------------------------------------------------
(* A plan, event by event *)

\* T is S with the first n of the events of i's life.
Partly(S, T, i, events, n) ==
    /\ {"log", "ledger", "claims", "adapters"} \subseteq DOMAIN T
    /\ T.claims = S.claims /\ T.adapters = S.adapters
    /\ Added(S.log, T.log, events, n)
    /\ Shape(T.ledger) /\ Others(S.ledger, T.ledger, i)

\* An order that has not begun to live in S, and the events of its life.
Unborn(S, i, events) == LifeOf(S.log, i) = {} /\ IsLife(events, i)

LEMMA PartlyNone ==
    ASSUME NEW S, Published(S), NEW i, NEW events
    PROVE  Partly(S, S, i, events, 0)
<1>1. Len(S.log) \in Nat
  BY SequenceDomain DEF Published
<1> QED
  BY <1>1 DEF Partly, Published, Added, Others

\* What the next event does to the log, and that the ledger accepts it.
Takes(T, e, U) == Accepts(T, e, FALSE) /\ U = Insert(T, e)
GoesOn(S, T, U, i, events, n, m) ==
    /\ Unborn(S, i, events) /\ n \in Nat /\ m = n + 1 /\ m <= Len(events)
    /\ Partly(S, T, i, events, n)
    /\ Takes(T, events[m], U)
WentOn(S, T, U, i, events, m) ==
    /\ {"log", "ledger", "claims", "adapters"} \subseteq DOMAIN U
    /\ U.claims = S.claims /\ U.adapters = S.adapters
    /\ Added(S.log, U.log, events, m)
    /\ U.ledger = Reduced(T.ledger, events[m]) /\ CanApply(T.ledger, events[m])

LEMMA PartlyInsert ==
    ASSUME NEW S, NEW T, NEW U, NEW i, NEW events, NEW n, NEW m, GoesOn(S, T, U, i, events, n, m)
    PROVE  WentOn(S, T, U, i, events, m)
<1> USE DEF GoesOn, Takes
<1> DEFINE e == events[m]
<1>0. n \in Nat /\ n < Len(events) /\ Len(events) \in Nat /\ events[n + 1] = e /\ n + 1 = m
  BY SequenceDomain DEF Unborn, IsLife
<1>1. e \notin Range(T.log)
  <2>1. events[n + 1] \notin Range(T.log)
    BY <1>0, AddedFresh DEF Partly, Unborn
  <2> QED
    BY <1>0, <2>1
<1>2. Added(S.log, Append(T.log, e), events, m)
  <2>1. Added(S.log, Append(T.log, events[n + 1]), events, n + 1)
    BY <1>0, AddedNext DEF Partly
  <2> QED
    BY <1>0, <2>1
<1>3. CanApply(T.ledger, e)
  BY <1>1 DEF Accepts
<1>4. /\ {"log", "ledger", "claims", "adapters"} \subseteq DOMAIN U
      /\ U.log = Append(T.log, e) /\ U.ledger = Reduced(T.ledger, e)
      /\ U.claims = T.claims /\ U.adapters = T.adapters
  BY <1>1 DEF Insert, Partly
<1> QED
  BY <1>2, <1>3, <1>4 DEF Partly, WentOn, WentOn

LEMMA OthersTwice ==
    ASSUME NEW K, NEW L, NEW M, NEW i, Others(K, L, i), Others(L, M, i)
    PROVE  Others(K, M, i)
BY DEF Others

Moves(S, T, U, i, events, n, m, kind, t) ==
    GoesOn(S, T, U, i, events, n, m) /\ events[m] = Moved(kind, i, t)
HasMoved(S, T, U, i, events, m, kind) ==
    /\ Partly(S, U, i, events, m) /\ U.ledger.positions = T.ledger.positions
    /\ U.ledger.orders[i].state = kind
    /\ kind \in {"submitted", "acknowledged"} => U.ledger.orders[i].filled = T.ledger.orders[i].filled
    /\ <<T.ledger.orders[i].state, kind>> \in AllowedTransitions

LEMMA PartlyMoved ==
    ASSUME NEW S, NEW T, NEW U, NEW i \in Intents, NEW events, NEW n, NEW m, NEW t,
           NEW kind, kind \in {"submitted", "acknowledged"}, Moves(S, T, U, i, events, n, m, kind, t)
    PROVE  HasMoved(S, T, U, i, events, m, kind)
<1> USE DEF Moves
<1>1. WentOn(S, T, U, i, events, m) /\ Partly(S, T, i, events, n)
  BY PartlyInsert DEF GoesOn
<1>2. U.ledger = Move(T.ledger, i, kind) /\ CanMove(T.ledger, i, kind)
  BY <1>1 DEF WentOn, Reduced, CanApply, Reducible, Moved
<1>3. LET M == Move(T.ledger, i, kind) IN
      /\ Shape(M) /\ M.positions = T.ledger.positions /\ Others(T.ledger, M, i)
      /\ M.orders[i].state = kind /\ M.orders[i].filled = T.ledger.orders[i].filled
  BY <1>1, MoveEffect DEF Partly
<1>4. Others(S.ledger, U.ledger, i)
  BY <1>2, <1>3, <1>1, OthersTwice DEF Partly
<1> QED
  BY <1>1, <1>2, <1>3, <1>4 DEF Partly, WentOn, CanMove, HasMoved

LEMMA PartlyEnded ==
    ASSUME NEW S, NEW T, NEW U, NEW i \in Intents, NEW events, NEW n, NEW m, NEW t,
           NEW kind, kind \in {"rejected", "cancelled"}, Moves(S, T, U, i, events, n, m, kind, t)
    PROVE  HasMoved(S, T, U, i, events, m, kind)
<1> USE DEF Moves
<1>1. WentOn(S, T, U, i, events, m) /\ Partly(S, T, i, events, n)
  BY PartlyInsert DEF GoesOn
<1>2. U.ledger = Terminate(T.ledger, i, kind) /\ CanTerminate(T.ledger, i, kind)
  BY <1>1 DEF WentOn, Reduced, CanApply, Reducible, Moved
<1>3. LET M == Terminate(T.ledger, i, kind) IN
      /\ Shape(M) /\ M.positions = T.ledger.positions /\ Others(T.ledger, M, i)
      /\ M.orders[i].state = kind
  BY <1>1, TerminateEffect DEF Partly
<1>4. Others(S.ledger, U.ledger, i)
  BY <1>2, <1>3, <1>1, OthersTwice DEF Partly
<1> QED
  BY <1>1, <1>2, <1>3, <1>4 DEF Partly, WentOn, CanMove, CanTerminate, HasMoved

\* The position of i in M is that of L with f bought, the others are as they were.
Buys(L, M, i, f) ==
    /\ Bought(L.positions[Terms[i].key], M.positions[Terms[i].key], f)
    /\ \A h \in Keys : h # Terms[i].key => M.positions[h] = L.positions[h]

Fills(S, T, U, i, events, n, m, f, t) ==
    GoesOn(S, T, U, i, events, n, m) /\ f \in FillData /\ events[m] = Filled(i, f, t)
HasFilled(S, T, U, i, events, m, f) ==
    /\ Partly(S, U, i, events, m) /\ Buys(T.ledger, U.ledger, i, f)
    /\ U.ledger.orders[i].state = FillTarget(T.ledger, i, f)

LEMMA PartlyFilled ==
    ASSUME NEW S, NEW T, NEW U, NEW i \in Intents, NEW events, NEW n, NEW m, NEW t, NEW f,
           Fills(S, T, U, i, events, n, m, f, t)
    PROVE  HasFilled(S, T, U, i, events, m, f)
<1> USE DEF Fills
<1>1. WentOn(S, T, U, i, events, m) /\ Partly(S, T, i, events, n)
  BY PartlyInsert DEF GoesOn
<1>2. U.ledger = Fill(T.ledger, i, f) /\ CanFill(T.ledger, i, f)
  BY <1>1 DEF WentOn, Reduced, CanApply, Reducible, Filled
<1>3. /\ Shape(U.ledger) /\ Others(T.ledger, U.ledger, i)
      /\ U.ledger.orders[i].state = FillTarget(T.ledger, i, f)
      /\ Bought(T.ledger.positions[Terms[i].key], U.ledger.positions[Terms[i].key], f)
      /\ \A h \in Keys : h # Terms[i].key => U.ledger.positions[h] = T.ledger.positions[h]
  BY <1>1, <1>2, FillEffect DEF Partly
<1>4. Others(S.ledger, U.ledger, i)
  BY <1>3, <1>1, OthersTwice DEF Partly
<1> QED
  BY <1>1, <1>3, <1>4 DEF Partly, WentOn, Buys, HasFilled

-----------------------------------------------------------------------------
(* A plan that is accepted *)

\* T is S with the whole life of order i: it had been created, it is over, and
\* what was bought costs no more than was reserved.
Lived(S, T, i, events) ==
    /\ Partly(S, T, i, events, Len(events))
    /\ S.ledger.orders[i] = NewOrder(i) /\ T.ledger.orders[i].state \in Terminal
    /\ \/ T.ledger.positions = S.ledger.positions
       \/ \E f \in FillData : Debit(f) <= CashReservation(i) /\ Buys(S.ledger, T.ledger, i, f)

\* The first stages of a batch.
Stage(g, events, n, m) ==
    m <= Len(events) => Takes(g[n], events[m], g[m])

LEMMA StagesOf ==
    ASSUME NEW g, NEW S, NEW events, IsSequence(events), Through(g, S, events, FALSE)
    PROVE  Stage(g, events, 0, 1) /\ Stage(g, events, 1, 2) /\ Stage(g, events, 2, 3) /\ Stage(g, events, 3, 4)
<1> DEFINE P(n) == n < Len(events) => Takes(g[n], events[n + 1], g[n + 1])
<1>1. \A n \in Nat : P(n)
  BY DEF Through, Takes
<1> HIDE DEF P
<1>2. P(0) /\ P(1) /\ P(2) /\ P(3)
  BY <1>1
<1>3. Len(events) \in Nat
  BY SequenceDomain
<1> QED
  BY <1>2, <1>3 DEF P, Stage

LEMMA WholeLife ==
    ASSUME NEW S, Published(S), NEW i \in Intents \ Legacy, NEW plan \in Plans[i], NEW t,
           NEW events, events = EventsForPlan(i, plan, t), LifeOf(S.log, i) = {},
           NEW g, Through(g, S, events, FALSE)
    PROVE  Lived(S, g[Len(events)], i, events)
<1>1. /\ Unborn(S, i, events)
      /\ \/ Rejects(events, i, plan, t)
         \/ FillsUp(events, i, plan, t)
         \/ FillsPartly(events, i, plan, t)
  BY PlanEvents DEF Unborn
<1>2. g[0] = S
  BY DEF Through
<1>0. Stage(g, events, 0, 1) /\ Stage(g, events, 1, 2) /\ Stage(g, events, 2, 3) /\ Stage(g, events, 3, 4)
  BY <1>1, StagesOf DEF Unborn, IsLife
<1>3. i \in Intents /\ i \in Intents \ Legacy
  OBVIOUS
<1>4. Len(events) \in Nat /\ Len(events) > 1 /\ events[1] = Moved("submitted", i, t)
  BY <1>1 DEF Rejects, FillsUp, FillsPartly
<1>5. Moves(S, g[0], g[1], i, events, 0, 1, "submitted", t)
  <2>1. Partly(S, g[0], i, events, 0)
    BY <1>2, PartlyNone
  <2> QED
    BY <1>0, <1>1, <1>4, <2>1 DEF GoesOn, Moves, Stage
<1>6. /\ Partly(S, g[1], i, events, 1) /\ g[1].ledger.positions = S.ledger.positions
      /\ g[1].ledger.orders[i].state = "submitted"
      /\ g[1].ledger.orders[i].filled = S.ledger.orders[i].filled
      /\ <<S.ledger.orders[i].state, "submitted">> \in AllowedTransitions
  <2>1. HasMoved(S, g[0], g[1], i, events, 1, "submitted")
    BY <1>3, <1>5, PartlyMoved
  <2> QED
    BY <1>2, <2>1 DEF HasMoved
<1>7. S.ledger.orders[i] = NewOrder(i)
  <2>1. S.ledger.orders[i] \in {NoOrder, NewOrder(i)}
    BY <1>3 DEF Published, OrderOk
  <2>2. S.ledger.orders[i].state # "none"
    BY <1>6 DEF AllowedTransitions, Terminal
  <2> QED
    BY <1>3, <2>1, <2>2, NewOrderIs
<1>9. CASE Rejects(events, i, plan, t)
  <2>1. events[2] = Moved("rejected", i, t) /\ Len(events) = 2
    BY <1>9 DEF Rejects
  <2>2. Moves(S, g[1], g[2], i, events, 1, 2, "rejected", t)
    BY <1>0, <1>1, <1>6, <2>1 DEF GoesOn, Moves, Stage
  <2>3. HasMoved(S, g[1], g[2], i, events, 2, "rejected")
    BY <1>3, <2>2, PartlyEnded
  <2> QED
    BY <1>6, <1>7, <2>1, <2>3 DEF HasMoved, Lived, Terminal
<1>10. CASE FillsUp(events, i, plan, t) \/ FillsPartly(events, i, plan, t)
  <2> DEFINE f == plan.fill
  <2>1. /\ events[2] = Moved("acknowledged", i, t) /\ events[3] = Filled(i, f, t)
        /\ Len(events) > 2 /\ plan.status # "rejected"
    BY <1>10 DEF FillsUp, FillsPartly
  <2>2. f \in FillData /\ Debit(f) <= CashReservation(i)
    BY <2>1, PaperAssumption
  <2>3. /\ Partly(S, g[2], i, events, 2) /\ g[2].ledger.positions = S.ledger.positions
        /\ g[2].ledger.orders[i].filled = S.ledger.orders[i].filled
    <3>1. Moves(S, g[1], g[2], i, events, 1, 2, "acknowledged", t)
      BY <1>0, <1>1, <1>4, <1>6, <2>1 DEF GoesOn, Moves, Stage
    <3>2. HasMoved(S, g[1], g[2], i, events, 2, "acknowledged")
      BY <1>3, <3>1, PartlyMoved
    <3> QED
      BY <1>6, <3>2 DEF HasMoved
  <2> HIDE DEF f
  <2>5. /\ Partly(S, g[3], i, events, 3) /\ Buys(S.ledger, g[3].ledger, i, f)
        /\ g[3].ledger.orders[i].state = FillTarget(g[2].ledger, i, f)
    <3>1. Fills(S, g[2], g[3], i, events, 2, 3, f, t)
      BY <1>0, <1>1, <1>4, <2>1, <2>2, <2>3 DEF GoesOn, Fills, Stage
    <3>2. HasFilled(S, g[2], g[3], i, events, 3, f)
      BY <1>3, <3>1, PartlyFilled
    <3> QED
      BY <2>3, <3>2 DEF HasFilled, Buys
  <2>6. CASE FillsUp(events, i, plan, t)
    <3>1. f.quantity = Terms[i].quantity /\ Len(events) = 3
      BY <2>6, PaperAssumption DEF FillsUp, f
    <3>2. Remaining(g[2].ledger, i) = Terms[i].quantity
      BY <1>3, <1>7, <2>3, NewOrderIs, TermsOf DEF Remaining
    <3>3. g[3].ledger.orders[i].state = "filled"
      BY <2>5, <3>1, <3>2 DEF FillTarget
    <3> QED
      BY <1>7, <2>2, <2>5, <3>1, <3>3 DEF Lived, Terminal
  <2>7. CASE FillsPartly(events, i, plan, t)
    <3>1. events[4] = Moved("cancelled", i, t) /\ Len(events) = 4
      BY <2>7 DEF FillsPartly
    <3>2. Moves(S, g[3], g[4], i, events, 3, 4, "cancelled", t)
      BY <1>0, <1>1, <2>5, <3>1 DEF GoesOn, Moves, Stage
    <3>3. HasMoved(S, g[3], g[4], i, events, 4, "cancelled")
      BY <1>3, <3>2, PartlyEnded
    <3> QED
      BY <1>7, <2>2, <2>5, <3>1, <3>3 DEF HasMoved, Lived, Terminal, Buys
  <2> QED
    BY <1>10, <2>6, <2>7
<1> QED
  BY <1>1, <1>9, <1>10

\* The cancellation of an order that has no plan.
LEMMA CancelLife ==
    ASSUME NEW S, Published(S), NEW i \in Intents, NEW t,
           NEW events, events = <<Moved("cancelled", i, t)>>, LifeOf(S.log, i) = {},
           NEW g, Through(g, S, events, FALSE)
    PROVE  Lived(S, g[Len(events)], i, events)
<1>1. IsSequence(events) /\ Len(events) = 1 /\ DOMAIN events = 1 .. 1
  <2>1. events \in Seq({Moved("cancelled", i, t)}) /\ Len(events) = 1 /\ DOMAIN events = 1 .. 1
    OBVIOUS
  <2> DEFINE U == {Moved("cancelled", i, t)}
  <2>2. events \in Seq(U)
    BY <2>1
  <2> HIDE DEF U
  <2>3. IsSequence(events)
    BY <2>2, OwnElements
  <2> QED
    BY <2>1, <2>3
<1>2. events[1] = Moved("cancelled", i, t)
  OBVIOUS
<1>3. Unborn(S, i, events)
  BY <1>1, <1>2 DEF Unborn, IsLife, Moved, LifeKinds, LifeCycle
<1>4. g[0] = S
  BY DEF Through
<1>5. Stage(g, events, 0, 1)
  BY <1>1, StagesOf
<1>6. Moves(S, g[0], g[1], i, events, 0, 1, "cancelled", t)
  <2>1. Partly(S, g[0], i, events, 0)
    BY <1>4, PartlyNone
  <2> QED
    BY <1>1, <1>2, <1>3, <1>5, <2>1 DEF GoesOn, Moves, Stage
<1>7. HasMoved(S, g[0], g[1], i, events, 1, "cancelled")
  BY <1>6, PartlyEnded
<1>8. S.ledger.orders[i] = NewOrder(i)
  <2>1. S.ledger.orders[i] \in {NoOrder, NewOrder(i)}
    BY DEF Published, OrderOk
  <2>2. S.ledger.orders[i].state # "none"
    BY <1>4, <1>7 DEF HasMoved, AllowedTransitions, Terminal
  <2> QED
    BY <2>1, <2>2, NewOrderIs
<1>9. /\ Partly(S, g[1], i, events, 1) /\ g[1].ledger.positions = S.ledger.positions
      /\ g[1].ledger.orders[i].state = "cancelled"
  BY <1>4, <1>7 DEF HasMoved
<1> QED
  BY <1>1, <1>8, <1>9 DEF Lived, Terminal

\* A life that was lived leaves the store in order.
After(S, T, i, events) ==
    /\ Published(T) /\ T.claims = S.claims /\ T.adapters = S.adapters
    /\ Extends(S.log, T.log) /\ Added(S.log, T.log, events, Len(events))
    /\ LifeOf(T.log, i) = (Len(S.log) + 1) .. (Len(S.log) + Len(events))
    /\ \A j \in Intents : j # i => LifeOf(T.log, j) = LifeOf(S.log, j)
    /\ ScopedKeys(T.log) = ScopedKeys(S.log)

LEMMA LivedWell ==
    ASSUME NEW S, Published(S), NEW T, NEW i \in Intents, NEW events, Unborn(S, i, events),
           events # <<>>, Lived(S, T, i, events)
    PROVE  After(S, T, i, events)
<1>1. /\ Extends(S.log, T.log)
      /\ LifeOf(T.log, i) = (Len(S.log) + 1) .. (Len(S.log) + Len(events))
      /\ \A j \in Intents : j # i => LifeOf(T.log, j) = LifeOf(S.log, j)
      /\ \A n \in DOMAIN T.log : T.log[n].kind = "scope" => n \in DOMAIN S.log
  BY AddedLog DEF Lived, Partly, Unborn
<1>2. Len(S.log) \in Nat /\ Len(events) \in Nat /\ Len(events) > 0
  BY SequenceDomain DEF Published, Unborn, IsLife
<1>3. LifeOf(T.log, i) # {}
  <2>1. Len(S.log) + 1 \in LifeOf(T.log, i)
    BY <1>1, <1>2
  <2> QED
    BY <2>1
<1>4. ASSUME NEW j \in Intents PROVE OrderOk(T.ledger, T.log, j)
  <2>1. CASE j = i
    BY <1>3, <2>1 DEF OrderOk, Lived
  <2>2. CASE j # i
    BY <1>1, <2>2 DEF OrderOk, Published, Lived, Partly, Others
  <2> QED
    BY <2>1, <2>2
<1>5. ScopedKeys(T.log) = ScopedKeys(S.log) /\ ScopesOk(T.log)
  BY <1>1 DEF Extends, ScopedKeys, ScopesOk, Published
<1>6. Published(T)
  BY <1>1, <1>4, <1>5 DEF Published, Lived, Partly, Extends
<1> QED
  BY <1>1, <1>5, <1>6 DEF After, Lived, Partly

-----------------------------------------------------------------------------
(* Exposures *)

\* The two parts of the exposure of a position.
OpenCost(L, k) == IF k \in OpenKeys(L) THEN L.positions[k].cost ELSE 0
Reservations(L, k) == [i \in ActiveBuys(L, k) |-> L.orders[i].cash]

LEMMA ExposureIs ==
    ASSUME NEW L, NEW k
    PROVE  ExposureOf(L, k) = OpenCost(L, k) + SumFunction(Reservations(L, k))
BY DEF ExposureOf, OpenCost, Reservations

\* An active order has been created, and that is all.
LEMMA ActiveIsNew ==
    ASSUME NEW S, Published(S), NEW k, NEW i \in ActiveBuys(S.ledger, k)
    PROVE  i \in Intents /\ Terms[i].key = k /\ S.ledger.orders[i] = NewOrder(i)
<1>1. i \in Intents /\ Terms[i].key = k /\ S.ledger.orders[i].state \notin Terminal \cup {"none"}
  BY DEF ActiveBuys
<1>2. S.ledger.orders[i] \in {NoOrder, NewOrder(i)}
  BY <1>1 DEF Published, OrderOk
<1> QED
  BY <1>1, <1>2, NewOrderIs

LEMMA ReservationsNat ==
    ASSUME NEW S, Published(S), NEW k
    PROVE  /\ IsFiniteSet(ActiveBuys(S.ledger, k))
           /\ \A i \in ActiveBuys(S.ledger, k) : Reservations(S.ledger, k)[i] = CashReservation(i)
           /\ \A i \in ActiveBuys(S.ledger, k) : CashReservation(i) \in Nat
           /\ SumFunction(Reservations(S.ledger, k)) \in Nat
<1>1. IsFiniteSet(ActiveBuys(S.ledger, k))
  <2>1. ActiveBuys(S.ledger, k) \subseteq Intents
    BY DEF ActiveBuys
  <2> QED
    BY <2>1, FiniteAssumption, FS_Subset
<1>2. ASSUME NEW i \in ActiveBuys(S.ledger, k)
      PROVE  Reservations(S.ledger, k)[i] = CashReservation(i) /\ CashReservation(i) \in Nat
  <2>1. i \in Intents /\ S.ledger.orders[i] = NewOrder(i)
    BY ActiveIsNew
  <2>2. Reservations(S.ledger, k)[i] = S.ledger.orders[i].cash
    BY DEF Reservations
  <2> QED
    BY <2>1, <2>2, NewOrderIs, TermsOf
<1>3. SumFunction(Reservations(S.ledger, k)) \in Nat
  <2> DEFINE f == Reservations(S.ledger, k)
             A == ActiveBuys(S.ledger, k)
  <2>1. A = DOMAIN f
    BY DEF Reservations
  <2>2. \A i \in A : f[i] \in Nat
    BY <1>2
  <2>3. IsFiniteSet(A)
    BY <1>1
  <2> HIDE DEF f, A
  <2>4. SumFunction(f) \in Nat
    BY <2>1, <2>2, <2>3, SumNat
  <2> QED
    BY <2>4 DEF f
<1> QED
  BY <1>1, <1>2, <1>3

LEMMA ExposureNat ==
    ASSUME NEW S, Published(S), NEW k \in Keys
    PROVE  ExposureOf(S.ledger, k) \in Nat /\ OpenCost(S.ledger, k) \in Nat
<1>1. PositionOk(S.ledger.positions[k])
  BY DEF Published, Shape
<1>2. OpenCost(S.ledger, k) \in Nat
  BY <1>1 DEF OpenCost, PositionOk
<1> QED
  BY <1>2, ReservationsNat, ExposureIs

LEMMA KeysExposed ==
    ASSUME NEW L
    PROVE  ExposedKeys(L) \subseteq Keys /\ IsFiniteSet(ExposedKeys(L))
<1>1. ExposedKeys(L) \subseteq Keys
  BY DEF ExposedKeys, OpenKeys
<1> QED
  BY <1>1, FiniteAssumption, FS_Subset

\* M exposes no more than L.
NoMore(L, M) ==
    \A k \in Keys : /\ k \in ExposedKeys(M) => k \in ExposedKeys(L)
                    /\ ExposureOf(M, k) <= ExposureOf(L, k)

LEMMA ExposureMono ==
    ASSUME NEW S, NEW T, Published(S), Published(T), NEW A, NEW B,
           A \subseteq Keys, B \subseteq A, \A k \in B : ExposureOf(T.ledger, k) <= ExposureOf(S.ledger, k)
    PROVE  /\ Exposure(T.ledger, B) <= Exposure(S.ledger, A)
           /\ Exposure(T.ledger, B) \in Nat /\ Exposure(S.ledger, A) \in Nat
<1> DEFINE f == [k \in A |-> ExposureOf(S.ledger, k)]
           e == [k \in B |-> ExposureOf(T.ledger, k)]
<1>1. /\ A = DOMAIN f /\ B = DOMAIN e /\ B \subseteq A
      /\ \A k \in A : f[k] = ExposureOf(S.ledger, k)
      /\ \A k \in B : e[k] = ExposureOf(T.ledger, k)
  OBVIOUS
<1>2. IsFiniteSet(A) /\ IsFiniteSet(B)
  BY FiniteAssumption, FS_Subset
<1>3. Exposure(S.ledger, A) = SumFunction(f) /\ Exposure(T.ledger, B) = SumFunction(e)
  BY DEF Exposure
<1> HIDE DEF f, e
<1>4. \A k \in A : f[k] \in Nat
  BY <1>1, ExposureNat
<1>5. \A k \in B : e[k] \in Nat /\ e[k] <= f[k]
  BY <1>1, ExposureNat
<1>6. Below(e, B, f, A)
  BY <1>1, <1>4, <1>5 DEF Below
<1>7. SumFunction(e) <= SumFunction(f)
  BY <1>2, <1>6, SumMono
<1>8. SumFunction(e) \in Nat /\ SumFunction(f) \in Nat
  BY <1>1, <1>2, <1>4, <1>5, SumNat
<1> QED
  BY <1>3, <1>7, <1>8

\* A batch that creates no order exposes no more.
LEMMA QuietNoMore ==
    ASSUME NEW S, NEW T, NEW D, NEW E, Published(S), Quiet(S, T, {}, D, E)
    PROVE  NoMore(S.ledger, T.ledger)
<1>1. ASSUME NEW k \in Keys
      PROVE  /\ k \in ExposedKeys(T.ledger) => k \in ExposedKeys(S.ledger)
             /\ ExposureOf(T.ledger, k) <= ExposureOf(S.ledger, k)
  <2>1. \A i \in Intents : T.ledger.orders[i] = S.ledger.orders[i]
    BY DEF Quiet
  <2>2. ActiveBuys(T.ledger, k) = ActiveBuys(S.ledger, k)
    BY <2>1 DEF ActiveBuys
  <2>3. Reservations(T.ledger, k) = Reservations(S.ledger, k)
    <3>1. \A i \in ActiveBuys(S.ledger, k) : i \in Intents
      BY DEF ActiveBuys
    <3> QED
      BY <2>1, <2>2, <3>1 DEF Reservations
  <2>4. \/ T.ledger.positions[k] = S.ledger.positions[k]
        \/ T.ledger.positions[k].status = "settled"
    BY DEF Quiet
  <2>5. k \in OpenKeys(T.ledger) => k \in OpenKeys(S.ledger) /\ T.ledger.positions[k] = S.ledger.positions[k]
    BY <2>4 DEF OpenKeys
  <2>6. OpenCost(T.ledger, k) <= OpenCost(S.ledger, k)
    BY <2>5, ExposureNat DEF OpenCost
  <2>7. /\ SumFunction(Reservations(S.ledger, k)) \in Nat
        /\ OpenCost(S.ledger, k) \in Nat /\ OpenCost(T.ledger, k) \in Nat
    <3>1. Published(T)
      BY DEF Quiet
    <3> QED
      BY <3>1, ReservationsNat, ExposureNat
  <2>8. ExposureOf(T.ledger, k) <= ExposureOf(S.ledger, k)
    BY <2>3, <2>6, <2>7, ExposureIs
  <2>9. k \in ExposedKeys(T.ledger) => k \in ExposedKeys(S.ledger)
    BY <2>2, <2>5 DEF ExposedKeys
  <2> QED
    BY <2>8, <2>9
<1> QED
  BY <1>1 DEF NoMore

\* The life of an order exposes no more: what it buys costs no more than it
\* had reserved.
LEMMA LivedNoMore ==
    ASSUME NEW S, NEW T, NEW i \in Intents, NEW events, Published(S), Published(T),
           Lived(S, T, i, events)
    PROVE  NoMore(S.ledger, T.ledger)
<1> DEFINE L == S.ledger
           M == T.ledger
           h == Terms[i].key
<1>1. /\ L.orders[i] = NewOrder(i) /\ M.orders[i].state \in Terminal
      /\ \A j \in Intents : j # i => M.orders[j] = L.orders[j]
      /\ \/ M.positions = L.positions
         \/ \E f \in FillData : Debit(f) <= CashReservation(i) /\ Buys(L, M, i, f)
  BY DEF Lived, Partly, Others
<1>2. L.orders[i].state \notin Terminal \cup {"none"} /\ IsBuy(i) /\ CashReservation(i) \in Nat
  BY <1>1, NewOrderIs, TermsOf DEF Terminal
<1> HIDE DEF L, M
<1>3. ASSUME NEW k \in Keys, k # h
      PROVE  /\ k \in ExposedKeys(M) => k \in ExposedKeys(L)
             /\ ExposureOf(M, k) <= ExposureOf(L, k)
  <2>1. ActiveBuys(M, k) = ActiveBuys(L, k)
    BY <1>1, <1>3 DEF ActiveBuys
  <2>2. Reservations(M, k) = Reservations(L, k)
    <3>1. \A j \in ActiveBuys(L, k) : j \in Intents /\ j # i
      BY <1>3 DEF ActiveBuys
    <3> QED
      BY <1>1, <2>1, <3>1 DEF Reservations
  <2>3. M.positions[k] = L.positions[k]
    BY <1>1, <1>3 DEF Buys
  <2>4. OpenCost(M, k) = OpenCost(L, k) /\ (k \in OpenKeys(M) <=> k \in OpenKeys(L))
    BY <2>3 DEF OpenCost, OpenKeys
  <2>5. ExposureOf(M, k) = ExposureOf(L, k) /\ ExposureOf(L, k) \in Nat
    BY <2>2, <2>4, ExposureIs, ExposureNat DEF L
  <2>6. k \in ExposedKeys(M) => k \in ExposedKeys(L)
    BY <2>1, <2>4 DEF ExposedKeys
  <2> QED
    BY <2>5, <2>6
<1>4. /\ h \in ExposedKeys(M) => h \in ExposedKeys(L)
      /\ ExposureOf(M, h) <= ExposureOf(L, h)
  <2> DEFINE A == ActiveBuys(L, h)
             f == Reservations(L, h)
             e == Reservations(M, h)
  <2>1. h \in Keys
    BY TermsOf
  <2>2. i \in A /\ ActiveBuys(M, h) = A \ {i}
    <3>1. i \in A
      BY <1>2 DEF ActiveBuys
    <3>2. \A j \in Intents : j \in ActiveBuys(M, h) <=> j \in A /\ j # i
      BY <1>1 DEF ActiveBuys
    <3>3. ActiveBuys(M, h) \subseteq Intents /\ A \subseteq Intents
      BY DEF ActiveBuys
    <3> HIDE DEF A
    <3> QED
      BY <3>1, <3>2, <3>3
  <2>3. IsFiniteSet(A) /\ \A j \in A : f[j] = CashReservation(j) /\ CashReservation(j) \in Nat
    BY ReservationsNat DEF L
  <2>4. A = DOMAIN f /\ DOMAIN e = A \ {i}
    BY <2>2 DEF Reservations
  <2>5. \A j \in A : j # i => e[j] = f[j]
    <3>1. \A j \in A : j \in Intents
      BY DEF ActiveBuys
    <3>2. ASSUME NEW j \in A, j # i PROVE e[j] = f[j]
      <4>1. j \in ActiveBuys(M, h) /\ M.orders[j] = L.orders[j]
        BY <1>1, <2>2, <3>1, <3>2
      <4> QED
        BY <4>1 DEF Reservations
    <3> QED
      BY <3>2
  <2> HIDE DEF A, f, e
  <2>6. OneLess(f, e, A, i)
    BY <2>2, <2>3, <2>4, <2>5 DEF OneLess
  <2>7. SumFunction(f) = f[i] + SumFunction(e)
    BY <2>3, <2>6, SumRest
  <2>8. SumFunction(e) \in Nat /\ SumFunction(f) \in Nat
    BY ReservationsNat DEF e, f, L, M
  <2>9. f[i] = CashReservation(i)
    BY <2>2, <2>3
  <2>10. OpenCost(M, h) <= OpenCost(L, h) + CashReservation(i)
    <3>1. OpenCost(L, h) \in Nat /\ OpenCost(M, h) \in Nat
      BY <2>1, ExposureNat DEF L, M
    <3>2. CASE M.positions = L.positions
      <4>1. OpenCost(M, h) = OpenCost(L, h)
        BY <3>2 DEF OpenCost, OpenKeys
      <4> QED
        BY <1>2, <3>1, <4>1
    <3>3. CASE \E g \in FillData : Debit(g) <= CashReservation(i) /\ Buys(L, M, i, g)
      <4>1. PICK g \in FillData : Debit(g) <= CashReservation(i) /\ Buys(L, M, i, g)
        BY <3>3
      <4>2. Debit(g) \in Nat
        BY DebitNat
      <4>3. Bought(L.positions[h], M.positions[h], g)
        BY <4>1 DEF Buys
      <4>4. PositionOk(L.positions[h])
        BY <2>1 DEF Published, Shape, L
      <4>5. L.positions[h].cost \in Nat /\ OpenCost(L, h) = L.positions[h].cost
        BY <2>1, <4>3, <4>4 DEF OpenCost, OpenKeys, PositionOk, Bought
      <4>6. OpenCost(M, h) = 0 \/ OpenCost(M, h) = L.positions[h].cost + Debit(g)
        BY <4>3 DEF OpenCost, Bought
      <4> QED
        BY <1>2, <4>1, <4>2, <4>5, <4>6
    <3> QED
      BY <1>1, <3>2, <3>3
  <2>11. ExposureOf(L, h) = OpenCost(L, h) + SumFunction(f) /\ ExposureOf(M, h) = OpenCost(M, h) + SumFunction(e)
    BY ExposureIs DEF e, f
  <2>12. OpenCost(L, h) \in Nat /\ OpenCost(M, h) \in Nat
    BY <2>1, ExposureNat DEF L, M
  <2>13. ExposureOf(M, h) <= ExposureOf(L, h)
    BY <1>2, <2>7, <2>8, <2>9, <2>10, <2>11, <2>12
  <2>14. h \in ExposedKeys(L)
    BY <2>1, <2>2 DEF ExposedKeys, A
  <2> QED
    BY <2>13, <2>14
<1>5. NoMore(L, M)
  BY <1>3, <1>4 DEF NoMore
<1> QED
  BY <1>5 DEF L, M

-----------------------------------------------------------------------------
(* The caps *)

\* What is registered is what Scopes says.
LEMMA ScopesAre ==
    ASSUME NEW log, ScopesOk(log)
    PROVE  /\ DOMAIN ScopesIn(log) = ScopedKeys(log)
           /\ \A k \in ScopedKeys(log) : k \in Keys /\ ScopesIn(log)[k] = Scopes[k]
<1> DEFINE events == {log[n] : n \in {m \in DOMAIN log : log[m].kind = "scope"}}
<1>1. \A e \in events : e.of \in Keys /\ e.data = Scopes[e.of]
  BY DEF ScopesOk
<1>2. ScopedKeys(log) = {e.of : e \in events}
  BY DEF ScopedKeys
<1>3. ScopesIn(log) = [k \in {e.of : e \in events} |-> (CHOOSE e \in events : e.of = k).data]
  BY DEF ScopesIn
<1> HIDE DEF events
<1>4. ASSUME NEW k \in ScopedKeys(log) PROVE k \in Keys /\ ScopesIn(log)[k] = Scopes[k]
  <2>1. PICK e \in events : e.of = k
    BY <1>2
  <2> DEFINE c == CHOOSE d \in events : d.of = k
  <2>2. c \in events /\ c.of = k
    BY <2>1
  <2>3. ScopesIn(log)[k] = c.data
    BY <1>2, <1>3
  <2> QED
    BY <1>1, <2>2, <2>3
<1>5. DOMAIN ScopesIn(log) = ScopedKeys(log)
  BY <1>2, <1>3
<1> QED
  BY <1>4, <1>5

LEMMA InScopes ==
    ASSUME NEW log, ScopesOk(log), NEW v
    PROVE  /\ OfEvent(ScopesIn(log), v) = InEvent(log, v)
           /\ OfCityDate(ScopesIn(log), v) = InCityDate(log, v)
           /\ OfGroup(ScopesIn(log), v) = InGroup(log, v)
<1>1. /\ DOMAIN ScopesIn(log) = ScopedKeys(log)
      /\ \A k \in ScopedKeys(log) : ScopesIn(log)[k] = Scopes[k]
  BY ScopesAre
<1> QED
  BY <1>1 DEF OfEvent, OfCityDate, OfGroup, InEvent, InCityDate, InGroup

LEMMA CappedIs ==
    ASSUME Published(store)
    PROVE  ExposureCapped <=> Capped(store)
<1> DEFINE scopes == ScopesIn(store.log)
<1>1. ScopesOk(store.log)
  BY DEF Published
<1>2. \A v : /\ OfEvent(scopes, v) = InEvent(store.log, v)
             /\ OfCityDate(scopes, v) = InCityDate(store.log, v)
             /\ OfGroup(scopes, v) = InGroup(store.log, v)
  BY <1>1, InScopes
<1>3. \A keys : Exposed(keys) = ExposedIn(store.ledger, keys)
  BY DEF Exposed, ExposedIn
<1> HIDE DEF scopes
<1> QED
  BY <1>2, <1>3 DEF ExposureCapped, Capped, LegacyKeys, scopes

\* The greater of two naturals.
LEMMA MaxOfTwo ==
    ASSUME NEW a \in Nat, NEW b \in Nat
    PROVE  LET m == Max({a, b}) IN m \in Nat /\ a <= m /\ b <= m
<1> DEFINE Top(x) == x \in {a, b} /\ \A y \in {a, b} : x >= y
<1>1. \E x : Top(x)
  <2>1. CASE a >= b
    <3>1. Top(a)
      BY <2>1
    <3> QED
      BY <3>1
  <2>2. CASE ~(a >= b)
    <3>1. Top(b)
      BY <2>2
    <3> QED
      BY <3>1
  <2> QED
    BY <2>1, <2>2
<1>2. Max({a, b}) = CHOOSE x \in {a, b} : \A y \in {a, b} : x >= y
  BY DEF Max
<1>3. Top(Max({a, b}))
  BY <1>1, <1>2
<1> QED
  BY <1>3

LEMMA PositionCap ==
    LET m == Max({Policy.positions, Cardinality(Legacy)}) IN
    m \in Nat /\ Policy.positions <= m /\ Cardinality(Legacy) <= m
<1>1. Policy.positions \in Nat
  BY PolicyAssumption
<1>2. Cardinality(Legacy) \in Nat
  BY PaperAssumption, FiniteAssumption, FS_Subset, FS_CardinalityType
<1> QED
  BY <1>1, <1>2, MaxOfTwo

\* A store that exposes no more than one within the caps is within them.
LEMMA CapsStay ==
    ASSUME NEW S, NEW T, Published(S), Published(T), Capped(S), NoMore(S.ledger, T.ledger),
           ScopedKeys(T.log) = ScopedKeys(S.log)
    PROVE  Capped(T)
<1>1. ExposedKeys(T.ledger) \subseteq ExposedKeys(S.ledger) /\ ExposedKeys(S.ledger) \subseteq Keys
  BY KeysExposed DEF NoMore
<1>2. ASSUME NEW keys
      PROVE  /\ ExposedIn(T.ledger, keys) <= ExposedIn(S.ledger, keys)
             /\ ExposedIn(T.ledger, keys) \in Nat /\ ExposedIn(S.ledger, keys) \in Nat
  <2> DEFINE A == ExposedKeys(S.ledger) \cap keys
             B == ExposedKeys(T.ledger) \cap keys
  <2>1. A \subseteq Keys /\ B \subseteq A
    BY <1>1
  <2>2. \A k \in B : ExposureOf(T.ledger, k) <= ExposureOf(S.ledger, k)
    BY <1>1 DEF NoMore
  <2> HIDE DEF A, B
  <2>3. /\ Exposure(T.ledger, B) <= Exposure(S.ledger, A)
        /\ Exposure(T.ledger, B) \in Nat /\ Exposure(S.ledger, A) \in Nat
    BY <2>1, <2>2, ExposureMono
  <2> QED
    BY <2>3 DEF ExposedIn, A, B
<1>3. /\ Cardinality(ExposedKeys(T.ledger)) <= Cardinality(ExposedKeys(S.ledger))
      /\ Cardinality(ExposedKeys(T.ledger)) \in Nat /\ Cardinality(ExposedKeys(S.ledger)) \in Nat
  BY <1>1, KeysExposed, FS_Subset, FS_CardinalityType
<1>4. /\ Policy.total \in Nat /\ Policy.event \in Nat /\ Policy.cityDate \in Nat /\ Policy.group \in Nat
  BY PolicyAssumption
<1>5. \A v : /\ InEvent(T.log, v) = InEvent(S.log, v)
             /\ InCityDate(T.log, v) = InCityDate(S.log, v)
             /\ InGroup(T.log, v) = InGroup(S.log, v)
  BY DEF InEvent, InCityDate, InGroup
<1>6. Cardinality(ExposedKeys(T.ledger)) <= Max({Policy.positions, Cardinality(Legacy)})
  <2>1. Max({Policy.positions, Cardinality(Legacy)}) \in Nat
    BY PositionCap
  <2> QED
    BY <1>3, <2>1 DEF Capped
<1>7. ExposedIn(T.ledger, Keys \ LegacyKeys) <= Policy.total
  BY <1>2, <1>4 DEF Capped
<1>8. ASSUME NEW k \in Keys
      PROVE  /\ ExposedIn(T.ledger, InEvent(T.log, Scopes[k].event)) <= Policy.event
             /\ ExposedIn(T.ledger, InCityDate(T.log, Scopes[k].cityDate)) <= Policy.cityDate
             /\ \A g \in Scopes[k].groups : ExposedIn(T.ledger, InGroup(T.log, g)) <= Policy.group
  <2>1. /\ ExposedIn(S.ledger, InEvent(S.log, Scopes[k].event)) <= Policy.event
        /\ ExposedIn(S.ledger, InCityDate(S.log, Scopes[k].cityDate)) <= Policy.cityDate
        /\ \A g \in Scopes[k].groups : ExposedIn(S.ledger, InGroup(S.log, g)) <= Policy.group
    BY DEF Capped
  <2> QED
    BY <1>2, <1>4, <1>5, <2>1
<1> QED
  BY <1>6, <1>7, <1>8 DEF Capped

\* M is L with one more exposed key, h, at the cost c.
OneMoreExposed(L, M, h, c) ==
    /\ \A k \in Keys : k # h => /\ k \in ExposedKeys(M) => k \in ExposedKeys(L)
                                /\ ExposureOf(M, k) <= ExposureOf(L, k)
    /\ h \notin ExposedKeys(L) /\ ExposureOf(M, h) <= c

LEMMA ExposedByOne ==
    ASSUME NEW S, NEW T, Published(S), Published(T), NEW h \in Keys, NEW c \in Nat,
           OneMoreExposed(S.ledger, T.ledger, h, c), NEW A, NEW B, B \subseteq A \cup {h}
    PROVE  /\ ExposedIn(T.ledger, B) \in Nat /\ ExposedIn(S.ledger, A) \in Nat
           /\ ExposedIn(T.ledger, B) <= ExposedIn(S.ledger, A) + c
           /\ h \notin B => ExposedIn(T.ledger, B) <= ExposedIn(S.ledger, A)
<1> DEFINE a == ExposedKeys(S.ledger) \cap A
           b == (ExposedKeys(T.ledger) \cap B) \ {h}
           d == ExposedKeys(T.ledger) \cap B
<1>1. a \subseteq Keys /\ b \subseteq a /\ d \subseteq Keys
  BY KeysExposed DEF OneMoreExposed
<1>2. \A k \in b : ExposureOf(T.ledger, k) <= ExposureOf(S.ledger, k)
  BY KeysExposed DEF OneMoreExposed
<1>3. (h \in d \/ b = d) /\ b = d \ {h} /\ (h \notin B => b = d)
  OBVIOUS
<1>4. ExposedIn(T.ledger, B) = Exposure(T.ledger, d) /\ ExposedIn(S.ledger, A) = Exposure(S.ledger, a)
  BY DEF ExposedIn
<1> HIDE DEF a, b, d
<1>5. /\ Exposure(T.ledger, b) <= Exposure(S.ledger, a)
      /\ Exposure(T.ledger, b) \in Nat /\ Exposure(S.ledger, a) \in Nat
  BY <1>1, <1>2, ExposureMono
<1>6. CASE b = d
  BY <1>4, <1>5, <1>6
<1>7. CASE h \in d
  <2> DEFINE f == [k \in d |-> ExposureOf(T.ledger, k)]
             e == [k \in b |-> ExposureOf(T.ledger, k)]
  <2>1. IsFiniteSet(d)
    BY <1>1, FiniteAssumption, FS_Subset
  <2>2. \A k \in d : ExposureOf(T.ledger, k) \in Nat
    BY <1>1, ExposureNat
  <2>3. OneLess(f, e, d, h)
    BY <1>3, <1>7, <2>2 DEF OneLess
  <2>4. f[h] = ExposureOf(T.ledger, h) /\ Exposure(T.ledger, d) = SumFunction(f) /\ Exposure(T.ledger, b) = SumFunction(e)
    BY <1>7 DEF Exposure
  <2> HIDE DEF f, e
  <2>5. SumFunction(f) = f[h] + SumFunction(e)
    BY <2>1, <2>3, SumRest
  <2>6. f[h] <= c /\ f[h] \in Nat
    BY <1>7, <2>2, <2>4 DEF OneMoreExposed
  <2>7. Exposure(T.ledger, d) <= Exposure(S.ledger, a) + c /\ Exposure(T.ledger, d) \in Nat
    BY <1>5, <2>4, <2>5, <2>6
  <2>8. h \in B
    BY <1>7 DEF d
  <2> QED
    BY <1>4, <1>5, <2>7, <2>8
<1> QED
  BY <1>3, <1>6, <1>7

\* What the caps let through.
Allowed(S, h, c) ==
    LET L == S.ledger IN
    /\ h \notin ExposedKeys(L) /\ Cardinality(ExposedKeys(L)) + 1 <= Policy.positions
    /\ ExposedIn(L, ExposedKeys(L)) + c <= Policy.total
    /\ ExposedIn(L, InEvent(S.log, Scopes[h].event)) + c <= Policy.event
    /\ ExposedIn(L, InCityDate(S.log, Scopes[h].cityDate)) + c <= Policy.cityDate
    /\ \A g \in Scopes[h].groups : ExposedIn(L, InGroup(S.log, g)) + c <= Policy.group

LEMMA ApprovedAllows ==
    ASSUME NEW S, Published(S), NEW h \in Keys, NEW c \in Nat, NEW v, NEW t,
           RiskDecision(S.ledger, S.log, h, Scopes[h], c, v, t) = "approved"
    PROVE  Allowed(S, h, c)
<1> DEFINE L == S.ledger
           scopes == ScopesIn(S.log)
           exposed == ExposedKeys(L)
           Entered(keys) == Exposure(L, exposed \cap keys) + c
<1>1. \A keys : Entered(keys) = ExposedIn(L, keys) + c
  BY DEF ExposedIn
<1>2. \A keys : ExposedIn(L, keys) \in Nat
  <2>1. ASSUME NEW keys PROVE ExposedIn(L, keys) \in Nat
    <3> DEFINE A == ExposedKeys(L) \cap keys
    <3>1. A \subseteq Keys
      BY KeysExposed
    <3>2. \A k \in A : ExposureOf(S.ledger, k) <= ExposureOf(S.ledger, k)
      BY <3>1, ExposureNat
    <3> HIDE DEF A
    <3>3. Exposure(S.ledger, A) \in Nat
      BY <3>1, <3>2, ExposureMono
    <3> QED
      BY <3>3 DEF A, ExposedIn
  <2> QED
    BY <2>1
<1>3. ValuationError(L, v, t) # "approved"
  BY DEF ValuationError
<1>4. /\ h \notin exposed
      /\ ~(Cardinality(exposed) + 1 > Policy.positions)
      /\ ~(Entered(exposed) > Policy.total)
      /\ ~(Entered(OfEvent(scopes, Scopes[h].event)) > Policy.event)
      /\ ~(Entered(OfCityDate(scopes, Scopes[h].cityDate)) > Policy.cityDate)
      /\ ~(\E g \in Scopes[h].groups : Entered(OfGroup(scopes, g)) > Policy.group)
  <2> HIDE DEF exposed, L, scopes
  <2> DEFINE a == ValuationError(L, v, t) # "none"
             b == ~(exposed \subseteq DOMAIN scopes)
             d == Positive(-(RealizedToday(S.log, t) + Unrealized(L, v))) >= Policy.dailyLoss
             e == HighWater(S.log, v.equity, t) - v.equity >= Policy.drawdown
  <2>1. (IF a THEN ValuationError(L, v, t)
         ELSE IF b THEN "missing_scope"
         ELSE IF h \in exposed THEN "duplicate_exposure"
         ELSE IF d THEN "daily_loss"
         ELSE IF e THEN "drawdown"
         ELSE IF Cardinality(exposed) + 1 > Policy.positions THEN "max_open_positions"
         ELSE IF Entered(exposed) > Policy.total THEN "total_exposure"
         ELSE IF Entered(OfEvent(scopes, Scopes[h].event)) > Policy.event THEN "event_exposure"
         ELSE IF Entered(OfCityDate(scopes, Scopes[h].cityDate)) > Policy.cityDate THEN "city_date_exposure"
         ELSE IF \E g \in Scopes[h].groups : Entered(OfGroup(scopes, g)) > Policy.group THEN "correlation_exposure"
         ELSE "approved") = "approved"
    BY DEF RiskDecision, exposed, L, scopes
  <2> HIDE DEF a, b, d, e, Entered
  <2> QED
    BY <1>3, <2>1
<1>5. Cardinality(exposed) \in Nat
  BY KeysExposed, FS_CardinalityType
<1>6. \A u : /\ OfEvent(scopes, u) = InEvent(S.log, u)
             /\ OfCityDate(scopes, u) = InCityDate(S.log, u)
             /\ OfGroup(scopes, u) = InGroup(S.log, u)
  BY InScopes DEF Published
<1> HIDE DEF Entered, exposed, scopes
<1>7. /\ Policy.total \in Nat /\ Policy.event \in Nat /\ Policy.cityDate \in Nat /\ Policy.group \in Nat
      /\ Policy.positions \in Nat
  BY PolicyAssumption
<1>8. \A g \in Scopes[h].groups : ExposedIn(L, InGroup(S.log, g)) + c <= Policy.group
  BY <1>1, <1>2, <1>4, <1>6, <1>7
<1>9. /\ ExposedIn(L, exposed) + c <= Policy.total
      /\ ExposedIn(L, InEvent(S.log, Scopes[h].event)) + c <= Policy.event
      /\ ExposedIn(L, InCityDate(S.log, Scopes[h].cityDate)) + c <= Policy.cityDate
  BY <1>1, <1>2, <1>4, <1>6, <1>7
<1>10. Cardinality(exposed) + 1 <= Policy.positions
  BY <1>4, <1>5, <1>7
<1> QED
  BY <1>4, <1>8, <1>9, <1>10 DEF Allowed, exposed

-----------------------------------------------------------------------------
(* An entry that the caps let through *)

LEMMA LogKeepsScopes ==
    ASSUME NEW a, NEW b, Extends(a, b)
    PROVE  ScopedKeys(a) \subseteq ScopedKeys(b)
BY DEF Extends, ScopedKeys

LEMMA EntryExposes ==
    ASSUME NEW S, NEW T, NEW i \in Intents, Published(S), Published(T),
           Quiet(S, T, {i}, {}, {Terms[i].key}), Terms[i].key \notin ExposedKeys(S.ledger)
    PROVE  OneMoreExposed(S.ledger, T.ledger, Terms[i].key, CashReservation(i))
<1> DEFINE L == S.ledger
           M == T.ledger
           h == Terms[i].key
<1>1. /\ \A j \in Intents : j # i => M.orders[j] = L.orders[j]
      /\ \A k \in Keys : M.positions[k] = L.positions[k]
      /\ h \in Keys /\ CashReservation(i) \in Nat
  BY TermsOf DEF Quiet
<1>2. \A k \in Keys : OpenCost(M, k) = OpenCost(L, k) /\ (k \in OpenKeys(M) <=> k \in OpenKeys(L))
  BY <1>1 DEF OpenCost, OpenKeys
<1>3. ASSUME NEW k \in Keys, k # h
      PROVE  /\ k \in ExposedKeys(M) => k \in ExposedKeys(L)
             /\ ExposureOf(M, k) <= ExposureOf(L, k)
  <2>1. \A j \in ActiveBuys(L, k) \cup ActiveBuys(M, k) : j \in Intents /\ j # i
    BY <1>3 DEF ActiveBuys
  <2>2. ActiveBuys(M, k) = ActiveBuys(L, k)
    <3> HIDE DEF L, M, h
    <3> QED
      BY <1>1, <2>1 DEF ActiveBuys
  <2>3. Reservations(M, k) = Reservations(L, k)
    <3> HIDE DEF L, M, h
    <3> QED
      BY <1>1, <2>1, <2>2 DEF Reservations
  <2>4. ExposureOf(M, k) = ExposureOf(L, k) /\ ExposureOf(L, k) \in Nat
    BY <1>2, <2>3, ExposureIs, ExposureNat
  <2>5. k \in ExposedKeys(M) => k \in ExposedKeys(L)
    BY <1>2, <2>2 DEF ExposedKeys
  <2> QED
    BY <2>4, <2>5
<1>4. OpenCost(M, h) = 0 /\ ActiveBuys(L, h) = {}
  BY <1>1, <1>2 DEF ExposedKeys, OpenCost
<1>5. ActiveBuys(M, h) \subseteq {i}
  <2>1. \A j \in ActiveBuys(M, h) : j # i => j \in ActiveBuys(L, h)
    BY <1>1 DEF ActiveBuys
  <2> QED
    BY <1>4, <2>1
<1>6. SumFunction(Reservations(M, h)) <= CashReservation(i)
  <2> DEFINE A == ActiveBuys(M, h)
             f == Reservations(M, h)
  <2>1. A = DOMAIN f
    BY DEF Reservations
  <2>2. IsFiniteSet(A) /\ \A j \in A : f[j] = CashReservation(j)
    BY ReservationsNat
  <2>3. A = {} \/ A = {i}
    BY <1>5
  <2> HIDE DEF A, f
  <2>4. CASE A = {}
    <3>1. SumFunction(f) = 0
      BY <2>1, <2>2, <2>4, SumZero
    <3> QED
      BY <1>1, <3>1 DEF f
  <2>5. CASE A = {i}
    <3> DEFINE e == [j \in {} |-> 0]
    <3>1. DOMAIN e = {} /\ IsFiniteSet({})
      BY FS_EmptySet
    <3> HIDE DEF e
    <3>2. SumFunction(e) = 0
      BY <3>1, SumZero
    <3>3. OneLess(f, e, A, i)
      BY <1>1, <2>1, <2>2, <2>5, <3>1 DEF OneLess
    <3>4. SumFunction(f) = f[i] + SumFunction(e)
      BY <2>2, <3>3, SumRest
    <3>5. f[i] = CashReservation(i)
      BY <2>2, <2>5
    <3>6. SumFunction(f) <= CashReservation(i)
      BY <1>1, <3>2, <3>4, <3>5
    <3> QED
      BY <3>6 DEF f
  <2> QED
    BY <2>3, <2>4, <2>5
<1>7. ExposureOf(M, h) <= CashReservation(i)
  <2>1. SumFunction(Reservations(M, h)) \in Nat
    BY ReservationsNat
  <2>2. ExposureOf(M, h) = OpenCost(M, h) + SumFunction(Reservations(M, h))
    BY ExposureIs
  <2> HIDE DEF M, h
  <2> QED
    BY <1>1, <1>4, <1>6, <2>1, <2>2
<1> HIDE DEF L, M, h
<1>8. OneMoreExposed(L, M, h, CashReservation(i))
  <2>1. h \notin ExposedKeys(L)
    BY DEF L, h
  <2> QED
    BY <1>3, <1>7, <2>1 DEF OneMoreExposed
<1> QED
  BY <1>8 DEF L, M, h

LEMMA EntryCapped ==
    ASSUME NEW S, NEW T, NEW i \in Intents, Published(S), Published(T), Capped(S),
           Quiet(S, T, {i}, {}, {Terms[i].key}), Allowed(S, Terms[i].key, CashReservation(i))
    PROVE  Capped(T)
<1> DEFINE L == S.ledger
           M == T.ledger
           h == Terms[i].key
           c == CashReservation(i)
<1>1. h \in Keys /\ c \in Nat
  BY TermsOf
<1>2. OneMoreExposed(L, M, h, c)
  BY EntryExposes DEF Allowed
<1>3. ScopedKeys(T.log) \subseteq ScopedKeys(S.log) \cup {h}
  BY DEF Quiet
<1>4. /\ h \notin ExposedKeys(L) /\ Cardinality(ExposedKeys(L)) + 1 <= Policy.positions
      /\ ExposedIn(L, ExposedKeys(L)) + c <= Policy.total
      /\ ExposedIn(L, InEvent(S.log, Scopes[h].event)) + c <= Policy.event
      /\ ExposedIn(L, InCityDate(S.log, Scopes[h].cityDate)) + c <= Policy.cityDate
      /\ \A g \in Scopes[h].groups : ExposedIn(L, InGroup(S.log, g)) + c <= Policy.group
  BY DEF Allowed
<1> HIDE DEF c, h, L, M
<1>5. ASSUME NEW A, NEW B, B \subseteq A \cup {h}
      PROVE  /\ ExposedIn(M, B) \in Nat /\ ExposedIn(L, A) \in Nat
             /\ ExposedIn(M, B) <= ExposedIn(L, A) + c
             /\ h \notin B => ExposedIn(M, B) <= ExposedIn(L, A)
  BY <1>1, <1>2, <1>5, ExposedByOne DEF L, M
<1>6. /\ Policy.total \in Nat /\ Policy.event \in Nat /\ Policy.cityDate \in Nat /\ Policy.group \in Nat
      /\ Policy.positions \in Nat
  BY PolicyAssumption
<1>7. ExposedIn(M, Keys \ LegacyKeys) <= Policy.total
  <2> DEFINE B == ExposedKeys(M) \cap (Keys \ LegacyKeys)
  <2>1. ExposedIn(M, Keys \ LegacyKeys) = ExposedIn(M, B)
    <3>1. ExposedKeys(M) \cap B = ExposedKeys(M) \cap (Keys \ LegacyKeys)
      OBVIOUS
    <3> QED
      BY <3>1 DEF ExposedIn
  <2>2. B \subseteq ExposedKeys(L) \cup {h}
    BY KeysExposed, <1>2 DEF OneMoreExposed
  <2> HIDE DEF B
  <2>3. /\ ExposedIn(M, B) \in Nat /\ ExposedIn(L, ExposedKeys(L)) \in Nat
        /\ ExposedIn(M, B) <= ExposedIn(L, ExposedKeys(L)) + c
    BY <1>5, <2>2
  <2> QED
    BY <1>1, <1>4, <1>6, <2>1, <2>3
<1>8. Cardinality(ExposedKeys(M)) <= Max({Policy.positions, Cardinality(Legacy)})
  <2> DEFINE A == ExposedKeys(L) \cup {h}
  <2>1. IsFiniteSet(ExposedKeys(L)) /\ Cardinality(ExposedKeys(L)) \in Nat
    BY KeysExposed, FS_CardinalityType
  <2>2. IsFiniteSet(A) /\ Cardinality(A) = Cardinality(ExposedKeys(L)) + 1
    BY <1>4, <2>1, FS_AddElement
  <2>3. ExposedKeys(M) \subseteq A
    BY KeysExposed, <1>2 DEF OneMoreExposed
  <2> HIDE DEF A
  <2>4. Cardinality(ExposedKeys(M)) <= Cardinality(A) /\ Cardinality(ExposedKeys(M)) \in Nat
    BY <2>2, <2>3, FS_Subset, FS_CardinalityType
  <2> QED
    BY <1>4, <1>6, <2>1, <2>2, <2>4, PositionCap
<1>9. ASSUME NEW k \in Keys
      PROVE  /\ ExposedIn(M, InEvent(T.log, Scopes[k].event)) <= Policy.event
             /\ ExposedIn(M, InCityDate(T.log, Scopes[k].cityDate)) <= Policy.cityDate
             /\ \A g \in Scopes[k].groups : ExposedIn(M, InGroup(T.log, g)) <= Policy.group
  <2>1. /\ ExposedIn(L, InEvent(S.log, Scopes[k].event)) <= Policy.event
        /\ ExposedIn(L, InCityDate(S.log, Scopes[k].cityDate)) <= Policy.cityDate
        /\ \A g \in Scopes[k].groups : ExposedIn(L, InGroup(S.log, g)) <= Policy.group
    BY DEF Capped, L
  <2>2. ASSUME NEW v PROVE /\ InEvent(T.log, v) \subseteq InEvent(S.log, v) \cup {h}
                           /\ InCityDate(T.log, v) \subseteq InCityDate(S.log, v) \cup {h}
                           /\ InGroup(T.log, v) \subseteq InGroup(S.log, v) \cup {h}
    BY <1>3 DEF InEvent, InCityDate, InGroup
  <2>3. ExposedIn(M, InEvent(T.log, Scopes[k].event)) <= Policy.event
    <3> DEFINE A == InEvent(S.log, Scopes[k].event)
               B == InEvent(T.log, Scopes[k].event)
    <3>1. /\ ExposedIn(M, B) \in Nat /\ ExposedIn(L, A) \in Nat
          /\ ExposedIn(M, B) <= ExposedIn(L, A) + c
          /\ h \notin B => ExposedIn(M, B) <= ExposedIn(L, A)
      BY <1>5, <2>2
    <3>2. h \in B => Scopes[h].event = Scopes[k].event
      BY DEF InEvent
    <3>3. h \in B => A = InEvent(S.log, Scopes[h].event)
      BY <3>2
    <3> HIDE DEF A, B
    <3>4. ExposedIn(L, A) <= Policy.event
      BY <2>1 DEF A
    <3>5. ExposedIn(M, B) <= Policy.event
      BY <1>1, <1>4, <1>6, <3>1, <3>3, <3>4
    <3> QED
      BY <3>5 DEF B
  <2>4. ExposedIn(M, InCityDate(T.log, Scopes[k].cityDate)) <= Policy.cityDate
    <3> DEFINE A == InCityDate(S.log, Scopes[k].cityDate)
               B == InCityDate(T.log, Scopes[k].cityDate)
    <3>1. /\ ExposedIn(M, B) \in Nat /\ ExposedIn(L, A) \in Nat
          /\ ExposedIn(M, B) <= ExposedIn(L, A) + c
          /\ h \notin B => ExposedIn(M, B) <= ExposedIn(L, A)
      BY <1>5, <2>2
    <3>2. h \in B => Scopes[h].cityDate = Scopes[k].cityDate
      BY DEF InCityDate
    <3>3. h \in B => A = InCityDate(S.log, Scopes[h].cityDate)
      BY <3>2
    <3> HIDE DEF A, B
    <3>4. ExposedIn(L, A) <= Policy.cityDate
      BY <2>1 DEF A
    <3>5. ExposedIn(M, B) <= Policy.cityDate
      BY <1>1, <1>4, <1>6, <3>1, <3>3, <3>4
    <3> QED
      BY <3>5 DEF B
  <2>5. ASSUME NEW g \in Scopes[k].groups PROVE ExposedIn(M, InGroup(T.log, g)) <= Policy.group
    <3> DEFINE A == InGroup(S.log, g)
               B == InGroup(T.log, g)
    <3>1. /\ ExposedIn(M, B) \in Nat /\ ExposedIn(L, A) \in Nat
          /\ ExposedIn(M, B) <= ExposedIn(L, A) + c
          /\ h \notin B => ExposedIn(M, B) <= ExposedIn(L, A)
      BY <1>5, <2>2
    <3>2. h \in B => g \in Scopes[h].groups
      BY DEF InGroup
    <3>3. ExposedIn(L, A) <= Policy.group
      BY <2>1
    <3>4. h \in B => ExposedIn(L, A) + c <= Policy.group
      BY <1>4, <3>2
    <3> HIDE DEF A, B
    <3>5. ExposedIn(M, B) <= Policy.group
      BY <1>1, <1>6, <3>1, <3>3, <3>4
    <3> QED
      BY <3>5 DEF B
  <2> QED
    BY <2>3, <2>4, <2>5
<1> QED
  BY <1>7, <1>8, <1>9 DEF Capped, M

\* The events of an entry.
LEMMA EntryQuiet ==
    ASSUME NEW S, Published(S), NEW i \in Intents, NEW d, NEW v, NEW t,
           NEW first, first = <<>> \/ first = <<ScopeRegistered(Terms[i].key, Scopes[Terms[i].key], t)>>
    PROVE  Quiet(S, Batch(S, first \o <<ValuationRecorded(d, v, t), Created(i, t)>>, TRUE).store,
                 {i}, {}, {Terms[i].key})
<1> DEFINE a == ScopeRegistered(Terms[i].key, Scopes[Terms[i].key], t)
           b == ValuationRecorded(d, v, t)
           c == Created(i, t)
           events == first \o <<b, c>>
           U == {a, b, c}
<1>1. events \in Seq(U)
  <2>1. first \in Seq(U)
    <3> HIDE DEF b, c
    <3>1. <<>> \in Seq(U) /\ <<a>> \in Seq(U)
      <4> HIDE DEF a
      <4> QED
        OBVIOUS
    <3> QED
      BY <3>1
  <2>2. <<b, c>> \in Seq(U)
    <3> HIDE DEF a, b, c
    <3> QED
      OBVIOUS
  <2> HIDE DEF U, b, c
  <2> QED
    BY <2>1, <2>2
<1>2. \A e \in U : Fits(e, {i}, {}, {Terms[i].key})
  BY DEF Fits, QuietKinds, ScopeRegistered, ValuationRecorded, Created
<1> HIDE DEF U, events
<1>3. IsSequence(events)
  BY <1>1, OwnElements
<1>4. \A n \in DOMAIN events : Fits(events[n], {i}, {}, {Terms[i].key})
  <2>1. \A n \in DOMAIN events : events[n] \in U
    BY <1>1
  <2> QED
    BY <1>2, <2>1
<1>5. {i} \in SUBSET Intents /\ {} \in SUBSET Keys /\ {Terms[i].key} \in SUBSET Keys
  BY TermsOf
<1>6. Quiet(S, Batch(S, events, TRUE).store, {i}, {}, {Terms[i].key})
  BY <1>3, <1>4, <1>5, QuietBatch
<1> QED
  BY <1>6 DEF events

-----------------------------------------------------------------------------
(* From store to store *)

LEMMA LogIsSequence ==
    ASSUME NEW S, Published(S)
    PROVE  Len(S.log) \in Nat /\ DOMAIN S.log = 1 .. Len(S.log)
BY SequenceDomain DEF Published

\* An order whose life and plan stay as they are goes on following it.
LEMMA FollowedStays ==
    ASSUME NEW S, NEW T, Extends(S.log, T.log), NEW i, FollowedFor(S, i),
           LifeOf(T.log, i) = LifeOf(S.log, i), T.adapters[i] = S.adapters[i]
    PROVE  FollowedFor(T, i)
<1>1. /\ Len(S.log) \in Nat /\ Len(T.log) \in Nat /\ Len(S.log) <= Len(T.log)
      /\ \A n \in DOMAIN S.log : n \in DOMAIN T.log /\ T.log[n] = S.log[n]
  BY SequenceDomain DEF Extends
<1>2. CASE LifeOf(S.log, i) = {}
  BY <1>2 DEF FollowedFor
<1>3. CASE S.adapters[i] # NoAdapter /\ Follows(S.log, i, S.adapters[i])
  <2> DEFINE events == EventsForPlan(i, S.adapters[i].payload.plan, S.adapters[i].payload.at)
  <2>1. PICK n \in 0 .. Len(S.log) :
          /\ LifeOf(S.log, i) = (n + 1) .. (n + Len(events))
          /\ \A m \in 1 .. Len(events) : S.log[n + m] = events[m]
    BY <1>3 DEF Follows
  <2>2. n \in 0 .. Len(T.log)
    BY <1>1
  <2>3. ASSUME NEW m \in 1 .. Len(events) PROVE T.log[n + m] = events[m]
    <3>1. n + m \in LifeOf(S.log, i)
      BY <2>1
    <3>2. n + m \in DOMAIN S.log
      BY <3>1 DEF LifeOf
    <3> QED
      BY <1>1, <2>1, <3>2
  <2>4. LifeOf(T.log, i) = (n + 1) .. (n + Len(events))
    BY <2>1
  <2> QED
    BY <1>3, <2>2, <2>3, <2>4 DEF FollowedFor, Follows
<1>4. CASE /\ S.adapters[i] = NoAdapter
           /\ \E n \in DOMAIN S.log : LifeOf(S.log, i) = {n} /\ S.log[n].id = <<"cancelled", i>>
  BY <1>1, <1>4 DEF FollowedFor
<1> QED
  BY <1>2, <1>3, <1>4 DEF FollowedFor

\* A batch of other events, which creates no order.
LEMMA QuietGood ==
    ASSUME NEW S, Good(S), NEW T, NEW D, Quiet(S, T, {}, D, {})
    PROVE  Good(T) /\ Later(S, T)
<1>1. /\ Published(T) /\ Extends(S.log, T.log) /\ T.claims = S.claims /\ T.adapters = S.adapters
      /\ \A i \in Intents : LifeOf(T.log, i) = LifeOf(S.log, i) /\ T.ledger.orders[i] = S.ledger.orders[i]
  BY DEF Quiet
<1>2. TablesOk(T)
  BY <1>1 DEF Good, TablesOk, Decided
<1>3. FollowedIn(T)
  BY <1>1, FollowedStays DEF Good, FollowedIn
<1>4. NoMore(S.ledger, T.ledger)
  BY QuietNoMore DEF Good
<1>5. ScopedKeys(T.log) = ScopedKeys(S.log)
  BY <1>1, LogKeepsScopes DEF Quiet
<1>6. Capped(T)
  BY <1>1, <1>4, <1>5, CapsStay DEF Good
<1>7. Later(S, T)
  BY <1>1 DEF Later, Decided
<1> QED
  BY <1>1, <1>2, <1>3, <1>6, <1>7 DEF Good

\* The whole life of an order, as its plan says or without one.
LEMMA LifeGood ==
    ASSUME NEW S, Good(S), NEW T, NEW i \in Intents, NEW events, Unborn(S, i, events), events # <<>>,
           Lived(S, T, i, events),
           \/ /\ S.adapters[i] # NoAdapter
              /\ events = EventsForPlan(i, S.adapters[i].payload.plan, S.adapters[i].payload.at)
           \/ S.adapters[i] = NoAdapter /\ Len(events) = 1 /\ events[1].id = <<"cancelled", i>>
    PROVE  Good(T) /\ Later(S, T)
<1>1. After(S, T, i, events)
  BY LivedWell DEF Good
<1>2. /\ Published(T) /\ Extends(S.log, T.log) /\ T.claims = S.claims /\ T.adapters = S.adapters
      /\ \A j \in Intents : j # i => LifeOf(T.log, j) = LifeOf(S.log, j) /\ T.ledger.orders[j] = S.ledger.orders[j]
  BY <1>1 DEF After, Lived, Partly, Others
<1>3. Decided(S, i)
  <2>1. S.ledger.orders[i] # NoOrder
    BY NewOrderIs DEF Lived
  <2> QED
    BY <2>1 DEF Good, TablesOk
<1>4. TablesOk(T)
  BY <1>2, <1>3 DEF Good, TablesOk, Decided
<1>5. Len(S.log) \in Nat /\ Len(events) \in Nat
  BY LogIsSequence, SequenceDomain DEF Good, Unborn, IsLife
<1>6. FollowedFor(T, i)
  <2>1. /\ LifeOf(T.log, i) = (Len(S.log) + 1) .. (Len(S.log) + Len(events))
        /\ \A m \in 1 .. Len(events) : T.log[Len(S.log) + m] = events[m]
        /\ Len(T.log) = Len(S.log) + Len(events)
    BY <1>1 DEF After, Added
  <2>2. Len(S.log) \in 0 .. Len(T.log)
    BY <1>5, <2>1
  <2>3. CASE /\ S.adapters[i] # NoAdapter
             /\ events = EventsForPlan(i, S.adapters[i].payload.plan, S.adapters[i].payload.at)
    <3>1. Follows(T.log, i, S.adapters[i])
      BY <2>1, <2>2, <2>3 DEF Follows
    <3> QED
      BY <1>2, <2>3, <3>1 DEF FollowedFor
  <2>4. CASE S.adapters[i] = NoAdapter /\ Len(events) = 1 /\ events[1].id = <<"cancelled", i>>
    <3> DEFINE n == Len(S.log) + 1
    <3>1. LifeOf(T.log, i) = {n}
      BY <1>5, <2>1, <2>4
    <3>2. T.log[n].id = <<"cancelled", i>>
      BY <1>5, <2>1, <2>4
    <3>3. n \in DOMAIN T.log
      BY <3>1 DEF LifeOf
    <3> HIDE DEF n
    <3> QED
      BY <1>2, <2>4, <3>1, <3>2, <3>3 DEF FollowedFor
  <2> QED
    BY <2>3, <2>4
<1>7. FollowedIn(T)
  <2>1. ASSUME NEW j \in Intents, j # i PROVE FollowedFor(T, j)
    BY <1>2, <2>1, FollowedStays DEF Good, FollowedIn
  <2> QED
    BY <1>6, <2>1 DEF FollowedIn
<1>8. NoMore(S.ledger, T.ledger)
  BY <1>2, LivedNoMore DEF Good
<1>9. Capped(T)
  BY <1>1, <1>2, <1>8, CapsStay DEF Good, After
<1>10. Later(S, T)
  BY <1>2 DEF Later, Decided
<1> QED
  BY <1>2, <1>4, <1>7, <1>9, <1>10 DEF Good

\* A decision that nobody had taken is taken.
LEMMA ClaimGood ==
    ASSUME NEW S, Good(S), NEW d \in Decisions, NEW c, c # NoClaim, NEW T,
           T = [S EXCEPT !.claims[d] = c]
    PROVE  Good(T) /\ \A i \in Intents : Decided(S, i) => Decided(T, i) /\ T.adapters[i] = S.adapters[i]
<1>1. /\ {"log", "ledger", "claims", "adapters"} \subseteq DOMAIN T
      /\ T.log = S.log /\ T.ledger = S.ledger /\ T.adapters = S.adapters
      /\ T.claims = [e \in Decisions |-> IF e = d THEN c ELSE S.claims[e]]
  BY DEF Good, Published, TablesOk
<1>2. Published(T)
  BY <1>1 DEF Good, Published
<1>3. \A i \in Intents : Decided(S, i) => Decided(T, i)
  BY <1>1, DecisionAssumption DEF Decided
<1>4. TablesOk(T)
  <2>1. T.claims = [e \in Decisions |-> T.claims[e]]
    BY <1>1
  <2> QED
    BY <1>1, <1>3, <2>1 DEF Good, TablesOk
<1>5. FollowedIn(T) /\ Capped(T)
  BY <1>1 DEF Good, FollowedIn, FollowedFor, Capped
<1> QED
  BY <1>1, <1>2, <1>3, <1>4, <1>5 DEF Good

\* T with the claim c and the plan a of i.
Written(S, T, i, c, a) ==
    [T EXCEPT !.claims[Decision[i]] = c, !.adapters = [S.adapters EXCEPT ![i] = a]]

\* An entry the caps let through is created, with its plan and its claim.
LEMMA EntryGood ==
    ASSUME NEW S, Good(S), NEW i \in Intents \ Legacy, NEW T, Quiet(S, T, {i}, {}, {Terms[i].key}),
           Allowed(S, Terms[i].key, CashReservation(i)), ~Decided(S, i),
           NEW c, c # NoClaim, NEW a, a # NoAdapter, a.payload.plan \in Plans[i], NEW U,
           U = Written(S, T, i, c, a)
    PROVE  Good(U) /\ Later(S, U) /\ U.adapters[i] = a
<1>0. i \in Intents /\ Decision[i] \in Decisions
  BY DecisionAssumption
<1>1. /\ Published(T) /\ Extends(S.log, T.log) /\ T.claims = S.claims /\ T.adapters = S.adapters
      /\ \A j \in Intents : LifeOf(T.log, j) = LifeOf(S.log, j)
      /\ \A j \in Intents : j # i => T.ledger.orders[j] = S.ledger.orders[j]
  BY DEF Quiet
<1>2. /\ {"log", "ledger", "claims", "adapters"} \subseteq DOMAIN U
      /\ U.log = T.log /\ U.ledger = T.ledger
      /\ U.claims = [T.claims EXCEPT ![Decision[i]] = c]
      /\ U.adapters = [S.adapters EXCEPT ![i] = a]
  BY <1>1 DEF Published, Written
<1>3. U.claims = [e \in Decisions |-> IF e = Decision[i] THEN c ELSE S.claims[e]]
  BY <1>1, <1>2 DEF Good, TablesOk
<1>4. U.adapters = [j \in Intents |-> IF j = i THEN a ELSE S.adapters[j]]
  BY <1>2 DEF Good, TablesOk
<1>5. Published(U)
  BY <1>1, <1>2 DEF Published
<1>6. Decided(U, i) /\ \A j \in Intents : Decided(S, j) => Decided(U, j)
  BY <1>0, <1>3, DecisionAssumption DEF Decided
<1>7. LifeOf(S.log, i) = {}
  BY <1>0 DEF Good, TablesOk
<1>8. TablesOk(U)
  <2>1. U.claims = [e \in Decisions |-> U.claims[e]] /\ U.adapters = [j \in Intents |-> U.adapters[j]]
    BY <1>3, <1>4
  <2>2. ASSUME NEW j \in Intents
        PROVE  /\ \/ U.ledger.orders[j] # NoOrder
                  \/ LifeOf(U.log, j) # {}
                  \/ U.adapters[j] # NoAdapter
                  => Decided(U, j)
               /\ U.adapters[j] # NoAdapter => j \notin Legacy /\ U.adapters[j].payload.plan \in Plans[j]
    <3>1. CASE j = i
      BY <1>4, <1>6, <3>1
    <3>2. CASE j # i
      BY <1>1, <1>2, <1>4, <1>6, <3>2 DEF Good, TablesOk
    <3> QED
      BY <3>1, <3>2
  <2> QED
    BY <2>1, <2>2 DEF TablesOk
<1>9. FollowedIn(U)
  <2>1. FollowedFor(U, i)
    BY <1>0, <1>1, <1>2, <1>7 DEF FollowedFor
  <2>2. ASSUME NEW j \in Intents, j # i PROVE FollowedFor(U, j)
    <3>1. U.adapters[j] = S.adapters[j] /\ LifeOf(U.log, j) = LifeOf(S.log, j) /\ Extends(S.log, U.log)
      BY <1>1, <1>2, <1>4, <2>2
    <3> QED
      BY <3>1, FollowedStays DEF Good, FollowedIn
  <2> QED
    BY <2>1, <2>2 DEF FollowedIn
<1>10. Capped(U)
  <2>1. Capped(T)
    BY <1>0, <1>1, EntryCapped DEF Good
  <2> QED
    BY <1>2, <2>1 DEF Capped
<1>11. Later(S, U)
  BY <1>4, <1>6 DEF Later
<1>12. U.adapters[i] = a
  BY <1>0, <1>4
<1> QED
  BY <1>5, <1>8, <1>9, <1>10, <1>11, <1>12 DEF Good

-----------------------------------------------------------------------------
(* The calls that append *)

LEMMA NothingChanges ==
    ASSUME NEW S, Good(S)
    PROVE  Later(S, S)
BY DEF Later

\* What an order without a plan, and with one, may have appended to its life.
LEMMA AppendedPlan ==
    ASSUME NEW S, Good(S), NEW i \in Intents, S.adapters[i] # NoAdapter, NEW T,
           T = Appended(S, Reconciled(i, S.adapters[i], "created"))
    PROVE  Good(T) /\ Later(S, T)
<1> DEFINE plan == S.adapters[i].payload.plan
           t == S.adapters[i].payload.at
           events == EventsForPlan(i, plan, t)
<1>1. Reconciled(i, S.adapters[i], "created") = events
  BY DEF Reconciled
<1>2. i \in Intents \ Legacy /\ plan \in Plans[i]
  BY DEF Good, TablesOk
<1> HIDE DEF plan, t
<1>3. IsLife(events, i) /\ (Rejects(events, i, plan, t) \/ FillsUp(events, i, plan, t) \/ FillsPartly(events, i, plan, t))
  BY <1>2, PlanEvents
<1>4. IsSequence(events) /\ events # <<>> /\ Len(events) \in Nat /\ DOMAIN events = 1 .. Len(events)
  <2>1. Len(events) > 0
    BY <1>3 DEF Rejects, FillsUp, FillsPartly
  <2> HIDE DEF events
  <2>2. events # <<>>
    BY <2>1
  <2> QED
    BY <1>3, <2>2, SequenceDomain DEF IsLife
<1>5. T = Batch(S, events, FALSE).store
  BY <1>1 DEF Appended
<1>6. CASE LifeOf(S.log, i) = {}
  <2>1. \/ T = S
        \/ \E g : Through(g, S, events, FALSE) /\ g[Len(events)] = T
    <3> HIDE DEF events
    <3> QED
      BY <1>4, <1>5, BatchThrough
  <2>2. ASSUME NEW g, Through(g, S, events, FALSE), g[Len(events)] = T
        PROVE  Lived(S, T, i, events)
    <3>1. Published(S)
      BY DEF Good
    <3>2. Lived(S, g[Len(events)], i, events)
      BY <1>2, <1>6, <2>2, <3>1, WholeLife
    <3> QED
      BY <2>2, <3>2
  <2>3. Unborn(S, i, events)
    BY <1>3, <1>6 DEF Unborn
  <2>4. ASSUME Lived(S, T, i, events) PROVE Good(T) /\ Later(S, T)
    <3>1. S.adapters[i] # NoAdapter /\ events = EventsForPlan(i, S.adapters[i].payload.plan, S.adapters[i].payload.at)
      BY DEF plan, t
    <3> HIDE DEF events
    <3> QED
      BY <1>4, <2>3, <2>4, <3>1, LifeGood
  <2> QED
    BY <2>1, <2>2, <2>4, NothingChanges
<1>7. CASE LifeOf(S.log, i) # {}
  <2>1. Follows(S.log, i, S.adapters[i])
    BY <1>7 DEF Good, FollowedIn, FollowedFor
  <2>2. PICK n \in 0 .. Len(S.log) :
          /\ LifeOf(S.log, i) = (n + 1) .. (n + Len(events))
          /\ \A m \in 1 .. Len(events) : S.log[n + m] = events[m]
    BY <2>1 DEF Follows, plan, t
  <2> HIDE DEF events
  <2>3. ASSUME NEW m \in 1 .. Len(events) PROVE events[m] \in Range(S.log)
    <3>1. n + m \in LifeOf(S.log, i)
      BY <1>4, <2>2, LogIsSequence DEF Good
    <3>2. n + m \in DOMAIN S.log /\ S.log[n + m] = events[m]
      BY <2>2, <3>1 DEF LifeOf
    <3> QED
      BY <3>2 DEF Range
  <2>4. Elements(events) \subseteq Range(S.log)
    BY <1>4, <2>3 DEF Elements
  <2>5. T = S
    BY <1>4, <1>5, <2>4, BatchRepeated
  <2> QED
    BY <2>5, NothingChanges
<1> QED
  BY <1>6, <1>7

LEMMA AppendedCancel ==
    ASSUME NEW S, Good(S), NEW i \in Intents, S.adapters[i] = NoAdapter, NEW t, NEW T,
           T = Appended(S, <<Moved("cancelled", i, t)>>)
    PROVE  Good(T) /\ Later(S, T)
<1> DEFINE e == Moved("cancelled", i, t)
           events == <<e>>
<1>1. IsSequence(events) /\ Len(events) = 1 /\ DOMAIN events = 1 .. 1 /\ events[1] = e
  <2> HIDE DEF e
  <2> DEFINE U == {e}
  <2>1. events \in Seq(U) /\ Len(events) = 1 /\ DOMAIN events = 1 .. 1 /\ events[1] = e
    OBVIOUS
  <2> HIDE DEF U, events
  <2>2. IsSequence(events)
    BY <2>1, OwnElements
  <2> QED
    BY <2>1, <2>2
<1>2. T = Batch(S, events, FALSE).store
  BY DEF Appended
<1>3. \/ T = S
      \/ \E g : Through(g, S, events, FALSE) /\ g[Len(events)] = T
  <2> HIDE DEF events
  <2> QED
    BY <1>1, <1>2, BatchThrough
<1>4. CASE LifeOf(S.log, i) = {}
  <2>1. ASSUME NEW g, Through(g, S, events, FALSE), g[Len(events)] = T
        PROVE  Lived(S, T, i, events)
    <3>1. Published(S)
      BY DEF Good
    <3>2. events = <<Moved("cancelled", i, t)>>
      OBVIOUS
    <3> HIDE DEF events
    <3>3. Lived(S, g[Len(events)], i, events)
      BY <1>4, <2>1, <3>1, <3>2, CancelLife
    <3> QED
      BY <2>1, <3>3
  <2>2. e.id = <<"cancelled", i>> /\ e.of = i /\ e.kind = "cancelled"
    BY DEF Moved
  <2>3. Unborn(S, i, events)
    <3> HIDE DEF events, e
    <3> QED
      BY <1>1, <1>4, <2>2 DEF Unborn, IsLife, LifeKinds, LifeCycle
  <2>4. events # <<>>
    BY <1>1
  <2>5. ASSUME Lived(S, T, i, events) PROVE Good(T) /\ Later(S, T)
    <3> HIDE DEF events, e
    <3>1. S.adapters[i] = NoAdapter /\ Len(events) = 1 /\ events[1].id = <<"cancelled", i>>
      BY <1>1, <2>2
    <3> QED
      BY <2>3, <2>4, <2>5, <3>1, LifeGood
  <2> HIDE DEF events
  <2> QED
    BY <1>3, <2>1, <2>5, NothingChanges
<1>5. CASE LifeOf(S.log, i) # {}
  <2>1. PICK n \in DOMAIN S.log : LifeOf(S.log, i) = {n} /\ S.log[n].id = <<"cancelled", i>>
    BY <1>5 DEF Good, FollowedIn, FollowedFor
  <2>2. e.id = <<"cancelled", i>>
    BY DEF Moved
  <2>3. e.id \in LoggedIds(S.log)
    BY <2>1, <2>2 DEF LoggedIds
  <2> HIDE DEF e
  <2>4. ASSUME NEW g, Through(g, S, events, FALSE), g[Len(events)] = T PROVE T = S
    <3>1. Stage(g, events, 0, 1) /\ g[0] = S
      BY <1>1, <2>4, StagesOf DEF Through
    <3>2. Takes(S, e, T)
      BY <1>1, <2>4, <3>1 DEF Stage
    <3> QED
      BY <2>3, <3>2 DEF Takes, Accepts, Insert
  <2> HIDE DEF events
  <2>5. T = S
    BY <1>3, <2>4
  <2> QED
    BY <2>5, NothingChanges
<1> QED
  BY <1>4, <1>5

-----------------------------------------------------------------------------
(* The store as it is initialised *)

LEMMA EmptyPublished == Published(EmptyStore)
<1>1. /\ {"log", "ledger", "claims", "adapters"} \subseteq DOMAIN EmptyStore
      /\ EmptyStore.log = <<>> /\ EmptyStore.ledger = Empty
  BY DEF EmptyStore
<1>2. IsSequence(<<>>) /\ DOMAIN <<>> = {}
  BY EmptySequence
<1>3. /\ {"orders", "positions"} \subseteq DOMAIN Empty
      /\ Empty.orders = [i \in Intents |-> NoOrder] /\ Empty.positions = [k \in Keys |-> NoPosition]
  BY DEF Empty
<1>4. PositionOk(NoPosition)
  BY DEF PositionOk, NoPosition
<1>5. Shape(Empty)
  <2>1. /\ \A i \in Intents : Empty.orders[i] = NoOrder
        /\ \A k \in Keys : Empty.positions[k] = NoPosition
        /\ Empty.orders = [i \in Intents |-> Empty.orders[i]]
        /\ Empty.positions = [k \in Keys |-> Empty.positions[k]]
    BY <1>3
  <2> QED
    BY <1>3, <1>4, <2>1, NewOrderIs DEF Shape
<1>6. \A i \in Intents : OrderOk(Empty, <<>>, i)
  BY <1>2, <1>3 DEF OrderOk, LifeOf
<1>7. ScopesOk(<<>>)
  BY <1>2 DEF ScopesOk
<1> QED
  BY <1>1, <1>2, <1>5, <1>6, <1>7 DEF Published

\* What initialize_paper_store and an earlier version left.
LegacyEvents ==
    LET legacy == SetToSeq(Legacy)
    IN  <<Opened(Deposit, 0)>> \o [n \in 1 .. Len(legacy) |-> Created(legacy[n], 0)]

LEMMA InitialQuiet ==
    Quiet(EmptyStore, Batch(EmptyStore, LegacyEvents, TRUE).store, Legacy, {}, {})
<1> DEFINE legacy == SetToSeq(Legacy)
           U == {Opened(Deposit, 0)} \cup {Created(i, 0) : i \in Legacy}
           a == <<Opened(Deposit, 0)>>
           b == [n \in 1 .. Len(legacy) |-> Created(legacy[n], 0)]
<1>1. legacy \in Seq(Legacy)
  BY PaperAssumption, FiniteAssumption, FS_Subset, SetSequence
<1>2. Len(legacy) \in Nat /\ \A n \in 1 .. Len(legacy) : legacy[n] \in Legacy
  BY <1>1
<1>3. a \in Seq(U)
  BY DEF U
<1>4. b \in Seq(U)
  <2>1. \A n \in 1 .. Len(legacy) : Created(legacy[n], 0) \in U
    BY <1>2
  <2> HIDE DEF U, legacy
  <2>2. b \in [1 .. Len(legacy) -> U]
    BY <2>1
  <2> HIDE DEF b
  <2> QED
    BY <1>2, <2>2
<1>5. LegacyEvents = a \o b
  BY DEF LegacyEvents
<1>6. LegacyEvents \in Seq(U)
  <2> HIDE DEF U, a, b
  <2> QED
    BY <1>3, <1>4, <1>5
<1>7. \A e \in U : Fits(e, Legacy, {}, {})
  BY DEF Fits, QuietKinds, Opened, Created
<1> HIDE DEF U
<1>8. IsSequence(LegacyEvents)
  BY <1>6, OwnElements
<1>9. \A n \in DOMAIN LegacyEvents : Fits(LegacyEvents[n], Legacy, {}, {})
  <2>1. \A n \in DOMAIN LegacyEvents : LegacyEvents[n] \in U
    BY <1>6
  <2> QED
    BY <1>7, <2>1
<1>10. Legacy \in SUBSET Intents /\ {} \in SUBSET Keys
  BY PaperAssumption
<1> QED
  BY <1>8, <1>9, <1>10, EmptyPublished, QuietBatch

LEMMA InitialGood == Good(InitialStore)
<1> DEFINE T == Batch(EmptyStore, LegacyEvents, TRUE).store
           Taken(d) == [status |-> "committed", owner |-> None, metadata |-> None,
                        intent |-> CHOOSE i \in Legacy : Decision[i] = d]
           claims == [d \in Decisions |-> IF \E i \in Legacy : Decision[i] = d THEN Taken(d) ELSE NoClaim]
           S == InitialStore
<1>1. S = [T EXCEPT !.claims = claims]
  BY DEF InitialStore, LegacyEvents
<1>2. Quiet(EmptyStore, T, Legacy, {}, {})
  BY InitialQuiet
<1> HIDE DEF T
<1>3. /\ Published(T) /\ T.adapters = EmptyStore.adapters
      /\ \A i \in Intents : LifeOf(T.log, i) = LifeOf(EmptyStore.log, i)
      /\ \A i \in Intents : T.ledger.orders[i] = EmptyStore.ledger.orders[i] \/ i \in Legacy
      /\ \A k \in Keys : T.ledger.positions[k] = EmptyStore.ledger.positions[k]
      /\ ScopedKeys(T.log) \subseteq ScopedKeys(EmptyStore.log)
  BY <1>2 DEF Quiet
<1>4. /\ EmptyStore.log = <<>> /\ EmptyStore.adapters = [i \in Intents |-> NoAdapter]
      /\ EmptyStore.ledger.orders = [i \in Intents |-> NoOrder]
      /\ EmptyStore.ledger.positions = [k \in Keys |-> NoPosition]
  BY DEF EmptyStore, Empty
<1>5. /\ {"log", "ledger", "claims", "adapters"} \subseteq DOMAIN S
      /\ S.log = T.log /\ S.ledger = T.ledger /\ S.claims = claims /\ S.adapters = T.adapters
  BY <1>1, <1>3 DEF Published
<1> HIDE DEF claims, S
<1>6. /\ \A i \in Intents : LifeOf(T.log, i) = {}
      /\ \A i \in Intents : T.adapters[i] = NoAdapter
      /\ \A i \in Intents : i \notin Legacy => T.ledger.orders[i] = NoOrder
      /\ \A k \in Keys : T.ledger.positions[k].status = "none"
      /\ ScopedKeys(T.log) = {}
  <2>1. \A i \in Intents : LifeOf(<<>>, i) = {}
    BY EmptySequence DEF LifeOf
  <2>2. ScopedKeys(<<>>) = {}
    BY EmptySequence DEF ScopedKeys
  <2> QED
    BY <1>3, <1>4, <2>1, <2>2 DEF NoPosition
<1>7. Published(S)
  BY <1>3, <1>5 DEF Published
<1>8. TablesOk(S)
  <2>1. \A i \in Legacy : S.claims[Decision[i]] # NoClaim
    <3>1. ASSUME NEW i \in Legacy PROVE claims[Decision[i]] # NoClaim
      <4>1. Decision[i] \in Decisions /\ claims[Decision[i]] = Taken(Decision[i])
        BY PaperAssumption, DecisionAssumption DEF claims
      <4>2. Taken(Decision[i]).status # NoClaim.status
        BY DEF NoClaim
      <4> QED
        BY <4>1, <4>2
    <3> QED
      BY <1>5, <3>1
  <2>2. S.claims = [d \in Decisions |-> S.claims[d]]
    BY <1>5 DEF claims
  <2>3. S.adapters = [i \in Intents |-> S.adapters[i]]
    BY <1>3, <1>4, <1>5
  <2> QED
    BY <1>5, <1>6, <2>1, <2>2, <2>3 DEF TablesOk, Decided
<1>9. FollowedIn(S)
  BY <1>5, <1>6 DEF FollowedIn, FollowedFor
<1>10. ExposedKeys(T.ledger) \subseteq LegacyKeys
  <2>1. OpenKeys(T.ledger) = {}
    BY <1>6 DEF OpenKeys
  <2>2. ASSUME NEW k \in Keys, NEW i \in ActiveBuys(T.ledger, k) PROVE k \in LegacyKeys
    <3>1. i \in Intents /\ Terms[i].key = k /\ i \in Legacy
      BY <1>6, NewOrderIs DEF ActiveBuys
    <3> QED
      BY <3>1 DEF LegacyKeys
  <2> QED
    BY <2>1, <2>2 DEF ExposedKeys
<1>11. Capped(S)
  <2>1. ASSUME NEW keys, ExposedKeys(T.ledger) \cap keys = {} PROVE ExposedIn(S.ledger, keys) = 0
    <3> DEFINE f == [k \in {} |-> ExposureOf(S.ledger, k)]
    <3>1. DOMAIN f = {} /\ IsFiniteSet({})
      BY FS_EmptySet
    <3>2. ExposedIn(S.ledger, keys) = SumFunction(f)
      BY <1>5, <2>1 DEF ExposedIn, Exposure
    <3> HIDE DEF f
    <3>3. SumFunction(f) = 0
      BY <3>1, SumZero
    <3> QED
      BY <3>2, <3>3
  <2>2. /\ Policy.total \in Nat /\ Policy.event \in Nat /\ Policy.cityDate \in Nat /\ Policy.group \in Nat
    BY PolicyAssumption
  <2>3. ExposedIn(S.ledger, Keys \ LegacyKeys) <= Policy.total
    BY <1>10, <2>1, <2>2
  <2>4. \A v : InEvent(S.log, v) = {} /\ InCityDate(S.log, v) = {} /\ InGroup(S.log, v) = {}
    BY <1>5, <1>6 DEF InEvent, InCityDate, InGroup
  <2>5. ExposedIn(S.ledger, {}) = 0
    BY <2>1
  <2>6. Cardinality(ExposedKeys(S.ledger)) <= Max({Policy.positions, Cardinality(Legacy)})
    <3> DEFINE f == [i \in Legacy |-> Terms[i].key]
    <3>1. f \in Surjection(Legacy, LegacyKeys)
      BY DEF Surjection, LegacyKeys
    <3>2. IsFiniteSet(Legacy)
      BY PaperAssumption, FiniteAssumption, FS_Subset
    <3>3. IsFiniteSet(LegacyKeys) /\ Cardinality(LegacyKeys) <= Cardinality(Legacy)
      BY <3>1, <3>2, FS_Surjection
    <3>4. Cardinality(ExposedKeys(S.ledger)) <= Cardinality(LegacyKeys)
      BY <1>5, <1>10, <3>3, FS_Subset
    <3>5. /\ Cardinality(ExposedKeys(S.ledger)) \in Nat /\ Cardinality(LegacyKeys) \in Nat
          /\ Cardinality(Legacy) \in Nat
      BY <3>2, <3>3, KeysExposed, FS_CardinalityType
    <3> QED
      BY <3>3, <3>4, <3>5, PositionCap
  <2> QED
    BY <2>2, <2>3, <2>4, <2>5, <2>6 DEF Capped
<1>12. Good(S)
  BY <1>7, <1>8, <1>9, <1>11 DEF Good
<1> QED
  BY <1>12 DEF S

-----------------------------------------------------------------------------
(* The processes *)

\* What a process knows of decided orders stays true in a later store.
LEMMA WorkStays ==
    ASSUME NEW S, Good(S), NEW T, Later(S, T), NEW step, NEW w, WorkOk(S, step, w)
    PROVE  WorkOk(T, step, w)
<1>1. ASSUME NEW i \in Intents, Decided(S, i)
      PROVE  Decided(T, i) /\ T.adapters[i] = S.adapters[i]
  BY <1>1 DEF Later
<1>2. ASSUME NEW i \in Intents, S.adapters[i] # NoAdapter PROVE Decided(S, i)
  BY <1>2 DEF Good, TablesOk
<1>3. step \in {"cancel", "reconcile"} =>
        \A r \in w.pending : r.intent \in Intents /\ r.state = "created" /\ Decided(T, r.intent)
  BY <1>1 DEF WorkOk
<1>4. step = "cancel" => \A r \in w.pending : T.adapters[r.intent] = NoAdapter
  BY <1>1 DEF WorkOk
<1>5. step = "submit" => T.adapters[w.intent] # NoAdapter
  BY <1>1, <1>2 DEF WorkOk
<1> QED
  BY <1>3, <1>4, <1>5 DEF WorkOk

\* A step of p, as the other processes see it.
Turn(p) == pc' = [pc EXCEPT ![p] = pc'[p]] /\ work' = [work EXCEPT ![p] = work'[p]]

LEMMA TurnTaken ==
    ASSUME IInv, NEW p \in Processes, Turn(p), Good(store'), Later(store, store'),
           WorkOk(store', pc'[p], work'[p])
    PROVE  IInv'
<1>1. Good(store) /\ Processing
  BY DEF IInv
<1>2. pc' = [q \in Processes |-> pc'[q]] /\ work' = [q \in Processes |-> work'[q]]
  BY <1>1 DEF Processing, Turn
<1>3. ASSUME NEW q \in Processes PROVE WorkOk(store', pc'[q], work'[q])
  <2>1. CASE q = p
    BY <2>1
  <2>2. CASE q # p
    <3>1. pc'[q] = pc[q] /\ work'[q] = work[q]
      BY <1>1, <2>2 DEF Processing, Turn
    <3>2. WorkOk(store, pc[q], work[q])
      BY <1>1 DEF Processing
    <3>3. WorkOk(store', pc[q], work[q])
      BY <1>1, <3>2, WorkStays
    <3> QED
      BY <3>1, <3>3
  <2> QED
    BY <2>1, <2>2
<1> QED
  BY <1>2, <1>3 DEF IInv, Processing

\* A step of p is one.
LEMMA Turns ==
    ASSUME IInv, NEW p \in Processes,
           UNCHANGED pc \/ \E step : Goto(p, step), UNCHANGED work \/ \E w : work' = [work EXCEPT ![p] = w]
    PROVE  Turn(p)
<1>1. pc = [q \in Processes |-> pc[q]] /\ work = [q \in Processes |-> work[q]]
  BY DEF IInv, Processing
<1>2. pc' = [pc EXCEPT ![p] = pc'[p]]
  BY <1>1 DEF Goto
<1>3. work' = [work EXCEPT ![p] = work'[p]]
  BY <1>1
<1> QED
  BY <1>2, <1>3 DEF Turn

LEMMA Returned ==
    ASSUME IInv, NEW p \in Processes, Return(p), Good(store'), Later(store, store')
    PROVE  IInv'
<1>1. pc'[p] = "idle" /\ work'[p] = Idle
  BY DEF IInv, Processing, Return, Goto
<1>2. WorkOk(store', "idle", Idle)
  BY DEF WorkOk
<1>3. Turn(p)
  BY Turns DEF Return
<1> QED
  BY <1>1, <1>2, <1>3, TurnTaken

\* A step that leaves the store alone.
LEMMA SameStore ==
    ASSUME IInv, UNCHANGED store
    PROVE  Good(store') /\ Later(store, store')
BY NothingChanges DEF IInv

\* Every order that is not closed is as it was created.
LEMMA PendingOk ==
    ASSUME IInv, NEW action, NEW r \in PendingOrders(action)
    PROVE  /\ r.intent \in Intents /\ r.state = "created" /\ Decided(store, r.intent)
           /\ action = "resume_submission" => store.adapters[r.intent] = NoAdapter
<1>1. PICK i \in Intents :
        /\ store.ledger.orders[i].state \notin Terminal \cup {"none"} /\ Action(i) = action
        /\ r = [intent |-> i, state |-> store.ledger.orders[i].state]
  BY DEF PendingOrders
<1>2. OrderOk(store.ledger, store.log, i)
  BY DEF IInv, Good, Published
<1>3. store.ledger.orders[i] = NewOrder(i) /\ NewOrder(i).state = "created"
  BY <1>1, <1>2, NewOrderIs DEF OrderOk
<1>4. NewOrder(i) # NoOrder
  BY NewOrderIs
<1>5. Decided(store, i)
  BY <1>3, <1>4 DEF IInv, Good, TablesOk
<1>6. action = "resume_submission" => store.adapters[i] = NoAdapter
  BY <1>1 DEF Action
<1> QED
  BY <1>1, <1>3, <1>5, <1>6

-----------------------------------------------------------------------------
(* The steps *)

LEMMA RecoverKeeps ==
    ASSUME IInv, NEW p \in Processes, NEW call, DOMAIN call = DOMAIN Idle,
           call.then = "check" => call.decision \in Decisions, Recover(p, call)
    PROVE  IInv'
<1> DEFINE w == [call EXCEPT !.pending = PendingOrders("resume_submission"), !.at = now]
<1>1. pc'[p] = "cancel" /\ work'[p] = w
  BY DEF Recover, Goto, IInv, Processing
<1>2. /\ DOMAIN w = DOMAIN Idle /\ w.pending = PendingOrders("resume_submission")
      /\ w.then = call.then /\ w.decision = call.decision
  BY DEF Idle
<1>3. store' = store
  BY DEF Recover
<1>4. Turn(p)
  BY Turns DEF Recover
<1> HIDE DEF w
<1>5. WorkOk(store', "cancel", w)
  BY <1>2, <1>3, PendingOk DEF WorkOk
<1> QED
  BY <1>1, <1>3, <1>4, <1>5, SameStore, TurnTaken

LEMMA StartKeeps ==
    ASSUME IInv, NEW p \in Processes, Start(p)
    PROVE  IInv'
<1>1. CASE RecoverPaperRuntime(p)
  <2>1. Idle.then # "check"
    BY DEF Idle
  <2> QED
    BY <1>1, <2>1, RecoverKeeps DEF RecoverPaperRuntime
<1>2. ASSUME NEW d \in Decisions, SubmitScannerCandidate(p, d) PROVE IInv'
  <2> DEFINE call == [Idle EXCEPT !.decision = d, !.then = "check"]
  <2>1. DOMAIN call = DOMAIN Idle /\ call.decision = d
    BY DEF Idle
  <2>2. Recover(p, call)
    BY <1>2 DEF SubmitScannerCandidate
  <2> HIDE DEF call
  <2> QED
    BY <2>1, <2>2, RecoverKeeps
<1> QED
  BY <1>1, <1>2 DEF Start

LEMMA CancelLegacyKeeps ==
    ASSUME IInv, NEW p \in Processes, CancelLegacy(p)
    PROVE  IInv'
<1>1. PICK r \in work[p].pending :
        LET cancelled == <<Moved("cancelled", r.intent, work[p].at)>> IN
        \/ /\ store' = Appended(store, cancelled)
           /\ work' = [work EXCEPT ![p].pending = @ \ {r}] /\ UNCHANGED pc
        \/ Return(p) /\ UNCHANGED store
  BY DEF CancelLegacy, Append1
<1>2. WorkOk(store, "cancel", work[p]) /\ pc[p] = "cancel"
  BY DEF CancelLegacy, IInv, Processing
<1>3. r.intent \in Intents /\ store.adapters[r.intent] = NoAdapter
  BY <1>2 DEF WorkOk
<1>4. CASE Return(p) /\ UNCHANGED store
  BY <1>4, SameStore, Returned
<1>5. CASE /\ store' = Appended(store, <<Moved("cancelled", r.intent, work[p].at)>>)
           /\ work' = [work EXCEPT ![p].pending = @ \ {r}] /\ UNCHANGED pc
  <2>1. Good(store') /\ Later(store, store')
    BY <1>3, <1>5, AppendedCancel DEF IInv
  <2>2. pc'[p] = "cancel" /\ work'[p] = [work[p] EXCEPT !.pending = @ \ {r}]
    BY <1>2, <1>5 DEF IInv, Processing
  <2>3. WorkOk(store, "cancel", work'[p])
    <3>1. /\ DOMAIN work'[p] = DOMAIN work[p] /\ work'[p].pending \subseteq work[p].pending
          /\ work'[p].then = work[p].then /\ work'[p].decision = work[p].decision
      BY <1>2, <2>2 DEF WorkOk, Idle
    <3> QED
      BY <1>2, <3>1 DEF WorkOk
  <2>4. WorkOk(store', pc'[p], work'[p])
    BY <2>1, <2>2, <2>3, WorkStays DEF IInv
  <2>5. Turn(p)
    <3>1. \E w : work' = [work EXCEPT ![p] = w]
      BY <1>5
    <3> QED
      BY <1>5, <3>1, Turns
  <2> QED
    BY <2>1, <2>4, <2>5, TurnTaken
<1> QED
  BY <1>1, <1>4, <1>5

LEMMA ReconcileStartupKeeps ==
    ASSUME IInv, NEW p \in Processes, ReconcileStartup(p)
    PROVE  IInv'
<1> DEFINE w == [work[p] EXCEPT !.pending = PendingOrders("reconcile_backend")]
<1>1. WorkOk(store, "cancel", work[p])
  BY DEF ReconcileStartup, IInv, Processing
<1>2. pc'[p] = "reconcile" /\ work'[p] = w /\ store' = store
  BY DEF ReconcileStartup, Goto, IInv, Processing
<1>3. /\ DOMAIN w = DOMAIN Idle /\ w.pending = PendingOrders("reconcile_backend")
      /\ w.then = work[p].then /\ w.decision = work[p].decision
  BY <1>1 DEF WorkOk, Idle
<1>4. Turn(p)
  <2>1. work' = [work EXCEPT ![p] = w]
    BY DEF ReconcileStartup
  <2>2. \E v : work' = [work EXCEPT ![p] = v]
    BY <2>1
  <2> QED
    BY <2>2, Turns DEF ReconcileStartup
<1> HIDE DEF w
<1>5. WorkOk(store', "reconcile", w)
  BY <1>1, <1>2, <1>3, PendingOk DEF WorkOk
<1> QED
  BY <1>2, <1>4, <1>5, SameStore, TurnTaken

LEMMA ReconcileKeeps ==
    ASSUME IInv, NEW p \in Processes, Reconcile(p)
    PROVE  IInv'
<1>1. PICK r \in work[p].pending :
        LET adapter == store.adapters[r.intent] IN
        \/ /\ adapter # NoAdapter
           /\ store' = Appended(store, Reconciled(r.intent, adapter, r.state))
           /\ work' = [work EXCEPT ![p].pending = @ \ {r}] /\ UNCHANGED pc
        \/ Return(p) /\ UNCHANGED store
  BY DEF Reconcile, Append1
<1>2. WorkOk(store, "reconcile", work[p]) /\ pc[p] = "reconcile"
  BY DEF Reconcile, IInv, Processing
<1>3. r.intent \in Intents /\ r.state = "created"
  BY <1>2 DEF WorkOk
<1>4. CASE Return(p) /\ UNCHANGED store
  BY <1>4, SameStore, Returned
<1>5. CASE /\ store.adapters[r.intent] # NoAdapter
           /\ store' = Appended(store, Reconciled(r.intent, store.adapters[r.intent], r.state))
           /\ work' = [work EXCEPT ![p].pending = @ \ {r}] /\ UNCHANGED pc
  <2>1. Good(store') /\ Later(store, store')
    BY <1>3, <1>5, AppendedPlan DEF IInv
  <2>2. pc'[p] = "reconcile" /\ work'[p] = [work[p] EXCEPT !.pending = @ \ {r}]
    BY <1>2, <1>5 DEF IInv, Processing
  <2>3. WorkOk(store, "reconcile", work'[p])
    <3>1. /\ DOMAIN work'[p] = DOMAIN work[p] /\ work'[p].pending \subseteq work[p].pending
          /\ work'[p].then = work[p].then /\ work'[p].decision = work[p].decision
      BY <1>2, <2>2 DEF WorkOk, Idle
    <3> QED
      BY <1>2, <3>1 DEF WorkOk
  <2>4. WorkOk(store', pc'[p], work'[p])
    BY <2>1, <2>2, <2>3, WorkStays DEF IInv
  <2>5. Turn(p)
    <3>1. \E w : work' = [work EXCEPT ![p] = w]
      BY <1>5
    <3> QED
      BY <1>5, <3>1, Turns
  <2> QED
    BY <2>1, <2>4, <2>5, TurnTaken
<1> QED
  BY <1>1, <1>4, <1>5

LEMMA CheckDecisionKeeps ==
    ASSUME IInv, NEW p \in Processes, CheckDecision(p)
    PROVE  IInv'
<1>1. WorkOk(store, "reconcile", work[p]) /\ work[p].then = "check"
  BY DEF CheckDecision, IInv, Processing
<1>2. DOMAIN work[p] = DOMAIN Idle /\ work[p].decision \in Decisions
  BY <1>1 DEF WorkOk
<1>3. CASE Goto(p, "size") /\ UNCHANGED <<store, now, work>>
  <2>1. pc'[p] = "size" /\ work'[p] = work[p] /\ Turn(p)
    BY <1>3, Turns DEF Goto, IInv, Processing
  <2>2. WorkOk(store', "size", work[p])
    BY <1>2 DEF WorkOk
  <2> QED
    BY <1>3, <2>1, <2>2, SameStore, TurnTaken
<1>4. CASE Recover(p, [work[p] EXCEPT !.then = "idle"])
  <2> DEFINE call == [work[p] EXCEPT !.then = "idle"]
  <2>1. DOMAIN call = DOMAIN Idle /\ call.then # "check"
    BY <1>2 DEF Idle
  <2> HIDE DEF call
  <2>2. Recover(p, call)
    BY <1>4 DEF call
  <2> QED
    BY <2>1, <2>2, RecoverKeeps
<1>5. CASE Return(p) /\ UNCHANGED <<store, now>>
  BY <1>5, SameStore, Returned
<1> QED
  BY <1>3, <1>4, <1>5 DEF CheckDecision

LEMMA SizeKeeps ==
    ASSUME IInv, NEW p \in Processes, Size(p)
    PROVE  IInv'
<1>1. WorkOk(store, "size", work[p]) /\ store' = store
  BY DEF Size, IInv, Processing
<1>2. CASE Return(p)
  BY <1>1, <1>2, SameStore, Returned
<1>3. ASSUME NEW i \in IntentsFor(p), NEW bid \in BidPrices, NEW plan \in Plans[i], Goto(p, "commit"),
             work' = [work EXCEPT ![p].intent = i, ![p].plan = plan, ![p].at = now,
                                  ![p].valuation = Valuation(store.ledger, bid, now)]
      PROVE  IInv'
  <2> DEFINE v == Valuation(store.ledger, bid, now)
             w == [[[[work[p] EXCEPT !.intent = i] EXCEPT !.plan = plan] EXCEPT !.at = now] EXCEPT !.valuation = v]
  <2>1. p \in DOMAIN work /\ work = [q \in Processes |-> work[q]]
    BY DEF IInv, Processing
  <2>2. work' = [work EXCEPT ![p] = w]
    <3> HIDE DEF v
    <3>1. work' = [work EXCEPT ![p].intent = i, ![p].plan = plan, ![p].at = now, ![p].valuation = v]
      BY <1>3 DEF v
    <3> QED
      BY <2>1, <3>1
  <2>3. /\ DOMAIN w = DOMAIN Idle /\ w.decision = work[p].decision
        /\ w.intent = i /\ w.plan = plan
    <3> HIDE DEF v
    <3> QED
      BY <1>1 DEF WorkOk, Idle
  <2> HIDE DEF w
  <2>4. pc'[p] = "commit" /\ work'[p] = w /\ Turn(p)
    <3>1. \E u : work' = [work EXCEPT ![p] = u]
      BY <2>2
    <3> QED
      BY <1>3, <2>1, <2>2, <3>1, Turns DEF Goto, IInv, Processing
  <2>5. WorkOk(store', "commit", w)
    BY <1>1, <2>3 DEF WorkOk, IntentsFor
  <2> QED
    BY <1>1, <2>4, <2>5, SameStore, TurnTaken
<1> QED
  BY <1>2, <1>3 DEF Size

LEMMA CommitApprovedKeeps ==
    ASSUME IInv, NEW p \in Processes, CommitApproved(p)
    PROVE  IInv'
<1> DEFINE i == work[p].intent
           k == Terms[i].key
           d == work[p].decision
           t == work[p].at
           T == Batch(store, Entry(p), TRUE).store
           c == Claim(p, "committed", i)
           a == [backend |-> "paper", payload |-> [plan |-> work[p].plan, at |-> t]]
           U == [T EXCEPT !.claims[d] = c, !.adapters = [store.adapters EXCEPT ![i] = a]]
<1>1. Good(store) /\ Published(store) /\ Processing
  BY DEF IInv, Good
<1>2. WorkOk(store, "commit", work[p]) /\ pc[p] = "commit"
  BY <1>1 DEF CommitApproved, Processing
<1>3. i \in Intents \ Legacy /\ Decision[i] = d /\ work[p].plan \in Plans[i] /\ d \in Decisions
  BY <1>2 DEF WorkOk
<1>4. CASE Return(p) /\ UNCHANGED store
  BY <1>4, SameStore, Returned
<1>5. CASE store' = U /\ Goto(p, "submit") /\ UNCHANGED work
  <2>1. Quiet(store, T, {i}, {}, {k})
    <3> DEFINE first == IF k \in DOMAIN ScopesIn(store.log) THEN <<>> ELSE <<ScopeRegistered(k, Scopes[k], t)>>
    <3>1. first = <<>> \/ first = <<ScopeRegistered(k, Scopes[k], t)>>
      OBVIOUS
    <3>2. Entry(p) = first \o <<ValuationRecorded(d, work[p].valuation, t), Created(i, t)>>
      BY DEF Entry
    <3> HIDE DEF first, t
    <3>3. Quiet(store, Batch(store, first \o <<ValuationRecorded(d, work[p].valuation, t), Created(i, t)>>, TRUE).store,
                {i}, {}, {k})
      BY <1>1, <1>3, <3>1, EntryQuiet
    <3> QED
      BY <3>2, <3>3
  <2>2. Allowed(store, k, CashReservation(i))
    <3>1. RiskDecision(store.ledger, store.log, k, Scopes[k], CashReservation(i), work[p].valuation, t) = "approved"
      BY DEF CommitApproved, DecisionFor
    <3>2. k \in Keys /\ CashReservation(i) \in Nat
      BY <1>3, TermsOf
    <3> HIDE DEF k, t
    <3> QED
      BY <1>1, <3>1, <3>2, ApprovedAllows DEF k
  <2>3. ~Decided(store, i)
    BY <1>3 DEF CommitApproved, Undecided, Decided
  <2>4. c # NoClaim
    <3>1. c.status # NoClaim.status
      BY DEF Claim, NoClaim
    <3> HIDE DEF c
    <3> QED
      BY <3>1
  <2>5. a # NoAdapter /\ a.payload.plan \in Plans[i]
    <3>1. a.backend # NoAdapter.backend
      BY NoneBackendAssumption DEF NoAdapter
    <3>2. a.payload.plan = work[p].plan
      OBVIOUS
    <3> HIDE DEF a
    <3> QED
      BY <1>3, <3>1, <3>2
  <2>6. U = Written(store, T, i, c, a)
    BY <1>3 DEF Written
  <2> HIDE DEF T, c, a, U
  <2>7. Good(U) /\ Later(store, U) /\ U.adapters[i] = a
    <3>1. Quiet(store, T, {i}, {}, {Terms[i].key}) /\ Allowed(store, Terms[i].key, CashReservation(i))
      BY <2>1, <2>2
    <3> HIDE DEF i, k
    <3> QED
      BY <1>1, <1>3, <2>3, <2>4, <2>5, <2>6, <3>1, EntryGood
  <2>8. pc'[p] = "submit" /\ work'[p] = work[p] /\ Turn(p)
    BY <1>5, <1>1, Turns DEF Goto, Processing
  <2>9. WorkOk(U, "submit", work[p])
    BY <1>2, <2>5, <2>7 DEF WorkOk
  <2> QED
    BY <1>5, <2>7, <2>8, <2>9, TurnTaken
<1>6. (store' = U /\ Goto(p, "submit") /\ UNCHANGED work) \/ (Return(p) /\ UNCHANGED store)
  BY DEF CommitApproved, AdapterRows
<1> QED
  BY <1>4, <1>5, <1>6

LEMMA CommitRejectedKeeps ==
    ASSUME IInv, NEW p \in Processes, CommitRejected(p)
    PROVE  IInv'
<1> DEFINE d == work[p].decision
           e == ValuationRecorded(d, work[p].valuation, work[p].at)
           valued == <<e>>
           c == Claim(p, "completed", None)
<1>1. Good(store) /\ Published(store) /\ Processing
  BY DEF IInv, Good
<1>2. WorkOk(store, "commit", work[p]) /\ pc[p] = "commit"
  BY <1>1 DEF CommitRejected, Processing
<1>3. d \in Decisions
  BY <1>2 DEF WorkOk
<1>4. PICK S \in {store, Appended(store, valued)} : store' = [S EXCEPT !.claims[d] = c]
  BY DEF CommitRejected
<1>5. Good(S) /\ Later(store, S)
  <2>1. CASE S = store
    BY <1>1, <2>1, NothingChanges
  <2>2. CASE S = Appended(store, valued)
    <3>1. e.kind \in QuietKinds /\ e.kind = "valuation"
      BY DEF ValuationRecorded, QuietKinds
    <3> HIDE DEF e
    <3>2. Fits(e, {}, {}, {})
      BY <3>1 DEF Fits
    <3>3. IsSequence(valued) /\ \A n \in DOMAIN valued : valued[n] = e
      <4> DEFINE V == {e}
      <4>1. valued \in Seq(V) /\ \A n \in DOMAIN valued : valued[n] = e
        OBVIOUS
      <4> HIDE DEF V, valued
      <4> QED
        BY <4>1, OwnElements
    <3> HIDE DEF valued
    <3>4. Quiet(store, Batch(store, valued, FALSE).store, {}, {}, {})
      BY <1>1, <3>2, <3>3, QuietBatch
    <3>5. S = Batch(store, valued, FALSE).store
      BY <2>2 DEF Appended
    <3> QED
      BY <1>1, <3>4, <3>5, QuietGood
  <2> QED
    BY <2>1, <2>2
<1>6. c # NoClaim
  <2>1. c.status # NoClaim.status
    BY DEF Claim, NoClaim
  <2> HIDE DEF c
  <2> QED
    BY <2>1
<1> HIDE DEF d, c, valued
<1>7. /\ Good(store')
      /\ \A j \in Intents : Decided(S, j) => Decided(store', j) /\ store'.adapters[j] = S.adapters[j]
  BY <1>3, <1>4, <1>5, <1>6, ClaimGood
<1>8. Later(store, store')
  BY <1>5, <1>7 DEF Later
<1>9. Return(p)
  BY DEF CommitRejected
<1> QED
  BY <1>7, <1>8, <1>9, Returned

LEMMA CommitRepeatedKeeps ==
    ASSUME IInv, NEW p \in Processes, CommitRepeated(p)
    PROVE  IInv'
<1> DEFINE i == work[p].intent
           a == [backend |-> "paper", payload |-> [plan |-> work[p].plan, at |-> work[p].at]]
<1>1. WorkOk(store, "commit", work[p]) /\ pc[p] = "commit" /\ store' = store
  BY DEF CommitRepeated, IInv, Processing
<1>2. CASE Return(p)
  BY <1>1, <1>2, SameStore, Returned
<1>3. CASE store.adapters = AdapterRows(p) /\ Goto(p, "submit") /\ UNCHANGED work
  <2>1. i \in Intents /\ store.adapters = [j \in Intents |-> store.adapters[j]]
    BY <1>1 DEF WorkOk, IInv, Good, TablesOk
  <2>2. a # NoAdapter
    <3>1. a.backend # NoAdapter.backend
      BY NoneBackendAssumption DEF NoAdapter
    <3> HIDE DEF a
    <3> QED
      BY <3>1
  <2>3. store.adapters = [store.adapters EXCEPT ![i] = a]
    BY <1>3 DEF AdapterRows
  <2> HIDE DEF a
  <2>4. store.adapters[i] # NoAdapter
    BY <2>1, <2>2, <2>3
  <2>5. WorkOk(store', "submit", work[p])
    BY <1>1, <2>4 DEF WorkOk
  <2>6. pc'[p] = "submit" /\ work'[p] = work[p] /\ Turn(p)
    BY <1>3, Turns DEF Goto, IInv, Processing
  <2> QED
    BY <1>1, <2>5, <2>6, SameStore, TurnTaken
<1> QED
  BY <1>2, <1>3 DEF CommitRepeated

LEMMA SubmitKeeps ==
    ASSUME IInv, NEW p \in Processes, Submit(p)
    PROVE  IInv'
<1> DEFINE i == work[p].intent
<1>1. WorkOk(store, "submit", work[p])
  BY DEF Submit, IInv, Processing
<1>2. i \in Intents /\ store.adapters[i] # NoAdapter
  BY <1>1 DEF WorkOk
<1>3. store' = store \/ store' = Appended(store, Reconciled(i, store.adapters[i], "created"))
  BY DEF Submit, Append1
<1>4. Good(store') /\ Later(store, store')
  BY <1>2, <1>3, AppendedPlan, NothingChanges DEF IInv
<1> QED
  BY <1>4, Returned DEF Submit

\* The resolution worker touches no process.
LEMMA OthersSteps ==
    ASSUME IInv, Good(store'), Later(store, store'), UNCHANGED <<pc, work>>
    PROVE  IInv'
<1>1. ASSUME NEW p \in Processes PROVE WorkOk(store', pc[p], work[p])
  BY WorkStays DEF IInv, Processing
<1> QED
  BY <1>1 DEF IInv, Processing

LEMMA ResolveMarketKeeps ==
    ASSUME IInv, NEW m \in Markets, ResolveMarket(m)
    PROVE  IInv'
<1>1. PICK o \in Outcomes, payout \in Payouts :
        store' = Appended(store, <<Evidence(m, payout, now), Resolved(m, payout, now), Settled(<<m, o>>, 0, now)>>)
  BY DEF ResolveMarket, Append1
<1> DEFINE a == Evidence(m, payout, now)
           b == Resolved(m, payout, now)
           c == Settled(<<m, o>>, 0, now)
           U == {a, b, c}
           events == <<a, b, c>>
<1>2. <<m, o>> \in Keys
  BY DEF Keys
<1>3. \A e \in U : Fits(e, {}, {<<m, o>>}, {})
  BY DEF Fits, QuietKinds, Evidence, Resolved, Settled
<1>4. events \in Seq(U)
  <2> HIDE DEF a, b, c
  <2> QED
    OBVIOUS
<1>5. store' = Batch(store, events, FALSE).store
  BY <1>1 DEF Appended
<1> HIDE DEF U, events
<1>6. IsSequence(events) /\ \A n \in DOMAIN events : Fits(events[n], {}, {<<m, o>>}, {})
  <2>1. \A n \in DOMAIN events : events[n] \in U
    BY <1>4
  <2> QED
    BY <1>3, <1>4, <2>1, OwnElements
<1>7. Good(store) /\ Published(store)
  BY DEF IInv, Good
<1>8. Quiet(store, store', {}, {<<m, o>>}, {})
  <2> HIDE DEF events
  <2>1. {<<m, o>>} \in SUBSET Keys
    BY <1>2
  <2> DEFINE D == {<<m, o>>}
  <2> HIDE DEF D
  <2>2. Quiet(store, Batch(store, events, FALSE).store, {}, D, {})
    BY <1>6, <1>7, <2>1, QuietBatch DEF D
  <2> QED
    BY <1>5, <2>2 DEF D
<1>9. Good(store') /\ Later(store, store')
  BY <1>7, <1>8, QuietGood
<1> QED
  BY <1>9, OthersSteps DEF ResolveMarket

LEMMA InvariantInitially == Init => IInv
<1> SUFFICES ASSUME Init PROVE IInv
  OBVIOUS
<1>1. Good(store)
  BY InitialGood DEF Init
<1>2. /\ pc = [p \in Processes |-> pc[p]] /\ work = [p \in Processes |-> work[p]]
      /\ \A p \in Processes : pc[p] = "idle" /\ work[p] = Idle
  BY DEF Init
<1>3. WorkOk(store, "idle", Idle)
  BY DEF WorkOk
<1> QED
  BY <1>1, <1>2, <1>3 DEF IInv, Processing

LEMMA InvariantKept == IInv /\ [Next]_vars => IInv'
<1> SUFFICES ASSUME IInv, [Next]_vars PROVE IInv'
  OBVIOUS
<1>1. ASSUME NEW p \in Processes, Crash(p) PROVE IInv'
  BY <1>1, SameStore, Returned DEF Crash
<1>2. ASSUME NEW p \in Processes, Start(p) PROVE IInv'
  BY <1>2, StartKeeps
<1>3. ASSUME NEW p \in Processes, Continue(p) PROVE IInv'
  <2>1. ASSUME ReconcileDone(p) PROVE IInv'
    BY <2>1, SameStore, Returned DEF ReconcileDone
  <2> QED
    BY <1>3, <2>1, CancelLegacyKeeps, ReconcileStartupKeeps, ReconcileKeeps, CheckDecisionKeeps, SizeKeeps,
       CommitApprovedKeeps, CommitRejectedKeeps, CommitRepeatedKeeps, SubmitKeeps DEF Continue
<1>4. CASE Tick
  BY <1>4, SameStore, OthersSteps DEF Tick
<1>5. ASSUME NEW m \in Markets, ResolveMarket(m) PROVE IInv'
  BY <1>5, ResolveMarketKeeps
<1>6. CASE UNCHANGED vars
  BY <1>6, SameStore, OthersSteps DEF vars
<1> QED
  BY <1>1, <1>2, <1>3, <1>4, <1>5, <1>6 DEF Next, Environment

\* Several processes and crashes between them: what the ledger holds of an
\* order is what its durable plan says, in one piece (events_for_plan through
\* submit, reconcile_startup and the recovery of another process).
THEOREM PlanFollowedHolds == Spec => []PlanFollowed
<1>1. IInv => PlanFollowed
  BY DEF IInv, Good, FollowedIn, FollowedFor, PlanFollowed
<1> QED
  BY <1>1, InvariantInitially, InvariantKept, PTL DEF Spec

\* The caps that evaluate_portfolio_risk checks in the transaction of an entry
\* hold of the ledger after every step: no fill, fee, rounding, cancellation
\* or settlement takes an exposure past them.
THEOREM ExposureCappedHolds == Spec => []ExposureCapped
<1>1. IInv => ExposureCapped
  BY CappedIs DEF IInv, Good
<1> QED
  BY <1>1, InvariantInitially, InvariantKept, PTL DEF Spec
=============================================================================
