------------------------------- MODULE Ledger -------------------------------
(***************************************************************************)
(* The ledger as a state machine: one step applies one new event           *)
(* (domain/reducers.py, apply_event).  An event the reducer or             *)
(* assert_invariants refuses raises and changes nothing; so does, without  *)
(* raising, an event whose event_id has been applied before, and a risk    *)
(* scope or a valuation, which are only validated.  None of these is a     *)
(* step here.                                                              *)
(***************************************************************************)
EXTENDS LedgerReducers

CONSTANTS
  Deposits,   \* possible initial cash
  Fills,      \* bound: the fills a backend may report
  Fees        \* bound: the settlement fees charged

ASSUME InputAssumption == Deposits \subseteq Nat /\ Fills \subseteq FillData /\ Fees \subseteq Nat

VARIABLES
  ledger,   \* LedgerState
  deposit   \* history: the initial cash

vars == <<ledger, deposit>>

Init == ledger = Empty /\ deposit = 0

(* apply_event: the reducer's result has to satisfy assert_invariants. *)
ApplyEvent(next) == AssertInvariants(next) /\ ledger' = next

AccountOpened ==
  \E amount \in Deposits :
     CanOpen(ledger) /\ ApplyEvent(Open(ledger, amount)) /\ deposit' = amount

OrderIntentCreated(i) ==
  CanCreate(ledger, i) /\ ApplyEvent(Create(ledger, i)) /\ UNCHANGED deposit

OrderMoved(i, target) ==
  CanMove(ledger, i, target) /\ ApplyEvent(Move(ledger, i, target)) /\ UNCHANGED deposit

OrderSubmitted(i) == OrderMoved(i, "submitted")
OrderAcknowledged(i) == OrderMoved(i, "acknowledged")
OrderOutcomeUnknown(i) == OrderMoved(i, "unknown")

OrderTerminated(i, target) ==
  CanTerminate(ledger, i, target) /\ ApplyEvent(Terminate(ledger, i, target)) /\ UNCHANGED deposit

OrderRejected(i) == OrderTerminated(i, "rejected")
OrderCancelled(i) == OrderTerminated(i, "cancelled")

FillReceived(i) ==
  \E f \in Fills : CanFill(ledger, i, f) /\ ApplyEvent(Fill(ledger, i, f)) /\ UNCHANGED deposit

MarketResolutionEvidenceRecorded(m) ==
  \E p \in PayoutVectors :
     CanRecordEvidence(ledger, m, p) /\ ApplyEvent(RecordEvidence(ledger, m, p)) /\ UNCHANGED deposit

MarketResolved(m) ==
  \E p \in PayoutVectors :
     CanResolve(ledger, m, p) /\ ApplyEvent(Resolve(ledger, m, p)) /\ UNCHANGED deposit

PositionSettled(k) ==
  \E fee \in Fees : CanSettle(ledger, k, fee) /\ ApplyEvent(Settle(ledger, k, fee)) /\ UNCHANGED deposit

Next ==
  \/ AccountOpened
  \/ \E i \in Intents :
       \/ OrderIntentCreated(i) \/ OrderSubmitted(i) \/ OrderAcknowledged(i)
       \/ OrderOutcomeUnknown(i) \/ OrderRejected(i) \/ OrderCancelled(i) \/ FillReceived(i)
  \/ \E m \in Markets : MarketResolutionEvidenceRecorded(m) \/ MarketResolved(m)
  \/ \E k \in Keys : PositionSettled(k)

Spec == Init /\ [][Next]_vars

-----------------------------------------------------------------------------
(* Every reducer returns a well-formed ledger: amounts are naturals of the   *)
(* quantum, profits integers, orders and positions in states of their life   *)
(* cycles.                                                                   *)
TypeOK == ledger \in LedgerState /\ deposit \in Nat

(* What the reducers' own checks let through never trips an assertion of    *)
(* assert_invariants, however orders, fills, cancellations, resolutions and *)
(* settlements interleave: reservations match the open orders to the        *)
(* quantum, a closed order holds none, evidence and resolution agree.  The  *)
(* one exception is the available cash: rounding may let a fill cost one    *)
(* quantum more than the reservation it frees.                              *)
ReducersSuffice ==
  ledger.opened =>
    /\ \A i \in Intents :
         /\ CanCreate(ledger, i) => AssertInvariants(Create(ledger, i))
         /\ \A t \in {"rejected", "cancelled"} :
              CanTerminate(ledger, i, t) => AssertInvariants(Terminate(ledger, i, t))
         /\ \A f \in Fills : CanFill(ledger, i, f) =>
              BooksSound(Fill(ledger, i, f)) /\ AvailableCash(Fill(ledger, i, f)) >= -1
    /\ \A m \in Markets, p \in PayoutVectors :
         /\ CanRecordEvidence(ledger, m, p) => AssertInvariants(RecordEvidence(ledger, m, p))
         /\ CanResolve(ledger, m, p) => AssertInvariants(Resolve(ledger, m, p))
    /\ \A k \in Keys, fee \in Fees :
         CanSettle(ledger, k, fee) => AssertInvariants(Settle(ledger, k, fee))

(* The books balance: what was paid in and earned is held in cash or in the *)
(* cost of open positions, through partial fills, partial sales with a      *)
(* rounded cost allocation, fees and settlements.                           *)
BooksBalance ==
  ledger.cash + SumFunction([k \in Keys |-> ledger.positions[k].cost])
    = deposit + SumFunction([k \in Keys |-> ledger.positions[k].pnl])

FilledOn(k, side) ==
  SumFunction([i \in {j \in Intents : Terms[j].key = k /\ Terms[j].side = side} |->
                  SumFunction([f \in ledger.orders[i].fills |-> f.quantity])])

(* An open position is exactly what the fills, each counted once, bought    *)
(* and did not sell (_apply_fill).                                          *)
PositionIsFills ==
  \A k \in Keys : ledger.positions[k].status # "settled" =>
     ledger.positions[k].quantity = FilledOn(k, "buy") - FilledOn(k, "sell")

(* What is over stays over: a terminal order, a settled position, recorded  *)
(* evidence and a recorded resolution never change again, even when fills   *)
(* or cancellations arrive late (require_transition, _apply_settlement).    *)
ClosedForGood ==
  [][/\ \A i \in Intents :
          ledger.orders[i].state \in Terminal => ledger'.orders[i] = ledger.orders[i]
     /\ \A k \in Keys :
          ledger.positions[k].status = "settled" => ledger'.positions[k] = ledger.positions[k]
     /\ \A m \in Markets :
          /\ ledger.evidence[m] # None => ledger'.evidence[m] = ledger.evidence[m]
          /\ ledger.resolutions[m] # None => ledger'.resolutions[m] = ledger.resolutions[m]]_vars
=============================================================================
