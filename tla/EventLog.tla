------------------------------ MODULE EventLog ------------------------------
(***************************************************************************)
(* The ledger as a log of events, and what the transactions of             *)
(* persistence/store.py compute from it: replay, the append of a batch,    *)
(* and the checks verify_integrity makes.  A store is a record             *)
(*   log          ledger_events, in sequence order                         *)
(*   claims       decision_claims, one row or None for each decision       *)
(*   adapters     adapter_metadata, one row or None for each intent        *)
(*   checkpoints  state_checkpoints                                        *)
(*   ledger       the state that replaying log returns (it is recomputed   *)
(*                by every load and never stored)                          *)
(*                                                                         *)
(* The hash chain is abstracted to what it identifies: the chain hash of a *)
(* position is the prefix of the log that ends there, a state hash is the  *)
(* state.  An event has an id, and everything else its payload holds.      *)
(***************************************************************************)
EXTENDS LedgerReducers, Sequences, SequencesExt

CONSTANTS
  Decisions,
  Decision      \* the decision_id each intent carries

ASSUME DecisionAssumption == Decision \in [Intents -> Decisions]
ASSUME NoneIntentAssumption == None \notin Intents

LifeCycle == {"submitted", "acknowledged", "unknown", "rejected", "cancelled"}

(* The events.  Their identifiers are functions of what they are about;    *)
(* at is occurred_at, in ticks of a clock.                                 *)
Opened(amount, t) == [id |-> <<"opened">>, kind |-> "opened", of |-> None, data |-> amount, at |-> t]
Created(i, t) == [id |-> <<"created", i>>, kind |-> "created", of |-> i, data |-> None, at |-> t]
Moved(kind, i, t) == [id |-> <<kind, i>>, kind |-> kind, of |-> i, data |-> None, at |-> t]
Filled(i, f, t) == [id |-> <<"fill", i, f.id>>, kind |-> "fill", of |-> i, data |-> f, at |-> t]
Evidence(m, p, t) == [id |-> <<"evidence", m>>, kind |-> "evidence", of |-> m, data |-> p, at |-> t]
Resolved(m, p, t) == [id |-> <<"resolved", m>>, kind |-> "resolved", of |-> m, data |-> p, at |-> t]
Settled(k, fee, t) == [id |-> <<"settled", k>>, kind |-> "settled", of |-> k, data |-> fee, at |-> t]
(* RiskScopeRegistered and PortfolioValuationRecorded leave the ledger alone. *)
ScopeRegistered(k, scope, t) == [id |-> <<"scope", k>>, kind |-> "scope", of |-> k, data |-> scope, at |-> t]
ValuationRecorded(d, v, t) == [id |-> <<"valuation", d, v>>, kind |-> "valuation", of |-> d, data |-> v, at |-> t]

OpenKeys(L) == {k \in Keys : L.positions[k].status = "open" /\ L.positions[k].quantity > 0}

(* _apply_portfolio_valuation: the marks cover the open positions, and the *)
(* equity is the cash and the marks.                                       *)
CanRecordValuation(L, v) ==
  /\ DOMAIN v.marks = OpenKeys(L)
  /\ \A k \in OpenKeys(L) : v.marks[k].quantity = L.positions[k].quantity
  /\ v.equity = L.cash + MapThenSumSet(LAMBDA k : v.marks[k].value, OpenKeys(L))

(* apply_event: the reducer of the event's kind, then assert_invariants. *)
Reduced(L, e) ==
  CASE e.kind = "opened" -> Open(L, e.data)
    [] e.kind = "created" -> Create(L, e.of)
    [] e.kind \in {"submitted", "acknowledged", "unknown"} -> Move(L, e.of, e.kind)
    [] e.kind \in {"rejected", "cancelled"} -> Terminate(L, e.of, e.kind)
    [] e.kind = "fill" -> Fill(L, e.of, e.data)
    [] e.kind = "evidence" -> RecordEvidence(L, e.of, e.data)
    [] e.kind = "resolved" -> Resolve(L, e.of, e.data)
    [] e.kind = "settled" -> Settle(L, e.of, e.data)
    [] OTHER -> L

Reducible(L, e) ==
  CASE e.kind = "opened" -> CanOpen(L)
    [] e.kind = "created" -> CanCreate(L, e.of)
    [] e.kind \in {"submitted", "acknowledged", "unknown"} -> CanMove(L, e.of, e.kind)
    [] e.kind \in {"rejected", "cancelled"} -> CanTerminate(L, e.of, e.kind)
    [] e.kind = "fill" -> CanFill(L, e.of, e.data)
    [] e.kind = "evidence" -> CanRecordEvidence(L, e.of, e.data)
    [] e.kind = "resolved" -> CanResolve(L, e.of, e.data)
    [] e.kind = "settled" -> CanSettle(L, e.of, e.data)
    [] e.kind = "valuation" -> L.opened /\ CanRecordValuation(L, e.data)
    [] OTHER -> L.opened

CanApply(L, e) == Reducible(L, e) /\ AssertInvariants(Reduced(L, e))

-----------------------------------------------------------------------------
NoClaim == [status |-> "none", owner |-> None, intent |-> None, metadata |-> None]
NoAdapter == [backend |-> None, payload |-> None]

EmptyStore == [log |-> <<>>, ledger |-> Empty,
               claims |-> [d \in Decisions |-> NoClaim],
               adapters |-> [i \in Intents |-> NoAdapter],
               checkpoints |-> {}]

LoggedIds(log) == {log[n].id : n \in DOMAIN log}
CreatedIn(log) == {log[n].of : n \in {m \in DOMAIN log : log[m].kind = "created"}}

(* One event of _append_events_locked.  Unless a batch is a commit of an   *)
(* intent it may not create one; an event that is in the log is skipped;   *)
(* one that reuses its id with other data, or that the ledger refuses,     *)
(* raises.  The unique indexes refuse a second intent for a decision.      *)
Accepts(S, e, intents) ==
  \/ e \in Range(S.log)
  \/ /\ e.kind = "created" => intents
     /\ e.id \notin LoggedIds(S.log)
     /\ e.kind = "created" => \A i \in CreatedIn(S.log) : Decision[i] # Decision[e.of]
     /\ CanApply(S.ledger, e)

Insert(S, e) ==
  IF e \in Range(S.log) THEN S
  ELSE [S EXCEPT !.log = Append(S.log, e), !.ledger = Reduced(S.ledger, e)]

(* _append_events_locked of a whole batch, and append_many around it: the  *)
(* transaction rolls everything back when one event of the batch raises.   *)
AppendRow(S, r, e, intents) ==
  IF r.ok /\ Accepts(r.store, e, intents) THEN [ok |-> TRUE, store |-> Insert(r.store, e)]
  ELSE [ok |-> FALSE, store |-> S]

BatchStates(S, events, intents) ==
  LET state[n \in 0 .. Len(events)] ==
        IF n = 0 THEN [ok |-> TRUE, store |-> S]
        ELSE AppendRow(S, state[n - 1], events[n], intents)
  IN state

Batch(S, events, intents) == BatchStates(S, events, intents)[Len(events)]

CanAppend(S, events) == Batch(S, events, FALSE).ok
Appended(S, events) == Batch(S, events, FALSE).store

-----------------------------------------------------------------------------
(* _load_locked: every row is applied to the state the rows before it give, *)
(* and the first one that cannot be applied raises.                         *)
ApplyRow(r, e) ==
  IF r.ok /\ CanApply(r.ledger, e)
  THEN [ok |-> TRUE, ledger |-> Reduced(r.ledger, e)]
  ELSE [ok |-> FALSE, ledger |-> r.ledger]

ReplayStates(log) ==
  LET state[n \in 0 .. Len(log)] ==
        IF n = 0 THEN [ok |-> TRUE, ledger |-> Empty]
        ELSE ApplyRow(state[n - 1], log[n])
  IN state

Replay(log) == ReplayStates(log)[Len(log)]

Prefix(log, n) == SubSeq(log, 1, n)

(* A checkpoint found at a row has the chain and the state of that row; no *)
(* checkpoint is beyond the last row.                                      *)
CheckpointsVerify(log, checkpoints) ==
  \A c \in checkpoints :
     /\ c.sequence <= Len(log)
     /\ c.chain = Prefix(log, c.sequence)
     /\ c.state = Replay(c.chain).ledger

(* _verify_auxiliary_locked *)
AuxiliaryVerifies(log, claims, adapters) ==
  /\ \A d \in Decisions :
       /\ claims[d].status # "committed" => claims[d].intent = None
       /\ claims[d].status = "committed" =>
            claims[d].intent \in CreatedIn(log) /\ Decision[claims[d].intent] = d
  /\ \A i \in Intents : adapters[i] # NoAdapter => i \in CreatedIn(log)

(* verify_integrity, of a store nobody writes to meanwhile. *)
Verifies(S) ==
  /\ Replay(S.log).ok
  /\ CheckpointsVerify(S.log, S.checkpoints)
  /\ AuxiliaryVerifies(S.log, S.claims, S.adapters)
=============================================================================
