---------------------------- MODULE PaperTrading ----------------------------
(***************************************************************************)
(* Paper trading (paper/service.py, integration.py, the adapter of         *)
(* paper/execution.py) over the risk-checked event store (risk_store.py):  *)
(* processes that each recover the ledger, value and size an entry from a  *)
(* state they have read, commit it in a transaction that checks the risk   *)
(* again, and append the fills of its plan in another one.                 *)
(*                                                                         *)
(* EventStore shows that a transaction is one step and that a load sees a  *)
(* published content; here both are single steps.  A plan is a record      *)
(* [status, fill]; that a plan the code builds fits the order's            *)
(* reservation is the subject of PaperExecution.                           *)
(***************************************************************************)
EXTENDS PortfolioRisk

CONSTANTS
  Processes,
  Scopes,      \* the RiskScope of each position key
  Plans,       \* the plans a contemporaneous book may give each intent
  BidPrices,   \* what a unit of a position may be liquidated at
  Legacy,      \* intents that an earlier version left without a plan
  Deposit,     \* initial cash
  Payouts,     \* payout vectors the resolution worker may settle with
  MaxTime,     \* bound: ticks of the clock
  MaxCrashes   \* bound: processes that die

ASSUME PaperAssumption ==
  /\ Legacy \subseteq Intents /\ Deposit \in Nat /\ Payouts \subseteq PayoutVectors
  /\ Scopes \in [Keys -> [event: STRING, cityDate: STRING, groups: SUBSET STRING]]
  /\ \A i \in Intents : IsBuy(i)
  /\ \A i \in Intents \ Legacy : \A plan \in Plans[i] :
       /\ plan.status \in {"full_fill", "partial_fill", "rejected"}
       /\ plan.status = "full_fill" => plan.fill.quantity = Terms[i].quantity
       /\ plan.status = "partial_fill" => plan.fill.quantity < Terms[i].quantity
       /\ plan.status # "rejected" =>
            /\ plan.fill \in FillData
            /\ plan.fill.price <= Terms[i].limit /\ plan.fill.fee <= Terms[i].fee
            /\ Debit(plan.fill) <= CashReservation(i)

ASSUME NoneBackendAssumption == None # "paper"

VARIABLES
  store,   \* the published content of the event store
  now,     \* the clock
  pc,
  work,    \* what each process has read and decided
  crashes  \* counts the processes that died

vars == <<store, now, pc, work, crashes>>

Steps == {"cancel", "reconcile", "size", "commit", "submit"}
Idle == [decision |-> None, intent |-> None, plan |-> None, valuation |-> None,
         at |-> 0, pending |-> {}, then |-> "idle"]

(* initialize_paper_store, and the intents an earlier version committed. *)
InitialStore ==
  LET legacy == SetToSeq(Legacy)
      batch == <<Opened(Deposit, 0)>> \o [n \in 1 .. Len(legacy) |-> Created(legacy[n], 0)]
  IN [Batch(EmptyStore, batch, TRUE).store EXCEPT !.claims =
        [d \in Decisions |->
           IF \E i \in Legacy : Decision[i] = d
           THEN [status |-> "committed", owner |-> None, metadata |-> None,
                 intent |-> CHOOSE i \in Legacy : Decision[i] = d]
           ELSE NoClaim]]

Init ==
  /\ store = InitialStore /\ now = 0
  /\ pc = [p \in Processes |-> "idle"]
  /\ work = [p \in Processes |-> Idle] /\ crashes = 0

-----------------------------------------------------------------------------
(* events_for_plan *)
EventsForPlan(i, plan, t) ==
  IF plan.status = "rejected" THEN <<Moved("submitted", i, t), Moved("rejected", i, t)>>
  ELSE <<Moved("submitted", i, t), Moved("acknowledged", i, t), Filled(i, plan.fill, t)>>
       \o (IF plan.status = "full_fill" THEN <<>> ELSE <<Moved("cancelled", i, t)>>)

From(events, n) == SubSeq(events, n, Len(events))

(* Mutant: recovery leaves the orders that were not submitted to others. *)
ReconciledIfSubmitted(i, adapter, s) ==
  IF s = "created" THEN <<>>
  ELSE EventsForPlan(i, adapter.payload.plan, adapter.payload.at)

(* PaperExecutionAdapter.reconcile: the events an order in state s still lacks. *)
Reconciled(i, adapter, s) ==
  LET planned == EventsForPlan(i, adapter.payload.plan, adapter.payload.at) IN
  CASE s = "created" -> planned
    [] s = "submitted" -> From(planned, 2)
    [] s = "acknowledged" -> From(planned, 3)
    [] s = "partially_filled" ->
         IF adapter.payload.plan.status = "partial_fill" THEN From(planned, Len(planned)) ELSE <<>>
    [] s = "unknown" ->
         IF adapter.payload.plan.status = "rejected" THEN From(planned, Len(planned)) ELSE From(planned, 3)
    [] OTHER -> <<>>

(* build_paper_valuation: every open position of L at a bid price. *)
Valuation(L, bid, t) ==
  LET marks == [k \in OpenKeys(L) |->
                  [quantity |-> L.positions[k].quantity,
                   value |-> Value(bid, L.positions[k].quantity), at |-> t]]
  IN [marks |-> marks, at |-> t,
      equity |-> L.cash + MapThenSumSet(LAMBDA k : marks[k].value, DOMAIN marks)]

-----------------------------------------------------------------------------
Goto(p, step) == pc' = [pc EXCEPT ![p] = step]
(* The call returns, or an exception ends it. *)
Return(p) == Goto(p, "idle") /\ work' = [work EXCEPT ![p] = Idle]
Append1(events) == store' = Appended(store, events)

(* Mutant: an order with a plan is taken for one without. *)
ActionByState(i) ==
  IF store.ledger.orders[i].state = "created" THEN "resume_submission" ELSE "reconcile_backend"

(* SQLiteEventStore.recover.  An order that the load shows has the adapter  *)
(* row its own transaction wrote, so that reading the rows later makes no   *)
(* difference.                                                              *)
Action(i) ==
  IF store.ledger.orders[i].state = "created" /\ store.adapters[i] = NoAdapter
  THEN "resume_submission" ELSE "reconcile_backend"
PendingOrders(action) ==
  {[intent |-> i, state |-> store.ledger.orders[i].state] :
     i \in {j \in Intents : /\ store.ledger.orders[j].state \notin Terminal \cup {"none"}
                            /\ Action(j) = action}}

(* PaperTradingService.recover begins with that load. *)
Recover(p, call) ==
  /\ Goto(p, "cancel")
  /\ work' = [work EXCEPT ![p] =
       [call EXCEPT !.pending = PendingOrders("resume_submission"), !.at = now]]
  /\ UNCHANGED <<store, now>>

(* submit_scanner_candidate recovers first; recover_paper_runtime only that. *)
SubmitScannerCandidate(p, d) ==
  pc[p] = "idle" /\ Recover(p, [Idle EXCEPT !.decision = d, !.then = "check"])

RecoverPaperRuntime(p) == pc[p] = "idle" /\ Recover(p, Idle)

CancelLegacy(p) ==
  /\ pc[p] = "cancel"
  /\ \E r \in work[p].pending :
       LET cancelled == <<Moved("cancelled", r.intent, work[p].at)>> IN
       IF CanAppend(store, cancelled)
       THEN /\ Append1(cancelled)
            /\ work' = [work EXCEPT ![p].pending = @ \ {r}] /\ UNCHANGED pc
       ELSE Return(p) /\ UNCHANGED store
  /\ UNCHANGED now

(* reconcile_startup reads the orders again. *)
ReconcileStartup(p) ==
  /\ pc[p] = "cancel" /\ work[p].pending = {} /\ Goto(p, "reconcile")
  /\ work' = [work EXCEPT ![p].pending = PendingOrders("reconcile_backend")]
  /\ UNCHANGED <<store, now>>

Reconcile(p) ==
  /\ pc[p] = "reconcile"
  /\ \E r \in work[p].pending :
       LET adapter == store.adapters[r.intent] IN
       IF adapter # NoAdapter /\ CanAppend(store, Reconciled(r.intent, adapter, r.state))
       THEN /\ Append1(Reconciled(r.intent, adapter, r.state))
            /\ work' = [work EXCEPT ![p].pending = @ \ {r}] /\ UNCHANGED pc
       ELSE Return(p) /\ UNCHANGED store
  /\ UNCHANGED now

ReconcileDone(p) ==
  /\ pc[p] = "reconcile" /\ work[p].pending = {} /\ work[p].then = "idle"
  /\ Return(p) /\ UNCHANGED <<store, now>>

(* _durable_decision_result *)
CheckDecision(p) ==
  /\ pc[p] = "reconcile" /\ work[p].pending = {} /\ work[p].then = "check"
  /\ LET claim == store.claims[work[p].decision] IN
     \/ claim = NoClaim /\ Goto(p, "size") /\ UNCHANGED <<store, now, work>>
     \/ claim.status = "committed" /\ Recover(p, [work[p] EXCEPT !.then = "idle"])
     \/ claim.status = "completed" /\ Return(p) /\ UNCHANGED <<store, now>>

IntentsFor(p) == {i \in Intents \ Legacy : Decision[i] = work[p].decision}

(* submit_entry up to the commit: the size, the plan and the valuation come *)
(* from one load.  A rejected size returns.                                 *)
Size(p) ==
  /\ pc[p] = "size"
  /\ \/ \E i \in IntentsFor(p), bid \in BidPrices : \E plan \in Plans[i] :
          /\ CashReservation(i) <= AvailableCash(store.ledger)
          /\ Goto(p, "commit")
          /\ work' = [work EXCEPT ![p].intent = i, ![p].plan = plan, ![p].at = now,
                                  ![p].valuation = Valuation(store.ledger, bid, now)]
     \/ Return(p)
  /\ UNCHANGED <<store, now>>

(* commit_risk_checked_order_intent of a decision nobody has committed.     *)
Entry(p) ==
  LET i == work[p].intent  k == Terms[i].key  t == work[p].at IN
  (IF k \in DOMAIN ScopesIn(store.log) THEN <<>> ELSE <<ScopeRegistered(k, Scopes[k], t)>>)
  \o <<ValuationRecorded(work[p].decision, work[p].valuation, t), Created(i, t)>>

(* Mutant: the decision is taken on the state that was read before. *)
DecisionOnSizedState(p) ==
  LET i == work[p].intent IN
  IF CashReservation(i) > AvailableCash(store.ledger) THEN "total_exposure" ELSE "approved"

DecisionFor(p) ==
  LET i == work[p].intent IN
  RiskDecision(store.ledger, store.log, Terms[i].key, Scopes[Terms[i].key],
               CashReservation(i), work[p].valuation, work[p].at)

AdapterRows(p) ==
  [store.adapters EXCEPT ![work[p].intent] =
     [backend |-> "paper", payload |-> [plan |-> work[p].plan, at |-> work[p].at]]]

Claim(p, status, intent) ==
  [status |-> status, owner |-> p, intent |-> intent, metadata |-> None]

Undecided(p) == store.claims[work[p].decision] = NoClaim

(* An intent the ledger refuses rolls the transaction back. *)
CommitApproved(p) ==
  LET written == Batch(store, Entry(p), TRUE) IN
  /\ pc[p] = "commit" /\ Undecided(p) /\ DecisionFor(p) = "approved"
  /\ IF written.ok
     THEN /\ store' = [written.store EXCEPT
                         !.claims[work[p].decision] = Claim(p, "committed", work[p].intent),
                         !.adapters = AdapterRows(p)]
          /\ Goto(p, "submit") /\ UNCHANGED work
     ELSE Return(p) /\ UNCHANGED store
  /\ UNCHANGED now

(* A rejection completes the decision for good. *)
CommitRejected(p) ==
  /\ pc[p] = "commit" /\ Undecided(p)
  /\ LET decision == DecisionFor(p)
         valued == <<ValuationRecorded(work[p].decision, work[p].valuation, work[p].at)>>
         S == IF decision \in InvalidValuation THEN store ELSE Appended(store, valued)
     IN /\ decision # "approved"
        /\ store' = [S EXCEPT !.claims[work[p].decision] = Claim(p, "completed", None)]
  /\ Return(p) /\ UNCHANGED now

(* The decision was committed or completed meanwhile: the same intent with  *)
(* the same plan goes on, anything else raises or returns.                  *)
CommitRepeated(p) ==
  LET claim == store.claims[work[p].decision] IN
  /\ pc[p] = "commit" /\ claim # NoClaim
  /\ IF claim.intent = work[p].intent /\ store.adapters = AdapterRows(p)
     THEN Goto(p, "submit") /\ UNCHANGED work
     ELSE Return(p)
  /\ UNCHANGED <<store, now>>

(* adapter.submit, append_many *)
Submit(p) ==
  /\ pc[p] = "submit"
  /\ LET i == work[p].intent
         events == Reconciled(i, store.adapters[i], "created")
     IN IF CanAppend(store, events) THEN Append1(events) ELSE UNCHANGED store
  /\ Return(p) /\ UNCHANGED now

(* A process dies at any point of a call. *)
Crash(p) ==
  /\ pc[p] # "idle" /\ crashes < MaxCrashes /\ crashes' = crashes + 1
  /\ Return(p) /\ UNCHANGED <<store, now>>

(* The resolution worker settles the open positions of a market.            *)
ResolveMarket(m) ==
  /\ store.ledger.resolutions[m] = None
  /\ \E o \in Outcomes, payout \in Payouts :
       LET events == <<Evidence(m, payout, now), Resolved(m, payout, now), Settled(<<m, o>>, 0, now)>> IN
       CanAppend(store, events) /\ Append1(events)
  /\ UNCHANGED <<now, pc, work>>

Tick == now < MaxTime /\ now' = now + 1 /\ UNCHANGED <<store, pc, work>>

Continue(p) ==
  \/ CancelLegacy(p) \/ ReconcileStartup(p) \/ Reconcile(p) \/ ReconcileDone(p)
  \/ CheckDecision(p) \/ Size(p)
  \/ CommitApproved(p) \/ CommitRejected(p) \/ CommitRepeated(p)
  \/ Submit(p)

Start(p) == RecoverPaperRuntime(p) \/ \E d \in Decisions : SubmitScannerCandidate(p, d)

Environment == Tick \/ \E m \in Markets : ResolveMarket(m)

Next ==
  \/ \E p \in Processes : Crash(p)
  \/ /\ (\E p \in Processes : Start(p) \/ Continue(p)) \/ Environment
     /\ UNCHANGED crashes

(* A call that was begun goes on until it returns or its process dies (each *)
(* step of Continue(p), and no step of another process, changes pc[p] or    *)
(* work[p]), and the scanner is run again: every run recovers first.        *)
Progress(p) == pc'[p] # pc[p] \/ work'[p] # work[p]
Fairness ==
  \A p \in Processes :
     /\ []<>(pc[p] = "idle") \/ []<><<Progress(p)>>_vars
     /\ WF_vars(RecoverPaperRuntime(p) /\ UNCHANGED crashes)

Spec == Init /\ [][Next]_vars
FairSpec == Spec /\ Fairness

-----------------------------------------------------------------------------
(* What the ledger holds of an order is what its durable plan says, all of  *)
(* it in one piece or nothing, whoever wrote it: the process that committed *)
(* the intent, another that recovered it at the same time or after a crash, *)
(* or several of them.  An order without a plan can only be cancelled, once.*)
LifeOf(log, i) == {n \in DOMAIN log : log[n].of = i /\ log[n].kind \in LifeCycle \cup {"fill"}}
Follows(log, i, adapter) ==
  LET events == EventsForPlan(i, adapter.payload.plan, adapter.payload.at) IN
  \E n \in 0 .. Len(log) :
     /\ LifeOf(log, i) = (n + 1) .. (n + Len(events))
     /\ \A m \in 1 .. Len(events) : log[n + m] = events[m]
PlanFollowed ==
  \A i \in Intents :
     \/ LifeOf(store.log, i) = {}
     \/ store.adapters[i] # NoAdapter /\ Follows(store.log, i, store.adapters[i])
     \/ /\ store.adapters[i] = NoAdapter
        /\ \E n \in DOMAIN store.log :
             LifeOf(store.log, i) = {n} /\ store.log[n].id = <<"cancelled", i>>

(* The caps of the policy hold of the ledger itself, not only of the state  *)
(* some process read: two entries sized from the same state cannot both be  *)
(* committed past a cap, and no fill, fee or rounding takes an exposure     *)
(* past what was approved.                                                  *)
Exposed(keys) == Exposure(store.ledger, ExposedKeys(store.ledger) \cap keys)
ExposureCapped ==
  LET scopes == ScopesIn(store.log) IN
  /\ Exposed(Keys \ {Terms[i].key : i \in Legacy}) <= Policy.total
  /\ Cardinality(ExposedKeys(store.ledger)) <= Max({Policy.positions, Cardinality(Legacy)})
  /\ \A k \in Keys :
       /\ Exposed(OfEvent(scopes, Scopes[k].event)) <= Policy.event
       /\ Exposed(OfCityDate(scopes, Scopes[k].cityDate)) <= Policy.cityDate
       /\ \A g \in Scopes[k].groups : Exposed(OfGroup(scopes, g)) <= Policy.group

(* PaperTradingService.recover: "Finish durable paper plans".  The ledger    *)
(* accepts the rest of every durable plan of an order that is not closed.   *)
PlansCanFinish ==
  \A i \in Intents \ Legacy :
     store.ledger.orders[i].state \notin Terminal \cup {"none"} =>
       CanAppend(store, Reconciled(i, store.adapters[i], store.ledger.orders[i].state))

(* Whatever dies where, an order that was committed is closed in the end.   *)
OrdersClose ==
  \A i \in Intents : (i \in CreatedIn(store.log)) ~> (store.ledger.orders[i].state \in Terminal)
=============================================================================
