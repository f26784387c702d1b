----------------------------- MODULE Resolution -----------------------------
(***************************************************************************)
(* Settlement from the source (resolution/worker.py, gamma.py, context.py, *)
(* runtime.py, monitor.py) and observed temperatures (observations.py,     *)
(* observation_cli.py), over one event store: several workers, a trader    *)
(* and an operator at once.                                                *)
(*                                                                         *)
(* Each worker step is one load or one transaction of the store, or one    *)
(* request to the source.  An event of a cycle happened when the cycle     *)
(* started; no two cycles start at the same time and a cycle never writes  *)
(* what an earlier one of its worker has written, so that the worker       *)
(* stands for the time (at |-> w).                                         *)
(***************************************************************************)
EXTENDS EventLog, Observations

CONSTANTS
  Workers,
  Context,       \* decision metadata of each intent: [identity, day, source or None]
  Identity,      \* condition, bucket and end date the source shows for each market
  Deposit,
  Operators,     \* how many run the observation CLI at once
  MaxFaults      \* bound: requests that fail and workers that die in a cycle

ASSUME ResolutionAssumption ==
  /\ DOMAIN Context = Intents /\ DOMAIN Identity = Markets /\ Deposit \in Nat
  /\ \A i \in Intents : IsBuy(i) /\ Context[i].source \in Sources \cup {None}

VARIABLES
  store,
  source,        \* external: what Gamma shows of each market
  observations,  \* weather_observations of the ledger
  checked,       \* evidence the operator's CLI has validated and not appended yet
  pc, work,      \* of each worker
  faults

vars == <<store, source, observations, checked, pc, work, faults>>

Phases == {"open", "disputed", "closed", "final"}
Prices == PayoutVectors \cup {None}   \* None: they are not those of a payout
Idle == [positions |-> {}, resolutions |-> [m \in Markets |-> None],
         todo |-> {}, market |-> None, context |-> None, answer |-> None]

InitialStore == Appended(EmptyStore, <<Opened(Deposit, 0)>>)
Start ==
  /\ checked = {} /\ faults = 0
  /\ pc = [w \in Workers |-> "idle"] /\ work = [w \in Workers |-> Idle]

Init ==
  /\ store = InitialStore
  /\ source \in [Markets -> {[phase |-> "open", prices |-> None, declared |-> s] : s \in Sources}]
  /\ observations = [m \in Markets |-> <<>>] /\ Start

-----------------------------------------------------------------------------
(* External: Gamma and UMA.  A closed market shows the prices it last traded *)
(* at, which may look like a payout, until its payout is final; a dispute   *)
(* ends in another proposal.  Of a market that is open or disputed nobody   *)
(* reads the prices.  What it names as its resolution source may be edited  *)
(* while it is open.                                                        *)
Moves == {"open"} \X {"disputed", "closed"} \cup {"disputed"} \X {"open", "closed"}
           \cup {"closed"} \X {"disputed", "closed", "final"}
SourceMoves(m) ==
  /\ \E phase \in Phases, prices \in Prices :
       /\ <<source[m].phase, phase>> \in Moves
       /\ phase \in {"open", "disputed"} => prices = None
       /\ phase = "final" => prices \in PayoutVectors
       /\ source' = [source EXCEPT ![m] = [@ EXCEPT !.phase = phase, !.prices = prices]]
  /\ UNCHANGED <<store, observations, checked, pc, work, faults>>

SourceEdited(m) ==
  /\ source[m].phase = "open"
  /\ \E s \in Sources \ {source[m].declared} : source' = [source EXCEPT ![m].declared = s]
  /\ UNCHANGED <<store, observations, checked, pc, work, faults>>

(* Paper trading: an intent is committed with the metadata of its scan and  *)
(* filled.                                                                  *)
Bought(i) ==
  <<Created(i, 0), Moved("submitted", i, 0), Moved("acknowledged", i, 0),
    Filled(i, [id |-> 1, quantity |-> Terms[i].quantity, price |-> Terms[i].limit, fee |-> 0], 0)>>
BoughtIn(S, i) ==
  [Batch(S, Bought(i), TRUE).store EXCEPT !.claims[Decision[i]] =
     [status |-> "committed", owner |-> None, intent |-> i, metadata |-> Context[i]]]
Buy(i) ==
  /\ store.claims[Decision[i]] = NoClaim /\ Batch(store, Bought(i), TRUE).ok
  /\ store' = BoughtIn(store, i)
  /\ UNCHANGED <<source, observations, checked, pc, work, faults>>

-----------------------------------------------------------------------------
(* StoredDecisionContextProvider.context_for_market; None is an error. *)
ContextFor(m) ==
  LET filled == {i \in Intents : Terms[i].key[1] = m /\ store.ledger.orders[i].filled > 0}
      found == {store.claims[d].metadata : d \in {e \in Decisions : store.claims[e].intent \in filled}}
  IN IF Cardinality(found) = 1 THEN CHOOSE c \in found : TRUE ELSE None

Void(payout) == \A o \in DOMAIN payout : 2 * payout[o] = Unit

Matches(m, context) ==
  /\ context.identity = Identity[m]
  /\ context.source \in {None, source[m].declared}

(* What a payload says; its hash identifies it. *)
Answer(m) == [payout |-> source[m].prices, declared |-> source[m].declared]

(* GammaResolutionSource.poll: its answer, or None for every status that is *)
(* not terminal (pending, delayed, disputed, malformed).  A market that is  *)
(* closed and not disputed is taken at its prices when they look like a     *)
(* payout; whether the payout is final is not asked.                        *)
Poll(m, context) ==
  IF Matches(m, context) /\ source[m].phase \in {"closed", "final"} /\ source[m].prices # None
  THEN Answer(m) ELSE None

Goto(w, step) == pc' = [pc EXCEPT ![w] = step]

(* A market is done; after the last one the cycle has nothing left to read. *)
Leave(w, todo) ==
  IF todo = {} THEN Goto(w, "idle") /\ work' = [work EXCEPT ![w] = Idle]
  ELSE Goto(w, "reload") /\ work' = [work EXCEPT ![w].todo = todo]

(* run_once: the open positions and the resolutions of one load; without a  *)
(* position the cycle ends there.                                           *)
StartCycle(w) ==
  /\ pc[w] = "idle" /\ OpenKeys(store.ledger) # {} /\ Goto(w, "market")
  /\ work' = [work EXCEPT ![w] = [Idle EXCEPT
                !.positions = OpenKeys(store.ledger), !.resolutions = store.ledger.resolutions,
                !.todo = {k[1] : k \in OpenKeys(store.ledger)}]]
  /\ UNCHANGED <<store, source, observations, checked, faults>>

(* The next market.  One that is resolved only lacks settlements; the       *)
(* others need their context, read from the store of that moment.           *)
NextMarket(w) ==
  /\ pc[w] = "market"
  /\ \E m \in work[w].todo :
       LET left == work[w].todo \ {m}
           resolved == work[w].resolutions[m] # None IN
       \/ ~resolved /\ ContextFor(m) = None /\ Leave(w, left)
       \/ /\ resolved \/ ContextFor(m) # None
          /\ Goto(w, IF resolved THEN "settle" ELSE "poll")
          /\ work' = [work EXCEPT ![w].market = m, ![w].todo = left, ![w].context = ContextFor(m)]
  /\ UNCHANGED <<store, source, observations, checked, faults>>

Request(w) ==
  /\ pc[w] = "poll"
  /\ LET answer == Poll(work[w].market, work[w].context) IN
     IF answer = None THEN Leave(w, work[w].todo)
     ELSE Goto(w, "apply") /\ work' = [work EXCEPT ![w].answer = answer]
  /\ UNCHANGED <<store, source, observations, checked, faults>>

RequestFails(w) ==
  /\ pc[w] = "poll" /\ Leave(w, work[w].todo)
  /\ faults < MaxFaults /\ faults' = faults + 1
  /\ UNCHANGED <<store, source, observations, checked>>

(* The events.  The answer is part of their ids; a settlement from an       *)
(* earlier resolution has the resolution in its id.                         *)
EvidenceOf(m, a, w) == [Evidence(m, a.payout, w) EXCEPT !.id = <<"evidence", m, a>>]
ResolvedBy(m, a, w) == [Resolved(m, a.payout, w) EXCEPT !.id = <<"resolved", m, a>>]
SettledBy(k, basis, w) == [Settled(k, 0, w) EXCEPT !.id = <<"settled", k, basis>>]

(* Mutant: a market that is resolved needs nothing more. *)
NothingMore(w, basis) == <<>>

(* _settlement_events of the positions the cycle started with. *)
Settlements(w, basis) ==
  SetToSeq({SettledBy(k, basis, w) : k \in {j \in work[w].positions : j[1] = work[w].market}})

(* Mutant: the events that the ledger accepts are written without the others. *)
AppendSome(w, events) ==
  /\ store' = FoldLeft(LAMBDA S, e : IF CanAppend(S, <<e>>) THEN Appended(S, <<e>>) ELSE S, store, events)
  /\ Leave(w, work[w].todo) /\ UNCHANGED <<source, observations, checked, faults>>

(* What the ledger refuses, because another worker has written the evidence *)
(* or has settled a position, is reported as malformed; nothing of it is    *)
(* written, and the next cycle starts from what is there.                   *)
AppendMany(w, events) ==
  /\ store' = IF CanAppend(store, events) THEN Appended(store, events) ELSE store
  /\ Leave(w, work[w].todo) /\ UNCHANGED <<source, observations, checked, faults>>

SettleExisting(w) ==
  /\ pc[w] = "settle"
  /\ AppendMany(w, Settlements(w, <<"resolution", work[w].resolutions[work[w].market]>>))

ApplyTerminalPoll(w) ==
  LET m == work[w].market
      a == work[w].answer IN
  /\ pc[w] = "apply"
  /\ AppendMany(w, <<EvidenceOf(m, a, w), ResolvedBy(m, a, w)>> \o Settlements(w, <<"answer", a>>))

Reload(w) ==
  /\ pc[w] = "reload" /\ Goto(w, "market")
  /\ work' = [work EXCEPT ![w].resolutions = store.ledger.resolutions,
                          ![w].answer = None, ![w].context = None]
  /\ UNCHANGED <<store, source, observations, checked, faults>>

Crash(w) ==
  /\ pc[w] # "idle" /\ Goto(w, "idle") /\ work' = [work EXCEPT ![w] = Idle]
  /\ faults < MaxFaults /\ faults' = faults + 1
  /\ UNCHANGED <<store, source, observations, checked>>

-----------------------------------------------------------------------------
(* ObservationRecorder.record, called by the CLI: the context is checked    *)
(* first (not the station, which no decision names), then the event is      *)
(* appended in a transaction of its own.                                    *)
CheckObservation(m, e) ==
  /\ Cardinality(checked) < Operators /\ <<m, e>> \notin checked /\ ContextFor(m) # None
  /\ e.day = ContextFor(m).day /\ ContextFor(m).source \in {None, e.source}
  /\ checked' = checked \cup {<<m, e>>}
  /\ UNCHANGED <<store, source, observations, pc, work, faults>>

RecordObservation(m, e) ==
  /\ <<m, e>> \in checked /\ checked' = checked \ {<<m, e>>}
  /\ observations' =
       IF CanObserve(observations[m], e)
       THEN [observations EXCEPT ![m] = Observe(@, e)] ELSE observations
  /\ UNCHANGED <<store, source, pc, work, faults>>

(* eligible_learning_outcomes: the markets that may be learned from, with   *)
(* the payload that says what was observed, by the source that the recorded *)
(* evidence declares.                                                       *)
LearningOutcomes ==
  {<<m, LatestLearning(observations[m])[1].hash>> :
     m \in {n \in Markets :
              \E e \in Range(store.log) :
                 /\ e.kind = "evidence" /\ e.of = n /\ ~Void(e.data)
                 /\ LatestLearning(observations[n]) # <<>>
                 /\ LatestLearning(observations[n])[1].source = e.id[3].declared}}

-----------------------------------------------------------------------------
Continue(w) ==
  \/ NextMarket(w) \/ Request(w) \/ SettleExisting(w) \/ ApplyTerminalPoll(w) \/ Reload(w)

Next ==
  \/ \E m \in Markets : SourceMoves(m) \/ SourceEdited(m)
  \/ \E i \in Intents : Buy(i)
  \/ \E w \in Workers : StartCycle(w) \/ Continue(w) \/ RequestFails(w) \/ Crash(w)
  \/ \E m \in Markets, e \in EvidenceRecords : CheckObservation(m, e) \/ RecordObservation(m, e)

Spec == Init /\ [][Next]_vars

(* ResolutionMonitor.run_forever: a cycle is started again and again, and a *)
(* cycle that was started goes on until it ends or dies (each of its steps, *)
(* and no other, changes pc[w]).                                            *)
Fairness ==
  \A w \in Workers : /\ WF_vars(StartCycle(w))
                     /\ []<>(pc[w] = "idle") \/ []<><<pc'[w] # pc[w]>>_vars
FairSpec == Spec /\ Fairness

-----------------------------------------------------------------------------
(* docs/resolution-worker.md:18: "the resolver accepts only a final         *)
(* authoritative market payout".  A market that is closed and not disputed  *)
(* is accepted at any prices that look like one.                            *)
ResolutionsAreFinal ==
  \A m \in Markets :
     store.ledger.resolutions[m] # None =>
       source[m].phase = "final" /\ store.ledger.resolutions[m] = source[m].prices

(* A market is settled by one answer of its source, and wholly, whatever    *)
(* the source answered to other workers: its resolution is what the logged  *)
(* evidence says, which fits the metadata of a decision on this market, and *)
(* every settlement of a position in it is by that answer or from that      *)
(* resolution.  (What is learned and what was paid would differ otherwise.) *)
SettledByOneAnswer ==
  \A e \in Range(store.log) :
     e.kind \in {"resolved", "settled"} =>
       LET m == IF e.kind = "settled" THEN e.of[1] ELSE e.of IN
       \E v \in Range(store.log) :
          /\ v.kind = "evidence" /\ v.of = m /\ v.data = v.id[3].payout
          /\ store.ledger.resolutions[m] = v.data
          /\ \E i \in Intents : Terms[i].key[1] = m /\ Context[i].source \in {None, v.id[3].declared}
          /\ e.kind = "resolved" => e.id[3] = v.id[3]
          /\ e.kind = "settled" => e.id[3] \in {<<"answer", v.id[3]>>, <<"resolution", v.data>>}

(* The observation that is learned from is the head of the revisions: no    *)
(* other terminal payload supersedes it, and every one before it has been   *)
(* superseded, by exactly one.                                              *)
RevisionsAreAChain ==
  \A m \in Markets :
     LET terminal == Terminals(observations[m]) IN
     /\ Cardinality({e \in terminal : e.status = "final"}) = (IF terminal = {} THEN 0 ELSE 1)
     /\ \A e \in terminal :
          Cardinality({r \in terminal : r.supersedes = e.hash})
            = IF <<e>> = LatestLearning(observations[m]) THEN 0 ELSE 1

(* Once a market can be learned from it always can, from revisions of the   *)
(* same measurement: a later observation never takes it away.               *)
LearnableStays ==
  [][\A l \in LearningOutcomes : \E n \in LearningOutcomes' : n[1] = l[1]]_<<store, source, observations>>

(* A position of a market that is resolved, or whose final payout can be    *)
(* read, is settled, even if it was bought after the others were, if        *)
(* requests failed, if a worker died, or if what one worker writes makes    *)
(* the ledger refuse all that another one has prepared.                     *)
Settleable(k) ==
  /\ k \in OpenKeys(store.ledger)
  /\ \/ store.ledger.resolutions[k[1]] # None
     \/ source[k[1]].phase = "final" /\ ContextFor(k[1]) # None /\ Matches(k[1], ContextFor(k[1]))
PositionsSettle == \A k \in Keys : Settleable(k) ~> (k \notin OpenKeys(store.ledger))
=============================================================================
