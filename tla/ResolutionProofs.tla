-------------------------- MODULE ResolutionProofs --------------------------
(***************************************************************************)
(* What the resolution worker and the operator's observations promise, for *)
(* every set of workers, markets and payloads, whatever a source shows and *)
(* whatever is bought meanwhile: the observations of a market are one      *)
(* chain of revisions (RevisionsAreAChain), a market is settled by one     *)
(* answer of its source, and wholly (SettledByOneAnswer), and what can be  *)
(* learned from stays so (LearnableStays).                                 *)
(*                                                                         *)
(* The chain is an invariant of the recorded histories alone (Histories):  *)
(* they only grow, each terminal payload after the first revising the one  *)
(* before it.  One answer settles a market because of facts established in *)
(* different steps of a worker: its context when the market is loaded, its *)
(* answer when the source is asked, the resolution when the cycle starts.  *)
(* WorkSound carries them to the transaction, while other workers write;   *)
(* Backed says of every logged event which evidence it rests on, and holds *)
(* of every state that a transaction passes through, so that what is       *)
(* written of a batch and what is refused both leave it true.              *)
(***************************************************************************)
EXTENDS Resolution, DataFacts, SequenceTheorems

-----------------------------------------------------------------------------
(* The observations of one market.  Revisions(h) is what RevisionsAreAChain *)
(* says of history h, with sets for their sizes; a revision supersedes a    *)
(* terminal payload of the history, and no two entries have the same hash.  *)

Superseding(h, e) == {r \in Terminals(h) : r.supersedes = e.hash}

Revisions(h) ==
  /\ Terminals(h) # {} => \E f : {e \in Terminals(h) : e.status = "final"} = {f}
  /\ \A e \in Terminals(h) :
       IF e = Latest(h) THEN Superseding(h, e) = {} ELSE \E r : Superseding(h, e) = {r}

History(h) ==
  /\ IsSequence(h) /\ \A n \in DOMAIN h : h[n] \in EvidenceRecords
  /\ \A a, b \in DOMAIN h : h[a].hash = h[b].hash => a = b
  /\ TerminalHistory(h) # {} => Max(TerminalHistory(h)) \in TerminalHistory(h)
  /\ \A r \in Terminals(h) : r.supersedes = NoHash \/ \E p \in Terminals(h) : p.hash = r.supersedes
  /\ Revisions(h)

LEMMA EmptyHistory == History(<<>>)
<1>1. TerminalHistory(<<>>) = {} /\ Terminals(<<>>) = {}
  BY EmptySequence DEF TerminalHistory, Terminals
<1>2. QED
  BY <1>1, EmptySequence DEF History, Revisions

(* Appending: what is terminal, and what is the latest. *)
LEMMA AppendedHistory ==
  ASSUME NEW h, IsSequence(h), NEW e
  PROVE  LET g == Append(h, e) IN
         /\ LearningEligible(e) =>
              /\ Terminals(g) = Terminals(h) \cup {e} /\ TerminalHistory(g) # {}
              /\ Max(TerminalHistory(g)) \in TerminalHistory(g) /\ Latest(g) = e
         /\ ~LearningEligible(e) =>
              /\ Terminals(g) = Terminals(h) /\ TerminalHistory(g) = TerminalHistory(h)
              /\ Max(TerminalHistory(h)) \in TerminalHistory(h) => Latest(g) = Latest(h)
<1> DEFINE g == Append(h, e)
           k == Len(h) + 1
<1>1. /\ IsSequence(g) /\ DOMAIN g = DOMAIN h \cup {k} /\ g[k] = e
      /\ \A i \in DOMAIN h : g[i] = h[i]
  BY AppendElements
<1>2. Len(h) \in Nat /\ DOMAIN h = 1 .. Len(h)
  BY SequenceDomain
<1> HIDE DEF g
<1>3. CASE LearningEligible(e)
  <2>1. TerminalHistory(g) = TerminalHistory(h) \cup {k}
    BY <1>1, <1>3 DEF TerminalHistory
  <2>2. Terminals(g) = Terminals(h) \cup {e}
    BY <1>1, <2>1 DEF Terminals, TerminalHistory
  <2>3. Max(TerminalHistory(g)) = k
    <3>1. \A n \in TerminalHistory(g) : n \in Int /\ n <= k
      BY <1>2, <2>1 DEF TerminalHistory
    <3>2. k \in TerminalHistory(g)
      BY <2>1
    <3>3. QED
      BY <3>1, <3>2 DEF Max
  <2>4. QED
    BY <1>1, <1>3, <2>1, <2>2, <2>3 DEF Latest, g
<1>4. CASE ~LearningEligible(e)
  <2>1. TerminalHistory(g) = TerminalHistory(h)
    BY <1>1, <1>4 DEF TerminalHistory
  <2>2. Terminals(g) = Terminals(h)
    BY <1>1, <2>1 DEF Terminals, TerminalHistory
  <2>3. ASSUME Max(TerminalHistory(h)) \in TerminalHistory(h) PROVE Latest(g) = Latest(h)
    BY <1>1, <2>1, <2>3 DEF Latest, TerminalHistory
  <2>4. QED
    BY <1>4, <2>1, <2>2, <2>3 DEF g
<1>5. QED
  BY <1>3, <1>4 DEF g

LEMMA LatestIn ==
  ASSUME NEW h, History(h), TerminalHistory(h) # {}
  PROVE  Latest(h) \in Terminals(h)
BY DEF History, Latest, Terminals

LEMMA TerminalsIn ==
  ASSUME NEW h, History(h)
  PROVE  /\ Terminals(h) \subseteq EvidenceRecords
         /\ \A a, b \in Terminals(h) : a.hash = b.hash => a = b
         /\ Terminals(h) = {} => TerminalHistory(h) = {}
BY DEF History, Terminals, TerminalHistory

(* _apply_weather_observation keeps a history a history. *)
LEMMA ObserveHistory ==
  ASSUME NEW h, History(h), NEW e \in EvidenceRecords, CanObserve(h, e)
  PROVE  /\ History(Observe(h, e))
         /\ TerminalHistory(h) # {} =>
              /\ TerminalHistory(Observe(h, e)) # {}
              /\ SameIdentity(Latest(Observe(h, e)), Latest(h))
<1>1. CASE e \in Range(h)
  BY <1>1 DEF Observe, SameIdentity
<1>2. CASE e \notin Range(h)
  <2> DEFINE g == Append(h, e)
  <2>1. Observe(h, e) = g
    BY <1>2 DEF Observe
  <2>2. IsSequence(h) /\ \A n \in DOMAIN h : h[n] \in Range(h)
    BY DEF History, Range
  <2>3. /\ IsSequence(g) /\ DOMAIN g = DOMAIN h \cup {Len(h) + 1}
        /\ g[Len(h) + 1] = e /\ \A i \in DOMAIN h : g[i] = h[i]
    BY <2>2, AppendElements
  <2>4. /\ \A n \in DOMAIN h : h[n].hash # e.hash
        /\ CASE e.status = "provisional" -> TRUE
          [] e.status = "final" -> TerminalHistory(h) = {}
          [] e.status = "revised" -> RevisesLatest(h, e)
    BY <1>2, <2>2 DEF CanObserve
  <2>5. e.status \in Statuses /\ (e.status = "revised" <=> e.supersedes # NoHash) /\ e.supersedes # e.hash
        /\ e.hash \in Hashes
    BY DEF EvidenceRecords
  <2>6. /\ LearningEligible(e) =>
              /\ Terminals(g) = Terminals(h) \cup {e} /\ TerminalHistory(g) # {}
              /\ Max(TerminalHistory(g)) \in TerminalHistory(g) /\ Latest(g) = e
        /\ ~LearningEligible(e) =>
              /\ Terminals(g) = Terminals(h) /\ TerminalHistory(g) = TerminalHistory(h)
              /\ Max(TerminalHistory(h)) \in TerminalHistory(h) => Latest(g) = Latest(h)
    BY <2>2, AppendedHistory
  <2> HIDE DEF g
  <2>7. /\ \A n \in DOMAIN g : g[n] \in EvidenceRecords
        /\ \A a, b \in DOMAIN g : g[a].hash = g[b].hash => a = b
    BY <2>3, <2>4 DEF History
  <2>8. CASE e.status = "provisional"
    <3>1. ~LearningEligible(e)
      BY <2>8 DEF LearningEligible
    <3>2. TerminalHistory(h) = {} => Terminals(h) = {}
      BY DEF Terminals
    <3>3. TerminalHistory(h) # {} => Latest(g) = Latest(h)
      BY <2>6, <3>1 DEF History
    <3>4. Revisions(g)
      <4>1. Revisions(h)
        BY DEF History
      <4>2. Terminals(g) = Terminals(h) /\ \A x : Superseding(g, x) = Superseding(h, x)
        BY <2>6, <3>1 DEF Superseding
      <4> QED
        BY <3>2, <3>3, <4>1, <4>2 DEF Revisions
    <3> QED
      BY <2>1, <2>3, <2>6, <2>7, <3>1, <3>3, <3>4 DEF History, SameIdentity
  <2>9. CASE e.status = "final"
    <3>1. LearningEligible(e) /\ TerminalHistory(h) = {}
      BY <2>4, <2>9 DEF LearningEligible
    <3>2. Terminals(g) = {e} /\ Latest(g) = e
      BY <2>6, <3>1 DEF Terminals
    <3>3. e.supersedes = NoHash /\ e.supersedes # e.hash
      BY <2>5, <2>9
    <3>4. Superseding(g, e) = {}
      BY <3>2, <3>3 DEF Superseding
    <3>5. {x \in Terminals(g) : x.status = "final"} = {e}
      BY <2>9, <3>2
    <3>6. Revisions(g)
      BY <3>2, <3>4, <3>5 DEF Revisions
    <3>7. Max(TerminalHistory(g)) \in TerminalHistory(g)
      BY <2>6, <3>1
    <3>8. \A r \in Terminals(g) : r.supersedes = NoHash
      BY <3>2, <3>3
    <3> QED
      BY <2>1, <2>3, <2>7, <3>1, <3>6, <3>7, <3>8 DEF History
  <2>10. CASE e.status = "revised"
    <3>1. LearningEligible(e) /\ RevisesLatest(h, e)
      BY <2>4, <2>10 DEF LearningEligible
    <3>2. /\ TerminalHistory(h) # {} /\ Latest(h) \in Terminals(h)
          /\ e.supersedes = Latest(h).hash /\ SameIdentity(e, Latest(h))
      BY <3>1, LatestIn DEF RevisesLatest
    <3>3. Terminals(g) = Terminals(h) \cup {e} /\ Latest(g) = e /\ TerminalHistory(g) # {}
      BY <2>6, <3>1
    <3>4. \A x \in Terminals(h) : x.hash # e.hash
      BY <2>4 DEF Terminals, TerminalHistory
    <3>5. \A r \in Terminals(h) : r.supersedes # e.hash
      BY <2>5, <3>4, NoHashAssumption DEF History
    <3>6. Superseding(g, e) = {}
      BY <2>5, <3>3, <3>5 DEF Superseding
    <3>7. Superseding(h, Latest(h)) = {} /\ \E f : {x \in Terminals(h) : x.status = "final"} = {f}
      BY <3>2 DEF History, Revisions
    <3>8. Superseding(g, Latest(h)) = {e}
      BY <3>2, <3>3, <3>7 DEF Superseding
    <3>9. \A x \in Terminals(h) : x # Latest(h) => Superseding(g, x) = Superseding(h, x)
      <4>1. \A x \in Terminals(h) : x # Latest(h) => x.hash # e.supersedes
        BY <3>2, TerminalsIn
      <4> QED
        BY <3>3, <4>1 DEF Superseding
    <3>10. \A x \in Terminals(h) : x # Latest(h) => \E r : Superseding(h, x) = {r}
      BY DEF History, Revisions
    <3>11. {x \in Terminals(g) : x.status = "final"} = {x \in Terminals(h) : x.status = "final"}
      BY <2>10, <3>3
    <3>12. \A x \in Terminals(g) :
            IF x = Latest(g) THEN Superseding(g, x) = {} ELSE \E r : Superseding(g, x) = {r}
      <4> SUFFICES ASSUME NEW x \in Terminals(g)
                   PROVE  IF x = Latest(g) THEN Superseding(g, x) = {} ELSE \E r : Superseding(g, x) = {r}
        OBVIOUS
      <4>1. CASE x = e
        BY <3>3, <3>6, <4>1
      <4>2. CASE x # e /\ x = Latest(h)
        BY <3>3, <3>8, <4>2
      <4>3. CASE x # e /\ x # Latest(h)
        BY <3>3, <3>9, <3>10, <4>3
      <4> QED
        BY <4>1, <4>2, <4>3
    <3>13. Revisions(g)
      BY <3>7, <3>11, <3>12 DEF Revisions
    <3>14. \A r \in Terminals(g) : r.supersedes = NoHash \/ \E p \in Terminals(g) : p.hash = r.supersedes
      BY <3>2, <3>3 DEF History
    <3>15. Max(TerminalHistory(g)) \in TerminalHistory(g)
      BY <2>6, <3>1
    <3>16. History(g)
      BY <2>3, <2>7, <3>13, <3>14, <3>15 DEF History
    <3> QED
      BY <2>1, <3>2, <3>3, <3>16
  <2> QED
    BY <2>5, <2>8, <2>9, <2>10 DEF Statuses
<1> QED
  BY <1>1, <1>2

Histories == observations = [m \in Markets |-> observations[m]] /\ \A m \in Markets : History(observations[m])

LEMMA HistoriesInit == Init => Histories
BY EmptyHistory DEF Init, Histories

(* Of all the steps only RecordObservation writes the observations. *)
LEMMA OnlyRecorded ==
  ASSUME Next
  PROVE  \/ UNCHANGED observations
         \/ \E m \in Markets, e \in EvidenceRecords : RecordObservation(m, e)
<1>1. \A m \in Markets : SourceMoves(m) \/ SourceEdited(m) => UNCHANGED observations
  BY Zenon DEF SourceMoves, SourceEdited
<1>2. \A i \in Intents : Buy(i) => UNCHANGED observations
  BY Zenon DEF Buy
<1>3. ASSUME NEW w \in Workers PROVE SettleExisting(w) \/ ApplyTerminalPoll(w) => UNCHANGED observations
  BY Zenon DEF SettleExisting, ApplyTerminalPoll, AppendMany
<1>4. ASSUME NEW w \in Workers
      PROVE  StartCycle(w) \/ NextMarket(w) \/ Request(w) \/ Reload(w) \/ RequestFails(w) \/ Crash(w)
               => UNCHANGED observations
  BY Zenon DEF StartCycle, NextMarket, Request, Reload, RequestFails, Crash
<1>5. \A m \in Markets, e \in EvidenceRecords : CheckObservation(m, e) => UNCHANGED observations
  BY Zenon DEF CheckObservation
<1> QED
  BY <1>1, <1>2, <1>3, <1>4, <1>5 DEF Next, Continue

LEMMA HistoriesNext ==
  ASSUME Histories, [Next]_vars
  PROVE  Histories'
<1>1. CASE UNCHANGED observations
  BY <1>1 DEF Histories
<1>2. ASSUME NEW m \in Markets, NEW e \in EvidenceRecords, RecordObservation(m, e) PROVE Histories'
  <2>1. CASE CanObserve(observations[m], e)
    <3>1. History(Observe(observations[m], e))
      BY <2>1, ObserveHistory DEF Histories
    <3>2. observations' = [observations EXCEPT ![m] = Observe(observations[m], e)]
      BY <1>2, <2>1 DEF RecordObservation
    <3> QED
      BY <3>1, <3>2 DEF Histories
  <2>2. CASE ~CanObserve(observations[m], e)
    BY <1>2, <2>2 DEF RecordObservation, Histories
  <2> QED
    BY <2>1, <2>2
<1>3. CASE UNCHANGED vars
  BY <1>1, <1>3 DEF vars
<1> QED
  BY <1>1, <1>2, <1>3, OnlyRecorded

LEMMA ChainOfHistories == Histories => RevisionsAreAChain
<1> SUFFICES ASSUME Histories, NEW m \in Markets
             PROVE  LET terminal == Terminals(observations[m]) IN
                    /\ Cardinality({e \in terminal : e.status = "final"}) = (IF terminal = {} THEN 0 ELSE 1)
                    /\ \A e \in terminal :
                         Cardinality({r \in terminal : r.supersedes = e.hash})
                           = IF <<e>> = LatestLearning(observations[m]) THEN 0 ELSE 1
  BY DEF RevisionsAreAChain
<1> DEFINE h == observations[m]
           first == {e \in Terminals(h) : e.status = "final"}
<1>1. History(h)
  BY DEF Histories
<1> HIDE DEF h
<1>2. Cardinality({}) = 0 /\ \A x : Cardinality({x}) = 1
  BY FS_EmptySet, FS_Singleton
<1>3. Cardinality(first) = (IF Terminals(h) = {} THEN 0 ELSE 1)
  <2>1. CASE Terminals(h) = {}
    <3>1. first = {}
      BY <2>1
    <3> QED
      BY <1>2, <2>1, <3>1
  <2>2. CASE Terminals(h) # {}
    <3>1. \E f : first = {f}
      BY <1>1, <2>2 DEF History, Revisions
    <3> QED
      BY <1>2, <2>2, <3>1
  <2> QED
    BY <2>1, <2>2
<1>4. ASSUME NEW e \in Terminals(h)
      PROVE  Cardinality(Superseding(h, e)) = IF <<e>> = LatestLearning(h) THEN 0 ELSE 1
  <2>1. TerminalHistory(h) # {}
    BY DEF Terminals
  <2>2. <<e>> = LatestLearning(h) <=> e = Latest(h)
    BY <2>1 DEF LatestLearning
  <2>3. CASE e = Latest(h)
    BY <1>1, <1>2, <2>2, <2>3 DEF History, Revisions
  <2>4. CASE e # Latest(h)
    BY <1>1, <1>2, <2>2, <2>4 DEF History, Revisions
  <2> QED
    BY <2>3, <2>4
<1> QED
  BY <1>3, <1>4 DEF h, Superseding

(* The observation that is learned from is the head of the revisions: no    *)
(* other terminal payload supersedes it, and every one before it has been   *)
(* superseded, by exactly one.                                              *)
THEOREM RevisionsAreAChainHolds == Spec => []RevisionsAreAChain
<1>1. Spec => []Histories
  BY HistoriesInit, HistoriesNext, PTL DEF Spec
<1>2. Histories => RevisionsAreAChain
  BY ChainOfHistories
<1> QED
  BY <1>1, <1>2, PTL

-----------------------------------------------------------------------------
(* A market is settled by one answer of its source.                         *)
(*                                                                         *)
(* What the store says of its own events (Agrees) is about the store alone, *)
(* and holds of every state a transaction passes through.  What a worker    *)
(* has read stays true of the store because the store only grows: events    *)
(* are never removed, evidence and resolutions never change (Grows).        *)

(* A decision on market m does not contradict source s. *)
Decided(m, s) == \E i \in Intents : Terms[i].key[1] = m /\ Context[i].source \in {None, s}

EvidenceIn(S, m) == {v \in Range(S.log) : v.kind = "evidence" /\ v.of = m}
PaidBy(v) == {<<"answer", v.id[3]>>, <<"resolution", v.data>>}

Recorded(L) ==
  /\ {"evidence", "resolutions"} \subseteq DOMAIN L
  /\ L.evidence \in [Markets -> Prices] /\ L.resolutions \in [Markets -> Prices]
  /\ \A m \in Markets : L.resolutions[m] # None => L.resolutions[m] = L.evidence[m]

SaysEvidence(e) ==
  /\ e.of \in Markets /\ e.data \in PayoutVectors
  /\ e.data = e.id[3].payout /\ Decided(e.of, e.id[3].declared)

Backed(S, e) ==
  /\ e.kind = "evidence" => SaysEvidence(e) /\ S.ledger.evidence[e.of] = e.data
  /\ e.kind = "resolved" =>
       /\ e.of \in Markets /\ S.ledger.resolutions[e.of] # None
       /\ \E v \in EvidenceIn(S, e.of) : e.id[3] = v.id[3]
  /\ e.kind = "settled" =>
       /\ e.of[1] \in Markets /\ S.ledger.resolutions[e.of[1]] # None
       /\ \E v \in EvidenceIn(S, e.of[1]) : e.id[3] \in PaidBy(v)

Logged(S) ==
  /\ IsSequence(S.log) /\ \A e \in Range(S.log) : Backed(S, e)
  /\ \A m \in Markets : S.ledger.evidence[m] # None => EvidenceIn(S, m) # {}

Agrees(S) ==
  /\ {"log", "ledger", "claims"} \subseteq DOMAIN S
  /\ Recorded(S.ledger) /\ Logged(S)
  /\ S.claims = [d \in Decisions |-> S.claims[d]]
  /\ \A d \in Decisions :
       S.claims[d].intent \in Intents => S.claims[d].metadata = Context[S.claims[d].intent]

Grows(S, T) ==
  /\ Range(S.log) \subseteq Range(T.log)
  /\ \A m \in Markets :
       /\ S.ledger.evidence[m] # None => T.ledger.evidence[m] = S.ledger.evidence[m]
       /\ S.ledger.resolutions[m] # None => T.ledger.resolutions[m] = S.ledger.resolutions[m]

WorkTypes ==
  [positions: SUBSET Keys, resolutions: [Markets -> Prices], todo: SUBSET Markets,
   market: Markets \cup {None}, context: {Context[i] : i \in Intents} \cup {None},
   answer: [payout: PayoutVectors, declared: Sources] \cup {None}]

WorkSound(w) ==
  /\ \A m \in Markets :
       work[w].resolutions[m] # None => store.ledger.resolutions[m] = work[w].resolutions[m]
  /\ pc[w] = "poll" =>
       /\ work[w].market \in Markets
       /\ \E i \in Intents : Terms[i].key[1] = work[w].market /\ work[w].context = Context[i]
  /\ pc[w] = "apply" =>
       /\ work[w].market \in Markets /\ work[w].answer.payout \in PayoutVectors
       /\ Decided(work[w].market, work[w].answer.declared)
  /\ pc[w] = "settle" => work[w].market \in Markets /\ work[w].resolutions[work[w].market] # None

IInv ==
  /\ source \in [Markets -> [phase: Phases, prices: Prices, declared: Sources]]
  /\ work \in [Workers -> WorkTypes] /\ pc = [w \in Workers |-> pc[w]]
  /\ Agrees(store)
  /\ \A w \in Workers : WorkSound(w)

LEMMA GrowsFurther ==
  ASSUME NEW S, NEW T, NEW U, Grows(S, T), Grows(T, U)
  PROVE  Grows(S, U)
BY DEF Grows

LEMMA GrowsItself == \A S : Grows(S, S)
BY DEF Grows

-----------------------------------------------------------------------------
(* Only evidence and resolutions change what the ledger says of a market.  *)

Same(M, L) ==
  /\ {"evidence", "resolutions"} \subseteq DOMAIN M
  /\ M.evidence = L.evidence /\ M.resolutions = L.resolutions

LEMMA SameByReducer ==
  ASSUME NEW L, {"evidence", "resolutions"} \subseteq DOMAIN L,
         NEW e, e.kind \notin {"evidence", "resolved"}
  PROVE  Same(Reduced(L, e), L)
<1>1. \A i : \A M : Same(M, L) => Same(Release(M, i), L)
  BY DEF Same, Release
<1>2. \A i, t : \A M : Same(M, L) => Same(Move(M, i, t), L)
  BY DEF Same, Move
<1>3. Same(L, L)
  BY DEF Same
<1>4. \A i, f : Same(BuyFill(L, i, f), L) /\ Same(SellFill(L, i, f), L)
  BY DEF Same, BuyFill, SellFill
<1>5. \A i, f : Same(Booked(L, i, f), L)
  BY <1>4 DEF Booked, Same
<1>6. \A i, f : Same(Fill(L, i, f), L)
  BY <1>1, <1>5 DEF Fill
<1>7. \A i : Same(Create(L, i), L)
  BY DEF Create, Same
<1>8. \A a : Same(Open(L, a), L)
  BY DEF Open, Same
<1>9. \A k, fee : Same(Settle(L, k, fee), L)
  BY DEF Settle, Same
<1>10. \A i, t : Same(Terminate(L, i, t), L) /\ Same(Move(L, i, t), L)
  BY <1>1, <1>2, <1>3 DEF Terminate
<1>11. CASE e.kind = "opened"
  BY <1>8, <1>11 DEF Reduced
<1>12. CASE e.kind = "created"
  BY <1>7, <1>12 DEF Reduced
<1>13. CASE e.kind \in {"submitted", "acknowledged", "unknown", "rejected", "cancelled"}
  BY <1>10, <1>13 DEF Reduced
<1>14. CASE e.kind = "fill"
  BY <1>6, <1>14 DEF Reduced
<1>15. CASE e.kind = "settled"
  BY <1>9, <1>15 DEF Reduced
<1>16. CASE e.kind \notin {"opened", "created", "submitted", "acknowledged", "unknown",
                           "rejected", "cancelled", "fill", "settled"}
  BY <1>3, <1>16 DEF Reduced
<1> QED
  BY <1>11, <1>12, <1>13, <1>14, <1>15, <1>16

(* An event that the log bears out. *)
Fits(S, e) ==
  /\ e.kind = "evidence" => SaysEvidence(e)
  /\ e.kind = "resolved" =>
       e.of \in Markets /\ \E v \in EvidenceIn(S, e.of) : e.id[3] = v.id[3] /\ e.data = v.data
  /\ e.kind = "settled" =>
       e.of[1] \in Markets /\ \E v \in EvidenceIn(S, e.of[1]) : e.id[3] \in PaidBy(v)

(* What an event does to the evidence and the resolutions. *)
LEMMA RecordedByReducer ==
  ASSUME NEW S, Agrees(S), NEW e, Fits(S, e), CanApply(S.ledger, e)
  PROVE  LET L == S.ledger
             M == Reduced(L, e) IN
         /\ Recorded(M)
         /\ \A m \in Markets :
              /\ L.evidence[m] # None => M.evidence[m] = L.evidence[m]
              /\ L.resolutions[m] # None => M.resolutions[m] = L.resolutions[m]
              /\ M.evidence[m] # None => L.evidence[m] # None \/ (e.kind = "evidence" /\ e.of = m)
         /\ e.kind = "evidence" => M.evidence[e.of] = e.data
         /\ e.kind = "resolved" => M.resolutions[e.of] # None
         /\ e.kind = "settled" => M.resolutions[e.of[1]] # None
<1> DEFINE L == S.ledger
           M == Reduced(L, e)
<1>1. Recorded(L)
  BY DEF Agrees
<1>2. CASE e.kind \notin {"evidence", "resolved"}
  <2>1. Same(M, L)
    BY <1>1, <1>2, SameByReducer DEF Recorded
  <2>2. e.kind = "settled" => L.resolutions[e.of[1]] # None
    BY DEF CanApply, Reducible, CanSettle
  <2> HIDE DEF L, M
  <2> QED
    BY <1>1, <1>2, <2>1, <2>2 DEF Same, Recorded, L, M
<1>3. CASE e.kind = "evidence"
  <2>1. M = [L EXCEPT !.evidence[e.of] = e.data] /\ L.evidence[e.of] = None
    BY <1>3 DEF Reduced, RecordEvidence, CanApply, Reducible, CanRecordEvidence
  <2>2. e.of \in Markets /\ e.data \in PayoutVectors
    BY <1>3 DEF Fits, SaysEvidence
  <2> HIDE DEF L, M
  <2>3. /\ {"evidence", "resolutions"} \subseteq DOMAIN M
        /\ M.evidence = [L.evidence EXCEPT ![e.of] = e.data] /\ M.resolutions = L.resolutions
    BY <1>1, <2>1 DEF Recorded
  <2>4. M.evidence \in [Markets -> Prices] /\ M.evidence[e.of] = e.data
        /\ \A m \in Markets : m # e.of => M.evidence[m] = L.evidence[m]
    BY <1>1, <2>2, <2>3 DEF Recorded, Prices
  <2>5. L.resolutions[e.of] = None
    BY <1>1, <2>1, <2>2 DEF Recorded
  <2>6. Recorded(M)
    BY <1>1, <2>3, <2>4, <2>5 DEF Recorded
  <2> QED
    BY <1>3, <2>1, <2>3, <2>4, <2>6 DEF L, M
<1>4. CASE e.kind = "resolved"
  <2>1. M = [L EXCEPT !.resolutions[e.of] = e.data] /\ L.resolutions[e.of] = None
    BY <1>4 DEF Reduced, Resolve, CanApply, Reducible, CanResolve
  <2>2. e.of \in Markets /\ e.data = L.evidence[e.of] /\ e.data \in PayoutVectors
    <3>1. PICK v \in EvidenceIn(S, e.of) : e.data = v.data
      BY <1>4 DEF Fits
    <3>2. Backed(S, v) /\ v.kind = "evidence" /\ v.of = e.of
      BY <3>1 DEF EvidenceIn, Agrees, Logged
    <3> QED
      BY <1>4, <3>1, <3>2 DEF Fits, Backed, SaysEvidence
  <2> HIDE DEF L, M
  <2>3. /\ {"evidence", "resolutions"} \subseteq DOMAIN M
        /\ M.resolutions = [L.resolutions EXCEPT ![e.of] = e.data] /\ M.evidence = L.evidence
    BY <1>1, <2>1 DEF Recorded
  <2>4. M.resolutions \in [Markets -> Prices] /\ M.resolutions[e.of] = e.data
        /\ \A m \in Markets : m # e.of => M.resolutions[m] = L.resolutions[m]
    BY <1>1, <2>2, <2>3 DEF Recorded, Prices
  <2>5. Recorded(M)
    BY <1>1, <2>2, <2>3, <2>4 DEF Recorded
  <2>6. e.data # None
    BY <2>2, NonePayoutAssumption
  <2> QED
    BY <1>4, <2>1, <2>3, <2>4, <2>5, <2>6 DEF L, M
<1> QED
  BY <1>2, <1>3, <1>4

LEMMA InsertAgrees ==
  ASSUME NEW S, Agrees(S), NEW e, Fits(S, e), NEW intents, Accepts(S, e, intents)
  PROVE  Agrees(Insert(S, e)) /\ Grows(S, Insert(S, e)) /\ e \in Range(Insert(S, e).log)
<1>1. CASE e \in Range(S.log)
  BY <1>1, GrowsItself DEF Insert
<1>2. CASE e \notin Range(S.log)
  <2> DEFINE L == S.ledger
             M == Reduced(L, e)
             g == Append(S.log, e)
             T == [S EXCEPT !.log = g, !.ledger = M]
  <2>1. Insert(S, e) = T
    BY <1>2 DEF Insert
  <2>2. /\ {"log", "ledger", "claims"} \subseteq DOMAIN S /\ Logged(S)
        /\ S.claims = [d \in Decisions |-> S.claims[d]]
        /\ \A d \in Decisions :
             S.claims[d].intent \in Intents => S.claims[d].metadata = Context[S.claims[d].intent]
    BY DEF Agrees
  <2>3. /\ Recorded(M)
        /\ \A m \in Markets :
             /\ L.evidence[m] # None => M.evidence[m] = L.evidence[m]
             /\ L.resolutions[m] # None => M.resolutions[m] = L.resolutions[m]
             /\ M.evidence[m] # None => L.evidence[m] # None \/ (e.kind = "evidence" /\ e.of = m)
        /\ e.kind = "evidence" => M.evidence[e.of] = e.data
        /\ e.kind = "resolved" => M.resolutions[e.of] # None
        /\ e.kind = "settled" => M.resolutions[e.of[1]] # None
    <3>1. CanApply(L, e)
      BY <1>2 DEF Accepts
    <3> HIDE DEF M
    <3> QED
      BY <3>1, RecordedByReducer DEF M
  <2>4. IsSequence(g) /\ Range(g) = Range(S.log) \cup {e}
    <3>1. /\ IsSequence(g) /\ DOMAIN g = DOMAIN S.log \cup {Len(S.log) + 1}
          /\ g[Len(S.log) + 1] = e /\ \A i \in DOMAIN S.log : g[i] = S.log[i]
      BY <2>2, AppendElements DEF Logged
    <3> HIDE DEF g
    <3> QED
      BY <3>1 DEF Range
  <2> HIDE DEF L, M, g
  <2>5. T.log = g /\ T.ledger = M /\ T.claims = S.claims /\ DOMAIN T = DOMAIN S
    BY <2>2
  <2> HIDE DEF T
  <2>6. \A m : EvidenceIn(S, m) \subseteq EvidenceIn(T, m) /\ (e.kind = "evidence" /\ e.of = m => e \in EvidenceIn(T, m))
    BY <2>4, <2>5 DEF EvidenceIn
  <2>7. Backed(T, e)
    BY <2>3, <2>5, <2>6 DEF Fits, Backed
  <2>8. ASSUME NEW x \in Range(S.log) PROVE Backed(T, x)
    <3>1. Backed(S, x)
      BY <2>2 DEF Logged
    <3>2. x.kind = "evidence" => SaysEvidence(x) /\ M.evidence[x.of] = x.data
      BY <2>3, <3>1, NonePayoutAssumption DEF Backed, SaysEvidence, L
    <3>3. x.kind = "resolved" => /\ x.of \in Markets /\ M.resolutions[x.of] # None
                                 /\ \E v \in EvidenceIn(T, x.of) : x.id[3] = v.id[3]
      BY <2>3, <2>6, <3>1 DEF Backed, L
    <3>4. x.kind = "settled" => /\ x.of[1] \in Markets /\ M.resolutions[x.of[1]] # None
                                /\ \E v \in EvidenceIn(T, x.of[1]) : x.id[3] \in PaidBy(v)
      BY <2>3, <2>6, <3>1 DEF Backed, L
    <3> QED
      BY <2>5, <3>2, <3>3, <3>4 DEF Backed
  <2>9. \A m \in Markets : M.evidence[m] # None => EvidenceIn(T, m) # {}
    BY <2>2, <2>3, <2>6 DEF Logged, L
  <2>10. Agrees(T)
    BY <2>2, <2>3, <2>4, <2>5, <2>7, <2>8, <2>9 DEF Agrees, Logged
  <2>11. Grows(S, T) /\ e \in Range(T.log)
    BY <2>3, <2>4, <2>5 DEF Grows, L
  <2> QED
    BY <2>1, <2>10, <2>11
<1> QED
  BY <1>1, <1>2

-----------------------------------------------------------------------------
(* A batch, event by event *)

First(S) == [ok |-> TRUE, store |-> S]

IsBatch(f, S, events, intents, N) ==
  f = [n \in 0 .. N |-> IF n = 0 THEN First(S) ELSE AppendRow(S, f[n - 1], events[n], intents)]

LEMMA BatchRows ==
  ASSUME NEW f, NEW S, NEW events, NEW intents, NEW N \in Nat, IsBatch(f, S, events, intents, N)
  PROVE  /\ f[0] = First(S)
         /\ \A n \in Nat : n < N => f[n + 1] = AppendRow(S, f[n], events[n + 1], intents)
<1>1. f[0] = First(S)
  BY DEF IsBatch
<1>2. ASSUME NEW n \in Nat, n < N PROVE f[n + 1] = AppendRow(S, f[n], events[n + 1], intents)
  <2> DEFINE m == n + 1
  <2>1. m \in 0 .. N /\ m # 0 /\ m - 1 = n
    BY <1>2
  <2> HIDE DEF m
  <2>2. f[m] = AppendRow(S, f[m - 1], events[m], intents)
    BY <2>1 DEF IsBatch
  <2> QED
    BY <2>1, <2>2 DEF m
<1> QED
  BY <1>1, <1>2

LEMMA BatchExists ==
  ASSUME NEW S, NEW events, NEW intents, NEW N \in Nat
  PROVE  \E f : IsBatch(f, S, events, intents, N)
<1> DEFINE Row(r, n) == AppendRow(S, r, events[n], intents)
           A == {n \in Nat : \E f : IsBatch(f, S, events, intents, n)}
<1>1. 0 \in A
  <2> DEFINE f == [n \in 0 .. 0 |-> First(S)]
  <2>1. IsBatch(f, S, events, intents, 0)
    BY DEF IsBatch
  <2> QED
    BY <2>1
<1>2. ASSUME NEW n \in Nat, n \in A PROVE n + 1 \in A
  <2>1. PICK f : IsBatch(f, S, events, intents, n)
    BY <1>2
  <2> DEFINE g == [k \in 0 .. (n + 1) |-> IF k = n + 1 THEN Row(f[n], n + 1) ELSE f[k]]
  <2> HIDE DEF Row
  <2>2. \A k \in 0 .. n : g[k] = f[k]
    OBVIOUS
  <2>3. ASSUME NEW k \in 0 .. (n + 1)
        PROVE  g[k] = IF k = 0 THEN First(S) ELSE Row(g[k - 1], k)
    <3>1. CASE k = n + 1
      <4>1. k # 0 /\ k - 1 = n /\ g[n] = f[n]
        BY <3>1
      <4>2. g[k] = Row(f[n], k)
        BY <3>1
      <4> QED
        BY <4>1, <4>2
    <3>2. CASE k = 0
      BY <2>1, <3>2 DEF IsBatch
    <3>3. CASE k # 0 /\ k # n + 1
      <4>1. k \in 0 .. n /\ k - 1 \in 0 .. n
        BY <3>3
      <4>2. g[k] = f[k] /\ g[k - 1] = f[k - 1]
        BY <2>2, <4>1
      <4> HIDE DEF g
      <4>3. f[k] = Row(f[k - 1], k)
        BY <2>1, <3>3, <4>1 DEF IsBatch, Row
      <4> QED
        BY <3>3, <4>2, <4>3
    <3> QED
      BY <3>1, <3>2, <3>3
  <2>4. IsBatch(g, S, events, intents, n + 1)
    <3>1. g = [k \in 0 .. (n + 1) |-> g[k]]
      OBVIOUS
    <3> HIDE DEF g
    <3> QED
      BY <2>3, <3>1 DEF IsBatch, Row
  <2> QED
    BY <2>4
<1> HIDE DEF A
<1>3. N \in A
  BY <1>1, <1>2, InductionOnNaturals
<1> QED
  BY <1>3 DEF A

LEMMA BatchEquation ==
  ASSUME NEW S, NEW events, IsSequence(events), NEW intents
  PROVE  IsBatch(BatchStates(S, events, intents), S, events, intents, Len(events))
<1>1. Len(events) \in Nat
  BY SequenceDomain
<1>2. \E f : IsBatch(f, S, events, intents, Len(events))
  BY <1>1, BatchExists
<1>3. BatchStates(S, events, intents) = CHOOSE f : IsBatch(f, S, events, intents, Len(events))
  BY DEF BatchStates, IsBatch, First
<1> QED
  BY <1>2, <1>3

(* Batches of the workers and the trader: evidence comes first, the         *)
(* resolution that repeats it right after it, and a settlement is by        *)
(* evidence that is there or comes first.                                   *)
Reports(S, events) ==
  \A n \in DOMAIN events :
     LET e == events[n] IN
     /\ e.kind = "evidence" => n = 1 /\ SaysEvidence(e)
     /\ e.kind = "resolved" =>
          /\ n = 2 /\ events[1].kind = "evidence" /\ events[1].of = e.of /\ e.of \in Markets
          /\ e.id[3] = events[1].id[3] /\ e.data = events[1].data
     /\ e.kind = "settled" =>
          /\ e.of[1] \in Markets
          /\ \/ \E v \in EvidenceIn(S, e.of[1]) : e.id[3] \in PaidBy(v)
             \/ /\ n > 1 /\ events[1].kind = "evidence" /\ events[1].of = e.of[1]
                /\ e.id[3] \in PaidBy(events[1])

LEMMA BatchAgrees ==
  ASSUME NEW S, Agrees(S), NEW events, IsSequence(events), Reports(S, events), NEW intents
  PROVE  Agrees(Batch(S, events, intents).store) /\ Grows(S, Batch(S, events, intents).store)
<1> DEFINE N == Len(events)
           f == BatchStates(S, events, intents)
           Good(n) == /\ Agrees(f[n].store) /\ Grows(S, f[n].store)
                      /\ f[n].ok /\ n > 0 => events[1] \in Range(f[n].store.log)
           A == {n \in Nat : n <= N => Good(n)}
<1>1. N \in Nat /\ DOMAIN events = 1 .. N
  BY SequenceDomain
<1>2. /\ f[0] = First(S)
      /\ \A n \in Nat : n < N => f[n + 1] = AppendRow(S, f[n], events[n + 1], intents)
  <2>1. IsBatch(f, S, events, intents, N)
    BY BatchEquation
  <2> QED
    BY <1>1, <2>1, BatchRows
<1> HIDE DEF N, f
<1>3. 0 \in A
  BY <1>2, GrowsItself DEF First
<1>4. ASSUME NEW n \in Nat, n \in A PROVE n + 1 \in A
  <2> SUFFICES ASSUME n + 1 <= N PROVE Good(n + 1)
    OBVIOUS
  <2> DEFINE T == f[n].store
             e == events[n + 1]
  <2>1. n < N /\ n <= N /\ n + 1 \in DOMAIN events /\ n + 1 > 0
    BY <1>1
  <2>2. f[n + 1] = AppendRow(S, f[n], e, intents)
    BY <1>2, <2>1
  <2>3. Good(n)
    BY <1>4, <2>1
  <2>4. CASE f[n].ok /\ Accepts(T, e, intents)
    <3>1. f[n + 1] = [ok |-> TRUE, store |-> Insert(T, e)]
      BY <2>2, <2>4 DEF AppendRow
    <3>2. /\ e.kind = "evidence" => n + 1 = 1 /\ SaysEvidence(e)
          /\ e.kind = "resolved" =>
               /\ n + 1 = 2 /\ events[1].kind = "evidence" /\ events[1].of = e.of /\ e.of \in Markets
               /\ e.id[3] = events[1].id[3] /\ e.data = events[1].data
          /\ e.kind = "settled" =>
               /\ e.of[1] \in Markets
               /\ \/ \E v \in EvidenceIn(S, e.of[1]) : e.id[3] \in PaidBy(v)
                  \/ /\ n + 1 > 1 /\ events[1].kind = "evidence" /\ events[1].of = e.of[1]
                     /\ e.id[3] \in PaidBy(events[1])
      BY <2>1 DEF Reports
    <3>3. \A m : EvidenceIn(S, m) \subseteq EvidenceIn(T, m)
      BY <2>3 DEF Grows, EvidenceIn
    <3>4. n > 0 /\ events[1].kind = "evidence" => events[1] \in EvidenceIn(T, events[1].of)
      BY <2>3, <2>4 DEF EvidenceIn
    <3>5. (n + 1 = 2 => n > 0) /\ (n + 1 > 1 => n > 0)
      OBVIOUS
    <3> HIDE DEF T, e
    <3>6. Fits(T, e)
      BY <3>2, <3>3, <3>4, <3>5 DEF Fits
    <3>7. Agrees(Insert(T, e)) /\ Grows(T, Insert(T, e)) /\ e \in Range(Insert(T, e).log)
      BY <2>3, <2>4, <3>6, InsertAgrees DEF T
    <3>8. Grows(S, Insert(T, e))
      BY <2>3, <3>7, GrowsFurther DEF T
    <3>9. events[1] \in Range(Insert(T, e).log)
      <4>1. CASE n = 0
        BY <3>7, <4>1 DEF e
      <4>2. CASE n > 0
        BY <2>3, <2>4, <3>7, <4>2 DEF Grows, T
      <4> QED
        BY <4>1, <4>2
    <3> QED
      BY <3>1, <3>7, <3>8, <3>9
  <2>5. CASE ~(f[n].ok /\ Accepts(T, e, intents))
    <3>1. f[n + 1] = [ok |-> FALSE, store |-> S]
      BY <2>2, <2>5 DEF AppendRow
    <3> QED
      BY <3>1, GrowsItself
  <2> QED
    BY <2>4, <2>5
<1>5. N \in A
  <2> HIDE DEF A
  <2> QED
    BY <1>1, <1>3, <1>4, InductionOnNaturals
<1> QED
  BY <1>1, <1>5 DEF Batch, f, N

-----------------------------------------------------------------------------
(* The events of a step *)

LEMMA NothingReported ==
  ASSUME NEW S, NEW U, \A e \in U : e.kind \notin {"evidence", "resolved", "settled"}, NEW events \in Seq(U)
  PROVE  IsSequence(events) /\ Reports(S, events)
<1>1. IsSequence(events) /\ \A n \in DOMAIN events : events[n] \in U
  BY OwnElements
<1> QED
  BY <1>1 DEF Reports

LEMMA BoughtReports ==
  ASSUME NEW S, NEW i
  PROVE  IsSequence(Bought(i)) /\ Reports(S, Bought(i))
<1> DEFINE f == [id |-> 1, quantity |-> Terms[i].quantity, price |-> Terms[i].limit, fee |-> 0]
           U == {Created(i, 0), Moved("submitted", i, 0), Moved("acknowledged", i, 0), Filled(i, f, 0)}
<1>1. Bought(i) \in Seq(U)
  BY DEF Bought
<1>2. \A e \in U : e.kind \notin {"evidence", "resolved", "settled"}
  BY DEF Created, Moved, Filled
<1> HIDE DEF U
<1> QED
  BY <1>1, <1>2, NothingReported

(* Settlements of market m by one basis. *)
SettlementsOf(w, m, basis) == {SettledBy(k, basis, w) : k \in {j \in Keys : j[1] = m}}

LEMMA SettlementOf ==
  ASSUME NEW w, NEW m, NEW basis, NEW e \in SettlementsOf(w, m, basis)
  PROVE  e.kind = "settled" /\ e.of[1] = m /\ e.id[3] = basis
<1>1. PICK k \in {j \in Keys : j[1] = m} : e = SettledBy(k, basis, w)
  BY DEF SettlementsOf
<1>2. e = [Settled(k, 0, w) EXCEPT !.id = <<"settled", k, basis>>]
  BY <1>1 DEF SettledBy
<1> QED
  BY <1>1, <1>2 DEF Settled

LEMMA SettlementEvents ==
  ASSUME IInv, NEW w \in Workers, NEW basis
  PROVE  Settlements(w, basis) \in Seq(SettlementsOf(w, work[w].market, basis))
<1> DEFINE P == {j \in work[w].positions : j[1] = work[w].market}
           T == {SettledBy(k, basis, w) : k \in P}
           f == [k \in P |-> SettledBy(k, basis, w)]
<1>1. P \in SUBSET Keys
  BY DEF IInv, WorkTypes
<1>2. IsFiniteSet(P)
  BY <1>1, FiniteAssumption, FS_Subset
<1>3. f \in Surjection(P, T)
  BY DEF Surjection
<1>4. IsFiniteSet(T)
  <2> HIDE DEF f, P, T
  <2> QED
    BY <1>2, <1>3, FS_Surjection
<1>5. SetToSeq(T) \in Seq(T)
  BY <1>4, SetSequence
<1>6. T \subseteq SettlementsOf(w, work[w].market, basis)
  BY <1>1 DEF SettlementsOf
<1>7. Settlements(w, basis) = SetToSeq(T)
  BY DEF Settlements
<1> HIDE DEF T
<1> QED
  BY <1>5, <1>6, <1>7

(* What is settled from an earlier resolution is settled by its evidence. *)
LEMMA SettlementsReport ==
  ASSUME IInv, NEW w \in Workers, pc[w] = "settle"
  PROVE  LET events == Settlements(w, <<"resolution", work[w].resolutions[work[w].market]>>) IN
         IsSequence(events) /\ Reports(store, events)
<1> DEFINE m == work[w].market
           basis == <<"resolution", work[w].resolutions[m]>>
           s == Settlements(w, basis)
<1>1. /\ m \in Markets /\ store.ledger.resolutions[m] # None
      /\ work[w].resolutions[m] = store.ledger.resolutions[m]
  BY DEF IInv, WorkSound
<1>2. PICK v \in EvidenceIn(store, m) : v.data = work[w].resolutions[m]
  <2>1. store.ledger.resolutions[m] = store.ledger.evidence[m]
    BY <1>1 DEF IInv, Agrees, Recorded
  <2>2. PICK v : v \in EvidenceIn(store, m)
    BY <1>1, <2>1 DEF IInv, Agrees, Logged
  <2>3. v.kind = "evidence" /\ v.of = m /\ Backed(store, v)
    BY <2>2 DEF EvidenceIn, IInv, Agrees, Logged
  <2> QED
    BY <1>1, <2>1, <2>2, <2>3 DEF Backed
<1>3. basis \in PaidBy(v)
  BY <1>2 DEF PaidBy
<1>4. s \in Seq(SettlementsOf(w, m, basis))
  BY SettlementEvents
<1> HIDE DEF m, basis, s
<1>5. IsSequence(s) /\ \A n \in DOMAIN s : s[n] \in SettlementsOf(w, m, basis)
  BY <1>4, OwnElements
<1>6. Reports(store, s)
  BY <1>1, <1>2, <1>3, <1>5, SettlementOf DEF Reports
<1> QED
  BY <1>5, <1>6 DEF m, basis, s

(* An answer is recorded, made the resolution and paid out in one batch. *)
LEMMA PollReports ==
  ASSUME IInv, NEW w \in Workers, pc[w] = "apply"
  PROVE  LET m == work[w].market
             a == work[w].answer
             events == <<EvidenceOf(m, a, w), ResolvedBy(m, a, w)>> \o Settlements(w, <<"answer", a>>)
         IN  IsSequence(events) /\ Reports(store, events)
<1> DEFINE m == work[w].market
           a == work[w].answer
           x == EvidenceOf(m, a, w)
           y == ResolvedBy(m, a, w)
           U == SettlementsOf(w, m, <<"answer", a>>)
           V == U \cup {x, y}
           s == Settlements(w, <<"answer", a>>)
           t == <<x, y>>
           events == t \o s
<1>1. s \in Seq(U) /\ s \in Seq(V)
  <2>1. s \in Seq(U)
    BY SettlementEvents
  <2> HIDE DEF U, s
  <2> QED
    BY <2>1
<1>2. t \in Seq(V) /\ Len(t) = 2 /\ t[1] = x /\ t[2] = y
  OBVIOUS
<1>3. /\ x.kind = "evidence" /\ x.of = m /\ x.data = a.payout /\ x.id[3] = a
      /\ y.kind = "resolved" /\ y.of = m /\ y.data = a.payout /\ y.id[3] = a
  BY DEF EvidenceOf, ResolvedBy, Evidence, Resolved
<1>4. m \in Markets /\ SaysEvidence(x)
  BY <1>3 DEF IInv, WorkSound, SaysEvidence
<1>5. \A e \in U : e.kind = "settled" /\ e.of[1] = m /\ e.id[3] \in PaidBy(x)
  BY <1>3, SettlementOf DEF PaidBy
<1> HIDE DEF m, a, x, y, U, V, s, t
<1>7. /\ events \in Seq(V) /\ Len(events) = 2 + Len(s)
      /\ events[1] = x /\ events[2] = y
      /\ \A n \in 1 .. Len(events) : n > 2 => events[n] = s[n - 2] /\ n - 2 \in 1 .. Len(s)
  <2>1. Len(s) \in Nat
    BY <1>1
  <2>2. /\ events \in Seq(V) /\ Len(events) = Len(t) + Len(s)
        /\ \A n \in 1 .. Len(t) + Len(s) : events[n] = IF n <= Len(t) THEN t[n] ELSE s[n - Len(t)]
    BY <1>1, <1>2, ConcatProperties, Zenon DEF events
  <2> HIDE DEF events
  <2> QED
    BY <1>2, <2>1, <2>2
<1> HIDE DEF events
<1>8. \A n \in DOMAIN events : n = 1 \/ n = 2 \/ (n > 1 /\ events[n] \in U)
  <2>1. DOMAIN events = 1 .. Len(events) /\ Len(s) \in Nat
    BY <1>1, <1>7
  <2>2. \A n \in 1 .. Len(s) : s[n] \in U
    BY <1>1
  <2> QED
    BY <1>7, <2>1, <2>2
<1>9. Reports(store, events)
  BY <1>3, <1>4, <1>5, <1>7, <1>8 DEF Reports
<1>10. IsSequence(events)
  BY <1>7, OwnElements
<1> QED
  BY <1>9, <1>10 DEF events, t, x, y, s, m, a

-----------------------------------------------------------------------------
(* The initial states *)

LEMMA EmptyAgrees == Agrees(EmptyStore)
<1>1. /\ {"evidence", "resolutions"} \subseteq DOMAIN Empty
      /\ Empty.evidence = [m \in Markets |-> None] /\ Empty.resolutions = [m \in Markets |-> None]
  BY DEF Empty
<1>2. Recorded(Empty)
  BY <1>1 DEF Recorded, Prices
<1>3. /\ {"log", "ledger", "claims"} \subseteq DOMAIN EmptyStore
      /\ EmptyStore.log = <<>> /\ EmptyStore.ledger = Empty
      /\ EmptyStore.claims = [d \in Decisions |-> NoClaim]
  BY DEF EmptyStore
<1>4. NoClaim.intent = None
  BY DEF NoClaim
<1>5. Logged(EmptyStore)
  BY <1>1, <1>3, EmptySequence DEF Logged, Range
<1> QED
  BY <1>2, <1>3, <1>4, <1>5, NoneIntentAssumption DEF Agrees

LEMMA InitialAgrees == Agrees(InitialStore)
<1> DEFINE a == Opened(Deposit, 0)
<1>1. a.kind = "opened"
  BY DEF Opened
<1> HIDE DEF a
<1>2. IsSequence(<<a>>) /\ Reports(EmptyStore, <<a>>)
  <2>1. <<a>> \in Seq({a})
    OBVIOUS
  <2> QED
    BY <1>1, <2>1, NothingReported
<1>3. Agrees(Batch(EmptyStore, <<a>>, FALSE).store)
  BY <1>2, EmptyAgrees, BatchAgrees
<1> QED
  BY <1>3 DEF InitialStore, Appended, a

LEMMA IdleTyped == Idle \in WorkTypes /\ \A m \in Markets : Idle.resolutions[m] = None
BY DEF Idle, WorkTypes, Prices

LEMMA InitInv == Init => IInv
<1> SUFFICES ASSUME Init PROVE IInv
  OBVIOUS
<1>1. source \in [Markets -> [phase: Phases, prices: Prices, declared: Sources]]
  BY DEF Init, Phases, Prices
<1>2. Agrees(store)
  BY InitialAgrees DEF Init
<1> QED
  BY <1>1, <1>2, IdleTyped DEF Init, Start, IInv, WorkSound

-----------------------------------------------------------------------------
(* What every step leaves: what the worker that took it now holds is sound, *)
(* and what the others hold stays so because the store only grows.          *)

WorkersSound ==
  /\ work \in [Workers -> WorkTypes] /\ pc = [w \in Workers |-> pc[w]]
  /\ \A w \in Workers : WorkSound(w)

LEMMA SoundStays ==
  ASSUME IInv, Grows(store, store'), NEW w \in Workers, pc'[w] = pc[w], work'[w] = work[w]
  PROVE  WorkSound(w)'
BY DEF IInv, WorkSound, Grows

(* Worker w is now at a step and has r to work on. *)
LEMMA StepSound ==
  ASSUME IInv, Grows(store, store'), NEW w \in Workers, NEW step, NEW r \in WorkTypes,
         pc' = [pc EXCEPT ![w] = step], work' = [work EXCEPT ![w] = r], WorkSound(w)'
  PROVE  WorkersSound'
<1>1. work \in [Workers -> WorkTypes] /\ pc = [v \in Workers |-> pc[v]]
  BY DEF IInv
<1>2. /\ work' \in [Workers -> WorkTypes] /\ pc' = [v \in Workers |-> pc'[v]]
      /\ \A v \in Workers : v # w => pc'[v] = pc[v] /\ work'[v] = work[v]
  BY <1>1
<1>3. \A v \in Workers : WorkSound(v)'
  BY <1>2, SoundStays
<1> QED
  BY <1>2, <1>3 DEF WorkersSound

LEMMA AtStep ==
  ASSUME IInv, NEW w \in Workers, NEW step, NEW r, pc' = [pc EXCEPT ![w] = step], work' = [work EXCEPT ![w] = r]
  PROVE  pc'[w] = step /\ work'[w] = r
BY DEF IInv

(* What a worker has read of the resolutions, in its work of the next state. *)
LEMMA ReadStays ==
  ASSUME IInv, Grows(store, store'), NEW w \in Workers, NEW m \in Markets, work[w].resolutions[m] # None
  PROVE  store'.ledger.resolutions[m] = work[w].resolutions[m]
BY DEF IInv, WorkSound, Grows

LEMMA LeaveSound ==
  ASSUME IInv, Grows(store, store'), NEW w \in Workers, NEW todo \in SUBSET Markets, Leave(w, todo)
  PROVE  WorkersSound'
<1> DEFINE r == IF todo = {} THEN Idle ELSE [work[w] EXCEPT !.todo = todo]
           step == IF todo = {} THEN "idle" ELSE "reload"
<1>1. work[w] \in WorkTypes
  BY DEF IInv
<1>2. r \in WorkTypes /\ (r.resolutions = work[w].resolutions \/ \A m \in Markets : r.resolutions[m] = None)
  BY <1>1, IdleTyped DEF WorkTypes
<1>3. work' = [work EXCEPT ![w] = r] /\ pc' = [pc EXCEPT ![w] = step]
  BY DEF Leave, Goto
<1>4. step \notin {"poll", "apply", "settle"}
  OBVIOUS
<1> HIDE DEF r, step
<1>5. pc'[w] = step /\ work'[w] = r
  BY <1>3, AtStep
<1>6. \A m \in Markets : r.resolutions[m] # None => store'.ledger.resolutions[m] = r.resolutions[m]
  BY <1>2, ReadStays
<1>7. WorkSound(w)'
  BY <1>4, <1>5, <1>6 DEF WorkSound
<1> QED
  BY <1>2, <1>3, <1>7, StepSound

LEMMA AppendInv ==
  ASSUME IInv, NEW w \in Workers, NEW events, IsSequence(events), Reports(store, events), AppendMany(w, events)
  PROVE  IInv' /\ Grows(store, store')
<1>1. UNCHANGED source /\ Leave(w, work[w].todo) /\ work[w].todo \in SUBSET Markets
  BY DEF AppendMany, IInv, WorkTypes
<1>2. Agrees(store') /\ Grows(store, store')
  <2>1. CASE CanAppend(store, events)
    <3>1. store' = Batch(store, events, FALSE).store
      BY <2>1 DEF AppendMany, Appended
    <3> QED
      BY <3>1, BatchAgrees DEF IInv
  <2>2. CASE ~CanAppend(store, events)
    BY <2>2, GrowsItself DEF AppendMany, IInv
  <2> QED
    BY <2>1, <2>2
<1>3. WorkersSound'
  BY <1>1, <1>2, LeaveSound
<1> QED
  BY <1>1, <1>2, <1>3 DEF IInv, WorkersSound

LEMMA BuyInv ==
  ASSUME IInv, NEW i \in Intents, Buy(i)
  PROVE  IInv' /\ Grows(store, store')
<1> DEFINE T == Batch(store, Bought(i), TRUE).store
           d == Decision[i]
           c == [status |-> "committed", owner |-> None, intent |-> i, metadata |-> Context[i]]
<1>1. Agrees(T) /\ Grows(store, T)
  BY BoughtReports, BatchAgrees DEF IInv
<1>2. store' = [T EXCEPT !.claims[d] = c] /\ UNCHANGED <<source, pc, work>>
  BY DEF Buy, BoughtIn
<1>3. d \in Decisions
  BY DecisionAssumption
<1>4. c.intent = i /\ c.metadata = Context[i]
  OBVIOUS
<1> HIDE DEF T, c, d
<1>5. /\ {"log", "ledger", "claims"} \subseteq DOMAIN store'
      /\ store'.log = T.log /\ store'.ledger = T.ledger
      /\ store'.claims = [T.claims EXCEPT ![d] = c]
  BY <1>1, <1>2 DEF Agrees
<1>6. /\ store'.claims = [e \in Decisions |-> store'.claims[e]]
      /\ \A e \in Decisions : store'.claims[e] = IF e = d THEN c ELSE T.claims[e]
  <2>1. T.claims = [e \in Decisions |-> T.claims[e]]
    BY <1>1 DEF Agrees
  <2> QED
    BY <1>3, <1>5, <2>1
<1>7. \A e \in Decisions :
        store'.claims[e].intent \in Intents => store'.claims[e].metadata = Context[store'.claims[e].intent]
  BY <1>1, <1>4, <1>6 DEF Agrees
<1>8. Recorded(store'.ledger) /\ Logged(store')
  BY <1>1, <1>5 DEF Agrees, Logged, EvidenceIn, Backed
<1>9. Agrees(store')
  BY <1>5, <1>6, <1>7, <1>8 DEF Agrees
<1>10. Grows(store, store')
  BY <1>1, <1>5 DEF Grows
<1>11. \A w \in Workers : WorkSound(w)'
  BY <1>2, <1>10, SoundStays
<1> QED
  BY <1>2, <1>9, <1>10, <1>11 DEF IInv

-----------------------------------------------------------------------------
(* The steps of a worker that only read the store *)

(* Only one decision, and what it was about, makes a context. *)
LEMMA ContextIsOfDecision ==
  ASSUME IInv, NEW m \in Markets, ContextFor(m) # None
  PROVE  \E i \in Intents : Terms[i].key[1] = m /\ ContextFor(m) = Context[i]
<1> DEFINE filled == {i \in Intents : Terms[i].key[1] = m /\ store.ledger.orders[i].filled > 0}
           found == {store.claims[d].metadata : d \in {e \in Decisions : store.claims[e].intent \in filled}}
<1>1. Cardinality(found) = 1 /\ ContextFor(m) = CHOOSE c \in found : TRUE
  BY DEF ContextFor
<1>2. found # {}
  <2> HIDE DEF found
  <2> QED
    BY <1>1, FS_EmptySet
<1>3. ContextFor(m) \in found
  BY <1>1, <1>2
<1>4. PICK d \in Decisions : store.claims[d].intent \in filled /\ ContextFor(m) = store.claims[d].metadata
  BY <1>3
<1> QED
  BY <1>4 DEF IInv, Agrees

LEMMA StartSound ==
  ASSUME IInv, Grows(store, store'), NEW w \in Workers, StartCycle(w)
  PROVE  WorkersSound'
<1> DEFINE r == [Idle EXCEPT !.positions = OpenKeys(store.ledger), !.resolutions = store.ledger.resolutions,
                             !.todo = {k[1] : k \in OpenKeys(store.ledger)}]
<1>1. r \in WorkTypes /\ r.resolutions = store.ledger.resolutions
  <2>1. OpenKeys(store.ledger) \subseteq Keys /\ {k[1] : k \in OpenKeys(store.ledger)} \subseteq Markets
    BY DEF OpenKeys, Keys
  <2>2. store.ledger.resolutions \in [Markets -> Prices]
    BY DEF IInv, Agrees, Recorded
  <2> QED
    BY <2>1, <2>2, IdleTyped DEF WorkTypes, Idle
<1>2. work' = [work EXCEPT ![w] = r] /\ pc' = [pc EXCEPT ![w] = "market"]
  BY DEF StartCycle, Goto
<1> HIDE DEF r
<1>3. pc'[w] = "market" /\ work'[w] = r
  BY <1>2, AtStep
<1>4. \A m \in Markets : r.resolutions[m] # None => store'.ledger.resolutions[m] = r.resolutions[m]
  BY <1>1 DEF Grows
<1>5. WorkSound(w)'
  BY <1>3, <1>4 DEF WorkSound
<1> QED
  BY <1>1, <1>2, <1>5, StepSound

LEMMA MarketSound ==
  ASSUME IInv, Grows(store, store'), NEW w \in Workers, NextMarket(w)
  PROVE  WorkersSound'
<1>1. work[w] \in WorkTypes /\ work[w].todo \in SUBSET Markets
  BY DEF IInv, WorkTypes
<1>2. PICK m \in work[w].todo :
        LET left == work[w].todo \ {m}
            resolved == work[w].resolutions[m] # None IN
        \/ ~resolved /\ ContextFor(m) = None /\ Leave(w, left)
        \/ /\ resolved \/ ContextFor(m) # None
           /\ Goto(w, IF resolved THEN "settle" ELSE "poll")
           /\ work' = [work EXCEPT ![w].market = m, ![w].todo = left, ![w].context = ContextFor(m)]
  BY DEF NextMarket
<1> DEFINE left == work[w].todo \ {m}
           resolved == work[w].resolutions[m] # None
<1>3. m \in Markets /\ left \in SUBSET Markets
  BY <1>1
<1>4. CASE Leave(w, left)
  BY <1>3, <1>4, LeaveSound
<1>5. CASE /\ resolved \/ ContextFor(m) # None
           /\ Goto(w, IF resolved THEN "settle" ELSE "poll")
           /\ work' = [work EXCEPT ![w].market = m, ![w].todo = left, ![w].context = ContextFor(m)]
  <2> DEFINE step == IF resolved THEN "settle" ELSE "poll"
             c == ContextFor(m)
             r == [work[w] EXCEPT !.market = m, !.todo = left, !.context = c]
  <2>1. c = None \/ \E i \in Intents : Terms[i].key[1] = m /\ c = Context[i]
    BY <1>3, ContextIsOfDecision
  <2>2. /\ step = "poll" => c # None
        /\ step = "settle" => work[w].resolutions[m] # None
        /\ step # "apply"
    BY <1>5
  <2>3. pc' = [pc EXCEPT ![w] = step]
    BY <1>5 DEF Goto
  <2>4. work' = [work EXCEPT ![w] = r]
    BY <1>5, Zenon
  <2> HIDE DEF c, left, step
  <2>5. r \in WorkTypes /\ r.market = m /\ r.context = c /\ r.resolutions = work[w].resolutions
    BY <1>1, <1>3, <2>1 DEF WorkTypes
  <2> HIDE DEF r
  <2>6. pc'[w] = step /\ work'[w] = r
    BY <2>3, <2>4, AtStep
  <2>7. WorkSound(w)'
    BY <1>3, <2>1, <2>2, <2>5, <2>6, ReadStays DEF WorkSound
  <2> QED
    BY <2>3, <2>4, <2>5, <2>7, StepSound
<1> QED
  BY <1>2, <1>4, <1>5

(* An answer fits the context it was asked for. *)
LEMMA RequestSound ==
  ASSUME IInv, Grows(store, store'), NEW w \in Workers, Request(w)
  PROVE  WorkersSound'
<1> DEFINE m == work[w].market
           a == Poll(m, work[w].context)
<1>1. work[w] \in WorkTypes /\ work[w].todo \in SUBSET Markets
  BY DEF IInv, WorkTypes
<1>2. IF a = None THEN Leave(w, work[w].todo)
      ELSE Goto(w, "apply") /\ work' = [work EXCEPT ![w].answer = a]
  BY DEF Request
<1>3. CASE a = None
  BY <1>1, <1>2, <1>3, LeaveSound
<1>4. CASE a # None
  <2> DEFINE r == [work[w] EXCEPT !.answer = a]
  <2>1. m \in Markets /\ \E i \in Intents : Terms[i].key[1] = m /\ work[w].context = Context[i]
    BY DEF Request, IInv, WorkSound
  <2>2. /\ Matches(m, work[w].context) /\ source[m].prices # None
        /\ a = [payout |-> source[m].prices, declared |-> source[m].declared]
    BY <1>4 DEF Poll, Answer
  <2>3. source[m].prices \in PayoutVectors /\ source[m].declared \in Sources
    BY <2>1, <2>2 DEF IInv, Prices
  <2>4. a \in [payout: PayoutVectors, declared: Sources] /\ a.payout \in PayoutVectors
    BY <2>2, <2>3
  <2>5. Decided(m, a.declared)
    BY <2>1, <2>2 DEF Matches, Decided
  <2>6. pc' = [pc EXCEPT ![w] = "apply"] /\ work' = [work EXCEPT ![w] = r]
    BY <1>2, <1>4 DEF Goto
  <2> HIDE DEF a
  <2>7. r \in WorkTypes /\ r.market = m /\ r.answer = a /\ r.resolutions = work[w].resolutions
    BY <1>1, <2>4 DEF WorkTypes
  <2> HIDE DEF r, m
  <2>8. pc'[w] = "apply" /\ work'[w] = r
    BY <2>6, AtStep
  <2>9. WorkSound(w)'
    BY <2>1, <2>4, <2>5, <2>7, <2>8, ReadStays DEF WorkSound
  <2> QED
    BY <2>6, <2>7, <2>9, StepSound
<1> QED
  BY <1>3, <1>4

LEMMA ReloadSound ==
  ASSUME IInv, Grows(store, store'), NEW w \in Workers, Reload(w)
  PROVE  WorkersSound'
<1> DEFINE q == store.ledger.resolutions
           r == [work[w] EXCEPT !.resolutions = q, !.answer = None, !.context = None]
<1>1. work[w] \in WorkTypes /\ q \in [Markets -> Prices]
  BY DEF IInv, Agrees, Recorded
<1>2. work' = [work EXCEPT ![w] = r]
  BY Zenon DEF Reload
<1>3. pc' = [pc EXCEPT ![w] = "market"]
  BY DEF Reload, Goto
<1>4. \A m \in Markets : q[m] # None => store'.ledger.resolutions[m] = q[m]
  BY DEF Grows
<1> HIDE DEF q
<1>5. r \in WorkTypes /\ r.resolutions = q
  BY <1>1 DEF WorkTypes
<1> HIDE DEF r
<1>6. pc'[w] = "market" /\ work'[w] = r
  BY <1>2, <1>3, AtStep
<1>7. WorkSound(w)'
  BY <1>4, <1>5, <1>6 DEF WorkSound
<1> QED
  BY <1>2, <1>3, <1>5, <1>7, StepSound

LEMMA CrashSound ==
  ASSUME IInv, Grows(store, store'), NEW w \in Workers, Crash(w)
  PROVE  WorkersSound'
<1>1. work' = [work EXCEPT ![w] = Idle] /\ pc' = [pc EXCEPT ![w] = "idle"]
  BY DEF Crash, Goto
<1>2. WorkSound(w)'
  BY <1>1, AtStep, IdleTyped DEF WorkSound
<1> QED
  BY <1>1, <1>2, IdleTyped, StepSound

LEMMA FailsSound ==
  ASSUME IInv, Grows(store, store'), NEW w \in Workers, RequestFails(w)
  PROVE  WorkersSound'
<1>1. Leave(w, work[w].todo) /\ work[w].todo \in SUBSET Markets
  BY DEF RequestFails, IInv, WorkTypes
<1> QED
  BY <1>1, LeaveSound

LEMMA SourceTyped ==
  ASSUME IInv, NEW m \in Markets, SourceMoves(m) \/ SourceEdited(m)
  PROVE  source' \in [Markets -> [phase: Phases, prices: Prices, declared: Sources]]
<1>1. source \in [Markets -> [phase: Phases, prices: Prices, declared: Sources]]
  BY DEF IInv
<1>2. CASE SourceMoves(m)
  <2>1. PICK phase \in Phases, prices \in Prices :
          source' = [source EXCEPT ![m] = [@ EXCEPT !.phase = phase, !.prices = prices]]
    BY <1>2, Zenon DEF SourceMoves
  <2> DEFINE r == [source[m] EXCEPT !.phase = phase, !.prices = prices]
  <2>2. r \in [phase: Phases, prices: Prices, declared: Sources]
    BY <1>1
  <2>3. source' = [source EXCEPT ![m] = r]
    BY <2>1
  <2> HIDE DEF r
  <2> QED
    BY <1>1, <2>2, <2>3
<1>3. CASE SourceEdited(m)
  <2>1. PICK s \in Sources : source' = [source EXCEPT ![m].declared = s]
    BY <1>3 DEF SourceEdited
  <2> QED
    BY <1>1, <2>1
<1> QED
  BY <1>2, <1>3

LEMMA NextInv ==
  ASSUME IInv, [Next]_vars
  PROVE  IInv' /\ Grows(store, store')
<1>1. ASSUME UNCHANGED <<store, pc, work>>,
             source' \in [Markets -> [phase: Phases, prices: Prices, declared: Sources]]
      PROVE  IInv' /\ Grows(store, store')
  <2>1. Grows(store, store')
    BY <1>1, GrowsItself
  <2>2. \A w \in Workers : WorkSound(w)'
    BY <1>1, <2>1, SoundStays
  <2> QED
    BY <1>1, <2>1, <2>2 DEF IInv
<1>2. ASSUME NEW m \in Markets, SourceMoves(m) \/ SourceEdited(m) PROVE IInv' /\ Grows(store, store')
  <2>1. UNCHANGED <<store, pc, work>>
    BY <1>2, Zenon DEF SourceMoves, SourceEdited
  <2> QED
    BY <1>1, <1>2, <2>1, SourceTyped
<1>3. ASSUME NEW i \in Intents, Buy(i) PROVE IInv' /\ Grows(store, store')
  BY <1>3, BuyInv
<1>4. ASSUME NEW w \in Workers, StartCycle(w) \/ NextMarket(w) \/ Request(w) \/ Reload(w)
                                  \/ RequestFails(w) \/ Crash(w)
      PROVE  IInv' /\ Grows(store, store')
  <2>1. UNCHANGED <<store, source>>
    BY <1>4 DEF StartCycle, NextMarket, Request, Reload, RequestFails, Crash
  <2>2. Grows(store, store')
    BY <2>1, GrowsItself
  <2>3. WorkersSound'
    BY <1>4, <2>2, StartSound, MarketSound, RequestSound, ReloadSound, FailsSound, CrashSound
  <2> QED
    BY <2>1, <2>2, <2>3 DEF IInv, WorkersSound
<1>5. ASSUME NEW w \in Workers, SettleExisting(w) PROVE IInv' /\ Grows(store, store')
  <2> DEFINE events == Settlements(w, <<"resolution", work[w].resolutions[work[w].market]>>)
  <2>1. pc[w] = "settle" /\ AppendMany(w, events)
    BY <1>5 DEF SettleExisting
  <2>2. IsSequence(events) /\ Reports(store, events)
    BY <2>1, SettlementsReport
  <2> HIDE DEF events
  <2> QED
    BY <2>1, <2>2, AppendInv
<1>6. ASSUME NEW w \in Workers, ApplyTerminalPoll(w) PROVE IInv' /\ Grows(store, store')
  <2> DEFINE m == work[w].market
             a == work[w].answer
             events == <<EvidenceOf(m, a, w), ResolvedBy(m, a, w)>> \o Settlements(w, <<"answer", a>>)
  <2>1. pc[w] = "apply" /\ AppendMany(w, events)
    BY <1>6 DEF ApplyTerminalPoll
  <2>2. IsSequence(events) /\ Reports(store, events)
    BY <2>1, PollReports
  <2> HIDE DEF events
  <2> QED
    BY <2>1, <2>2, AppendInv
<1>7. ASSUME NEW m \in Markets, NEW e \in EvidenceRecords, CheckObservation(m, e) \/ RecordObservation(m, e)
      PROVE  IInv' /\ Grows(store, store')
  <2>1. UNCHANGED <<store, source, pc, work>>
    BY <1>7 DEF CheckObservation, RecordObservation
  <2> QED
    BY <1>1, <2>1 DEF IInv
<1>8. ASSUME UNCHANGED vars PROVE IInv' /\ Grows(store, store')
  BY <1>1, <1>8 DEF vars, IInv
<1> QED
  BY <1>2, <1>3, <1>4, <1>5, <1>6, <1>7, <1>8 DEF Next, Continue

LEMMA InvAlways == Spec => []IInv
<1>1. IInv /\ [Next]_vars => IInv'
  BY NextInv
<1> QED
  BY <1>1, InitInv, PTL DEF Spec

LEMMA OneAnswerOfInv == IInv => SettledByOneAnswer
<1> SUFFICES ASSUME IInv, NEW e \in Range(store.log), e.kind \in {"resolved", "settled"}
             PROVE  LET m == IF e.kind = "settled" THEN e.of[1] ELSE e.of IN
                    \E v \in Range(store.log) :
                       /\ v.kind = "evidence" /\ v.of = m /\ v.data = v.id[3].payout
                       /\ store.ledger.resolutions[m] = v.data
                       /\ \E i \in Intents : Terms[i].key[1] = m /\ Context[i].source \in {None, v.id[3].declared}
                       /\ e.kind = "resolved" => e.id[3] = v.id[3]
                       /\ e.kind = "settled" => e.id[3] \in {<<"answer", v.id[3]>>, <<"resolution", v.data>>}
  BY DEF SettledByOneAnswer
<1> DEFINE m == IF e.kind = "settled" THEN e.of[1] ELSE e.of
<1>1. Backed(store, e)
  BY DEF IInv, Agrees, Logged
<1>2. PICK v \in EvidenceIn(store, m) :
        /\ m \in Markets /\ store.ledger.resolutions[m] # None
        /\ e.kind = "resolved" => e.id[3] = v.id[3]
        /\ e.kind = "settled" => e.id[3] \in PaidBy(v)
  BY <1>1 DEF Backed
<1>3. v \in Range(store.log) /\ v.kind = "evidence" /\ v.of = m
  BY <1>2 DEF EvidenceIn
<1>4. SaysEvidence(v) /\ store.ledger.evidence[m] = v.data
  BY <1>3 DEF IInv, Agrees, Logged, Backed
<1>5. store.ledger.resolutions[m] = v.data
  BY <1>2, <1>4 DEF IInv, Agrees, Recorded
<1> HIDE DEF m
<1>6. \E i \in Intents : Terms[i].key[1] = m /\ Context[i].source \in {None, v.id[3].declared}
  BY <1>3, <1>4 DEF SaysEvidence, Decided
<1> QED
  BY <1>2, <1>3, <1>4, <1>5, <1>6 DEF PaidBy, SaysEvidence, m

(* A market is settled by one answer of its source, and wholly: whatever    *)
(* the source answers to other workers, in whatever order their batches     *)
(* reach the store, and wherever a worker dies.                             *)
THEOREM SettledByOneAnswerHolds == Spec => []SettledByOneAnswer
BY InvAlways, OneAnswerOfInv, PTL

-----------------------------------------------------------------------------
(* Learning *)

(* What the newest terminal observation of a market says of its source stays. *)
LEMMA LatestStays ==
  ASSUME Histories, Next, NEW m \in Markets, LatestLearning(observations[m]) # <<>>
  PROVE  /\ LatestLearning(observations'[m]) # <<>>
         /\ LatestLearning(observations'[m])[1].source = LatestLearning(observations[m])[1].source
<1> DEFINE h == observations[m]
           g == observations'[m]
<1>1. TerminalHistory(h) # {}
  BY DEF LatestLearning
<1>2. TerminalHistory(g) # {} /\ Latest(g).source = Latest(h).source
  <2>1. CASE UNCHANGED observations
    BY <1>1, <2>1
  <2>2. ASSUME NEW n \in Markets, NEW e \in EvidenceRecords, RecordObservation(n, e)
        PROVE  <1>2!:
    <3>1. CASE n = m /\ CanObserve(h, e)
      <4>1. History(h)
        BY DEF Histories
      <4>2. g = Observe(h, e)
        BY <2>2, <3>1 DEF RecordObservation, Histories
      <4> HIDE DEF h, g
      <4> QED
        BY <1>1, <3>1, <4>1, <4>2, ObserveHistory DEF SameIdentity
    <3>2. CASE ~(n = m /\ CanObserve(h, e))
      <4>1. g = h
        BY <2>2, <3>2 DEF RecordObservation, Histories
      <4> QED
        BY <1>1, <4>1
    <3> QED
      BY <3>1, <3>2
  <2> QED
    BY <2>1, <2>2, OnlyRecorded
<1> HIDE DEF h, g
<1>3. LatestLearning(g) = <<Latest(g)>> /\ LatestLearning(h) = <<Latest(h)>>
  BY <1>1, <1>2 DEF LatestLearning
<1>4. LatestLearning(g) # <<>> /\ LatestLearning(g)[1].source = LatestLearning(h)[1].source
  BY <1>2, <1>3
<1> QED
  BY <1>4 DEF g, h

(* Once a market can be learned from it always can: no step of a worker, of *)
(* the source or of another observation takes that away.                    *)
THEOREM LearnableStaysHolds == Spec => LearnableStays
<1>1. Spec => []Histories
  BY HistoriesInit, HistoriesNext, PTL DEF Spec
<1>2. IInv /\ Histories /\ [Next]_vars =>
        [\A l \in LearningOutcomes : \E n \in LearningOutcomes' : n[1] = l[1]]_<<store, source, observations>>
  <2> SUFFICES ASSUME IInv, Histories, Next, NEW l \in LearningOutcomes
               PROVE  \E n \in LearningOutcomes' : n[1] = l[1]
    BY DEF vars
  <2>1. PICK m \in Markets, e \in Range(store.log) :
          /\ l = <<m, LatestLearning(observations[m])[1].hash>>
          /\ e.kind = "evidence" /\ e.of = m /\ ~Void(e.data)
          /\ LatestLearning(observations[m]) # <<>>
          /\ LatestLearning(observations[m])[1].source = e.id[3].declared
    BY DEF LearningOutcomes
  <2>2. e \in Range(store'.log)
    BY NextInv DEF Grows
  <2>3. /\ LatestLearning(observations'[m]) # <<>>
        /\ LatestLearning(observations'[m])[1].source = e.id[3].declared
    BY <2>1, LatestStays
  <2>4. <<m, LatestLearning(observations'[m])[1].hash>> \in LearningOutcomes'
    BY <2>1, <2>2, <2>3 DEF LearningOutcomes
  <2> QED
    BY <2>1, <2>4
<1> QED
  BY InvAlways, <1>1, <1>2, PTL DEF Spec, LearnableStays
=============================================================================
