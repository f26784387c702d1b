----------------------------- MODULE Experiment -----------------------------
(***************************************************************************)
(* The PAPER experiment engine (paper/experiment.py).  A frozen list of    *)
(* cases is replayed in decision order on a temporary ledger; a case whose *)
(* entry was evaluated waits in `pending' until its settlement is due,     *)
(* that is, strictly before the next decision.                             *)
(*                                                                         *)
(* The evidence is chosen in Init and decides everything: a case has no    *)
(* entry when the economics are disabled, the public producer emits        *)
(* nothing or the execution book is missing; otherwise submit_entry ends   *)
(* in a fill or in none.  The ledger is abstracted to the cases that       *)
(* bought each position and the resolution of each market.                 *)
(***************************************************************************)
EXTENDS Integers, Sequences, FiniteSets, Optional

CONSTANTS
    Keys,           \* positions: an outcome of a market
    MarketOf,       \* the market of a key
    N,              \* cases of the experiment
    Times,          \* decision and resolution times
    Orders          \* the orders the case_ids may have: case -> place

ASSUME ExperimentAssumption ==
    /\ N \in Nat \ {0}
    /\ Times \subseteq Nat
    /\ None \notin Times
    /\ Orders \subseteq [1..N -> Nat]
    /\ \A ids \in Orders : \A c, d \in 1..N : ids[c] = ids[d] => c = d

Cases == 1..N

VARIABLES
    evidence,   \* the frozen cases
    id,         \* their case_ids
    phase,      \* settle, decide, done or aborted
    case,       \* the case to decide next
    pending,    \* cases waiting for their settlement
    results,    \* case -> [status, settled]
    owners,     \* position -> cases whose fills it holds; None once settled
    resolution, \* market -> recorded resolution
    order,      \* history: settlements in the order they were applied
    seen        \* history: settlements processed before each decision

replayVars == <<evidence, id, phase, case, pending, results, owners, resolution,
                order, seen>>

CaseType ==
    [decision : Times, settlement : Times \cup {None}, key : Keys,
     entry : {"unavailable", "unfilled", "filled"}]

\* PaperEvidenceCase and PaperExperimentSpec refuse a settlement before the
\* decision and cases that are out of order.
ValidEvidence(e, ids) ==
    /\ \A c \in Cases : e[c].settlement # None => e[c].settlement >= e[c].decision
    /\ \A c \in Cases : c > 1 =>
          \/ e[c - 1].decision < e[c].decision
          \/ e[c - 1].decision = e[c].decision /\ ids[c - 1] < ids[c]

NoResult == [status |-> None, settled |-> {}]

ReplayStart ==
    /\ case = 1
    /\ pending = {}
    /\ results = [c \in Cases |-> NoResult]
    /\ owners = [k \in Keys |-> {}]
    /\ resolution = [m \in {MarketOf[k] : k \in Keys} |-> None]
    /\ order = <<>>
    /\ seen = [c \in Cases |-> {}]

ReplayInit ==
    /\ id \in Orders
    /\ evidence \in {e \in [Cases -> CaseType] : ValidEvidence(e, id)}
    /\ phase = "settle"
    /\ ReplayStart

At(c) == evidence[c].settlement

\* Mutant: a settlement at the time of the decision is applied before it.
DueAtDecision(c) == case <= N => At(c) <= evidence[case].decision

\* Before a decision only the settlements known strictly before it are due;
\* after the last one all are.
Due(c) == case <= N => At(c) < evidence[case].decision

\* Mutant: settlements are applied in the order of their cases.
BeforeByCase(c, d) == c < d

\* The order of _pending_settlement_sort_key.
Before(c, d) == At(c) < At(d) \/ (At(c) = At(d) /\ id[c] < id[d])

DuePending == {c \in pending : Due(c)}
-----------------------------------------------------------------------------
\* _settle_hypothetical_position: without an open position there is nothing
\* to settle; another resolution of the same market is refused and ends the
\* experiment; otherwise the whole position is settled.
ResolutionOf(c) == [key |-> evidence[c].key, at |-> At(c)]

Settle ==
    /\ phase = "settle"
    /\ \E c \in DuePending :
        LET k == evidence[c].key
            market == MarketOf[k]
        IN /\ \A d \in DuePending \ {c} : Before(c, d)
           /\ pending' = pending \ {c}
           /\ IF owners[k] = {} \/ owners[k] = {None}
              THEN UNCHANGED <<phase, results, owners, resolution, order>>
              ELSE IF resolution[market] \notin {None, ResolutionOf(c)}
              THEN /\ phase' = "aborted"
                   /\ UNCHANGED <<results, owners, resolution, order>>
              ELSE /\ results' = [results EXCEPT ![c].settled = owners[k]]
                   /\ owners' = [owners EXCEPT ![k] = {None}]
                   /\ resolution' = [resolution EXCEPT ![market] = ResolutionOf(c)]
                   /\ order' = Append(order, c)
                   /\ UNCHANGED phase
    /\ UNCHANGED <<evidence, id, case, seen>>

Settled ==
    /\ phase = "settle"
    /\ DuePending = {}
    /\ phase' = IF case <= N THEN "decide" ELSE "done"
    /\ UNCHANGED <<evidence, id, case, pending, results, owners,
                   resolution, order, seen>>

Status(c) == IF evidence[c].entry = "unavailable" THEN "unavailable" ELSE "evaluated"

Waits(c) == Status(c) = "evaluated" /\ At(c) # None

\* A fill on a settled position is refused by the reducers, which ends the
\* experiment.
Refused(c) ==
    evidence[c].entry = "filled" /\ owners[evidence[c].key] = {None}

Decide ==
    /\ phase = "decide"
    /\ seen' = [seen EXCEPT ![case] = {d \in 1..(case - 1) : Waits(d)} \ pending]
    /\ IF Refused(case)
       THEN /\ phase' = "aborted"
            /\ UNCHANGED <<case, pending, results, owners>>
       ELSE /\ phase' = "settle"
            /\ case' = case + 1
            /\ results' = [results EXCEPT ![case].status = Status(case)]
            /\ owners' = IF evidence[case].entry = "filled"
                         THEN [owners EXCEPT ![evidence[case].key] = @ \cup {case}]
                         ELSE owners
            /\ pending' = IF Waits(case) THEN pending \cup {case} ELSE pending
    /\ UNCHANGED <<evidence, id, resolution, order>>
-----------------------------------------------------------------------------
ReplayEnded == phase \in {"done", "aborted"} /\ UNCHANGED replayVars

ReplayNext == Settle \/ Settled \/ Decide \/ ReplayEnded

ReplaySpec == ReplayInit /\ [][ReplayNext]_replayVars
-----------------------------------------------------------------------------
\* "A future settlement cannot change an earlier decision", nor is a past
\* one missed: a decision is taken when exactly the settlements resolved
\* strictly before it have been applied.
DecisionsSeeThePast ==
    \A c \in Cases : results[c].status # None =>
        seen[c] = {d \in 1..(c - 1) : Waits(d) /\ At(d) < evidence[c].decision}

\* "Hypothetical settlements are applied in event-time order", across the
\* batches too, since each result reports the cash it left; and an experiment
\* that ends has applied all its evidence: what is still open was bought by
\* cases that have no settlement.
SettledInTimeOrder ==
    /\ \A i, j \in DOMAIN order : i < j => At(order[i]) <= At(order[j])
    /\ phase = "done" =>
          \A k \in Keys : owners[k] # {None} => \A c \in owners[k] : At(c) = None
=============================================================================
