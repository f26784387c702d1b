---------------------------- MODULE Observations ----------------------------
(***************************************************************************)
(* Weather observations as the ledger keeps them (the weather_observations *)
(* of LedgerState, one sequence of evidence for each market), and the join *)
(* of resolution/observations.py that decides what may be learned from.    *)
(*                                                                         *)
(* Evidence is a record [hash, status, supersedes, source, station, day]:  *)
(* hash identifies the captured payload, station stands for the station    *)
(* and the basis of the measurement, day for its date, timezone and unit.  *)
(***************************************************************************)
EXTENDS Naturals, Sequences, SequencesExt

CONSTANTS
  Hashes,    \* payload digests
  Sources,   \* source URLs
  Stations,
  Days,
  NoHash

ASSUME NoHashAssumption == NoHash \notin Hashes

Statuses == {"provisional", "final", "revised"}

(* What WeatherObservationEvidence accepts. *)
EvidenceRecords ==
  {e \in [hash: Hashes, status: Statuses, supersedes: Hashes \cup {NoHash},
          source: Sources, station: Stations, day: Days] :
     /\ e.status = "revised" <=> e.supersedes # NoHash
     /\ e.supersedes # e.hash}

LearningEligible(e) == e.status \in {"final", "revised"}
SameIdentity(a, b) == a.source = b.source /\ a.station = b.station /\ a.day = b.day

(* terminal_history, as the places in the history that it keeps, and the    *)
(* last of what it keeps.                                                   *)
TerminalHistory(history) == {n \in DOMAIN history : LearningEligible(history[n])}
Terminals(history) == {history[n] : n \in TerminalHistory(history)}
Latest(history) == history[Max(TerminalHistory(history))]

(* Mutant: a revision may supersede any terminal payload. *)
RevisesAny(history, e) ==
  \E prior \in Terminals(history) :
     e.supersedes = prior.hash /\ SameIdentity(e, prior)

(* Mutant: a revision may come from another source, station or day. *)
RevisesAnything(history, e) ==
  TerminalHistory(history) # {} /\ e.supersedes = Latest(history).hash

RevisesLatest(history, e) ==
  /\ TerminalHistory(history) # {}
  /\ e.supersedes = Latest(history).hash /\ SameIdentity(e, Latest(history))

(* _apply_weather_observation *)
CanObserve(history, e) ==
  \/ e \in Range(history)
  \/ /\ \A prior \in Range(history) : prior.hash # e.hash
     /\ CASE e.status = "provisional" -> TRUE
          [] e.status = "final" -> TerminalHistory(history) = {}
          [] e.status = "revised" -> RevisesLatest(history, e)

Observe(history, e) == IF e \in Range(history) THEN history ELSE Append(history, e)

(* latest_learning_observation *)
LatestLearning(history) ==
  IF TerminalHistory(history) = {} THEN <<>> ELSE <<Latest(history)>>
=============================================================================
