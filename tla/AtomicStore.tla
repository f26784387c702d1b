----------------------------- MODULE AtomicStore -----------------------------
(***************************************************************************)
(* What the event store promises its callers, with no processes, locks,    *)
(* copies, logs or files: a call that succeeds takes effect in one step,   *)
(* on the content there is at that moment, with all of its rows, and one   *)
(* that fails has no effect.  A backup is the content of one moment.       *)
(*                                                                         *)
(* The operators that say what a row of a call does to a content are       *)
(* parameters: an instance takes the ones of the store it is about.        *)
(***************************************************************************)
CONSTANTS
  Intents, Decisions, Decision, None,
  Owners,              \* of claims
  Backends, Payloads,
  Batches,             \* the sequences of events that are appended together
  EmptyStore, NoClaim, NoAdapter, NoFile,
  CreatedIn(_),        \* the intents a log has created
  Created(_, _),       \* the event that creates one, at a time
  Batch(_, _, _),      \* what appending events to a content gives
  Claimed(_, _, _, _), \* a content in which an owner has committed an intent
  MayCommit(_, _, _),  \* may an owner commit, of a claim as it is
  Checkpoint(_),       \* of a content
  Splices(_, _)        \* what remains of a content over which another is put

VARIABLES
  store,   \* the content
  backup   \* the content of the backup, or NoFile

vars == <<store, backup>>

Init == store = EmptyStore /\ backup = NoFile

Publish(S) == store' = S /\ UNCHANGED backup

(* A batch is appended as a whole or not at all. *)
AppendAll(S, events, intents) ==
  LET b == Batch(S, events, intents) IN b.ok /\ Publish(b.store)

AppendMany(events) == AppendAll(store, events, FALSE)

(* The claim of the decision and the event of its intent are one step. *)
CommitOrderIntent(p, i, m) ==
  /\ MayCommit(store.claims[Decision[i]], p, m)
  /\ AppendAll(Claimed(store, p, i, m), <<Created(i, 0)>>, TRUE)

ClaimDecision(p, d, m) ==
  /\ store.claims[d] = NoClaim
  /\ Publish([store EXCEPT !.claims[d] =
                [status |-> "claimed", owner |-> p, intent |-> None, metadata |-> m]])

CompleteDecisionWithoutIntent(p, d) ==
  /\ store.claims[d].status = "claimed" /\ store.claims[d].owner = p
  /\ Publish([store EXCEPT !.claims[d].status = "completed"])

SetAdapterMetadata(i, b, x) ==
  /\ i \in CreatedIn(store.log)
  /\ store.adapters[i] = NoAdapter \/ store.adapters[i].backend = b
  /\ Publish([store EXCEPT !.adapters[i] = [backend |-> b, payload |-> x]])

CreateCheckpoint ==
  Publish([store EXCEPT !.checkpoints = @ \cup {Checkpoint(store)}])

BackUp == backup' = store /\ UNCHANGED store

Restore ==
  /\ backup # NoFile
  /\ store' \in {backup} \cup Splices(store, backup) /\ UNCHANGED backup

Next ==
  \/ \E events \in Batches : AppendMany(events)
  \/ \E p \in Owners, m \in Payloads :
       \/ \E i \in Intents : CommitOrderIntent(p, i, m)
       \/ \E d \in Decisions : ClaimDecision(p, d, m)
  \/ \E p \in Owners, d \in Decisions : CompleteDecisionWithoutIntent(p, d)
  \/ \E i \in Intents, b \in Backends, x \in Payloads : SetAdapterMetadata(i, b, x)
  \/ CreateCheckpoint \/ BackUp \/ Restore

Spec == Init /\ [][Next]_vars
=============================================================================
