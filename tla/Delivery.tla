------------------------------- MODULE Delivery -------------------------------
(***************************************************************************)
(* What the PIP outbox promises, with no leases, tokens, retries or clocks *)
(* (docs/pip-publication.md, "Outbox semantics").  An event handed over is *)
(* owed; an owed event is in the end delivered or parked; a parked event   *)
(* is retained and never becomes owed again, but an operator may still get *)
(* it delivered; delivered means that PIP has accepted it, and is final.   *)
(***************************************************************************)
CONSTANT Events

VARIABLES
  status,    \* where Hermes stands with each event
  accepted   \* the events PIP has accepted

vars == <<status, accepted>>

Statuses == {"none", "owed", "delivered", "parked"}

Init ==
  /\ status = [e \in Events |-> "none"]
  /\ accepted = {}

(* PIP accepts an event that Hermes has handed over. *)
Accept(e) ==
  /\ status[e] # "none"
  /\ accepted' = accepted \cup {e}
  /\ UNCHANGED status

MayBecome(e, old, new) ==
  \/ new = old
  \/ old = "none" /\ new = "owed"
  \/ old = "owed" /\ new = "parked"
  \/ old \in {"owed", "parked"} /\ new = "delivered" /\ e \in accepted

(* One transaction of Hermes may move several events. *)
Advance ==
  /\ status' \in [Events -> Statuses]
  /\ \A e \in Events : MayBecome(e, status[e], status'[e])
  /\ UNCHANGED accepted

Next == Advance \/ \E e \in Events : Accept(e)

Spec == Init /\ [][Next]_vars
=============================================================================
