------------------------------ MODULE PipOutbox ------------------------------
(***************************************************************************)
(* The durable PIP outbox (weatherbot/pip/outbox.py) and the delivery      *)
(* attempts made on it (weatherbot/pip/runtime.py).  A row is one frozen   *)
(* signal.created event; workers claim rows under a lease with a fencing   *)
(* token, POST the frozen bytes and write the result back.                 *)
(*                                                                         *)
(* Every SQLite transaction, and every statement run in autocommit mode,   *)
(* is one step.  What lies between two of them in the code (an HTTP call,  *)
(* reading the clock) is a step of its own, so that the workers interleave *)
(* there.                                                                  *)
(***************************************************************************)
EXTENDS Integers, FiniteSets

CONSTANTS
  Events,       \* rows of pip_outbox: UNIQUE(producer_id, event_id)
  Workers,      \* processes that reconcile, deliver or retry dead letters
  None,         \* SQL NULL
  Lease,        \* MAX_LEASE, the lease of every claim, in clock ticks
  Horizon,      \* DELIVERY_HORIZON in clock ticks
  RetryBase,    \* RETRY_BASE_SECONDS in clock ticks
  RetryMax,     \* RETRY_MAX_SECONDS in clock ticks
  RetryExponentCap,
  MaxTime,      \* bound: the last clock value
  MaxLag,       \* bound: how far a reconciler's captured time lags the clock
  MaxCrashes,   \* bound: process deaths
  MaxAudits     \* bound: operator interventions per event

ASSUME NoneAssumption == None \notin Events
ASSUME TimingAssumption ==
  /\ Lease \in Nat \ {0}
  /\ Horizon \in Nat \ {0}
  /\ RetryBase \in Nat \ {0}
  /\ RetryMax \in Nat \ {0}
  /\ RetryExponentCap \in Nat
ASSUME BoundAssumption ==
  /\ MaxTime \in Nat
  /\ MaxLag \in Nat
  /\ MaxCrashes \in Nat
  /\ MaxAudits \in Nat

VARIABLES
  now,       \* the wall clock every process reads
  row,       \* the pip_outbox table
  audit,     \* rows of pip_outbox_operator_audit per event
  worker,    \* the local state of each process
  crashes,   \* process deaths so far
  sent,      \* PIP: events of which at least one POST left Hermes
  accepted,  \* PIP: events PIP has durably accepted
  rejected   \* PIP: events PIP has answered with a rejection

pipVars == <<sent, accepted, rejected>>
vars == <<now, row, audit, worker, crashes, sent, accepted, rejected>>

-----------------------------------------------------------------------------
(* The tables and the processes. *)

Queued == {"pending", "retry_wait"}
States == Queued \cup {"absent", "in_flight", "acknowledged", "dead_letter"}
Modes == {"none", "automatic", "operator_one_shot"}
Reasons == {"none", "horizon", "one_shot", "rejected", "operator"}

(* claim_token is a fresh uuid4 per claim.  A claim also increments         *)
(* attempt_count, so the attempt number names the claims of one row apart.  *)
Row == [state: States, gen: Nat, enq: Nat, next: Nat, attempts: Nat,
        lease: Nat, token: Nat, mode: Modes, reason: Reasons]

NoRow == [state |-> "absent", gen |-> 0, enq |-> 0, next |-> 0, attempts |-> 0,
          lease |-> 0, token |-> 0, mode |-> "none", reason |-> "none"]

Outcomes == {"none", "ack", "retry", "dead"}
Worker == [pc: {"idle", "promoted", "recover", "claim", "op_recover",
                "op_claim", "post", "wait", "finish"},
           cur: Nat, ev: Events \cup {None}, tok: Nat, lease: Nat,
           mode: Modes, out: Outcomes, fin: Nat, delay: Nat]

Idle == [pc |-> "idle", cur |-> 0, ev |-> None, tok |-> 0, lease |-> 0,
         mode |-> "none", out |-> "none", fin |-> 0, delay |-> 0]

Smaller(a, b) == IF a < b THEN a ELSE b
Larger(a, b) == IF a < b THEN b ELSE a

Init ==
  /\ now = 0
  /\ row = [e \in Events |-> NoRow]
  /\ audit = [e \in Events |-> 0]
  /\ worker = [w \in Workers |-> Idle]
  /\ crashes = 0
  /\ sent = {}
  /\ accepted = {}
  /\ rejected = {}

-----------------------------------------------------------------------------
(* PipOutbox.recover: expired leases first, then the delivery horizon. *)

Unclaimed(r) == [r EXCEPT !.lease = 0, !.token = 0, !.mode = "none"]

(* Mutants of recover: a restart that takes every in_flight row for          *)
(* abandoned, a horizon test that counts the next lease in, and a one-shot   *)
(* attempt recovered like an automatic one.                                  *)
RecoverEveryLease(r, c) ==
  IF r.state # "in_flight" THEN r
  ELSE [Unclaimed(r) EXCEPT !.state = "retry_wait", !.next = c]

RecoverEarlyHorizon(r, c) ==
  IF r.state # "in_flight" \/ r.lease > c THEN r
  ELSE IF c + Lease >= r.gen + Horizon
  THEN [Unclaimed(r) EXCEPT !.state = "dead_letter", !.reason = "horizon"]
  ELSE [Unclaimed(r) EXCEPT !.state = "retry_wait", !.next = c]

RecoverRequeuesOneShot(r, c) ==
  IF r.state # "in_flight" \/ r.lease > c THEN r
  ELSE [Unclaimed(r) EXCEPT !.state = "retry_wait", !.next = c]

RecoverExpired(r, c) ==
  IF r.state # "in_flight" \/ r.lease > c THEN r
  ELSE IF r.mode = "operator_one_shot"
  THEN [Unclaimed(r) EXCEPT !.state = "dead_letter", !.reason = "one_shot"]
  ELSE IF c >= r.gen + Horizon
  THEN [Unclaimed(r) EXCEPT !.state = "dead_letter", !.reason = "horizon"]
  ELSE [Unclaimed(r) EXCEPT !.state = "retry_wait", !.next = c]

(* Mutant: the horizon sweeps pending rows only. *)
HorizonPendingOnly(r, c) ==
  IF r.state = "pending" /\ c >= r.gen + Horizon
  THEN [r EXCEPT !.state = "dead_letter", !.reason = "horizon"]
  ELSE r

RecoverHorizon(r, c) ==
  IF r.state \in Queued /\ c >= r.gen + Horizon
  THEN [r EXCEPT !.state = "dead_letter", !.reason = "horizon"]
  ELSE r

RecoverRow(r, c) == RecoverHorizon(RecoverExpired(r, c), c)

(* PipIntentStore.promote: enqueue the frozen event, then, in a second      *)
(* transaction, recover.  Both use the time c that the reconciling process  *)
(* captured when its pass started.  A row that exists with the same bytes   *)
(* is left alone; one with other bytes makes enqueue raise, which changes   *)
(* nothing (PipPublication tells the two apart).                            *)
NewRow(g, c) == [NoRow EXCEPT !.state = "pending", !.gen = g, !.enq = c, !.next = c]

Enqueue(w, e, g, c) ==
  /\ worker[w].pc = "idle"
  /\ g <= now /\ g + Horizon <= MaxTime
  /\ c <= now /\ now - c <= MaxLag
  /\ row' = [row EXCEPT ![e] = IF @.state = "absent" THEN NewRow(g, c) ELSE @]
  /\ worker' = [worker EXCEPT ![w] = [Idle EXCEPT !.pc = "promoted", !.cur = c]]
  /\ UNCHANGED <<now, audit, crashes, pipVars>>

PromoteRecover(w) ==
  /\ worker[w].pc = "promoted"
  /\ row' = [e \in Events |-> RecoverRow(row[e], worker[w].cur)]
  /\ worker' = [worker EXCEPT ![w] = Idle]
  /\ UNCHANGED <<now, audit, crashes, pipVars>>

-----------------------------------------------------------------------------
(* deliver_once: read the clock, recover, claim the first due row. *)

Begin(w) ==
  /\ worker[w].pc = "idle"
  /\ worker' = [worker EXCEPT ![w] = [Idle EXCEPT !.pc = "recover", !.cur = now]]
  /\ UNCHANGED <<now, row, audit, crashes, pipVars>>

Recover(w) ==
  /\ worker[w].pc \in {"recover", "op_recover"}
  /\ row' = [e \in Events |-> RecoverRow(row[e], worker[w].cur)]
  /\ worker' = [worker EXCEPT ![w].pc = IF @ = "recover" THEN "claim" ELSE "op_claim"]
  /\ UNCHANGED <<now, audit, crashes, pipVars>>

(* Mutant: the lease may reach beyond the horizon. *)
DueUntilHorizon(r, c) == r.state \in Queued /\ r.next <= c /\ r.gen >= c - Horizon

Due(r, c) ==
  /\ r.state \in Queued
  /\ r.next <= c
  /\ r.gen >= c + Lease - Horizon

NotAfter(r, s) == r.next < s.next \/ (r.next = s.next /\ r.enq <= s.enq)

(* Mutant: the lease is counted back from the clock. *)
ClaimRowBackdated(r, c, mode) ==
  [r EXCEPT !.state = "in_flight", !.attempts = @ + 1, !.lease = c - Lease,
            !.token = r.attempts + 1, !.mode = mode]

ClaimRow(r, c, mode) ==
  [r EXCEPT !.state = "in_flight", !.attempts = @ + 1, !.lease = c + Lease,
            !.token = r.attempts + 1, !.mode = mode]

(* Row e becomes in_flight and worker w leaves with its copy of the claim. *)
Claim(w, e, mode) ==
  LET r == ClaimRow(row[e], worker[w].cur, mode) IN
  /\ row' = [row EXCEPT ![e] = r]
  /\ worker' = [worker EXCEPT ![w] = [Idle EXCEPT !.pc = "post", !.ev = e,
                   !.tok = r.token, !.lease = r.lease, !.mode = mode]]

ClaimDue(w) ==
  /\ worker[w].pc = "claim"
  /\ LET c == worker[w].cur
         due == {e \in Events : Due(row[e], c)} IN
     \/ /\ due = {}
        /\ worker' = [worker EXCEPT ![w] = Idle]
        /\ UNCHANGED row
     \/ \E e \in due :
          /\ \A f \in due : NotAfter(row[e], row[f])
          /\ Claim(w, e, "automatic")
  /\ UNCHANGED <<now, audit, crashes, pipVars>>

-----------------------------------------------------------------------------
(* Operator commands: retry-dead-letter and dead-letter. *)

OperatorBegin(w, e) ==
  /\ worker[w].pc = "idle"
  /\ now + Lease <= MaxTime
  /\ worker' = [worker EXCEPT ![w] =
                  [Idle EXCEPT !.pc = "op_recover", !.cur = now, !.ev = e]]
  /\ UNCHANGED <<now, row, audit, crashes, pipVars>>

ClaimDeadLetterOnce(w) ==
  /\ worker[w].pc = "op_claim"
  /\ LET e == worker[w].ev IN
     \/ /\ row[e].state = "dead_letter"
        /\ audit[e] < MaxAudits
        /\ audit' = [audit EXCEPT ![e] = @ + 1]
        /\ Claim(w, e, "operator_one_shot")
     \/ /\ row[e].state # "dead_letter" \/ audit[e] >= MaxAudits
        /\ worker' = [worker EXCEPT ![w] = Idle]
        /\ UNCHANGED <<row, audit>>
  /\ UNCHANGED <<now, crashes, pipVars>>

OperatorDeadLetter(e) ==
  /\ row[e].state \in Queued
  /\ audit[e] < MaxAudits
  /\ audit' = [audit EXCEPT ![e] = @ + 1]
  /\ row' = [row EXCEPT ![e].state = "dead_letter", ![e].reason = "operator"]
  /\ UNCHANGED <<now, worker, crashes, pipVars>>

-----------------------------------------------------------------------------
(* The POST and what comes back. *)

Post(w) ==
  /\ worker[w].pc = "post"
  /\ sent' = sent \cup {worker[w].ev}
  /\ worker' = [worker EXCEPT ![w].pc = "wait"]
  /\ UNCHANGED <<now, row, audit, crashes, accepted, rejected>>

(* External: PIP handles a request that was sent, now or much later.  An    *)
(* accepted event stays accepted; a rejected one may be accepted later.     *)
PipAccept(e) ==
  /\ e \in sent \ accepted
  /\ accepted' = accepted \cup {e}
  /\ UNCHANGED <<now, row, audit, worker, crashes, sent, rejected>>

PipReject(e) ==
  /\ e \in sent \ (accepted \cup rejected)
  /\ rejected' = rejected \cup {e}
  /\ UNCHANGED <<now, row, audit, worker, crashes, sent, accepted>>

(* An answer: the HTTP status, the body's disposition ("malformed" when it  *)
(* is not a well-formed delivery result), the event it is bound to (None    *)
(* for one that is not in this outbox), and retry_after in ticks.  A proxy  *)
(* may replay the answer to another event.                                  *)
Statuses == {200, 202, 302, 400, 429, 503}
Answer == [status: Statuses, body: {"accepted", "retry", "rejected", "malformed"},
           ev: Events \cup {None}, after: {0, RetryMax}]
PossibleAnswer(a) ==
  /\ a.body = "accepted" => a.ev \in accepted \cup {None}
  /\ a.body = "rejected" => a.ev \in rejected \cup {None}
  /\ a.body # "retry" => a.after = 0

(* Mutant: a result for any event will do. *)
ParseUnbound(a, e) == a.body # "malformed"

ParseDeliveryResult(a, e) == a.body # "malformed" /\ a.ev = e

TerminalStatusMatchesResult(status, body) ==
  \/ body = "accepted" /\ 200 <= status /\ status < 300 /\ status # 202
  \/ body = "rejected" /\ 400 <= status /\ status < 500 /\ status # 429

Outcome(a, e) ==
  IF \/ 300 <= a.status /\ a.status < 400
     \/ ~ParseDeliveryResult(a, e)
     \/ a.body = "retry"
     \/ ~TerminalStatusMatchesResult(a.status, a.body)
  THEN "retry"
  ELSE IF a.body = "accepted" THEN "ack" ELSE "dead"

RetryAfter(a, e) ==
  IF (a.status < 300 \/ a.status >= 400) /\ ParseDeliveryResult(a, e) THEN a.after ELSE 0

(* retry_delay_bounds and _retry_delay: capped exponential backoff with     *)
(* jitter in the upper half, overridden upwards by retry_after.             *)
RetryRaw(attempts) ==
  Smaller(RetryMax, RetryBase * 2 ^ Smaller(Larger(attempts - 1, 0), RetryExponentCap))

RetryDelays(attempts, after) ==
  {d \in 0 .. RetryMax :
     \E u \in (RetryRaw(attempts) \div 2) .. RetryRaw(attempts) :
        d = Smaller(Larger(u, after), RetryMax)}

(* The worker reads the clock once more (_finish_time); the result is       *)
(* written by a later step.                                                 *)
Decide(w, out, d) ==
  worker' = [worker EXCEPT ![w] = [@ EXCEPT !.pc = "finish", !.out = out,
                                            !.fin = now, !.delay = d]]

ReceiveAnswer(w) ==
  /\ worker[w].pc = "wait"
  /\ \E a \in Answer :
       /\ PossibleAnswer(a)
       /\ LET e == worker[w].ev IN
          \E d \in RetryDelays(worker[w].tok, RetryAfter(a, e)) :
             Decide(w, Outcome(a, e), IF Outcome(a, e) = "retry" THEN d ELSE 0)
  /\ UNCHANGED <<now, row, audit, crashes, pipVars>>

RequestFails(w) ==
  /\ worker[w].pc = "wait"
  /\ \E d \in RetryDelays(worker[w].tok, 0) : Decide(w, "retry", d)
  /\ UNCHANGED <<now, row, audit, crashes, pipVars>>

-----------------------------------------------------------------------------
(* PipOutbox._finish: one fenced UPDATE. *)

FinishedRow(r, k) ==
  LET u == Unclaimed(r) IN
  CASE k.out = "ack"  -> [u EXCEPT !.state = "acknowledged"]
    [] k.out = "dead" -> [u EXCEPT !.state = "dead_letter", !.reason = "rejected"]
    [] OTHER ->
       IF k.mode = "operator_one_shot"
       THEN [u EXCEPT !.state = "dead_letter", !.reason = "one_shot", !.next = k.fin + k.delay]
       ELSE [u EXCEPT !.state = "retry_wait", !.next = k.fin + k.delay]

(* Mutant: only the claim the worker remembers is looked at. *)
FencedByMemory(r, k) == k.fin < k.lease

(* The row is still the one this worker claimed, and its lease is running. *)
Fenced(r, k) ==
  /\ k.fin < k.lease
  /\ r.state = "in_flight"
  /\ r.token = k.tok
  /\ r.lease > k.fin

Finish(w) ==
  LET k == worker[w] IN
  /\ k.pc = "finish"
  /\ row' = [row EXCEPT ![k.ev] = IF Fenced(@, k) THEN FinishedRow(@, k) ELSE @]
  /\ worker' = [worker EXCEPT ![w] = Idle]
  /\ UNCHANGED <<now, audit, crashes, pipVars>>

-----------------------------------------------------------------------------
(* The process dies (signal, an exception that no handler catches such as a *)
(* urllib3 read error, a locked database): local state is lost, an open     *)
(* transaction is rolled back, the table stays.                             *)
Crash(w) ==
  /\ worker[w].pc # "idle"
  /\ crashes < MaxCrashes
  /\ crashes' = crashes + 1
  /\ worker' = [worker EXCEPT ![w] = Idle]
  /\ UNCHANGED <<now, row, audit, pipVars>>

Tick ==
  /\ now < MaxTime
  /\ now' = now + 1
  /\ UNCHANGED <<row, audit, worker, crashes, pipVars>>

WorkerStep(w) ==
  \/ PromoteRecover(w) \/ Begin(w) \/ Recover(w) \/ ClaimDue(w) \/ ClaimDeadLetterOnce(w)
  \/ Post(w) \/ ReceiveAnswer(w) \/ RequestFails(w) \/ Finish(w)

Next ==
  \/ Tick
  \/ \E w \in Workers, e \in Events, g, c \in 0 .. MaxTime : Enqueue(w, e, g, c)
  \/ \E e \in Events : OperatorDeadLetter(e)
  \/ \E e \in Events : PipAccept(e) \/ PipReject(e)
  \/ \E w \in Workers : WorkerStep(w) \/ Crash(w)
  \/ \E w \in Workers, e \in Events : OperatorBegin(w, e)

Spec == Init /\ [][Next]_vars

(* cli.run_worker alternates a reconciliation pass and deliver_once for     *)
(* ever, and the service supervisor restarts a dead worker: a process that  *)
(* is idle again and again starts deliver_once again and again.  Every HTTP *)
(* call has a timeout, and time passes.                                     *)
FairSpec ==
  /\ Spec
  /\ WF_vars(Tick)
  /\ \A w \in Workers : WF_vars(WorkerStep(w)) /\ SF_vars(Begin(w))

-----------------------------------------------------------------------------
TypeOK ==
  /\ now \in 0 .. MaxTime
  /\ row \in [Events -> Row]
  /\ audit \in [Events -> 0 .. MaxAudits]
  /\ worker \in [Workers -> Worker]
  /\ crashes \in 0 .. MaxCrashes
  /\ sent \subseteq Events
  /\ accepted \subseteq sent
  /\ rejected \subseteq sent

Holding(w) == worker[w].pc \in {"post", "wait", "finish"}

(* No two processes ever work on the same event under leases that are both  *)
(* still running, although each decides from times it read earlier and      *)
(* recover() hands abandoned rows on (claim_due, claim_dead_letter_once,    *)
(* recover).                                                                *)
LeaseExclusion ==
  \A v, w \in Workers :
     /\ Holding(v) /\ Holding(w) /\ worker[v].ev = worker[w].ev
     /\ now < worker[v].lease /\ now < worker[w].lease
     => v = w

(* Hermes records an acknowledgement only for an event PIP has accepted:    *)
(* not for an answer to another event, a bare 2xx, a 202, a redirect or a   *)
(* malformed body (parse_delivery_result, _terminal_status_matches_result). *)
AcknowledgedIsAccepted ==
  \A e \in Events : row[e].state = "acknowledged" => e \in accepted

(* The lease of an automatic claim ends within the delivery horizon, so no  *)
(* automatic attempt may still be recorded after it (claim_due).            *)
LeaseWithinHorizon ==
  \A e \in Events :
     row[e].state = "in_flight" /\ row[e].mode = "automatic"
       => row[e].lease <= row[e].gen + Horizon

(* A row is dead-lettered only because its horizon passed, PIP rejected it, *)
(* or an operator asked for it: no number of failed or ambiguous attempts,  *)
(* crashes or expired leases is terminal (recover, _finish).                *)
DeadLetterJustified ==
  \A e \in Events : row[e].state = "dead_letter" =>
     \/ now >= row[e].gen + Horizon
     \/ e \in rejected
     \/ audit[e] > 0

(* Once acknowledged, a row stays as it is: neither a worker whose lease    *)
(* ran out nor recovery nor an operator moves it again (_finish, recover).  *)
AcknowledgedIsFinal ==
  [][\A e \in Events : row[e].state = "acknowledged" => row'[e] = row[e]]_vars

(* Every row handed to the outbox is in the end acknowledged or retained as *)
(* a dead letter, whatever PIP answers and wherever workers die.            *)
EventuallySettled ==
  \A e \in Events :
     row[e].state \in Queued \cup {"in_flight"}
       ~> row[e].state \in {"acknowledged", "dead_letter"}

-----------------------------------------------------------------------------
(* The inductive invariant behind these properties. *)

(* A process acts on times it read in the past. *)
ClockInv == \A w \in Workers : worker[w].cur <= now

AbsentInv == \A e \in Events : row[e].state = "absent" => row[e].attempts = 0

(* A claimed row carries the token of its latest claim, and an operator's   *)
(* claim is audited.                                                        *)
RowInv ==
  \A e \in Events : row[e].state = "in_flight" =>
     /\ row[e].token = row[e].attempts
     /\ row[e].mode = "operator_one_shot" => audit[e] > 0

(* A process that works on a claim holds a token some claim of that row     *)
(* has handed out.  As long as its lease runs the row is still its own; and *)
(* a row under its token is under its lease and its mode.                   *)
HolderInv ==
  \A w \in Workers : Holding(w) =>
     LET k == worker[w]  r == row[worker[w].ev] IN
     /\ k.ev \in Events
     /\ r.state # "absent"
     /\ k.tok <= r.attempts
     /\ k.mode = "operator_one_shot" => audit[k.ev] > 0
     /\ now < k.lease => r.state = "in_flight" /\ r.token = k.tok
     /\ r.state = "in_flight" /\ r.token = k.tok => r.lease = k.lease /\ r.mode = k.mode

(* No two processes hold the same token of the same row. *)
DistinctTokens ==
  \A v, w \in Workers :
     Holding(v) /\ Holding(w) /\ worker[v].ev = worker[w].ev /\ v # w
       => worker[v].tok # worker[w].tok

(* A decided outcome is backed by what PIP did. *)
OutcomeInv ==
  \A w \in Workers : worker[w].pc = "finish" =>
     /\ worker[w].out = "ack" => worker[w].ev \in accepted
     /\ worker[w].out = "dead" => worker[w].ev \in rejected

OperatorInv == \A w \in Workers : worker[w].pc \in {"op_recover", "op_claim"} => worker[w].ev \in Events

SentInv == \A e \in sent : row[e].state # "absent"

IInv ==
  /\ TypeOK /\ ClockInv /\ AbsentInv /\ RowInv /\ HolderInv /\ DistinctTokens
  /\ OutcomeInv /\ OperatorInv /\ SentInv
  /\ AcknowledgedIsAccepted /\ LeaseWithinHorizon /\ DeadLetterJustified

-----------------------------------------------------------------------------
(* How Hermes stands with an event, read off its row.  A dead letter under  *)
(* an operator's one-shot attempt is still parked.                          *)
Standing(r) ==
  CASE r.state = "absent" -> "none"
    [] r.state = "acknowledged" -> "delivered"
    [] r.state = "dead_letter" -> "parked"
    [] r.state = "in_flight" /\ r.mode = "operator_one_shot" -> "parked"
    [] OTHER -> "owed"

Contract == INSTANCE Delivery WITH
  status <- [e \in Events |-> Standing(row[e])],
  accepted <- accepted

(* The table of leases, tokens and retries implements the plain promise of  *)
(* module Delivery: nothing is lost, no dead letter is requeued, delivered  *)
(* is final and means that PIP accepted the event.                          *)
ImplementsDelivery == Contract!Spec
=============================================================================
