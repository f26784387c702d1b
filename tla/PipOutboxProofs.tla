--------------------------- MODULE PipOutboxProofs ---------------------------
(***************************************************************************)
(* Proofs about the PIP outbox for every set of events and workers and for *)
(* every lease, horizon and backoff.                                       *)
(***************************************************************************)
EXTENDS PipOutbox, TLAPS

(* What recovery does to one row (PipOutbox.recover): it keeps the identity *)
(* columns and the attempt count, it leaves a claim whose lease is running  *)
(* and every settled row alone, and it parks a row only past the horizon or *)
(* after an unacknowledged one-shot attempt.                                *)
LEMMA RecoverRowLemma ==
  ASSUME NEW r \in Row, NEW c \in Nat
  PROVE  LET s == RecoverRow(r, c) IN
         /\ s \in Row
         /\ s.gen = r.gen
         /\ s.attempts = r.attempts
         /\ s.state = "absent" <=> r.state = "absent"
         /\ r.state \in {"absent", "acknowledged", "dead_letter"} => s = r
         /\ s.state \in {"acknowledged", "in_flight"} => s = r
         /\ r.state = "in_flight" /\ r.lease > c => s = r
         /\ s.state = "dead_letter" =>
              \/ r.state = "dead_letter"
              \/ r.state = "in_flight" /\ r.mode = "operator_one_shot"
              \/ c >= r.gen + Horizon
         /\ r.state = "in_flight" /\ r.mode = "operator_one_shot"
              => s.state \in {"in_flight", "dead_letter"}
<1> DEFINE t == RecoverExpired(r, c)
<1>1. /\ t \in Row /\ t.gen = r.gen /\ t.attempts = r.attempts
      /\ t.state = "absent" <=> r.state = "absent"
      /\ r.state # "in_flight" => t = r
      /\ r.lease > c => t = r
      /\ t.state \in {"acknowledged", "in_flight"} => t = r
      /\ t.state = "dead_letter" =>
           \/ r.state = "dead_letter"
           \/ r.state = "in_flight" /\ r.mode = "operator_one_shot"
           \/ c >= r.gen + Horizon
      /\ r.state = "in_flight" /\ r.mode = "operator_one_shot"
           => t.state \in {"in_flight", "dead_letter"}
  BY TimingAssumption DEF RecoverExpired, Unclaimed, Row, States, Queued, Modes, Reasons
<1> HIDE DEF t
<1>2. RecoverRow(r, c) = RecoverHorizon(t, c)
  BY DEF RecoverRow, t
<1> QED
  BY <1>1, <1>2, TimingAssumption DEF RecoverHorizon, Row, States, Queued, Reasons

(* A claim makes the row in_flight under a token no earlier claim had.      *)
LEMMA ClaimRowLemma ==
  ASSUME NEW r \in Row, NEW c \in Nat, NEW mode \in Modes
  PROVE  LET s == ClaimRow(r, c, mode) IN
         /\ s \in Row
         /\ s.state = "in_flight" /\ s.mode = mode /\ s.gen = r.gen
         /\ s.attempts = r.attempts + 1 /\ s.token = r.attempts + 1
         /\ s.lease = c + Lease
<1>1. c + Lease \in Nat /\ r.attempts + 1 \in Nat
  BY TimingAssumption DEF Row
<1>2. ClaimRow(r, c, mode) \in Row
  BY <1>1 DEF ClaimRow, Row, States, Queued, Modes
<1> QED
  BY <1>2 DEF ClaimRow, Row

(* What the final UPDATE of an attempt leaves in the row (_finish).         *)
LEMMA FinishedRowLemma ==
  ASSUME NEW r \in Row, NEW k \in Worker
  PROVE  LET s == FinishedRow(r, k) IN
         /\ s \in Row
         /\ s.gen = r.gen /\ s.attempts = r.attempts
         /\ s.state \in {"acknowledged", "dead_letter", "retry_wait"}
         /\ s.state = "acknowledged" <=> k.out = "ack"
         /\ s.state = "dead_letter" => k.out = "dead" \/ k.mode = "operator_one_shot"
         /\ k.mode = "operator_one_shot" => s.state # "retry_wait"
<1> DEFINE u == Unclaimed(r)
<1>1. u \in Row /\ u.gen = r.gen /\ u.attempts = r.attempts
  BY DEF Unclaimed, Row, Modes
<1>2. k.fin + k.delay \in Nat
  BY DEF Worker
<1> HIDE DEF u
<1>3. CASE k.out = "ack"
  BY <1>1, <1>3 DEF FinishedRow, Row, States, u
<1>4. CASE k.out = "dead"
  BY <1>1, <1>4 DEF FinishedRow, Row, States, Reasons, u
<1>5. CASE k.out \notin {"ack", "dead"}
  <2>1. FinishedRow(r, k) = IF k.mode = "operator_one_shot"
          THEN [u EXCEPT !.state = "dead_letter", !.reason = "one_shot", !.next = k.fin + k.delay]
          ELSE [u EXCEPT !.state = "retry_wait", !.next = k.fin + k.delay]
    BY <1>5 DEF FinishedRow, u
  <2>2. CASE k.mode = "operator_one_shot"
    BY <1>1, <1>2, <1>5, <2>1, <2>2 DEF Row, States, Queued, Reasons
  <2>3. CASE k.mode # "operator_one_shot"
    BY <1>1, <1>2, <1>5, <2>1, <2>3 DEF Row, States, Queued, Reasons
  <2> QED
    BY <2>2, <2>3
<1> QED
  BY <1>3, <1>4, <1>5

-----------------------------------------------------------------------------
(* A process that is started, or starts over, is well typed.                *)
LEMMA IdleLemma == Idle \in Worker
BY DEF Idle, Worker, Modes, Outcomes

(* An empty outbox satisfies the invariant.                                 *)
LEMMA InitLemma == Init => IInv
<1> SUFFICES ASSUME Init PROVE IInv
  OBVIOUS
<1>1. NoRow \in Row
  BY DEF NoRow, Row, States, Modes, Reasons
<1>2. TypeOK
  BY <1>1, IdleLemma, BoundAssumption DEF Init, TypeOK
<1>3. \A w \in Workers : worker[w] = Idle
  BY DEF Init
<1>4. \A e \in Events : row[e].state = "absent" /\ row[e].attempts = 0
  BY DEF Init, NoRow
<1>5. now = 0 /\ sent = {}
  BY DEF Init
<1> QED
  BY <1>2, <1>3, <1>4, <1>5 DEF IInv, ClockInv, AbsentInv, RowInv, HolderInv, DistinctTokens, OutcomeInv,
     OperatorInv, SentInv, AcknowledgedIsAccepted, LeaseWithinHorizon, DeadLetterJustified,
     Holding, Idle

-----------------------------------------------------------------------------
(* Steps that leave the table alone. *)

(* Time alone breaks nothing: a lease that ran out is only given up.        *)
LEMMA TickLemma == IInv /\ Tick => IInv'
<1> SUFFICES ASSUME IInv, Tick PROVE IInv'
  OBVIOUS
<1>1. now \in Nat /\ now' = now + 1
      /\ UNCHANGED <<row, audit, worker, crashes, sent, accepted, rejected>>
  BY BoundAssumption DEF Tick, pipVars, IInv, TypeOK
<1>2. TypeOK'
  BY <1>1, BoundAssumption DEF Tick, IInv, TypeOK
<1>3. ClockInv'
  BY <1>1 DEF IInv, ClockInv, TypeOK, Worker
<1>4. HolderInv'
  BY <1>1 DEF IInv, HolderInv, TypeOK, Worker, Holding
<1>5. DeadLetterJustified'
  BY <1>1, TimingAssumption DEF IInv, DeadLetterJustified, TypeOK, Row
<1>6. (AbsentInv /\ RowInv /\ DistinctTokens /\ OutcomeInv /\ OperatorInv /\ SentInv
        /\ AcknowledgedIsAccepted /\ LeaseWithinHorizon)'
  BY <1>1 DEF IInv, AbsentInv, RowInv, DistinctTokens, OutcomeInv, OperatorInv, SentInv,
     AcknowledgedIsAccepted, LeaseWithinHorizon, Holding
<1> QED
  BY <1>2, <1>3, <1>4, <1>5, <1>6 DEF IInv

-----------------------------------------------------------------------------
(* Steps that give no new claim.  A process stays as it is or ends up with  *)
(* no claim ...                                                             *)
LetsGo(v) ==
  \/ worker'[v] = worker[v]
  \/ /\ ~Holding(v)' /\ worker'[v].cur <= now
     /\ worker'[v].pc \in {"op_recover", "op_claim"} => worker'[v].ev \in Events

(* ... and a row changes only with a reason and under no running lease.     *)
RowMoves(e) ==
  /\ row'[e] \in Row
  /\ row'[e].attempts = row[e].attempts
  /\ row[e].state # "absent" => row'[e].state # "absent"
  /\ row'[e].state = "in_flight" => row'[e] = row[e]
  /\ row'[e].state = "acknowledged" => row'[e] = row[e] \/ e \in accepted
  /\ row'[e].state = "dead_letter" =>
       row'[e] = row[e] \/ now >= row'[e].gen + Horizon \/ e \in rejected \/ audit'[e] > 0
  /\ \A v \in Workers :
       Holding(v) /\ Holding(v)' /\ worker[v].ev = e /\ now < worker[v].lease
         => row'[e] = row[e]

(* Such steps preserve the invariant.                                       *)
LEMMA TableLemma ==
  ASSUME IInv,
         worker' \in [Workers -> Worker], \A v \in Workers : LetsGo(v),
         row' \in [Events -> Row], \A e \in Events : RowMoves(e),
         audit' \in [Events -> 0 .. MaxAudits], \A e \in Events : audit'[e] >= audit[e],
         now' = now, crashes' \in 0 .. MaxCrashes,
         sent' = sent, accepted' = accepted, rejected' = rejected
  PROVE  IInv'
<1>0. now \in Nat /\ \A e \in Events : row[e] \in Row /\ audit[e] \in Nat /\ audit'[e] \in Nat
  BY BoundAssumption DEF IInv, TypeOK
<1>1. TypeOK'
  BY DEF IInv, TypeOK
<1>2. ClockInv' /\ OperatorInv'
  BY DEF IInv, ClockInv, OperatorInv, LetsGo
<1>3. OutcomeInv'
  BY DEF IInv, OutcomeInv, LetsGo, Holding
<1>4. RowInv' /\ AbsentInv'
  BY <1>0 DEF IInv, RowInv, AbsentInv, RowMoves
<1>5. HolderInv'
  <2> SUFFICES ASSUME NEW v \in Workers, Holding(v)'
               PROVE  LET k == worker'[v]  r == row'[worker'[v].ev] IN
                      /\ k.ev \in Events
                      /\ r.state # "absent"
                      /\ k.tok <= r.attempts
                      /\ k.mode = "operator_one_shot" => audit'[k.ev] > 0
                      /\ now < k.lease => r.state = "in_flight" /\ r.token = k.tok
                      /\ r.state = "in_flight" /\ r.token = k.tok
                           => r.lease = k.lease /\ r.mode = k.mode
    BY DEF HolderInv
  <2>1. worker'[v] = worker[v] /\ Holding(v)
    BY DEF LetsGo, Holding
  <2>2. worker[v].ev \in Events /\ RowMoves(worker[v].ev)
    BY <2>1 DEF IInv, HolderInv
  <2> QED
    BY <1>0, <2>1, <2>2 DEF IInv, HolderInv, RowMoves
<1>6. DistinctTokens'
  BY DEF IInv, DistinctTokens, Holding, LetsGo
<1>7. SentInv' /\ AcknowledgedIsAccepted' /\ LeaseWithinHorizon'
  BY DEF IInv, TypeOK, SentInv, AcknowledgedIsAccepted, LeaseWithinHorizon, RowMoves
<1>8. DeadLetterJustified'
  BY <1>0 DEF IInv, DeadLetterJustified, RowMoves
<1> QED
  BY <1>1, <1>2, <1>3, <1>4, <1>5, <1>6, <1>7, <1>8 DEF IInv

(* A row that a step leaves alone. *)
LEMMA SameRowLemma ==
  ASSUME IInv, NEW e \in Events, row'[e] = row[e]
  PROVE  RowMoves(e)
BY DEF RowMoves, IInv, TypeOK

(* A row whose lease is not running is under no holder's running lease. *)
LEMMA NoRunningLeaseLemma ==
  ASSUME IInv, NEW e \in Events, row[e].state # "in_flight"
  PROVE  ~ \E v \in Workers : Holding(v) /\ worker[v].ev = e /\ now < worker[v].lease
BY DEF IInv, HolderInv

(* A process starts a pass or dies.                                         *)
LEMMA BeginLemma ==
  ASSUME IInv, NEW w \in Workers
  PROVE  /\ Begin(w) => IInv'
         /\ Crash(w) => IInv'
         /\ \A e \in Events : OperatorBegin(w, e) => IInv'
<1>1. /\ now \in Nat /\ crashes \in 0 .. MaxCrashes /\ MaxCrashes \in Nat
      /\ worker \in [Workers -> Worker] /\ row \in [Events -> Row]
      /\ audit \in [Events -> 0 .. MaxAudits] /\ MaxAudits \in Nat
  BY BoundAssumption DEF IInv, TypeOK
<1>2. ASSUME Begin(w) PROVE IInv'
  <2>1. /\ worker' \in [Workers -> Worker] /\ \A v \in Workers : v # w => worker'[v] = worker[v]
        /\ worker'[w].pc = "recover" /\ worker'[w].cur = now
    BY <1>1, <1>2, IdleLemma DEF Begin, Worker, Idle
  <2>2. \A v \in Workers : LetsGo(v)
    BY <1>1, <2>1 DEF LetsGo, Holding
  <2> QED
    BY <1>1, <1>2, <2>1, <2>2, SameRowLemma, TableLemma DEF Begin, pipVars
<1>3. ASSUME Crash(w) PROVE IInv'
  <2>1. worker' \in [Workers -> Worker] /\ \A v \in Workers : LetsGo(v)
    BY <1>1, <1>3, IdleLemma DEF Crash, Worker, Idle, LetsGo, Holding
  <2> QED
    BY <1>1, <1>3, <2>1, SameRowLemma, TableLemma DEF Crash, pipVars
<1>4. ASSUME NEW e \in Events, OperatorBegin(w, e) PROVE IInv'
  <2>1. /\ worker' \in [Workers -> Worker] /\ \A v \in Workers : v # w => worker'[v] = worker[v]
        /\ worker'[w].pc = "op_recover" /\ worker'[w].cur = now /\ worker'[w].ev = e
    BY <1>1, <1>4, IdleLemma DEF OperatorBegin, Worker, Idle
  <2>2. \A v \in Workers : LetsGo(v)
    BY <1>1, <2>1 DEF LetsGo, Holding
  <2> QED
    BY <1>1, <1>4, <2>1, <2>2, SameRowLemma, TableLemma DEF OperatorBegin, pipVars
<1> QED
  BY <1>2, <1>3, <1>4

(* Recovery of the whole table: the delivery pass, the operator's retry and *)
(* the second half of a promotion.                                          *)
LEMMA RecoverMovesLemma ==
  ASSUME IInv, NEW w \in Workers, row' = [e \in Events |-> RecoverRow(row[e], worker[w].cur)],
         audit' = audit
  PROVE  row' \in [Events -> Row] /\ \A e \in Events : RowMoves(e)
<1>1. worker[w].cur \in Nat /\ worker[w].cur <= now /\ now \in Nat
  BY DEF IInv, TypeOK, ClockInv, Worker
<1> SUFFICES ASSUME NEW e \in Events PROVE row'[e] \in Row /\ RowMoves(e)
  OBVIOUS
<1> DEFINE c == worker[w].cur
           r == row[e]
           s == RecoverRow(r, c)
<1>2. row'[e] = s /\ r \in Row /\ c \in Nat /\ c <= now /\ r = row[e]
  BY <1>1 DEF IInv, TypeOK
<1> HIDE DEF c, r
<1>3. /\ s \in Row /\ s.gen = r.gen /\ s.attempts = r.attempts
      /\ s.state = "absent" <=> r.state = "absent"
      /\ r.state \in {"absent", "acknowledged", "dead_letter"} => s = r
      /\ s.state \in {"acknowledged", "in_flight"} => s = r
      /\ r.state = "in_flight" /\ r.lease > c => s = r
      /\ s.state = "dead_letter" =>
           \/ r.state = "dead_letter"
           \/ r.state = "in_flight" /\ r.mode = "operator_one_shot"
           \/ c >= r.gen + Horizon
  BY <1>2, RecoverRowLemma
<1> HIDE DEF s
<1>4. s.state = "dead_letter" =>
        s = r \/ now >= s.gen + Horizon \/ audit'[e] > 0
  BY <1>1, <1>2, <1>3, TimingAssumption DEF IInv, RowInv, Row
<1>5. \A v \in Workers :
        Holding(v) /\ worker[v].ev = e /\ now < worker[v].lease => s = r
  <2> SUFFICES ASSUME NEW v \in Workers, Holding(v), worker[v].ev = e, now < worker[v].lease
               PROVE  s = r
    OBVIOUS
  <2>1. r.state = "in_flight" /\ r.lease = worker[v].lease
    BY <1>2 DEF IInv, HolderInv
  <2>2. worker[v].lease \in Nat
    BY DEF IInv, TypeOK, Worker
  <2> QED
    BY <1>1, <1>2, <1>3, <2>1, <2>2
<1> QED
  BY <1>2, <1>3, <1>4, <1>5 DEF RowMoves

(* The two places that call recover.                                        *)
LEMMA RecoverLemma ==
  ASSUME IInv, NEW w \in Workers
  PROVE  Recover(w) \/ PromoteRecover(w) => IInv'
<1>1. /\ now \in Nat /\ crashes \in 0 .. MaxCrashes /\ MaxCrashes \in Nat
      /\ worker \in [Workers -> Worker]
      /\ audit \in [Events -> 0 .. MaxAudits] /\ MaxAudits \in Nat
  BY BoundAssumption DEF IInv, TypeOK
<1>2. ASSUME Recover(w) PROVE IInv'
  <2>1. row' \in [Events -> Row] /\ \A e \in Events : RowMoves(e)
    BY <1>2, RecoverMovesLemma DEF Recover
  <2>2. /\ worker' \in [Workers -> Worker] /\ \A v \in Workers : v # w => worker'[v] = worker[v]
        /\ worker'[w].pc \in {"claim", "op_claim"} /\ worker'[w].cur = worker[w].cur
        /\ worker'[w].ev = worker[w].ev
        /\ worker'[w].pc = "op_claim" => worker[w].pc = "op_recover"
    BY <1>1, <1>2 DEF Recover, Worker
  <2>3. \A v \in Workers : LetsGo(v)
    BY <2>2 DEF LetsGo, Holding, IInv, ClockInv, OperatorInv
  <2> QED
    BY <1>1, <1>2, <2>1, <2>2, <2>3, TableLemma DEF Recover, pipVars
<1>3. ASSUME PromoteRecover(w) PROVE IInv'
  <2>1. row' \in [Events -> Row] /\ \A e \in Events : RowMoves(e)
    BY <1>3, RecoverMovesLemma DEF PromoteRecover
  <2>2. /\ worker' \in [Workers -> Worker] /\ \A v \in Workers : v # w => worker'[v] = worker[v]
        /\ worker'[w].pc = "idle" /\ worker'[w].cur = 0
    BY <1>1, <1>3, IdleLemma DEF PromoteRecover, Idle
  <2>3. \A v \in Workers : LetsGo(v)
    BY <1>1, <2>2 DEF LetsGo, Holding
  <2> QED
    BY <1>1, <1>3, <2>1, <2>2, <2>3, TableLemma DEF PromoteRecover, pipVars
<1> QED
  BY <1>2, <1>3

(* A promotion adds a row nobody can have claimed.                          *)
LEMMA EnqueueLemma ==
  ASSUME IInv, NEW w \in Workers, NEW e \in Events, NEW g \in Nat, NEW c \in Nat, Enqueue(w, e, g, c)
  PROVE  IInv'
<1>1. /\ now \in Nat /\ crashes \in 0 .. MaxCrashes /\ worker \in [Workers -> Worker]
      /\ row \in [Events -> Row]
      /\ audit \in [Events -> 0 .. MaxAudits] /\ MaxAudits \in Nat
  BY BoundAssumption DEF IInv, TypeOK
<1>2. NewRow(g, c) \in Row /\ NewRow(g, c).state = "pending" /\ NewRow(g, c).attempts = 0
  BY DEF NewRow, NoRow, Row, States, Queued, Modes, Reasons
<1>3. /\ worker' \in [Workers -> Worker] /\ \A v \in Workers : v # w => worker'[v] = worker[v]
      /\ worker'[w].pc = "promoted" /\ worker'[w].cur = c /\ c <= now
  BY <1>1, IdleLemma DEF Enqueue, Worker, Idle
<1>4. \A v \in Workers : LetsGo(v)
  BY <1>3 DEF LetsGo, Holding
<1>5. row' \in [Events -> Row]
  BY <1>1, <1>2 DEF Enqueue
<1>6. \A f \in Events : row'[f] = row[f] \/ (f = e /\ row[f].state = "absent" /\ row'[f] = NewRow(g, c))
  BY <1>1 DEF Enqueue
<1>7. ASSUME NEW f \in Events PROVE RowMoves(f)
  <2>1. CASE row'[f] = row[f]
    BY <2>1, SameRowLemma
  <2>2. CASE row[f].state = "absent" /\ row'[f] = NewRow(g, c)
    <3>1. row[f].attempts = 0
      BY <2>2 DEF IInv, AbsentInv
    <3> QED
      BY <1>2, <2>2, <3>1, NoRunningLeaseLemma DEF RowMoves
  <2> QED
    BY <1>6, <2>1, <2>2
<1> QED
  BY <1>1, <1>3, <1>4, <1>5, <1>7, TableLemma DEF Enqueue, pipVars

(* The operator parks a queued row.                                         *)
LEMMA OperatorDeadLetterLemma ==
  ASSUME IInv, NEW e \in Events, OperatorDeadLetter(e)
  PROVE  IInv'
<1>1. /\ now \in Nat /\ crashes \in 0 .. MaxCrashes /\ worker \in [Workers -> Worker]
      /\ row \in [Events -> Row]
      /\ audit \in [Events -> 0 .. MaxAudits] /\ MaxAudits \in Nat
  BY BoundAssumption DEF IInv, TypeOK
<1>2. /\ audit' \in [Events -> 0 .. MaxAudits] /\ \A f \in Events : audit'[f] >= audit[f]
      /\ audit'[e] > 0
  BY <1>1 DEF OperatorDeadLetter
<1>3. /\ row' \in [Events -> Row] /\ \A f \in Events : f # e => row'[f] = row[f]
      /\ row'[e].state = "dead_letter" /\ row'[e].attempts = row[e].attempts
  <2> DEFINE s == [row[e] EXCEPT !.state = "dead_letter", !.reason = "operator"]
  <2>1. s \in Row /\ s.state = "dead_letter" /\ s.attempts = row[e].attempts
    BY <1>1 DEF Row, States, Reasons
  <2>2. row' = [row EXCEPT ![e] = s]
    BY <1>1 DEF OperatorDeadLetter
  <2> HIDE DEF s
  <2> QED
    BY <1>1, <2>1, <2>2
<1>4. row[e].state # "in_flight"
  BY DEF OperatorDeadLetter, Queued
<1>5. RowMoves(e)
  BY <1>2, <1>3, <1>4, NoRunningLeaseLemma DEF RowMoves
<1>6. \A f \in Events : RowMoves(f)
  BY <1>3, <1>5, SameRowLemma
<1>7. \A v \in Workers : LetsGo(v)
  BY DEF LetsGo, OperatorDeadLetter
<1> QED
  BY <1>1, <1>2, <1>3, <1>6, <1>7, TableLemma DEF OperatorDeadLetter, pipVars

(* The fenced UPDATE: only the holder of the row's token writes it.         *)
LEMMA FinishLemma ==
  ASSUME IInv, NEW w \in Workers, Finish(w)
  PROVE  IInv'
<1> DEFINE k == worker[w]
           e == worker[w].ev
<1>1. /\ now \in Nat /\ crashes \in 0 .. MaxCrashes /\ worker \in [Workers -> Worker]
      /\ row \in [Events -> Row] /\ k \in Worker
      /\ audit \in [Events -> 0 .. MaxAudits] /\ MaxAudits \in Nat
  BY BoundAssumption DEF IInv, TypeOK
<1>2. Holding(w) /\ e \in Events /\ worker[w].pc = "finish"
  BY DEF IInv, HolderInv, Finish, Holding
<1>3. /\ worker' \in [Workers -> Worker] /\ \A v \in Workers : v # w => worker'[v] = worker[v]
      /\ worker'[w].pc = "idle" /\ worker'[w].cur = 0
  BY <1>1, IdleLemma DEF Finish, Idle
<1>4. \A v \in Workers : LetsGo(v)
  BY <1>1, <1>3 DEF LetsGo, Holding
<1>5. \A f \in Events : f # e => row'[f] = row[f]
  BY <1>1, <1>2 DEF Finish
<1>6. row'[e] = row[e] \/ (Fenced(row[e], k) /\ row'[e] = FinishedRow(row[e], k))
  BY <1>1, <1>2 DEF Finish
<1>7. RowMoves(e)
  <2>1. CASE row'[e] = row[e]
    BY <1>2, <2>1, SameRowLemma
  <2>2. CASE Fenced(row[e], k) /\ row'[e] = FinishedRow(row[e], k)
    <3> DEFINE s == FinishedRow(row[e], k)
    <3>1. /\ s \in Row /\ s.gen = row[e].gen /\ s.attempts = row[e].attempts
          /\ s.state \in {"acknowledged", "dead_letter", "retry_wait"}
          /\ s.state = "acknowledged" <=> k.out = "ack"
          /\ s.state = "dead_letter" => k.out = "dead" \/ k.mode = "operator_one_shot"
      BY <1>1, <1>2, FinishedRowLemma
    <3> HIDE DEF s
    <3>2. s = row'[e]
      BY <2>2 DEF s
    <3>3. \A v \in Workers :
            ~(Holding(v) /\ Holding(v)' /\ worker[v].ev = e /\ now < worker[v].lease)
      <4> SUFFICES ASSUME NEW v \in Workers, Holding(v), Holding(v)', worker[v].ev = e,
                          now < worker[v].lease
                   PROVE  FALSE
        OBVIOUS
      <4>1. v # w
        BY <1>3 DEF Holding
      <4>2. row[e].token = worker[v].tok
        BY DEF IInv, HolderInv
      <4>3. row[e].token = worker[w].tok
        BY <2>2 DEF Fenced
      <4> QED
        BY <1>2, <4>1, <4>2, <4>3 DEF IInv, DistinctTokens
    <3>4. /\ k.out = "ack" => e \in accepted
          /\ k.out = "dead" => e \in rejected
          /\ k.mode = "operator_one_shot" => audit[e] > 0
      BY <1>2 DEF IInv, OutcomeInv, HolderInv
    <3>5. audit' = audit
      BY DEF Finish
    <3> QED
      BY <3>1, <3>2, <3>3, <3>4, <3>5 DEF RowMoves
  <2> QED
    BY <1>6, <2>1, <2>2
<1>8. \A f \in Events : RowMoves(f)
  BY <1>5, <1>7, SameRowLemma
<1>9. row' \in [Events -> Row]
  <2>1. row' = [row EXCEPT ![e] = row'[e]]
    BY <1>1, <1>2 DEF Finish
  <2> QED
    BY <1>1, <1>7, <2>1 DEF RowMoves
<1> QED
  BY <1>1, <1>3, <1>4, <1>8, <1>9, TableLemma DEF Finish, pipVars

-----------------------------------------------------------------------------
(* A new claim: of a queued row within the horizon, or an audited one of a  *)
(* dead letter.                                                             *)
LEMMA ClaimLemma ==
  ASSUME IInv, NEW w \in Workers, NEW e \in Events, NEW mode \in Modes, Claim(w, e, mode),
         row[e].state \in Queued \cup {"dead_letter"},
         mode = "automatic" => worker[w].cur + Lease <= row[e].gen + Horizon,
         mode = "operator_one_shot" => audit'[e] > 0,
         audit' \in [Events -> 0 .. MaxAudits], \A f \in Events : audit'[f] >= audit[f],
         now' = now, crashes' = crashes, pipVars' = pipVars
  PROVE  IInv'
<1> DEFINE c == worker[w].cur
           s == ClaimRow(row[e], c, mode)
<1>1. /\ now \in Nat /\ worker \in [Workers -> Worker] /\ row \in [Events -> Row]
      /\ \A f \in Events : audit[f] \in Nat /\ audit'[f] \in Nat
      /\ c \in Nat /\ c <= now /\ row[e] \in Row
      /\ sent' = sent /\ accepted' = accepted /\ rejected' = rejected
  BY BoundAssumption DEF IInv, TypeOK, ClockInv, Worker, pipVars
<1>2. /\ s \in Row /\ s.state = "in_flight" /\ s.mode = mode /\ s.gen = row[e].gen
      /\ s.attempts = row[e].attempts + 1 /\ s.token = row[e].attempts + 1
      /\ s.lease = c + Lease
  <2> HIDE DEF c
  <2> QED
    BY <1>1, ClaimRowLemma
<1> HIDE DEF s
<1>3. row' = [row EXCEPT ![e] = s]
  BY DEF Claim, s
<1>4. row' \in [Events -> Row] /\ row'[e] = s /\ \A f \in Events : f # e => row'[f] = row[f]
  BY <1>1, <1>2, <1>3
<1>5. /\ worker' \in [Workers -> Worker] /\ \A v \in Workers : v # w => worker'[v] = worker[v]
      /\ worker'[w].pc = "post" /\ worker'[w].cur = 0 /\ worker'[w].ev = e
      /\ worker'[w].tok = s.token /\ worker'[w].lease = s.lease /\ worker'[w].mode = mode
  <2> DEFINE k == [Idle EXCEPT !.pc = "post", !.ev = e, !.tok = s.token, !.lease = s.lease,
                               !.mode = mode]
  <2>1. s.token \in Nat /\ s.lease \in Nat
    BY <1>2 DEF Row
  <2>2. /\ k \in Worker /\ k.pc = "post" /\ k.cur = 0 /\ k.ev = e
        /\ k.tok = s.token /\ k.lease = s.lease /\ k.mode = mode
    BY <2>1, IdleLemma DEF Worker, Idle
  <2>3. worker' = [worker EXCEPT ![w] = k]
    BY DEF Claim, s
  <2> HIDE DEF k
  <2> QED
    BY <1>1, <2>2, <2>3
<1>6. row[e].state # "in_flight" /\ row[e].state # "absent" /\ row[e].attempts \in Nat
  BY <1>1 DEF Queued, Row
<1>7. TypeOK'
  BY <1>1, <1>4, <1>5 DEF IInv, TypeOK
<1>8. ClockInv' /\ OperatorInv' /\ OutcomeInv'
  BY <1>1, <1>5 DEF IInv, ClockInv, OperatorInv, OutcomeInv
<1>9. AbsentInv' /\ RowInv' /\ SentInv' /\ AcknowledgedIsAccepted'
  BY <1>1, <1>2, <1>4 DEF IInv, TypeOK, AbsentInv, RowInv, SentInv, AcknowledgedIsAccepted
<1>10. LeaseWithinHorizon'
  BY <1>2, <1>4 DEF IInv, LeaseWithinHorizon
<1>11. DeadLetterJustified'
  BY <1>1, <1>2, <1>4 DEF IInv, DeadLetterJustified
<1>12. ASSUME NEW v \in Workers, v # w, Holding(v)'
       PROVE  Holding(v) /\ worker'[v] = worker[v] /\ worker[v].tok \in Nat /\ worker[v].ev \in Events
              /\ (worker[v].ev = e => worker[v].tok < s.token /\ ~(now < worker[v].lease))
  <2>1. Holding(v) /\ worker'[v] = worker[v] /\ worker[v].tok \in Nat
    BY <1>1, <1>5, <1>12 DEF Holding, Worker
  <2> QED
    BY <1>2, <1>6, <1>12, <2>1 DEF IInv, HolderInv
<1>13. HolderInv'
  <2> SUFFICES ASSUME NEW v \in Workers, Holding(v)'
               PROVE  LET k == worker'[v]  r == row'[worker'[v].ev] IN
                      /\ k.ev \in Events
                      /\ r.state # "absent"
                      /\ k.tok <= r.attempts
                      /\ k.mode = "operator_one_shot" => audit'[k.ev] > 0
                      /\ now < k.lease => r.state = "in_flight" /\ r.token = k.tok
                      /\ r.state = "in_flight" /\ r.token = k.tok
                           => r.lease = k.lease /\ r.mode = k.mode
    BY DEF HolderInv
  <2>1. CASE v = w
    BY <1>1, <1>2, <1>4, <1>5, <1>6, <2>1
  <2>2. CASE v # w /\ worker[v].ev = e
    <3>1. worker'[v].ev = e /\ worker'[v] = worker[v] /\ worker[v].tok < s.token /\ worker[v].tok \in Nat
          /\ ~(now < worker[v].lease) /\ Holding(v)
      BY <1>12, <2>2
    <3>2. worker[v].mode = "operator_one_shot" => audit'[e] > 0
      BY <1>1, <3>1 DEF IInv, HolderInv
    <3> QED
      BY <1>2, <1>4, <1>6, <3>1, <3>2
  <2>3. CASE v # w /\ worker[v].ev # e
    <3>1. worker'[v] = worker[v] /\ worker[v].ev \in Events /\ Holding(v)
      BY <1>12, <2>3
    <3> QED
      BY <1>1, <1>4, <2>3, <3>1 DEF IInv, HolderInv
  <2> QED
    BY <2>1, <2>2, <2>3
<1>14. DistinctTokens'
  <2> SUFFICES ASSUME NEW u \in Workers, NEW v \in Workers, Holding(u)', Holding(v)',
                      worker'[u].ev = worker'[v].ev, u # v
               PROVE  worker'[u].tok # worker'[v].tok
    BY DEF DistinctTokens
  <2>1. CASE u # w /\ v # w
    BY <1>12, <2>1 DEF IInv, DistinctTokens
  <2>2. CASE u = w \/ v = w
    BY <1>2, <1>5, <1>6, <1>12, <2>2
  <2> QED
    BY <2>1, <2>2
<1> QED
  BY <1>7, <1>8, <1>9, <1>10, <1>11, <1>13, <1>14 DEF IInv

(* claim_due claims a queued row or gives up.                               *)
LEMMA ClaimDueLemma ==
  ASSUME IInv, NEW w \in Workers, ClaimDue(w)
  PROVE  IInv'
<1> DEFINE c == worker[w].cur
<1>1. /\ now \in Nat /\ crashes \in 0 .. MaxCrashes /\ worker \in [Workers -> Worker]
      /\ row \in [Events -> Row] /\ c \in Nat
      /\ audit \in [Events -> 0 .. MaxAudits] /\ MaxAudits \in Nat
  BY BoundAssumption DEF IInv, TypeOK, Worker
<1>2. now' = now /\ audit' = audit /\ crashes' = crashes /\ pipVars' = pipVars
  BY DEF ClaimDue
<1>3. CASE worker' = [worker EXCEPT ![w] = Idle] /\ UNCHANGED row
  <2>1. /\ worker' \in [Workers -> Worker] /\ \A v \in Workers : v # w => worker'[v] = worker[v]
        /\ worker'[w].pc = "idle" /\ worker'[w].cur = 0
    BY <1>1, <1>3, IdleLemma DEF Idle
  <2>2. \A v \in Workers : LetsGo(v)
    BY <1>1, <2>1 DEF LetsGo, Holding
  <2> QED
    BY <1>1, <1>2, <1>3, <2>1, <2>2, SameRowLemma, TableLemma DEF pipVars
<1>4. ASSUME NEW e \in Events, Due(row[e], c), Claim(w, e, "automatic")
      PROVE  IInv'
  <2>1. row[e].state \in Queued /\ c + Lease <= row[e].gen + Horizon
    BY <1>1, <1>4, TimingAssumption DEF Due, Row
  <2>2. "automatic" \in Modes
    BY DEF Modes
  <2> QED
    BY <1>1, <1>2, <1>4, <2>1, <2>2, ClaimLemma
<1> QED
  BY <1>3, <1>4 DEF ClaimDue

(* claim_dead_letter_once claims a dead letter or gives up.                 *)
LEMMA ClaimDeadLetterOnceLemma ==
  ASSUME IInv, NEW w \in Workers, ClaimDeadLetterOnce(w)
  PROVE  IInv'
<1> DEFINE e == worker[w].ev
<1>1. /\ now \in Nat /\ crashes \in 0 .. MaxCrashes /\ worker \in [Workers -> Worker]
      /\ row \in [Events -> Row] /\ e \in Events
      /\ audit \in [Events -> 0 .. MaxAudits] /\ MaxAudits \in Nat
  BY BoundAssumption DEF IInv, TypeOK, OperatorInv, ClaimDeadLetterOnce
<1>2. now' = now /\ crashes' = crashes /\ pipVars' = pipVars
  BY DEF ClaimDeadLetterOnce
<1>3. CASE worker' = [worker EXCEPT ![w] = Idle] /\ UNCHANGED <<row, audit>>
  <2>1. /\ worker' \in [Workers -> Worker] /\ \A v \in Workers : v # w => worker'[v] = worker[v]
        /\ worker'[w].pc = "idle" /\ worker'[w].cur = 0
    BY <1>1, <1>3, IdleLemma DEF Idle
  <2>2. \A v \in Workers : LetsGo(v)
    BY <1>1, <2>1 DEF LetsGo, Holding
  <2> QED
    BY <1>1, <1>2, <1>3, <2>1, <2>2, SameRowLemma, TableLemma DEF pipVars
<1>4. CASE /\ row[e].state = "dead_letter" /\ audit[e] < MaxAudits
           /\ audit' = [audit EXCEPT ![e] = @ + 1]
           /\ Claim(w, e, "operator_one_shot")
  <2>1. /\ audit' \in [Events -> 0 .. MaxAudits] /\ audit'[e] > 0
        /\ \A f \in Events : audit'[f] >= audit[f]
    BY <1>1, <1>4
  <2>2. "operator_one_shot" \in Modes
    BY DEF Modes
  <2> HIDE DEF e
  <2> QED
    BY <1>1, <1>2, <1>4, <2>1, <2>2, ClaimLemma
<1> QED
  BY <1>3, <1>4 DEF ClaimDeadLetterOnce

-----------------------------------------------------------------------------
(* Steps of a claim in progress: the row, the token and the lease are the   *)
(* ones of the claim.                                                       *)
KeepsClaim(w) ==
  /\ worker' \in [Workers -> Worker]
  /\ \A v \in Workers : v # w => worker'[v] = worker[v]
  /\ Holding(w) /\ Holding(w)'
  /\ worker'[w].cur = worker[w].cur /\ worker'[w].ev = worker[w].ev
  /\ worker'[w].tok = worker[w].tok /\ worker'[w].lease = worker[w].lease
  /\ worker'[w].mode = worker[w].mode

(* What such a step cannot disturb.                                         *)
LEMMA KeepsClaimLemma ==
  ASSUME IInv, NEW w \in Workers, KeepsClaim(w), now' = now, row' = row, audit' = audit
  PROVE  (ClockInv /\ AbsentInv /\ RowInv /\ HolderInv /\ DistinctTokens /\ OperatorInv
          /\ LeaseWithinHorizon)'
<1>1. (ClockInv /\ OperatorInv)'
  BY DEF IInv, ClockInv, OperatorInv, KeepsClaim, Holding
<1>2. (AbsentInv /\ RowInv /\ LeaseWithinHorizon)'
  BY DEF IInv, AbsentInv, RowInv, LeaseWithinHorizon
<1>3. \A v \in Workers : Holding(v)' <=> Holding(v)
  BY DEF KeepsClaim, Holding
<1>4. HolderInv'
  BY <1>3 DEF IInv, HolderInv, KeepsClaim
<1>5. DistinctTokens'
  BY <1>3 DEF IInv, DistinctTokens, KeepsClaim
<1> QED
  BY <1>1, <1>2, <1>4, <1>5

(* The request leaves the process.                                          *)
LEMMA PostLemma ==
  ASSUME IInv, NEW w \in Workers, Post(w)
  PROVE  IInv'
<1>1. worker \in [Workers -> Worker] /\ Holding(w) /\ worker[w].ev \in Events
  BY DEF IInv, TypeOK, Post, Holding, HolderInv
<1>2. KeepsClaim(w) /\ worker'[w].pc = "wait"
  BY <1>1 DEF Post, KeepsClaim, Holding, Worker
<1>3. /\ sent' = sent \cup {worker[w].ev} /\ accepted' = accepted /\ rejected' = rejected
      /\ now' = now /\ row' = row /\ audit' = audit /\ crashes' = crashes
  BY DEF Post
<1>4. TypeOK'
  BY <1>1, <1>2, <1>3 DEF IInv, TypeOK, KeepsClaim
<1>5. OutcomeInv'
  BY <1>2, <1>3 DEF IInv, OutcomeInv, KeepsClaim
<1>6. (SentInv /\ AcknowledgedIsAccepted /\ DeadLetterJustified)'
  BY <1>1, <1>3 DEF IInv, SentInv, AcknowledgedIsAccepted, DeadLetterJustified, HolderInv
<1> QED
  BY <1>2, <1>3, <1>4, <1>5, <1>6, KeepsClaimLemma DEF IInv

(* PIP handles a request.                                                   *)
LEMMA PipLemma ==
  ASSUME IInv, NEW e \in Events, PipAccept(e) \/ PipReject(e)
  PROVE  IInv'
<1>1. /\ now' = now /\ row' = row /\ audit' = audit /\ worker' = worker /\ crashes' = crashes
      /\ sent' = sent /\ accepted \subseteq accepted' /\ accepted' \subseteq sent
      /\ rejected \subseteq rejected' /\ rejected' \subseteq sent
  BY DEF PipAccept, PipReject, IInv, TypeOK
<1>2. TypeOK'
  BY <1>1 DEF IInv, TypeOK
<1>3. (ClockInv /\ AbsentInv /\ RowInv /\ HolderInv /\ DistinctTokens /\ OperatorInv /\ SentInv
       /\ LeaseWithinHorizon)'
  BY <1>1 DEF IInv, ClockInv, AbsentInv, RowInv, HolderInv, DistinctTokens, OperatorInv, SentInv,
     LeaseWithinHorizon, Holding
<1>4. (OutcomeInv /\ AcknowledgedIsAccepted /\ DeadLetterJustified)'
  BY <1>1 DEF IInv, OutcomeInv, AcknowledgedIsAccepted, DeadLetterJustified
<1> QED
  BY <1>2, <1>3, <1>4 DEF IInv

(* The process decides: the outcome is backed by what PIP did. *)
LEMMA DecideLemma ==
  ASSUME IInv, NEW w \in Workers, NEW out \in Outcomes, NEW d \in Nat,
         worker[w].pc = "wait", Decide(w, out, d),
         out = "ack" => worker[w].ev \in accepted, out = "dead" => worker[w].ev \in rejected,
         now' = now, row' = row, audit' = audit, crashes' = crashes, pipVars' = pipVars
  PROVE  IInv'
<1>1. worker \in [Workers -> Worker] /\ now \in Nat
      /\ sent' = sent /\ accepted' = accepted /\ rejected' = rejected
  BY BoundAssumption DEF IInv, TypeOK, pipVars
<1>2. KeepsClaim(w) /\ worker'[w].out = out
  <2> DEFINE k == [worker[w] EXCEPT !.pc = "finish", !.out = out, !.fin = now, !.delay = d]
  <2>1. /\ k \in Worker /\ k.pc = "finish" /\ k.out = out /\ k.cur = worker[w].cur
        /\ k.ev = worker[w].ev /\ k.tok = worker[w].tok /\ k.lease = worker[w].lease
        /\ k.mode = worker[w].mode
    BY <1>1 DEF Worker
  <2>2. worker' = [worker EXCEPT ![w] = k]
    BY <1>1 DEF Decide
  <2> HIDE DEF k
  <2> QED
    BY <1>1, <2>1, <2>2 DEF KeepsClaim, Holding
<1>3. TypeOK'
  BY <1>1, <1>2 DEF IInv, TypeOK, KeepsClaim
<1>4. OutcomeInv'
  BY <1>1, <1>2 DEF IInv, OutcomeInv, KeepsClaim
<1>5. (SentInv /\ AcknowledgedIsAccepted /\ DeadLetterJustified)'
  BY <1>1 DEF IInv, SentInv, AcknowledgedIsAccepted, DeadLetterJustified
<1> QED
  BY <1>2, <1>3, <1>4, <1>5, KeepsClaimLemma DEF IInv

(* Only a well-formed answer that is bound to the event and whose HTTP      *)
(* status agrees with it is taken as final.                                 *)
LEMMA OutcomeLemma ==
  ASSUME NEW a \in Answer, NEW e \in Events, PossibleAnswer(a)
  PROVE  /\ Outcome(a, e) \in Outcomes
         /\ Outcome(a, e) = "ack" => e \in accepted
         /\ Outcome(a, e) = "dead" => e \in rejected
BY NoneAssumption DEF Outcome, Outcomes, PossibleAnswer, ParseDeliveryResult, Answer

(* The request is answered, or fails.                                       *)
LEMMA AnswerLemma ==
  ASSUME IInv, NEW w \in Workers
  PROVE  ReceiveAnswer(w) \/ RequestFails(w) => IInv'
<1>1. \A n, a : RetryDelays(n, a) \subseteq Nat
  BY TimingAssumption DEF RetryDelays
<1>2. ASSUME ReceiveAnswer(w) PROVE IInv'
  <2> DEFINE e == worker[w].ev
  <2>1. e \in Events /\ worker[w].pc = "wait"
    BY <1>2 DEF IInv, HolderInv, Holding, ReceiveAnswer
  <2>2. PICK a \in Answer : \E d \in RetryDelays(worker[w].tok, RetryAfter(a, e)) :
           PossibleAnswer(a) /\ Decide(w, Outcome(a, e), IF Outcome(a, e) = "retry" THEN d ELSE 0)
    BY <1>2 DEF ReceiveAnswer
  <2>3. PICK d \in RetryDelays(worker[w].tok, RetryAfter(a, e)) :
           PossibleAnswer(a) /\ Decide(w, Outcome(a, e), IF Outcome(a, e) = "retry" THEN d ELSE 0)
    BY <2>2
  <2>4. /\ Outcome(a, e) \in Outcomes
        /\ Outcome(a, e) = "ack" => e \in accepted
        /\ Outcome(a, e) = "dead" => e \in rejected
    <3> HIDE DEF e
    <3> QED
      BY <2>1, <2>3, OutcomeLemma
  <2>5. (IF Outcome(a, e) = "retry" THEN d ELSE 0) \in Nat
    BY <1>1, <2>3
  <2>6. now' = now /\ row' = row /\ audit' = audit /\ crashes' = crashes /\ pipVars' = pipVars
    BY <1>2 DEF ReceiveAnswer
  <2> QED
    BY <2>1, <2>3, <2>4, <2>5, <2>6, DecideLemma
<1>3. ASSUME RequestFails(w) PROVE IInv'
  <2>1. PICK d \in RetryDelays(worker[w].tok, 0) : Decide(w, "retry", d)
    BY <1>3 DEF RequestFails
  <2>2. "retry" \in Outcomes /\ d \in Nat
    BY <1>1, <2>1 DEF Outcomes
  <2>3. /\ now' = now /\ row' = row /\ audit' = audit /\ crashes' = crashes /\ pipVars' = pipVars
        /\ worker[w].pc = "wait"
    BY <1>3 DEF RequestFails
  <2> QED
    BY <2>1, <2>2, <2>3, DecideLemma
<1> QED
  BY <1>2, <1>3

-----------------------------------------------------------------------------
(* Every step preserves the invariant.                                      *)
LEMMA InductiveStep == IInv /\ [Next]_vars => IInv'
<1> SUFFICES ASSUME IInv, [Next]_vars PROVE IInv'
  OBVIOUS
<1>1. CASE Tick
  BY <1>1, TickLemma
<1>2. ASSUME NEW w \in Workers, NEW e \in Events, NEW g \in 0 .. MaxTime, NEW c \in 0 .. MaxTime,
             Enqueue(w, e, g, c)
      PROVE  IInv'
  <2>1. g \in Nat /\ c \in Nat
    BY BoundAssumption
  <2> QED
    BY <1>2, <2>1, EnqueueLemma
<1>3. ASSUME NEW e \in Events, OperatorDeadLetter(e) PROVE IInv'
  BY <1>3, OperatorDeadLetterLemma
<1>4. ASSUME NEW e \in Events, PipAccept(e) \/ PipReject(e) PROVE IInv'
  BY <1>4, PipLemma
<1>5. ASSUME NEW w \in Workers, WorkerStep(w) PROVE IInv'
  BY <1>5, RecoverLemma, BeginLemma, ClaimDueLemma, ClaimDeadLetterOnceLemma, PostLemma,
     AnswerLemma, FinishLemma DEF WorkerStep
<1>6. ASSUME NEW w \in Workers, Crash(w) PROVE IInv'
  BY <1>6, BeginLemma
<1>7. ASSUME NEW w \in Workers, NEW e \in Events, OperatorBegin(w, e) PROVE IInv'
  BY <1>7, BeginLemma
<1>8. CASE UNCHANGED vars
  <2>1. /\ now' = now /\ row' = row /\ audit' = audit /\ worker' = worker /\ crashes' = crashes
        /\ sent' = sent /\ accepted' = accepted /\ rejected' = rejected
    BY <1>8 DEF vars
  <2> QED
    BY <2>1 DEF IInv, TypeOK, ClockInv, AbsentInv, RowInv, HolderInv, DistinctTokens, OutcomeInv,
       OperatorInv, SentInv, AcknowledgedIsAccepted, LeaseWithinHorizon, DeadLetterJustified, Holding
<1> QED
  BY <1>1, <1>2, <1>3, <1>4, <1>5, <1>6, <1>7, <1>8 DEF Next

(* The invariant holds in every state of the outbox.                        *)
LEMMA Inductive == Spec => []IInv
BY InitLemma, InductiveStep, PTL DEF Spec

(* Every table, lease, token and process of the outbox stays in its type,   *)
(* and PIP only ever accepts or rejects what Hermes sent.                   *)
THEOREM TypeCorrect == Spec => []TypeOK
<1>1. IInv => TypeOK
  BY DEF IInv
<1> QED
  BY <1>1, Inductive, PTL

(* Two processes never work on one event under leases that both run, for    *)
(* any number of processes, any lease and any crash (claim_due, recover).   *)
THEOREM LeaseExclusionHolds == Spec => []LeaseExclusion
<1>1. IInv => LeaseExclusion
  BY DEF IInv, HolderInv, DistinctTokens, LeaseExclusion
<1> QED
  BY <1>1, Inductive, PTL

(* An acknowledgement is recorded only for what PIP accepted                *)
(* (parse_delivery_result, _terminal_status_matches_result, _finish).       *)
THEOREM AcknowledgedIsAcceptedHolds == Spec => []AcknowledgedIsAccepted
<1>1. IInv => AcknowledgedIsAccepted
  BY DEF IInv
<1> QED
  BY <1>1, Inductive, PTL

(* The lease of every automatic claim ends within the horizon (claim_due).  *)
THEOREM LeaseWithinHorizonHolds == Spec => []LeaseWithinHorizon
<1>1. IInv => LeaseWithinHorizon
  BY DEF IInv
<1> QED
  BY <1>1, Inductive, PTL

(* No number of failed attempts, crashes or expired leases makes a dead     *)
(* letter (recover, _finish).                                               *)
THEOREM DeadLetterJustifiedHolds == Spec => []DeadLetterJustified
<1>1. IInv => DeadLetterJustified
  BY DEF IInv
<1> QED
  BY <1>1, Inductive, PTL

-----------------------------------------------------------------------------
(* What one step may do to one row, in the terms of module Delivery. *)
RowAdvances(e) ==
  /\ row[e].state = "acknowledged" => row'[e] = row[e]
  /\ Contract!MayBecome(e, Standing(row[e]), Standing(row'[e]))

(* A row that stays as it is advances by stuttering.                        *)
LEMMA SameRowAdvances ==
  ASSUME NEW e \in Events, row'[e] = row[e]
  PROVE  RowAdvances(e)
BY DEF RowAdvances, Contract!MayBecome

(* Recovery parks owed rows and leaves the settled ones.                    *)
LEMMA RecoverAdvances ==
  ASSUME IInv, NEW w \in Workers, row' = [e \in Events |-> RecoverRow(row[e], worker[w].cur)]
  PROVE  \A e \in Events : RowAdvances(e)
<1> SUFFICES ASSUME NEW e \in Events PROVE RowAdvances(e)
  OBVIOUS
<1> DEFINE c == worker[w].cur
           r == row[e]
           s == RecoverRow(r, c)
<1>1. row'[e] = s /\ r \in Row /\ c \in Nat /\ r = row[e]
  BY DEF IInv, TypeOK, Worker
<1> HIDE DEF c, r
<1>2. /\ s \in Row
      /\ s.state = "absent" <=> r.state = "absent"
      /\ r.state \in {"absent", "acknowledged", "dead_letter"} => s = r
      /\ s.state \in {"acknowledged", "in_flight"} => s = r
      /\ r.state = "in_flight" /\ r.mode = "operator_one_shot"
           => s.state \in {"in_flight", "dead_letter"}
  BY <1>1, RecoverRowLemma
<1> HIDE DEF s
<1>3. CASE s = r
  BY <1>1, <1>3, SameRowAdvances
<1>4. CASE s # r
  <2>1. /\ r.state \in {"pending", "retry_wait", "in_flight"}
        /\ s.state \in {"pending", "retry_wait", "dead_letter"}
        /\ r.state = "in_flight" /\ r.mode = "operator_one_shot" => s.state = "dead_letter"
    BY <1>1, <1>2, <1>4 DEF Row, States, Queued
  <2>2. Standing(r) = "owed" \/ (Standing(r) = "parked" /\ Standing(s) = "parked")
    BY <2>1 DEF Standing
  <2>3. Standing(s) \in {"owed", "parked"}
    BY <2>1 DEF Standing
  <2> QED
    BY <1>1, <2>1, <2>2, <2>3 DEF RowAdvances, Contract!MayBecome
<1> QED
  BY <1>3, <1>4

(* A claim moves an owed row to owed and a parked one to parked.            *)
LEMMA ClaimAdvances ==
  ASSUME IInv, NEW w \in Workers, NEW e \in Events, NEW mode \in Modes, Claim(w, e, mode),
         \/ mode = "automatic" /\ row[e].state \in Queued
         \/ mode = "operator_one_shot" /\ row[e].state = "dead_letter"
  PROVE  \A f \in Events : RowAdvances(f)
<1>1. row \in [Events -> Row] /\ row[e] \in Row /\ worker[w].cur \in Nat
  BY DEF IInv, TypeOK, Worker
<1>2. \A f \in Events : f # e => row'[f] = row[f]
  BY <1>1 DEF Claim
<1>3. row'[e].state = "in_flight" /\ row'[e].mode = mode
  BY <1>1, ClaimRowLemma DEF Claim
<1>4. RowAdvances(e)
  BY <1>3 DEF RowAdvances, Contract!MayBecome, Standing, Queued
<1> QED
  BY <1>2, <1>4, SameRowAdvances

(* The result of an attempt delivers, parks or keeps what is owed.          *)
LEMMA FinishAdvances ==
  ASSUME IInv, NEW w \in Workers, Finish(w)
  PROVE  \A f \in Events : RowAdvances(f)
<1> DEFINE k == worker[w]
           e == worker[w].ev
<1>1. row \in [Events -> Row] /\ k \in Worker /\ e \in Events /\ worker[w].pc = "finish" /\ Holding(w)
  BY DEF IInv, TypeOK, HolderInv, Finish, Holding
<1>2. \A f \in Events : f # e => row'[f] = row[f]
  BY <1>1 DEF Finish
<1>3. row'[e] = row[e] \/ (Fenced(row[e], k) /\ row'[e] = FinishedRow(row[e], k))
  BY <1>1 DEF Finish
<1>4. CASE Fenced(row[e], k) /\ row'[e] = FinishedRow(row[e], k)
  <2> DEFINE s == FinishedRow(row[e], k)
  <2>1. /\ s.state \in {"acknowledged", "dead_letter", "retry_wait"}
        /\ s.state = "acknowledged" <=> k.out = "ack"
        /\ k.mode = "operator_one_shot" => s.state # "retry_wait"
    BY <1>1, FinishedRowLemma
  <2> HIDE DEF s
  <2>2. s = row'[e]
    BY <1>4 DEF s
  <2>3. row[e].state = "in_flight" /\ row[e].mode = k.mode
    BY <1>1, <1>4 DEF Fenced, IInv, HolderInv
  <2>4. k.out = "ack" => e \in accepted
    BY <1>1 DEF IInv, OutcomeInv
  <2>5. RowAdvances(e)
    BY <2>1, <2>2, <2>3, <2>4 DEF RowAdvances, Contract!MayBecome, Standing
  <2> QED
    BY <1>2, <2>5, SameRowAdvances
<1> QED
  BY <1>1, <1>2, <1>3, <1>4, SameRowAdvances

(* A step moves rows as Delivery allows and leaves PIP alone, or PIP takes  *)
(* an event that was sent.                                                  *)
LEMMA StepAdvances ==
  ASSUME IInv, [Next]_vars
  PROVE  \/ accepted' = accepted /\ \A e \in Events : RowAdvances(e)
         \/ row' = row /\ \E e \in Events : PipAccept(e)
<1> DEFINE Goal == \/ accepted' = accepted /\ \A e \in Events : RowAdvances(e)
                   \/ row' = row /\ \E e \in Events : PipAccept(e)
<1>1. ASSUME NEW w \in Workers, NEW e \in Events, NEW g \in 0 .. MaxTime, NEW c \in 0 .. MaxTime,
             Enqueue(w, e, g, c)
      PROVE  Goal
  <2>1. row \in [Events -> Row] /\ accepted' = accepted
    BY <1>1 DEF Enqueue, pipVars, IInv, TypeOK
  <2>2. \A f \in Events : row'[f] = row[f] \/ (row[f].state = "absent" /\ row'[f] = NewRow(g, c))
    BY <1>1, <2>1 DEF Enqueue
  <2>3. NewRow(g, c).state = "pending"
    BY DEF NewRow, NoRow
  <2>4. \A f \in Events : RowAdvances(f)
    BY <2>2, <2>3, SameRowAdvances DEF RowAdvances, Contract!MayBecome, Standing
  <2> QED
    BY <2>1, <2>4
<1>2. ASSUME NEW e \in Events, OperatorDeadLetter(e) PROVE Goal
  <2>1. row \in [Events -> Row] /\ accepted' = accepted
    BY <1>2 DEF OperatorDeadLetter, pipVars, IInv, TypeOK
  <2>2. /\ \A f \in Events : f # e => row'[f] = row[f]
        /\ row[e].state \in Queued /\ row'[e].state = "dead_letter"
    BY <1>2, <2>1 DEF OperatorDeadLetter, Row
  <2>3. RowAdvances(e)
    BY <2>2 DEF RowAdvances, Contract!MayBecome, Standing, Queued
  <2> QED
    BY <2>1, <2>2, <2>3, SameRowAdvances
<1>3. ASSUME NEW w \in Workers, Recover(w) \/ PromoteRecover(w) PROVE Goal
  BY <1>3, RecoverAdvances DEF Recover, PromoteRecover, pipVars
<1>4. ASSUME NEW w \in Workers, ClaimDue(w) PROVE Goal
  <2>1. accepted' = accepted /\ "automatic" \in Modes
    BY <1>4 DEF ClaimDue, pipVars, Modes
  <2>2. CASE UNCHANGED row
    BY <2>1, <2>2, SameRowAdvances
  <2>3. ASSUME NEW e \in Events, Due(row[e], worker[w].cur), Claim(w, e, "automatic") PROVE Goal
    BY <2>1, <2>3, ClaimAdvances DEF Due
  <2> QED
    BY <1>4, <2>2, <2>3 DEF ClaimDue
<1>5. ASSUME NEW w \in Workers, ClaimDeadLetterOnce(w) PROVE Goal
  <2>1. accepted' = accepted /\ "operator_one_shot" \in Modes /\ worker[w].ev \in Events
    BY <1>5 DEF ClaimDeadLetterOnce, pipVars, Modes, IInv, OperatorInv
  <2>2. CASE UNCHANGED row
    BY <2>1, <2>2, SameRowAdvances
  <2>3. CASE row[worker[w].ev].state = "dead_letter" /\ Claim(w, worker[w].ev, "operator_one_shot")
    <3> DEFINE e == worker[w].ev
    <3>1. e \in Events /\ row[e].state = "dead_letter" /\ Claim(w, e, "operator_one_shot")
      BY <2>1, <2>3
    <3> HIDE DEF e
    <3> QED
      BY <2>1, <3>1, ClaimAdvances
  <2> QED
    BY <1>5, <2>2, <2>3 DEF ClaimDeadLetterOnce
<1>6. ASSUME NEW w \in Workers, Finish(w) PROVE Goal
  BY <1>6, FinishAdvances DEF Finish, pipVars
<1>7. CASE row' = row /\ accepted' = accepted
  BY <1>7, SameRowAdvances
<1>8. ASSUME NEW e \in Events, PipAccept(e) PROVE Goal
  BY <1>8 DEF PipAccept
<1>9. CASE Tick
  BY <1>7, <1>9 DEF Tick, pipVars
<1>10. ASSUME NEW e \in Events, PipReject(e) PROVE Goal
  BY <1>7, <1>10 DEF PipReject
<1>11. ASSUME NEW w \in Workers,
              Begin(w) \/ Post(w) \/ ReceiveAnswer(w) \/ RequestFails(w) \/ Crash(w)
              \/ \E e \in Events : OperatorBegin(w, e)
       PROVE  Goal
  BY <1>7, <1>11 DEF Begin, Post, ReceiveAnswer, RequestFails, Crash, OperatorBegin, pipVars
<1>12. CASE UNCHANGED vars
  BY <1>7, <1>12 DEF vars
<1> QED
  BY <1>1, <1>2, <1>3, <1>4, <1>5, <1>6, <1>8, <1>9, <1>10, <1>11, <1>12 DEF Next, WorkerStep

(* An acknowledged row never changes again, whatever late worker, recovery  *)
(* pass or operator comes by (_finish, recover, claim_dead_letter_once).    *)
THEOREM AcknowledgedIsFinalHolds == Spec => AcknowledgedIsFinal
<1>1. IInv /\ [Next]_vars => \A e \in Events : row[e].state = "acknowledged" => row'[e] = row[e]
  BY StepAdvances DEF RowAdvances
<1> QED
  BY <1>1, Inductive, PTL DEF Spec, AcknowledgedIsFinal

(* The outbox with its leases, fencing tokens, retries, crashes and         *)
(* operators implements module Delivery, for every number of events and     *)
(* processes and every timing.                                              *)
THEOREM DeliveryRefinement == Spec => ImplementsDelivery
<1>1. Init => Contract!Init
  BY DEF Init, Contract!Init, NoRow, Standing
<1>2. IInv /\ [Next]_vars => [Contract!Next]_(Contract!vars)
  <2> SUFFICES ASSUME IInv, [Next]_vars PROVE [Contract!Next]_(Contract!vars)
    OBVIOUS
  <2>1. CASE accepted' = accepted /\ \A e \in Events : RowAdvances(e)
    <3>1. \A e \in Events : Standing(row'[e]) \in Contract!Statuses
      BY DEF Standing, Contract!Statuses
    <3>2. Contract!Advance
      BY <2>1, <3>1 DEF Contract!Advance, RowAdvances
    <3> QED
      BY <3>2 DEF Contract!Next
  <2>2. CASE row' = row /\ \E e \in Events : PipAccept(e)
    <3>1. PICK e \in Events : PipAccept(e)
      BY <2>2
    <3>2. Standing(row[e]) # "none"
      BY <3>1 DEF PipAccept, IInv, SentInv, Standing
    <3>3. Contract!Accept(e)
      BY <2>2, <3>1, <3>2 DEF Contract!Accept, PipAccept
    <3> QED
      BY <3>3 DEF Contract!Next
  <2> QED
    BY <2>1, <2>2, StepAdvances
<1> QED
  BY <1>1, <1>2, Inductive, PTL DEF Spec, ImplementsDelivery, Contract!Spec
=============================================================================
