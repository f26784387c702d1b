-------------------------- MODULE EventStoreProofs --------------------------
(***************************************************************************)
(* What the event store promises, proved for every set of processes,       *)
(* decisions, intents, backends and reports: what is published passes      *)
(* verify_integrity (StoreVerifies), an intent is logged exactly when its  *)
(* decision is committed with it (OneIntentPerDecision), and nothing that  *)
(* was published is taken back (Durable).  And every call takes effect as  *)
(* if it were one step (AtomicStore).                                      *)
(*                                                                         *)
(* The published content is replaced by the copy of a transaction, so that *)
(* the invariant is about every copy there is: the published content, the  *)
(* backup, and the work of the open transaction, whose claim may be ahead  *)
(* of its one event.  What a restore over a write-ahead log has made is    *)
(* unverified until somebody has opened it: until then nobody can write,   *)
(* so that what each opening process has checked is still so when it is    *)
(* done (Unverified).  That a copy still replays when an event is appended *)
(* needs the equation of the replay, Replay(Append(log, e)) =              *)
(* ApplyRow(Replay(log), e), which is shown by induction on the rows.      *)
(*                                                                         *)
(* For the refinement, an open transaction has done a first part of some   *)
(* call on the content that is published (CallInv), which nobody else can  *)
(* have changed since; when nothing is left to do, it has done all of it.  *)
(***************************************************************************)
EXTENDS EventStore, DataFacts

Committed(S, i) ==
  S.claims[Decision[i]].status = "committed" /\ S.claims[Decision[i]].intent = i

(* A decision that is committed has its intent in the log; both ways, an   *)
(* intent in the log has its decision committed too.                       *)
Matched(S, intents, both) ==
  \A i \in intents :
    /\ Committed(S, i) => i \in CreatedIn(S.log)
    /\ both /\ i \in CreatedIn(S.log) => Committed(S, i)

(* The row of decision d. *)
IsRow(d, c) ==
  /\ c = [status |-> c.status, owner |-> c.owner, intent |-> c.intent, metadata |-> c.metadata]
  /\ c.status = "committed" => c.intent \in Intents /\ Decision[c.intent] = d
  /\ c.status # "committed" => c.intent = None

Shape(S) ==
  /\ S = [log |-> S.log, ledger |-> S.ledger, claims |-> S.claims,
          adapters |-> S.adapters, checkpoints |-> S.checkpoints]
  /\ IsSequence(S.log)
  /\ S.claims = [d \in Decisions |-> S.claims[d]]
  /\ \A d \in Decisions : IsRow(d, S.claims[d])
  /\ S.adapters = [i \in Intents |-> S.adapters[i]]

CheckpointAt(log, c) ==
  /\ c.sequence \in 0 .. Len(log)
  /\ c.chain = Prefix(log, c.sequence)
  /\ c.state = Replay(c.chain).ledger

(* The rows replay, the checkpoints are at rows, the adapters have intents. *)
Verified(S) ==
  /\ Replay(S.log).ok /\ S.ledger = Replay(S.log).ledger
  /\ \A c \in S.checkpoints : CheckpointAt(S.log, c)
  /\ \A i \in Intents : S.adapters[i] # NoAdapter => i \in CreatedIn(S.log)

Sound(S, both) == Shape(S) /\ Verified(S) /\ Matched(S, Intents, both)

(* A copy that commits intent i and has not logged it yet. *)
Ahead(S, i, both) ==
  /\ Shape(S) /\ Verified(S) /\ Matched(S, Intents \ {i}, both)
  /\ Committed(S, i) /\ i \notin CreatedIn(S.log)

(* What is there before anybody has verified it. *)
Loose(S) ==
  /\ Shape(S) /\ S.ledger = Replay(S.log).ledger
  /\ \A c \in S.checkpoints : c.sequence \in Nat

Steps == {"closed", "idle", "writing", "rows", "auxiliary", "orders", "reconcile"}

(* Only the process of the open transaction is writing. *)
LockInv ==
  /\ pc \in [Processes -> Steps]
  /\ \A p \in Processes : pc[p] = "writing" => txn.process = p
  /\ txn.back \in Steps \ {"writing"}

(* A restore has found a write-ahead log, and nobody has opened the store  *)
(* since then: what the processes that are opening it have verified so far *)
(* holds of it.                                                            *)
Unverified ==
  /\ ~intact /\ Loose(content)
  /\ \A p \in Processes :
       /\ pc[p] = "closed" \/ Opening(p)
       /\ pc[p] = "rows" => view[p].log = content.log
       /\ pc[p] = "auxiliary" =>
            Replay(content.log).ok /\ CheckpointsVerify(content.log, content.checkpoints)

CopiesInv ==
  /\ intact \in BOOLEAN
  /\ Sound(content, intact) \/ Unverified
  /\ backup # NoFile => Sound(backup, intact)

(* What a transaction still has to insert keeps its copy sound. *)
Backed(work, todo, intents, both) ==
  \/ intents = FALSE /\ Sound(work, both)
  \/ todo = <<>> /\ Sound(work, both)
  \/ \E i \in Intents :
       /\ todo = <<Created(i, 0)>>
       /\ Ahead(work, i, both) \/ (Sound(work, both) /\ i \in CreatedIn(work.log))

WorkInv ==
  /\ txn = [process |-> txn.process, work |-> txn.work, todo |-> txn.todo,
            intents |-> txn.intents, back |-> txn.back]
  /\ Backed(txn.work, txn.todo, txn.intents, intact)

(* An open transaction has only added to what is published. *)
KeptInv == \A p \in Processes : pc[p] = "writing" => Kept(content, txn.work)

IInv == LockInv /\ CopiesInv /\ WorkInv /\ KeptInv

Viewed == view = [p \in Processes |-> view[p]]

-----------------------------------------------------------------------------
(* The replay of a log *)

\* What the rows up to the n-th give, as an equation.
IsReplay(f, log, N) ==
  f = [n \in 0 .. N |-> IF n = 0 THEN [ok |-> TRUE, ledger |-> Empty]
                        ELSE ApplyRow(f[n - 1], log[n])]

LEMMA ReplayRows ==
  ASSUME NEW f, NEW log, NEW N \in Nat, IsReplay(f, log, N)
  PROVE  /\ f[0] = [ok |-> TRUE, ledger |-> Empty]
         /\ \A n \in Nat : n < N => f[n + 1] = ApplyRow(f[n], log[n + 1])
<1>1. f[0] = [ok |-> TRUE, ledger |-> Empty]
  BY DEF IsReplay
<1>2. ASSUME NEW n \in Nat, n < N PROVE f[n + 1] = ApplyRow(f[n], log[n + 1])
  <2> DEFINE m == n + 1
  <2>1. m \in 0 .. N /\ m # 0 /\ m - 1 = n
    BY <1>2
  <2> HIDE DEF m
  <2>2. f[m] = ApplyRow(f[m - 1], log[m])
    BY <2>1 DEF IsReplay
  <2> QED
    BY <2>1, <2>2 DEF m
<1> QED
  BY <1>1, <1>2

LEMMA ReplayExists ==
  ASSUME NEW log, NEW N \in Nat
  PROVE  \E f : IsReplay(f, log, N)
<1> DEFINE S == {n \in Nat : \E f : IsReplay(f, log, n)}
<1>1. 0 \in S
  <2> DEFINE f == [n \in 0 .. 0 |-> [ok |-> TRUE, ledger |-> Empty]]
  <2>1. IsReplay(f, log, 0)
    BY DEF IsReplay
  <2> QED
    BY <2>1
<1>2. ASSUME NEW n \in Nat, n \in S PROVE n + 1 \in S
  <2>1. PICK f : IsReplay(f, log, n)
    BY <1>2
  <2> DEFINE g == [k \in 0 .. (n + 1) |-> IF k = n + 1 THEN ApplyRow(f[n], log[n + 1]) ELSE f[k]]
  <2>2. \A k \in 0 .. n : g[k] = f[k]
    OBVIOUS
  <2>3. ASSUME NEW k \in 0 .. (n + 1)
        PROVE  g[k] = IF k = 0 THEN [ok |-> TRUE, ledger |-> Empty] ELSE ApplyRow(g[k - 1], log[k])
    <3>1. CASE k = n + 1
      <4>1. k # 0 /\ k - 1 = n /\ g[n] = f[n]
        BY <3>1
      <4>2. g[k] = ApplyRow(f[n], log[k])
        BY <3>1
      <4> QED
        BY <4>1, <4>2
    <3>2. CASE k = 0
      BY <2>1, <3>2 DEF IsReplay
    <3>3. CASE k # 0 /\ k # n + 1
      <4>1. k \in 0 .. n /\ k - 1 \in 0 .. n
        BY <3>3
      <4>2. g[k] = f[k] /\ g[k - 1] = f[k - 1]
        BY <2>2, <4>1
      <4> HIDE DEF g
      <4>3. f[k] = ApplyRow(f[k - 1], log[k])
        BY <2>1, <3>3, <4>1 DEF IsReplay
      <4> QED
        BY <3>3, <4>2, <4>3
    <3> QED
      BY <3>1, <3>2, <3>3
  <2>4. IsReplay(g, log, n + 1)
    <3>1. g = [k \in 0 .. (n + 1) |-> g[k]]
      OBVIOUS
    <3> HIDE DEF g
    <3> QED
      BY <2>3, <3>1 DEF IsReplay
  <2> QED
    BY <2>4
<1> HIDE DEF S
<1>3. N \in S
  BY <1>1, <1>2, InductionOnNaturals
<1> QED
  BY <1>3 DEF S

LEMMA ReplayEquation ==
  ASSUME NEW log, IsSequence(log)
  PROVE  IsReplay(ReplayStates(log), log, Len(log))
<1>1. Len(log) \in Nat
  BY SequenceDomain
<1>2. \E f : IsReplay(f, log, Len(log))
  BY <1>1, ReplayExists
<1>3. ReplayStates(log) = CHOOSE f : IsReplay(f, log, Len(log))
  BY DEF ReplayStates, IsReplay
<1> QED
  BY <1>2, <1>3

LEMMA ReplayAppend ==
  ASSUME NEW log, IsSequence(log), NEW e
  PROVE  Replay(Append(log, e)) = ApplyRow(Replay(log), e)
<1> DEFINE new == Append(log, e)
           N == Len(log)
           f == ReplayStates(log)
           g == ReplayStates(new)
           S == {n \in Nat : n <= N => g[n] = f[n]}
<1>1. /\ IsSequence(new) /\ Len(new) = N + 1 /\ N \in Nat
      /\ \A n \in 1 .. N : new[n] = log[n]
      /\ new[N + 1] = e
  BY AppendElements, SequenceDomain
<1>2. IsReplay(f, log, N) /\ IsReplay(g, new, N + 1)
  BY <1>1, ReplayEquation
<1> HIDE DEF f, g, new, N
<1>3. /\ f[0] = g[0]
      /\ \A n \in Nat : n < N => f[n + 1] = ApplyRow(f[n], log[n + 1])
      /\ \A n \in Nat : n < N + 1 => g[n + 1] = ApplyRow(g[n], new[n + 1])
  BY <1>1, <1>2, ReplayRows
<1>4. 0 \in S
  BY <1>3
<1>5. ASSUME NEW n \in Nat, n \in S PROVE n + 1 \in S
  BY <1>1, <1>5, <1>3
<1>6. N \in S
  <2> HIDE DEF S
  <2> QED
    BY <1>1, <1>4, <1>5, InductionOnNaturals
<1>7. g[N] = f[N]
  BY <1>1, <1>6
<1>8. g[N + 1] = ApplyRow(g[N], e)
  BY <1>1, <1>3
<1> QED
  BY <1>1, <1>7, <1>8 DEF Replay, f, g, new, N

-----------------------------------------------------------------------------
(* What an appended event adds to the intents of a log. *)
LEMMA AppendCreated ==
  ASSUME NEW log, IsSequence(log), NEW e
  PROVE  /\ e.kind # "created" => CreatedIn(Append(log, e)) = CreatedIn(log)
         /\ e.kind = "created" => CreatedIn(Append(log, e)) = CreatedIn(log) \cup {e.of}
<1> DEFINE new == Append(log, e)
<1>1. /\ DOMAIN new = DOMAIN log \cup {Len(log) + 1}
      /\ \A n \in DOMAIN log : new[n] = log[n]
      /\ new[Len(log) + 1] = e
      /\ Len(log) + 1 \notin DOMAIN log
  BY AppendElements, SequenceDomain
<1> HIDE DEF new
<1>2. ASSUME e.kind # "created" PROVE CreatedIn(new) = CreatedIn(log)
  BY <1>1, <1>2 DEF CreatedIn
<1>3. ASSUME e.kind = "created" PROVE CreatedIn(new) = CreatedIn(log) \cup {e.of}
  BY <1>1, <1>3 DEF CreatedIn
<1> QED
  BY <1>2, <1>3 DEF new

(* What an appended event leaves of the prefixes of a log. *)
LEMMA AppendPrefix ==
  ASSUME NEW log, IsSequence(log), NEW e
  PROVE  /\ \A n \in 0 .. Len(log) : Prefix(Append(log, e), n) = Prefix(log, n)
         /\ IsPrefix(log, Append(log, e))
<1> DEFINE U == Elements(log) \cup {e}
           new == Append(log, e)
<1>1. log \in Seq(U) /\ e \in U
  BY DEF IsSequence
<1>2. /\ new \in Seq(U) /\ Len(new) = Len(log) + 1 /\ Len(log) \in Nat
      /\ \A n \in 1 .. Len(log) : new[n] = log[n]
  BY <1>1
<1> HIDE DEF U, new
<1>3. ASSUME NEW n \in 0 .. Len(log) PROVE SubSeq(new, 1, n) = SubSeq(log, 1, n)
  BY <1>1, <1>2
<1> QED
  BY <1>2, <1>3 DEF Prefix, IsPrefix, new

LEMMA WholePrefix ==
  ASSUME NEW log, IsSequence(log)
  PROVE  Prefix(log, Len(log)) = log /\ IsPrefix(log, log)
BY DEF Prefix, IsPrefix, IsSequence

LEMMA PrefixOfAppend ==
  ASSUME NEW s, IsSequence(s), NEW log, IsSequence(log), NEW e, IsPrefix(s, log)
  PROVE  IsPrefix(s, Append(log, e))
<1>1. Len(s) \in Nat /\ Len(log) \in Nat /\ Len(s) <= Len(log)
  BY SequenceDomain DEF IsPrefix
<1>2. Prefix(Append(log, e), Len(s)) = Prefix(log, Len(s)) /\ Len(Append(log, e)) = Len(log) + 1
  BY <1>1, AppendPrefix, AppendElements
<1> QED
  BY <1>1, <1>2 DEF IsPrefix, Prefix

-----------------------------------------------------------------------------
(* What the statements of a transaction do to a sound copy. *)

LEMMA EmptySound ==
  ASSUME NEW both
  PROVE  Sound(EmptyStore, both)
<1>1. /\ EmptyStore.log = <<>> /\ CreatedIn(EmptyStore.log) = {}
      /\ EmptyStore.ledger = Empty /\ EmptyStore.checkpoints = {}
      /\ \A i \in Intents : EmptyStore.adapters[i] = NoAdapter
  BY DEF EmptyStore, CreatedIn
<1>2. IsSequence(EmptyStore.log) /\ Len(EmptyStore.log) = 0
  BY <1>1, EmptySequence
<1>3. \A d \in Decisions : EmptyStore.claims[d] = NoClaim
  BY DEF EmptyStore
<1>4. \A d \in Decisions : IsRow(d, NoClaim) /\ NoClaim.status = "none"
  BY DEF IsRow, NoClaim
<1>5. Shape(EmptyStore)
  BY <1>2, <1>3, <1>4 DEF Shape, EmptyStore
<1>6. Matched(EmptyStore, Intents, both)
  BY <1>1, <1>3, <1>4, DecisionAssumption DEF Matched, Committed
<1>7. Replay(EmptyStore.log) = [ok |-> TRUE, ledger |-> Empty]
  <2> DEFINE log == EmptyStore.log
             f == ReplayStates(log)
  <2>1. IsReplay(f, log, Len(log)) /\ Len(log) = 0
    BY <1>2, ReplayEquation
  <2> HIDE DEF f, log
  <2>2. IsReplay(f, log, 0) /\ 0 \in Nat
    BY <2>1
  <2>3. f[0] = [ok |-> TRUE, ledger |-> Empty]
    BY <2>2, ReplayRows, Zenon
  <2> QED
    BY <2>1, <2>3 DEF Replay, f, log
<1>8. Verified(EmptyStore)
  BY <1>1, <1>7 DEF Verified
<1> QED
  BY <1>5, <1>6, <1>8 DEF Sound

(* An accepted event that is not in the log: everything the insert keeps. *)
LEMMA InsertVerified ==
  ASSUME NEW S, Shape(S), Verified(S), NEW e, e \notin Range(S.log), CanApply(S.ledger, e)
  PROVE  LET R == Insert(S, e) IN
         /\ Shape(R) /\ Verified(R)
         /\ R.log = Append(S.log, e) /\ R.claims = S.claims
         /\ R.adapters = S.adapters /\ R.checkpoints = S.checkpoints
<1> DEFINE new == Append(S.log, e)
           ledger == Reduced(S.ledger, e)
           R == Insert(S, e)
<1>1. R = [S EXCEPT !.log = new, !.ledger = ledger]
  BY DEF Insert
<1>2. IsSequence(S.log)
  BY DEF Shape
<1>3. IsSequence(new) /\ Len(new) = Len(S.log) + 1 /\ Len(S.log) \in Nat
  BY <1>2, AppendElements, SequenceDomain
<1>4. Replay(new) = ApplyRow(Replay(S.log), e)
  BY <1>2, ReplayAppend
<1>5. CreatedIn(S.log) \subseteq CreatedIn(new)
  BY <1>2, AppendCreated
<1>6. \A n \in 0 .. Len(S.log) : Prefix(new, n) = Prefix(S.log, n)
  BY <1>2, AppendPrefix
<1> HIDE DEF new, R
<1>7. /\ Shape(R) /\ R.log = new /\ R.ledger = ledger /\ R.claims = S.claims
      /\ R.adapters = S.adapters /\ R.checkpoints = S.checkpoints
  <2> HIDE DEF ledger
  <2> DEFINE Q == [S EXCEPT !.log = new]
  <2>1. R = [Q EXCEPT !.ledger = ledger]
    BY <1>1, Zenon
  <2>2. Q = [log |-> new, ledger |-> S.ledger, claims |-> S.claims,
             adapters |-> S.adapters, checkpoints |-> S.checkpoints]
    BY DEF Shape
  <2> HIDE DEF Q
  <2>3. R = [log |-> new, ledger |-> ledger, claims |-> S.claims,
             adapters |-> S.adapters, checkpoints |-> S.checkpoints]
    BY <2>1, <2>2
  <2>4. /\ R.log = new /\ R.ledger = ledger /\ R.claims = S.claims
        /\ R.adapters = S.adapters /\ R.checkpoints = S.checkpoints
    BY <2>3
  <2>5. Shape(R)
    BY <1>3, <2>3, <2>4 DEF Shape
  <2> QED
    BY <2>4, <2>5
<1>8. Replay(new).ok /\ ledger = Replay(new).ledger
  <2>1. Replay(new) = [ok |-> TRUE, ledger |-> ledger]
    BY <1>4 DEF ApplyRow, Verified
  <2> QED
    BY <2>1
<1>9. ASSUME NEW c \in R.checkpoints PROVE CheckpointAt(new, c)
  BY <1>3, <1>6, <1>7 DEF Verified, CheckpointAt
<1>10. Verified(R)
  <2> HIDE DEF ledger
  <2> QED
    BY <1>5, <1>7, <1>8, <1>9 DEF Verified
<1> QED
  BY <1>7, <1>10 DEF R, new

(* An event that creates no intent. *)
LEMMA InsertSound ==
  ASSUME NEW S, NEW both, Sound(S, both), NEW e, Accepts(S, e, FALSE)
  PROVE  Sound(Insert(S, e), both)
<1> DEFINE R == Insert(S, e)
<1>1. CASE e \in Range(S.log)
  BY <1>1 DEF Insert
<1>2. CASE e \notin Range(S.log)
  <2>1. e.kind # "created" /\ CanApply(S.ledger, e)
    BY <1>2 DEF Accepts
  <2>2. /\ Shape(R) /\ Verified(R)
        /\ R.log = Append(S.log, e) /\ R.claims = S.claims
    BY <1>2, <2>1, InsertVerified DEF Sound
  <2>3. CreatedIn(R.log) = CreatedIn(S.log)
    BY <2>1, <2>2, AppendCreated DEF Sound, Shape
  <2> HIDE DEF R
  <2>4. Matched(R, Intents, both)
    BY <2>2, <2>3 DEF Sound, Matched, Committed
  <2> QED
    BY <2>2, <2>4 DEF Sound, R
<1> QED
  BY <1>1, <1>2

(* The event of commit_order_intent. *)
LEMMA InsertIntent ==
  ASSUME NEW S, NEW both, NEW i \in Intents, Ahead(S, i, both), NEW b, Accepts(S, Created(i, 0), b)
  PROVE  Sound(Insert(S, Created(i, 0)), both)
<1> DEFINE e == Created(i, 0)
           R == Insert(S, e)
<1>1. e.kind = "created" /\ e.of = i
  BY DEF Created
<1>2. Accepts(S, e, b)
  OBVIOUS
<1> HIDE DEF e
<1>3. e \notin Range(S.log)
  BY <1>1 DEF Ahead, CreatedIn, Range
<1>4. CanApply(S.ledger, e)
  BY <1>2, <1>3 DEF Accepts
<1>5. /\ Shape(R) /\ Verified(R)
      /\ R.log = Append(S.log, e) /\ R.claims = S.claims
  BY <1>3, <1>4, InsertVerified DEF Ahead
<1>6. CreatedIn(R.log) = CreatedIn(S.log) \cup {i}
  BY <1>1, <1>5, AppendCreated DEF Ahead, Shape
<1> HIDE DEF R
<1>7. Matched(R, Intents, both)
  BY <1>5, <1>6 DEF Ahead, Matched, Committed
<1>8. Sound(R, both)
  BY <1>5, <1>7 DEF Sound
<1> QED
  BY <1>8 DEF R, e

(* The event of commit_order_intent, of an intent that is in the log. *)
LEMMA InsertAgain ==
  ASSUME NEW S, NEW both, NEW i \in Intents, Sound(S, both), i \in CreatedIn(S.log),
         NEW b, Accepts(S, Created(i, 0), b)
  PROVE  Sound(Insert(S, Created(i, 0)), both)
<1> DEFINE e == Created(i, 0)
<1>1. e.kind = "created" /\ e.of = i
  BY DEF Created
<1>2. Accepts(S, e, b)
  OBVIOUS
<1> HIDE DEF e
<1>3. e \in Range(S.log)
  BY <1>1, <1>2 DEF Accepts
<1>4. Sound(Insert(S, e), both)
  BY <1>3 DEF Insert
<1> QED
  BY <1>4 DEF e

(* A new row for a decision that is not committed. *)
LEMMA ClaimShape ==
  ASSUME NEW S, Shape(S), NEW d \in Decisions, NEW c, IsRow(d, c)
  PROVE  LET R == [S EXCEPT !.claims[d] = c] IN
         /\ Shape(R) /\ R.log = S.log /\ R.ledger = S.ledger
         /\ R.adapters = S.adapters /\ R.checkpoints = S.checkpoints
         /\ R.claims[d] = c
         /\ \A x \in Decisions : x # d => R.claims[x] = S.claims[x]
<1> DEFINE R == [S EXCEPT !.claims[d] = c]
<1>1. /\ R = [log |-> R.log, ledger |-> R.ledger, claims |-> R.claims,
              adapters |-> R.adapters, checkpoints |-> R.checkpoints]
      /\ R.log = S.log /\ R.claims = [S.claims EXCEPT ![d] = c]
      /\ R.ledger = S.ledger /\ R.adapters = S.adapters /\ R.checkpoints = S.checkpoints
  BY DEF Shape
<1> HIDE DEF R
<1>2. /\ R.claims = [x \in Decisions |-> R.claims[x]]
      /\ R.claims[d] = c
      /\ \A x \in Decisions : x # d => R.claims[x] = S.claims[x]
  BY <1>1 DEF Shape
<1>3. \A x \in Decisions : IsRow(x, R.claims[x])
  BY <1>2 DEF Shape
<1>4. Shape(R)
  BY <1>1, <1>2, <1>3 DEF Shape
<1> QED
  BY <1>1, <1>2, <1>4 DEF R

LEMMA ClaimSound ==
  ASSUME NEW S, NEW both, Sound(S, both), NEW d \in Decisions, NEW c, IsRow(d, c),
         S.claims[d].status \notin {"committed", "completed"}, c.status # "committed"
  PROVE  LET R == [S EXCEPT !.claims[d] = c] IN Sound(R, both) /\ Kept(S, R)
<1> DEFINE R == [S EXCEPT !.claims[d] = c]
<1>1. /\ Shape(R) /\ R.log = S.log /\ R.ledger = S.ledger
      /\ R.adapters = S.adapters /\ R.checkpoints = S.checkpoints
      /\ R.claims[d] = c
      /\ \A x \in Decisions : x # d => R.claims[x] = S.claims[x]
  BY ClaimShape DEF Sound
<1> HIDE DEF R
<1>2. ASSUME NEW i \in Intents PROVE Committed(R, i) <=> Committed(S, i)
  BY <1>1, DecisionAssumption DEF Committed
<1>3. Matched(R, Intents, both)
  BY <1>1, <1>2 DEF Sound, Matched
<1>4. Verified(R)
  BY <1>1 DEF Sound, Verified
<1>5. Kept(S, R)
  BY <1>1, WholePrefix DEF Sound, Shape, Kept
<1> QED
  BY <1>1, <1>3, <1>4, <1>5 DEF Sound, R

LEMMA IntentAhead ==
  ASSUME NEW S, NEW both, Sound(S, both), NEW p, NEW m, NEW i \in Intents,
         S.claims[Decision[i]].status \notin {"committed", "completed"}
  PROVE  LET R == Claimed(S, p, i, m) IN
         /\ Ahead(R, i, both) \/ (Sound(R, both) /\ i \in CreatedIn(R.log))
         /\ Kept(S, R)
<1> DEFINE c == [status |-> "committed", owner |-> p, intent |-> i, metadata |-> m]
           R == Claimed(S, p, i, m)
<1>1. Decision[i] \in Decisions
  BY DecisionAssumption
<1>2. IsRow(Decision[i], c) /\ c.status = "committed" /\ c.intent = i
  BY DEF IsRow
<1>3. R = [S EXCEPT !.claims[Decision[i]] = c]
  BY DEF Claimed
<1> HIDE DEF c, R
<1>4. /\ Shape(R) /\ R.log = S.log /\ R.ledger = S.ledger
      /\ R.adapters = S.adapters /\ R.checkpoints = S.checkpoints
      /\ R.claims[Decision[i]] = c
      /\ \A x \in Decisions : x # Decision[i] => R.claims[x] = S.claims[x]
  BY <1>1, <1>2, <1>3, ClaimShape DEF Sound
<1>5. Committed(R, i)
  BY <1>2, <1>4 DEF Committed
<1>6. ASSUME NEW j \in Intents \ {i} PROVE Committed(R, j) <=> Committed(S, j)
  <2>1. Decision[j] \in Decisions
    BY DecisionAssumption
  <2>2. CASE Decision[j] = Decision[i]
    BY <1>2, <1>4, <2>2 DEF Committed
  <2>3. CASE Decision[j] # Decision[i]
    BY <1>4, <2>1, <2>3 DEF Committed
  <2> QED
    BY <2>2, <2>3
<1>7. Matched(R, Intents \ {i}, both)
  BY <1>4, <1>6 DEF Sound, Matched
<1>8. Verified(R)
  BY <1>4 DEF Sound, Verified
<1>9. Kept(S, R)
  BY <1>1, <1>4, WholePrefix DEF Sound, Shape, Kept
<1>10. CASE i \in CreatedIn(R.log)
  <2>1. Matched(R, Intents, both)
    BY <1>5, <1>7, <1>10 DEF Matched
  <2> QED
    BY <1>4, <1>8, <1>9, <1>10, <2>1 DEF Sound, R
<1>11. CASE i \notin CreatedIn(R.log)
  BY <1>4, <1>5, <1>7, <1>8, <1>9, <1>11 DEF Ahead, R
<1> QED
  BY <1>10, <1>11

(* The row of an adapter, of an intent that is in the log. *)
LEMMA AdapterSound ==
  ASSUME NEW S, NEW both, Sound(S, both), NEW i \in Intents, i \in CreatedIn(S.log), NEW x,
         S.adapters[i] = NoAdapter \/ S.adapters[i].backend = x.backend
  PROVE  LET R == [S EXCEPT !.adapters[i] = x] IN Sound(R, both) /\ Kept(S, R)
<1> DEFINE R == [S EXCEPT !.adapters[i] = x]
<1>1. /\ R = [log |-> R.log, ledger |-> R.ledger, claims |-> R.claims,
              adapters |-> R.adapters, checkpoints |-> R.checkpoints]
      /\ R.log = S.log /\ R.claims = S.claims /\ R.ledger = S.ledger
      /\ R.adapters = [S.adapters EXCEPT ![i] = x] /\ R.checkpoints = S.checkpoints
  BY DEF Sound, Shape
<1> HIDE DEF R
<1>2. /\ R.adapters = [j \in Intents |-> R.adapters[j]]
      /\ R.adapters[i] = x
      /\ \A j \in Intents : j # i => R.adapters[j] = S.adapters[j]
  BY <1>1 DEF Sound, Shape
<1>3. Shape(R)
  BY <1>1, <1>2 DEF Sound, Shape
<1>4. Verified(R)
  BY <1>1, <1>2 DEF Sound, Verified
<1>5. Matched(R, Intents, both)
  BY <1>1 DEF Sound, Matched, Committed
<1>6. Kept(S, R)
  BY <1>1, <1>2, WholePrefix DEF Sound, Shape, Kept
<1> QED
  BY <1>3, <1>4, <1>5, <1>6 DEF Sound, R

(* The checkpoint of a store is at its last row. *)
LEMMA CheckpointSound ==
  ASSUME NEW S, NEW both, Sound(S, both)
  PROVE  LET R == [S EXCEPT !.checkpoints = S.checkpoints \cup {Checkpoint(S)}]
         IN  Sound(R, both) /\ Kept(S, R)
<1> DEFINE new == S.checkpoints \cup {Checkpoint(S)}
           R == [S EXCEPT !.checkpoints = new]
<1>1. CheckpointAt(S.log, Checkpoint(S))
  <2>1. Len(S.log) \in Nat /\ Prefix(S.log, Len(S.log)) = S.log
    BY SequenceDomain, WholePrefix DEF Sound, Shape
  <2> QED
    BY <2>1 DEF CheckpointAt, Checkpoint, Sound, Verified
<1>2. S.checkpoints \subseteq new /\ \A c \in new : CheckpointAt(S.log, c)
  BY <1>1 DEF Sound, Verified
<1> HIDE DEF new
<1>3. R = [log |-> S.log, ledger |-> S.ledger, claims |-> S.claims,
           adapters |-> S.adapters, checkpoints |-> new]
  BY DEF Sound, Shape
<1> HIDE DEF R
<1>4. /\ R.log = S.log /\ R.claims = S.claims /\ R.ledger = S.ledger
      /\ R.adapters = S.adapters /\ R.checkpoints = new
  BY <1>3
<1>5. Shape(R)
  BY <1>3, <1>4 DEF Sound, Shape
<1>6. Verified(R)
  BY <1>2, <1>4 DEF Sound, Verified
<1>7. Matched(R, Intents, both)
  BY <1>4 DEF Sound, Matched, Committed
<1>8. Kept(S, R)
  BY <1>2, <1>4, WholePrefix DEF Sound, Shape, Kept
<1> QED
  BY <1>5, <1>6, <1>7, <1>8 DEF Sound, R, new

(* A store keeps what it has; an insert adds to it. *)
LEMMA KeptBySame ==
  ASSUME NEW S, Shape(S)
  PROVE  Kept(S, S)
BY WholePrefix DEF Shape, Kept

LEMMA KeptByInsert ==
  ASSUME NEW C, Shape(C), NEW S, Shape(S), Verified(S), Kept(C, S),
         NEW e, NEW b, Accepts(S, e, b)
  PROVE  Kept(C, Insert(S, e))
<1> DEFINE R == Insert(S, e)
<1>1. CASE e \in Range(S.log)
  BY <1>1 DEF Insert
<1>2. CASE e \notin Range(S.log)
  <2>1. CanApply(S.ledger, e)
    BY <1>2 DEF Accepts
  <2>2. /\ R.log = Append(S.log, e) /\ R.claims = S.claims
        /\ R.adapters = S.adapters /\ R.checkpoints = S.checkpoints
    BY <1>2, <2>1, InsertVerified
  <2>3. IsPrefix(C.log, R.log)
    BY <2>2, PrefixOfAppend DEF Kept, Shape
  <2> HIDE DEF R
  <2>4. Kept(C, R)
    BY <2>2, <2>3 DEF Kept
  <2> QED
    BY <2>4 DEF R
<1> QED
  BY <1>1, <1>2

-----------------------------------------------------------------------------
(* The steps *)

(* A process that is not opening the store has seen it verified. *)
LEMMA ContentSound ==
  ASSUME IInv, NEW p \in Processes, HasOpen(p)
  PROVE  Sound(content, intact)
BY DEF IInv, CopiesInv, Unverified, HasOpen

LEMMA SoundIsLoose ==
  ASSUME NEW S, NEW both, Sound(S, both)
  PROVE  Loose(S)
<1>1. IsSequence(S.log)
  BY DEF Sound, Shape
<1>2. Len(S.log) \in Nat
  BY <1>1, SequenceDomain
<1> QED
  BY <1>2 DEF Sound, Verified, CheckpointAt, Loose

LEMMA ContentLoose == IInv => Loose(content)
BY SoundIsLoose DEF IInv, CopiesInv, Unverified

LEMMA SoundWeakens ==
  ASSUME NEW S, NEW one, NEW other, Sound(S, one), other => one
  PROVE  Sound(S, other)
BY DEF Sound, Matched

LEMMA BackedWeakens ==
  ASSUME NEW S, NEW todo, NEW intents, NEW one, NEW other, Backed(S, todo, intents, one), other => one
  PROVE  Backed(S, todo, intents, other)
<1>1. Sound(S, one) => Sound(S, other)
  BY SoundWeakens
<1>2. \A i \in Intents : Ahead(S, i, one) => Ahead(S, i, other)
  BY DEF Ahead, Matched
<1> QED
  BY <1>1, <1>2 DEF Backed

(* What verify_integrity finds of a store makes it sound, but for intents  *)
(* whose claims are missing.                                               *)
LEMMA VerifiedIsSound ==
  ASSUME NEW S, Loose(S), Replay(S.log).ok, CheckpointsVerify(S.log, S.checkpoints),
         AuxiliaryVerifies(S.log, S.claims, S.adapters)
  PROVE  Sound(S, FALSE)
<1>1. Shape(S) /\ IsSequence(S.log)
  BY DEF Loose, Shape
<1>2. Len(S.log) \in Nat
  BY <1>1, SequenceDomain
<1>3. \A c \in S.checkpoints : CheckpointAt(S.log, c)
  BY <1>2 DEF CheckpointsVerify, CheckpointAt, Loose
<1>4. \A i \in Intents : S.adapters[i] # NoAdapter => i \in CreatedIn(S.log)
  BY DEF AuxiliaryVerifies
<1>5. Verified(S)
  BY <1>3, <1>4 DEF Verified, Loose
<1>6. Matched(S, Intents, FALSE)
  BY DecisionAssumption DEF Matched, Committed, AuxiliaryVerifies
<1> QED
  BY <1>1, <1>5, <1>6 DEF Sound

LEMMA NoTransactionFacts ==
  ASSUME NEW both
  PROVE  /\ NoTransaction.process = None /\ NoTransaction.back = "idle"
         /\ NoTransaction = [process |-> NoTransaction.process, work |-> NoTransaction.work,
                             todo |-> NoTransaction.todo, intents |-> NoTransaction.intents,
                             back |-> NoTransaction.back]
         /\ Backed(NoTransaction.work, NoTransaction.todo, NoTransaction.intents, both)
<1>1. NoTransaction.work = EmptyStore /\ NoTransaction.todo = <<>>
  BY DEF NoTransaction
<1>2. Backed(NoTransaction.work, NoTransaction.todo, NoTransaction.intents, both)
  BY <1>1, EmptySound DEF Backed
<1> QED
  BY <1>2 DEF NoTransaction

LEMMA InitInv == Init => IInv /\ Viewed
<1> SUFFICES ASSUME Init PROVE IInv /\ Viewed
  OBVIOUS
<1>1. LockInv
  BY NoTransactionFacts DEF Init, LockInv, Steps
<1>2. CopiesInv
  BY EmptySound DEF Init, CopiesInv
<1>3. WorkInv
  BY NoTransactionFacts DEF Init, WorkInv
<1>4. KeptInv /\ Viewed
  BY DEF Init, KeptInv, Viewed
<1> QED
  BY <1>1, <1>2, <1>3, <1>4 DEF IInv

(* A transaction begins. *)
LEMMA Begins ==
  ASSUME IInv, NEW p \in Processes, txn = NoTransaction,
         NEW work, NEW todo, NEW intents, NEW back \in Steps \ {"writing"},
         txn' = [process |-> p, work |-> work, todo |-> todo, intents |-> intents, back |-> back],
         pc' = [pc EXCEPT ![p] = "writing"],
         UNCHANGED <<content, backup, intact>>, Sound(content, intact),
         Backed(work, todo, intents, intact), Kept(content, work)
  PROVE  IInv'
<1>1. \A q \in Processes : pc[q] # "writing"
  BY NoTransactionFacts, NoneProcessAssumption DEF IInv, LockInv
<1>2. txn'.process = p /\ txn'.back = back /\ txn'.work = work /\ txn'.todo = todo /\ txn'.intents = intents
  OBVIOUS
<1>3. LockInv'
  BY <1>1, <1>2 DEF IInv, LockInv, Steps
<1>4. CopiesInv'
  BY DEF IInv, CopiesInv
<1>5. WorkInv'
  BY <1>2 DEF WorkInv
<1>6. KeptInv'
  BY <1>2 DEF KeptInv
<1> QED
  BY <1>3, <1>4, <1>5, <1>6 DEF IInv

(* A transaction ends. *)
LEMMA Ends ==
  ASSUME IInv, NEW p \in Processes, pc[p] = "writing",
         txn' = NoTransaction, NEW after \in Steps \ {"writing"},
         pc' = [pc EXCEPT ![p] = after],
         CopiesInv'
  PROVE  IInv'
<1>1. \A q \in Processes : q # p => pc[q] # "writing"
  BY DEF IInv, LockInv
<1>2. LockInv'
  BY <1>1, NoTransactionFacts DEF IInv, LockInv, Steps
<1>3. WorkInv'
  BY NoTransactionFacts DEF WorkInv
<1>4. KeptInv'
  BY <1>1 DEF KeptInv, IInv, LockInv
<1> QED
  BY <1>2, <1>3, <1>4 DEF IInv

(* A process that is not writing goes on. *)
LEMMA Moves ==
  ASSUME IInv, NEW p \in Processes, pc[p] # "writing",
         NEW after \in Steps \ {"writing"},
         pc' = [pc EXCEPT ![p] = after],
         UNCHANGED <<txn, content, intact>>, CopiesInv'
  PROVE  IInv'
<1>1. LockInv'
  BY DEF IInv, LockInv, Steps
<1>2. WorkInv'
  BY DEF IInv, WorkInv
<1>3. KeptInv'
  BY DEF IInv, LockInv, KeptInv
<1> QED
  BY <1>1, <1>2, <1>3 DEF IInv

LEMMA CopiesStay ==
  ASSUME IInv, UNCHANGED <<content, backup, intact>>, Sound(content, intact)
  PROVE  CopiesInv'
BY DEF IInv, CopiesInv

LEMMA BeginInv ==
  ASSUME IInv, NEW p \in Processes, pc[p] = "idle",
         NEW work, NEW todo, NEW intents, Begin(p, work, todo, intents),
         Backed(work, todo, intents, intact), Kept(content, work)
  PROVE  IInv'
<1>1. pc[p] \in Steps \ {"writing"}
  BY DEF Steps
<1>2. Sound(content, intact)
  BY ContentSound DEF HasOpen, Opening
<1> QED
  BY <1>1, <1>2, Begins DEF Begin

LEMMA WriteInv ==
  ASSUME IInv, NEW p \in Processes, Write(p)
  PROVE  IInv'
<1>1. Sound(content, intact) /\ Kept(content, content)
  <2>1. pc[p] = "idle"
    BY DEF Write, OpenAccount, CompleteDecisionWithoutIntent, ClaimDecision, AppendMany,
       CommitOrderIntent, SetAdapterMetadata, CreateCheckpoint
  <2> QED
    BY <2>1, ContentSound, KeptBySame DEF Sound, HasOpen, Opening
<1>2. CASE OpenAccount(p)
  <2>1. Backed(content, <<Opened(Unit, 0)>>, FALSE, intact)
    BY <1>1 DEF Backed
  <2> QED
    BY <1>1, <1>2, <2>1, BeginInv DEF OpenAccount
<1>3. ASSUME NEW d \in Decisions, CompleteDecisionWithoutIntent(p, d) PROVE IInv'
  <2> DEFINE c == [content.claims[d] EXCEPT !.status = "completed"]
             R == [content EXCEPT !.claims[d] = c]
  <2>1. IsRow(d, c) /\ c.status # "committed"
    <3>1. IsRow(d, content.claims[d]) /\ content.claims[d].status = "claimed"
      BY <1>1, <1>3 DEF Sound, Shape, CompleteDecisionWithoutIntent
    <3>2. c = [status |-> "completed", owner |-> content.claims[d].owner,
               intent |-> None, metadata |-> content.claims[d].metadata]
      BY <3>1 DEF IsRow
    <3> HIDE DEF c
    <3> QED
      BY <3>2 DEF IsRow
  <2>2. content.claims[d].status \notin {"committed", "completed"}
    BY <1>3 DEF CompleteDecisionWithoutIntent
  <2>3. pc[p] = "idle" /\ Begin(p, R, <<>>, FALSE)
    BY <1>3 DEF CompleteDecisionWithoutIntent
  <2> HIDE DEF c
  <2>4. Sound(R, intact) /\ Kept(content, R)
    BY <1>1, <2>1, <2>2, ClaimSound
  <2> HIDE DEF R
  <2>5. Backed(R, <<>>, FALSE, intact)
    BY <2>4 DEF Backed
  <2> QED
    BY <2>3, <2>4, <2>5, BeginInv
<1>4. ASSUME NEW d \in Decisions, NEW m \in Payloads, ClaimDecision(p, d, m) PROVE IInv'
  <2> DEFINE c == [status |-> "claimed", owner |-> p, intent |-> None, metadata |-> m]
             R == [content EXCEPT !.claims[d] = c]
  <2>1. IsRow(d, c) /\ c.status # "committed"
    BY DEF IsRow
  <2>2. content.claims[d].status \notin {"committed", "completed"}
    BY <1>4 DEF ClaimDecision, NoClaim
  <2>3. pc[p] = "idle" /\ Begin(p, R, <<>>, FALSE)
    BY <1>4 DEF ClaimDecision
  <2> HIDE DEF c
  <2>4. Sound(R, intact) /\ Kept(content, R)
    BY <1>1, <2>1, <2>2, ClaimSound
  <2> HIDE DEF R
  <2>5. Backed(R, <<>>, FALSE, intact)
    BY <2>4 DEF Backed
  <2> QED
    BY <2>3, <2>4, <2>5, BeginInv
<1>5. ASSUME NEW i \in Intents, AppendMany(p, i) PROVE IInv'
  <2>1. PICK r : Begin(p, content, r, FALSE) /\ pc[p] = "idle"
    BY <1>5 DEF AppendMany
  <2>2. Backed(content, r, FALSE, intact)
    BY <1>1 DEF Backed
  <2> QED
    BY <1>1, <2>1, <2>2, BeginInv
<1>6. ASSUME NEW i \in Intents, NEW m \in Payloads, CommitOrderIntent(p, i, m) PROVE IInv'
  <2> DEFINE R == Claimed(content, p, i, m)
  <2>1. content.claims[Decision[i]].status \notin {"committed", "completed"}
    BY <1>6 DEF CommitOrderIntent, MayCommit, NoClaim
  <2>2. pc[p] = "idle" /\ Begin(p, R, <<Created(i, 0)>>, TRUE)
    BY <1>6 DEF CommitOrderIntent
  <2>3. /\ Ahead(R, i, intact) \/ (Sound(R, intact) /\ i \in CreatedIn(R.log))
        /\ Kept(content, R)
    BY <1>1, <2>1, IntentAhead
  <2> HIDE DEF R
  <2>4. Backed(R, <<Created(i, 0)>>, TRUE, intact)
    BY <2>3 DEF Backed
  <2> QED
    BY <2>2, <2>3, <2>4, BeginInv
<1>7. ASSUME NEW i \in Intents, NEW b \in Backends, NEW x \in Payloads, SetAdapterMetadata(p, i, b, x)
      PROVE  IInv'
  <2> DEFINE row == [backend |-> b, payload |-> x]
             R == [content EXCEPT !.adapters[i] = row]
  <2>1. /\ i \in CreatedIn(content.log)
        /\ content.adapters[i] = NoAdapter \/ content.adapters[i].backend = row.backend
    BY <1>7 DEF SetAdapterMetadata
  <2>2. pc[p] = "idle" /\ Begin(p, R, <<>>, FALSE)
    BY <1>7 DEF SetAdapterMetadata
  <2> HIDE DEF row
  <2>3. Sound(R, intact) /\ Kept(content, R)
    BY <1>1, <2>1, AdapterSound
  <2> HIDE DEF R
  <2>4. Backed(R, <<>>, FALSE, intact)
    BY <2>3 DEF Backed
  <2> QED
    BY <2>3, <2>2, <2>4, BeginInv
<1>8. CASE CreateCheckpoint(p)
  <2> DEFINE x == content.checkpoints \cup {Checkpoint(content)}
             R == [content EXCEPT !.checkpoints = x]
  <2>1. pc[p] = "idle" /\ Begin(p, R, <<>>, FALSE)
    BY <1>8 DEF CreateCheckpoint
  <2>2. Sound(R, intact) /\ Kept(content, R)
    BY <1>1, CheckpointSound
  <2> HIDE DEF R
  <2>3. Backed(R, <<>>, FALSE, intact)
    BY <2>2 DEF Backed
  <2> QED
    BY <2>1, <2>2, <2>3, BeginInv
<1> QED
  BY <1>2, <1>3, <1>4, <1>5, <1>6, <1>7, <1>8 DEF Write

LEMMA AppendNextInv ==
  ASSUME IInv, NEW p \in Processes, AppendNext(p)
  PROVE  IInv'
<1> DEFINE e == Head(txn.todo)
           work == Insert(txn.work, e)
           rest == Tail(txn.todo)
<1>1. Backed(work, rest, txn.intents, intact)
  <2>1. CASE txn.intents = FALSE /\ Sound(txn.work, intact)
    <3>1. Accepts(txn.work, e, FALSE)
      BY <2>1 DEF AppendNext
    <3> HIDE DEF e
    <3>2. Sound(work, intact)
      BY <2>1, <3>1, InsertSound
    <3> QED
      BY <2>1, <3>2 DEF Backed
  <2>2. ASSUME NEW i \in Intents, txn.todo = <<Created(i, 0)>>,
               \/ Ahead(txn.work, i, intact)
               \/ Sound(txn.work, intact) /\ i \in CreatedIn(txn.work.log)
        PROVE  Backed(work, rest, txn.intents, intact)
    <3>1. e = Created(i, 0) /\ rest = <<>> /\ Accepts(txn.work, e, txn.intents)
      BY <2>2 DEF AppendNext
    <3> HIDE DEF e, rest
    <3>2. Sound(Insert(txn.work, Created(i, 0)), intact)
      BY <2>2, <3>1, InsertIntent, InsertAgain
    <3> QED
      BY <3>1, <3>2 DEF Backed
  <2> QED
    BY <2>1, <2>2 DEF IInv, WorkInv, Backed, AppendNext
<1>2. txn' = [txn EXCEPT !.work = work, !.todo = rest]
  BY DEF AppendNext
<1>3. Kept(content, work)
  <2>1. Shape(txn.work) /\ Verified(txn.work)
    BY DEF IInv, WorkInv, Backed, Sound, Ahead
  <2>2. Shape(content) /\ Kept(content, txn.work)
    BY ContentLoose DEF Loose, AppendNext, IInv, KeptInv
  <2>3. Accepts(txn.work, e, txn.intents)
    BY DEF AppendNext
  <2> HIDE DEF e
  <2> QED
    BY <2>1, <2>2, <2>3, KeptByInsert
<1> HIDE DEF work, rest
<1>4. /\ txn'.process = txn.process /\ txn'.back = txn.back /\ txn'.intents = txn.intents
      /\ txn'.work = work /\ txn'.todo = rest
      /\ txn' = [process |-> txn'.process, work |-> txn'.work, todo |-> txn'.todo,
                 intents |-> txn'.intents, back |-> txn'.back]
  <2> DEFINE half == [txn EXCEPT !.work = work]
  <2>1. txn' = [half EXCEPT !.todo = rest]
    BY <1>2, Zenon
  <2>2. half = [process |-> txn.process, work |-> work, todo |-> txn.todo,
                intents |-> txn.intents, back |-> txn.back]
    BY DEF IInv, WorkInv
  <2> HIDE DEF half
  <2> QED
    BY <2>1, <2>2
<1>5. WorkInv'
  BY <1>1, <1>4 DEF WorkInv, AppendNext
<1>6. LockInv'
  BY <1>4 DEF AppendNext, IInv, LockInv
<1>7. CopiesInv'
  BY CopiesStay, ContentSound DEF AppendNext, HasOpen, Opening
<1>8. KeptInv'
  BY <1>4, <1>3 DEF AppendNext, KeptInv
<1> QED
  BY <1>5, <1>6, <1>7, <1>8 DEF IInv

LEMMA CommitInv ==
  ASSUME IInv, NEW p \in Processes, Commit(p)
  PROVE  IInv'
<1>1. Sound(txn.work, intact)
  BY DEF IInv, WorkInv, Backed, Commit
<1>2. CopiesInv'
  BY <1>1 DEF IInv, CopiesInv, Commit
<1>3. txn.back \in Steps \ {"writing"}
  BY DEF IInv, LockInv
<1> QED
  BY <1>2, <1>3, Ends DEF Commit

LEMMA RollbackInv ==
  ASSUME IInv, NEW p \in Processes, Rollback(p)
  PROVE  IInv'
<1> DEFINE after == IF txn.back = "reconcile" THEN "idle" ELSE txn.back
<1>1. after \in Steps \ {"writing"}
  BY DEF IInv, LockInv, Steps
<1>2. pc[p] = "writing" /\ txn' = NoTransaction /\ pc' = [pc EXCEPT ![p] = after]
  BY DEF Rollback
<1> HIDE DEF after
<1>3. CopiesInv'
  BY CopiesStay, ContentSound DEF Rollback, HasOpen, Opening
<1> QED
  BY <1>1, <1>2, <1>3, Ends

(* A store that nobody has verified yet is only opened, or closed again. *)
LEMMA UnverifiedStays ==
  ASSUME IInv, Viewed, Unverified, NEW p \in Processes,
         OpenStore(p) \/ LoadCheckpoints(p) \/ RaiseCorrupt(p) \/ Crash(p)
  PROVE  Unverified'
<1>1. ~intact' /\ content' = content /\ Loose(content')
  BY DEF OpenStore, LoadCheckpoints, RaiseCorrupt, Crash, Unverified
<1>2. pc \in [Processes -> Steps] /\ view = [q \in Processes |-> view[q]]
  BY DEF IInv, LockInv, Viewed
<1>3. ASSUME NEW q \in Processes, q # p PROVE pc'[q] = pc[q] /\ view'[q] = view[q]
  <2>1. \E after, v : pc' = [pc EXCEPT ![p] = after] /\ (view' = [view EXCEPT ![p] = v] \/ view' = view)
    BY DEF OpenStore, LoadRows, LoadCheckpoints, RaiseCorrupt, Disconnect, Crash
  <2> QED
    BY <1>2, <1>3, <2>1
<1>4. \/ pc'[p] = "closed"
      \/ pc'[p] = "rows" /\ view'[p].goal = "open" /\ view'[p].log = content.log
      \/ /\ pc'[p] = "auxiliary" /\ view'[p].goal = "open"
         /\ Replay(content.log).ok /\ CheckpointsVerify(content.log, content.checkpoints)
  <2>1. CASE OpenStore(p)
    BY <1>2, <2>1 DEF OpenStore, LoadRows
  <2>2. CASE LoadCheckpoints(p)
    <3>1. view[p].goal = "open" /\ view[p].log = content.log
      BY <2>2 DEF LoadCheckpoints, Unverified, Opening
    <3>2. Replay(content.log).ok /\ CheckpointsVerify(content.log, content.checkpoints)
      BY <2>2, <3>1 DEF LoadCheckpoints, LoadVerifies
    <3>3. pc'[p] = "auxiliary" /\ view' = view
      BY <1>2, <2>2, <3>1 DEF LoadCheckpoints, AfterLoad
    <3> QED
      BY <3>1, <3>2, <3>3
  <2>3. CASE RaiseCorrupt(p)
    <3>1. view[p].goal = "open"
      BY <2>3 DEF RaiseCorrupt, Unverified, Opening
    <3> QED
      BY <1>2, <2>3, <3>1 DEF RaiseCorrupt, Disconnect
  <2>4. CASE Crash(p)
    BY <1>2, <2>4 DEF Crash
  <2> QED
    BY <2>1, <2>2, <2>3, <2>4
<1>5. ASSUME NEW q \in Processes
      PROVE  /\ pc'[q] = "closed" \/ Opening(q)'
             /\ pc'[q] = "rows" => view'[q].log = content'.log
             /\ pc'[q] = "auxiliary" =>
                  Replay(content'.log).ok /\ CheckpointsVerify(content'.log, content'.checkpoints)
  <2>1. CASE q = p
    BY <1>1, <1>4, <2>1 DEF Opening
  <2>2. CASE q # p
    BY <1>1, <1>3, <2>2 DEF Unverified, Opening
  <2> QED
    BY <2>1, <2>2
<1> QED
  BY <1>1, <1>5 DEF Unverified

LEMMA OpenerCopies ==
  ASSUME IInv, Viewed, NEW p \in Processes,
         OpenStore(p) \/ LoadCheckpoints(p) \/ RaiseCorrupt(p) \/ Crash(p)
  PROVE  CopiesInv'
<1>1. UNCHANGED <<content, backup, intact>>
  BY DEF OpenStore, LoadCheckpoints, RaiseCorrupt, Crash
<1>2. CASE Sound(content, intact)
  BY <1>1, <1>2, CopiesStay
<1>3. CASE Unverified
  BY <1>1, <1>3, UnverifiedStays DEF IInv, CopiesInv
<1> QED
  BY <1>2, <1>3 DEF IInv, CopiesInv

(* Whoever has verified the store has found it sound. *)
LEMMA VerifierCopies ==
  ASSUME IInv, NEW p \in Processes, VerifyAuxiliary(p)
  PROVE  CopiesInv'
<1>1. UNCHANGED <<content, intact>> /\ (backup' = backup \/ backup' = content)
  BY DEF VerifyAuxiliary
<1>2. CASE Sound(content, intact)
  BY <1>1, <1>2 DEF IInv, CopiesInv
<1>3. CASE Unverified
  <2>1. intact = FALSE
    BY <1>3 DEF IInv, CopiesInv, Unverified
  <2>2. /\ Loose(content) /\ Replay(content.log).ok
        /\ CheckpointsVerify(content.log, content.checkpoints)
        /\ AuxiliaryVerifies(content.log, content.claims, content.adapters)
    BY <1>3 DEF Unverified, VerifyAuxiliary, AuxiliaryHolds
  <2>3. Sound(content, intact)
    BY <2>1, <2>2, VerifiedIsSound
  <2> QED
    BY <1>1, <2>3 DEF IInv, CopiesInv
<1> QED
  BY <1>2, <1>3 DEF IInv, CopiesInv

LEMMA ReadInv ==
  ASSUME IInv, Viewed, NEW p \in Processes, Read(p)
  PROVE  IInv'
<1>1. CASE OpenStore(p)
  <2>1. /\ pc[p] # "writing" /\ pc' = [pc EXCEPT ![p] = "rows"]
        /\ UNCHANGED <<txn, content, intact>>
    BY <1>1 DEF OpenStore, LoadRows
  <2> QED
    BY <1>1, <2>1, OpenerCopies, Moves DEF Steps
<1>2. CASE Recover(p) \/ BackupTo(p)
  <2>1. CopiesInv'
    BY <1>2, CopiesStay, ContentSound DEF Recover, BackupTo, HasOpen, Opening
  <2>2. /\ pc[p] # "writing" /\ pc' = [pc EXCEPT ![p] = "rows"]
        /\ UNCHANGED <<txn, content, intact>>
    BY <1>2 DEF Recover, BackupTo, LoadRows
  <2> QED
    BY <2>1, <2>2, Moves DEF Steps
<1>3. CASE LoadCheckpoints(p)
  <2>1. AfterLoad(view[p].goal) \in Steps \ {"writing"}
    BY DEF AfterLoad, Steps
  <2> QED
    BY <1>3, <2>1, OpenerCopies, Moves DEF LoadCheckpoints
<1>4. CASE RaiseCorrupt(p)
  <2> DEFINE after == IF view[p].goal = "open" THEN "closed" ELSE "idle"
  <2>1. after \in Steps \ {"writing"}
    BY DEF Steps
  <2>2. /\ pc[p] # "writing" /\ pc' = [pc EXCEPT ![p] = after]
        /\ UNCHANGED <<txn, content, intact>>
    BY <1>4 DEF RaiseCorrupt, Disconnect
  <2> HIDE DEF after
  <2> QED
    BY <1>4, <2>1, <2>2, OpenerCopies, Moves
<1>5. CASE VerifyAuxiliary(p)
  BY <1>5, VerifierCopies, Moves DEF VerifyAuxiliary, Steps
<1>6. CASE ReadAdapters(p)
  <2>1. CopiesInv'
    BY <1>6, CopiesStay, ContentSound DEF ReadAdapters, HasOpen, Opening
  <2>2. /\ pc[p] # "writing" /\ pc' = [pc EXCEPT ![p] = "reconcile"]
        /\ UNCHANGED <<txn, content, intact>>
    BY <1>6 DEF ReadAdapters
  <2> QED
    BY <2>1, <2>2, Moves DEF Steps
<1>7. CASE Reconcile(p)
  <2>1. PICK events :
          /\ pc[p] = "reconcile" /\ txn = NoTransaction
          /\ IF events = <<>> THEN UNCHANGED <<txn, pc>>
             ELSE /\ txn' = [process |-> p, work |-> content, todo |-> events,
                             intents |-> FALSE, back |-> "reconcile"]
                  /\ pc' = [pc EXCEPT ![p] = "writing"]
          /\ UNCHANGED <<content, backup, intact>>
    BY <1>7 DEF Reconcile
  <2>2. Sound(content, intact)
    BY <2>1, ContentSound DEF HasOpen, Opening
  <2>3. CASE events = <<>>
    <3>1. CopiesInv'
      BY <2>1, <2>2, CopiesStay
    <3> QED
      BY <2>1, <2>3, <3>1 DEF IInv, LockInv, WorkInv, KeptInv
  <2>4. CASE events # <<>>
    <3>1. Backed(content, events, FALSE, intact) /\ Kept(content, content)
      BY <2>2, KeptBySame DEF Backed, Sound
    <3>2. "reconcile" \in Steps \ {"writing"}
      BY DEF Steps
    <3> QED
      BY <2>1, <2>2, <2>4, <3>1, <3>2, Begins
  <2> QED
    BY <2>3, <2>4
<1>8. CASE EndReconcile(p)
  <2>1. CopiesInv'
    BY <1>8, CopiesStay, ContentSound DEF EndReconcile, HasOpen, Opening
  <2>2. /\ pc[p] # "writing" /\ pc' = [pc EXCEPT ![p] = "idle"]
        /\ UNCHANGED <<txn, content, intact>>
    BY <1>8 DEF EndReconcile
  <2> QED
    BY <2>1, <2>2, Moves DEF Steps
<1> QED
  BY <1>1, <1>2, <1>3, <1>4, <1>5, <1>6, <1>7, <1>8 DEF Read

LEMMA CloseInv ==
  ASSUME IInv, NEW p \in Processes, Close(p)
  PROVE  IInv'
<1>1. CopiesInv'
  BY CopiesStay, ContentSound DEF Close, HasOpen, Opening
<1>2. /\ pc[p] # "writing" /\ pc' = [pc EXCEPT ![p] = "closed"]
      /\ UNCHANGED <<txn, content, intact>>
  BY DEF Close, Disconnect
<1> QED
  BY <1>1, <1>2, Moves DEF Steps

LEMMA CrashInv ==
  ASSUME IInv, Viewed, NEW p \in Processes, Crash(p)
  PROVE  IInv'
<1>1. CopiesInv' /\ "closed" \in Steps \ {"writing"} /\ pc' = [pc EXCEPT ![p] = "closed"]
  BY OpenerCopies DEF Crash, Steps
<1>2. CASE pc[p] = "writing"
  <2>1. txn' = NoTransaction
    BY <1>2 DEF Crash
  <2> QED
    BY <1>1, <1>2, <2>1, Ends
<1>3. CASE pc[p] # "writing"
  <2>1. UNCHANGED <<txn, content, intact>>
    BY <1>3 DEF Crash
  <2> QED
    BY <1>1, <1>3, <2>1, Moves
<1> QED
  BY <1>2, <1>3

(* Whatever SQLite makes of two contents has the tables of a content. *)
LEMMA MixtureShape ==
  ASSUME NEW S, NEW f, NEW g, f = [x \in S |-> f[x]], g = [x \in S |-> g[x]],
         NEW h \in Mixtures(f, g)
  PROVE  h = [x \in S |-> h[x]] /\ \A x \in S : h[x] \in {f[x], g[x]}
<1>1. DOMAIN f = S
  OBVIOUS
<1> QED
  BY <1>1 DEF Mixtures

LEMMA DamagedIsLoose == Loose(Damaged)
<1> DEFINE ledger == Replay(OpenedTwice).ledger
           claims == [d \in Decisions |-> NoClaim]
           adapters == [i \in Intents |-> NoAdapter]
           none == {}
           half == [EmptyStore EXCEPT !.log = OpenedTwice]
<1>1. \E old : EmptyStore = [log |-> old, ledger |-> Empty, claims |-> claims,
                              adapters |-> adapters, checkpoints |-> none]
  BY DEF EmptyStore
<1>2. \A d \in Decisions : IsRow(d, claims[d])
  BY DEF IsRow, NoClaim
<1>3. IsSequence(OpenedTwice)
  <2>1. OpenedTwice \in Seq({Opened(Unit, 0)})
    BY DEF OpenedTwice
  <2> QED
    BY <2>1, OwnElements
<1>4. claims = [d \in Decisions |-> claims[d]] /\ adapters = [i \in Intents |-> adapters[i]]
  OBVIOUS
<1> HIDE DEF ledger, claims, adapters, none
<1>5. half = [log |-> OpenedTwice, ledger |-> Empty, claims |-> claims,
              adapters |-> adapters, checkpoints |-> none]
  BY <1>1
<1>6. Damaged = [half EXCEPT !.ledger = ledger]
  BY Zenon DEF Damaged, ledger
<1> HIDE DEF half
<1>7. Damaged = [log |-> OpenedTwice, ledger |-> ledger, claims |-> claims,
                 adapters |-> adapters, checkpoints |-> none]
  BY <1>5, <1>6
<1>8. /\ Damaged.log = OpenedTwice /\ Damaged.ledger = ledger /\ Damaged.checkpoints = none
      /\ Damaged.claims = claims /\ Damaged.adapters = adapters
  BY <1>7
<1>9. Shape(Damaged)
  BY <1>2, <1>3, <1>4, <1>7, <1>8 DEF Shape
<1> QED
  BY <1>8, <1>9 DEF Loose, ledger, none

LEMMA SplicesAreLoose ==
  ASSUME NEW W, Loose(W), NEW B, Loose(B), NEW S \in Splices(W, B)
  PROVE  Loose(S)
<1>1. CASE S = Damaged
  BY <1>1, DamagedIsLoose
<1>2. CASE S # Damaged
  <2>1. PICK log \in {W.log, B.log}, claims \in Mixtures(W.claims, B.claims),
             adapters \in Mixtures(W.adapters, B.adapters),
             checkpoints \in {W.checkpoints, B.checkpoints, W.checkpoints \cup B.checkpoints} :
          S = [log |-> log, ledger |-> Replay(log).ledger, claims |-> claims,
               adapters |-> adapters, checkpoints |-> checkpoints]
    BY <1>2 DEF Splices
  <2>2. /\ S.log = log /\ S.ledger = Replay(log).ledger /\ S.claims = claims
        /\ S.adapters = adapters /\ S.checkpoints = checkpoints
    BY <2>1
  <2>3. Shape(W) /\ Shape(B)
    BY DEF Loose
  <2>4. IsSequence(log)
    BY <2>3 DEF Shape
  <2>5. claims = [d \in Decisions |-> claims[d]] /\ \A d \in Decisions : IsRow(d, claims[d])
    <3>1. /\ W.claims = [d \in Decisions |-> W.claims[d]]
          /\ B.claims = [d \in Decisions |-> B.claims[d]]
          /\ \A d \in Decisions : IsRow(d, W.claims[d]) /\ IsRow(d, B.claims[d])
      BY <2>3 DEF Shape
    <3>2. /\ claims = [d \in Decisions |-> claims[d]]
          /\ \A d \in Decisions : claims[d] \in {W.claims[d], B.claims[d]}
      BY <3>1, MixtureShape
    <3> QED
      BY <3>1, <3>2
  <2>6. adapters = [i \in Intents |-> adapters[i]]
    <3>1. /\ W.adapters = [i \in Intents |-> W.adapters[i]]
          /\ B.adapters = [i \in Intents |-> B.adapters[i]]
      BY <2>3 DEF Shape
    <3> QED
      BY <3>1, MixtureShape
  <2>7. \A c \in checkpoints : c.sequence \in Nat
    BY DEF Loose
  <2>8. Shape(S)
    BY <2>1, <2>2, <2>4, <2>5, <2>6 DEF Shape
  <2> QED
    BY <2>2, <2>7, <2>8 DEF Loose
<1> QED
  BY <1>1, <1>2

LEMMA RestoreInv ==
  ASSUME IInv, RestoreBackup
  PROVE  IInv'
<1>1. /\ UNCHANGED <<backup, txn, pc>> /\ \A p \in Processes : pc[p] = "closed"
      /\ backup # NoFile /\ Sound(backup, intact) /\ intact \in BOOLEAN
      /\ intact' \in BOOLEAN /\ (intact' => intact)
  BY DEF RestoreBackup, IInv, CopiesInv
<1>2. Sound(backup, intact')
  BY <1>1, SoundWeakens
<1>3. CopiesInv'
  <2>1. CASE wal
    <3>1. content' \in Splices(content, backup) /\ ~intact'
      BY <2>1 DEF RestoreBackup
    <3>2. Loose(content')
      BY <1>1, <3>1, ContentLoose, SoundIsLoose, SplicesAreLoose
    <3>3. Unverified'
      BY <1>1, <3>1, <3>2 DEF Unverified
    <3> QED
      BY <1>1, <1>2, <3>3 DEF CopiesInv
  <2>2. CASE ~ wal
    <3>1. content' = backup
      BY <2>2 DEF RestoreBackup
    <3> QED
      BY <1>1, <1>2, <3>1 DEF CopiesInv
  <2> QED
    BY <2>1, <2>2
<1>4. WorkInv'
  <2>1. Backed(txn.work, txn.todo, txn.intents, intact')
    BY <1>1, BackedWeakens DEF IInv, WorkInv
  <2> QED
    BY <1>1, <2>1 DEF IInv, WorkInv
<1>5. LockInv' /\ KeptInv'
  BY <1>1 DEF IInv, LockInv, KeptInv
<1> QED
  BY <1>3, <1>4, <1>5 DEF IInv

LEMMA ViewedNext ==
  ASSUME Viewed, [Next]_vars
  PROVE  Viewed'
<1>1. ASSUME NEW p, NEW v, view' = [view EXCEPT ![p] = v] PROVE Viewed'
  BY <1>1 DEF Viewed
<1>2. ASSUME view' = view PROVE Viewed'
  BY <1>2 DEF Viewed
<1>3. ASSUME NEW p \in Processes, Read(p) PROVE Viewed'
  <2>1. CASE ReadAdapters(p)
    <3>1. \E set : view' = [view EXCEPT ![p].pending = set]
      BY <2>1 DEF ReadAdapters
    <3> QED
      BY <3>1 DEF Viewed
  <2>2. CASE Reconcile(p)
    <3>1. PICK r : view' = [view EXCEPT ![p].pending = @ \ {r}]
      BY <2>2 DEF Reconcile
    <3> QED
      BY <3>1 DEF Viewed
  <2> QED
    BY <1>1, <1>2, <1>3, <2>1, <2>2 DEF Read, OpenStore, Recover, BackupTo, LoadRows,
       LoadCheckpoints, RaiseCorrupt, VerifyAuxiliary, EndReconcile
<1>4. ASSUME NEW p \in Processes, Write(p) \/ AppendNext(p) \/ Rollback(p) \/ Commit(p) \/ Close(p)
      PROVE  view' = view
  BY <1>4 DEF Write, OpenAccount, CompleteDecisionWithoutIntent, ClaimDecision, AppendMany,
     CommitOrderIntent, SetAdapterMetadata, CreateCheckpoint, Begin,
     AppendNext, Rollback, Commit, Close
<1>5. ASSUME NEW p \in Processes, Crash(p) PROVE Viewed'
  BY <1>1, <1>5 DEF Crash
<1>6. CASE RestoreBackup \/ UNCHANGED vars
  BY <1>2, <1>6 DEF RestoreBackup, vars
<1> QED
  BY <1>2, <1>3, <1>4, <1>5, <1>6 DEF Next

LEMMA NextInv == IInv /\ Viewed /\ [Next]_vars => IInv' /\ Viewed'
<1> SUFFICES ASSUME IInv, Viewed, [Next]_vars PROVE IInv'
  BY ViewedNext
<1>1. ASSUME NEW p \in Processes,
             \/ Write(p) \/ AppendNext(p) \/ Rollback(p) \/ Commit(p)
             \/ Read(p) \/ Close(p) \/ Crash(p)
      PROVE  IInv'
  BY <1>1, WriteInv, AppendNextInv, RollbackInv, CommitInv, ReadInv, CloseInv, CrashInv
<1>2. CASE RestoreBackup
  BY <1>2, RestoreInv
<1>3. CASE UNCHANGED vars
  <2>1. Unverified => Unverified'
    BY <1>3 DEF vars, Unverified, Opening
  <2>2. CopiesInv'
    BY <1>3, <2>1 DEF vars, IInv, CopiesInv
  <2> QED
    BY <1>3, <2>2 DEF vars, IInv, LockInv, WorkInv, KeptInv
<1> QED
  BY <1>1, <1>2, <1>3 DEF Next

(* However many processes claim, complete and commit decisions at once,    *)
(* and die within a transaction, an intent is in the published log exactly *)
(* when its decision is committed with it, as long as no backup has been   *)
(* restored over a write-ahead log (commit_order_intent and                *)
(* complete_decision_without_intent of store.py).                          *)
THEOREM OneIntentPerDecisionHolds == Spec => []OneIntentPerDecision
<1>1. IInv => OneIntentPerDecision
  BY DEF IInv, CopiesInv, Unverified, Sound, Matched, Committed, OneIntentPerDecision
<1> QED
  BY <1>1, InitInv, NextInv, PTL DEF Spec

(* However the calls of several processes interleave, and wherever one of   *)
(* them dies, what is published passes verify_integrity of store.py: every  *)
(* row replays, every checkpoint is at a row and has its state, every       *)
(* committed claim and every adapter row has its intent.  After a restore   *)
(* over a write-ahead log, whatever the mixture, this is so of every store  *)
(* that anybody has managed to open.                                        *)
THEOREM StoreVerifiesHolds == Spec => []StoreVerifies
<1>1. ASSUME NEW S, NEW both, Sound(S, both) PROVE Verifies(S) /\ S.ledger = Replay(S.log).ledger
  <2>1. Shape(S) /\ Verified(S) /\ Matched(S, Intents, both)
    BY <1>1 DEF Sound
  <2>2. CheckpointsVerify(S.log, S.checkpoints)
    <3>1. Len(S.log) \in Nat
      BY <2>1, SequenceDomain DEF Shape
    <3> QED
      BY <2>1, <3>1 DEF Verified, CheckpointAt, CheckpointsVerify
  <2>3. ASSUME NEW d \in Decisions, S.claims[d].status = "committed"
        PROVE  S.claims[d].intent \in CreatedIn(S.log) /\ Decision[S.claims[d].intent] = d
    <3> DEFINE i == S.claims[d].intent
    <3>1. i \in Intents /\ Decision[i] = d
      BY <2>1, <2>3 DEF Shape, IsRow
    <3>2. Committed(S, i)
      BY <2>3, <3>1 DEF Committed
    <3> HIDE DEF i
    <3>3. i \in CreatedIn(S.log)
      BY <2>1, <3>1, <3>2 DEF Matched
    <3> QED
      BY <3>1, <3>3 DEF i
  <2>4. AuxiliaryVerifies(S.log, S.claims, S.adapters)
    BY <2>1, <2>3 DEF Shape, IsRow, Verified, AuxiliaryVerifies
  <2> QED
    BY <2>1, <2>2, <2>4 DEF Verified, Verifies
<1>2. ASSUME IInv, intact \/ \E p \in Processes : HasOpen(p) PROVE Sound(content, intact)
  BY <1>2, ContentSound DEF IInv, CopiesInv, Unverified
<1>3. IInv => StoreVerifies
  BY <1>1, <1>2 DEF StoreVerifies
<1> QED
  BY <1>3, InitInv, NextInv, PTL DEF Spec

(* Only a commit and restore_backup replace what is published. *)
LEMMA ContentReplaced ==
  ASSUME IInv, Next, ~ RestoreBackup,
         \A p \in Processes : ~ Commit(p)
  PROVE  content' = content
<1>1. PICK p \in Processes : \/ Write(p) \/ AppendNext(p) \/ Rollback(p)
                             \/ Read(p) \/ Close(p) \/ Crash(p)
  BY DEF Next
<1>2. CASE Write(p)
  BY <1>2 DEF Write, OpenAccount, CompleteDecisionWithoutIntent, ClaimDecision,
     AppendMany, CommitOrderIntent, SetAdapterMetadata, CreateCheckpoint, Begin
<1>3. CASE AppendNext(p) \/ Rollback(p) \/ Crash(p)
  BY <1>3 DEF AppendNext, Rollback, Crash
<1>4. CASE Read(p)
  <2>1. CASE OpenStore(p)
    BY <2>1 DEF OpenStore
  <2> QED
    BY <1>4, <2>1 DEF Read, Recover, BackupTo, LoadCheckpoints, RaiseCorrupt,
       VerifyAuxiliary, ReadAdapters, Reconcile, EndReconcile
<1>5. CASE Close(p)
  BY <1>5 DEF Close
<1> QED
  BY <1>1, <1>2, <1>3, <1>4, <1>5

(* Whatever the processes do, and wherever they die, the log of store.py    *)
(* only grows at its end, a checkpoint stays, a decision that is committed  *)
(* or completed stays so and an order stays with its backend, unless a      *)
(* backup is restored over them.                                            *)
THEOREM DurableHolds == Spec => Durable
<1>1. ASSUME IInv, [Next]_vars PROVE [RestoreBackup \/ NothingUnwritten]_vars
  <2>1. CASE UNCHANGED vars
    BY <2>1
  <2>2. ASSUME NEW p \in Processes, Commit(p) PROVE NothingUnwritten
    <3>1. Kept(content, txn.work)
      BY <1>1, <2>2 DEF IInv, KeptInv, Commit
    <3>2. content' = txn.work
      BY <2>2 DEF Commit
    <3> QED
      BY <3>1, <3>2 DEF NothingUnwritten
  <2>3. CASE Next /\ ~ RestoreBackup /\ \A p \in Processes : ~ Commit(p)
    <3>1. content' = content
      BY <1>1, <2>3, ContentReplaced
    <3>2. Kept(content, content)
      BY <1>1, ContentLoose, KeptBySame DEF Loose
    <3> QED
      BY <3>1, <3>2 DEF NothingUnwritten
  <2> QED
    BY <1>1, <2>1, <2>2, <2>3
<1> QED
  BY <1>1, InitInv, NextInv, PTL DEF Spec, Durable

-----------------------------------------------------------------------------
(* The orders of a replayed log are in the states of their life cycle. *)

(* An order and a ledger, as far as the states of the orders need it. *)
OrderShape(o) ==
  /\ o = [state |-> o.state, filled |-> o.filled, gross |-> o.gross, fees |-> o.fees,
          cash |-> o.cash, quantity |-> o.quantity, fills |-> o.fills]
  /\ o.state \in OrderStates

OrdersShape(os) ==
  /\ os = [i \in Intents |-> os[i]]
  /\ \A i \in Intents : OrderShape(os[i])

LedgerShape(L) ==
  /\ L = [opened |-> L.opened, cash |-> L.cash, reserved |-> L.reserved, orders |-> L.orders,
          positions |-> L.positions, resolutions |-> L.resolutions, evidence |-> L.evidence]
  /\ OrdersShape(L.orders)

LEMMA FieldSet ==
  ASSUME NEW L, LedgerShape(L), NEW v
  PROVE  /\ LedgerShape([L EXCEPT !.opened = v])
         /\ LedgerShape([L EXCEPT !.cash = v])
         /\ LedgerShape([L EXCEPT !.reserved = v])
         /\ LedgerShape([L EXCEPT !.positions = v])
         /\ LedgerShape([L EXCEPT !.resolutions = v])
         /\ LedgerShape([L EXCEPT !.evidence = v])
<1>1. LedgerShape([L EXCEPT !.opened = v]) /\ LedgerShape([L EXCEPT !.cash = v])
  BY DEF LedgerShape
<1>2. LedgerShape([L EXCEPT !.reserved = v]) /\ LedgerShape([L EXCEPT !.positions = v])
  BY DEF LedgerShape
<1>3. LedgerShape([L EXCEPT !.resolutions = v]) /\ LedgerShape([L EXCEPT !.evidence = v])
  BY DEF LedgerShape
<1> QED
  BY <1>1, <1>2, <1>3

LEMMA OrdersSet ==
  ASSUME NEW L, LedgerShape(L), NEW os, OrdersShape(os)
  PROVE  LedgerShape([L EXCEPT !.orders = os])
BY DEF LedgerShape

LEMMA OrderSet ==
  ASSUME NEW os, OrdersShape(os), NEW i, NEW o, i \in Intents => OrderShape(o)
  PROVE  OrdersShape([os EXCEPT ![i] = o])
<1> DEFINE new == [os EXCEPT ![i] = o]
<1>1. /\ new = [j \in Intents |-> new[j]]
      /\ \A j \in Intents : new[j] = IF j = i THEN o ELSE os[j]
  BY DEF OrdersShape
<1> HIDE DEF new
<1>2. \A j \in Intents : OrderShape(new[j])
  BY <1>1 DEF OrdersShape
<1> QED
  BY <1>1, <1>2 DEF OrdersShape, new

LEMMA OrderFieldSet ==
  ASSUME NEW o, OrderShape(o), NEW v
  PROVE  /\ OrderShape([o EXCEPT !.cash = v])
         /\ OrderShape([o EXCEPT !.quantity = v])
         /\ OrderShape([o EXCEPT !.filled = v])
         /\ OrderShape([o EXCEPT !.gross = v])
         /\ OrderShape([o EXCEPT !.fees = v])
         /\ OrderShape([o EXCEPT !.fills = v])
         /\ v \in OrderStates => OrderShape([o EXCEPT !.state = v])
<1>1. OrderShape([o EXCEPT !.cash = v]) /\ OrderShape([o EXCEPT !.quantity = v])
  BY DEF OrderShape
<1>2. OrderShape([o EXCEPT !.filled = v]) /\ OrderShape([o EXCEPT !.gross = v])
  BY DEF OrderShape
<1>3. OrderShape([o EXCEPT !.fees = v]) /\ OrderShape([o EXCEPT !.fills = v])
  BY DEF OrderShape
<1>4. v \in OrderStates => OrderShape([o EXCEPT !.state = v])
  BY DEF OrderShape
<1> QED
  BY <1>1, <1>2, <1>3, <1>4

(* One order of a ledger is replaced. *)
LEMMA OrderPut ==
  ASSUME NEW L, LedgerShape(L), NEW i, NEW o, i \in Intents => OrderShape(o)
  PROVE  LedgerShape([L EXCEPT !.orders[i] = o])
<1> DEFINE os == [L.orders EXCEPT ![i] = o]
<1>1. OrdersShape(os)
  BY OrderSet DEF LedgerShape
<1>2. [L EXCEPT !.orders[i] = o] = [L EXCEPT !.orders = os]
  BY Zenon
<1> HIDE DEF os
<1> QED
  BY <1>1, <1>2, OrdersSet

LEMMA MoveShape ==
  ASSUME NEW L, LedgerShape(L), NEW i, NEW t \in OrderStates
  PROVE  LedgerShape(Move(L, i, t))
<1> DEFINE o == [L.orders[i] EXCEPT !.state = t]
<1>1. i \in Intents => OrderShape(o)
  BY OrderFieldSet DEF LedgerShape, OrdersShape
<1>2. Move(L, i, t) = [L EXCEPT !.orders[i] = o]
  BY Zenon DEF Move
<1> HIDE DEF o
<1> QED
  BY <1>1, <1>2, OrderPut

LEMMA ReleaseShape ==
  ASSUME NEW L, LedgerShape(L), NEW i
  PROVE  LedgerShape(Release(L, i))
<1>1. CASE IsBuy(i)
  <2> DEFINE M == [L EXCEPT !.reserved = L.reserved - L.orders[i].cash]
             o == [M.orders[i] EXCEPT !.cash = 0]
  <2>1. LedgerShape(M)
    BY FieldSet
  <2>2. Release(L, i) = [M EXCEPT !.orders[i] = o]
    BY <1>1, Zenon DEF Release
  <2> HIDE DEF M
  <2>3. i \in Intents => OrderShape(o)
    BY <2>1, OrderFieldSet DEF LedgerShape, OrdersShape
  <2> HIDE DEF o
  <2> QED
    BY <2>1, <2>2, <2>3, OrderPut
<1>2. CASE ~ IsBuy(i)
  <2> DEFINE k == Terms[i].key
             M == [L EXCEPT !.positions = [L.positions EXCEPT ![k].reserved = L.positions[k].reserved - L.orders[i].quantity]]
             o == [M.orders[i] EXCEPT !.quantity = 0]
  <2>1. LedgerShape(M)
    BY FieldSet
  <2>2. Release(L, i) = [M EXCEPT !.orders[i] = o]
    BY <1>2, Zenon DEF Release
  <2> HIDE DEF M
  <2>3. i \in Intents => OrderShape(o)
    BY <2>1, OrderFieldSet DEF LedgerShape, OrdersShape
  <2> HIDE DEF o
  <2> QED
    BY <2>1, <2>2, <2>3, OrderPut
<1> QED
  BY <1>1, <1>2

LEMMA BookedShape ==
  ASSUME NEW L, LedgerShape(L), NEW i, NEW f
  PROVE  LedgerShape(Booked(L, i, f))
<1> DEFINE M == IF IsBuy(i) THEN BuyFill(L, i, f) ELSE SellFill(L, i, f)
           key == Terms[i].key
<1>1. LedgerShape(BuyFill(L, i, f))
  <2> DEFINE after == ReservationAfter(L, i, f)
             A == [L EXCEPT !.cash = L.cash - Debit(f)]
             B == [A EXCEPT !.reserved = A.reserved - (L.orders[i].cash - after)]
             C == [B EXCEPT !.orders[i] = [B.orders[i] EXCEPT !.cash = after]]
             q == [C.positions[key] EXCEPT !.status = "open",
                      !.quantity = L.positions[key].quantity + f.quantity,
                      !.cost = L.positions[key].cost + Debit(f)]
  <2>1. BuyFill(L, i, f) = [C EXCEPT !.positions = [C.positions EXCEPT ![key] = q]]
    BY Zenon DEF BuyFill
  <2>2. LedgerShape(A)
    BY FieldSet
  <2> HIDE DEF A
  <2>3. LedgerShape(B)
    BY <2>2, FieldSet
  <2> HIDE DEF B
  <2>4. LedgerShape(C)
    <3>1. i \in Intents => OrderShape([B.orders[i] EXCEPT !.cash = after])
      BY <2>3, OrderFieldSet DEF LedgerShape, OrdersShape
    <3> QED
      BY <2>3, <3>1, OrderPut
  <2> DEFINE ps == [C.positions EXCEPT ![key] = q]
  <2>5. BuyFill(L, i, f) = [C EXCEPT !.positions = ps]
    BY <2>1
  <2> HIDE DEF C, q, ps
  <2>6. LedgerShape([C EXCEPT !.positions = ps])
    BY <2>4, FieldSet
  <2> QED
    BY <2>5, <2>6, Zenon
<1>2. LedgerShape(SellFill(L, i, f))
  <2> DEFINE net == Value(f.price, f.quantity) - f.fee
             cost == AllocatedCost(L.positions[key], f.quantity)
             A == [L EXCEPT !.cash = L.cash + net]
             C == [A EXCEPT !.orders[i] = [A.orders[i] EXCEPT !.quantity = A.orders[i].quantity - f.quantity]]
             p == L.positions[key]
             q == [C.positions[key] EXCEPT !.quantity = p.quantity - f.quantity,
                         !.reserved = p.reserved - f.quantity,
                         !.cost = IF f.quantity = p.quantity THEN 0 ELSE p.cost - cost,
                         !.pnl = p.pnl + net - cost]
  <2>1. SellFill(L, i, f) = [C EXCEPT !.positions = [C.positions EXCEPT ![key] = q]]
    BY Zenon DEF SellFill
  <2>2. LedgerShape(A)
    BY FieldSet
  <2> HIDE DEF A
  <2>4. LedgerShape(C)
    <3>1. i \in Intents => OrderShape([A.orders[i] EXCEPT !.quantity = A.orders[i].quantity - f.quantity])
      BY <2>2, OrderFieldSet DEF LedgerShape, OrdersShape
    <3> QED
      BY <2>2, <3>1, OrderPut
  <2> DEFINE ps == [C.positions EXCEPT ![key] = q]
  <2>5. SellFill(L, i, f) = [C EXCEPT !.positions = ps]
    BY <2>1
  <2> HIDE DEF C, q, ps
  <2>6. LedgerShape([C EXCEPT !.positions = ps])
    BY <2>4, FieldSet
  <2> QED
    BY <2>5, <2>6, Zenon
<1>3. LedgerShape(M)
  BY <1>1, <1>2
<1> DEFINE o == M.orders[i]
           state == FillTarget(L, i, f)
           a == [o EXCEPT !.state = state]
           b == [a EXCEPT !.filled = o.filled + f.quantity]
           c == [b EXCEPT !.gross = o.gross + Value(f.price, f.quantity)]
           d == [c EXCEPT !.fees = o.fees + f.fee]
           e == [d EXCEPT !.fills = o.fills \cup {f}]
<1>4. Booked(L, i, f) = [M EXCEPT !.orders[i] = e]
  BY Zenon DEF Booked
<1>5. state \in OrderStates
  BY DEF FillTarget, OrderStates, Terminal
<1>6. i \in Intents => OrderShape(e)
  <2> SUFFICES ASSUME i \in Intents PROVE OrderShape(e)
    OBVIOUS
  <2>1. OrderShape(o)
    BY <1>3 DEF LedgerShape, OrdersShape
  <2> HIDE DEF o, state
  <2>2. OrderShape(a)
    BY <1>5, <2>1, OrderFieldSet
  <2> HIDE DEF a
  <2>3. OrderShape(b)
    BY <2>2, OrderFieldSet
  <2> HIDE DEF b
  <2>4. OrderShape(c)
    BY <2>3, OrderFieldSet
  <2> HIDE DEF c
  <2>5. OrderShape(d)
    BY <2>4, OrderFieldSet
  <2> HIDE DEF d
  <2> QED
    BY <2>5, OrderFieldSet
<1> HIDE DEF M, e
<1> QED
  BY <1>3, <1>4, <1>6, OrderPut

LEMMA CreateShape ==
  ASSUME NEW L, LedgerShape(L), NEW i
  PROVE  LedgerShape(Create(L, i))
<1> DEFINE M == [L EXCEPT !.orders[i] = NewOrder(i)]
           key == Terms[i].key
<1>1. OrderShape(NewOrder(i))
  <2> DEFINE kept == IF IsBuy(i) THEN 0 ELSE Terms[i].quantity
             a == [NoOrder EXCEPT !.state = "created"]
             b == [a EXCEPT !.cash = CashReservation(i)]
             c == [b EXCEPT !.quantity = kept]
  <2>1. NewOrder(i) = c
    BY Zenon DEF NewOrder
  <2>2. OrderShape(NoOrder)
    BY DEF NoOrder, OrderShape, OrderStates
  <2>3. OrderShape(a)
    BY <2>2, OrderFieldSet DEF OrderStates
  <2> HIDE DEF a
  <2>4. OrderShape(b)
    BY <2>3, OrderFieldSet
  <2> HIDE DEF b, kept
  <2>5. OrderShape([b EXCEPT !.quantity = kept])
    BY <2>4, OrderFieldSet
  <2> QED
    BY <2>1, <2>5, Zenon
<1>2. LedgerShape(M)
  BY <1>1, OrderPut
<1>3. CASE IsBuy(i)
  <2> DEFINE v == M.reserved + CashReservation(i)
  <2>1. Create(L, i) = [M EXCEPT !.reserved = v]
    BY <1>3, Zenon DEF Create
  <2> HIDE DEF M, v
  <2>2. LedgerShape([M EXCEPT !.reserved = v])
    BY <1>2, FieldSet
  <2> QED
    BY <2>1, <2>2, Zenon
<1>4. CASE ~ IsBuy(i)
  <2> DEFINE ps == [M.positions EXCEPT ![key].reserved = M.positions[key].reserved + Terms[i].quantity]
  <2>1. Create(L, i) = [M EXCEPT !.positions = ps]
    BY <1>4, Zenon DEF Create
  <2> HIDE DEF M, ps
  <2>2. LedgerShape([M EXCEPT !.positions = ps])
    BY <1>2, FieldSet
  <2> QED
    BY <2>1, <2>2, Zenon
<1> QED
  BY <1>3, <1>4

LEMMA SettleShape ==
  ASSUME NEW L, LedgerShape(L), NEW k, NEW fee
  PROVE  LedgerShape(Settle(L, k, fee))
<1> DEFINE net == Proceeds(L, k) - fee
           M == [L EXCEPT !.cash = L.cash + net]
           q == [M.positions[k] EXCEPT !.status = "settled", !.quantity = 0, !.reserved = 0,
                    !.cost = 0, !.pnl = L.positions[k].pnl + net - L.positions[k].cost]
           ps == [M.positions EXCEPT ![k] = q]
<1>1. Settle(L, k, fee) = [M EXCEPT !.positions = ps]
  BY Zenon DEF Settle
<1>2. LedgerShape(M)
  BY FieldSet
<1> HIDE DEF M, ps
<1>3. LedgerShape([M EXCEPT !.positions = ps])
  BY <1>2, FieldSet
<1> QED
  BY <1>1, <1>3, Zenon

(* Whatever the event, every order stays in a state of its life cycle. *)
LEMMA ReducedShape ==
  ASSUME NEW L, LedgerShape(L), NEW e
  PROVE  LedgerShape(Reduced(L, e))
<1>1. LedgerShape(Open(L, e.data))
  <2> DEFINE M == [L EXCEPT !.opened = TRUE]
  <2>1. Open(L, e.data) = [M EXCEPT !.cash = e.data]
    BY Zenon DEF Open
  <2>2. LedgerShape(M)
    BY FieldSet
  <2> HIDE DEF M
  <2>3. LedgerShape([M EXCEPT !.cash = e.data])
    BY <2>2, FieldSet
  <2> QED
    BY <2>1, <2>3, Zenon
<1>2. LedgerShape(Create(L, e.of)) /\ LedgerShape(Settle(L, e.of, e.data))
  BY CreateShape, SettleShape
<1>3. LedgerShape(Fill(L, e.of, e.data))
  <2>1. LedgerShape(Booked(L, e.of, e.data))
    BY BookedShape
  <2> QED
    BY <2>1, ReleaseShape DEF Fill
<1>4. ASSUME e.kind \in {"submitted", "acknowledged", "unknown"} PROVE LedgerShape(Move(L, e.of, e.kind))
  <2>1. e.kind \in OrderStates
    BY <1>4 DEF OrderStates
  <2> QED
    BY <2>1, MoveShape
<1>5. ASSUME e.kind \in {"rejected", "cancelled"} PROVE LedgerShape(Terminate(L, e.of, e.kind))
  <2>1. e.kind \in OrderStates /\ LedgerShape(Release(L, e.of))
    BY <1>5, ReleaseShape DEF OrderStates, Terminal
  <2> QED
    BY <2>1, MoveShape DEF Terminate
<1>6. LedgerShape(RecordEvidence(L, e.of, e.data)) /\ LedgerShape(Resolve(L, e.of, e.data))
  <2> DEFINE v == [L.evidence EXCEPT ![e.of] = e.data]
             w == [L.resolutions EXCEPT ![e.of] = e.data]
  <2>1. RecordEvidence(L, e.of, e.data) = [L EXCEPT !.evidence = v]
    BY Zenon DEF RecordEvidence
  <2>2. Resolve(L, e.of, e.data) = [L EXCEPT !.resolutions = w]
    BY Zenon DEF Resolve
  <2> HIDE DEF v, w
  <2>3. LedgerShape([L EXCEPT !.evidence = v]) /\ LedgerShape([L EXCEPT !.resolutions = w])
    BY FieldSet
  <2> QED
    BY <2>1, <2>2, <2>3, Zenon
<1> QED
  BY <1>1, <1>2, <1>3, <1>4, <1>5, <1>6 DEF Reduced

LEMMA EmptyShape == LedgerShape(Empty)
<1>1. /\ Empty = [opened |-> Empty.opened, cash |-> Empty.cash, reserved |-> Empty.reserved,
                  orders |-> Empty.orders, positions |-> Empty.positions,
                  resolutions |-> Empty.resolutions, evidence |-> Empty.evidence]
      /\ Empty.orders = [i \in Intents |-> NoOrder]
  BY DEF Empty
<1>2. OrderShape(NoOrder)
  BY DEF NoOrder, OrderShape, OrderStates
<1>3. OrdersShape(Empty.orders)
  BY <1>1, <1>2 DEF OrdersShape
<1> QED
  BY <1>1, <1>3 DEF LedgerShape

LEMMA ReplayShape ==
  ASSUME NEW log, IsSequence(log)
  PROVE  LedgerShape(Replay(log).ledger)
<1> DEFINE N == Len(log)
           f == ReplayStates(log)
           S == {n \in Nat : n <= N => LedgerShape(f[n].ledger)}
<1>1. N \in Nat /\ IsReplay(f, log, N)
  BY SequenceDomain, ReplayEquation
<1> HIDE DEF f, N
<1>2. /\ f[0] = [ok |-> TRUE, ledger |-> Empty]
      /\ \A n \in Nat : n < N => f[n + 1] = ApplyRow(f[n], log[n + 1])
  BY <1>1, ReplayRows
<1>3. 0 \in S
  BY <1>2, EmptyShape
<1>4. ASSUME NEW n \in Nat, n \in S PROVE n + 1 \in S
  <2> SUFFICES ASSUME n + 1 <= N PROVE LedgerShape(f[n + 1].ledger)
    OBVIOUS
  <2>1. n < N /\ LedgerShape(f[n].ledger)
    BY <1>1, <1>4
  <2>2. LedgerShape(Reduced(f[n].ledger, log[n + 1]))
    BY <2>1, ReducedShape
  <2>3. f[n + 1].ledger \in {f[n].ledger, Reduced(f[n].ledger, log[n + 1])}
    <3> DEFINE row == f[n]  e == log[n + 1]
    <3>1. f[n + 1] = ApplyRow(row, e)
      BY <1>2, <2>1
    <3> HIDE DEF row, e
    <3>2. ApplyRow(row, e).ledger \in {row.ledger, Reduced(row.ledger, e)}
      BY DEF ApplyRow
    <3> QED
      BY <3>1, <3>2 DEF row, e
  <2> QED
    BY <2>1, <2>2, <2>3
<1> HIDE DEF S
<1>5. N \in S
  BY <1>1, <1>3, <1>4, InductionOnNaturals
<1> QED
  BY <1>1, <1>5 DEF S, Replay, N, f

LEMMA StateOfOrder ==
  ASSUME NEW log, IsSequence(log), NEW i \in Intents
  PROVE  Replay(log).ledger.orders[i].state \in OrderStates
BY ReplayShape DEF LedgerShape, OrdersShape, OrderShape

-----------------------------------------------------------------------------
(* A batch, event by event *)

First(S) == [ok |-> TRUE, store |-> S]

IsBatch(f, S, events, intents, N) ==
  f = [n \in 0 .. N |-> IF n = 0 THEN First(S) ELSE AppendRow(S, f[n - 1], events[n], intents)]

LEMMA BatchRows ==
  ASSUME NEW f, NEW S, NEW events, NEW intents, NEW N \in Nat, IsBatch(f, S, events, intents, N)
  PROVE  /\ f[0] = First(S)
         /\ \A n \in Nat : n < N => f[n + 1] = AppendRow(S, f[n], events[n + 1], intents)
<1>1. f[0] = First(S)
  BY DEF IsBatch
<1>2. ASSUME NEW n \in Nat, n < N PROVE f[n + 1] = AppendRow(S, f[n], events[n + 1], intents)
  <2> DEFINE m == n + 1
  <2>1. m \in 0 .. N /\ m # 0 /\ m - 1 = n
    BY <1>2
  <2> HIDE DEF m
  <2>2. f[m] = AppendRow(S, f[m - 1], events[m], intents)
    BY <2>1 DEF IsBatch
  <2> QED
    BY <2>1, <2>2 DEF m
<1> QED
  BY <1>1, <1>2

LEMMA BatchExists ==
  ASSUME NEW S, NEW events, NEW intents, NEW N \in Nat
  PROVE  \E f : IsBatch(f, S, events, intents, N)
<1> DEFINE Row(r, n) == AppendRow(S, r, events[n], intents)
           A == {n \in Nat : \E f : IsBatch(f, S, events, intents, n)}
<1>1. 0 \in A
  <2> DEFINE f == [n \in 0 .. 0 |-> First(S)]
  <2>1. IsBatch(f, S, events, intents, 0)
    BY DEF IsBatch
  <2> QED
    BY <2>1
<1>2. ASSUME NEW n \in Nat, n \in A PROVE n + 1 \in A
  <2>1. PICK f : IsBatch(f, S, events, intents, n)
    BY <1>2
  <2> DEFINE g == [k \in 0 .. (n + 1) |-> IF k = n + 1 THEN Row(f[n], n + 1) ELSE f[k]]
  <2> HIDE DEF Row
  <2>2. \A k \in 0 .. n : g[k] = f[k]
    OBVIOUS
  <2>3. ASSUME NEW k \in 0 .. (n + 1)
      PROVE  g[k] = IF k = 0 THEN First(S) ELSE Row(g[k - 1], k)
    <3>1. CASE k = n + 1
      <4>1. k # 0 /\ k - 1 = n /\ g[n] = f[n]
        BY <3>1
      <4>2. g[k] = Row(f[n], k)
        BY <3>1
      <4> QED
        BY <4>1, <4>2
    <3>2. CASE k = 0
      BY <2>1, <3>2 DEF IsBatch
    <3>3. CASE k # 0 /\ k # n + 1
      <4>1. k \in 0 .. n /\ k - 1 \in 0 .. n
        BY <3>3
      <4>2. g[k] = f[k] /\ g[k - 1] = f[k - 1]
        BY <2>2, <4>1
      <4> HIDE DEF g
      <4>3. f[k] = Row(f[k - 1], k)
        BY <2>1, <3>3, <4>1 DEF IsBatch, Row
      <4> QED
        BY <3>3, <4>2, <4>3
    <3> QED
      BY <3>1, <3>2, <3>3
  <2>4. IsBatch(g, S, events, intents, n + 1)
    <3>1. g = [k \in 0 .. (n + 1) |-> g[k]]
      OBVIOUS
    <3> HIDE DEF g
    <3> QED
      BY <2>3, <3>1 DEF IsBatch, Row
  <2> QED
    BY <2>4
<1> HIDE DEF A
<1>3. N \in A
  BY <1>1, <1>2, InductionOnNaturals
<1> QED
  BY <1>3 DEF A

LEMMA BatchEquation ==
  ASSUME NEW S, NEW events, IsSequence(events), NEW intents
  PROVE  IsBatch(BatchStates(S, events, intents), S, events, intents, Len(events))
<1>1. Len(events) \in Nat
  BY SequenceDomain
<1>2. \E f : IsBatch(f, S, events, intents, Len(events))
  BY <1>1, BatchExists
<1>3. BatchStates(S, events, intents) = CHOOSE f : IsBatch(f, S, events, intents, Len(events))
  BY DEF BatchStates, IsBatch, First
<1> QED
  BY <1>2, <1>3

\* A copy in which a first part of a batch is inserted, and the rest of it.
Halfway(S, events, intents, work, todo) ==
  \E n \in Nat :
     /\ n <= Len(events)
     /\ BatchStates(S, events, intents)[n] = [ok |-> TRUE, store |-> work]
     /\ IsSequence(todo) /\ Len(todo) = Len(events) - n
     /\ \A k \in 1 .. Len(todo) : todo[k] = events[n + k]

LEMMA HalfwayBegins ==
  ASSUME NEW S, NEW events, IsSequence(events), NEW intents
  PROVE  Halfway(S, events, intents, S, events)
<1> DEFINE f == BatchStates(S, events, intents)
<1>1. Len(events) \in Nat /\ IsBatch(f, S, events, intents, Len(events))
  BY BatchEquation, SequenceDomain
<1> HIDE DEF f
<1>2. f[0] = [ok |-> TRUE, store |-> S]
  BY <1>1, BatchRows DEF First
<1>3. 0 \in Nat /\ 0 <= Len(events) /\ Len(events) = Len(events) - 0
      /\ \A k \in 1 .. Len(events) : events[k] = events[0 + k]
  BY <1>1
<1> QED
  BY <1>2, <1>3 DEF Halfway, f

LEMMA HalfwayNext ==
  ASSUME NEW S, NEW events, IsSequence(events), NEW intents, NEW work, NEW todo, todo # <<>>,
         Halfway(S, events, intents, work, todo), Accepts(work, Head(todo), intents)
  PROVE  Halfway(S, events, intents, Insert(work, Head(todo)), Tail(todo))
<1> DEFINE f == BatchStates(S, events, intents)
           N == Len(events)
           rest == Tail(todo)
<1>1. PICK n \in Nat :
        /\ n <= N /\ f[n] = [ok |-> TRUE, store |-> work]
        /\ IsSequence(todo) /\ Len(todo) = N - n
        /\ \A k \in 1 .. Len(todo) : todo[k] = events[n + k]
  BY DEF Halfway
<1>2. N \in Nat /\ IsBatch(f, S, events, intents, N)
  BY BatchEquation, SequenceDomain
<1>3. /\ Head(todo) = todo[1] /\ 1 \in DOMAIN todo
      /\ IsSequence(rest) /\ Len(rest) = Len(todo) - 1
      /\ \A k \in DOMAIN rest : rest[k] = todo[k + 1] /\ k + 1 \in DOMAIN todo
      /\ DOMAIN todo = 1 .. Len(todo) /\ DOMAIN rest = 1 .. Len(rest)
      /\ Len(todo) \in Nat /\ Len(rest) \in Nat
  <2>1. IsSequence(rest)
    BY <1>1, TailElements
  <2> QED
    BY <1>1, <2>1, TailElements, SequenceDomain
<1> HIDE DEF f, N, rest
<1>4. n < N /\ n + 1 \in Nat /\ n + 1 <= N /\ Head(todo) = events[n + 1]
  BY <1>1, <1>2, <1>3
<1>5. f[n + 1] = AppendRow(S, f[n], events[n + 1], intents)
  BY <1>2, <1>4, BatchRows
<1>6. f[n + 1] = [ok |-> TRUE, store |-> Insert(work, Head(todo))]
  <2> DEFINE e == Head(todo)
  <2>1. f[n + 1] = AppendRow(S, [ok |-> TRUE, store |-> work], e, intents)
    BY <1>1, <1>4, <1>5
  <2>2. Accepts(work, e, intents)
    OBVIOUS
  <2> HIDE DEF e
  <2>3. AppendRow(S, [ok |-> TRUE, store |-> work], e, intents) = [ok |-> TRUE, store |-> Insert(work, e)]
    BY <2>2 DEF AppendRow
  <2> QED
    BY <2>1, <2>3 DEF e
<1>7. Len(rest) = N - (n + 1) /\ \A k \in 1 .. Len(rest) : rest[k] = events[(n + 1) + k]
  <2>1. Len(rest) = N - (n + 1)
    BY <1>1, <1>2, <1>3
  <2>2. ASSUME NEW k \in 1 .. Len(rest) PROVE rest[k] = events[(n + 1) + k]
    <3>1. rest[k] = todo[k + 1] /\ k + 1 \in 1 .. Len(todo)
      BY <1>3
    <3>2. todo[k + 1] = events[n + (k + 1)]
      BY <1>1, <3>1
    <3>3. n + (k + 1) = (n + 1) + k
      OBVIOUS
    <3> QED
      BY <3>1, <3>2, <3>3
  <2> QED
    BY <2>1, <2>2
<1> QED
  BY <1>3, <1>4, <1>6, <1>7 DEF Halfway, f, N, rest

LEMMA HalfwayEnds ==
  ASSUME NEW S, NEW events, IsSequence(events), NEW intents, NEW work,
         Halfway(S, events, intents, work, <<>>)
  PROVE  Batch(S, events, intents) = [ok |-> TRUE, store |-> work]
<1> DEFINE N == Len(events)
<1>1. N \in Nat /\ Len(<<>>) = 0
  BY SequenceDomain
<1>2. PICK n \in Nat :
        /\ n <= N /\ BatchStates(S, events, intents)[n] = [ok |-> TRUE, store |-> work]
        /\ Len(<<>>) = N - n
  BY DEF Halfway
<1> HIDE DEF N
<1>3. n = N
  BY <1>1, <1>2
<1> QED
  BY <1>2, <1>3 DEF Batch, N

-----------------------------------------------------------------------------
(* What an open transaction has done so far, and the call it will have been. *)

\* The calls of one row.
Statement(C, work, p) ==
  \/ \E d \in Decisions, m \in Payloads :
       /\ C.claims[d] = NoClaim
       /\ work = [C EXCEPT !.claims[d] =
                    [status |-> "claimed", owner |-> p, intent |-> None, metadata |-> m]]
  \/ \E d \in Decisions :
       /\ C.claims[d].status = "claimed" /\ C.claims[d].owner = p
       /\ work = [C EXCEPT !.claims[d].status = "completed"]
  \/ \E i \in Intents, b \in Backends, x \in Payloads :
       /\ i \in CreatedIn(C.log)
       /\ C.adapters[i] = NoAdapter \/ C.adapters[i].backend = b
       /\ work = [C EXCEPT !.adapters[i] = [backend |-> b, payload |-> x]]
  \/ work = [C EXCEPT !.checkpoints = @ \cup {Checkpoint(C)}]

\* A transaction of process p on what is published as C.
Underway(C, work, todo, intents, p) ==
  \/ todo = <<>> /\ Statement(C, work, p)
  \/ \E events \in Batches :
       intents = FALSE /\ IsSequence(events) /\ Halfway(C, events, FALSE, work, todo)
  \/ \E i \in Intents, m \in Payloads :
       /\ MayCommit(C.claims[Decision[i]], p, m)
       /\ intents = TRUE /\ Halfway(Claimed(C, p, i, m), <<Created(i, 0)>>, TRUE, work, todo)

CallInv == \A p \in Processes :
  pc[p] = "writing" => Underway(content, txn.work, txn.todo, txn.intents, p)

\* What a load returned.
ViewShape(v) ==
  /\ v = [goal |-> v.goal, log |-> v.log, pending |-> v.pending]
  /\ IsSequence(v.log)
  /\ \A r \in v.pending : r.intent \in Intents /\ r.state \in OrderStates

ViewInv ==
  /\ view = [p \in Processes |-> view[p]]
  /\ \A p \in Processes : ViewShape(view[p])

CInv == IInv /\ CallInv /\ ViewInv

LEMMA OneSequence ==
  ASSUME NEW e
  PROVE  IsSequence(<<e>>)
<1>1. <<e>> \in Seq({e})
  OBVIOUS
<1> QED
  BY <1>1, OwnElements

LEMMA OpeningBatch == <<Opened(Unit, 0)>> \in Batches /\ IsSequence(<<Opened(Unit, 0)>>)
<1>1. <<Opened(Unit, 0)>> \in Batches
  BY DEF Batches
<1> QED
  BY <1>1, OneSequence

LEMMA ReportedBatch ==
  ASSUME NEW i \in Intents, NEW s \in OrderStates, NEW r \in Reports[<<i, s>>]
  PROVE  r \in Batches /\ IsSequence(r)
<1>1. r \in Batches
  BY DEF Batches
<1>2. r \in Seq(Range(r))
  BY StoreInputAssumption
<1> QED
  BY <1>1, <1>2, OwnElements

LEMMA ContentStates ==
  ASSUME IInv, NEW i \in Intents
  PROVE  content.ledger.orders[i].state \in OrderStates
<1>1. content.ledger = Replay(content.log).ledger /\ IsSequence(content.log)
  BY ContentLoose DEF Loose, Shape
<1> QED
  BY <1>1, StateOfOrder

(* Nobody else writes while a process begins or ends a transaction. *)
LEMMA CallBegins ==
  ASSUME CInv, NEW p \in Processes, txn = NoTransaction,
         NEW work, NEW todo, NEW intents, NEW back,
         txn' = [process |-> p, work |-> work, todo |-> todo, intents |-> intents, back |-> back],
         pc' = [pc EXCEPT ![p] = "writing"], UNCHANGED content,
         Underway(content, work, todo, intents, p)
  PROVE  CallInv'
<1>1. \A q \in Processes : pc[q] # "writing"
  BY NoTransactionFacts, NoneProcessAssumption DEF CInv, IInv, LockInv
<1>2. txn'.work = work /\ txn'.todo = todo /\ txn'.intents = intents /\ content' = content
  OBVIOUS
<1>3. \A q \in Processes : q # p => pc'[q] # "writing"
  BY <1>1 DEF CInv, IInv, LockInv
<1>4. Underway(content', txn'.work, txn'.todo, txn'.intents, p)
  BY <1>2
<1> QED
  BY <1>3, <1>4 DEF CallInv

LEMMA CallEnds ==
  ASSUME CInv, NEW p \in Processes, pc[p] = "writing",
         NEW after, after # "writing", pc' = [pc EXCEPT ![p] = after]
  PROVE  CallInv'
<1>1. \A q \in Processes : pc'[q] # "writing"
  BY DEF CInv, IInv, LockInv
<1> QED
  BY <1>1 DEF CallInv

LEMMA CallStays ==
  ASSUME CInv, NEW p \in Processes, NEW after, after # "writing",
         pc' = [pc EXCEPT ![p] = after], UNCHANGED txn, content' = content
  PROVE  CallInv'
<1>1. \A q \in Processes : pc'[q] = "writing" => pc[q] = "writing"
  BY DEF CInv, IInv, LockInv
<1>2. ASSUME NEW q \in Processes, pc'[q] = "writing"
      PROVE  Underway(content', txn'.work, txn'.todo, txn'.intents, q)
  <2>1. Underway(content, txn.work, txn.todo, txn.intents, q)
    BY <1>1, <1>2 DEF CInv, CallInv
  <2> QED
    BY <2>1
<1> QED
  BY <1>2 DEF CallInv

LEMMA ViewSet ==
  ASSUME ViewInv, NEW p \in Processes, NEW v, ViewShape(v), view' = [view EXCEPT ![p] = v]
  PROVE  ViewInv'
<1>1. view' = [q \in Processes |-> view'[q]] /\ \A q \in Processes : view'[q] \in {v, view[q]}
  BY DEF ViewInv
<1> QED
  BY <1>1 DEF ViewInv

LEMMA NoViewShape == ViewShape(NoView)
<1>1. NoView = [goal |-> "none", log |-> <<>>, pending |-> {}]
  BY DEF NoView
<1> QED
  BY <1>1, EmptySequence DEF ViewShape

LEMMA InitCalls == Init => CInv
<1> SUFFICES ASSUME Init PROVE CInv
  OBVIOUS
<1>1. IInv
  BY InitInv
<1>2. CallInv
  BY DEF Init, CallInv
<1>3. ViewInv
  BY NoViewShape DEF Init, ViewInv
<1> QED
  BY <1>1, <1>2, <1>3 DEF CInv

LEMMA WriteCalls ==
  ASSUME CInv, NEW p \in Processes, Write(p)
  PROVE  CallInv'
<1>1. ASSUME NEW work, NEW todo, NEW intents, Begin(p, work, todo, intents),
             Underway(content, work, todo, intents, p)
      PROVE  CallInv'
  BY <1>1, CallBegins DEF Begin
<1>2. ASSUME NEW work, Begin(p, work, <<>>, FALSE), Statement(content, work, p)
      PROVE  CallInv'
  <2>1. Underway(content, work, <<>>, FALSE, p)
    BY <1>2 DEF Underway
  <2> QED
    BY <1>1, <1>2, <2>1
<1>3. ASSUME NEW events \in Batches, IsSequence(events), Begin(p, content, events, FALSE)
      PROVE  CallInv'
  <2>1. Halfway(content, events, FALSE, content, events)
    BY <1>3, HalfwayBegins
  <2>2. Underway(content, content, events, FALSE, p)
    BY <1>3, <2>1 DEF Underway
  <2> QED
    BY <1>1, <1>3, <2>2
<1>4. CASE OpenAccount(p)
  BY <1>3, <1>4, OpeningBatch DEF OpenAccount
<1>5. ASSUME NEW d \in Decisions, CompleteDecisionWithoutIntent(p, d) PROVE CallInv'
  <2> DEFINE W == [content EXCEPT !.claims[d].status = "completed"]
  <2>1. Statement(content, W, p) /\ Begin(p, W, <<>>, FALSE)
    BY <1>5 DEF CompleteDecisionWithoutIntent, Statement
  <2> HIDE DEF W
  <2> QED
    BY <1>2, <2>1
<1>6. ASSUME NEW d \in Decisions, NEW m \in Payloads, ClaimDecision(p, d, m) PROVE CallInv'
  <2> DEFINE W == [content EXCEPT !.claims[d] =
                     [status |-> "claimed", owner |-> p, intent |-> None, metadata |-> m]]
  <2>1. Statement(content, W, p) /\ Begin(p, W, <<>>, FALSE)
    BY <1>6 DEF ClaimDecision, Statement
  <2> HIDE DEF W
  <2> QED
    BY <1>2, <2>1
<1>7. ASSUME NEW i \in Intents, AppendMany(p, i) PROVE CallInv'
  <2> DEFINE s == content.ledger.orders[i].state
  <2>1. s \in OrderStates
    BY ContentStates DEF CInv
  <2>2. PICK r \in Reports[<<i, s>>] : Begin(p, content, r, FALSE)
    BY <1>7 DEF AppendMany
  <2> HIDE DEF s
  <2>3. r \in Batches /\ IsSequence(r)
    BY <2>1, ReportedBatch
  <2> QED
    BY <1>3, <2>2, <2>3
<1>8. ASSUME NEW i \in Intents, NEW m \in Payloads, CommitOrderIntent(p, i, m) PROVE CallInv'
  <2> DEFINE W == Claimed(content, p, i, m)
             events == <<Created(i, 0)>>
  <2>1. MayCommit(content.claims[Decision[i]], p, m) /\ Begin(p, W, events, TRUE)
    BY <1>8 DEF CommitOrderIntent
  <2>2. IsSequence(events)
    BY OneSequence
  <2>3. Halfway(W, events, TRUE, W, events)
    BY <2>2, HalfwayBegins
  <2>4. Underway(content, W, events, TRUE, p)
    BY <2>1, <2>3 DEF Underway
  <2> HIDE DEF W, events
  <2> QED
    BY <1>1, <2>1, <2>4
<1>9. ASSUME NEW i \in Intents, NEW b \in Backends, NEW x \in Payloads, SetAdapterMetadata(p, i, b, x)
      PROVE  CallInv'
  <2> DEFINE W == [content EXCEPT !.adapters[i] = [backend |-> b, payload |-> x]]
  <2>1. Statement(content, W, p) /\ Begin(p, W, <<>>, FALSE)
    BY <1>9 DEF SetAdapterMetadata, Statement
  <2> HIDE DEF W
  <2> QED
    BY <1>2, <2>1
<1>10. CASE CreateCheckpoint(p)
  <2> DEFINE W == [content EXCEPT !.checkpoints = @ \cup {Checkpoint(content)}]
  <2>1. Statement(content, W, p) /\ Begin(p, W, <<>>, FALSE)
    BY <1>10 DEF CreateCheckpoint, Statement
  <2> HIDE DEF W
  <2> QED
    BY <1>2, <2>1
<1> QED
  BY <1>4, <1>5, <1>6, <1>7, <1>8, <1>9, <1>10 DEF Write

LEMMA AppendNextCalls ==
  ASSUME CInv, NEW p \in Processes, AppendNext(p)
  PROVE  CallInv'
<1> DEFINE e == Head(txn.todo)
           work == Insert(txn.work, e)
           rest == Tail(txn.todo)
<1>1. /\ pc[p] = "writing" /\ txn.todo # <<>> /\ Accepts(txn.work, e, txn.intents)
      /\ content' = content /\ UNCHANGED pc
      /\ txn' = [txn EXCEPT !.work = work, !.todo = rest]
  BY DEF AppendNext
<1>2. Underway(content, txn.work, txn.todo, txn.intents, p)
  BY <1>1 DEF CInv, CallInv
<1>3. Underway(content, work, rest, txn.intents, p)
  <2>1. CASE \E events \in Batches :
               /\ txn.intents = FALSE /\ IsSequence(events)
               /\ Halfway(content, events, FALSE, txn.work, txn.todo)
    <3>1. PICK events \in Batches :
            /\ txn.intents = FALSE /\ IsSequence(events)
            /\ Halfway(content, events, FALSE, txn.work, txn.todo)
      BY <2>1
    <3>2. Halfway(content, events, FALSE, work, rest)
      BY <1>1, <3>1, HalfwayNext
    <3> HIDE DEF work, rest
    <3> QED
      BY <3>1, <3>2 DEF Underway
  <2>2. CASE \E i \in Intents, m \in Payloads :
               /\ MayCommit(content.claims[Decision[i]], p, m) /\ txn.intents = TRUE
               /\ Halfway(Claimed(content, p, i, m), <<Created(i, 0)>>, TRUE, txn.work, txn.todo)
    <3>1. PICK i \in Intents, m \in Payloads :
            /\ MayCommit(content.claims[Decision[i]], p, m) /\ txn.intents = TRUE
            /\ Halfway(Claimed(content, p, i, m), <<Created(i, 0)>>, TRUE, txn.work, txn.todo)
      BY <2>2
    <3> DEFINE S == Claimed(content, p, i, m)
               events == <<Created(i, 0)>>
    <3>2. IsSequence(events) /\ Halfway(S, events, TRUE, txn.work, txn.todo)
      BY <3>1, OneSequence
    <3> HIDE DEF S, events
    <3>3. Halfway(S, events, TRUE, work, rest)
      BY <1>1, <3>1, <3>2, HalfwayNext
    <3> HIDE DEF work, rest
    <3> QED
      BY <3>1, <3>3 DEF Underway, S, events
  <2> QED
    BY <1>1, <1>2, <2>1, <2>2 DEF Underway
<1> HIDE DEF work, rest
<1>4. txn'.work = work /\ txn'.todo = rest /\ txn'.intents = txn.intents
  <2> DEFINE half == [txn EXCEPT !.work = work]
  <2>1. txn' = [half EXCEPT !.todo = rest]
    BY <1>1, Zenon
  <2>2. half = [process |-> txn.process, work |-> work, todo |-> txn.todo,
                intents |-> txn.intents, back |-> txn.back]
    BY DEF CInv, IInv, WorkInv
  <2> HIDE DEF half
  <2> QED
    BY <2>1, <2>2
<1>5. Underway(content', txn'.work, txn'.todo, txn'.intents, p)
  BY <1>1, <1>3, <1>4
<1>6. \A q \in Processes : pc'[q] = "writing" => q = p
  BY <1>1 DEF CInv, IInv, LockInv
<1> QED
  BY <1>5, <1>6 DEF CallInv

LEMMA ReadCalls ==
  ASSUME CInv, NEW p \in Processes, Read(p)
  PROVE  CallInv'
<1>1. CASE OpenStore(p)
  <2>1. pc' = [pc EXCEPT ![p] = "rows"] /\ UNCHANGED txn /\ content' = content
    BY <1>1 DEF OpenStore, LoadRows
  <2> QED
    BY <2>1, CallStays
<1>2. CASE Recover(p) \/ BackupTo(p)
  <2>1. pc' = [pc EXCEPT ![p] = "rows"] /\ UNCHANGED txn /\ content' = content
    BY <1>2 DEF Recover, BackupTo, LoadRows
  <2> QED
    BY <2>1, CallStays
<1>3. CASE LoadCheckpoints(p)
  <2> DEFINE after == AfterLoad(view[p].goal)
  <2>1. after # "writing" /\ pc' = [pc EXCEPT ![p] = after] /\ UNCHANGED txn /\ content' = content
    BY <1>3 DEF LoadCheckpoints, AfterLoad
  <2> HIDE DEF after
  <2> QED
    BY <2>1, CallStays
<1>4. CASE RaiseCorrupt(p)
  <2> DEFINE after == IF view[p].goal = "open" THEN "closed" ELSE "idle"
  <2>1. after # "writing" /\ pc' = [pc EXCEPT ![p] = after] /\ UNCHANGED txn /\ content' = content
    BY <1>4 DEF RaiseCorrupt, Disconnect
  <2> HIDE DEF after
  <2> QED
    BY <2>1, CallStays
<1>5. CASE VerifyAuxiliary(p) \/ EndReconcile(p)
  <2>1. pc' = [pc EXCEPT ![p] = "idle"] /\ UNCHANGED txn /\ content' = content
    BY <1>5 DEF VerifyAuxiliary, EndReconcile
  <2> QED
    BY <2>1, CallStays
<1>6. CASE ReadAdapters(p)
  <2>1. pc' = [pc EXCEPT ![p] = "reconcile"] /\ UNCHANGED txn /\ content' = content
    BY <1>6 DEF ReadAdapters
  <2> QED
    BY <2>1, CallStays
<1>7. CASE Reconcile(p)
  <2>1. PICK r \in view[p].pending : \E events \in Reports[<<r.intent, r.state>>] :
          /\ pc[p] = "reconcile" /\ txn = NoTransaction
          /\ IF events = <<>> THEN UNCHANGED <<txn, pc>>
             ELSE /\ txn' = [process |-> p, work |-> content, todo |-> events,
                             intents |-> FALSE, back |-> "reconcile"]
                  /\ pc' = [pc EXCEPT ![p] = "writing"]
          /\ UNCHANGED <<content, backup, intact>>
    BY <1>7 DEF Reconcile
  <2>2. PICK events \in Reports[<<r.intent, r.state>>] :
          /\ pc[p] = "reconcile" /\ txn = NoTransaction
          /\ IF events = <<>> THEN UNCHANGED <<txn, pc>>
             ELSE /\ txn' = [process |-> p, work |-> content, todo |-> events,
                             intents |-> FALSE, back |-> "reconcile"]
                  /\ pc' = [pc EXCEPT ![p] = "writing"]
          /\ UNCHANGED <<content, backup, intact>>
    BY <2>1
  <2>3. r.intent \in Intents /\ r.state \in OrderStates
    BY DEF CInv, ViewInv, ViewShape
  <2>4. events \in Batches /\ IsSequence(events)
    BY <2>3, ReportedBatch
  <2>5. CASE events = <<>>
    <3>1. pc' = pc /\ txn' = txn /\ content' = content
      BY <2>2, <2>5
    <3> QED
      BY <3>1 DEF CInv, CallInv
  <2>6. CASE events # <<>>
    <3>1. Underway(content, content, events, FALSE, p)
      BY <2>4, HalfwayBegins DEF Underway
    <3> QED
      BY <2>2, <2>6, <3>1, CallBegins
  <2> QED
    BY <2>5, <2>6
<1> QED
  BY <1>1, <1>2, <1>3, <1>4, <1>5, <1>6, <1>7 DEF Read

LEMMA EndCalls ==
  ASSUME CInv, NEW p \in Processes, Rollback(p) \/ Commit(p) \/ Close(p) \/ Crash(p)
  PROVE  CallInv'
<1>1. CASE Rollback(p)
  <2> DEFINE after == IF txn.back = "reconcile" THEN "idle" ELSE txn.back
  <2>1. after # "writing" /\ pc[p] = "writing" /\ pc' = [pc EXCEPT ![p] = after]
    BY <1>1 DEF Rollback, CInv, IInv, LockInv
  <2> HIDE DEF after
  <2> QED
    BY <2>1, CallEnds
<1>2. CASE Commit(p)
  <2>1. txn.back # "writing" /\ pc[p] = "writing" /\ pc' = [pc EXCEPT ![p] = txn.back]
    BY <1>2 DEF Commit, CInv, IInv, LockInv
  <2> QED
    BY <2>1, CallEnds
<1>3. CASE Close(p)
  <2>1. pc' = [pc EXCEPT ![p] = "closed"] /\ UNCHANGED txn /\ content' = content
    BY <1>3 DEF Close, Disconnect
  <2> QED
    BY <2>1, CallStays
<1>4. CASE Crash(p)
  <2>1. pc' = [pc EXCEPT ![p] = "closed"] /\ content' = content
    BY <1>4 DEF Crash
  <2>2. CASE pc[p] = "writing"
    BY <2>1, <2>2, CallEnds
  <2>3. CASE pc[p] # "writing"
    <3>1. UNCHANGED txn
      BY <1>4, <2>3 DEF Crash
    <3> QED
      BY <2>1, <3>1, CallStays
  <2> QED
    BY <2>2, <2>3
<1> QED
  BY <1>1, <1>2, <1>3, <1>4

(* Every process keeps what its own reads returned. *)
LEMMA ReadViews ==
  ASSUME CInv, NEW p \in Processes, Read(p)
  PROVE  ViewInv'
<1> DEFINE loaded(goal) == [goal |-> goal, log |-> content.log, pending |-> {}]
<1>1. ASSUME NEW goal PROVE ViewShape(loaded(goal))
  <2>1. IsSequence(content.log)
    BY ContentLoose DEF CInv, Loose, Shape
  <2> QED
    BY <2>1 DEF ViewShape
<1> HIDE DEF loaded
<1>2. ViewInv /\ ViewShape(view[p])
  BY DEF CInv, ViewInv
<1>3. CASE OpenStore(p) \/ Recover(p) \/ BackupTo(p)
  <2>1. \E goal : view' = [view EXCEPT ![p] = loaded(goal)]
    BY <1>3 DEF OpenStore, Recover, BackupTo, LoadRows, loaded
  <2> QED
    BY <1>1, <1>2, <2>1, ViewSet
<1>4. CASE LoadCheckpoints(p)
  BY <1>2, <1>4 DEF LoadCheckpoints, ViewInv
<1>5. CASE RaiseCorrupt(p) \/ VerifyAuxiliary(p) \/ EndReconcile(p)
  <2>1. view' = [view EXCEPT ![p] = NoView]
    BY <1>5 DEF RaiseCorrupt, VerifyAuxiliary, EndReconcile
  <2> QED
    BY <1>2, <2>1, NoViewShape, ViewSet
<1>6. ASSUME NEW set, \A r \in set : r.intent \in Intents /\ r.state \in OrderStates,
             view' = [view EXCEPT ![p].pending = set]
      PROVE  ViewInv'
  <2> DEFINE v == [view[p] EXCEPT !.pending = set]
  <2>1. view' = [view EXCEPT ![p] = v]
    BY <1>6, Zenon
  <2>2. v = [goal |-> view[p].goal, log |-> view[p].log, pending |-> set]
    BY <1>2 DEF ViewShape
  <2> HIDE DEF v
  <2>3. ViewShape(v)
    BY <1>2, <1>6, <2>2 DEF ViewShape
  <2> QED
    BY <1>2, <2>1, <2>3, ViewSet
<1>7. CASE ReadAdapters(p)
  <2> DEFINE L == Replay(view[p].log).ledger
             set == {r \in Pending(L, content.adapters) : r.action = "reconcile_backend"}
  <2>1. view' = [view EXCEPT ![p].pending = set]
    BY <1>7 DEF ReadAdapters
  <2>2. \A i \in Intents : L.orders[i].state \in OrderStates
    BY <1>2, StateOfOrder DEF ViewShape
  <2> HIDE DEF L
  <2>3. \A r \in set : r.intent \in Intents /\ r.state \in OrderStates
    BY <2>2 DEF Pending
  <2> HIDE DEF set
  <2> QED
    BY <1>6, <2>1, <2>3
<1>8. CASE Reconcile(p)
  <2>1. PICK r : view' = [view EXCEPT ![p].pending = @ \ {r}]
    BY <1>8 DEF Reconcile
  <2> DEFINE set == view[p].pending \ {r}
  <2>2. view' = [view EXCEPT ![p].pending = set]
    BY <2>1
  <2>3. \A x \in set : x.intent \in Intents /\ x.state \in OrderStates
    BY <1>2 DEF ViewShape
  <2> HIDE DEF set
  <2> QED
    BY <1>6, <2>2, <2>3
<1> QED
  BY <1>3, <1>4, <1>5, <1>7, <1>8 DEF Read

LEMMA NextCalls == CInv /\ [Next]_vars => CInv'
<1> SUFFICES ASSUME CInv, [Next]_vars PROVE CInv'
  OBVIOUS
<1>1. IInv'
  BY NextInv DEF CInv, ViewInv, Viewed
<1>2. ASSUME NEW p \in Processes, Read(p) PROVE CInv'
  BY <1>1, <1>2, ReadCalls, ReadViews DEF CInv
<1>3. ASSUME NEW p \in Processes,
             Write(p) \/ AppendNext(p) \/ Rollback(p) \/ Commit(p) \/ Close(p) \/ Crash(p)
      PROVE  CInv'
  <2>1. CallInv'
    BY <1>3, WriteCalls, AppendNextCalls, EndCalls
  <2>2. CASE ~ Crash(p)
    <3>1. UNCHANGED view
      BY <1>3, <2>2 DEF Write, OpenAccount, CompleteDecisionWithoutIntent, ClaimDecision, AppendMany,
         CommitOrderIntent, SetAdapterMetadata, CreateCheckpoint, Begin,
         AppendNext, Rollback, Commit, Close
    <3> QED
      BY <1>1, <2>1, <3>1 DEF CInv, ViewInv
  <2>3. CASE Crash(p)
    <3>1. ViewInv'
      BY <2>3, NoViewShape, ViewSet DEF CInv, Crash
    <3> QED
      BY <1>1, <2>1, <3>1 DEF CInv
  <2> QED
    BY <2>2, <2>3
<1>4. CASE RestoreBackup
  <2>1. (\A p \in Processes : pc'[p] = "closed") /\ UNCHANGED view
    BY <1>4 DEF RestoreBackup
  <2>2. CallInv' /\ ViewInv'
    BY <2>1 DEF CallInv, CInv, ViewInv
  <2> QED
    BY <1>1, <2>2 DEF CInv
<1>5. CASE UNCHANGED vars
  <2>1. content' = content
    BY <1>5 DEF vars
  <2>2. CallInv' /\ ViewInv'
    BY <1>5, <2>1 DEF vars, CInv, CallInv, ViewInv
  <2> QED
    BY <1>1, <2>2 DEF CInv
<1> QED
  BY <1>2, <1>3, <1>4, <1>5 DEF Next

-----------------------------------------------------------------------------
(* A transaction that is complete is one call of the contract. *)
LEMMA CommitIsCall ==
  ASSUME CInv, NEW p \in Processes, Commit(p)
  PROVE  Contract!Next
<1>1. /\ pc[p] = "writing" /\ txn.todo = <<>> /\ UNCHANGED backup
      /\ content' = txn.work
  BY DEF Commit
<1>2. Underway(content, txn.work, <<>>, txn.intents, p)
  BY <1>1 DEF CInv, CallInv
<1>3. CASE Statement(content, txn.work, p)
  <2>1. ASSUME NEW d \in Decisions, NEW m \in Payloads, content.claims[d] = NoClaim,
               txn.work = [content EXCEPT !.claims[d] =
                             [status |-> "claimed", owner |-> p, intent |-> None, metadata |-> m]]
        PROVE  Contract!Next
    <3>1. Contract!ClaimDecision(p, d, m)
      BY <1>1, <2>1 DEF Contract!ClaimDecision, Contract!Publish
    <3> QED
      BY <3>1 DEF Contract!Next
  <2>2. ASSUME NEW d \in Decisions, content.claims[d].status = "claimed", content.claims[d].owner = p,
               txn.work = [content EXCEPT !.claims[d].status = "completed"]
        PROVE  Contract!Next
    <3>1. Contract!CompleteDecisionWithoutIntent(p, d)
      BY <1>1, <2>2 DEF Contract!CompleteDecisionWithoutIntent, Contract!Publish
    <3> QED
      BY <3>1 DEF Contract!Next
  <2>3. ASSUME NEW i \in Intents, NEW b \in Backends, NEW x \in Payloads, i \in CreatedIn(content.log),
               content.adapters[i] = NoAdapter \/ content.adapters[i].backend = b,
               txn.work = [content EXCEPT !.adapters[i] = [backend |-> b, payload |-> x]]
        PROVE  Contract!Next
    <3>1. Contract!SetAdapterMetadata(i, b, x)
      BY <1>1, <2>3 DEF Contract!SetAdapterMetadata, Contract!Publish
    <3> QED
      BY <3>1 DEF Contract!Next
  <2>4. CASE txn.work = [content EXCEPT !.checkpoints = @ \cup {Checkpoint(content)}]
    <3>1. Contract!CreateCheckpoint
      BY <1>1, <2>4 DEF Contract!CreateCheckpoint, Contract!Publish
    <3> QED
      BY <3>1 DEF Contract!Next
  <2> QED
    BY <1>3, <2>1, <2>2, <2>3, <2>4 DEF Statement
<1>4. ASSUME NEW events \in Batches, IsSequence(events), Halfway(content, events, FALSE, txn.work, <<>>)
      PROVE  Contract!Next
  <2>1. Batch(content, events, FALSE) = [ok |-> TRUE, store |-> txn.work]
    BY <1>4, HalfwayEnds
  <2> DEFINE b == Batch(content, events, FALSE)
  <2>2. b.ok /\ b.store = txn.work
    <3> HIDE DEF b
    <3>1. b = [ok |-> TRUE, store |-> txn.work]
      BY <2>1 DEF b
    <3> QED
      BY <3>1
  <2>3. Contract!AppendMany(events)
    BY <1>1, <2>2, Zenon DEF Contract!AppendMany, Contract!AppendAll, Contract!Publish
  <2> QED
    BY <2>3 DEF Contract!Next
<1>5. ASSUME NEW i \in Intents, NEW m \in Payloads, MayCommit(content.claims[Decision[i]], p, m),
             Halfway(Claimed(content, p, i, m), <<Created(i, 0)>>, TRUE, txn.work, <<>>)
      PROVE  Contract!Next
  <2>1. IsSequence(<<Created(i, 0)>>)
    BY OneSequence
  <2>2. Batch(Claimed(content, p, i, m), <<Created(i, 0)>>, TRUE) = [ok |-> TRUE, store |-> txn.work]
    BY <1>5, <2>1, HalfwayEnds
  <2> DEFINE b == Batch(Claimed(content, p, i, m), <<Created(i, 0)>>, TRUE)
  <2>3. b.ok /\ b.store = txn.work
    <3> HIDE DEF b
    <3>1. b = [ok |-> TRUE, store |-> txn.work]
      BY <2>2 DEF b
    <3> QED
      BY <3>1
  <2>4. Contract!CommitOrderIntent(p, i, m)
    BY <1>1, <1>5, <2>3, Zenon DEF Contract!CommitOrderIntent, Contract!AppendAll, Contract!Publish
  <2> QED
    BY <2>4 DEF Contract!Next
<1> QED
  BY <1>2, <1>3, <1>4, <1>5 DEF Underway

LEMMA StepIsCall ==
  ASSUME CInv, [Next]_vars
  PROVE  Contract!Next \/ UNCHANGED <<content, backup>>
<1>1. CASE UNCHANGED vars
  BY <1>1 DEF vars
<1>2. CASE RestoreBackup
  <2>1. backup # NoFile /\ UNCHANGED backup /\ content' \in {backup} \cup Splices(content, backup)
    BY <1>2 DEF RestoreBackup
  <2>2. Contract!Restore
    BY <2>1 DEF Contract!Restore
  <2> QED
    BY <2>2 DEF Contract!Next
<1>3. ASSUME NEW p \in Processes, Commit(p) PROVE Contract!Next
  BY <1>3, CommitIsCall
<1>4. CASE Next /\ ~ RestoreBackup /\ \A p \in Processes : ~ Commit(p)
  <2>1. content' = content
    BY <1>4, ContentReplaced DEF CInv
  <2>2. UNCHANGED backup \/ backup' = content
    <3>1. PICK p \in Processes : Write(p) \/ AppendNext(p) \/ Rollback(p) \/ Read(p) \/ Close(p) \/ Crash(p)
      BY <1>4 DEF Next
    <3>2. CASE Write(p)
      BY <3>2 DEF Write, OpenAccount, CompleteDecisionWithoutIntent, ClaimDecision, AppendMany,
         CommitOrderIntent, SetAdapterMetadata, CreateCheckpoint, Begin
    <3>3. CASE Read(p)
      BY <3>3 DEF Read, OpenStore, Recover, BackupTo, LoadCheckpoints, RaiseCorrupt,
         VerifyAuxiliary, ReadAdapters, Reconcile, EndReconcile
    <3> QED
      BY <3>1, <3>2, <3>3 DEF AppendNext, Rollback, Close, Crash
  <2>3. CASE UNCHANGED backup
    BY <2>1, <2>3
  <2>4. CASE backup' = content
    <3>1. Contract!BackUp
      BY <2>1, <2>4 DEF Contract!BackUp
    <3> QED
      BY <3>1 DEF Contract!Next
  <2> QED
    BY <2>2, <2>3, <2>4
<1> QED
  BY <1>1, <1>2, <1>3, <1>4

(* Whatever the processes do at once, and wherever they die, the calls of   *)
(* store.py take effect one at a time, each as a whole and on the content   *)
(* of that moment, or not at all.                                           *)
THEOREM AtomicStoreRefinement == Spec => ImplementsAtomicStore
<1>1. Init => Contract!Init
  BY DEF Init, Contract!Init
<1>2. CInv /\ [Next]_vars => [Contract!Next]_(Contract!vars)
  BY StepIsCall DEF Contract!vars
<1> QED
  BY <1>1, <1>2, InitCalls, NextCalls, PTL DEF Spec, ImplementsAtomicStore, Contract!Spec
=============================================================================
