----------------------------- MODULE EventStore -----------------------------
(***************************************************************************)
(* persistence/store.py: processes that share one SQLite file.             *)
(*                                                                         *)
(* A write runs in a transaction (BEGIN IMMEDIATE): one process at a time  *)
(* works on a copy, an INSERT at a time, and COMMIT publishes the copy.    *)
(* Whatever raises, and a process that dies, leaves the published content  *)
(* alone.  A read runs outside a transaction: each SELECT of a load sees   *)
(* the content of its own moment.                                          *)
(*                                                                         *)
(* A refused call raises and changes nothing, and a repeated one returns   *)
(* what is there; neither is a step.  SQLite is external: while a process  *)
(* has the file open its commits are in the write-ahead log, the last one  *)
(* to close moves them into the file, and a write-ahead log that a dead    *)
(* process left behind is read by the next one that opens the path.  It    *)
(* holds the pages that were changed, so that over another file it gives a *)
(* mixture (Splices).                                                      *)
(***************************************************************************)
EXTENDS EventLog

CONSTANTS
  Processes,    \* each is the owner of its claims
  Backends,
  Payloads,     \* adapter payloads and claim metadata
  Reports,      \* the batches a backend may report for an order in some state
  MaxLog,       \* bound: events in the log
  MaxCheckpoints \* bound: checkpoints

ASSUME NoneProcessAssumption == None \notin Processes
ASSUME StoreInputAssumption ==
  /\ MaxLog \in Nat /\ MaxCheckpoints \in Nat
  /\ \A i \in Intents : \A s \in OrderStates : \A r \in Reports[<<i, s>>] :
       /\ r \in Seq(Range(r))
       /\ \A n \in DOMAIN r : r[n].kind \in LifeCycle \cup {"fill"} /\ r[n].of = i

VARIABLES
  content,  \* of the database: the file with the pages of its write-ahead log
  wal,      \* is there a write-ahead log at the path
  backup,   \* the content of the backup file, or NoFile
  txn,      \* the open transaction, or NoTransaction
  pc,       \* what each process is doing
  view,     \* what its reads have returned so far
  intact    \* history: no restore has found a write-ahead log at the path

vars == <<content, wal, backup, txn, pc, view, intact>>

NoFile == <<>>      \* no such file; unlike every content
NoTransaction == [process |-> None, work |-> EmptyStore, todo |-> <<>>, intents |-> FALSE, back |-> "idle"]
NoView == [goal |-> "none", log |-> <<>>, pending |-> {}]

Init ==
  /\ content = EmptyStore /\ wal = FALSE /\ backup = NoFile /\ txn = NoTransaction
  /\ pc = [p \in Processes |-> "closed"]
  /\ view = [p \in Processes |-> NoView]
  /\ intact = TRUE

-----------------------------------------------------------------------------
(* _transaction *)

Begin(p, work, todo, intents) ==
  /\ txn = NoTransaction
  /\ txn' = [process |-> p, work |-> work, todo |-> todo, intents |-> intents, back |-> pc[p]]
  /\ pc' = [pc EXCEPT ![p] = "writing"]
  /\ UNCHANGED <<content, wal, backup, view, intact>>

Commit(p) ==
  /\ pc[p] = "writing" /\ txn.process = p /\ txn.todo = <<>>
  /\ content' = txn.work /\ txn' = NoTransaction
  /\ pc' = [pc EXCEPT ![p] = txn.back]
  /\ UNCHANGED <<wal, backup, view, intact>>

(* One iteration of _append_events_locked, and the ROLLBACK when it raises. *)
AppendNext(p) ==
  /\ pc[p] = "writing" /\ txn.process = p /\ txn.todo # <<>>
  /\ Accepts(txn.work, Head(txn.todo), txn.intents)
  /\ txn' = [txn EXCEPT !.work = Insert(txn.work, Head(txn.todo)), !.todo = Tail(txn.todo)]
  /\ UNCHANGED <<content, wal, backup, pc, view, intact>>

Rollback(p) ==
  /\ pc[p] = "writing" /\ txn.process = p /\ txn.todo # <<>>
  /\ ~Accepts(txn.work, Head(txn.todo), txn.intents)
  /\ txn' = NoTransaction /\ pc' = [pc EXCEPT ![p] = IF txn.back = "reconcile" THEN "idle" ELSE txn.back]
  /\ UNCHANGED <<content, wal, backup, view, intact>>

-----------------------------------------------------------------------------
(* The calls that write *)

Room(n) == Len(content.log) + n <= MaxLog

OpenAccount(p) ==
  /\ pc[p] = "idle" /\ Room(1) /\ ~content.ledger.opened
  /\ Begin(p, content, <<Opened(Unit, 0)>>, FALSE)

ClaimDecision(p, d, m) ==
  /\ pc[p] = "idle" /\ content.claims[d] = NoClaim
  /\ Begin(p, [content EXCEPT !.claims[d] =
                 [status |-> "claimed", owner |-> p, intent |-> None, metadata |-> m]],
           <<>>, FALSE)

(* Mutant: only the owner is compared. *)
CompleteCommitted(p, d) ==
  /\ pc[p] = "idle" /\ content.claims[d].owner = p
  /\ Begin(p, [content EXCEPT !.claims[d].status = "completed", !.claims[d].intent = None], <<>>, FALSE)

CompleteDecisionWithoutIntent(p, d) ==
  /\ pc[p] = "idle"
  /\ content.claims[d].status = "claimed" /\ content.claims[d].owner = p
  /\ Begin(p, [content EXCEPT !.claims[d].status = "completed"], <<>>, FALSE)

Claimed(S, p, i, m) ==
  [S EXCEPT !.claims[Decision[i]] =
     [status |-> "committed", owner |-> p, intent |-> i, metadata |-> m]]

(* Mutant: a claim does not keep other owners out. *)
MayCommitAnyone(c, p, m) == c = NoClaim \/ c.status \in {"claimed", "completed"}

MayCommit(c, p, m) ==
  c = NoClaim \/ (c.status = "claimed" /\ c.owner = p /\ c.metadata = m)

CommitOrderIntent(p, i, m) ==
  /\ pc[p] = "idle" /\ Room(1)
  /\ MayCommit(content.claims[Decision[i]], p, m)
  /\ Begin(p, Claimed(content, p, i, m), <<Created(i, 0)>>, TRUE)

SetAdapterMetadata(p, i, b, x) ==
  /\ pc[p] = "idle" /\ i \in CreatedIn(content.log)
  /\ content.adapters[i] = NoAdapter \/ content.adapters[i].backend = b
  /\ Begin(p, [content EXCEPT !.adapters[i] = [backend |-> b, payload |-> x]], <<>>, FALSE)

(* append_many of what a backend reports for an order it was given. *)
AppendMany(p, i) ==
  /\ pc[p] = "idle" /\ content.adapters[i] # NoAdapter
  /\ \E r \in Reports[<<i, content.ledger.orders[i].state>>] :
       r # <<>> /\ Room(Len(r)) /\ Begin(p, content, r, FALSE)

Checkpoint(S) == [sequence |-> Len(S.log), chain |-> S.log, state |-> S.ledger]

CreateCheckpoint(p) ==
  /\ pc[p] = "idle" /\ content.log # <<>>
  /\ Cardinality(content.checkpoints) < MaxCheckpoints
  /\ Checkpoint(content) \notin content.checkpoints
  /\ Begin(p, [content EXCEPT !.checkpoints = @ \cup {Checkpoint(content)}], <<>>, FALSE)

-----------------------------------------------------------------------------
(* The calls that read.  _load_locked selects the rows, then the           *)
(* checkpoints.                                                            *)

LoadRows(p, goal) ==
  /\ pc' = [pc EXCEPT ![p] = "rows"]
  /\ view' = [view EXCEPT ![p] = [goal |-> goal, log |-> content.log, pending |-> {}]]

OpenStore(p) ==
  /\ pc[p] = "closed" /\ LoadRows(p, "open")
  /\ wal' = TRUE
  /\ UNCHANGED <<content, backup, txn, intact>>

Recover(p) ==
  /\ pc[p] = "idle" /\ LoadRows(p, "recover")
  /\ UNCHANGED <<content, wal, backup, txn, intact>>

BackupTo(p) ==
  /\ pc[p] = "idle" /\ backup = NoFile /\ LoadRows(p, "backup")
  /\ UNCHANGED <<content, wal, backup, txn, intact>>

AfterLoad(goal) == IF goal = "recover" THEN "orders" ELSE "auxiliary"

LoadVerifies(p) ==
  Replay(view[p].log).ok /\ CheckpointsVerify(view[p].log, content.checkpoints)

LoadCheckpoints(p) ==
  /\ pc[p] = "rows" /\ LoadVerifies(p)
  /\ pc' = [pc EXCEPT ![p] = AfterLoad(view[p].goal)]
  /\ UNCHANGED <<content, wal, backup, txn, view, intact>>

AuxiliaryHolds == AuxiliaryVerifies(content.log, content.claims, content.adapters)

(* Mutant: the backup has the rows that were read, and the rest of now. *)
VerifyAuxiliaryApart(p) ==
  /\ pc[p] = "auxiliary"
  /\ AuxiliaryHolds
  /\ pc' = [pc EXCEPT ![p] = "idle"]
  /\ view' = [view EXCEPT ![p] = NoView]
  /\ backup' = IF view[p].goal = "backup"
               THEN [content EXCEPT !.log = view[p].log, !.ledger = Replay(view[p].log).ledger]
               ELSE backup
  /\ UNCHANGED <<content, wal, txn, intact>>

(* Mutant: an open trusts what it could load. *)
OpenOnceLoaded(p) ==
  /\ pc[p] = "auxiliary"
  /\ view[p].goal = "open" \/ AuxiliaryHolds
  /\ pc' = [pc EXCEPT ![p] = "idle"]
  /\ view' = [view EXCEPT ![p] = NoView]
  /\ backup' = IF view[p].goal = "backup" THEN content ELSE backup
  /\ UNCHANGED <<content, wal, txn, intact>>

(* The rest of verify_integrity.  Intents are looked up after the claims   *)
(* and the adapter rows are read, in a log that only grows, so that one    *)
(* step for the three statements loses nothing.  backup_to then copies the *)
(* content of this moment (bound: one backup is taken).                    *)
VerifyAuxiliary(p) ==
  /\ pc[p] = "auxiliary"
  /\ AuxiliaryHolds
  /\ pc' = [pc EXCEPT ![p] = "idle"]
  /\ view' = [view EXCEPT ![p] = NoView]
  /\ backup' = IF view[p].goal = "backup" THEN content ELSE backup
  /\ UNCHANGED <<content, wal, txn, intact>>

Alone(p) == \A q \in Processes \ {p} : pc[q] = "closed"

(* The last connection to close moves the write-ahead log into the file. *)
Disconnect(p) ==
  /\ pc' = [pc EXCEPT ![p] = "closed"] /\ wal' = (wal /\ ~Alone(p))

(* CorruptLedgerError.  A store that was being opened is closed. *)
RaiseCorrupt(p) ==
  /\ \/ pc[p] = "rows" /\ ~LoadVerifies(p)
     \/ pc[p] = "auxiliary" /\ ~AuxiliaryHolds
  /\ view' = [view EXCEPT ![p] = NoView]
  /\ IF view[p].goal = "open" THEN Disconnect(p)
     ELSE pc' = [pc EXCEPT ![p] = "idle"] /\ UNCHANGED wal
  /\ UNCHANGED <<content, backup, txn, intact>>

(* recover: the orders of the state that was loaded, the adapter rows of now. *)
Pending(L, adapters) ==
  {[intent |-> i, state |-> L.orders[i].state,
    action |-> IF L.orders[i].state = "created" /\ adapters[i] = NoAdapter
               THEN "resume_submission" ELSE "reconcile_backend"] :
     i \in {j \in Intents : L.orders[j].state \notin Terminal \cup {"none"}}}

ReadAdapters(p) ==
  /\ pc[p] = "orders"
  /\ view' = [view EXCEPT ![p].pending =
       {r \in Pending(Replay(view[p].log).ledger, content.adapters) : r.action = "reconcile_backend"}]
  /\ pc' = [pc EXCEPT ![p] = "reconcile"]
  /\ UNCHANGED <<content, wal, backup, txn, intact>>

(* reconcile_startup: what the backend reports for the order as it was     *)
(* loaded is appended to the log as it is now.  An order without adapter   *)
(* metadata raises RecoveryRequiredError and ends the call.                *)
Reconcile(p) ==
  \E r \in view[p].pending :
     /\ pc[p] = "reconcile" /\ content.adapters[r.intent] # NoAdapter
     /\ \E events \in Reports[<<r.intent, r.state>>] :
          /\ Room(Len(events)) /\ txn = NoTransaction
          /\ view' = [view EXCEPT ![p].pending = @ \ {r}]
          /\ IF events = <<>> THEN UNCHANGED <<txn, pc>>
             ELSE /\ txn' = [process |-> p, work |-> content, todo |-> events,
                             intents |-> FALSE, back |-> "reconcile"]
                  /\ pc' = [pc EXCEPT ![p] = "writing"]
     /\ UNCHANGED <<content, wal, backup, intact>>

EndReconcile(p) ==
  /\ pc[p] = "reconcile"
  /\ \/ view[p].pending = {}
     \/ \E r \in view[p].pending : content.adapters[r.intent] = NoAdapter
  /\ pc' = [pc EXCEPT ![p] = "idle"] /\ view' = [view EXCEPT ![p] = NoView]
  /\ UNCHANGED <<content, wal, backup, txn, intact>>

-----------------------------------------------------------------------------
Close(p) ==
  /\ pc[p] = "idle" /\ Disconnect(p)
  /\ UNCHANGED <<content, backup, txn, view, intact>>

Crash(p) ==
  /\ pc[p] # "closed"
  /\ pc' = [pc EXCEPT ![p] = "closed"] /\ view' = [view EXCEPT ![p] = NoView]
  /\ txn' = IF pc[p] = "writing" THEN NoTransaction ELSE txn
  /\ UNCHANGED <<content, wal, backup, intact>>

(* External: what SQLite reads where a write-ahead log of W lies over a    *)
(* file with the content B.  The pages of the log replace those of the      *)
(* file: each table is the one of W or of B or has rows of both, of the log *)
(* of events only rows of one history chain, and anything else is damage    *)
(* that integrity_check or the replay of the rows finds.  A log that held   *)
(* no committed page gives B itself.                                        *)
Mixtures(f, g) ==
  {h \in [DOMAIN f -> Range(f) \cup Range(g)] : \A x \in DOMAIN f : h[x] \in {f[x], g[x]}}

OpenedTwice == <<Opened(Unit, 0), Opened(Unit, 0)>>
Damaged == [EmptyStore EXCEPT !.log = OpenedTwice, !.ledger = Replay(OpenedTwice).ledger]

Splices(W, B) ==
  {Damaged} \cup
  {[log |-> log, ledger |-> Replay(log).ledger, claims |-> claims,
    adapters |-> adapters, checkpoints |-> checkpoints] :
     log \in {W.log, B.log}, claims \in Mixtures(W.claims, B.claims),
     adapters \in Mixtures(W.adapters, B.adapters),
     checkpoints \in {W.checkpoints, B.checkpoints, W.checkpoints \cup B.checkpoints}}

(* restore_backup, run as it has to be: nobody has the database open.  The *)
(* copy is verified before it replaces the file; a write-ahead log that a   *)
(* dead process left at the path stays where it is.                         *)
RestoreBackup ==
  /\ \A p \in Processes : pc[p] = "closed"
  /\ backup # NoFile /\ Verifies(backup)
  /\ IF wal THEN content' \in Splices(content, backup) ELSE content' = backup
  /\ intact' = (intact /\ ~wal)
  /\ UNCHANGED <<wal, backup, txn, pc, view>>

Write(p) ==
  \/ OpenAccount(p)
  \/ \E d \in Decisions : CompleteDecisionWithoutIntent(p, d) \/ \E m \in Payloads : ClaimDecision(p, d, m)
  \/ \E i \in Intents :
       \/ AppendMany(p, i)
       \/ \E m \in Payloads : CommitOrderIntent(p, i, m)
       \/ \E b \in Backends, x \in Payloads : SetAdapterMetadata(p, i, b, x)
  \/ CreateCheckpoint(p)

Read(p) ==
  \/ OpenStore(p) \/ Recover(p) \/ BackupTo(p)
  \/ LoadCheckpoints(p) \/ RaiseCorrupt(p) \/ VerifyAuxiliary(p)
  \/ ReadAdapters(p) \/ Reconcile(p) \/ EndReconcile(p)

Next ==
  \/ \E p \in Processes :
       \/ Write(p) \/ AppendNext(p) \/ Rollback(p) \/ Commit(p)
       \/ Read(p) \/ Close(p) \/ Crash(p)
  \/ RestoreBackup

Spec == Init /\ [][Next]_vars

-----------------------------------------------------------------------------
(* p has opened the store: EventStore(path) has returned to it. *)
Opening(p) == pc[p] \in {"rows", "auxiliary"} /\ view[p].goal = "open"
HasOpen(p) == pc[p] # "closed" /\ ~Opening(p)

(* However the calls of several processes interleave, and wherever one of   *)
(* them dies, what is published passes verify_integrity: every row replays, *)
(* every checkpoint is at a row and has its state, every committed claim    *)
(* and every adapter row has its intent.  After a restore that found a      *)
(* write-ahead log at its path nothing is known of the content until        *)
(* somebody opens it, and what does not pass is opened by nobody.           *)
(* (_verify_auxiliary_locked, _load_locked, the rollback in _transaction,   *)
(* the close of a store that fails to open.)                                *)
StoreVerifies ==
  (intact \/ \E p \in Processes : HasOpen(p)) =>
    Verifies(content) /\ content.ledger = Replay(content.log).ledger

(* An intent is in the log exactly when its decision was committed with it, *)
(* whichever of two owners claimed, completed or committed the decision     *)
(* first.  verify_integrity checks one direction only: an intent whose      *)
(* claim were missing, or completed, would pass it, and a mixture in which  *)
(* the claim is missing passes it too.                                      *)
OneIntentPerDecision ==
  intact =>
    \A i \in Intents :
      i \in CreatedIn(content.log) <=>
        (content.claims[Decision[i]].status = "committed" /\ content.claims[Decision[i]].intent = i)

(* What a store S holds, T still holds. *)
Kept(S, T) ==
  /\ IsPrefix(S.log, T.log)
  /\ S.checkpoints \subseteq T.checkpoints
  /\ \A d \in Decisions :
       S.claims[d].status \in {"committed", "completed"} => T.claims[d] = S.claims[d]
  /\ \A i \in Intents :
       S.adapters[i] # NoAdapter => T.adapters[i].backend = S.adapters[i].backend

(* What is published is never taken back: the log grows at its end, a       *)
(* decision that is committed or completed stays so, an order stays with    *)
(* its backend.  Only restore_backup may replace the content.               *)
NothingUnwritten == Kept(content, content')

Durable == [][RestoreBackup \/ NothingUnwritten]_vars

(* The batches that the calls append. *)
Batches == {<<Opened(Unit, 0)>>} \cup UNION {Reports[x] : x \in Intents \X OrderStates}

Contract == INSTANCE AtomicStore WITH store <- content, Owners <- Processes

(* However transactions, crashes, openings and closings interleave, every   *)
(* call looks as if it took effect in one step, all of it and on the        *)
(* content of that moment, or not at all, and a backup is the content of    *)
(* one moment (_transaction and backup_to; a claim and its intent are       *)
(* committed atomically, store.py:597).  A restore is one step too; over a  *)
(* write-ahead log it gives what SQLite makes of the two.                   *)
ImplementsAtomicStore == Contract!Spec
=============================================================================
