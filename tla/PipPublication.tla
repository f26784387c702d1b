--------------------------- MODULE PipPublication ---------------------------
(***************************************************************************)
(* From a producer decision to a row of the PIP outbox: the staging intent *)
(* (weatherbot/pip/intents.py), the append-only signal log                 *)
(* (weatherbot/producer/store.py), the producer's scan                     *)
(* (weatherbot/producer/cli.py) and the reconciliation that the producer,  *)
(* the delivery worker and the operator all run (weatherbot/pip/           *)
(* reconcile.py).  Delivery of the rows is module PipOutbox.               *)
(*                                                                         *)
(* One SQLite statement or transaction, one read of the log and one append *)
(* is one step.  A SELECT that only decides whether the next statement of  *)
(* the same call runs is one step with it.                                 *)
(***************************************************************************)
EXTENDS Integers, Sequences, FiniteSets

CONSTANTS
  Signals,      \* logical signal_ids
  Producers,    \* processes that scan, append and reconcile
  Reconcilers,  \* delivery workers and operators: they only reconcile
  None,         \* no row, no value
  MaxOcc,       \* bound: scan occurrences in all
  MaxKey,       \* bound: the last signing key configured
  MaxFaults,    \* bound: failed appends and failed freezes
  MaxCrashes,   \* bound: process deaths
  TornWrites,   \* BOOLEAN: a failed append may leave part of a line behind
  TakeTurns     \* BOOLEAN: scan and reconcile are run one after the other,
                \* as one-shot commands, instead of as services side by side

ASSUME RoleAssumption == Producers \cap Reconcilers = {}
ASSUME NoneAssumption == None \notin Signals
ASSUME BoundAssumption ==
  /\ MaxOcc \in Nat /\ MaxKey \in Nat \ {0} /\ MaxFaults \in Nat /\ MaxCrashes \in Nat
  /\ TornWrites \in BOOLEAN /\ TakeTurns \in BOOLEAN

Procs == Producers \cup Reconcilers

VARIABLES
  log,      \* the complete lines of the signal log
  torn,     \* the log ends in a line without its newline
  intent,   \* table pip_publication_intent
  outbox,   \* table pip_outbox, the frozen columns
  proc,     \* the local state of each process
  cfgKey,   \* the key a process that starts now would sign with
  scans,    \* scan occurrences so far; each has its own number
  faults,   \* failed appends and freezes so far
  crashes,  \* process deaths so far
  staged    \* history: the key of an intent that was staged when its occurrence was appended

tables == <<intent, outbox>>
files == <<log, torn>>
env == <<cfgKey, crashes>>
vars == <<log, torn, intent, outbox, proc, cfgKey, scans, faults, crashes, staged>>

-----------------------------------------------------------------------------
(* A line of the log is an occurrence [sig, occ]: one scan's HermesSignal.  *)
(* The same signal_id may occur again with other processing-time fields.    *)
(* The frozen bytes of its event are determined by the occurrence and the   *)
(* key that signs it: [occ, key].                                           *)

(* A complete line that is not a signal record. *)
Corrupt == [sig |-> None, occ |-> 0]

(* A process that signs with key k.  cur is the occurrence it is staging or *)
(* promoting, own the producer's occurrence of this scan, todo the lines of *)
(* the log that are still to be reconciled, got the intent read by promote. *)
Started(k) == [pc |-> "idle", key |-> k, cur |-> Corrupt, own |-> Corrupt,
               todo |-> {}, orphans |-> {}, got |-> None]

Init ==
  /\ log = <<>> /\ torn = FALSE
  /\ intent = [s \in Signals |-> None]
  /\ outbox = [s \in Signals |-> None]
  /\ proc = [p \in Procs |-> Started(1)]
  /\ cfgKey = 1
  /\ scans = 0 /\ faults = 0 /\ crashes = 0
  /\ staged = [n \in 1 .. MaxOcc |-> 0]

At(p, pc) == proc[p].pc = pc
Goto(p, pc) == proc' = [proc EXCEPT ![p].pc = pc]

MayStart(p) == At(p, "idle") /\ (TakeTurns => \A q \in Procs : At(q, "idle"))

(* The pass is over, or an exception leaves reconcile_signal_log: the       *)
(* producer catches it and goes on, a worker exits and is started again     *)
(* under the configured key.                                                *)
PassEnds(p) == proc' = [proc EXCEPT ![p] = Started(@.key)]

Raise(p) ==
  proc' = [proc EXCEPT ![p] = Started(IF p \in Producers THEN @.key ELSE cfgKey)]

-----------------------------------------------------------------------------
(* has_outbox_signal: when the outbox owns the signal its intent goes. *)

Owned(s) == outbox[s] # None
(* Mutant: the intent stays behind when the outbox owns the signal. *)
RetiredNever(s) == intent
Retired(s) == [intent EXCEPT ![s] = None]

(* stage_signal: nothing to do when the outbox owns the signal, otherwise   *)
(* freeze the envelope.                                                     *)
StageCheck(p, staging, done) ==
  LET s == proc[p].cur.sig IN
  \/ /\ Owned(s)
     /\ intent' = Retired(s)
     /\ Goto(p, done)
  \/ /\ ~Owned(s)
     /\ UNCHANGED intent
     /\ Goto(p, staging)

(* PipIntentStore.stage.  It asks once more whether the outbox owns the     *)
(* signal, then inserts in a transaction of its own: the outbox may come to *)
(* own the signal in between.  An intent with the same bytes is left alone; *)
(* StageConflict is the other case.                                         *)
StageFrozen(p) == [occ |-> proc[p].cur.occ, key |-> proc[p].key]
StageConflict(p) == intent[proc[p].cur.sig] \notin {None, StageFrozen(p)}

StageTxn(p, done) ==
  /\ LET s == proc[p].cur.sig IN
     \/ ~StageConflict(p) /\ intent' = [intent EXCEPT ![s] = StageFrozen(p)]
     \/ Owned(s) /\ intent' = Retired(s)
  /\ Goto(p, done)

FreezeFails ==
  /\ faults < MaxFaults
  /\ faults' = faults + 1

-----------------------------------------------------------------------------
(* scan_once: stage before the append, append, reconcile. *)

Scan(p, s) ==
  /\ MayStart(p)
  /\ scans < MaxOcc
  /\ scans' = scans + 1
  /\ LET o == [sig |-> s, occ |-> scans + 1] IN
     proc' = [proc EXCEPT ![p].pc = "pre_check", ![p].cur = o, ![p].own = o]
  /\ UNCHANGED <<files, tables, env, faults, staged>>

PreStageCheck(p) ==
  /\ At(p, "pre_check")
  /\ \/ StageCheck(p, "pre_txn", "append") /\ UNCHANGED faults
     \/ /\ ~Owned(proc[p].cur.sig) /\ FreezeFails
        /\ Goto(p, "append") /\ UNCHANGED intent
  /\ UNCHANGED <<files, outbox, env, scans, staged>>

PreStageTxn(p) ==
  /\ At(p, "pre_txn")
  /\ \/ StageTxn(p, "append")
     \/ StageConflict(p) /\ Goto(p, "append") /\ UNCHANGED intent
  /\ UNCHANGED <<files, outbox, env, scans, faults, staged>>

(* A line written behind a torn one becomes part of it. *)
Appended(o) == Append(log, IF torn THEN Corrupt ELSE o)

RecordStaged(o) ==
  staged' = [staged EXCEPT ![o.occ] =
               IF intent[o.sig] # None /\ intent[o.sig].occ = o.occ THEN intent[o.sig].key ELSE 0]

AppendSignal(p) ==
  /\ At(p, "append")
  /\ log' = Appended(proc[p].own) /\ torn' = FALSE
  /\ RecordStaged(proc[p].own)
  /\ Goto(p, "read")
  /\ UNCHANGED <<tables, env, scans, faults>>

(* write, flush or fsync raises: nothing, part of the line or all of it may *)
(* have reached the file, and the scan goes on to the next candidate.       *)
AppendFails(p) ==
  /\ At(p, "append")
  /\ faults < MaxFaults
  /\ faults' = faults + 1
  /\ \/ UNCHANGED <<files, staged>>
     \/ log' = Appended(proc[p].own) /\ torn' = FALSE /\ RecordStaged(proc[p].own)
     \/ TornWrites /\ torn' = TRUE /\ UNCHANGED <<log, staged>>
  /\ proc' = [proc EXCEPT ![p] = Started(@.key)]
  /\ UNCHANGED <<tables, env, scans>>

-----------------------------------------------------------------------------
(* reconcile_signal_log *)

StartPass(p) ==
  /\ p \in Reconcilers
  /\ MayStart(p)
  /\ Goto(p, "read")
  /\ UNCHANGED <<files, tables, env, scans, faults, staged>>

Firsts(l) == {i \in DOMAIN l : \A j \in 1 .. (i - 1) : l[j].sig # l[i].sig}

(* A corrupt complete line fails the pass; a torn tail is not seen. *)
ReadLog(p) ==
  /\ At(p, "read")
  /\ \/ /\ \A i \in DOMAIN log : log[i] # Corrupt
        /\ proc' = [proc EXCEPT ![p].pc = "orphans", ![p].todo = Firsts(log)]
     \/ /\ \E i \in DOMAIN log : log[i] = Corrupt
        /\ Raise(p)
  /\ UNCHANGED <<files, tables, env, scans, faults, staged>>

(* Mutant: what the outbox does not own is taken for an orphan. *)
SelectUnowned(p) ==
  /\ At(p, "orphans")
  /\ LET found == {s \in Signals : intent[s] # None /\ ~Owned(s)} IN
     proc' = [proc EXCEPT ![p].pc = IF found = {} THEN "check" ELSE "discard",
                          ![p].orphans = found]
  /\ UNCHANGED <<files, tables, env, scans, faults, staged>>

(* discard_orphans: the staged signals that the log, as read, does not have *)
SelectOrphans(p) ==
  /\ At(p, "orphans")
  /\ LET known == {log[i].sig : i \in proc[p].todo}
         found == {s \in Signals \ known : intent[s] # None} IN
     proc' = [proc EXCEPT ![p].pc = IF found = {} THEN "check" ELSE "discard",
                          ![p].orphans = found]
  /\ UNCHANGED <<files, tables, env, scans, faults, staged>>

DeleteOrphans(p) ==
  /\ At(p, "discard")
  /\ intent' = [s \in Signals |-> IF s \in proc[p].orphans THEN None ELSE intent[s]]
  /\ proc' = [proc EXCEPT ![p].pc = "check", ![p].orphans = {}]
  /\ UNCHANGED <<files, outbox, env, scans, faults, staged>>

(* The next signal in the order of its first line; nothing to do when the   *)
(* outbox owns it.                                                          *)
NextLine(p) == CHOOSE i \in proc[p].todo : \A j \in proc[p].todo : i <= j

CheckSignal(p) ==
  /\ At(p, "check")
  /\ \/ proc[p].todo = {} /\ PassEnds(p) /\ UNCHANGED intent
     \/ /\ proc[p].todo # {}
        /\ LET i == NextLine(p)  s == log[NextLine(p)].sig IN
           /\ intent' = IF Owned(s) THEN Retired(s) ELSE intent
           /\ proc' = [proc EXCEPT ![p].pc = IF Owned(s) THEN "check" ELSE "get",
                                   ![p].todo = @ \ {i}, ![p].cur = log[i]]
  /\ UNCHANGED <<files, outbox, env, scans, faults, staged>>

(* Mutants: any staged intent matches; it matches only under the current key. *)
IntentAlwaysMatches(p) == TRUE
IntentMatchesCurrentKey(p) ==
  intent[proc[p].cur.sig] = [occ |-> proc[p].cur.occ, key |-> proc[p].key]

(* _intent_matches_signal rebuilds the event with the intent's own key. *)
IntentMatches(p) == intent[proc[p].cur.sig].occ = proc[p].cur.occ

(* Mutant: reconciliation only promotes what was staged. *)
GetIntentOrSkip(p) ==
  /\ At(p, "get")
  /\ Goto(p, IF intent[proc[p].cur.sig] = None THEN "check"
             ELSE IF IntentMatches(p) THEN "promote" ELSE "unmatched")
  /\ UNCHANGED <<files, tables, env, scans, faults, staged>>

GetIntent(p) ==
  /\ At(p, "get")
  /\ Goto(p, IF intent[proc[p].cur.sig] = None THEN "fix_check"
             ELSE IF IntentMatches(p) THEN "promote" ELSE "unmatched")
  /\ UNCHANGED <<files, tables, env, scans, faults, staged>>

DiscardUnmatched(p) ==
  /\ At(p, "unmatched")
  /\ intent' = Retired(proc[p].cur.sig)
  /\ Goto(p, "fix_check")
  /\ UNCHANGED <<files, outbox, env, scans, faults, staged>>

FixStageCheck(p) ==
  /\ At(p, "fix_check")
  /\ \/ StageCheck(p, "fix_txn", "promote") /\ UNCHANGED faults
     \/ /\ ~Owned(proc[p].cur.sig) /\ FreezeFails
        /\ Raise(p) /\ UNCHANGED intent
  /\ UNCHANGED <<files, outbox, env, scans, staged>>

FixStageTxn(p) ==
  /\ At(p, "fix_txn")
  /\ \/ StageTxn(p, "promote")
     \/ StageConflict(p) /\ Raise(p) /\ UNCHANGED intent
  /\ UNCHANGED <<files, outbox, env, scans, faults, staged>>

(* PipIntentStore.promote reads the intent again. *)
Promote(p) ==
  /\ At(p, "promote")
  /\ LET t == intent[proc[p].cur.sig] IN
     proc' = [proc EXCEPT ![p].pc = IF t = None THEN "missing" ELSE "enqueue", ![p].got = t]
  /\ UNCHANGED <<files, tables, env, scans, faults, staged>>

PromoteMissing(p) ==
  /\ At(p, "missing")
  /\ LET s == proc[p].cur.sig IN
     intent' = IF Owned(s) THEN Retired(s) ELSE intent
  /\ Goto(p, "check")
  /\ UNCHANGED <<files, outbox, env, scans, faults, staged>>

(* PipOutbox.enqueue: other bytes under the same identity make it raise. *)
EnqueueFrozen(p) ==
  /\ At(p, "enqueue")
  /\ LET s == proc[p].cur.sig  t == proc[p].got IN
     \/ /\ outbox[s] \in {None, t}
        /\ outbox' = [outbox EXCEPT ![s] = t]
        /\ Goto(p, "retire")
     \/ /\ outbox[s] \notin {None, t}
        /\ Raise(p)
        /\ UNCHANGED outbox
  /\ UNCHANGED <<files, intent, env, scans, faults, staged>>

RetirePromoted(p) ==
  /\ At(p, "retire")
  /\ LET s == proc[p].cur.sig IN
     intent' = IF intent[s] = proc[p].got THEN Retired(s) ELSE intent
  /\ proc' = [proc EXCEPT ![p].pc = "check", ![p].got = None]
  /\ UNCHANGED <<files, outbox, env, scans, faults, staged>>

-----------------------------------------------------------------------------
(* The process dies and is started again under the configured key. *)
Crash(p) ==
  /\ ~At(p, "idle")
  /\ crashes < MaxCrashes
  /\ crashes' = crashes + 1
  /\ proc' = [proc EXCEPT ![p] = Started(cfgKey)]
  /\ UNCHANGED <<files, tables, cfgKey, scans, faults, staged>>

(* External: the operator configures the next signing key; an idle process  *)
(* is restarted with it.                                                    *)
RotateKey ==
  /\ cfgKey < MaxKey
  /\ cfgKey' = cfgKey + 1
  /\ UNCHANGED <<files, tables, proc, crashes, scans, faults, staged>>

Restart(p) ==
  /\ At(p, "idle")
  /\ proc[p].key # cfgKey
  /\ proc' = [proc EXCEPT ![p].key = cfgKey]
  /\ UNCHANGED <<files, tables, env, scans, faults, staged>>

Reconcile(p) ==
  \/ ReadLog(p) \/ SelectOrphans(p) \/ DeleteOrphans(p) \/ CheckSignal(p) \/ GetIntent(p)
  \/ DiscardUnmatched(p) \/ FixStageCheck(p) \/ FixStageTxn(p) \/ Promote(p)
  \/ PromoteMissing(p) \/ EnqueueFrozen(p) \/ RetirePromoted(p)

ProducerStep(p) ==
  PreStageCheck(p) \/ PreStageTxn(p) \/ AppendSignal(p) \/ AppendFails(p) \/ Reconcile(p)

ReconcilerStep(p) == StartPass(p) \/ Reconcile(p)

Next ==
  \/ \E p \in Producers : ProducerStep(p) \/ \E s \in Signals : Scan(p, s)
  \/ \E p \in Reconcilers : ReconcilerStep(p)
  \/ \E p \in Procs : Crash(p) \/ Restart(p)
  \/ RotateKey

Spec == Init /\ [][Next]_vars

(* cli.run_worker reconciles again and again, and a process whose step is   *)
(* possible takes it.                                                       *)
FairSpec ==
  /\ Spec
  /\ \A p \in Producers : WF_vars(ProducerStep(p))
  /\ \A p \in Reconcilers : WF_vars(ReconcilerStep(p))

-----------------------------------------------------------------------------
Committed(s) == \E i \in DOMAIN log : log[i].sig = s
FirstOcc(s) == log[CHOOSE i \in DOMAIN log : log[i].sig = s /\ i \in Firsts(log)].occ

(* The outbox holds only the first durable occurrence of a signal: never a  *)
(* decision the log does not have, never a later repetition, wherever a     *)
(* process dies or fails between staging, append and promotion.             *)
CanonicalRow ==
  \A s \in Signals : Owned(s) => Committed(s) /\ outbox[s].occ = FirstOcc(s)

(* An occurrence whose envelope was staged when it was appended is          *)
(* published with those bytes, not re-signed with another key               *)
(* (PipIntentStore, reconcile_signal_log).                                  *)
ExactBytes ==
  \A s \in Signals : Owned(s) /\ staged[outbox[s].occ] # 0
    => outbox[s].key = staged[outbox[s].occ]

(* discard_orphans deletes only intents whose signal the log does not have. *)
OrphansAreUncommitted ==
  [][\A p \in Procs : At(p, "discard") /\ intent' # intent
       => \A s \in proc[p].orphans : ~Committed(s)]_vars

(* Every decision in the log in the end has its row in the outbox.          *)
EventuallyPublished == \A s \in Signals : Committed(s) ~> Owned(s)

(* Staging is temporary: every intent in the end goes, promoted or not.     *)
StagingRetired == \A s \in Signals : intent[s] # None ~> intent[s] = None
=============================================================================
