------------------------ MODULE PipPublicationProofs ------------------------
(***************************************************************************)
(* What publication promises when scan and reconcile take turns: the       *)
(* outbox holds the first durable occurrence of a signal (CanonicalRow),   *)
(* with the bytes that were staged when it was appended (ExactBytes), and  *)
(* only the intents of signals the log does not have are discarded         *)
(* (OrphansAreUncommitted).  Proved for every set of signals and of        *)
(* processes, any number of crashes, failed appends, torn lines and key    *)
(* rotations.  Without turns ExactBytes does not hold: TakeTurns is a      *)
(* hypothesis of the theorems.                                             *)
(*                                                                         *)
(* With turns at most one process is not idle, so that what it has read    *)
(* stays true until it acts on it.  The invariant says what that is at     *)
(* each of its steps, and that an intent which was there when the first    *)
(* occurrence of its signal was appended is pinned until the outbox owns   *)
(* the signal.                                                             *)
(***************************************************************************)
EXTENDS PipPublication, DataFacts

Before == {"pre_check", "pre_txn", "append"}
Promoting == {"get", "unmatched", "fix_check", "fix_txn", "promote", "missing", "enqueue", "retire"}
Passing == {"orphans", "discard", "check"} \cup Promoting

IsProc(r) ==
  r = [pc |-> r.pc, key |-> r.key, cur |-> r.cur, own |-> r.own,
       todo |-> r.todo, orphans |-> r.orphans, got |-> r.got]

ShapeInv ==
  /\ proc = [p \in Procs |-> proc[p]] /\ \A p \in Procs : IsProc(proc[p])
  /\ intent = [s \in Signals |-> intent[s]]
  /\ outbox = [s \in Signals |-> outbox[s]]
  /\ staged = [n \in 1 .. MaxOcc |-> staged[n]]
  /\ scans \in 0 .. MaxOcc

TurnInv == \A p \in Procs, q \in Procs : At(p, "idle") \/ At(q, "idle") \/ p = q

LogInv ==
  /\ IsSequence(log)
  /\ \A i \in DOMAIN log :
       log[i] = Corrupt \/ (log[i].sig \in Signals /\ log[i].occ \in 1 .. scans)

(* Line i of the log is the first of signal s. *)
FirstOf(s, i) == i \in Firsts(log) /\ log[i].sig = s

CanonInv ==
  \A s \in Signals : outbox[s] # None =>
    \E i \in DOMAIN log : FirstOf(s, i) /\ log[i].occ = outbox[s].occ

(* The first occurrence of s was staged when it was appended and is not     *)
(* published.                                                               *)
Pinned(s, i) == FirstOf(s, i) /\ outbox[s] = None /\ staged[log[i].occ] # 0

PinnedInv ==
  \A s \in Signals, i \in DOMAIN log : Pinned(s, i) =>
    /\ intent[s] # None
    /\ intent[s].occ = log[i].occ
    /\ intent[s].key = staged[log[i].occ]

DataInv == LogInv /\ CanonInv /\ PinnedInv /\ ExactBytes

(* What process p knows at each of its steps. *)
ProcInv(p) ==
  LET r == proc[p] IN
  /\ r.pc \in Before =>
       /\ r.cur = r.own /\ r.own.sig \in Signals /\ r.own.occ = scans /\ scans # 0
       /\ \A i \in DOMAIN log : log[i].occ < scans
  /\ r.pc \in Passing =>
       r.todo \subseteq Firsts(log) /\ \A i \in DOMAIN log : log[i] # Corrupt
  /\ r.pc = "orphans" => r.todo = Firsts(log)
  /\ r.pc = "discard" => \A s \in r.orphans : ~Committed(s)
  /\ r.pc \in Promoting =>
       r.cur.sig \in Signals /\ \E i \in DOMAIN log : FirstOf(r.cur.sig, i) /\ log[i].occ = r.cur.occ
  /\ r.pc = "unmatched" => intent[r.cur.sig].occ # r.cur.occ
  /\ r.pc = "promote" => (intent[r.cur.sig] # None => intent[r.cur.sig].occ = r.cur.occ)
  /\ r.pc = "enqueue" =>
       r.got = intent[r.cur.sig] /\ r.got # None /\ r.got.occ = r.cur.occ
  /\ r.pc = "retire" => outbox[r.cur.sig] # None

IInv == ShapeInv /\ TurnInv /\ DataInv /\ \A p \in Procs : ProcInv(p)

-----------------------------------------------------------------------------
(* The first lines of signals *)

LEMMA FirstUnique ==
  ASSUME IsSequence(log), NEW s, NEW i, NEW j, FirstOf(s, i), FirstOf(s, j)
  PROVE  i = j
<1>1. i \in Nat /\ j \in Nat /\ i >= 1 /\ j >= 1
  BY SequenceDomain DEF FirstOf, Firsts
<1> QED
  BY <1>1 DEF FirstOf, Firsts

LEMMA FirstExists ==
  ASSUME IsSequence(log), NEW s, Committed(s)
  PROVE  \E i \in DOMAIN log : FirstOf(s, i)
<1> DEFINE T == {i \in DOMAIN log : log[i].sig = s}
<1>1. DOMAIN log = 1 .. Len(log) /\ Len(log) \in Nat
  BY SequenceDomain
<1>2. T \in SUBSET Nat /\ T # {}
  BY <1>1 DEF Committed
<1>3. PICK i \in T : \A j \in T : i <= j
  BY <1>2, LeastNatural
<1>4. \A j \in 1 .. (i - 1) : log[j].sig # log[i].sig
  BY <1>1, <1>3
<1> QED
  BY <1>3, <1>4 DEF FirstOf, Firsts

LEMMA FirstOccIs ==
  ASSUME IsSequence(log), NEW s, NEW i, FirstOf(s, i)
  PROVE  Committed(s) /\ FirstOcc(s) = log[i].occ
<1> DEFINE P(j) == j \in DOMAIN log /\ log[j].sig = s /\ j \in Firsts(log)
           c == CHOOSE j \in DOMAIN log : log[j].sig = s /\ j \in Firsts(log)
<1>1. i \in DOMAIN log /\ log[i].sig = s /\ i \in Firsts(log)
  BY DEF FirstOf, Firsts
<1>2. c \in DOMAIN log /\ log[c].sig = s /\ c \in Firsts(log)
  BY <1>1
<1> HIDE DEF c
<1>3. c = i
  BY <1>1, <1>2, FirstUnique DEF FirstOf
<1> QED
  BY <1>1, <1>3 DEF Committed, FirstOcc, c

(* An appended line is the first of its signal only when there was none. *)
LEMMA FirstAppended ==
  ASSUME IsSequence(log), NEW o, log' = Append(log, o)
  PROVE  /\ IsSequence(log') /\ DOMAIN log' = DOMAIN log \cup {Len(log) + 1}
         /\ log'[Len(log) + 1] = o
         /\ \A i \in DOMAIN log : log'[i] = log[i]
         /\ \A s : \A i \in DOMAIN log : FirstOf(s, i)' <=> FirstOf(s, i)
         /\ \A s : \A i \in DOMAIN log' \ DOMAIN log : FirstOf(s, i)' => o.sig = s /\ ~Committed(s)
<1>1. /\ IsSequence(log') /\ DOMAIN log' = DOMAIN log \cup {Len(log) + 1}
      /\ log'[Len(log) + 1] = o
      /\ \A i \in DOMAIN log : log'[i] = log[i]
  BY AppendElements
<1>2. DOMAIN log = 1 .. Len(log) /\ Len(log) \in Nat
  BY SequenceDomain
<1>3. ASSUME NEW i \in DOMAIN log PROVE i \in Firsts(log') <=> i \in Firsts(log)
  BY <1>1, <1>2 DEF Firsts
<1>4. ASSUME NEW s, NEW i \in DOMAIN log' \ DOMAIN log, FirstOf(s, i)'
      PROVE  o.sig = s /\ ~Committed(s)
  <2>1. i = Len(log) + 1
    BY <1>1
  <2>2. i \in Firsts(log') /\ log'[i] = o /\ log'[i].sig = s
    BY <1>1, <1>4, <2>1 DEF FirstOf
  <2>3. \A j \in DOMAIN log : log'[j].sig # s
    BY <1>1, <1>2, <2>1, <2>2 DEF Firsts
  <2> QED
    BY <1>1, <2>2, <2>3 DEF Committed
<1> QED
  BY <1>1, <1>3, <1>4 DEF FirstOf

-----------------------------------------------------------------------------
(* What a step of one process leaves alone *)

ProcStep(p) ==
  /\ proc' = [q \in Procs |-> proc'[q]]
  /\ \A q \in Procs : IsProc(proc'[q])
  /\ \A q \in Procs \ {p} : proc'[q] = proc[q]

LEMMA Alone ==
  ASSUME IInv, NEW p \in Procs, ~At(p, "idle")
  PROVE  \A q \in Procs \ {p} : At(q, "idle")
BY DEF IInv, TurnInv

LEMMA OneSteps ==
  ASSUME NEW p \in Procs, \A q \in Procs \ {p} : At(q, "idle"), ProcStep(p),
         ShapeInv', DataInv', ProcInv(p)'
  PROVE  IInv'
<1>1. \A q \in Procs \ {p} : proc'[q].pc = "idle"
  BY DEF At, ProcStep
<1>2. TurnInv'
  BY <1>1 DEF TurnInv, At
<1>3. \A q \in Procs \ {p} : ProcInv(q)'
  BY <1>1 DEF ProcInv, Before, Passing, Promoting
<1> QED
  BY <1>2, <1>3 DEF IInv

LEMMA DataStays ==
  ASSUME DataInv, UNCHANGED <<log, intent, outbox, staged, scans>>
  PROVE  DataInv'
BY DEF DataInv, LogInv, CanonInv, PinnedInv, Pinned, FirstOf, ExactBytes, Owned

(* Intents may go or come, but a pinned one stays. *)
LEMMA IntentsMove ==
  ASSUME DataInv, UNCHANGED <<log, outbox, staged, scans>>,
         \A s \in Signals, i \in DOMAIN log : Pinned(s, i) => intent'[s] = intent[s]
  PROVE  DataInv'
<1>1. LogInv' /\ CanonInv' /\ ExactBytes'
  BY DEF DataInv, LogInv, CanonInv, FirstOf, ExactBytes, Owned
<1>2. PinnedInv'
  BY DEF DataInv, PinnedInv, Pinned, FirstOf
<1> QED
  BY <1>1, <1>2 DEF DataInv

(* The intent of a signal that the outbox owns may go. *)
LEMMA RetireOwned ==
  ASSUME ShapeInv, DataInv, UNCHANGED <<log, outbox, staged, scans>>,
         NEW s \in Signals, Owned(s), intent' = Retired(s)
  PROVE  DataInv' /\ intent' = [t \in Signals |-> intent'[t]] /\ intent'[s] = None
<1>1. /\ intent' = [t \in Signals |-> intent'[t]] /\ intent'[s] = None
      /\ \A t \in Signals : t # s => intent'[t] = intent[t]
  BY DEF Retired, ShapeInv
<1>2. \A t \in Signals, i \in DOMAIN log : Pinned(t, i) => intent'[t] = intent[t]
  BY <1>1 DEF Pinned, Owned
<1> QED
  BY <1>1, <1>2, IntentsMove

(* Staging writes where there is nothing, or what is there. *)
LEMMA StageFree ==
  ASSUME DataInv, UNCHANGED <<log, outbox, staged, scans>>,
         NEW s \in Signals, NEW x, intent[s] \in {None, x}, intent'[s] = x,
         \A t \in Signals : t # s => intent'[t] = intent[t]
  PROVE  DataInv'
<1>1. ASSUME NEW t \in Signals, NEW i \in DOMAIN log, Pinned(t, i) PROVE intent'[t] = intent[t]
  BY <1>1 DEF DataInv, PinnedInv
<1> QED
  BY <1>1, IntentsMove

LEMMA ProcFields ==
  ASSUME IInv, NEW p \in Procs
  PROVE  /\ p \in DOMAIN proc
         /\ proc[p] = [pc |-> proc[p].pc, key |-> proc[p].key, cur |-> proc[p].cur,
                       own |-> proc[p].own, todo |-> proc[p].todo,
                       orphans |-> proc[p].orphans, got |-> proc[p].got]
<1>1. proc = [q \in Procs |-> proc[q]] /\ IsProc(proc[p])
  BY DEF IInv, ShapeInv
<1> QED
  BY <1>1 DEF IsProc

LEMMA GotoFacts ==
  ASSUME ShapeInv, NEW p \in Procs, NEW x, Goto(p, x)
  PROVE  /\ ProcStep(p)
         /\ proc'[p].pc = x /\ proc'[p].cur = proc[p].cur /\ proc'[p].own = proc[p].own
         /\ proc'[p].todo = proc[p].todo /\ proc'[p].orphans = proc[p].orphans
         /\ proc'[p].got = proc[p].got
BY DEF Goto, ShapeInv, IsProc, ProcStep

(* A process that is started, or starts over, knows nothing. *)
LEMMA StartFacts ==
  ASSUME ShapeInv, NEW p \in Procs, NEW k, proc' = [proc EXCEPT ![p] = Started(k)]
  PROVE  /\ ProcStep(p)
         /\ proc'[p].pc = "idle"
         /\ ProcInv(p)'
<1>1. /\ ProcStep(p)
      /\ proc'[p].pc = "idle"
  BY DEF ShapeInv, IsProc, Started, ProcStep
<1>2. ProcInv(p)'
  BY <1>1 DEF ProcInv, Before, Passing, Promoting
<1> QED
  BY <1>1, <1>2

LEMMA RaiseFacts ==
  ASSUME ShapeInv, NEW p \in Procs, Raise(p) \/ PassEnds(p)
  PROVE  /\ ProcStep(p)
         /\ proc'[p].pc = "idle"
         /\ ProcInv(p)'
<1>1. \E k : proc' = [proc EXCEPT ![p] = Started(k)]
  BY DEF Raise, PassEnds
<1> QED
  BY <1>1, StartFacts

-----------------------------------------------------------------------------
(* The steps of a scan *)

LEMMA InitInv == Init => IInv
<1> SUFFICES ASSUME Init PROVE IInv
  OBVIOUS
<1>1. \A p \in Procs : proc[p] = Started(1) /\ At(p, "idle") /\ IsProc(proc[p])
  BY DEF Init, At, Started, IsProc
<1>2. ShapeInv
  BY <1>1, BoundAssumption DEF Init, ShapeInv
<1>3. log = <<>> /\ IsSequence(log) /\ DOMAIN log = {}
  BY EmptySequence DEF Init
<1>4. DataInv
  BY <1>3 DEF Init, DataInv, LogInv, CanonInv, PinnedInv, ExactBytes, Owned
<1>5. TurnInv
  BY <1>1 DEF TurnInv
<1>6. \A p \in Procs : ProcInv(p)
  BY <1>1 DEF ProcInv, At, Before, Passing, Promoting
<1> QED
  BY <1>2, <1>4, <1>5, <1>6 DEF IInv

LEMMA ScanInv ==
  ASSUME TakeTurns, IInv, NEW p \in Procs, NEW s \in Signals, Scan(p, s)
  PROVE  IInv'
<1> DEFINE o == [sig |-> s, occ |-> scans + 1]
<1>1. \A q \in Procs \ {p} : At(q, "idle")
  BY DEF Scan, MayStart
<1>2. /\ ProcStep(p)
      /\ proc'[p].pc = "pre_check" /\ proc'[p].cur = o /\ proc'[p].own = o
  <2>1. proc' = [q \in Procs |-> proc'[q]] /\ \A q \in Procs : IsProc(proc'[q])
    BY DEF Scan, IInv, ShapeInv, IsProc
  <2>2. \A q \in Procs \ {p} : proc'[q] = proc[q]
    BY DEF Scan, IInv, ShapeInv, IsProc
  <2>3. proc'[p].pc = "pre_check" /\ proc'[p].cur = o /\ proc'[p].own = o
    BY DEF Scan, IInv, ShapeInv, IsProc
  <2> QED
    BY <2>1, <2>2, <2>3 DEF ProcStep
<1>3. scans' = scans + 1 /\ scans \in Nat /\ scans' \in 0 .. MaxOcc
  BY BoundAssumption DEF Scan, IInv, ShapeInv
<1>4. UNCHANGED <<log, intent, outbox, staged>>
  BY DEF Scan, files, tables
<1>5. ShapeInv'
  BY <1>2, <1>3, <1>4 DEF IInv, ShapeInv, ProcStep
<1>6. DataInv'
  BY <1>3, <1>4 DEF IInv, DataInv, LogInv, CanonInv, PinnedInv, Pinned, FirstOf, ExactBytes, Owned
<1>7. \A i \in DOMAIN log : log[i].occ \in Nat /\ log[i].occ <= scans
  BY <1>3 DEF IInv, DataInv, LogInv, Corrupt
<1>8. ProcInv(p)'
  BY <1>2, <1>3, <1>4, <1>7 DEF ProcInv, Before, Passing, Promoting
<1> QED
  BY <1>1, <1>2, <1>5, <1>6, <1>8, OneSteps

(* stage_signal, wherever it is called. *)
LEMMA StageCheckFacts ==
  ASSUME IInv, NEW p \in Procs, proc[p].cur.sig \in Signals,
         NEW x, NEW y, StageCheck(p, x, y), UNCHANGED <<log, outbox, staged, scans>>
  PROVE  /\ DataInv' /\ intent' = [t \in Signals |-> intent'[t]]
         /\ Goto(p, x) \/ (Goto(p, y) /\ intent'[proc[p].cur.sig] = None)
<1>1. CASE Owned(proc[p].cur.sig) /\ intent' = Retired(proc[p].cur.sig) /\ Goto(p, y)
  BY <1>1, RetireOwned DEF IInv
<1>2. CASE UNCHANGED intent /\ Goto(p, x)
  BY <1>2, DataStays DEF IInv, ShapeInv
<1> QED
  BY <1>1, <1>2 DEF StageCheck

LEMMA StageTxnFacts ==
  ASSUME IInv, NEW p \in Procs, proc[p].cur.sig \in Signals,
         NEW y, StageTxn(p, y), UNCHANGED <<log, outbox, staged, scans>>
  PROVE  /\ DataInv' /\ intent' = [t \in Signals |-> intent'[t]]
         /\ Goto(p, y)
         /\ intent'[proc[p].cur.sig] # None => intent'[proc[p].cur.sig].occ = proc[p].cur.occ
<1> DEFINE s == proc[p].cur.sig
<1>1. CASE ~StageConflict(p) /\ intent' = [intent EXCEPT ![s] = StageFrozen(p)]
  <2>1. intent[s] \in {None, StageFrozen(p)} /\ StageFrozen(p).occ = proc[p].cur.occ
    BY <1>1 DEF StageConflict, StageFrozen
  <2>2. /\ intent' = [t \in Signals |-> intent'[t]] /\ intent'[s] = StageFrozen(p)
        /\ \A t \in Signals : t # s => intent'[t] = intent[t]
    BY <1>1 DEF IInv, ShapeInv
  <2>3. DataInv'
    BY <2>1, <2>2, StageFree DEF IInv
  <2> QED
    BY <2>1, <2>2, <2>3 DEF StageTxn
<1>2. CASE Owned(s) /\ intent' = Retired(s)
  <2>1. DataInv' /\ intent' = [t \in Signals |-> intent'[t]] /\ intent'[s] = None
    BY <1>2, RetireOwned DEF IInv
  <2> QED
    BY <2>1 DEF StageTxn
<1> QED
  BY <1>1, <1>2 DEF StageTxn

LEMMA PreStageCheckInv ==
  ASSUME IInv, NEW p \in Procs, PreStageCheck(p)
  PROVE  IInv'
<1>1. proc[p].pc = "pre_check" /\ UNCHANGED <<log, outbox, staged, scans>>
  BY DEF PreStageCheck, At, files
<1>2. /\ proc[p].cur = proc[p].own /\ proc[p].cur.sig \in Signals
      /\ proc[p].own.occ = scans /\ scans # 0 /\ \A i \in DOMAIN log : log[i].occ < scans
  BY <1>1 DEF IInv, ProcInv, Before
<1>3. /\ DataInv' /\ intent' = [t \in Signals |-> intent'[t]]
      /\ \E x \in {"pre_txn", "append"} : Goto(p, x)
  <2>1. CASE StageCheck(p, "pre_txn", "append")
    BY <1>1, <1>2, <2>1, StageCheckFacts
  <2>2. CASE Goto(p, "append") /\ UNCHANGED intent
    BY <1>1, <2>2, DataStays DEF IInv, ShapeInv
  <2> QED
    BY <2>1, <2>2 DEF PreStageCheck
<1>4. PICK x \in {"pre_txn", "append"} : Goto(p, x)
  BY <1>3
<1>5. /\ ProcStep(p)
      /\ proc'[p].pc = x /\ proc'[p].cur = proc[p].cur /\ proc'[p].own = proc[p].own
  BY <1>4, GotoFacts DEF IInv
<1>6. ShapeInv'
  BY <1>1, <1>3, <1>5 DEF IInv, ShapeInv, ProcStep
<1>7. ProcInv(p)'
  BY <1>1, <1>2, <1>5 DEF ProcInv, Before, Passing, Promoting
<1>8. \A q \in Procs \ {p} : At(q, "idle")
  BY <1>1, Alone DEF At
<1> QED
  BY <1>3, <1>5, <1>6, <1>7, <1>8, OneSteps

LEMMA PreStageTxnInv ==
  ASSUME IInv, NEW p \in Procs, PreStageTxn(p)
  PROVE  IInv'
<1>1. proc[p].pc = "pre_txn" /\ UNCHANGED <<log, outbox, staged, scans>>
  BY DEF PreStageTxn, At, files
<1>2. /\ proc[p].cur = proc[p].own /\ proc[p].cur.sig \in Signals
      /\ proc[p].own.occ = scans /\ scans # 0 /\ \A i \in DOMAIN log : log[i].occ < scans
  BY <1>1 DEF IInv, ProcInv, Before
<1>3. DataInv' /\ intent' = [t \in Signals |-> intent'[t]] /\ Goto(p, "append")
  <2>1. CASE StageTxn(p, "append")
    BY <1>1, <1>2, <2>1, StageTxnFacts
  <2>2. CASE Goto(p, "append") /\ UNCHANGED intent
    BY <1>1, <2>2, DataStays DEF IInv, ShapeInv
  <2> QED
    BY <2>1, <2>2 DEF PreStageTxn
<1>4. /\ ProcStep(p)
      /\ proc'[p].pc = "append" /\ proc'[p].cur = proc[p].cur /\ proc'[p].own = proc[p].own
  BY <1>3, GotoFacts DEF IInv
<1>5. ShapeInv'
  BY <1>1, <1>3, <1>4 DEF IInv, ShapeInv, ProcStep
<1>6. ProcInv(p)'
  BY <1>1, <1>2, <1>4 DEF ProcInv, Before, Passing, Promoting
<1>7. \A q \in Procs \ {p} : At(q, "idle")
  BY <1>1, Alone DEF At
<1> QED
  BY <1>3, <1>4, <1>5, <1>6, <1>7, OneSteps

(* The line that is appended is the first of its signal with what is staged *)
(* for it, or it is not the first, or it is lost in a torn line.            *)
LEMMA AppendedData ==
  ASSUME IInv, NEW p \in Procs, proc[p].pc = "append",
         log' = Appended(proc[p].own), RecordStaged(proc[p].own),
         UNCHANGED <<intent, outbox, scans>>
  PROVE  DataInv' /\ staged' = [n \in 1 .. MaxOcc |-> staged'[n]]
<1> DEFINE own == proc[p].own
           o == IF torn THEN Corrupt ELSE own
<1>1. /\ own.sig \in Signals /\ own.occ = scans /\ scans \in 1 .. MaxOcc
      /\ \A i \in DOMAIN log : log[i].occ < scans
  BY DEF IInv, ProcInv, Before, ShapeInv
<1>2. IsSequence(log) /\ log' = Append(log, o)
  BY DEF IInv, DataInv, LogInv, Appended
<1>3. o = Corrupt \/ o = own
  OBVIOUS
<1>4. /\ staged' = [n \in 1 .. MaxOcc |-> staged'[n]]
      /\ \A n \in 1 .. MaxOcc : n # own.occ => staged'[n] = staged[n]
      /\ staged'[own.occ] # 0 =>
           intent[own.sig] # None /\ intent[own.sig].occ = own.occ /\ intent[own.sig].key = staged'[own.occ]
  BY <1>1 DEF IInv, ShapeInv, RecordStaged
<1> HIDE DEF own, o
<1>5. /\ IsSequence(log') /\ DOMAIN log' = DOMAIN log \cup {Len(log) + 1}
      /\ log'[Len(log) + 1] = o
      /\ \A i \in DOMAIN log : log'[i] = log[i]
      /\ \A s : \A i \in DOMAIN log : FirstOf(s, i)' <=> FirstOf(s, i)
      /\ \A s : \A i \in DOMAIN log' \ DOMAIN log : FirstOf(s, i)' => o.sig = s /\ ~Committed(s)
  BY <1>2, FirstAppended
<1>6. LogInv'
  BY <1>1, <1>3, <1>5 DEF IInv, DataInv, LogInv
<1>7. CanonInv'
  BY <1>5 DEF IInv, DataInv, CanonInv
<1>8. ASSUME NEW s \in Signals, NEW i \in DOMAIN log, FirstOf(s, i)
      PROVE  staged'[log[i].occ] = staged[log[i].occ]
  <2>1. log[i].sig = s /\ log[i].occ \in 1 .. scans
    BY <1>8, NoneAssumption DEF FirstOf, IInv, DataInv, LogInv, Corrupt
  <2>2. log[i].occ \in 1 .. MaxOcc /\ log[i].occ # own.occ
    BY <1>1, <2>1, BoundAssumption
  <2> QED
    BY <1>4, <2>2
<1>9. PinnedInv'
  <2> SUFFICES ASSUME NEW s \in Signals, NEW i \in DOMAIN log', Pinned(s, i)'
               PROVE  intent'[s] # None /\ intent'[s].occ = log'[i].occ
                      /\ intent'[s].key = staged'[log'[i].occ]
    BY DEF PinnedInv
  <2>1. CASE i \in DOMAIN log
    <3>1. FirstOf(s, i) /\ log'[i] = log[i]
      BY <1>5, <2>1 DEF Pinned
    <3>2. staged'[log[i].occ] = staged[log[i].occ]
      BY <1>8, <2>1, <3>1
    <3>3. Pinned(s, i)
      BY <3>1, <3>2 DEF Pinned
    <3> QED
      BY <2>1, <3>1, <3>2, <3>3 DEF IInv, DataInv, PinnedInv
  <2>2. CASE i \notin DOMAIN log
    <3>1. o.sig = s /\ log'[i] = o
      BY <1>5, <2>2 DEF Pinned
    <3>2. o = own
      BY <1>3, <3>1, NoneAssumption DEF Corrupt
    <3>3. staged'[own.occ] # 0
      BY <3>1, <3>2 DEF Pinned
    <3> QED
      BY <1>4, <3>1, <3>2, <3>3
  <2> QED
    BY <2>1, <2>2
<1>10. ExactBytes'
  <2> SUFFICES ASSUME NEW s \in Signals, outbox[s] # None, staged'[outbox[s].occ] # 0
               PROVE  outbox[s].key = staged'[outbox[s].occ]
    BY DEF ExactBytes, Owned
  <2>1. PICK i \in DOMAIN log : FirstOf(s, i) /\ log[i].occ = outbox[s].occ
    BY DEF IInv, DataInv, CanonInv
  <2>2. staged'[outbox[s].occ] = staged[outbox[s].occ]
    BY <1>8, <2>1
  <2> QED
    BY <2>2 DEF IInv, DataInv, ExactBytes, Owned
<1> QED
  BY <1>4, <1>6, <1>7, <1>9, <1>10 DEF DataInv

LEMMA AppendSignalInv ==
  ASSUME IInv, NEW p \in Procs, AppendSignal(p)
  PROVE  IInv'
<1>1. proc[p].pc = "append" /\ UNCHANGED <<intent, outbox, scans>>
  BY DEF AppendSignal, At, tables
<1>2. DataInv' /\ staged' = [n \in 1 .. MaxOcc |-> staged'[n]]
  BY <1>1, AppendedData DEF AppendSignal
<1>3. /\ ProcStep(p)
      /\ proc'[p].pc = "read"
  BY GotoFacts DEF AppendSignal, IInv
<1>4. ShapeInv'
  BY <1>1, <1>2, <1>3 DEF IInv, ShapeInv, ProcStep
<1>5. ProcInv(p)'
  BY <1>3 DEF ProcInv, Before, Passing, Promoting
<1>6. \A q \in Procs \ {p} : At(q, "idle")
  BY <1>1, Alone DEF At
<1> QED
  BY <1>2, <1>3, <1>4, <1>5, <1>6, OneSteps

LEMMA AppendFailsInv ==
  ASSUME IInv, NEW p \in Procs, AppendFails(p)
  PROVE  IInv'
<1>1. proc[p].pc = "append" /\ UNCHANGED <<intent, outbox, scans>>
  BY DEF AppendFails, At, tables
<1>2. DataInv' /\ staged' = [n \in 1 .. MaxOcc |-> staged'[n]]
  <2>1. CASE log' = Appended(proc[p].own) /\ RecordStaged(proc[p].own)
    BY <1>1, <2>1, AppendedData
  <2>2. CASE UNCHANGED <<log, staged>>
    BY <1>1, <2>2, DataStays DEF IInv, ShapeInv
  <2> QED
    BY <2>1, <2>2 DEF AppendFails, files
<1>3. /\ ProcStep(p)
      /\ ProcInv(p)'
  BY StartFacts DEF AppendFails, IInv
<1>4. ShapeInv'
  BY <1>1, <1>2, <1>3 DEF IInv, ShapeInv, ProcStep
<1>5. \A q \in Procs \ {p} : At(q, "idle")
  BY <1>1, Alone DEF At
<1> QED
  BY <1>2, <1>3, <1>4, <1>5, OneSteps

-----------------------------------------------------------------------------
(* The steps of a pass *)

(* What a pass at one of the steps of a signal has read. *)
LEMMA PassFacts ==
  ASSUME IInv, NEW p \in Procs, proc[p].pc \in Passing
  PROVE  /\ proc[p].todo \subseteq Firsts(log)
         /\ \A i \in DOMAIN log : log[i] # Corrupt
         /\ \A q \in Procs \ {p} : At(q, "idle")
         /\ proc[p].pc \in Promoting =>
              /\ proc[p].cur.sig \in Signals
              /\ \E i \in DOMAIN log : FirstOf(proc[p].cur.sig, i) /\ log[i].occ = proc[p].cur.occ
<1>1. ProcInv(p) /\ ~At(p, "idle")
  BY DEF IInv, At, Passing, Promoting
<1>2. \A q \in Procs \ {p} : At(q, "idle")
  BY <1>1, Alone
<1> QED
  BY <1>1, <1>2 DEF ProcInv

(* The pass goes on with its signal. *)
LEMMA PassGoes ==
  ASSUME IInv, NEW p \in Procs, proc[p].pc \in Passing, ProcStep(p),
         UNCHANGED <<log, staged, scans>>, DataInv',
         intent' = [t \in Signals |-> intent'[t]], outbox' = [t \in Signals |-> outbox'[t]],
         proc'[p].pc \in Passing, proc'[p].todo = proc[p].todo,
         proc'[p].pc \in Promoting => proc[p].pc \in Promoting /\ proc'[p].cur = proc[p].cur,
         proc'[p].pc \notin {"orphans", "discard"},
         proc'[p].pc = "unmatched" => intent'[proc[p].cur.sig].occ # proc[p].cur.occ,
         proc'[p].pc = "promote" =>
           (intent'[proc[p].cur.sig] # None => intent'[proc[p].cur.sig].occ = proc[p].cur.occ),
         proc'[p].pc = "enqueue" =>
           /\ proc'[p].got = intent'[proc[p].cur.sig]
           /\ proc'[p].got # None /\ proc'[p].got.occ = proc[p].cur.occ,
         proc'[p].pc = "retire" => outbox'[proc[p].cur.sig] # None
  PROVE  IInv'
<1>1. /\ proc[p].todo \subseteq Firsts(log)
      /\ \A i \in DOMAIN log : log[i] # Corrupt
      /\ \A q \in Procs \ {p} : At(q, "idle")
      /\ proc[p].pc \in Promoting =>
           /\ proc[p].cur.sig \in Signals
           /\ \E i \in DOMAIN log : FirstOf(proc[p].cur.sig, i) /\ log[i].occ = proc[p].cur.occ
  BY PassFacts
<1>2. ShapeInv'
  BY DEF IInv, ShapeInv, ProcStep
<1>3. proc'[p].pc \notin Before
  BY DEF Passing, Promoting, Before
<1>4. proc'[p].pc \in Promoting =>
        /\ proc'[p].cur = proc[p].cur /\ proc[p].cur.sig \in Signals
        /\ \E i \in DOMAIN log : FirstOf(proc[p].cur.sig, i)' /\ log[i].occ = proc[p].cur.occ
  BY <1>1 DEF FirstOf
<1>5. proc'[p].pc \in {"unmatched", "promote", "enqueue", "retire"} => proc'[p].pc \in Promoting
  BY DEF Promoting
<1>6. ProcInv(p)'
  BY <1>1, <1>3, <1>4, <1>5 DEF ProcInv, FirstOf
<1> QED
  BY <1>1, <1>2, <1>6, OneSteps

LEMMA StartPassInv ==
  ASSUME TakeTurns, IInv, NEW p \in Procs, StartPass(p)
  PROVE  IInv'
<1>1. UNCHANGED <<log, intent, outbox, staged, scans>> /\ \A q \in Procs \ {p} : At(q, "idle")
  BY DEF StartPass, MayStart, files, tables
<1>2. ProcStep(p) /\ proc'[p].pc = "read"
  BY GotoFacts DEF StartPass, IInv
<1>3. ShapeInv'
  BY <1>1, <1>2 DEF IInv, ShapeInv, ProcStep
<1>4. ProcInv(p)'
  BY <1>2 DEF ProcInv, Before, Passing, Promoting
<1>5. DataInv'
  BY <1>1, DataStays DEF IInv
<1> QED
  BY <1>1, <1>2, <1>3, <1>4, <1>5, OneSteps

LEMMA ReadLogInv ==
  ASSUME IInv, NEW p \in Procs, ReadLog(p)
  PROVE  IInv'
<1>1. UNCHANGED <<log, intent, outbox, staged, scans>> /\ proc[p].pc = "read"
  BY DEF ReadLog, At, files, tables
<1>2. \A q \in Procs \ {p} : At(q, "idle")
  BY <1>1, Alone DEF At
<1>3. ProcStep(p) /\ ProcInv(p)'
  <2>1. CASE Raise(p)
    BY <2>1, RaiseFacts DEF IInv
  <2>2. CASE /\ \A i \in DOMAIN log : log[i] # Corrupt
             /\ proc' = [proc EXCEPT ![p].pc = "orphans", ![p].todo = Firsts(log)]
    <3>1. ProcStep(p)
      BY <2>2 DEF IInv, ShapeInv, IsProc, ProcStep
    <3>2. proc'[p].pc = "orphans" /\ proc'[p].todo = Firsts(log)
      <4> DEFINE half == [proc EXCEPT ![p].pc = "orphans"]
      <4>1. proc' = [half EXCEPT ![p].todo = Firsts(log)]
        BY <2>2, Zenon
      <4>2. p \in DOMAIN half /\ half[p] = [proc[p] EXCEPT !.pc = "orphans"]
        BY ProcFields
      <4> HIDE DEF half
      <4>3. proc'[p] = [half[p] EXCEPT !.todo = Firsts(log)]
        BY <4>1, <4>2
      <4> QED
        BY <4>2, <4>3, ProcFields
    <3>3. ProcInv(p)'
      BY <1>1, <2>2, <3>2 DEF ProcInv, Before, Passing, Promoting
    <3> QED
      BY <3>1, <3>3
  <2> QED
    BY <2>1, <2>2 DEF ReadLog
<1>4. ShapeInv'
  BY <1>1, <1>3 DEF IInv, ShapeInv, ProcStep
<1>5. DataInv'
  BY <1>1, DataStays DEF IInv
<1> QED
  BY <1>2, <1>3, <1>4, <1>5, OneSteps

LEMMA SelectOrphansInv ==
  ASSUME IInv, NEW p \in Procs, SelectOrphans(p)
  PROVE  IInv'
<1> DEFINE known == {log[i].sig : i \in proc[p].todo}
           found == {s \in Signals \ known : intent[s] # None}
<1>1. UNCHANGED <<log, intent, outbox, staged, scans>> /\ proc[p].pc = "orphans"
  BY DEF SelectOrphans, At, files, tables
<1>2. /\ proc[p].todo = Firsts(log) /\ \A i \in DOMAIN log : log[i] # Corrupt
      /\ \A q \in Procs \ {p} : At(q, "idle")
  BY <1>1, PassFacts DEF IInv, ProcInv, Passing
<1>3. ASSUME NEW s \in found PROVE ~Committed(s)
  <2> SUFFICES ASSUME Committed(s) PROVE FALSE
    OBVIOUS
  <2>1. PICK i \in DOMAIN log : FirstOf(s, i)
    BY FirstExists DEF IInv, DataInv, LogInv
  <2>2. s \in known
    BY <1>2, <2>1 DEF FirstOf
  <2> QED
    BY <2>2
<1>4. proc' = [proc EXCEPT ![p].pc = IF found = {} THEN "check" ELSE "discard", ![p].orphans = found]
  BY DEF SelectOrphans
<1> HIDE DEF known, found
<1>5. ProcStep(p)
  BY <1>4 DEF IInv, ShapeInv, IsProc, ProcStep
<1>6. /\ proc'[p].pc = IF found = {} THEN "check" ELSE "discard"
      /\ proc'[p].todo = proc[p].todo /\ proc'[p].orphans = found
  <2> DEFINE x == IF found = {} THEN "check" ELSE "discard"
             half == [proc EXCEPT ![p].pc = x]
  <2>1. proc' = [half EXCEPT ![p].orphans = found]
    BY <1>4, Zenon
  <2> HIDE DEF x
  <2>2. p \in DOMAIN half /\ half[p] = [proc[p] EXCEPT !.pc = x]
    BY ProcFields
  <2> HIDE DEF half
  <2>3. proc'[p] = [half[p] EXCEPT !.orphans = found]
    BY <2>1, <2>2
  <2>4. proc'[p].pc = x /\ proc'[p].todo = proc[p].todo /\ proc'[p].orphans = found
    BY <2>2, <2>3, ProcFields
  <2> QED
    BY <2>4 DEF x
<1>7. \A s \in found : ~Committed(s)'
  BY <1>1, <1>3 DEF Committed
<1>8. ProcInv(p)'
  BY <1>1, <1>2, <1>6, <1>7 DEF ProcInv, Before, Passing, Promoting
<1>9. ShapeInv'
  BY <1>1, <1>5 DEF IInv, ShapeInv, ProcStep
<1>10. DataInv'
  BY <1>1, DataStays DEF IInv
<1> QED
  BY <1>2, <1>5, <1>8, <1>9, <1>10, OneSteps

LEMMA DeleteOrphansInv ==
  ASSUME IInv, NEW p \in Procs, DeleteOrphans(p)
  PROVE  IInv'
<1>1. UNCHANGED <<log, outbox, staged, scans>> /\ proc[p].pc = "discard"
  BY DEF DeleteOrphans, At, files
<1>2. \A s \in proc[p].orphans : ~Committed(s)
  BY <1>1 DEF IInv, ProcInv
<1>3. /\ intent' = [t \in Signals |-> intent'[t]]
      /\ \A t \in Signals : t \notin proc[p].orphans => intent'[t] = intent[t]
  BY DEF DeleteOrphans
<1>4. ASSUME NEW s \in Signals, NEW i \in DOMAIN log, Pinned(s, i) PROVE intent'[s] = intent[s]
  <2>1. Committed(s)
    BY <1>4 DEF Pinned, FirstOf, Committed
  <2> QED
    BY <1>2, <1>3, <2>1
<1>5. DataInv'
  BY <1>1, <1>4, IntentsMove DEF IInv
<1>6. ProcStep(p)
  BY DEF DeleteOrphans, IInv, ShapeInv, IsProc, ProcStep
<1>7. proc'[p].pc = "check" /\ proc'[p].todo = proc[p].todo
  BY DEF DeleteOrphans, IInv, ShapeInv, IsProc
<1>8. outbox' = [t \in Signals |-> outbox'[t]]
  BY <1>1 DEF IInv, ShapeInv
<1>9. proc[p].pc \in Passing /\ proc'[p].pc \in Passing /\ proc'[p].pc \notin Promoting
  BY <1>1, <1>7 DEF Passing, Promoting
<1> QED
  BY <1>1, <1>3, <1>5, <1>6, <1>7, <1>8, <1>9, PassGoes

(* The pass is over. *)
LEMMA PassStops ==
  ASSUME IInv, NEW p \in Procs, proc[p].pc \in Passing, Raise(p) \/ PassEnds(p),
         UNCHANGED <<log, intent, outbox, staged, scans>>
  PROVE  IInv'
<1>1. ProcStep(p) /\ ProcInv(p)'
  BY RaiseFacts DEF IInv
<1>2. ShapeInv'
  BY <1>1 DEF IInv, ShapeInv, ProcStep
<1>3. DataInv'
  BY DataStays DEF IInv
<1> QED
  BY <1>1, <1>2, <1>3, PassFacts, OneSteps

LEMMA CheckSignalInv ==
  ASSUME IInv, NEW p \in Procs, CheckSignal(p)
  PROVE  IInv'
<1>1. UNCHANGED <<log, outbox, staged, scans>> /\ proc[p].pc = "check" /\ proc[p].pc \in Passing
  BY DEF CheckSignal, At, files, Passing
<1>2. CASE proc[p].todo = {} /\ PassEnds(p) /\ UNCHANGED intent
  BY <1>1, <1>2, PassStops
<1>3. CASE proc[p].todo # {}
  <2> PICK i : i = NextLine(p)
    OBVIOUS
  <2> DEFINE s == log[i].sig
             x == IF Owned(s) THEN "check" ELSE "get"
             rest == proc[p].todo \ {i}
  <2>1. /\ intent' = IF Owned(s) THEN Retired(s) ELSE intent
        /\ proc' = [proc EXCEPT ![p].pc = x, ![p].todo = rest, ![p].cur = log[i]]
    BY <1>3 DEF CheckSignal
  <2>2. /\ proc[p].todo \subseteq Firsts(log) /\ \A j \in DOMAIN log : log[j] # Corrupt
        /\ \A q \in Procs \ {p} : At(q, "idle")
    BY <1>1, PassFacts
  <2>3. i \in proc[p].todo
    <3>1. proc[p].todo \in SUBSET Nat
      BY <2>2, SequenceDomain DEF Firsts, IInv, DataInv, LogInv
    <3>2. \E j \in proc[p].todo : \A k \in proc[p].todo : j <= k
      BY <1>3, <3>1, LeastNatural
    <3> QED
      BY <3>2 DEF NextLine
  <2>4. FirstOf(s, i) /\ i \in DOMAIN log /\ s \in Signals
    BY <2>2, <2>3 DEF FirstOf, Firsts, IInv, DataInv, LogInv
  <2> HIDE DEF s
  <2>5. DataInv' /\ intent' = [t \in Signals |-> intent'[t]]
    <3>1. CASE Owned(s)
      BY <1>1, <2>1, <2>4, <3>1, RetireOwned DEF IInv
    <3>2. CASE ~Owned(s)
      BY <1>1, <2>1, <3>2, DataStays DEF IInv, ShapeInv
    <3> QED
      BY <3>1, <3>2
  <2>6. ProcStep(p) /\ proc'[p].pc = x /\ proc'[p].todo = rest /\ proc'[p].cur = log[i]
    <3> DEFINE half == [proc EXCEPT ![p].pc = x]
               most == [half EXCEPT ![p].todo = rest]
    <3>1. proc' = [most EXCEPT ![p].cur = log[i]]
      BY <2>1, Zenon
    <3> HIDE DEF x, rest
    <3>2. /\ half = [q \in Procs |-> half[q]] /\ p \in DOMAIN half
          /\ half[p] = [pc |-> x, key |-> proc[p].key, cur |-> proc[p].cur, own |-> proc[p].own,
                        todo |-> proc[p].todo, orphans |-> proc[p].orphans, got |-> proc[p].got]
          /\ \A q \in Procs \ {p} : half[q] = proc[q]
      BY ProcFields DEF IInv, ShapeInv
    <3> HIDE DEF half
    <3>3. /\ most = [q \in Procs |-> most[q]] /\ p \in DOMAIN most
          /\ most[p] = [pc |-> x, key |-> proc[p].key, cur |-> proc[p].cur, own |-> proc[p].own,
                        todo |-> rest, orphans |-> proc[p].orphans, got |-> proc[p].got]
          /\ \A q \in Procs \ {p} : most[q] = proc[q]
      BY <3>2
    <3> HIDE DEF most
    <3>4. /\ proc' = [q \in Procs |-> proc'[q]]
          /\ proc'[p] = [pc |-> x, key |-> proc[p].key, cur |-> log[i], own |-> proc[p].own,
                         todo |-> rest, orphans |-> proc[p].orphans, got |-> proc[p].got]
          /\ \A q \in Procs \ {p} : proc'[q] = proc[q]
      BY <3>1, <3>3
    <3>5. IsProc(proc'[p]) /\ \A q \in Procs \ {p} : IsProc(proc'[q])
      BY <3>4 DEF IsProc, IInv, ShapeInv
    <3> QED
      BY <3>4, <3>5 DEF ProcStep
  <2>7. ShapeInv'
    BY <1>1, <2>5, <2>6 DEF IInv, ShapeInv, ProcStep
  <2>8. ProcInv(p)'
    <3>1. /\ proc'[p].todo \subseteq Firsts(log')
          /\ \A j \in DOMAIN log' : log'[j] # Corrupt
          /\ proc'[p].pc \in {"check", "get"}
      BY <1>1, <2>2, <2>6
    <3>2. /\ proc'[p].cur.sig \in Signals /\ i \in DOMAIN log'
          /\ i \in Firsts(log') /\ log'[i].sig = proc'[p].cur.sig
          /\ log'[i].occ = proc'[p].cur.occ
      BY <1>1, <2>4, <2>6 DEF FirstOf, s
    <3> QED
      BY <3>1, <3>2 DEF ProcInv, Before, Passing, Promoting, FirstOf
  <2> QED
    BY <2>2, <2>5, <2>6, <2>7, <2>8, OneSteps
<1> QED
  BY <1>2, <1>3 DEF CheckSignal

LEMMA GetIntentInv ==
  ASSUME IInv, NEW p \in Procs, GetIntent(p)
  PROVE  IInv'
<1>1. /\ UNCHANGED <<log, intent, outbox, staged, scans>>
      /\ proc[p].pc = "get" /\ proc[p].pc \in Passing /\ proc[p].pc \in Promoting
  BY DEF GetIntent, At, files, tables, Passing, Promoting
<1> DEFINE x == IF intent[proc[p].cur.sig] = None THEN "fix_check"
                ELSE IF IntentMatches(p) THEN "promote" ELSE "unmatched"
<1>2. Goto(p, x)
  BY DEF GetIntent
<1>3. /\ x \in {"fix_check", "promote", "unmatched"}
      /\ x = "promote" => intent[proc[p].cur.sig].occ = proc[p].cur.occ
      /\ x = "unmatched" => intent[proc[p].cur.sig].occ # proc[p].cur.occ
  BY DEF IntentMatches
<1> HIDE DEF x
<1>4. /\ ProcStep(p) /\ proc'[p].pc = x /\ proc'[p].cur = proc[p].cur
      /\ proc'[p].todo = proc[p].todo
  BY <1>2, GotoFacts DEF IInv
<1>5. /\ proc'[p].pc \in Passing /\ proc'[p].pc \notin {"orphans", "discard", "enqueue", "retire"}
  BY <1>3, <1>4 DEF Passing, Promoting
<1>6. /\ DataInv' /\ intent' = [t \in Signals |-> intent'[t]]
      /\ outbox' = [t \in Signals |-> outbox'[t]]
  BY <1>1, DataStays DEF IInv, ShapeInv
<1> QED
  BY <1>1, <1>3, <1>4, <1>5, <1>6, PassGoes

LEMMA DiscardUnmatchedInv ==
  ASSUME IInv, NEW p \in Procs, DiscardUnmatched(p)
  PROVE  IInv'
<1> DEFINE s == proc[p].cur.sig
<1>1. /\ UNCHANGED <<log, outbox, staged, scans>>
      /\ proc[p].pc = "unmatched" /\ proc[p].pc \in Passing /\ proc[p].pc \in Promoting
      /\ intent' = Retired(s)
  BY DEF DiscardUnmatched, At, files, Passing, Promoting
<1>2. /\ ProcStep(p) /\ proc'[p].pc = "fix_check" /\ proc'[p].cur = proc[p].cur
      /\ proc'[p].todo = proc[p].todo
  BY GotoFacts DEF IInv, DiscardUnmatched
<1>3. PICK i \in DOMAIN log : FirstOf(s, i) /\ log[i].occ = proc[p].cur.occ
  BY <1>1, PassFacts
<1>4. s \in Signals /\ intent[s].occ # proc[p].cur.occ
  BY <1>1, PassFacts DEF IInv, ProcInv
<1> HIDE DEF s
<1>5. /\ intent' = [t \in Signals |-> intent'[t]]
      /\ \A t \in Signals : t # s => intent'[t] = intent[t]
  BY <1>1 DEF Retired, IInv, ShapeInv
<1>6. ASSUME NEW j \in DOMAIN log, Pinned(s, j) PROVE FALSE
  <2>1. j = i
    BY <1>3, <1>6, FirstUnique DEF Pinned, IInv, DataInv, LogInv
  <2> QED
    BY <1>3, <1>4, <1>6, <2>1 DEF IInv, DataInv, PinnedInv
<1>7. DataInv'
  BY <1>1, <1>5, <1>6, IntentsMove DEF IInv
<1>8. outbox' = [t \in Signals |-> outbox'[t]]
  BY <1>1 DEF IInv, ShapeInv
<1>9. proc'[p].pc \in Passing /\ proc'[p].pc \notin {"orphans", "discard", "unmatched", "promote", "enqueue", "retire"}
  BY <1>2 DEF Passing, Promoting
<1> QED
  BY <1>1, <1>2, <1>5, <1>7, <1>8, <1>9, PassGoes

LEMMA FixStageCheckInv ==
  ASSUME IInv, NEW p \in Procs, FixStageCheck(p)
  PROVE  IInv'
<1>1. /\ UNCHANGED <<log, outbox, staged, scans>>
      /\ proc[p].pc = "fix_check" /\ proc[p].pc \in Passing /\ proc[p].pc \in Promoting
  BY DEF FixStageCheck, At, files, Passing, Promoting
<1>2. CASE StageCheck(p, "fix_txn", "promote")
  <2>1. proc[p].cur.sig \in Signals
    BY <1>1, PassFacts
  <2>2. /\ DataInv' /\ intent' = [t \in Signals |-> intent'[t]]
        /\ Goto(p, "fix_txn") \/ (Goto(p, "promote") /\ intent'[proc[p].cur.sig] = None)
    BY <1>1, <1>2, <2>1, StageCheckFacts
  <2>3. PICK x \in {"fix_txn", "promote"} :
          Goto(p, x) /\ (x = "promote" => intent'[proc[p].cur.sig] = None)
    BY <2>2
  <2>4. /\ ProcStep(p) /\ proc'[p].pc = x /\ proc'[p].cur = proc[p].cur
        /\ proc'[p].todo = proc[p].todo
    BY <2>3, GotoFacts DEF IInv
  <2>5. outbox' = [t \in Signals |-> outbox'[t]]
    BY <1>1 DEF IInv, ShapeInv
  <2>6. /\ proc'[p].pc \in Passing
        /\ proc'[p].pc \notin {"orphans", "discard", "unmatched", "enqueue", "retire"}
    BY <2>4 DEF Passing, Promoting
  <2> QED
    BY <1>1, <2>2, <2>3, <2>4, <2>5, <2>6, PassGoes
<1>3. CASE Raise(p) /\ UNCHANGED intent
  BY <1>1, <1>3, PassStops
<1> QED
  BY <1>2, <1>3 DEF FixStageCheck

LEMMA FixStageTxnInv ==
  ASSUME IInv, NEW p \in Procs, FixStageTxn(p)
  PROVE  IInv'
<1>1. /\ UNCHANGED <<log, outbox, staged, scans>>
      /\ proc[p].pc = "fix_txn" /\ proc[p].pc \in Passing /\ proc[p].pc \in Promoting
  BY DEF FixStageTxn, At, files, Passing, Promoting
<1>2. CASE StageTxn(p, "promote")
  <2>1. proc[p].cur.sig \in Signals
    BY <1>1, PassFacts
  <2>2. /\ DataInv' /\ intent' = [t \in Signals |-> intent'[t]]
        /\ Goto(p, "promote")
        /\ intent'[proc[p].cur.sig] # None => intent'[proc[p].cur.sig].occ = proc[p].cur.occ
    BY <1>1, <1>2, <2>1, StageTxnFacts
  <2>3. /\ ProcStep(p) /\ proc'[p].pc = "promote" /\ proc'[p].cur = proc[p].cur
        /\ proc'[p].todo = proc[p].todo
    BY <2>2, GotoFacts DEF IInv
  <2>4. outbox' = [t \in Signals |-> outbox'[t]]
    BY <1>1 DEF IInv, ShapeInv
  <2>5. /\ proc'[p].pc \in Passing
        /\ proc'[p].pc \notin {"orphans", "discard", "unmatched", "enqueue", "retire"}
    BY <2>3 DEF Passing, Promoting
  <2> QED
    BY <1>1, <2>2, <2>3, <2>4, <2>5, PassGoes
<1>3. CASE Raise(p) /\ UNCHANGED intent
  BY <1>1, <1>3, PassStops
<1> QED
  BY <1>2, <1>3 DEF FixStageTxn

LEMMA PromoteInv ==
  ASSUME IInv, NEW p \in Procs, Promote(p)
  PROVE  IInv'
<1> DEFINE t == intent[proc[p].cur.sig]
           x == IF t = None THEN "missing" ELSE "enqueue"
<1>1. /\ UNCHANGED <<log, intent, outbox, staged, scans>>
      /\ proc[p].pc = "promote" /\ proc[p].pc \in Passing /\ proc[p].pc \in Promoting
  BY DEF Promote, At, files, tables, Passing, Promoting
<1>2. t # None => t.occ = proc[p].cur.occ
  BY <1>1 DEF IInv, ProcInv
<1>3. proc' = [proc EXCEPT ![p].pc = x, ![p].got = t]
  BY DEF Promote
<1>4. /\ ProcStep(p) /\ proc'[p].pc = x /\ proc'[p].cur = proc[p].cur
      /\ proc'[p].todo = proc[p].todo /\ proc'[p].got = t
  <2> DEFINE half == [proc EXCEPT ![p].pc = x]
  <2>1. proc' = [half EXCEPT ![p].got = t]
    BY <1>3, Zenon
  <2> HIDE DEF x, t
  <2>2. /\ half = [q \in Procs |-> half[q]] /\ p \in DOMAIN half
        /\ half[p] = [pc |-> x, key |-> proc[p].key, cur |-> proc[p].cur, own |-> proc[p].own,
                      todo |-> proc[p].todo, orphans |-> proc[p].orphans, got |-> proc[p].got]
        /\ \A q \in Procs \ {p} : half[q] = proc[q]
    BY ProcFields DEF IInv, ShapeInv
  <2> HIDE DEF half
  <2>3. /\ proc' = [q \in Procs |-> proc'[q]]
        /\ proc'[p] = [pc |-> x, key |-> proc[p].key, cur |-> proc[p].cur, own |-> proc[p].own,
                       todo |-> proc[p].todo, orphans |-> proc[p].orphans, got |-> t]
        /\ \A q \in Procs \ {p} : proc'[q] = proc[q]
    BY <2>1, <2>2
  <2>4. IsProc(proc'[p]) /\ \A q \in Procs \ {p} : IsProc(proc'[q])
    BY <2>3 DEF IsProc, IInv, ShapeInv
  <2> QED
    BY <2>3, <2>4 DEF ProcStep
<1>5. /\ proc'[p].pc \in Passing
      /\ proc'[p].pc \notin {"orphans", "discard", "unmatched", "promote", "retire"}
      /\ proc'[p].pc = "enqueue" => t # None
  BY <1>4 DEF Passing, Promoting
<1>6. /\ DataInv' /\ intent' = [u \in Signals |-> intent'[u]]
      /\ outbox' = [u \in Signals |-> outbox'[u]]
  BY <1>1, DataStays DEF IInv, ShapeInv
<1>7. t = intent'[proc[p].cur.sig]
  BY <1>1
<1> HIDE DEF t, x
<1> QED
  BY <1>1, <1>2, <1>4, <1>5, <1>6, <1>7, PassGoes

LEMMA PromoteMissingInv ==
  ASSUME IInv, NEW p \in Procs, PromoteMissing(p)
  PROVE  IInv'
<1> DEFINE s == proc[p].cur.sig
<1>1. /\ UNCHANGED <<log, outbox, staged, scans>>
      /\ proc[p].pc = "missing" /\ proc[p].pc \in Passing /\ proc[p].pc \in Promoting
      /\ intent' = IF Owned(s) THEN Retired(s) ELSE intent
  BY DEF PromoteMissing, At, files, Passing, Promoting
<1>2. ProcStep(p) /\ proc'[p].pc = "check" /\ proc'[p].todo = proc[p].todo
  BY GotoFacts DEF IInv, PromoteMissing
<1>3. s \in Signals
  BY <1>1, PassFacts
<1> HIDE DEF s
<1>4. DataInv' /\ intent' = [t \in Signals |-> intent'[t]]
  <2>1. CASE Owned(s)
    BY <1>1, <1>3, <2>1, RetireOwned DEF IInv
  <2>2. CASE ~Owned(s)
    BY <1>1, <2>2, DataStays DEF IInv, ShapeInv
  <2> QED
    BY <2>1, <2>2
<1>5. outbox' = [t \in Signals |-> outbox'[t]]
  BY <1>1 DEF IInv, ShapeInv
<1>6. proc'[p].pc \in Passing /\ proc'[p].pc \notin Promoting
  BY <1>2 DEF Passing, Promoting
<1>7. proc'[p].pc \notin {"orphans", "discard", "unmatched", "promote", "enqueue", "retire"}
  BY <1>2
<1> QED
  BY <1>1, <1>2, <1>4, <1>5, <1>6, <1>7, PassGoes

(* The row that enqueue writes is the first occurrence, with the bytes of   *)
(* its intent: the pinned ones if there are any.                            *)
LEMMA EnqueueData ==
  ASSUME IInv, NEW s \in Signals, NEW t, NEW i \in DOMAIN log, FirstOf(s, i),
         t # None, t = intent[s], t.occ = log[i].occ, outbox[s] \in {None, t},
         outbox' = [outbox EXCEPT ![s] = t], UNCHANGED <<log, intent, staged, scans>>
  PROVE  DataInv' /\ outbox' = [u \in Signals |-> outbox'[u]] /\ outbox'[s] = t
<1>1. /\ outbox' = [u \in Signals |-> outbox'[u]] /\ outbox'[s] = t
      /\ \A u \in Signals : u # s => outbox'[u] = outbox[u]
  BY DEF IInv, ShapeInv
<1>2. LogInv'
  BY DEF IInv, DataInv, LogInv
<1>3. \A u, j : FirstOf(u, j)' <=> FirstOf(u, j)
  BY DEF FirstOf
<1>4. CanonInv'
  <2> SUFFICES ASSUME NEW u \in Signals, outbox'[u] # None
               PROVE  \E j \in DOMAIN log' : FirstOf(u, j)' /\ log'[j].occ = outbox'[u].occ
    BY DEF CanonInv
  <2>1. CASE u = s
    BY <1>1, <1>3, <2>1
  <2>2. CASE u # s
    BY <1>1, <1>3, <2>2 DEF IInv, DataInv, CanonInv
  <2> QED
    BY <2>1, <2>2
<1>5. PinnedInv'
  <2> SUFFICES ASSUME NEW u \in Signals, NEW j \in DOMAIN log, Pinned(u, j)'
               PROVE  Pinned(u, j)
    BY DEF IInv, DataInv, PinnedInv
  <2> QED
    BY <1>1, <1>3 DEF Pinned
<1>6. ExactBytes'
  <2> SUFFICES ASSUME NEW u \in Signals, outbox'[u] # None, staged[outbox'[u].occ] # 0
               PROVE  outbox'[u].key = staged[outbox'[u].occ]
    BY DEF ExactBytes, Owned
  <2>1. CASE u # s \/ outbox[s] = t
    BY <1>1, <2>1 DEF IInv, DataInv, ExactBytes, Owned
  <2>2. CASE u = s /\ outbox[s] = None
    <3>1. Pinned(s, i)
      BY <1>1, <2>2 DEF Pinned
    <3> QED
      BY <1>1, <2>2, <3>1 DEF IInv, DataInv, PinnedInv
  <2> QED
    BY <2>1, <2>2
<1> QED
  BY <1>1, <1>2, <1>4, <1>5, <1>6 DEF DataInv

LEMMA EnqueueFrozenInv ==
  ASSUME IInv, NEW p \in Procs, EnqueueFrozen(p)
  PROVE  IInv'
<1> PICK s, t : s = proc[p].cur.sig /\ t = proc[p].got
  OBVIOUS
<1>1. /\ UNCHANGED <<log, intent, staged, scans>>
      /\ proc[p].pc = "enqueue" /\ proc[p].pc \in Passing /\ proc[p].pc \in Promoting
  BY DEF EnqueueFrozen, At, files, Passing, Promoting
<1>2. CASE /\ outbox[s] \in {None, t} /\ outbox' = [outbox EXCEPT ![s] = t]
           /\ Goto(p, "retire")
  <2>1. PICK i \in DOMAIN log : FirstOf(s, i) /\ log[i].occ = proc[p].cur.occ
    BY <1>1, PassFacts
  <2>2. s \in Signals /\ t = intent[s] /\ t # None /\ t.occ = proc[p].cur.occ
    BY <1>1, PassFacts DEF IInv, ProcInv
  <2>3. DataInv' /\ outbox' = [u \in Signals |-> outbox'[u]] /\ outbox'[s] = t
    BY <1>1, <1>2, <2>1, <2>2, EnqueueData
  <2>4. /\ ProcStep(p) /\ proc'[p].pc = "retire" /\ proc'[p].cur = proc[p].cur
        /\ proc'[p].todo = proc[p].todo
    BY <1>2, GotoFacts DEF IInv
  <2>5. intent' = [u \in Signals |-> intent'[u]]
    BY <1>1 DEF IInv, ShapeInv
  <2>6. /\ proc'[p].pc \in Passing
        /\ proc'[p].pc \notin {"orphans", "discard", "unmatched", "promote", "enqueue"}
    BY <2>4 DEF Passing, Promoting
  <2> QED
    BY <1>1, <2>2, <2>3, <2>4, <2>5, <2>6, PassGoes
<1>3. CASE Raise(p) /\ UNCHANGED outbox
  BY <1>1, <1>3, PassStops
<1> QED
  BY <1>2, <1>3 DEF EnqueueFrozen

LEMMA RetirePromotedInv ==
  ASSUME IInv, NEW p \in Procs, RetirePromoted(p)
  PROVE  IInv'
<1> DEFINE s == proc[p].cur.sig
<1>1. /\ UNCHANGED <<log, outbox, staged, scans>>
      /\ proc[p].pc = "retire" /\ proc[p].pc \in Passing /\ proc[p].pc \in Promoting
      /\ intent' = IF intent[s] = proc[p].got THEN Retired(s) ELSE intent
  BY DEF RetirePromoted, At, files, Passing, Promoting
<1>2. s \in Signals /\ Owned(s)
  BY <1>1, PassFacts DEF IInv, ProcInv, Owned
<1> HIDE DEF s
<1>3. DataInv' /\ intent' = [t \in Signals |-> intent'[t]]
  <2>1. CASE intent' = Retired(s)
    BY <1>1, <1>2, <2>1, RetireOwned DEF IInv
  <2>2. CASE intent' = intent
    BY <1>1, <2>2, DataStays DEF IInv, ShapeInv
  <2> QED
    BY <1>1, <2>1, <2>2
<1>4. ProcStep(p)
  BY DEF RetirePromoted, IInv, ShapeInv, IsProc, ProcStep
<1>5. proc'[p].pc = "check" /\ proc'[p].todo = proc[p].todo
  BY DEF RetirePromoted, IInv, ShapeInv, IsProc
<1>6. outbox' = [t \in Signals |-> outbox'[t]]
  BY <1>1 DEF IInv, ShapeInv
<1>7. proc'[p].pc \in Passing /\ proc'[p].pc \notin Promoting
  BY <1>5 DEF Passing, Promoting
<1>8. proc'[p].pc \notin {"orphans", "discard", "unmatched", "promote", "enqueue", "retire"}
  BY <1>5
<1> QED
  BY <1>1, <1>3, <1>4, <1>5, <1>6, <1>7, <1>8, PassGoes

-----------------------------------------------------------------------------
(* Crashes and restarts *)

LEMMA CrashInv ==
  ASSUME IInv, NEW p \in Procs, Crash(p)
  PROVE  IInv'
<1>1. UNCHANGED <<log, intent, outbox, staged, scans>>
  BY DEF Crash, files, tables
<1>2. ProcStep(p) /\ ProcInv(p)'
  BY StartFacts DEF Crash, IInv
<1>3. ShapeInv'
  BY <1>1, <1>2 DEF IInv, ShapeInv, ProcStep
<1>4. DataInv'
  BY <1>1, DataStays DEF IInv
<1>5. \A q \in Procs \ {p} : At(q, "idle")
  BY Alone DEF Crash
<1> QED
  BY <1>2, <1>3, <1>4, <1>5, OneSteps

(* An idle process that is restarted stays idle, whoever else is not. *)
LEMMA RestartInv ==
  ASSUME IInv, NEW p \in Procs, Restart(p)
  PROVE  IInv'
<1>1. UNCHANGED <<log, intent, outbox, staged, scans>> /\ proc[p].pc = "idle"
  BY DEF Restart, At, files, tables
<1>2. ProcStep(p) /\ proc'[p].pc = "idle"
  BY <1>1 DEF Restart, IInv, ShapeInv, IsProc, ProcStep
<1>3. ShapeInv'
  BY <1>1, <1>2 DEF IInv, ShapeInv, ProcStep
<1>4. DataInv'
  BY <1>1, DataStays DEF IInv
<1>5. \A q \in Procs : proc'[q].pc = proc[q].pc
  BY <1>1, <1>2 DEF ProcStep
<1>6. TurnInv'
  BY <1>5 DEF IInv, TurnInv, At
<1>7. ProcInv(p)'
  BY <1>2 DEF ProcInv, Before, Passing, Promoting
<1>8. ASSUME NEW q \in Procs \ {p} PROVE ProcInv(q)'
  BY <1>1, <1>2 DEF IInv, ProcInv, ProcStep, FirstOf, Committed
<1> QED
  BY <1>3, <1>4, <1>6, <1>7, <1>8 DEF IInv

(* Nothing the invariant speaks of changes. *)
LEMMA IdleInv ==
  ASSUME IInv, UNCHANGED <<log, intent, outbox, proc, staged, scans>>
  PROVE  IInv'
<1>1. ShapeInv' /\ TurnInv' /\ DataInv'
  BY DataStays DEF IInv, ShapeInv, TurnInv, At
<1>2. \A p \in Procs : ProcInv(p)'
  BY DEF IInv, ProcInv, FirstOf, Committed
<1> QED
  BY <1>1, <1>2 DEF IInv

LEMMA NextInv ==
  ASSUME TakeTurns, IInv, [Next]_vars
  PROVE  IInv'
<1>1. ASSUME NEW p \in Procs, Reconcile(p) PROVE IInv'
  BY <1>1, ReadLogInv, SelectOrphansInv, DeleteOrphansInv, CheckSignalInv, GetIntentInv,
     DiscardUnmatchedInv, FixStageCheckInv, FixStageTxnInv, PromoteInv, PromoteMissingInv,
     EnqueueFrozenInv, RetirePromotedInv DEF Reconcile
<1>2. ASSUME NEW p \in Producers, ProducerStep(p) PROVE IInv'
  BY <1>1, <1>2, PreStageCheckInv, PreStageTxnInv, AppendSignalInv, AppendFailsInv
     DEF ProducerStep, Procs
<1>3. ASSUME NEW p \in Producers, NEW s \in Signals, Scan(p, s) PROVE IInv'
  BY <1>3, ScanInv DEF Procs
<1>4. ASSUME NEW p \in Reconcilers, ReconcilerStep(p) PROVE IInv'
  BY <1>1, <1>4, StartPassInv DEF ReconcilerStep, Procs
<1>5. ASSUME NEW p \in Procs, Crash(p) \/ Restart(p) PROVE IInv'
  BY <1>5, CrashInv, RestartInv
<1>6. CASE RotateKey \/ UNCHANGED vars
  BY <1>6, IdleInv DEF RotateKey, vars, files, tables
<1> QED
  BY <1>2, <1>3, <1>4, <1>5, <1>6 DEF Next

-----------------------------------------------------------------------------
(* The outbox holds only the first durable occurrence of a signal, wherever *)
(* a process dies or fails between staging, append and promotion            *)
(* (reconcile_signal_log, PipIntentStore), when scans and passes take       *)
(* turns.                                                                   *)
THEOREM CanonicalRowHolds ==
  ASSUME TakeTurns PROVE Spec => []CanonicalRow
<1>1. IInv => CanonicalRow
  <2> SUFFICES ASSUME IInv, NEW s \in Signals, Owned(s)
               PROVE  Committed(s) /\ outbox[s].occ = FirstOcc(s)
    BY DEF CanonicalRow
  <2>1. PICK i \in DOMAIN log : FirstOf(s, i) /\ log[i].occ = outbox[s].occ
    BY DEF IInv, DataInv, CanonInv, Owned
  <2> QED
    BY <2>1, FirstOccIs DEF IInv, DataInv, LogInv
<1>2. IInv /\ [Next]_vars => IInv'
  BY NextInv
<1> QED
  BY <1>1, <1>2, InitInv, PTL DEF Spec

(* An occurrence whose envelope was staged when it was appended is          *)
(* published with those bytes, whatever key is configured by then           *)
(* (PipIntentStore.promote), when scans and passes take turns.              *)
THEOREM ExactBytesHolds ==
  ASSUME TakeTurns PROVE Spec => []ExactBytes
<1>1. IInv => ExactBytes
  BY DEF IInv, DataInv
<1>2. IInv /\ [Next]_vars => IInv'
  BY NextInv
<1> QED
  BY <1>1, <1>2, InitInv, PTL DEF Spec

(* discard_orphans deletes only intents whose signal the log does not have, *)
(* when scans and passes take turns.                                        *)
THEOREM OrphansAreUncommittedHolds ==
  ASSUME TakeTurns PROVE Spec => OrphansAreUncommitted
<1> DEFINE A == \A p \in Procs : At(p, "discard") /\ intent' # intent
                  => \A s \in proc[p].orphans : ~Committed(s)
<1>1. IInv => A
  BY DEF IInv, ProcInv, At
<1>2. IInv /\ [Next]_vars => IInv'
  BY NextInv
<1> QED
  BY <1>1, <1>2, InitInv, PTL DEF Spec, OrphansAreUncommitted

=============================================================================
