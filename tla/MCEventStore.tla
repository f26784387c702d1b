---------------------------- MODULE MCEventStore ----------------------------
(* TLC instance of EventStore: two intents sized for the same decision, a    *)
(* backend that acknowledges and fills, or answers nothing.                  *)
EXTENDS EventStore, TLC
CONSTANTS i1, i2, m1, yes, d1

MCTerms == [i \in Intents |-> [side |-> "buy", key |-> <<m1, yes>>, quantity |-> 1, limit |-> 1, fee |-> 0]]
MCDecision == [i \in Intents |-> d1]

Sent(i) == Moved("submitted", i, 0)
Gone(i, at) == Moved("cancelled", i, at)

MCReports ==
  [x \in Intents \X OrderStates |->
     CASE x[2] = "created" -> {<<Sent(x[1]), Gone(x[1], 1)>>}
       [] x[2] = "submitted" -> {<<Gone(x[1], 2)>>}
       [] OTHER -> {<<>>}]

Perms == Permutations(Processes) \cup Permutations(Intents)
=============================================================================
