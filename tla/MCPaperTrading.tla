--------------------------- MODULE MCPaperTrading ---------------------------
(* TLC instance of PaperTrading: two decisions of one city and date, whose   *)
(* caps admit one of them, and an intent without a plan; and, for            *)
(* PlansCanFinish, two orders a1 and a2 of one position.  Unit is 2.         *)
EXTENDS PaperTrading, TLC
CONSTANTS a1, a2, b1, old, da, db, dold, ma, mb, mold, yes

Market(i) == IF i \in {a1, a2} THEN ma ELSE IF i = b1 THEN mb ELSE mold
MCTerms ==
  [i \in Intents |-> [side |-> "buy", key |-> <<Market(i), yes>>,
                      quantity |-> IF i = a2 THEN 2 ELSE 4, limit |-> 1, fee |-> 1]]
MCDecision == [i \in Intents |-> IF i = a1 THEN da ELSE IF i \in {a2, b1} THEN db ELSE dold]
MCScopes ==
  [k \in Keys |-> [event |-> IF k[1] = mb THEN "e2" ELSE "e1", cityDate |-> "c", groups |-> {"date"}]]

FillOf(quantity, fee) == [id |-> 1, quantity |-> quantity, price |-> 1, fee |-> fee]
Full(i, fee) == [status |-> "full_fill", fill |-> FillOf(Terms[i].quantity, fee)]
Partial(i) == [status |-> "partial_fill", fill |-> FillOf(1, 1)]
Refused == [status |-> "rejected", fill |-> None]
MCPlans ==
  [i \in Intents |-> IF i \in {a2, b1} THEN {Full(i, 1), Refused} ELSE {Full(i, 1), Partial(i)}]

(* Two states the program can be in: the legacy order was cancelled after a *)
(* crash and both decisions are open; or the second one has been rejected   *)
(* and the legacy order is still there.                                     *)
Rejected == [NoClaim EXCEPT !.status = "completed"]
MCInit ==
  /\ pc = [p \in Processes |-> "idle"] /\ work = [p \in Processes |-> Idle]
  /\ \/ /\ store = Appended(InitialStore, <<Moved("cancelled", old, 0)>>)
        /\ now = MaxTime /\ crashes = MaxCrashes
     \/ /\ store = [InitialStore EXCEPT !.claims[db] = Rejected]
        /\ now = 0 /\ crashes = 0
MCSpec == MCInit /\ [][Next]_vars /\ Fairness

MCPayouts == {yes :> 0, yes :> 2}
MCLoss == {yes :> 0}
MCPolicy == [total |-> 4, event |-> 4, cityDate |-> 4, group |-> 4, positions |-> 2,
             dailyLoss |-> 3, drawdown |-> 4, age |-> 1, tolerance |-> 1]
=============================================================================
