----------------------------- MODULE MCRecords ------------------------------
(***************************************************************************)
(* TLC instance of two programs that share no state and keep records: the  *)
(* ledger, with two buys and a sell on one outcome of one market, and the  *)
(* historical sweep of two days.  In each behaviour one of them runs and   *)
(* the other one stays where it starts.  The ledger may get no more events. *)
(* Unit is 2, so that a product of a price and a quantity may end in half a *)
(* quantum: two fills of 3 at 1 cost 2 + 2 quanta, a reservation for 6 is 3. *)
(***************************************************************************)
EXTENDS Ledger, CalibrationSweep, TLC
CONSTANTS buy1, buy2, sell, m1, yes

VARIABLE program

MCTerms ==
     buy1 :> [side |-> "buy", key |-> <<m1, yes>>, quantity |-> 6, limit |-> 1, fee |-> 1]
  @@ buy2 :> [side |-> "buy", key |-> <<m1, yes>>, quantity |-> 2, limit |-> 2, fee |-> 0]
  @@ sell :> [side |-> "sell", key |-> <<m1, yes>>, quantity |-> 2, limit |-> 1, fee |-> 0]

MCPayouts == {yes :> 0, yes :> 2}

MCFills ==
  {[id |-> 1, quantity |-> 3, price |-> 1, fee |-> 0],
   [id |-> 1, quantity |-> 1, price |-> 1, fee |-> 1],
   [id |-> 2, quantity |-> 1, price |-> 2, fee |-> 0],
   [id |-> 3, quantity |-> 2, price |-> 1, fee |-> 1]}

MCInit ==
  /\ \/ program = "ledger" /\ unavailable = {}
     \/ program = "sweep"
  /\ Init /\ SweepInit

MCNext ==
  /\ UNCHANGED program
  /\ \/ program = "ledger" /\ (Next \/ UNCHANGED vars) /\ UNCHANGED sweepVars
     \/ program = "sweep" /\ SweepNext /\ UNCHANGED vars

(* The fairness of the sweep. *)
Progress == program = "sweep" /\ Step /\ UNCHANGED <<vars, program>>

allVars == <<vars, sweepVars, program>>
MCSpec == MCInit /\ [][MCNext]_allVars /\ WF_allVars(Progress)
=============================================================================
