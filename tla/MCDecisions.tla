---------------------------- MODULE MCDecisions -----------------------------
(***************************************************************************)
(* TLC instance of four programs that share no state, on the way from a    *)
(* forecast to a decision: the producer's loop on one city whose day has   *)
(* six ticks, a paper entry (books of one, two or three asks), the markets *)
(* of an event, and an experiment of three cases on positions of two       *)
(* markets.  In each behaviour one of them runs, on any input, and the     *)
(* others stay where they start, on some input.                            *)
(***************************************************************************)
EXTENDS Producer, PaperExecution, TemperatureMarkets, Experiment, TLC

CONSTANTS c1, Prices, Sizes, Fees, Margin, k1, k2

VARIABLE program

MCOffset == c1 :> 0

Asks(prices) == {[n \in 1 .. Len(prices) |-> [price |-> prices[n], size |-> sizes[n]]] :
                   sizes \in [1 .. Len(prices) -> Sizes]}
Rising == {<<p>> : p \in Prices} \cup {s \in Prices \X Prices : s[1] < s[2]}
          \cup {s \in Prices \X Prices \X Prices : s[1] < s[2] /\ s[2] < s[3]}
MCBooks == UNION {Asks(prices) : prices \in Rising}
MCCosts == [fee |-> Fees, fixed |-> 0, margin |-> Margin, average |-> 1, worst |-> 2, maximum |-> 9,
            return |-> 0, depth |-> "reduce"]
MCSizing == [multiplier |-> 8, perTrade |-> 12, iterations |-> 2]

\* The default configuration (platform_fee_reserve_rate 0.01,
\* execution_safety_margin_rate 0.02) at a price of one tick, in millionths.
ASSUME ShippedMarginSuffices == Suffices(1000000, 10000, 20000, 1000)

MCBounds == -1 .. 2
MCHalves == -6 .. 7

\* The case_ids in the order of the cases, and another order.
TwoOrders == {<<1, 2, 3>>, <<3, 1, 2>>}

TwoMarkets == k1 :> "m1" @@ k2 :> "m2"

SomeInput == CHOOSE i \in Inputs : TRUE
SomeEvidence ==
  [c \in Cases |-> [decision |-> 1, settlement |-> None, key |-> k1, entry |-> "unavailable"]]

MCInit ==
  /\ program \in {"producer", "entry", "event", "experiment"}
  /\ program # "entry" => given = SomeInput
  /\ program # "experiment" => id = <<1, 2, 3>> /\ evidence = SomeEvidence
  /\ Init /\ EntryInit /\ EventInit /\ ReplayInit

MCNext ==
  /\ UNCHANGED program
  /\ \/ program = "producer" /\ Next /\ UNCHANGED <<entryVars, eventVars, replayVars>>
     \/ program = "entry" /\ EntryNext /\ UNCHANGED <<vars, eventVars, replayVars>>
     \/ program = "event" /\ EventNext /\ UNCHANGED <<vars, entryVars, replayVars>>
     \/ program = "experiment" /\ ReplayNext /\ UNCHANGED <<vars, entryVars, eventVars>>

(* The fairness of the producer. *)
Progress ==
  /\ program = "producer" /\ (ScanStep \/ Stop)
  /\ UNCHANGED <<entryVars, eventVars, replayVars, program>>

allVars == <<vars, entryVars, eventVars, replayVars, program>>
MCSpec == MCInit /\ [][MCNext]_allVars /\ WF_allVars(Progress)
=============================================================================
