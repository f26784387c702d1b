---------------------------- MODULE MCResolution ----------------------------
(***************************************************************************)
(* TLC instance of Resolution: binary markets, Unit is 2.  i2 buys the     *)
(* other outcome of the market of i1; i3 and i4 buy other markets, whose   *)
(* scan metadata does not say which source they resolve by.  Operators     *)
(* have observations for the day of i3's market only.                      *)
(***************************************************************************)
EXTENDS Resolution, TLC
CONSTANTS i1, i2, i3, i4, m1, m2, m3, yes, no, u1, d1, d2

Market(i) == IF i \in {i1, i2} THEN m1 ELSE IF i = i3 THEN m2 ELSE m3
MCTerms ==
  [i \in Intents |-> [side |-> "buy", key |-> <<Market(i), IF i = i2 THEN no ELSE yes>>,
                      quantity |-> 2, limit |-> 1, fee |-> 0]]
MCDecision == [i \in Intents |-> i]
MCContext ==
  [i \in Intents |-> [identity |-> Market(i), day |-> IF i = i3 THEN d1 ELSE d2,
                      source |-> IF i \in {i1, i2} THEN u1 ELSE None]]
MCIdentity == [m \in Markets |-> m]

Win == yes :> 2 @@ no :> 0
MCPayouts == {Win, yes :> 1 @@ no :> 1}

Unchanging == [phase |-> "final", prices |-> Win, declared |-> u1]
OpenMarket(s) == [phase |-> "open", prices |-> None, declared |-> s]
Only(S, intents) ==
  [S EXCEPT !.claims = [i \in Intents |-> IF i \in intents THEN @[i] ELSE [@[i] EXCEPT !.status = "completed"]]]
Said == [payout |-> Win, declared |-> u1]
SettledStore ==
  Appended(BoughtIn(InitialStore, i3),
           <<EvidenceOf(m2, Said, 0), ResolvedBy(m2, Said, 0), SettledBy(<<m2, yes>>, <<"answer", Said>>, 0)>>)

(* Three states the program can be in: one market is left to trade on, from *)
(* both sides; a position is open in a market that is closed and not yet    *)
(* final, and another market, final, is left to trade on; the last position *)
(* is settled and its market has not been observed.                         *)
MCInit ==
  /\ \/ /\ store = Only(InitialStore, {i1, i2})
        /\ \E s \in Sources : source = [m \in Markets |-> IF m = m1 THEN OpenMarket(s) ELSE Unchanging]
     \/ /\ store = Only(BoughtIn(InitialStore, i1), {i1, i4})
        /\ source = [m \in Markets |-> IF m = m1 THEN [OpenMarket(u1) EXCEPT !.phase = "closed"] ELSE Unchanging]
     \/ /\ store = Only(SettledStore, {i3})
        /\ source = [m \in Markets |-> Unchanging]
  /\ observations = [m \in Markets |-> <<>>]
  /\ Start

MCSpec == MCInit /\ [][Next]_vars /\ Fairness
=============================================================================
