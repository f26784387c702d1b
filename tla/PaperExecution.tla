--------------------------- MODULE PaperExecution ---------------------------
(***************************************************************************)
(* One paper entry from a probability to a fill: the quote of a budget     *)
(* (markets/orderbook.py, quoting/evaluator.py), the downward-only sizing  *)
(* (risk/sizing.py), the intent (paper/service.py) and the plan of its     *)
(* execution (paper/execution.py), which the ledger has to accept.         *)
(*                                                                         *)
(* Money and quantities are counted in quanta, Unit of them to one; prices *)
(* and rates in 1/Unit.  Where the code keeps a Decimal that is not        *)
(* quantized, the value is counted in 1/Precision of that (Fine), and      *)
(* next_minus takes one such step off.  A book is a sequence of asks, best *)
(* first.  The inputs are fresh: staleness is a guard of the same data.    *)
(***************************************************************************)
EXTENDS Integers, Sequences, SequencesExt, Optional

CONSTANTS
  Unit, Precision,
  Books,           \* order books the market may show
  Cash,            \* available cash
  Probabilities,
  Costs,           \* CostPolicy
  Sizing,          \* SizingPolicy: [multiplier, perTrade, iterations]
  MinimumSize

\* OrderLevel: a price is between zero and one.
Levels == [price : 1 .. (Unit - 1), size : Nat \ {0}]

ASSUME ScaleAssumption ==
  /\ Unit \in Nat \ {0} /\ Precision \in Nat \ {0} /\ Precision % Unit = 0
  /\ MinimumSize \in Nat \ {0}
\* OrderBookSnapshot: a book has asks, sorted, no two at one price.
ASSUME InputAssumption ==
  /\ Cash \subseteq Nat /\ Probabilities \subseteq 1 .. (Unit - 1)
  /\ Books \subseteq Seq(Levels) \ {<<>>}
  /\ \A book \in Books : \A m, n \in DOMAIN book : m < n => book[m].price < book[n].price
ASSUME CostAssumption ==
  /\ {Costs.fee, Costs.fixed, Costs.margin, Costs.return, Costs.average, Costs.worst} \subseteq Nat
  /\ Costs.average <= Costs.worst /\ Costs.maximum \in 1 .. (Unit - 1)
  /\ Costs.depth \in {"reject", "reduce"}
ASSUME SizingAssumption ==
  /\ Sizing.multiplier \in 1 .. Unit /\ Sizing.perTrade \in Nat \ {0} /\ Sizing.iterations \in Nat \ {0}

VARIABLES
  given,      \* the decision book, the execution book, the cash, the probability
  stage, budget, iteration, quote, intent, plan

entryVars == <<given, stage, budget, iteration, quote, intent, plan>>

Least(a, b) == IF a < b THEN a ELSE b
Greatest(a, b) == IF a < b THEN b ELSE a
HalfEven(n, d) ==
  LET q == n \div d  r == n % d IN
  IF 2 * r < d \/ (2 * r = d /\ q % 2 = 0) THEN q ELSE q + 1
Value(price, quantity) == HalfEven(price * quantity, Unit)

(* Mutant: neither the fee nor the safety margin is reserved. *)
BareMultiplier == Unit
Multiplier == Unit + Costs.fee + Costs.margin

(* The cost of a whole level, Fine. *)
LevelCost(level) == level.size * level.price * (Precision \div Unit)
Notional(book) == FoldSeq(LAMBDA level, sum : sum + LevelCost(level), 0, book)

-----------------------------------------------------------------------------
(* OrderBookSnapshot.quote_buy_budget: shares, cost and average are Fine. *)
Spend(r, level) ==
  IF r.left = 0 THEN r
  ELSE IF r.left >= LevelCost(level)
  THEN [shares |-> r.shares + level.size * Precision, cost |-> r.cost + LevelCost(level),
        left |-> r.left - LevelCost(level), worst |-> level.price]
  ELSE [shares |-> r.shares + HalfEven(r.left * Unit, level.price), cost |-> r.cost + r.left,
        left |-> 0, worst |-> level.price]
Spent(book, money) == FoldLeft(Spend, [shares |-> 0, cost |-> 0, left |-> money, worst |-> 0], book)
QuoteBuyBudget(book, money) ==
  LET r == Spent(book, money)
  IN [shares |-> r.shares, cost |-> r.cost, worst |-> r.worst, left |-> r.left,
      average |-> Greatest(HalfEven(r.cost * Unit * Precision, r.shares), book[1].price * Precision)]

(* evaluate_executable_buy of a fresh book: an accepted quote, or why not. *)
Rejected(reason) == [reason |-> reason]
Evaluate(book, probability, money) ==
  LET limit == HalfEven((money - Costs.fixed) * Precision * Unit, Multiplier) - 1
      q == QuoteBuyBudget(book, Least(limit, Notional(book)))
      total == HalfEven(q.cost * Multiplier, Unit) + Costs.fixed * Precision
      allIn == HalfEven(total * Unit * Precision, q.shares)
  IN
  IF money <= Costs.fixed THEN Rejected("below_minimum")
  ELSE IF Notional(book) < limit /\ Costs.depth = "reject" THEN Rejected("insufficient_depth")
  ELSE IF q.shares < MinimumSize * Precision THEN Rejected("below_minimum")
  ELSE IF \/ q.average - book[1].price * Precision > Costs.average * Precision
          \/ q.worst - book[1].price > Costs.worst THEN Rejected("slippage")
  ELSE IF total > money * Precision THEN Rejected("invalid_input")
  ELSE IF allIn >= Costs.maximum * Precision THEN Rejected("price_exceeded")
  ELSE IF probability * Precision <= q.average THEN Rejected("no_edge")
  ELSE IF probability * Precision <= allIn THEN Rejected("fee_erased")
  ELSE IF (probability * q.shares - total * Unit) * Unit < Costs.return * total * Unit THEN Rejected("low_return")
  ELSE [reason |-> "accepted", shares |-> q.shares, average |-> q.average, allIn |-> allIn,
        total |-> total, requested |-> money, reduced |-> q.cost < limit]

(* _kelly and _cash_from_kelly, floored to money; the price is Fine. *)
KellyCash(cash, probability, price) ==
  LET uncapped == (cash * Sizing.multiplier * (probability * Precision - price))
                    \div (Unit * (Unit * Precision - price))
  IN Least(Least(cash, Sizing.perTrade), uncapped)

(* _slippage_limited_requested_budget, floored to money: how much of each  *)
(* level keeps within the worst and the average price above the best.      *)
TakeWithin(best, r, level) ==
  LET cap == best + Costs.average
      headroom == cap * r.shares - r.cost * Unit
      take == IF level.price <= cap THEN level.size * Precision
              ELSE Least(level.size * Precision, HalfEven(headroom, level.price - cap) - 1)
  IN IF r.done \/ level.price > best + Costs.worst \/ take <= 0
        \/ (level.price > cap /\ headroom <= 0)
     THEN [r EXCEPT !.done = TRUE]
     ELSE [shares |-> r.shares + take, cost |-> r.cost + HalfEven(take * level.price, Unit),
           done |-> take < level.size * Precision \/ level.price > cap]
TakenWithin(book) ==
  FoldLeft(LAMBDA r, level : TakeWithin(book[1].price, r, level),
           [shares |-> 0, cost |-> 0, done |-> FALSE], book)
SlippageBudget(book) ==
  LET r == TakenWithin(book)
  IN IF r.shares < MinimumSize * Precision THEN 0
     ELSE (HalfEven(r.cost * Multiplier, Unit) + Costs.fixed * Precision) \div Precision

-----------------------------------------------------------------------------
Inputs == [decision : Books, execution : Books, cash : Cash, probability : Probabilities]

EntryInit ==
  /\ given \in Inputs
  /\ stage = "seed" /\ budget = 0 /\ iteration = 0
  /\ quote = None /\ intent = None /\ plan = None

Finish(outcome) == stage' = outcome /\ UNCHANGED <<given, budget, iteration, quote, intent, plan>>

(* size_executable_buy before its loop. *)
Seed ==
  LET best == given.decision[1].price
      target == KellyCash(given.cash, given.probability, best * Precision) IN
  /\ stage = "seed"
  /\ \/ (given.cash = 0 \/ given.probability <= best \/ target = 0) /\ Finish("rejected")
     \/ /\ given.cash > 0 /\ given.probability > best /\ target > 0
        /\ stage' = "size" /\ budget' = target
        /\ UNCHANGED <<given, iteration, quote, intent, plan>>

Iterate(next, money, q) ==
  /\ stage' = next /\ budget' = money /\ iteration' = iteration + 1 /\ quote' = q
  /\ UNCHANGED <<given, intent, plan>>

(* Mutant: Kelly is not taken again at the price that the quote gives. *)
BudgetAsSeeded(q) == IF q.reduced THEN q.total \div Precision ELSE budget

(* What an accepted quote would be sized at. *)
CandidateBudget(q) ==
  LET kelly == KellyCash(given.cash, given.probability, q.allIn) IN
  IF q.reduced THEN Least(q.total \div Precision, kelly) ELSE kelly

MayIterate == iteration < Sizing.iterations

(* One iteration of the loop. *)
SizeOnce ==
  LET q == Evaluate(given.decision, given.probability, budget) IN
  /\ stage = "size" /\ MayIterate
  /\ \/ /\ q.reason = "slippage"
        /\ LET limited == SlippageBudget(given.decision) IN
           IF limited > 0 /\ limited < budget THEN Iterate("size", limited, None)
           ELSE Iterate("rejected", budget, None)
     \/ /\ q.reason \notin {"slippage", "accepted"} /\ Iterate("rejected", budget, None)
     \/ /\ q.reason = "accepted"
        /\ IF CandidateBudget(q) = 0 THEN Iterate("rejected", budget, None)
           ELSE IF CandidateBudget(q) < budget THEN Iterate("size", CandidateBudget(q), None)
           ELSE Iterate("sized", budget, q)

NonConvergent == stage = "size" /\ iteration = Sizing.iterations /\ Finish("rejected")

(* _intent_from_sizing *)
FeeReserve(quantity, limit) == budget - Value(limit, quantity)
CreateIntent ==
  LET quantity == HalfEven(quote.shares, Precision)
      limit == HalfEven(quote.average, Precision)
  IN /\ stage = "sized"
     /\ intent' = [quantity |-> quantity, limit |-> limit, fee |-> FeeReserve(quantity, limit)]
     /\ stage' = IF FeeReserve(quantity, limit) < 0 THEN "raised" ELSE "planned"
     /\ UNCHANGED <<given, budget, iteration, quote, plan>>

-----------------------------------------------------------------------------
Reservation == Value(intent.limit, intent.quantity) + intent.fee
Fee(gross) == HalfEven(gross * Costs.fee, Unit) + Costs.fixed
MaximumGross == HalfEven((Reservation - Costs.fixed) * Precision * Unit, Unit + Costs.fee) - Precision

(* Mutant: a level above the cap is taken as far as the cash goes. *)
BuyLevelsByCash(book) ==
  FoldLeft(LAMBDA r, level :
             LET take == Least(Least(intent.quantity - r.filled, level.size),
                               (MaximumGross * Unit - r.cost * Precision) \div (level.price * Precision)) IN
             IF r.done \/ take <= 0 THEN [r EXCEPT !.done = TRUE]
             ELSE [filled |-> r.filled + take, cost |-> r.cost + take * level.price, done |-> FALSE],
           [filled |-> 0, cost |-> 0, done |-> FALSE], book)

(* _buy_levels: what is taken, and its cost in 1/Unit of a quantum. *)
BuyLevel(best, r, level) ==
  LET cap == Least(intent.limit, best + Costs.average)
      byCash == (MaximumGross * Unit - r.cost * Precision) \div (level.price * Precision)
      byAverage == IF level.price <= cap THEN level.size
                   ELSE (cap * r.filled - r.cost) \div (level.price - cap)
      take == Least(Least(intent.quantity - r.filled, level.size), Least(byCash, byAverage))
  IN IF r.done \/ level.price > best + Costs.worst \/ take <= 0
     THEN [r EXCEPT !.done = TRUE]
     ELSE [filled |-> r.filled + take, cost |-> r.cost + take * level.price, done |-> take < level.size]
BuyLevels(book) ==
  FoldLeft(LAMBDA r, level : BuyLevel(book[1].price, r, level),
           [filled |-> 0, cost |-> 0, done |-> FALSE], book)

(* build_paper_execution_plan *)
BuildPlan ==
  LET r == BuyLevels(given.execution)
      average == HalfEven(r.cost, r.filled)
      gross == Value(average, r.filled)
  IN /\ stage = "planned"
     /\ \/ /\ intent.quantity < MinimumSize \/ r.filled < MinimumSize
           /\ Finish("rejected")
        \/ /\ intent.quantity >= MinimumSize /\ r.filled >= MinimumSize
           /\ IF average > intent.limit \/ gross + Fee(gross) > Reservation
              THEN Finish("rejected")
              ELSE /\ plan' = [quantity |-> r.filled, price |-> average, fee |-> Fee(gross)]
                   /\ stage' = "filled"
                   /\ UNCHANGED <<given, budget, iteration, quote, intent>>

EntryDone == stage \in {"filled", "rejected", "raised"} /\ UNCHANGED entryVars

EntryNext == Seed \/ SizeOnce \/ NonConvergent \/ CreateIntent \/ BuildPlan \/ EntryDone

EntrySpec == EntryInit /\ [][EntryNext]_entryVars

-----------------------------------------------------------------------------
(* What is approved is within the caps and the quote it was approved on,    *)
(* and at the price that quote gives, fees included, the Kelly stake of the *)
(* model is not smaller: a reduction does not leave an oversized trade.     *)
SizedSoundly ==
  stage \in {"sized", "planned", "filled"} =>
    /\ budget <= Sizing.perTrade /\ budget <= quote.requested
    /\ quote.total <= budget * Precision
    /\ budget <= KellyCash(given.cash, given.probability, quote.allIn)
    /\ quote.allIn < given.probability * Precision

(* The plan takes from the book what any quantity may take: no larger       *)
(* quantity of the best asks keeps within the cash, the average and the     *)
(* worst price that the order and the policy allow.                         *)
Cover(r, level) ==
  LET take == Least(r.left, level.size) IN
  [left |-> r.left - take, cost |-> r.cost + take * level.price,
   worst |-> IF take > 0 THEN level.price ELSE r.worst]
CostOf(book, quantity) == FoldLeft(Cover, [left |-> quantity, cost |-> 0, worst |-> 0], book)
Admissible(book, quantity) ==
  LET r == CostOf(book, quantity)
      cap == Least(intent.limit, book[1].price + Costs.average) IN
  /\ r.left = 0 /\ r.worst <= book[1].price + Costs.worst
  /\ r.cost <= cap * quantity
  /\ r.cost * Precision <= MaximumGross * Unit
PlanIsLargest ==
  stage \in {"filled"} =>
    \A quantity \in 1 .. intent.quantity :
       Admissible(given.execution, quantity) <=> quantity <= plan.quantity

(* What the safety margin has to pay for: at the lowest price, the parts of *)
(* a quantum by which the price, the size, the fee and the reservation are  *)
(* rounded, of an order of one share or more.                               *)
Suffices(unit, fee, margin, price) == 6 * (unit + fee) <= margin * (2 * price - 1)
MarginSuffices ==
  /\ MinimumSize >= Unit
  /\ \A book \in Books : Suffices(Unit, Costs.fee, Costs.margin, book[1].price)

(* An approved size becomes an intent, and a plan that was made is a fill   *)
(* that the ledger accepts (what _apply_buy_fill asks of the first fill of  *)
(* an order).                                                               *)
PlanAppliable ==
  /\ stage # "raised"
  /\ stage = "filled" =>
       /\ plan.price <= intent.limit
       /\ plan.fee <= intent.fee
       /\ Value(intent.limit, intent.quantity - plan.quantity) + intent.fee - plan.fee <= Reservation
=============================================================================
