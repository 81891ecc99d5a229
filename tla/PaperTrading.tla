---------------------------- MODULE PaperTrading ----------------------------
(***************************************************************************)
(* A StrategyRunner trading through the MockBrokerProvider, which fills    *)
(* market orders at once at a fixed price.  Everything runs on the thread  *)
(* of the caller, so a call is one step.  A call that raises (strategy not *)
(* running, broker disconnected, limit order, insufficient cash, position  *)
(* too small, order not pending) raises before it assigns anything, so it  *)
(* is no step.                                                             *)
(*                                                                         *)
(* Quantities and money are integers where the code has Decimals, which    *)
(* are exact up to 28 significant digits: what is said of sums holds of    *)
(* amounts that stay within them.  Order identifiers, drawn by uuid4, are  *)
(* indices into the order book.                                            *)
(***************************************************************************)
EXTENDS Integers, Sequences, Functions

CONSTANTS
    Symbol,
    Quantity,       \* quantities a signal or an order may carry
    MarketPrice,    \* MARKET_PRICE
    StartingCash,   \* STARTING_CASH
    MaxOrders       \* bound on the orders placed

ASSUME AmountAssumption ==
    /\ Quantity \subseteq Nat \ {0}
    /\ MarketPrice \in Nat \ {0}
    /\ StartingCash \in Nat

VARIABLES
    status,         \* the strategy's: "stopped" or "running"
    connected,      \* _connected
    orders,         \* _orders, by identifier
    executions,     \* _executions
    positions,      \* _positions: a function on the symbols held
    account         \* _account

vars == <<status, connected, orders, executions, positions, account>>

Flat == [x \in {} |-> 0]    \* no positions

Init ==
    /\ status = "stopped"
    /\ connected = FALSE
    /\ orders = << >>
    /\ executions = << >>
    /\ positions = Flat
    /\ account = [cash |-> StartingCash, equity |-> StartingCash,
                  buyingPower |-> StartingCash, positions |-> Flat]

-----------------------------------------------------------------------------
Held(x)     == IF x \in DOMAIN positions THEN positions[x].quantity ELSE 0
CostOf(x)   == IF x \in DOMAIN positions
               THEN positions[x].quantity * positions[x].average ELSE 0
With(x, p)  == [y \in DOMAIN positions \cup {x} |->
                   IF y = x THEN p ELSE positions[y]]
Without(x)  == [y \in DOMAIN positions \ {x} |-> positions[y]]

\* _apply_fill: the checks, the position and the cash of a buy and of a sell.
NeverBroke(x, q) == TRUE                    \* mutant: cash not checked
Affordable(x, q) == q * MarketPrice <= account.cash

AveragedPosition(x, q) ==                   \* mutant: averages not weighted
    [quantity |-> Held(x) + q, average |-> (CostOf(x) + MarketPrice) \div 2]
BoughtPosition(x, q) ==
    LET quantity == Held(x) + q
    IN  [quantity |-> quantity,
         average  |-> (CostOf(x) + q * MarketPrice) \div quantity]

Sellable(x, q) == x \in DOMAIN positions /\ q <= positions[x].quantity

EmptyPositionKept(x, q) ==                  \* mutant: position not deleted
    With(x, [positions[x] EXCEPT !.quantity = @ - q])
PositionsAfterSale(x, q) ==
    IF q = positions[x].quantity
    THEN Without(x)
    ELSE With(x, [positions[x] EXCEPT !.quantity = @ - q])

ProceedsDropped(side, q) ==                 \* mutant: a sale pays nothing
    IF side = "buy" THEN account.cash - q * MarketPrice ELSE account.cash
CashAfter(side, q) ==
    IF side = "buy" THEN account.cash - q * MarketPrice
                    ELSE account.cash + q * MarketPrice

\* _refresh_account, on the cash and positions of the fill.
MarketValue(held) ==
    SumFunction([x \in DOMAIN held |-> held[x].quantity * MarketPrice])

Refreshed(cash, held) ==
    [cash |-> cash, equity |-> cash + MarketValue(held),
     buyingPower |-> cash, positions |-> held]

\* place_order of a market order: fill, record, refresh.
PlaceOrder(x, side, q) ==
    /\ Len(orders) < MaxOrders
    /\ connected
    /\ \/ /\ side = "buy"
          /\ Affordable(x, q)
          /\ positions' = With(x, BoughtPosition(x, q))
       \/ /\ side = "sell"
          /\ Sellable(x, q)
          /\ positions' = PositionsAfterSale(x, q)
    /\ orders' = Append(orders, [symbol |-> x, side |-> side, quantity |-> q,
                                 status |-> "filled"])
    /\ executions' = Append(executions,
                            [order |-> Len(orders) + 1, symbol |-> x,
                             side |-> side, quantity |-> q,
                             price |-> MarketPrice])
    /\ account' = Refreshed(CashAfter(side, q), positions')
    /\ UNCHANGED <<status, connected>>

AlwaysCancelled(o) == [o EXCEPT !.status = "cancelled"]  \* mutant: no check
Cancelled(o) ==
    IF o.status = "pending" THEN [o EXCEPT !.status = "cancelled"] ELSE o

CancelOrder(i) ==
    /\ connected
    /\ orders' = [orders EXCEPT ![i] = Cancelled(@)]
    /\ UNCHANGED <<status, connected, executions, positions, account>>

Connect    == connected' = TRUE /\ UNCHANGED <<status, orders, executions,
                                               positions, account>>
Disconnect == connected' = FALSE /\ UNCHANGED <<status, orders, executions,
                                                positions, account>>

-----------------------------------------------------------------------------
(***************************************************************************)
(* The runner.  A strategy answers a quote or a bar with no signal, with   *)
(* HOLD, which submit nothing, or with a signal to buy or to sell.         *)
(***************************************************************************)
Start == status' = "running" /\ UNCHANGED <<connected, orders, executions,
                                            positions, account>>
Stop  == status' = "stopped" /\ UNCHANGED <<connected, orders, executions,
                                            positions, account>>

OnEvent(x, signal, q) ==
    /\ status = "running"
    /\ \/ signal \in {"none", "hold"} /\ UNCHANGED vars
       \/ PlaceOrder(x, signal, q)

Next ==
    \/ Connect \/ Disconnect
    \/ Start \/ Stop
    \/ \E x \in Symbol, q \in Quantity :
          \/ \E side \in {"buy", "sell"} : PlaceOrder(x, side, q)
          \/ \E signal \in {"none", "hold", "buy", "sell"} : OnEvent(x, signal, q)
    \/ \E i \in DOMAIN orders : CancelOrder(i)

Spec == Init /\ [][Next]_vars

-----------------------------------------------------------------------------
PositionType == [quantity : Nat \ {0}, average : Nat \ {0}]

\* Holdings pass the validation of the Position dataclass (a positive quantity
\* and average price) and cash is never negative.
TypeOK ==
    /\ status \in {"stopped", "running"}
    /\ connected \in BOOLEAN
    /\ DOMAIN positions \subseteq Symbol
    /\ \A x \in DOMAIN positions : positions[x] \in PositionType
    /\ account.cash \in Nat
    /\ account.equity \in Nat

Signed(i) == IF executions[i].side = "buy" THEN executions[i].quantity
                                           ELSE -executions[i].quantity
Net(x, n) == SumFunction([i \in 1 .. n |->
                            IF executions[i].symbol = x THEN Signed(i) ELSE 0])
Spent(n)  == SumFunction([i \in 1 .. n |-> Signed(i) * executions[i].price])

\* Replaying the executions gives the cash and the positions the incremental
\* bookkeeping of _apply_fill arrived at.
LedgerReplay ==
    /\ account.cash = StartingCash - Spent(Len(executions))
    /\ \A x \in Symbol : Held(x) = Net(x, Len(executions))

\* Every fill is at the one price, so no sequence of trades makes or loses
\* money, every average price is that price, and the account the broker hands
\* out shows the positions held.
ValueConserved ==
    /\ account.equity = StartingCash
    /\ account.positions = positions
    /\ \A x \in DOMAIN positions : positions[x].average = MarketPrice

\* Each execution belongs to its own order, which agrees with it and which
\* nothing cancels afterwards.
ExecutionsMatchOrders ==
    /\ Len(executions) = Len(orders)
    /\ \A i \in DOMAIN executions :
          LET o == orders[executions[i].order] IN
          /\ executions[i].order = i
          /\ o.status = "filled"
          /\ <<o.symbol, o.side, o.quantity>>
               = <<executions[i].symbol, executions[i].side,
                   executions[i].quantity>>
=============================================================================
