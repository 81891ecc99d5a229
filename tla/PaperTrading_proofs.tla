------------------------ MODULE PaperTrading_proofs ------------------------
(***************************************************************************)
(* The books of PaperTrading agree, for any symbols, quantities, price and *)
(* starting cash, and any number of orders.                                *)
(*                                                                         *)
(* The books are sums, over the executions so far and over the positions   *)
(* held.  The first part proves how a sum changes when the function that   *)
(* is summed changes at one point, by induction over finite sets: a set of *)
(* counterexamples would have a minimal one.                               *)
(***************************************************************************)
EXTENDS PaperTrading, FiniteSetTheorems, WellFoundedInduction, TLAPS

-----------------------------------------------------------------------------
\* In a nonempty set of finite sets one is minimal.
LEMMA MinimalSubset ==
    ASSUME NEW S, IsFiniteSet(S), NEW W \in SUBSET SUBSET S, W # {}
    PROVE  \E U \in W : \A V \in W : V \subseteq U => V = U
<1>1. IsWellFoundedOn(StrictSubsetOrdering(S), SUBSET S)
  BY FS_StrictSubsetOrderingWellFounded, FS_FiniteSubsetsOfFinite
<1>2. PICK U \in W : \A V \in W : <<V, U>> \notin StrictSubsetOrdering(S)
  BY <1>1, WFMin
<1>. QED BY <1>2 DEF StrictSubsetOrdering

\* The definition of SumFunctionOnSet: g sums f over each subset of S, taking
\* the elements in the order in which CHOOSE picks them.
One(s) == CHOOSE x \in s : TRUE

Sums(f, S, g) ==
    g = [s \in SUBSET S |->
            IF s = {} THEN 0 ELSE f[One(s)] + g[s \ {One(s)}]]

\* SumFunctionOnSet is defined by such a g.
LEMMA SumUnfolds ==
    ASSUME NEW f, NEW S
    PROVE  SumFunctionOnSet(f, S) = (CHOOSE g : Sums(f, S, g))[S]
BY DEF SumFunctionOnSet, FoldFunctionOnSet, MapThenFoldSet, Sums, One

\* Such sums over a finite set depend on nothing but the function on that set.
LEMMA SumsAgree ==
    ASSUME NEW f, NEW g, NEW S, Sums(f, S, g),
           NEW h, NEW k, NEW T, Sums(h, T, k),
           NEW U \in SUBSET (S \cap T), IsFiniteSet(U),
           \A x \in U : f[x] = h[x]
    PROVE  g[U] = k[U]
<1>. DEFINE W == {V \in SUBSET U : g[V] # k[V]}
<1>. SUFFICES ASSUME W # {} PROVE FALSE
  OBVIOUS
<1>1. PICK V \in W : \A X \in W : X \subseteq V => X = V
  <2>. HIDE DEF W
  <2>1. W \in SUBSET SUBSET U
    BY DEF W
  <2>. QED BY <2>1, MinimalSubset
<1>2. V # {}
  BY DEF Sums
<1>3. One(V) \in V /\ V \ {One(V)} \notin W
  BY <1>1, <1>2 DEF One
<1>4. /\ g[V] = f[One(V)] + g[V \ {One(V)}]
      /\ k[V] = h[One(V)] + k[V \ {One(V)}]
  BY <1>2 DEF Sums
<1>. QED BY <1>3, <1>4

\* A finite set has them: the recursive definition defines something.
LEMMA SumsExist ==
    ASSUME NEW f, NEW S, IsFiniteSet(S), \A x \in S : f[x] \in Int
    PROVE  \E g \in [SUBSET S -> Int] : Sums(f, S, g)
<1>. DEFINE Good(U, g) == g \in [SUBSET U -> Int] /\ Sums(f, U, g)
            W == {U \in SUBSET S : ~ \E g : Good(U, g)}
<1>. SUFFICES ASSUME W # {} PROVE FALSE
  OBVIOUS
<1>1. PICK U \in W : \A V \in W : V \subseteq U => V = U
  <2>. HIDE DEF W
  <2>1. W \in SUBSET SUBSET S
    BY DEF W
  <2>. QED BY <2>1, MinimalSubset
<1>. DEFINE G(V) == CHOOSE g : Good(V, g)
            g == [s \in SUBSET U |->
                    IF s = {} THEN 0
                    ELSE f[One(s)] + G(s \ {One(s)})[s \ {One(s)}]]
<1>2. \A V \in SUBSET U : V # U => Good(V, G(V))
  <2>. SUFFICES ASSUME NEW V \in SUBSET U, V # U PROVE Good(V, G(V))
    OBVIOUS
  <2>1. \E h : Good(V, h)
    BY <1>1
  <2>. QED BY <2>1
<1>3. \A s \in SUBSET U : s # {} =>
         /\ One(s) \in s /\ s \ {One(s)} \in SUBSET U /\ s \ {One(s)} # U
         /\ G(s \ {One(s)})[s \ {One(s)}] \in Int
  <2>. SUFFICES ASSUME NEW s \in SUBSET U, s # {}
                PROVE  /\ One(s) \in s
                       /\ s \ {One(s)} \in SUBSET U /\ s \ {One(s)} # U
                       /\ G(s \ {One(s)})[s \ {One(s)}] \in Int
    OBVIOUS
  <2>1. One(s) \in s
    BY DEF One
  <2>2. s \ {One(s)} \in SUBSET U /\ s \ {One(s)} # U
    BY <2>1
  <2>. HIDE DEF G
  <2>3. Good(s \ {One(s)}, G(s \ {One(s)}))
    BY <1>2, <2>2
  <2>. QED BY <2>1, <2>2, <2>3
<1>. HIDE DEF G
<1>4. g \in [SUBSET U -> Int]
  BY <1>3
<1>5. \A s \in SUBSET U : s # U => g[s] = G(s)[s]
  <2>. SUFFICES ASSUME NEW s \in SUBSET U, s # U PROVE g[s] = G(s)[s]
    OBVIOUS
  <2>1. Good(s, G(s)) /\ IsFiniteSet(s)
    BY <1>2, FS_Subset
  <2>2. CASE s = {}
    BY <2>1, <2>2 DEF Sums
  <2>3. CASE s # {}
    <3>. DEFINE r == s \ {One(s)}
    <3>1. Good(r, G(r)) /\ r \in SUBSET s /\ IsFiniteSet(r)
      BY <1>2, <1>3, <2>1, <2>3, FS_Subset
    <3>. HIDE DEF r
    <3>2. G(s)[r] = G(r)[r]
      BY <2>1, <3>1, SumsAgree
    <3>3. G(s)[s] = f[One(s)] + G(s)[r]
      BY <2>1, <2>3 DEF Sums, r
    <3>. QED BY <2>3, <3>2, <3>3 DEF r
  <2>. QED BY <2>2, <2>3
<1>6. Sums(f, U, g)
  <2>1. \A s \in SUBSET U :
           s # {} => g[s \ {One(s)}] = G(s \ {One(s)})[s \ {One(s)}]
    BY <1>3, <1>5
  <2>. QED BY <2>1 DEF Sums
<1>. QED BY <1>1, <1>4, <1>6

Splits(f, S, g) ==
    \A U \in SUBSET S : \A x \in U : g[U] = f[x] + g[U \ {x}]

\* The order does not matter: any element may be taken first.
LEMMA SumSplits ==
    ASSUME NEW f, NEW S, IsFiniteSet(S), \A x \in S : f[x] \in Int,
           NEW g \in [SUBSET S -> Int], Sums(f, S, g)
    PROVE  Splits(f, S, g)
<1>. USE DEF Splits
<1>. DEFINE W == {V \in SUBSET S : \E y \in V : g[V] # f[y] + g[V \ {y}]}
<1>. SUFFICES ASSUME W # {} PROVE FALSE
  OBVIOUS
<1>1. PICK V \in W : \A X \in W : X \subseteq V => X = V
  <2>. HIDE DEF W
  <2>1. W \in SUBSET SUBSET S
    BY DEF W
  <2>. QED BY <2>1, MinimalSubset
<1>2. PICK y \in V : g[V] # f[y] + g[V \ {y}]
  BY <1>1
<1>3. PICK c \in V : g[V] = f[c] + g[V \ {c}]
  BY <1>2 DEF Sums, One
<1>4. c # y
  BY <1>2, <1>3
<1>5. V \ {c} \notin W /\ V \ {y} \notin W
  BY <1>1, <1>2, <1>3
<1>6. g[V \ {c}] = f[y] + g[(V \ {c}) \ {y}]
  BY <1>4, <1>5
<1>7. g[V \ {y}] = f[c] + g[(V \ {y}) \ {c}]
  BY <1>4, <1>5
<1>8. (V \ {y}) \ {c} = (V \ {c}) \ {y}
  OBVIOUS
<1>9. f[c] \in Int /\ f[y] \in Int /\ g[(V \ {c}) \ {y}] \in Int
  OBVIOUS
<1>10. g[V \ {y}] = f[c] + g[(V \ {c}) \ {y}]
  BY <1>7, <1>8
<1>11. g[V] = f[c] + (f[y] + g[(V \ {c}) \ {y}])
  BY <1>3, <1>6
<1>12. g[V] = f[y] + (f[c] + g[(V \ {c}) \ {y}])
  BY <1>9, <1>11
<1>. QED BY <1>2, <1>10, <1>12

\* What the above says of SumFunctionOnSet.
LEMMA SumFacts ==
    ASSUME NEW f, NEW S, IsFiniteSet(S), \A x \in S : f[x] \in Int
    PROVE  /\ SumFunctionOnSet(f, S) \in Int
           /\ S = {} => SumFunctionOnSet(f, S) = 0
           /\ \A x \in S : SumFunctionOnSet(f, S)
                             = f[x] + SumFunctionOnSet(f, S \ {x})
<1>. DEFINE G(T) == CHOOSE g : Sums(f, T, g)
<1>1. \A T \in SUBSET S : /\ Sums(f, T, G(T))
                          /\ SumFunctionOnSet(f, T) = G(T)[T]
  <2>. SUFFICES ASSUME NEW T \in SUBSET S
                PROVE  Sums(f, T, G(T)) /\ SumFunctionOnSet(f, T) = G(T)[T]
    OBVIOUS
  <2>1. \E g : Sums(f, T, g)
    <3>1. IsFiniteSet(T) /\ \A x \in T : f[x] \in Int
      BY FS_Subset
    <3>. QED BY <3>1, SumsExist
  <2>. QED BY <2>1, SumUnfolds
<1>. HIDE DEF G
<1>2. PICK g \in [SUBSET S -> Int] : Sums(f, S, g)
  BY SumsExist
<1>3. \A T \in SUBSET S : SumFunctionOnSet(f, T) = g[T]
  <2>. SUFFICES ASSUME NEW T \in SUBSET S PROVE SumFunctionOnSet(f, T) = g[T]
    OBVIOUS
  <2>1. IsFiniteSet(T) /\ T \in SUBSET (T \cap S)
    BY FS_Subset
  <2>. QED BY <1>1, <1>2, <2>1, SumsAgree
<1>4. Splits(f, S, g)
  BY <1>2, SumSplits
<1>5. g[{}] = 0
  BY <1>2 DEF Sums
<1>. QED BY <1>2, <1>3, <1>4, <1>5 DEF Splits

\* A sum depends on nothing but the function on the set.
LEMMA SumSame ==
    ASSUME NEW f, NEW h, NEW S, IsFiniteSet(S),
           \A x \in S : f[x] \in Int /\ h[x] = f[x]
    PROVE  SumFunctionOnSet(f, S) = SumFunctionOnSet(h, S)
<1>1. \A x \in S : f[x] \in Int /\ h[x] \in Int
  OBVIOUS
<1>2. (\E g : Sums(f, S, g)) /\ (\E g : Sums(h, S, g))
  BY <1>1, SumsExist
<1>3. /\ Sums(f, S, CHOOSE g : Sums(f, S, g))
      /\ Sums(h, S, CHOOSE g : Sums(h, S, g))
  BY <1>2
<1>4. (CHOOSE g : Sums(f, S, g))[S] = (CHOOSE g : Sums(h, S, g))[S]
  BY <1>3, SumsAgree, S \in SUBSET (S \cap S)
<1>. QED BY <1>4, SumUnfolds

\* How the sum of a function changes with its value at one point, where either
\* may be undefined: this is what one execution does to the books.
LEMMA SumChanges ==
    ASSUME NEW A, IsFiniteSet(A), NEW f \in [A -> Int],
           NEW B, IsFiniteSet(B), NEW h \in [B -> Int],
           NEW x, A \ {x} = B \ {x}, \A y \in A \ {x} : h[y] = f[y]
    PROVE  /\ SumFunction(f) \in Int
           /\ SumFunction(h) = SumFunction(f) + (IF x \in B THEN h[x] ELSE 0)
                                              - (IF x \in A THEN f[x] ELSE 0)
<1>. DEFINE C == A \ {x}
<1>1. IsFiniteSet(C) /\ \A y \in C : f[y] \in Int /\ h[y] \in Int
  BY FS_Subset
<1>2. SumFunctionOnSet(f, C) = SumFunctionOnSet(h, C)
  BY <1>1, SumSame
<1>3. SumFunctionOnSet(f, C) \in Int
  BY <1>1, SumFacts
<1>4. /\ SumFunction(f) = SumFunctionOnSet(f, A)
      /\ SumFunction(h) = SumFunctionOnSet(h, B)
  BY DEF SumFunction
<1>5. SumFunctionOnSet(f, A) = (IF x \in A THEN f[x] ELSE 0)
                                  + SumFunctionOnSet(f, C)
  <2>1. CASE x \in A
    BY <2>1, SumFacts
  <2>2. CASE x \notin A
    <3>1. C = A
      BY <2>2
    <3>. HIDE DEF C
    <3>. QED BY <1>3, <2>2, <3>1
  <2>. QED BY <2>1, <2>2
<1>6. SumFunctionOnSet(h, B) = (IF x \in B THEN h[x] ELSE 0)
                                  + SumFunctionOnSet(h, C)
  <2>1. CASE x \in B
    BY <2>1, SumFacts
  <2>2. CASE x \notin B
    <3>1. C = B
      BY <2>2
    <3>. HIDE DEF C
    <3>. QED BY <1>2, <1>3, <2>2, <3>1
  <2>. QED BY <2>1, <2>2
<1>. DEFINE a == IF x \in A THEN f[x] ELSE 0
            b == IF x \in B THEN h[x] ELSE 0
            c == SumFunctionOnSet(f, C)
<1>7. a \in Int /\ b \in Int
  OBVIOUS
<1>8. SumFunction(f) = a + c /\ SumFunction(h) = b + c
  BY <1>2, <1>4, <1>5, <1>6
<1>. HIDE DEF a, b, c, C
<1>9. SumFunction(f) \in Int /\ SumFunction(h) = SumFunction(f) + b - a
  BY <1>3, <1>7, <1>8 DEF c
<1>. QED BY <1>9 DEF a, b

\* A sum grows by what is added to it.
LEMMA SumGrows ==
    ASSUME NEW A, NEW B, NEW x, NEW f, NEW h,
           IsFiniteSet(A), x \notin A, B = A \cup {x},
           f \in [A -> Int], h \in [B -> Int], \A y \in A : h[y] = f[y]
    PROVE  /\ SumFunction(f) \in Int
           /\ SumFunction(h) = SumFunction(f) + h[x]
<1>1. IsFiniteSet(B)
  BY FS_AddElement
<1>2. A \ {x} = B \ {x} /\ \A y \in A \ {x} : h[y] = f[y]
  OBVIOUS
<1>3. /\ SumFunction(f) \in Int
      /\ SumFunction(h) = SumFunction(f) + (IF x \in B THEN h[x] ELSE 0)
                                         - (IF x \in A THEN f[x] ELSE 0)
  BY <1>1, <1>2, SumChanges
<1>4. h[x] \in Int /\ x \in B
  OBVIOUS
<1>. QED BY <1>3, <1>4

\* A sum over a sequence grows by what is appended.
LEMMA SumAppended ==
    ASSUME NEW n \in Nat, NEW f, f \in [1 .. n -> Int],
           NEW h, h \in [1 .. (n + 1) -> Int], \A i \in 1 .. n : h[i] = f[i]
    PROVE  /\ SumFunction(f) \in Int
           /\ SumFunction(h) = SumFunction(f) + h[n + 1]
<1>. DEFINE A == 1 .. n
            B == 1 .. (n + 1)
            x == n + 1
<1>1. IsFiniteSet(A) /\ x \notin A /\ B = A \cup {x}
  <2>1. IsFiniteSet(A)
    BY FS_Interval
  <2>2. x \notin A /\ B = A \cup {x}
    OBVIOUS
  <2>. QED BY <2>1, <2>2
<1>2. f \in [A -> Int] /\ h \in [B -> Int] /\ \A y \in A : h[y] = f[y]
  OBVIOUS
<1>. HIDE DEF A, B, x
<1>3. SumFunction(f) \in Int /\ SumFunction(h) = SumFunction(f) + h[x]
  BY <1>1, <1>2, SumGrows
<1>. QED BY <1>3 DEF x

-----------------------------------------------------------------------------
(***************************************************************************)
(* The invariant.                                                          *)
(***************************************************************************)
Side == {"buy", "sell"}
Order == [symbol : Symbol, side : Side, quantity : Quantity,
          status : {"pending", "filled", "cancelled"}]
Execution == [order : Nat, symbol : Symbol, side : Side, quantity : Quantity,
              price : {MarketPrice}]

\* Finitely many positions are held, and the books are sequences.
BooksTyped ==
    /\ IsFiniteSet(DOMAIN positions)
    /\ orders \in Seq(Order)
    /\ executions \in Seq(Execution)

\* What was paid for the positions is what the cash has lost.
Balanced == account.cash + MarketValue(positions) = StartingCash

IInv ==
    /\ TypeOK /\ BooksTyped /\ Balanced
    /\ LedgerReplay /\ ValueConserved /\ ExecutionsMatchOrders

\* What a fill adds to the quantity held, in either direction.
Change(side, q) == IF side = "buy" THEN q ELSE -q

-----------------------------------------------------------------------------
\* The average of lots that were all bought at the one price is that price.
LEMMA SamePriceAverage ==
    ASSUME NEW a \in Nat, NEW b \in Nat \ {0}, NEW m \in Nat
    PROVE  (a * m + b * m) \div (a + b) = m
<1>1. \A n \in Nat \ {0} : (n * m) \div n = m
  OBVIOUS
<1>2. a + b \in Nat \ {0} /\ a * m + b * m = (a + b) * m
  OBVIOUS
<1>. QED BY <1>1, <1>2

\* Nothing has been traded yet.
LEMMA InitInv == Init => IInv
<1>. SUFFICES ASSUME Init PROVE IInv
  OBVIOUS
<1>1. DOMAIN positions = {} /\ executions = << >> /\ orders = << >>
  BY DEF Init, Flat
<1>2. \A f : DOMAIN f = {} => SumFunction(f) = 0
  BY SumFacts, FS_EmptySet DEF SumFunction
<1>3. MarketValue(positions) = 0
  BY <1>1, <1>2 DEF MarketValue
<1>4. Spent(0) = 0 /\ \A x \in Symbol : Net(x, 0) = 0
  BY <1>2 DEF Spent, Net
<1>5. /\ account.cash = StartingCash /\ account.equity = StartingCash
      /\ account.positions = positions
  BY DEF Init
<1>6. TypeOK /\ BooksTyped
  <2>1. TypeOK
    BY <1>1, <1>5, AmountAssumption DEF Init, TypeOK
  <2>2. orders \in Seq(Order) /\ executions \in Seq(Execution)
    BY <1>1
  <2>3. IsFiniteSet(DOMAIN positions)
    BY <1>1, FS_EmptySet
  <2>. QED BY <2>1, <2>2, <2>3 DEF BooksTyped
<1>7. Balanced
  BY <1>3, <1>5, AmountAssumption DEF Balanced
<1>8. LedgerReplay
  <2>1. Len(executions) = 0 /\ \A x \in Symbol : Held(x) = 0
    BY <1>1 DEF Held
  <2>. QED BY <1>4, <1>5, <2>1, AmountAssumption DEF LedgerReplay
<1>9. ValueConserved /\ ExecutionsMatchOrders
  BY <1>1, <1>5 DEF ValueConserved, ExecutionsMatchOrders
<1>. QED BY <1>6, <1>7, <1>8, <1>9 DEF IInv

-----------------------------------------------------------------------------
(***************************************************************************)
(* A fill, account by account.                                             *)
(***************************************************************************)
\* _apply_fill changes the position of one symbol, by the quantity filled, and
\* leaves every position positive and averaged at the price.
LEMMA FillPositions ==
    ASSUME IInv, NEW x \in Symbol, NEW side \in Side, NEW q \in Quantity,
           PlaceOrder(x, side, q)
    PROVE  /\ DOMAIN positions' \subseteq Symbol
           /\ IsFiniteSet(DOMAIN positions')
           /\ DOMAIN positions' \ {x} = DOMAIN positions \ {x}
           /\ \A y \in DOMAIN positions \ {x} : positions'[y] = positions[y]
           /\ \A y \in DOMAIN positions' :
                 /\ positions'[y] \in PositionType
                 /\ positions'[y].average = MarketPrice
           /\ Held(x)' = Held(x) + Change(side, q)
           /\ Held(x) \in Nat
<1>1. /\ q \in Nat \ {0} /\ MarketPrice \in Nat \ {0}
      /\ \A y \in DOMAIN positions : /\ positions[y] \in PositionType
                                     /\ positions[y].average = MarketPrice
      /\ IsFiniteSet(DOMAIN positions) /\ DOMAIN positions \subseteq Symbol
  BY AmountAssumption DEF IInv, TypeOK, ValueConserved, BooksTyped
<1>2. Held(x) \in Nat /\ CostOf(x) = Held(x) * MarketPrice
  BY <1>1 DEF Held, CostOf, PositionType
<1>3. CASE side = "buy"
  <2>1. positions' = With(x, BoughtPosition(x, q))
    BY <1>3 DEF PlaceOrder
  <2>2. BoughtPosition(x, q) = [quantity |-> Held(x) + q,
                                average |-> MarketPrice]
    <3>1. (Held(x) * MarketPrice + q * MarketPrice) \div (Held(x) + q)
             = MarketPrice
      <4>1. Held(x) \in Nat /\ q \in Nat \ {0} /\ MarketPrice \in Nat
        BY <1>1, <1>2
      <4>. QED BY ONLY <4>1, SamePriceAverage
    <3>. QED BY <1>2, <3>1 DEF BoughtPosition
  <2>3. BoughtPosition(x, q) \in PositionType
    BY <1>1, <1>2, <2>2 DEF PositionType
  <2>4. /\ DOMAIN positions' = DOMAIN positions \cup {x}
        /\ positions'[x] = BoughtPosition(x, q)
        /\ \A y \in DOMAIN positions \ {x} : positions'[y] = positions[y]
    BY <2>1 DEF With
  <2>5. IsFiniteSet(DOMAIN positions')
    BY <1>1, <2>4, FS_AddElement
  <2>6. Held(x)' = Held(x) + q
    BY <2>2, <2>4 DEF Held
  <2>. QED BY <1>1, <1>2, <1>3, <2>2, <2>3, <2>4, <2>5, <2>6 DEF Change
<1>4. CASE side = "sell"
  <2>1. /\ x \in DOMAIN positions /\ q <= positions[x].quantity
        /\ positions' = PositionsAfterSale(x, q)
    BY <1>4 DEF PlaceOrder, Sellable
  <2>2. CASE q = positions[x].quantity
    <3>1. /\ DOMAIN positions' = DOMAIN positions \ {x}
          /\ \A y \in DOMAIN positions \ {x} : positions'[y] = positions[y]
      BY <2>1, <2>2 DEF PositionsAfterSale, Without
    <3>2. IsFiniteSet(DOMAIN positions')
      BY <1>1, <3>1, FS_RemoveElement
    <3>3. Held(x)' = 0 /\ Held(x) = q
      BY <2>1, <2>2, <3>1 DEF Held
    <3>. QED BY <1>1, <1>2, <1>4, <3>1, <3>2, <3>3 DEF Change
  <2>3. CASE q # positions[x].quantity
    <3>. DEFINE p == [positions[x] EXCEPT !.quantity = @ - q]
    <3>1. p \in PositionType /\ p.quantity = positions[x].quantity - q
          /\ p.average = MarketPrice
      BY <1>1, <2>1, <2>3 DEF PositionType
    <3>2. /\ DOMAIN positions' = DOMAIN positions
          /\ positions'[x] = p
          /\ \A y \in DOMAIN positions \ {x} : positions'[y] = positions[y]
      BY <2>1, <2>3 DEF PositionsAfterSale, With
    <3>. HIDE DEF p
    <3>3. Held(x)' = Held(x) - q
      BY <2>1, <3>1, <3>2 DEF Held
    <3>. QED BY <1>1, <1>2, <1>4, <3>1, <3>2, <3>3 DEF Change
  <2>. QED BY <2>2, <2>3
<1>. QED BY <1>3, <1>4 DEF Side

\* The positions are worth more by what was bought and less by what was sold.
LEMMA FillValue ==
    ASSUME IInv, NEW x \in Symbol, NEW side \in Side, NEW q \in Quantity,
           PlaceOrder(x, side, q)
    PROVE  /\ MarketValue(positions) \in Int
           /\ MarketValue(positions') = MarketValue(positions)
                                          + Change(side, q) * MarketPrice
<1>. DEFINE Worth(held) == [y \in DOMAIN held |-> held[y].quantity * MarketPrice]
            A == DOMAIN positions
            B == DOMAIN positions'
            f == Worth(positions)
            h == Worth(positions')
<1>1. /\ IsFiniteSet(A) /\ IsFiniteSet(B) /\ A \ {x} = B \ {x}
      /\ \A y \in A \ {x} : positions'[y] = positions[y]
      /\ \A y \in B : positions'[y] \in PositionType
      /\ \A y \in A : positions[y] \in PositionType
      /\ MarketPrice \in Nat
  BY FillPositions, AmountAssumption DEF IInv, BooksTyped, TypeOK
<1>2. f \in [A -> Int] /\ h \in [B -> Int]
  BY <1>1 DEF PositionType
<1>3. \A y \in A \ {x} : h[y] = f[y]
  BY <1>1
<1>4. /\ (IF x \in A THEN f[x] ELSE 0) = Held(x) * MarketPrice
      /\ (IF x \in B THEN h[x] ELSE 0) = Held(x)' * MarketPrice
  BY <1>1 DEF Held
<1>5. MarketValue(positions) = SumFunction(f)
      /\ MarketValue(positions') = SumFunction(h)
  BY DEF MarketValue
<1>. HIDE DEF f, h, A, B
<1>6. /\ SumFunction(f) \in Int
      /\ SumFunction(h) = SumFunction(f) + Held(x)' * MarketPrice
                                         - Held(x) * MarketPrice
  BY <1>1, <1>2, <1>3, <1>4, SumChanges
<1>7. /\ Held(x)' = Held(x) + Change(side, q) /\ Held(x) \in Nat
      /\ Change(side, q) \in Int
  BY FillPositions, AmountAssumption DEF Change
<1>8. Held(x)' * MarketPrice - Held(x) * MarketPrice
         = Change(side, q) * MarketPrice
  BY <1>1, <1>7
<1>9. Held(x)' * MarketPrice \in Int /\ Held(x) * MarketPrice \in Int
  BY <1>1, <1>7
<1>. QED BY <1>5, <1>6, <1>8, <1>9

\* The sums that replay the executions, before and after one more.
LEMMA FillReplay ==
    ASSUME IInv, NEW x \in Symbol, NEW side \in Side, NEW q \in Quantity,
           PlaceOrder(x, side, q)
    PROVE  /\ executions' \in Seq(Execution)
           /\ Len(executions') = Len(executions) + 1
           /\ Spent(Len(executions)) \in Int
           /\ Spent(Len(executions))' = Spent(Len(executions))
                                          + Change(side, q) * MarketPrice
           /\ \A y \in Symbol :
                 /\ Net(y, Len(executions)) \in Int
                 /\ Net(y, Len(executions))' = Net(y, Len(executions))
                       + (IF y = x THEN Change(side, q) ELSE 0)
<1>. PICK n \in Nat : n = Len(executions)
  BY DEF IInv, BooksTyped
<1>. DEFINE e == [order |-> Len(orders) + 1, symbol |-> x, side |-> side,
                  quantity |-> q, price |-> MarketPrice]
<1>1. /\ executions \in Seq(Execution) /\ orders \in Seq(Order)
      /\ MarketPrice \in Nat /\ Quantity \subseteq Nat
  BY AmountAssumption DEF IInv, BooksTyped
<1>2. executions' = Append(executions, e)
  BY DEF PlaceOrder
<1>3. e \in Execution
  BY <1>1 DEF Execution
<1>4. /\ executions' \in Seq(Execution) /\ Len(executions') = n + 1
      /\ executions'[n + 1] = e
      /\ \A i \in 1 .. n : executions'[i] = executions[i]
  BY <1>1, <1>2, <1>3
<1>5. ASSUME NEW i \in 1 .. n
      PROVE  /\ Signed(i) \in Int /\ executions[i].price \in Int
             /\ Signed(i)' = Signed(i) /\ executions'[i] = executions[i]
  <2>1. executions[i] \in Execution
    BY <1>1
  <2>2. executions[i].quantity \in Int /\ executions[i].price \in Int
    BY <1>1, <2>1 DEF Execution
  <2>. QED BY <1>4, <2>2 DEF Signed
<1>6. Signed(n + 1)' = Change(side, q) /\ Change(side, q) \in Int
  <2>1. Change(side, q) \in Int
    BY <1>1 DEF Change
  <2>2. executions'[n + 1].side = side /\ executions'[n + 1].quantity = q
    BY <1>4
  <2>. QED BY <2>1, <2>2 DEF Signed, Change
<1>7. /\ Spent(n) \in Int
      /\ Spent(Len(executions))' = Spent(n) + Change(side, q) * MarketPrice
  <2>. DEFINE f == [i \in 1 .. n |-> Signed(i) * executions[i].price]
              h == [i \in 1 .. (n + 1) |-> Signed(i)' * executions'[i].price]
  <2>1. \A i \in 1 .. n : f[i] \in Int /\ h[i] = f[i]
    BY <1>1, <1>5
  <2>2. h[n + 1] = Change(side, q) * MarketPrice /\ h[n + 1] \in Int
    BY <1>1, <1>4, <1>6
  <2>. HIDE DEF f, h
  <2>3. \A i \in 1 .. (n + 1) : h[i] \in Int
    <3>1. \A i \in 1 .. (n + 1) : i = n + 1 \/ i \in 1 .. n
      OBVIOUS
    <3>. QED BY <2>1, <2>2, <3>1
  <2>4. f \in [1 .. n -> Int] /\ h \in [1 .. (n + 1) -> Int]
    BY <2>1, <2>3 DEF f, h
  <2>5. Spent(n) = SumFunction(f) /\ Spent(Len(executions))' = SumFunction(h)
    BY <1>4 DEF Spent, f, h
  <2>6. SumFunction(f) \in Int /\ SumFunction(h) = SumFunction(f) + h[n + 1]
    BY <2>1, <2>4, SumAppended
  <2>. QED BY <2>2, <2>5, <2>6
<1>8. ASSUME NEW y \in Symbol
      PROVE  /\ Net(y, n) \in Int
             /\ Net(y, Len(executions))' = Net(y, n)
                                + (IF y = x THEN Change(side, q) ELSE 0)
  <2>. DEFINE f == [i \in 1 .. n |->
                      IF executions[i].symbol = y THEN Signed(i) ELSE 0]
              h == [i \in 1 .. (n + 1) |->
                      IF executions'[i].symbol = y THEN Signed(i)' ELSE 0]
  <2>1. \A i \in 1 .. n : f[i] \in Int /\ h[i] = f[i]
    BY <1>1, <1>5
  <2>2. /\ h[n + 1] = IF y = x THEN Change(side, q) ELSE 0
        /\ h[n + 1] \in Int
    BY <1>1, <1>4, <1>6
  <2>. HIDE DEF f, h
  <2>3. \A i \in 1 .. (n + 1) : h[i] \in Int
    <3>1. \A i \in 1 .. (n + 1) : i = n + 1 \/ i \in 1 .. n
      OBVIOUS
    <3>. QED BY <2>1, <2>2, <3>1
  <2>4. f \in [1 .. n -> Int] /\ h \in [1 .. (n + 1) -> Int]
    BY <2>1, <2>3 DEF f, h
  <2>5. Net(y, n) = SumFunction(f) /\ Net(y, Len(executions))' = SumFunction(h)
    BY <1>4 DEF Net, f, h
  <2>6. SumFunction(f) \in Int /\ SumFunction(h) = SumFunction(f) + h[n + 1]
    BY <2>1, <2>4, SumAppended
  <2>. QED BY <2>2, <2>5, <2>6
<1>. QED BY <1>4, <1>7, <1>8

\* The cash pays for what was bought, and never runs out.
LEMMA FillCash ==
    ASSUME IInv, NEW x \in Symbol, NEW side \in Side, NEW q \in Quantity,
           PlaceOrder(x, side, q)
    PROVE  /\ account' = Refreshed(CashAfter(side, q), positions')
           /\ CashAfter(side, q) = account.cash - Change(side, q) * MarketPrice
           /\ CashAfter(side, q) \in Nat
<1>1. /\ q \in Nat /\ MarketPrice \in Nat /\ account.cash \in Nat
  BY AmountAssumption DEF IInv, TypeOK
<1>2. q * MarketPrice \in Nat /\ (-q) * MarketPrice = -(q * MarketPrice)
  BY <1>1
<1>3. account' = Refreshed(CashAfter(side, q), positions')
  BY DEF PlaceOrder
<1>4. CASE side = "buy"
  <2>1. q * MarketPrice <= account.cash
    BY <1>4 DEF PlaceOrder, Affordable
  <2>. QED BY <1>1, <1>2, <1>3, <1>4, <2>1 DEF CashAfter, Change
<1>5. CASE side = "sell"
  BY <1>1, <1>2, <1>3, <1>5 DEF CashAfter, Change
<1>. QED BY <1>4, <1>5 DEF Side

\* place_order keeps the books.
LEMMA PlaceOrderInv ==
    ASSUME IInv, NEW x \in Symbol, NEW side \in Side, NEW q \in Quantity,
           PlaceOrder(x, side, q)
    PROVE  IInv'
<1>. DEFINE d == Change(side, q) * MarketPrice
<1>1. /\ q \in Nat /\ Change(side, q) \in Int /\ d \in Int
      /\ MarketPrice \in Nat /\ account.cash \in Nat
      /\ MarketValue(positions) \in Int /\ StartingCash \in Nat
  BY AmountAssumption, FillValue DEF IInv, TypeOK, Change
<1>2. /\ account'.cash = account.cash - d /\ account'.cash \in Nat
      /\ account'.equity = account'.cash + MarketValue(positions')
      /\ account'.positions = positions'
  BY FillCash DEF Refreshed
<1>3. Balanced' /\ account'.equity = StartingCash
  <2>1. MarketValue(positions') = MarketValue(positions) + d
    BY FillValue
  <2>2. account.cash + MarketValue(positions) = StartingCash
    BY DEF IInv, Balanced
  <2>. HIDE DEF d
  <2>3. account'.cash + MarketValue(positions') = StartingCash
    BY <1>1, <1>2, <2>1, <2>2
  <2>4. MarketValue(positions)' = MarketValue(positions')
    BY DEF MarketValue
  <2>. QED BY <1>2, <2>3, <2>4 DEF Balanced
<1>4. /\ status' = status /\ connected' = connected
      /\ orders' = Append(orders, [symbol |-> x, side |-> side, quantity |-> q,
                                   status |-> "filled"])
      /\ executions' = Append(executions,
                              [order |-> Len(orders) + 1, symbol |-> x,
                               side |-> side, quantity |-> q,
                               price |-> MarketPrice])
  BY DEF PlaceOrder
<1>5. TypeOK'
  BY <1>1, <1>2, <1>3, <1>4, FillPositions DEF IInv, TypeOK
<1>6. BooksTyped'
  <2>1. [symbol |-> x, side |-> side, quantity |-> q, status |-> "filled"]
           \in Order
    BY DEF Order
  <2>2. orders' \in Seq(Order)
    BY <1>4, <2>1 DEF IInv, BooksTyped
  <2>. QED BY <2>2, FillPositions, FillReplay DEF BooksTyped
<1>7. LedgerReplay'
  <2>1. account'.cash = StartingCash - Spent(Len(executions))'
    <3>1. account.cash = StartingCash - Spent(Len(executions))
      BY DEF IInv, LedgerReplay
    <3>2. /\ Spent(Len(executions)) \in Int
          /\ Spent(Len(executions))' = Spent(Len(executions)) + d
      BY FillReplay
    <3>. HIDE DEF d
    <3>. QED BY <1>1, <1>2, <3>1, <3>2
  <2>2. ASSUME NEW y \in Symbol
        PROVE  Held(y)' = Net(y, Len(executions))'
    <3>1. Held(y) = Net(y, Len(executions))
      BY DEF IInv, LedgerReplay
    <3>2. /\ Net(y, Len(executions)) \in Int
          /\ Net(y, Len(executions))' = Net(y, Len(executions))
                + (IF y = x THEN Change(side, q) ELSE 0)
      BY FillReplay
    <3>3. CASE y = x
      BY <3>1, <3>2, <3>3, FillPositions
    <3>4. CASE y # x
      <4>1. Held(y)' = Held(y)
        BY <3>4, FillPositions DEF Held
      <4>. QED BY <3>1, <3>2, <3>4, <4>1
    <3>. QED BY <3>3, <3>4
  <2>. QED BY <2>1, <2>2 DEF LedgerReplay
<1>8. ValueConserved'
  BY <1>2, <1>3, FillPositions DEF ValueConserved
<1>9. ExecutionsMatchOrders'
  <2>. DEFINE o == [symbol |-> x, side |-> side, quantity |-> q,
                    status |-> "filled"]
              e == [order |-> Len(orders) + 1, symbol |-> x, side |-> side,
                    quantity |-> q, price |-> MarketPrice]
  <2>. PICK n \in Nat : n = Len(executions)
    BY DEF IInv, BooksTyped
  <2>1. orders \in Seq(Order) /\ executions \in Seq(Execution)
        /\ Len(orders) = n
    BY DEF IInv, BooksTyped, ExecutionsMatchOrders
  <2>2. /\ Len(orders') = n + 1 /\ Len(executions') = n + 1
        /\ DOMAIN executions' = 1 .. (n + 1) /\ DOMAIN executions = 1 .. n
        /\ orders'[n + 1] = o /\ executions'[n + 1] = e
        /\ \A i \in 1 .. n : orders'[i] = orders[i]
                             /\ executions'[i] = executions[i]
    BY <1>4, <2>1
  <2>3. ASSUME NEW i \in 1 .. n
        PROVE  /\ executions'[i].order = i
               /\ orders'[i].status = "filled"
               /\ <<orders'[i].symbol, orders'[i].side, orders'[i].quantity>>
                    = <<executions'[i].symbol, executions'[i].side,
                        executions'[i].quantity>>
    <3>1. /\ executions[i].order = i
          /\ orders[i].status = "filled"
          /\ <<orders[i].symbol, orders[i].side, orders[i].quantity>>
               = <<executions[i].symbol, executions[i].side,
                   executions[i].quantity>>
      BY <2>2 DEF IInv, ExecutionsMatchOrders
    <3>. QED BY <2>2, <3>1
  <2>4. /\ executions'[n + 1].order = n + 1
        /\ orders'[n + 1].status = "filled"
        /\ <<orders'[n + 1].symbol, orders'[n + 1].side, orders'[n + 1].quantity>>
             = <<executions'[n + 1].symbol, executions'[n + 1].side,
                 executions'[n + 1].quantity>>
    BY <2>1, <2>2
  <2>5. \A i \in DOMAIN executions' : i = n + 1 \/ i \in 1 .. n
    BY <2>2
  <2>6. \A i \in DOMAIN executions' :
           /\ executions'[i].order = i
           /\ orders'[i].status = "filled"
           /\ <<orders'[i].symbol, orders'[i].side, orders'[i].quantity>>
                = <<executions'[i].symbol, executions'[i].side,
                    executions'[i].quantity>>
    BY <2>3, <2>4, <2>5
  <2>. QED BY <2>2, <2>6 DEF ExecutionsMatchOrders
<1>. QED BY <1>3, <1>5, <1>6, <1>7, <1>8, <1>9 DEF IInv

\* The invariant does not look at the runner and the connection.
LEMMA BooksKept ==
    ASSUME IInv, UNCHANGED <<orders, executions, positions, account>>,
           status' \in {"stopped", "running"}, connected' \in BOOLEAN
    PROVE  IInv'
<1>1. TypeOK' /\ BooksTyped'
  BY DEF IInv, TypeOK, BooksTyped
<1>2. Balanced'
  BY DEF IInv, Balanced, MarketValue
<1>3. LedgerReplay'
  BY DEF IInv, LedgerReplay, Spent, Net, Signed, Held
<1>4. ValueConserved' /\ ExecutionsMatchOrders'
  BY DEF IInv, ValueConserved, ExecutionsMatchOrders
<1>. QED BY <1>1, <1>2, <1>3, <1>4 DEF IInv

\* Every order is filled when it is recorded, so cancel_order finds nothing to
\* cancel.
LEMMA CancelOrderInv ==
    ASSUME IInv, NEW i \in DOMAIN orders, CancelOrder(i)
    PROVE  IInv' /\ orders' = orders
<1>1. /\ orders \in Seq(Order) /\ executions \in Seq(Execution)
      /\ Len(executions) = Len(orders)
  BY DEF IInv, BooksTyped, ExecutionsMatchOrders
<1>2. executions[i].order = i /\ orders[executions[i].order].status = "filled"
  BY <1>1 DEF IInv, ExecutionsMatchOrders
<1>3. orders' = orders
  BY <1>1, <1>2 DEF CancelOrder, Cancelled
<1>4. /\ UNCHANGED <<orders, executions, positions, account>>
      /\ status' \in {"stopped", "running"} /\ connected' \in BOOLEAN
  BY <1>3 DEF CancelOrder, IInv, TypeOK
<1>. QED BY <1>3, <1>4, BooksKept

\* The invariant is inductive.
LEMMA NextInv == IInv /\ [Next]_vars => IInv'
<1>. SUFFICES ASSUME IInv, [Next]_vars PROVE IInv'
  OBVIOUS
<1>1. status \in {"stopped", "running"} /\ connected \in BOOLEAN
  BY DEF IInv, TypeOK
<1>2. CASE Connect \/ Disconnect \/ Start \/ Stop
  BY <1>1, <1>2, BooksKept DEF Connect, Disconnect, Start, Stop
<1>3. ASSUME NEW x \in Symbol, NEW q \in Quantity, NEW side \in {"buy", "sell"},
             PlaceOrder(x, side, q)
      PROVE  IInv'
  BY <1>3, PlaceOrderInv DEF Side
<1>4. ASSUME NEW x \in Symbol, NEW q \in Quantity,
             NEW signal \in {"none", "hold", "buy", "sell"},
             OnEvent(x, signal, q)
      PROVE  IInv'
  <2>1. CASE PlaceOrder(x, signal, q)
    <3>1. signal \in Side
      BY <2>1 DEF PlaceOrder, Side
    <3>. QED BY <2>1, <3>1, PlaceOrderInv
  <2>2. CASE UNCHANGED vars
    BY <1>1, <2>2, BooksKept DEF vars
  <2>. QED BY <1>4, <2>1, <2>2 DEF OnEvent
<1>5. ASSUME NEW i \in DOMAIN orders, CancelOrder(i)
      PROVE  IInv'
  BY <1>5, CancelOrderInv
<1>6. CASE UNCHANGED vars
  BY <1>1, <1>6, BooksKept DEF vars
<1>. QED BY <1>2, <1>3, <1>4, <1>5, <1>6 DEF Next

LEMMA Invariant == Spec => []IInv
<1>. QED BY InitInv, NextInv, PTL DEF Spec

-----------------------------------------------------------------------------
\* Cash never goes negative, whatever is bought, and every position held passes
\* the validation of the Position dataclass: the whole lots of _apply_fill are
\* positive and its division leaves a positive average.
THEOREM TypeTheorem == Spec => []TypeOK
<1>1. IInv => TypeOK
  BY DEF IInv
<1>. QED BY <1>1, Invariant, PTL

\* _apply_fill never drifts from the history: replaying the executions, however
\* many there are, gives the cash and the quantities the broker holds.
THEOREM ReplayTheorem == Spec => []LedgerReplay
<1>1. IInv => LedgerReplay
  BY DEF IInv
<1>. QED BY <1>1, Invariant, PTL

\* _refresh_account reports what the account started with after any sequence of
\* fills at the one price, and shows the positions held at that price.
THEOREM ConservationTheorem == Spec => []ValueConserved
<1>1. IInv => ValueConserved
  BY DEF IInv
<1>. QED BY <1>1, Invariant, PTL

\* place_order records one execution per order, and cancel_order, which only
\* cancels what is pending, never takes an executed order back.
THEOREM MatchTheorem == Spec => []ExecutionsMatchOrders
<1>1. IInv => ExecutionsMatchOrders
  BY DEF IInv
<1>. QED BY <1>1, Invariant, PTL
=============================================================================
