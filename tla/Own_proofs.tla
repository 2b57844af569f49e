------------------------------ MODULE Own_proofs ------------------------------
(***************************************************************************)
(* Proofs about this node's own orders while peers swap against them: what *)
(* is on hold, what peers can buy, what was cancelled and what is reserved,*)
(* for any orders, quantities, prices, swaps and cancellations.            *)
(***************************************************************************)
EXTENDS OwnOrders, TradingPair_proofs

USE DEF Ids, Orders, NoOrder, live, available

-----------------------------------------------------------------------------
(* The inductive invariant *)

Removals == [order : OwnIds, left : Nat \ {0}]
Sides == [base : Nat, quote : Nat, parts : Nat]
Requests == [order : OwnIds, quantity : Nat, stage : Stages]

\* Where handleSwapRequest stands, and what the deal may be then.
RequestInv(h) ==
  LET stage == requests[h].stage IN
  /\ stage # "none" => requests[h].quantity > 0
  /\ stage \in {"none", "saving"} => deal[h] = "none" /\ h \notin failed
  /\ h \in asking <=> stage = "asked"
  /\ stage = "asked" => deal[h] \in {"created", "agreed"}
  /\ stage = "refused" => deal[h] \in {"none", "created"}
  /\ stage = "withdrawn" => deal[h] = "agreed"
  /\ stage = "accepted" => deal[h] = "agreed"
  /\ stage = "trading" => deal[h] = "paid"
  /\ stage \in {"refused", "withdrawn", "over"} /\ deal[h] \in {"created", "agreed"} => h \in failed

DealsInv == \A h \in Hashes : RequestInv(h)

\* Of an order of which all was cancelled, one cancellation waits for all that
\* is left, and that is on hold.
awaited(id) ==
  \E i \in DOMAIN removals : removals[i].order = id /\ removals[i].left >= book[id].hold
CancelInv ==
  /\ \A id \in cancelled : offered[id] > 0
  /\ mishaps \subseteq {"kept"} =>
       \A id \in cancelled \cap live : available(id) = 0 /\ awaited(id)

\* Two amounts are kept for buy and for sell orders.  The quote amount may be
\* one short for each part that was subtracted: that much is counted with it.
Kinds == {"base", "quote"}
Accounts == BOOLEAN \X Kinds
amount(side, kind) == IF kind = "base" THEN side.base ELSE side.quote + side.parts
worth(order, kind) == IF kind = "base" THEN order.quantity ELSE quoteAmount(order.quantity, order.price)
have(sides, account) == amount(sides[account[1]], account[2])
on(order, account) == IF order.isBuy = account[1] THEN worth(order, account[2]) ELSE 0
due(account) == SumFunctionOnSet([id \in OwnIds |-> on(book[id], account)], OwnIds)

\* What telling a match takes at most: its quote amount, less the part it counts.
lessOne(n) == IF n = 0 THEN 0 ELSE n - 1
cost(fill, kind) == IF kind = "base" THEN fill.quantity ELSE lessOne(quoteAmount(fill.quantity, fill.price))
takes(fill, account) == IF fill.isBuy = account[1] THEN cost(fill, account[2]) ELSE 0

\* What is reserved covers what is in the book when the first i matches have
\* been told, for every i.
Budgets(left) ==
  /\ \A account \in Accounts : /\ have(reserved, account) >= left[0][account]
                               /\ left[Len(fills)][account] >= due(account)
  /\ \A i \in 1 .. Len(fills), account \in Accounts :
       left[i - 1][account] >= left[i][account] + takes(fills[i], account)
BudgetInv ==
  /\ ~matching => fills = <<>>
  /\ "kept" \notin mishaps => \E left \in [0 .. Len(fills) -> [Accounts -> Nat]] : Budgets(left)

OwnIInv ==
  /\ PairIInv /\ OwnTypeOK /\ DealsInv /\ SwapsNotOversold
  /\ HoldsMatchSwaps /\ CancelInv /\ BudgetInv

-----------------------------------------------------------------------------
(* Chains: functions on 0 .. n in which each value comes from the one before *)

\* What holds of the first index and passes on holds of all.
LEMMA Indices ==
  ASSUME NEW n \in Nat, NEW P \in SUBSET (0 .. n), 0 \in P,
         \A i \in 1 .. n : i - 1 \in P => i \in P
  PROVE  P = 0 .. n
<1> SUFFICES ASSUME NEW j \in (0 .. n) \ P PROVE FALSE
  OBVIOUS
<1> DEFINE N == (0 .. n) \ P
<1>1. N \in SUBSET Nat /\ N # {}
  OBVIOUS
<1>2. PICK m \in N : \A k \in N : m <= k
  <2> HIDE DEF N
  <2> QED BY <1>1, LeastNumber
<1>3. m # 0 /\ m \in 1 .. n /\ m - 1 \in 0 .. n
  BY <1>2
<1>4. m - 1 \in P
  BY <1>2, <1>3
<1> QED BY <1>2, <1>3, <1>4

IsChain(f, n, start, step) == f = [i \in 0 .. n |-> IF i = 0 THEN start ELSE step[<<f[i - 1], i>>]]

\* There is such a function, for any way of getting from one value to the next.
LEMMA Chains ==
  ASSUME NEW n \in Nat, NEW S, NEW start \in S, NEW step \in [S \X (1 .. n) -> S]
  PROVE  \E f \in [0 .. n -> S] : IsChain(f, n, start, step)
<1> DEFINE Upto(f, m) == \A i \in 0 .. m : f[i] = IF i = 0 THEN start ELSE step[<<f[i - 1], i>>]
           P == {m \in 0 .. n : \E f \in [0 .. n -> S] : Upto(f, m)}
<1>1. 0 \in P
  <2> DEFINE f == [i \in 0 .. n |-> start]
  <2>1. f \in [0 .. n -> S] /\ Upto(f, 0)
    OBVIOUS
  <2> HIDE DEF f, Upto
  <2> QED BY <2>1
<1>2. ASSUME NEW m \in 1 .. n, m - 1 \in P PROVE m \in P
  <2>1. PICK f \in [0 .. n -> S] : Upto(f, m - 1)
    BY <1>2
  <2> DEFINE g == [f EXCEPT ![m] = step[<<f[m - 1], m>>]]
  <2>2. m - 1 \in 0 .. n /\ f[m - 1] \in S /\ step[<<f[m - 1], m>>] \in S /\ m \in 0 .. n /\ m # 0
    BY <1>2
  <2>3. g \in [0 .. n -> S] /\ g[m] = step[<<f[m - 1], m>>] /\ \A i \in 0 .. n : i # m => g[i] = f[i]
    BY <2>2
  <2> HIDE DEF g
  <2>4. ASSUME NEW i \in 0 .. m PROVE g[i] = IF i = 0 THEN start ELSE step[<<g[i - 1], i>>]
    <3>1. CASE i = m
      <4>1. g[m - 1] = f[m - 1]
        BY <2>2, <2>3
      <4> QED BY <2>2, <2>3, <3>1, <4>1
    <3>2. CASE i # m
      <4>1. i \in 0 .. m - 1 /\ i \in 0 .. n /\ (i # 0 => i - 1 \in 0 .. n /\ i - 1 # m)
        BY <3>2
      <4>2. f[i] = IF i = 0 THEN start ELSE step[<<f[i - 1], i>>]
        BY <2>1, <4>1
      <4>3. g[i] = f[i] /\ (i # 0 => g[i - 1] = f[i - 1])
        BY <2>3, <3>2, <4>1
      <4> QED BY <4>2, <4>3
    <3> QED BY <3>1, <3>2
  <2>5. Upto(g, m)
    BY <2>4
  <2> HIDE DEF Upto
  <2> QED BY <1>2, <2>3, <2>5
<1>3. P = 0 .. n
  <2>1. P \in SUBSET (0 .. n)
    OBVIOUS
  <2> HIDE DEF P
  <2> QED BY <1>1, <1>2, <2>1, Indices
<1>4. PICK f \in [0 .. n -> S] : Upto(f, n)
  BY <1>3, SMTT(20)
<1>5. f = [i \in 0 .. n |-> IF i = 0 THEN start ELSE step[<<f[i - 1], i>>]]
  BY <1>4
<1> QED BY <1>5 DEF IsChain

\* All of them stay in S.
LEMMA ChainTyped ==
  ASSUME NEW n \in Nat, NEW S, NEW f, f[0] \in S,
         \A i \in 1 .. n : f[i - 1] \in S => f[i] \in S
  PROVE  \A i \in 0 .. n : f[i] \in S
<1> DEFINE P == {i \in 0 .. n : f[i] \in S}
<1>1. P \in SUBSET (0 .. n) /\ 0 \in P
  OBVIOUS
<1>2. \A i \in 1 .. n : i - 1 \in P => i \in P
  OBVIOUS
<1>3. P = 0 .. n
  <2> HIDE DEF P
  <2> QED BY <1>1, <1>2, Indices
<1> QED BY <1>3

-----------------------------------------------------------------------------
(* Amounts and orders *)

LEMMA QuoteNat ==
  ASSUME NEW quantity \in Nat, NEW price \in Nat
  PROVE  quoteAmount(quantity, price) \in Nat
<1>1. PICK a \in Nat, b \in Nat \ {0} : a = 2 * quantity * price + Unit /\ b = 2 * Unit
  <2>1. quantity * price \in Nat /\ Unit \in Nat \ {0}
    BY NumbersAssumption
  <2>2. 2 * quantity * price \in Nat
    BY <2>1
  <2> QED BY <2>1, <2>2
<1>2. a \div b \in Nat
  OBVIOUS
<1> QED BY <1>1, <1>2 DEF quoteAmount

\* Rounding the parts of an amount gives at most one more than rounding the whole.
LEMMA Rounding ==
  ASSUME NEW m \in Nat, m > 0, NEW u \in Nat, m = 2 * u, NEW a \in Nat, NEW b \in Nat, NEW c \in Nat,
         2 * a + 2 * b <= 2 * c
  PROVE  (2 * a + u) \div m + (2 * b + u) \div m <= (2 * c + u) \div m + 1
<1>1. PICK x \in Nat, y \in Nat, z \in Nat :
        /\ x = (2 * a + u) \div m /\ y = (2 * b + u) \div m /\ z = (2 * c + u) \div m
  <2>1. \A n \in Nat : n \div m \in Nat
    OBVIOUS
  <2>2. 2 * a + u \in Nat /\ 2 * b + u \in Nat /\ 2 * c + u \in Nat
    OBVIOUS
  <2> QED BY <2>1, <2>2
<1>2. /\ m * x <= 2 * a + u /\ m * y <= 2 * b + u /\ 2 * c + u < m * (z + 1)
  <2>1. \A n \in Nat : m * (n \div m) <= n /\ n < m * ((n \div m) + 1)
    OBVIOUS
  <2>2. 2 * a + u \in Nat /\ 2 * b + u \in Nat /\ 2 * c + u \in Nat
    OBVIOUS
  <2> QED BY <1>1, <2>1, <2>2
<1>3. m * (x + y) < m * (z + 2)
  <2>1. PICK p \in Nat, q \in Nat, w \in Nat : p = m * x /\ q = m * y /\ w = m * z
    BY \A n \in Nat : m * n \in Nat
  <2>2. m * (x + y) = p + q /\ m * (z + 1) = w + m /\ m * (z + 2) = w + 2 * m
    BY <2>1
  <2> QED BY <1>2, <2>1, <2>2
<1>4. x + y < z + 2
  <2> SUFFICES ASSUME x + y >= z + 2 PROVE FALSE
    OBVIOUS
  <2>1. PICK d \in Nat : x + y = (z + 2) + d
    BY (x + y) - (z + 2) \in Nat
  <2>2. m * (x + y) = m * (z + 2) + m * d /\ m * d \in Nat
    BY <2>1
  <2> QED BY <1>3, <2>2
<1> QED BY <1>1, <1>4

\* So what is reserved for an order covers a part of it and what is left, but for one.
LEMMA QuoteParts ==
  ASSUME NEW part \in Nat, NEW left \in Nat, NEW whole \in Nat, part + left <= whole, NEW price \in Nat
  PROVE  quoteAmount(part, price) + quoteAmount(left, price) <= quoteAmount(whole, price) + 1
<1>1. PICK a \in Nat, b \in Nat, c \in Nat : a = part * price /\ b = left * price /\ c = whole * price
  BY \A n \in Nat : n * price \in Nat
<1>2. a + b <= c
  <2>1. PICK d \in Nat : whole = (part + left) + d
    BY whole - (part + left) \in Nat
  <2>2. whole * price = (part * price + left * price) + d * price /\ d * price \in Nat
    BY <2>1
  <2> QED BY <1>1, <2>2
<1>3. Unit \in Nat /\ 2 * Unit \in Nat /\ 2 * Unit > 0
  BY NumbersAssumption
<1>4. /\ quoteAmount(part, price) = (2 * a + Unit) \div (2 * Unit)
      /\ quoteAmount(left, price) = (2 * b + Unit) \div (2 * Unit)
      /\ quoteAmount(whole, price) = (2 * c + Unit) \div (2 * Unit)
  <2>1. \A n \in Nat : 2 * n * price = 2 * (n * price)
    OBVIOUS
  <2> QED BY <1>1, <2>1 DEF quoteAmount
<1>5. 2 * a + 2 * b <= 2 * c
  BY <1>2
<1> QED BY <1>3, <1>4, <1>5, Rounding

LEMMA QuoteGrows ==
  ASSUME NEW left \in Nat, NEW whole \in Nat, left <= whole, NEW price \in Nat
  PROVE  quoteAmount(left, price) <= quoteAmount(whole, price)
<1>1. PICK b \in Nat, c \in Nat : b = left * price /\ c = whole * price
  BY \A n \in Nat : n * price \in Nat
<1>2. b <= c
  <2>1. PICK d \in Nat : whole = left + d
    BY whole - left \in Nat
  <2>2. whole * price = left * price + d * price /\ d * price \in Nat
    BY <2>1
  <2> QED BY <1>1, <2>2
<1>3. PICK u \in Nat, m \in Nat : u = Unit /\ m = 2 * u /\ m > 0
  BY NumbersAssumption
<1>4. quoteAmount(left, price) = (2 * b + u) \div m /\ quoteAmount(whole, price) = (2 * c + u) \div m
  <2>1. \A n \in Nat : 2 * n * price = 2 * (n * price)
    OBVIOUS
  <2> QED BY <1>1, <1>3, <2>1 DEF quoteAmount
<1>5. \A x \in Nat, y \in Nat : x <= y => x \div m <= y \div m
  BY <1>3
<1>6. 2 * b + u \in Nat /\ 2 * c + u \in Nat /\ 2 * b + u <= 2 * c + u
  BY <1>2
<1> QED BY <1>4, <1>5, <1>6

LEMMA QuoteZero ==
  ASSUME NEW price \in Nat
  PROVE  quoteAmount(0, price) = 0
<1>1. PICK u \in Nat : u = Unit /\ u > 0
  BY NumbersAssumption
<1>2. 2 * 0 * price + u = u
  OBVIOUS
<1>3. u \div (2 * u) = 0
  <2>1. PICK m \in Nat : m = 2 * u /\ u < m
    BY <1>1
  <2>2. u \div m = 0
    BY <2>1
  <2> QED BY <2>1, <2>2
<1> QED BY <1>1, <1>2, <1>3 DEF quoteAmount

LEMMA AmountNat ==
  ASSUME NEW side \in Sides, NEW kind \in Kinds
  PROVE  amount(side, kind) \in Nat
BY DEF Sides, Kinds, amount

LEMMA HaveNat ==
  ASSUME NEW sides \in [BOOLEAN -> Sides], NEW account \in Accounts
  PROVE  have(sides, account) \in Nat
BY AmountNat DEF have, Accounts

LEMMA WorthNat ==
  ASSUME NEW order \in Orders, NEW kind \in Kinds
  PROVE  worth(order, kind) \in Nat /\ (order.quantity = 0 => worth(order, kind) = 0)
<1>1. order.quantity \in Nat /\ order.price \in Nat
  OBVIOUS
<1> QED BY <1>1, QuoteNat, QuoteZero DEF worth

LEMMA OnNat ==
  ASSUME NEW order \in Orders, NEW account \in Accounts
  PROVE  on(order, account) \in Nat
BY WorthNat DEF on, Accounts

LEMMA SameWorth ==
  ASSUME NEW order, NEW other, other.quantity = order.quantity, other.price = order.price,
         other.isBuy = order.isBuy
  PROVE  /\ \A kind \in Kinds : worth(other, kind) = worth(order, kind)
         /\ \A account \in Accounts : on(other, account) = on(order, account)
BY DEF worth, on

\* A smaller order is worth no more.
LEMMA WorthFalls ==
  ASSUME NEW order \in Orders, NEW left \in Orders, left.quantity <= order.quantity,
         left.quantity > 0 => left.price = order.price, NEW kind \in Kinds
  PROVE  worth(left, kind) <= worth(order, kind)
<1>1. left.quantity \in Nat /\ order.quantity \in Nat /\ order.price \in Nat
  OBVIOUS
<1>2. CASE left.quantity = 0
  BY <1>2, WorthNat
<1>3. CASE left.quantity > 0
  BY <1>1, <1>3, QuoteGrows DEF worth
<1> QED BY <1>1, <1>2, <1>3

LEMMA OnFalls ==
  ASSUME NEW order \in Orders, NEW left \in Orders, left.quantity <= order.quantity,
         left.quantity > 0 => left.price = order.price /\ left.isBuy = order.isBuy, NEW account \in Accounts
  PROVE  on(left, account) <= on(order, account)
<1>1. PICK kind \in Kinds : kind = account[2]
  BY DEF Accounts
<1>2. PICK a \in Nat, b \in Nat : a = worth(left, kind) /\ b = worth(order, kind) /\ a <= b
  BY WorthNat, WorthFalls, Zenon
<1>3. left.isBuy # order.isBuy => a = 0
  <2>1. left.quantity \in Nat
    OBVIOUS
  <2> QED BY <1>2, <2>1, WorthNat
<1> QED BY <1>1, <1>2, <1>3 DEF on

\* A match takes no more than the order gets smaller.
LEMMA OnParts ==
  ASSUME NEW order \in Orders, NEW left \in Orders, NEW fill \in Takers,
         left.quantity + fill.quantity <= order.quantity, fill.price = order.price, fill.isBuy = order.isBuy,
         left.quantity > 0 => left.price = order.price /\ left.isBuy = order.isBuy, NEW account \in Accounts
  PROVE  on(left, account) + takes(fill, account) <= on(order, account)
<1>1. PICK kind \in Kinds : kind = account[2]
  BY DEF Accounts
<1>2. left.quantity \in Nat /\ order.quantity \in Nat /\ fill.quantity \in Nat /\ order.price \in Nat
  BY DEF Takers
<1>3. left.quantity <= order.quantity
  BY <1>2
<1>4. PICK a \in Nat, b \in Nat : a = worth(left, kind) /\ b = worth(order, kind) /\ a <= b
  BY <1>3, WorthNat, WorthFalls
<1>5. left.isBuy # order.isBuy => a = 0
  BY <1>2, <1>4, WorthNat
<1>6. PICK c \in Nat : c = cost(fill, kind) /\ a + c <= b
  <2>1. CASE kind = "base"
    BY <1>2, <1>4, <2>1 DEF worth, cost
  <2>2. CASE kind # "base"
    <3>1. PICK p \in Nat, l \in Nat, w \in Nat :
            /\ p = quoteAmount(fill.quantity, order.price) /\ l = quoteAmount(left.quantity, order.price)
            /\ w = quoteAmount(order.quantity, order.price)
      BY <1>2, QuoteNat
    <3>2. p + l <= w + 1 /\ l <= w
      BY <1>2, <1>3, <3>1, QuoteParts, QuoteGrows
    <3>3. a = l
      <4>1. CASE left.quantity = 0
        BY <1>2, <1>4, <3>1, <4>1, WorthNat, QuoteZero
      <4>2. CASE left.quantity > 0
        BY <1>4, <2>2, <3>1, <4>2 DEF worth
      <4> QED BY <1>2, <4>1, <4>2
    <3>4. b = w
      BY <1>4, <2>2, <3>1 DEF worth
    <3>5. lessOne(p) \in Nat /\ l + lessOne(p) <= w
      BY <3>2 DEF lessOne
    <3>6. cost(fill, kind) = lessOne(p)
      BY <2>2, <3>1 DEF cost
    <3> QED BY <3>3, <3>4, <3>5, <3>6
  <2> QED BY <2>1, <2>2
<1> QED BY <1>1, <1>4, <1>5, <1>6 DEF on, takes

LEMMA TakesNat ==
  ASSUME NEW fill \in Takers, NEW account \in Accounts
  PROVE  takes(fill, account) \in Nat
<1>1. PICK q \in Nat : q = quoteAmount(fill.quantity, fill.price)
  BY QuoteNat DEF Takers
<1>2. lessOne(q) \in Nat /\ fill.quantity \in Nat
  BY DEF lessOne, Takers
<1> QED BY <1>1, <1>2 DEF takes, cost

\* No more is subtracted than was asked for, and nothing becomes negative.
LEMMA SubtractedSide ==
  ASSUME NEW side \in Sides, NEW order, order.price \in Nat, order.isBuy \in BOOLEAN, NEW quantity \in Nat,
         NEW after, after = subtracted(side, order, quantity).side
  PROVE  /\ after \in Sides
         /\ subtracted(side, order, quantity).ok \in BOOLEAN
         /\ side.base <= after.base + quantity
         /\ amount(side, "quote") + 1 <= amount(after, "quote") + quoteAmount(quantity, order.price)
<1>1. PICK quote \in Nat : quote = quoteAmount(quantity, order.price)
  BY QuoteNat
<1>2. side.base \in Nat /\ side.quote \in Nat /\ side.parts \in Nat
  BY DEF Sides
<1>3. /\ suffices(side.base, quantity) => side.base - quantity \in Nat
      /\ suffices(side.quote, quote) => side.quote - quote \in Nat
  BY <1>2 DEF suffices
<1>4. /\ suffices(side.base, quantity) \in BOOLEAN /\ suffices(side.quote, quote) \in BOOLEAN
  BY DEF suffices
<1> DEFINE baseOK == suffices(side.base, quantity)
           quoteOK == suffices(side.quote, quote)
           base == IF baseOK /\ (order.isBuy \/ quoteOK) THEN side.base - quantity ELSE side.base
           rests == IF quoteOK /\ (baseOK \/ ~order.isBuy) THEN side.quote - quote ELSE side.quote
<1>5. /\ base \in Nat /\ rests \in Nat /\ side.base <= base + quantity /\ side.quote <= rests + quote
  BY <1>2, <1>3, <1>4
<1>6. /\ after = [base |-> base, quote |-> rests, parts |-> side.parts + 1]
      /\ subtracted(side, order, quantity).ok = (baseOK /\ quoteOK)
  BY <1>1 DEF subtracted
<1> HIDE DEF base, rests, baseOK, quoteOK
<1>7. after \in Sides /\ after.base = base /\ after.quote = rests /\ after.parts = side.parts + 1
  BY <1>2, <1>5, <1>6 DEF Sides
<1>8. baseOK \in BOOLEAN /\ quoteOK \in BOOLEAN
  BY <1>1, <1>4 DEF baseOK, quoteOK
<1>9. subtracted(side, order, quantity).ok \in BOOLEAN
  BY <1>6, <1>8
<1>10. amount(side, "quote") + 1 <= amount(after, "quote") + quote
  BY <1>1, <1>2, <1>5, <1>7 DEF amount
<1> QED BY <1>1, <1>5, <1>7, <1>9, <1>10

\* What is left of an order: nothing, or that much less of it.
LEMMA RestOf ==
  ASSUME NEW order \in Orders, NEW quantity \in Nat
  PROVE  /\ rest(order, quantity) \in Orders
         /\ \/ rest(order, quantity) = NoOrder
            \/ /\ quantity < order.quantity
               /\ rest(order, quantity).quantity = order.quantity - quantity
               /\ rest(order, quantity).hold = order.hold
               /\ rest(order, quantity).isBuy = order.isBuy
               /\ rest(order, quantity).price = order.price
<1>1. CASE quantity < order.quantity /\ Swappable(order.quantity - quantity, order.price)
  <2>1. rest(order, quantity) = [order EXCEPT !.quantity = order.quantity - quantity]
    BY <1>1 DEF rest
  <2>2. PICK left : left = order.quantity - quantity
    OBVIOUS
  <2>3. left \in Nat /\ left = order.quantity - quantity
    BY <1>1, <2>2
  <2>4. rest(order, quantity) = [order EXCEPT !.quantity = left]
    BY <2>1, <2>2
  <2>5. rest(order, quantity) \in Orders /\ rest(order, quantity).quantity = left
    BY <2>3, <2>4
  <2>6. /\ rest(order, quantity).hold = order.hold /\ rest(order, quantity).isBuy = order.isBuy
        /\ rest(order, quantity).price = order.price
    BY <2>4
  <2>7. rest(order, quantity).quantity = order.quantity - quantity
    BY <2>3, <2>5, Zenon
  <2> QED BY <1>1, <2>5, <2>6, <2>7, Zenon
<1>2. CASE ~(quantity < order.quantity /\ Swappable(order.quantity - quantity, order.price))
  BY <1>2, NoOrderIsOrder DEF rest
<1> QED BY <1>1, <1>2

\* No more of the reserved amounts is gone than of the order.
Pays(order, side, left, after) ==
  \A kind \in Kinds : amount(side, kind) + worth(left, kind) <= amount(after, kind) + worth(order, kind)

LEMMA PaysOn ==
  ASSUME NEW order \in Orders, NEW side \in Sides, NEW left \in Orders, NEW after \in Sides,
         NEW last \in Orders, NEW end \in Sides,
         Pays(order, side, left, after), Pays(left, after, last, end)
  PROVE  Pays(order, side, last, end)
<1> SUFFICES ASSUME NEW kind \in Kinds
             PROVE  amount(side, kind) + worth(last, kind) <= amount(end, kind) + worth(order, kind)
  BY DEF Pays
<1>1. PICK a \in Nat, b \in Nat, c \in Nat :
        a = worth(order, kind) /\ b = worth(left, kind) /\ c = worth(last, kind)
  BY WorthNat, Zenon
<1>2. PICK x \in Nat, y \in Nat, z \in Nat :
        x = amount(side, kind) /\ y = amount(after, kind) /\ z = amount(end, kind)
  BY AmountNat, Zenon
<1>3. x + b <= y + a /\ y + c <= z + b
  BY <1>1, <1>2 DEF Pays
<1>4. x + c <= z + a
  BY <1>3
<1> QED BY <1>1, <1>2, <1>4

\* What removeOwnOrder leaves, if the assertion of removeOrder holds.
LEMMA TakenOut ==
  ASSUME NEW order \in Orders, order.hold <= order.quantity, NEW side \in Sides,
         NEW quantity \in Nat, keepsHold(order, quantity)
  PROVE  LET result == removed(order, side, quantity) IN
         /\ result.order = rest(order, quantity)
         /\ result.order \in Orders /\ result.side \in Sides /\ result.ok \in BOOLEAN
         /\ result.order.hold = order.hold /\ result.order.hold <= result.order.quantity
         /\ result.order.quantity <= order.quantity
         /\ result.order.quantity > 0 => result.order.isBuy = order.isBuy
         /\ Pays(order, side, result.order, result.side)
<1> DEFINE left == rest(order, quantity)
<1>1. /\ left \in Orders /\ left.hold = order.hold /\ left.hold <= left.quantity
      /\ left.quantity <= order.quantity
      /\ left.quantity > 0 => left.isBuy = order.isBuy /\ left.price = order.price
  <2>1. CASE left = NoOrder
    <3>1. order.hold = 0
      BY <2>1 DEF keepsHold
    <3> QED BY <2>1, <3>1, NoOrderIsOrder
  <2>2. CASE left # NoOrder
    <3>1. /\ quantity < order.quantity /\ left \in Orders
          /\ left.quantity = order.quantity - quantity /\ left.hold = order.hold
          /\ left.isBuy = order.isBuy /\ left.price = order.price
      BY <2>2, RestOf
    <3>2. quantity <= order.quantity - order.hold
      BY <2>2 DEF keepsHold
    <3> HIDE DEF left
    <3> QED BY <3>1, <3>2
  <2> QED BY <2>1, <2>2
<1>2. order.quantity - left.quantity \in Nat /\ order.quantity \in Nat /\ left.quantity \in Nat
  BY <1>1
<1>3. PICK part \in Nat : part = order.quantity - left.quantity
  BY <1>2
<1> HIDE DEF left
<1>4. /\ removed(order, side, quantity).order = left
      /\ removed(order, side, quantity).side = subtracted(side, order, part).side
      /\ removed(order, side, quantity).ok = subtracted(side, order, part).ok
  BY <1>3 DEF removed, left
<1>5. PICK after : after = subtracted(side, order, part).side
  OBVIOUS
<1>6. /\ after \in Sides /\ subtracted(side, order, part).ok \in BOOLEAN
      /\ side.base <= after.base + part
      /\ amount(side, "quote") + 1 <= amount(after, "quote") + quoteAmount(part, order.price)
  <2>1. order.price \in Nat /\ order.isBuy \in BOOLEAN
    OBVIOUS
  <2> QED BY <1>5, <2>1, SubtractedSide
<1>7. side.base + left.quantity <= after.base + order.quantity
  <2>1. side.base \in Nat /\ after.base \in Nat
    BY <1>6 DEF Sides
  <2> QED BY <1>2, <1>3, <1>6, <2>1
<1>8. amount(side, "quote") + worth(left, "quote") <= amount(after, "quote") + worth(order, "quote")
  <2>1. PICK x \in Nat, y \in Nat : x = amount(side, "quote") /\ y = amount(after, "quote")
    BY <1>6, AmountNat DEF Kinds
  <2>2. PICK p \in Nat, l \in Nat, w \in Nat :
          p = quoteAmount(part, order.price) /\ l = worth(left, "quote") /\ w = quoteAmount(order.quantity, order.price)
    <3>1. order.price \in Nat /\ order.quantity \in Nat
      OBVIOUS
    <3>2. worth(left, "quote") \in Nat
      BY <1>1, WorthNat DEF Kinds
    <3> QED BY <3>1, <3>2, QuoteNat
  <2>3. l = quoteAmount(left.quantity, order.price)
    <3>1. CASE left.quantity = 0
      <4>1. l = 0
        BY <1>1, <2>2, <3>1, WorthNat DEF Kinds
      <4>2. order.price \in Nat
        OBVIOUS
      <4> QED BY <3>1, <4>1, <4>2, QuoteZero
    <3>2. CASE left.quantity > 0
      BY <1>1, <2>2, <3>2 DEF worth
    <3> QED BY <1>2, <3>1, <3>2
  <2>4. p + l <= w + 1
    <3>1. part + left.quantity <= order.quantity /\ order.price \in Nat
      BY <1>2, <1>3
    <3> QED BY <1>2, <2>2, <2>3, <3>1, QuoteParts
  <2>5. x + 1 <= y + p
    BY <1>6, <2>1, <2>2
  <2>6. x + l <= y + w
    BY <2>4, <2>5
  <2> QED BY <2>1, <2>2, <2>6 DEF worth
<1>9. Pays(order, side, left, after)
  BY <1>7, <1>8 DEF Pays, Kinds, amount, worth
<1> QED BY <1>1, <1>4, <1>5, <1>6, <1>9 DEF left

-----------------------------------------------------------------------------
(* The listeners on "swap.failed" *)

Throws == {"no", "hold", "removal", "reserved"}
Seens == [order : Orders, side : Sides, threw : Throws, removals : Seq(Removals)]

\* What listeners may make of what they find: an order with no less on hold and
\* all of that in the book, and no more of the reserved amounts gone than of it.
Follows(start) ==
  {seen \in Seens :
     /\ seen.order.hold = start.order.hold /\ seen.order.hold <= seen.order.quantity
     /\ seen.order.quantity <= start.order.quantity
     /\ seen.order.quantity > 0 => seen.order.isBuy = start.order.isBuy
     /\ Pays(start.order, start.side, seen.order, seen.side)}

LEMMA AppendRemoval ==
  ASSUME NEW waits \in Seq(Removals), NEW removal \in Removals
  PROVE  /\ Append(waits, removal) \in Seq(Removals)
         /\ Len(Append(waits, removal)) = Len(waits) + 1
         /\ Append(waits, removal)[Len(waits) + 1] = removal
         /\ \A i \in 1 .. Len(waits) : Append(waits, removal)[i] = waits[i]
OBVIOUS

LEMMA SeenFields ==
  ASSUME NEW seen \in Seens
  PROVE  /\ seen.order \in Orders /\ seen.side \in Sides /\ seen.threw \in Throws
         /\ seen.removals \in Seq(Removals)
BY DEF Seens

\* What one listener does: nothing but to stay; or throw; or remove its part.
waitsFor(seen, removal) == [seen EXCEPT !.removals = Append(@, removal)]
throwsAt(seen, removal) == [waitsFor(seen, removal) EXCEPT !.threw = "removal"]
lessOf(removal, part) == [removal EXCEPT !.left = @ - part]
removesPart(seen, removal, part, next) ==
  LET result == removed(seen.order, seen.side, part) IN
  /\ keepsHold(seen.order, part)
  /\ next.order = result.order /\ next.side = result.side
  /\ next.threw = IF result.ok THEN "no" ELSE "reserved"
  /\ next.removals = IF result.ok /\ part = removal.left THEN seen.removals
                     ELSE Append(seen.removals, IF result.ok THEN lessOf(removal, part) ELSE removal)

LEMMA Handles ==
  ASSUME NEW seen \in Seens, NEW removal \in Removals, NEW id, NEW quantity \in Nat,
         NEW next, next = handleFailed(seen, removal, id, quantity)
  PROVE  \/ (seen.threw # "no" \/ removal.order # id) /\ next = waitsFor(seen, removal)
         \/ /\ seen.threw = "no" /\ removal.order = id
            /\ seen.order = NoOrder \/ ~keepsHold(seen.order, Lesser(quantity, removal.left))
            /\ next = throwsAt(seen, removal)
         \/ /\ seen.threw = "no" /\ removal.order = id /\ seen.order # NoOrder
            /\ removesPart(seen, removal, Lesser(quantity, removal.left), next)
            /\ next = [order |-> next.order, side |-> next.side, threw |-> next.threw, removals |-> next.removals]
<1> USE DEF waitsFor, throwsAt, lessOf
<1> HIDE DEF NoOrder
<1>1. CASE seen.threw # "no" \/ removal.order # id
  BY <1>1 DEF handleFailed
<1>2. CASE /\ seen.threw = "no" /\ removal.order = id
           /\ seen.order = NoOrder \/ ~keepsHold(seen.order, Lesser(quantity, removal.left))
  BY <1>2 DEF handleFailed
<1>3. CASE /\ seen.threw = "no" /\ removal.order = id
           /\ seen.order # NoOrder /\ keepsHold(seen.order, Lesser(quantity, removal.left))
  BY <1>3 DEF handleFailed, removesPart
<1> QED BY <1>1, <1>2, <1>3

LEMMA HandlesFollows ==
  ASSUME NEW start \in Seens, NEW seen \in Follows(start), NEW removal \in Removals,
         NEW id, NEW quantity \in Nat
  PROVE  handleFailed(seen, removal, id, quantity) \in Follows(start)
<1>1. PICK next : next = handleFailed(seen, removal, id, quantity)
  OBVIOUS
<1>2. /\ seen \in Seens /\ seen.order \in Orders /\ seen.side \in Sides
      /\ seen.removals \in Seq(Removals) /\ seen.order.hold <= seen.order.quantity
  BY SeenFields DEF Follows
<1>3. removal.left \in Nat /\ removal.left > 0 /\ removal.order \in OwnIds
  BY DEF Removals
<1>4. PICK part \in Nat : part = Lesser(quantity, removal.left) /\ part <= removal.left
  BY <1>3, LesserNat
<1>5. CASE next = waitsFor(seen, removal) \/ next = throwsAt(seen, removal)
  <2>1. Append(seen.removals, removal) \in Seq(Removals)
    BY <1>2, AppendRemoval
  <2>2. /\ next \in Seens /\ next.order = seen.order /\ next.side = seen.side
    BY <1>2, <1>5, <2>1 DEF waitsFor, throwsAt, Seens, Throws
  <2> QED BY <1>1, <2>2 DEF Follows
<1>6. CASE /\ removesPart(seen, removal, part, next)
           /\ next = [order |-> next.order, side |-> next.side, threw |-> next.threw, removals |-> next.removals]
  <2>1. PICK result : result = removed(seen.order, seen.side, part)
    OBVIOUS
  <2>2. keepsHold(seen.order, part) /\ next.order = result.order /\ next.side = result.side
    BY <1>6, <2>1 DEF removesPart
  <2>3. /\ result.order \in Orders /\ result.side \in Sides /\ result.ok \in BOOLEAN
        /\ result.order.hold = seen.order.hold /\ result.order.hold <= result.order.quantity
        /\ result.order.quantity <= seen.order.quantity
        /\ result.order.quantity > 0 => result.order.isBuy = seen.order.isBuy
        /\ Pays(seen.order, seen.side, result.order, result.side)
    BY <1>2, <2>1, <2>2, TakenOut
  <2>4. part # removal.left => lessOf(removal, part) \in Removals
    BY <1>3, <1>4 DEF lessOf, Removals
  <2>5. next.threw \in Throws /\ next.removals \in Seq(Removals)
    <3>1. next.threw = IF result.ok THEN "no" ELSE "reserved"
      BY <1>6, <2>1 DEF removesPart
    <3>2. next.removals = IF result.ok /\ part = removal.left THEN seen.removals
                          ELSE Append(seen.removals, IF result.ok THEN lessOf(removal, part) ELSE removal)
      BY <1>6, <2>1 DEF removesPart
    <3> QED BY <1>2, <2>4, <3>1, <3>2, AppendRemoval DEF Throws
  <2>6. next \in Seens
    <3> HIDE DEF Orders
    <3> QED BY <1>6, <2>2, <2>3, <2>5 DEF Seens
  <2>7. /\ seen.order.hold = start.order.hold /\ seen.order.quantity <= start.order.quantity
        /\ Pays(start.order, start.side, seen.order, seen.side)
        /\ start.order \in Orders /\ start.side \in Sides
    BY SeenFields DEF Follows
  <2>8. PICK a, b, c :
          a = start.order.quantity /\ b = seen.order.quantity /\ c = next.order.quantity
    OBVIOUS
  <2>9. a \in Nat /\ b \in Nat /\ c \in Nat
    BY <1>2, <2>2, <2>3, <2>7, <2>8
  <2>10. c <= b /\ b <= a
    BY <2>2, <2>3, <2>7, <2>8
  <2>11. c <= a
    BY <2>9, <2>10
  <2>14. Pays(start.order, start.side, next.order, next.side)
    <3> HIDE DEF Orders
    <3> QED BY <1>2, <2>2, <2>3, <2>7, PaysOn
  <2>12. /\ next.order.hold = start.order.hold /\ next.order.hold <= next.order.quantity
         /\ next.order.quantity <= start.order.quantity
         /\ Pays(start.order, start.side, next.order, next.side)
    BY <2>2, <2>3, <2>7, <2>8, <2>11, <2>14
  <2>13. next.order.quantity > 0 => next.order.isBuy = start.order.isBuy
    <3>1. c > 0 => b > 0
      BY <2>9, <2>10
    <3>2. c > 0 => next.order.isBuy = seen.order.isBuy
      BY <2>2, <2>3, <2>8
    <3>3. b > 0 => seen.order.isBuy = start.order.isBuy
      BY <2>8 DEF Follows
    <3> QED BY <2>8, <3>1, <3>2, <3>3
  <2> QED BY <1>1, <2>6, <2>12, <2>13 DEF Follows
<1> QED BY <1>1, <1>2, <1>4, <1>5, <1>6, Handles

\* What the chain of listeners is.
LEMMA Heard ==
  ASSUME removals \in Seq(Removals), NEW start \in Seens, start.order.hold <= start.order.quantity,
         NEW id, NEW quantity \in Nat, NEW f, f = heard(start, id, quantity)
  PROVE  /\ f[0] = start
         /\ \A i \in 1 .. Len(removals) : f[i] = handleFailed(f[i - 1], removals[i], id, quantity)
         /\ \A i \in 0 .. Len(removals) : f[i] \in Follows(start)
<1> DEFINE n == Len(removals)
           S == Follows(start)
           step == [x \in S \X (1 .. n) |-> handleFailed(x[1], removals[x[2]], id, quantity)]
<1>1. n \in Nat /\ \A i \in 1 .. n : removals[i] \in Removals
  OBVIOUS
<1>2. start \in S
  BY SeenFields, AmountNat, WorthNat DEF Follows, Pays
<1>3. step \in [S \X (1 .. n) -> S]
  BY <1>1, HandlesFollows
<1>4. \A s \in S, i \in 1 .. n : step[<<s, i>>] = handleFailed(s, removals[i], id, quantity)
  OBVIOUS
<1> HIDE DEF step, S
<1>5. PICK g \in [0 .. n -> S] : IsChain(g, n, start, step)
  <2> HIDE DEF n
  <2> QED BY <1>1, <1>2, <1>3, Chains
<1>6. g = [i \in 0 .. n |-> IF i = 0 THEN start ELSE handleFailed(g[i - 1], removals[i], id, quantity)]
  <2>1. \A i \in 0 .. n : (IF i = 0 THEN start ELSE step[<<g[i - 1], i>>])
          = IF i = 0 THEN start ELSE handleFailed(g[i - 1], removals[i], id, quantity)
    <3> SUFFICES ASSUME NEW i \in 0 .. n, i # 0
                 PROVE step[<<g[i - 1], i>>] = handleFailed(g[i - 1], removals[i], id, quantity)
      OBVIOUS
    <3>1. i \in 1 .. n /\ i - 1 \in 0 .. n
      BY <1>1
    <3>2. g[i - 1] \in S
      BY <1>5, <3>1
    <3> QED BY <1>4, <3>1, <3>2
  <2>2. g = [i \in 0 .. n |-> g[i]] /\ \A i \in 0 .. n : g[i] = IF i = 0 THEN start ELSE step[<<g[i - 1], i>>]
    <3> HIDE DEF n
    <3> QED BY <1>1, <1>5 DEF IsChain
  <2>3. \A i \in 0 .. n : g[i] = IF i = 0 THEN start ELSE handleFailed(g[i - 1], removals[i], id, quantity)
    BY <2>1, <2>2
  <2> HIDE DEF n
  <2> QED BY <2>2, <2>3
<1>7. f = [i \in 0 .. n |-> IF i = 0 THEN start ELSE handleFailed(f[i - 1], removals[i], id, quantity)]
  BY <1>6 DEF heard
<1>8. f[0] = start /\ \A i \in 1 .. n : f[i] = handleFailed(f[i - 1], removals[i], id, quantity)
  <2> HIDE DEF n
  <2> QED BY <1>1, <1>7
<1>9. \A i \in 1 .. n : f[i - 1] \in S => f[i] \in S
  BY <1>1, <1>8, HandlesFollows DEF S
<1>10. \A i \in 0 .. n : f[i] \in S
  <2> HIDE DEF n
  <2> QED BY <1>1, <1>2, <1>8, <1>9, ChainTyped
<1> QED BY <1>8, <1>10 DEF S

-----------------------------------------------------------------------------
(* The listeners on "swap.paid", and "ownOrder.filled" *)

LEMMA HandlesPaid ==
  ASSUME NEW waits \in Seq(Removals), NEW removal \in Removals, NEW id, NEW quantity \in Nat
  PROVE  handlePaid(waits, removal, id, quantity) \in Seq(Removals)
<1>1. removal.left \in Nat /\ removal.left > 0
  BY DEF Removals
<1>2. removal.left > quantity => [removal EXCEPT !.left = @ - quantity] \in Removals
  BY <1>1 DEF Removals
<1> QED BY <1>1, <1>2, AppendRemoval DEF handlePaid

LEMMA Paid ==
  ASSUME removals \in Seq(Removals), NEW id, NEW quantity \in Nat
  PROVE  \E f : /\ f[0] = <<>> /\ paidEvent(id, quantity) = f[Len(removals)]
                /\ \A i \in 1 .. Len(removals) : f[i] = handlePaid(f[i - 1], removals[i], id, quantity)
                /\ \A i \in 0 .. Len(removals) : f[i] \in Seq(Removals)
<1> DEFINE n == Len(removals)
           S == Seq(Removals)
           step == [x \in S \X (1 .. n) |-> handlePaid(x[1], removals[x[2]], id, quantity)]
<1>1. n \in Nat /\ \A i \in 1 .. n : removals[i] \in Removals
  OBVIOUS
<1>2. <<>> \in S
  OBVIOUS
<1>3. step \in [S \X (1 .. n) -> S]
  BY <1>1, HandlesPaid
<1>4. \A s \in S, i \in 1 .. n : step[<<s, i>>] = handlePaid(s, removals[i], id, quantity)
  OBVIOUS
<1> HIDE DEF step, S
<1>5. PICK g \in [0 .. n -> S] : IsChain(g, n, <<>>, step)
  <2> HIDE DEF n
  <2> QED BY <1>1, <1>2, <1>3, Chains
<1>6. \E h : h = [i \in 0 .. n |-> IF i = 0 THEN <<>> ELSE handlePaid(h[i - 1], removals[i], id, quantity)]
  <2>1. \A i \in 0 .. n : (IF i = 0 THEN <<>> ELSE step[<<g[i - 1], i>>])
          = IF i = 0 THEN <<>> ELSE handlePaid(g[i - 1], removals[i], id, quantity)
    <3> SUFFICES ASSUME NEW i \in 0 .. n, i # 0
                 PROVE step[<<g[i - 1], i>>] = handlePaid(g[i - 1], removals[i], id, quantity)
      OBVIOUS
    <3>1. i \in 1 .. n /\ i - 1 \in 0 .. n
      BY <1>1
    <3>2. g[i - 1] \in S
      BY <1>5, <3>1
    <3> QED BY <1>4, <3>1, <3>2
  <2>2. g = [i \in 0 .. n |-> g[i]] /\ \A i \in 0 .. n : g[i] = IF i = 0 THEN <<>> ELSE step[<<g[i - 1], i>>]
    <3> HIDE DEF n
    <3> QED BY <1>1, <1>5 DEF IsChain
  <2>3. \A i \in 0 .. n : g[i] = IF i = 0 THEN <<>> ELSE handlePaid(g[i - 1], removals[i], id, quantity)
    BY <2>1, <2>2
  <2>4. g = [i \in 0 .. n |-> IF i = 0 THEN <<>> ELSE handlePaid(g[i - 1], removals[i], id, quantity)]
    <3> HIDE DEF n
    <3> QED BY <2>2, <2>3
  <2> QED BY <2>4
<1> DEFINE f == CHOOSE h : h = [i \in 0 .. n |-> IF i = 0 THEN <<>> ELSE handlePaid(h[i - 1], removals[i], id, quantity)]
<1>7. f = [i \in 0 .. n |-> IF i = 0 THEN <<>> ELSE handlePaid(f[i - 1], removals[i], id, quantity)]
  BY <1>6
<1>8. paidEvent(id, quantity) = f[n]
  BY DEF paidEvent
<1> HIDE DEF f
<1>9. f[0] = <<>> /\ \A i \in 1 .. n : f[i] = handlePaid(f[i - 1], removals[i], id, quantity)
  <2> HIDE DEF n
  <2> QED BY <1>1, <1>7
<1>10. \A i \in 1 .. n : f[i - 1] \in S => f[i] \in S
  BY <1>1, <1>9, HandlesPaid DEF S
<1>11. \A i \in 0 .. n : f[i] \in S
  <2> HIDE DEF n
  <2> QED BY <1>1, <1>2, <1>9, <1>10, ChainTyped
<1> QED BY <1>8, <1>9, <1>11 DEF S

\* Telling one match.
tells(sides, fill) == [sides EXCEPT ![fill.isBuy] = subtracted(sides[fill.isBuy], fill, fill.quantity).side]

LEMMA TellsTyped ==
  ASSUME NEW sides \in [BOOLEAN -> Sides], NEW fill \in Takers
  PROVE  /\ tells(sides, fill) \in [BOOLEAN -> Sides]
         /\ \A account \in Accounts :
              have(sides, account) <= have(tells(sides, fill), account) + takes(fill, account)
<1>1. fill.isBuy \in BOOLEAN /\ fill.price \in Nat /\ fill.quantity \in Nat
  BY DEF Takers
<1>2. PICK side : side = subtracted(sides[fill.isBuy], fill, fill.quantity).side
  OBVIOUS
<1>3. PICK was \in Sides : was = sides[fill.isBuy]
  BY <1>1
<1>4. /\ side \in Sides /\ was.base <= side.base + fill.quantity
      /\ amount(was, "quote") + 1 <= amount(side, "quote") + quoteAmount(fill.quantity, fill.price)
  BY <1>1, <1>2, <1>3, SubtractedSide
<1>5. tells(sides, fill) = [sides EXCEPT ![fill.isBuy] = side]
  BY <1>2 DEF tells
<1>6. /\ tells(sides, fill) \in [BOOLEAN -> Sides] /\ tells(sides, fill)[fill.isBuy] = side
      /\ \A isBuy \in BOOLEAN : isBuy # fill.isBuy => tells(sides, fill)[isBuy] = sides[isBuy]
  BY <1>1, <1>4, <1>5
<1>7. ASSUME NEW account \in Accounts
      PROVE  have(sides, account) <= have(tells(sides, fill), account) + takes(fill, account)
  <2>1. PICK isBuy \in BOOLEAN, kind \in Kinds : isBuy = account[1] /\ kind = account[2]
    BY DEF Accounts
  <2>2. CASE isBuy # fill.isBuy
    <3>1. have(tells(sides, fill), account) = have(sides, account) /\ have(sides, account) \in Nat
      BY <1>6, <2>1, <2>2, HaveNat DEF have
    <3> QED BY <2>1, <2>2, <3>1 DEF takes
  <2>3. CASE isBuy = fill.isBuy
    <3>1. /\ have(sides, account) = amount(was, kind) /\ have(tells(sides, fill), account) = amount(side, kind)
          /\ takes(fill, account) = cost(fill, kind)
      BY <1>3, <1>6, <2>1, <2>3 DEF have, takes
    <3>2. CASE kind = "base"
      BY <1>4, <3>1, <3>2 DEF amount, cost
    <3>3. CASE kind # "base"
      <4>1. kind = "quote"
        BY <3>3 DEF Kinds
      <4>2. PICK x \in Nat, y \in Nat, q \in Nat :
              /\ x = amount(was, "quote") /\ y = amount(side, "quote")
              /\ q = quoteAmount(fill.quantity, fill.price)
        BY <1>1, <1>4, AmountNat, QuoteNat DEF Kinds
      <4>3. x <= y + lessOne(q)
        BY <1>4, <4>2 DEF lessOne
      <4> QED BY <3>1, <4>1, <4>2, <4>3 DEF cost
    <3> QED BY <3>2, <3>3
  <2> QED BY <2>2, <2>3
<1> QED BY <1>6, <1>7

LEMMA Told ==
  ASSUME fills \in Seq(Takers), reserved \in [BOOLEAN -> Sides]
  PROVE  /\ told[0] = reserved
         /\ \A i \in 1 .. Len(fills) : told[i] = tells(told[i - 1], fills[i])
         /\ \A i \in 0 .. Len(fills) : told[i] \in [BOOLEAN -> Sides]
<1> DEFINE n == Len(fills)
           S == [BOOLEAN -> Sides]
           step == [x \in S \X (1 .. n) |-> tells(x[1], fills[x[2]])]
<1>1. n \in Nat /\ \A i \in 1 .. n : fills[i] \in Takers
  OBVIOUS
<1>2. reserved \in S
  OBVIOUS
<1>3. step \in [S \X (1 .. n) -> S]
  BY <1>1, TellsTyped
<1>4. \A s \in S, i \in 1 .. n : step[<<s, i>>] = tells(s, fills[i])
  OBVIOUS
<1> HIDE DEF step, S
<1>5. PICK g \in [0 .. n -> S] : IsChain(g, n, reserved, step)
  <2> HIDE DEF n
  <2> QED BY <1>1, <1>2, <1>3, Chains
<1>6. \E h : h = [i \in 0 .. n |-> IF i = 0 THEN reserved ELSE tells(h[i - 1], fills[i])]
  <2>1. \A i \in 0 .. n : (IF i = 0 THEN reserved ELSE step[<<g[i - 1], i>>])
          = IF i = 0 THEN reserved ELSE tells(g[i - 1], fills[i])
    <3> SUFFICES ASSUME NEW i \in 0 .. n, i # 0
                 PROVE step[<<g[i - 1], i>>] = tells(g[i - 1], fills[i])
      OBVIOUS
    <3>1. i \in 1 .. n /\ i - 1 \in 0 .. n
      BY <1>1
    <3>2. g[i - 1] \in S
      BY <1>5, <3>1
    <3> QED BY <1>4, <3>1, <3>2
  <2>2. g = [i \in 0 .. n |-> g[i]] /\ \A i \in 0 .. n : g[i] = IF i = 0 THEN reserved ELSE step[<<g[i - 1], i>>]
    <3> HIDE DEF n
    <3> QED BY <1>1, <1>5 DEF IsChain
  <2>3. \A i \in 0 .. n : g[i] = IF i = 0 THEN reserved ELSE tells(g[i - 1], fills[i])
    BY <2>1, <2>2
  <2>4. g = [i \in 0 .. n |-> IF i = 0 THEN reserved ELSE tells(g[i - 1], fills[i])]
    <3> HIDE DEF n
    <3> QED BY <2>2, <2>3
  <2> QED BY <2>4
<1>7. told = CHOOSE h : h = [i \in 0 .. n |-> IF i = 0 THEN reserved ELSE tells(h[i - 1], fills[i])]
  BY DEF told, tells
<1>8. told = [i \in 0 .. n |-> IF i = 0 THEN reserved ELSE tells(told[i - 1], fills[i])]
  BY <1>6, <1>7
<1>9. told[0] = reserved /\ \A i \in 1 .. n : told[i] = tells(told[i - 1], fills[i])
  <2> HIDE DEF n
  <2> QED BY <1>1, <1>8
<1>10. ASSUME NEW i \in 1 .. n, told[i - 1] \in S PROVE told[i] \in S
  <2>1. \A sides \in S, fill \in Takers : tells(sides, fill) \in S
    BY TellsTyped DEF S
  <2> HIDE DEF n
  <2> QED BY <1>1, <1>9, <1>10, <2>1
<1>11. \A i \in 0 .. n : told[i] \in S
  <2> HIDE DEF n
  <2> QED BY <1>1, <1>2, <1>9, <1>10, ChainTyped
<1> QED BY <1>9, <1>11 DEF S

-----------------------------------------------------------------------------
(* Parts of the invariant, over a step *)

LEMMA TypeFacts ==
  ASSUME OwnTypeOK
  PROVE  /\ PairTypeOK /\ Deals!DealTypeOK /\ requests \in [Hashes -> Requests]
         /\ removals \in Seq(Removals) /\ reserved \in [BOOLEAN -> Sides] /\ fills \in Seq(Takers)
         /\ sold \in [OwnIds -> Nat] /\ cancelled \subseteq OwnIds /\ mishaps \subseteq Mishaps
BY DEF OwnTypeOK, Requests, Removals, Sides

LEMMA TypeFactsNext ==
  ASSUME OwnTypeOK'
  PROVE  /\ PairTypeOK' /\ Deals!DealTypeOK' /\ requests' \in [Hashes -> Requests]
         /\ removals' \in Seq(Removals) /\ reserved' \in [BOOLEAN -> Sides] /\ fills' \in Seq(Takers)
         /\ sold' \in [OwnIds -> Nat] /\ cancelled' \subseteq OwnIds /\ mishaps' \subseteq Mishaps
BY DEF OwnTypeOK, Requests, Removals, Sides

\* The deals and the requests of the other hashes stay as they are.
OthersStay(h) ==
  \A g \in Hashes \ {h} :
    /\ requests'[g] = requests[g] /\ deal'[g] = deal[g]
    /\ g \in failed' <=> g \in failed
    /\ g \in asking' <=> g \in asking

LEMMA DealsMove ==
  ASSUME DealsInv, NEW h \in Hashes, RequestInv(h)', OthersStay(h)
  PROVE  DealsInv'
<1>1. ASSUME NEW g \in Hashes \ {h} PROVE RequestInv(g)'
  <2>1. RequestInv(g)
    BY DEF DealsInv
  <2> QED BY <2>1 DEF OthersStay, RequestInv
<1> QED BY <1>1 DEF DealsInv

LEMMA HeldNat ==
  ASSUME OwnTypeOK, NEW h \in Hashes, NEW id \in OwnIds
  PROVE  held(h, id) \in Nat
<1>1. requests[h].quantity \in Nat
  BY DEF OwnTypeOK
<1> QED BY <1>1 DEF held

\* The holds and the swaps in progress do not change.
LEMMA HoldsStay ==
  ASSUME HoldsMatchSwaps, "releasedTwice" \notin mishaps' => "releasedTwice" \notin mishaps,
         \A id \in OwnIds : book'[id].hold = book[id].hold,
         \A id \in OwnIds, h \in Hashes : held(h, id)' = held(h, id)
  PROVE  HoldsMatchSwaps'
<1> SUFFICES ASSUME "releasedTwice" \notin mishaps', NEW id \in OwnIds
             PROVE  book'[id].hold = heldOf(id)'
  BY DEF HoldsMatchSwaps
<1>1. book[id].hold = heldOf(id)
  BY DEF HoldsMatchSwaps
<1> DEFINE q == [h \in Hashes |-> held(h, id)]
           r == [h \in Hashes |-> held(h, id)']
<1>2. \A h \in Hashes : q[h] = r[h]
  OBVIOUS
<1>3. heldOf(id) = SumFunctionOnSet(q, Hashes) /\ heldOf(id)' = SumFunctionOnSet(r, Hashes)
  BY DEF heldOf
<1> HIDE DEF q, r
<1>4. SumFunctionOnSet(q, Hashes) = SumFunctionOnSet(r, Hashes)
  BY <1>2, SumSame, OwnOrdersAssumption
<1> QED BY <1>1, <1>3, <1>4, Zenon

\* The hold of one order changes by what one swap holds more or less of it.
LEMMA HoldsMove ==
  ASSUME OwnTypeOK, OwnTypeOK', HoldsMatchSwaps,
         "releasedTwice" \notin mishaps' => "releasedTwice" \notin mishaps,
         NEW own \in OwnIds, NEW h \in Hashes, NEW was, NEW is,
         was = held(h, own), is = held(h, own)',
         "releasedTwice" \notin mishaps' => book'[own].hold + was = book[own].hold + is,
         \A id \in OwnIds \ {own} : book'[id].hold = book[id].hold,
         \A id \in OwnIds, g \in Hashes : id # own \/ g # h => held(g, id)' = held(g, id)
  PROVE  HoldsMatchSwaps'
<1> SUFFICES ASSUME "releasedTwice" \notin mishaps', NEW id \in OwnIds
             PROVE  book'[id].hold = heldOf(id)'
  BY DEF HoldsMatchSwaps
<1>1. book[id].hold = heldOf(id)
  BY DEF HoldsMatchSwaps
<1> DEFINE q == [g \in Hashes |-> held(g, id)]
           r == [g \in Hashes |-> held(g, id)']
<1>2. heldOf(id) = SumFunctionOnSet(q, Hashes) /\ heldOf(id)' = SumFunctionOnSet(r, Hashes)
  BY DEF heldOf
<1>3. \A g \in Hashes : q[g] = held(g, id) /\ r[g] = held(g, id)'
  OBVIOUS
<1>4. \A g \in Hashes : q[g] \in Nat /\ r[g] \in Nat
  <2>1. \A g \in Hashes : requests[g].quantity \in Nat /\ requests'[g].quantity \in Nat
    BY DEF OwnTypeOK
  <2> QED BY <2>1 DEF held
<1> HIDE DEF q, r
<1>5. CASE id = own
  <2>1. \A g \in Hashes \ {h} : q[g] = r[g]
    BY <1>3, <1>5
  <2>2. /\ SumFunctionOnSet(q, Hashes) \in Nat /\ SumFunctionOnSet(r, Hashes) \in Nat
        /\ SumFunctionOnSet(r, Hashes) + q[h] = SumFunctionOnSet(q, Hashes) + r[h]
    BY <1>4, <2>1, SumChange, OwnOrdersAssumption
  <2>3. PICK a, b : a = SumFunctionOnSet(q, Hashes) /\ b = SumFunctionOnSet(r, Hashes)
    BY Zenon
  <2>9. PICK x, y : x = book[id].hold /\ y = book'[id].hold
    BY Zenon
  <2>10. PICK m, n : m = q[h] /\ n = r[h]
    BY Zenon
  <2>4. a \in Nat /\ b \in Nat /\ m \in Nat /\ n \in Nat /\ b + m = a + n
    BY <1>4, <2>2, <2>3, <2>10
  <2>5. x = a
    BY <1>1, <1>2, <2>3, <2>9, Zenon
  <2>6. y + m = x + n
    BY <1>3, <1>5, <2>9, <2>10
  <2>7. y \in Nat
    BY <2>9 DEF OwnTypeOK, PairTypeOK
  <2>8. y = b
    BY <2>4, <2>5, <2>6, <2>7
  <2>11. heldOf(id)' = b
    BY <1>2, <2>3, Zenon
  <2> QED BY <2>8, <2>9, <2>11, Zenon
<1>6. CASE id # own
  <2>1. \A g \in Hashes : q[g] = r[g]
    BY <1>3, <1>6
  <2>2. SumFunctionOnSet(q, Hashes) = SumFunctionOnSet(r, Hashes)
    BY <2>1, SumSame, OwnOrdersAssumption
  <2>3. book'[id].hold = book[id].hold
    BY <1>6
  <2> QED BY <1>1, <1>2, <2>2, <2>3, Zenon
<1> QED BY <1>5, <1>6

\* Each swap in progress has its part of the order on hold.
LEMMA HoldIsThere ==
  ASSUME OwnTypeOK, HoldsMatchSwaps, "releasedTwice" \notin mishaps, NEW h \in Hashes, holding(h)
  PROVE  requests[h].quantity <= book[requests[h].order].hold
<1>1. PICK id \in OwnIds : id = requests[h].order
  BY DEF OwnTypeOK
<1> DEFINE q == [g \in Hashes |-> held(g, id)]
<1>2. \A g \in Hashes : q[g] \in Nat
  BY HeldNat
<1>3. q[h] = requests[h].quantity
  BY <1>1 DEF held
<1>4. heldOf(id) = SumFunctionOnSet(q, Hashes)
  BY DEF heldOf
<1> HIDE DEF q
<1>5. q[h] <= SumFunctionOnSet(q, Hashes)
  BY <1>2, SumAtLeast, OwnOrdersAssumption
<1>6. book[id].hold = heldOf(id)
  BY DEF HoldsMatchSwaps
<1>7. book[id].hold = SumFunctionOnSet(q, Hashes)
  BY <1>4, <1>6, Zenon
<1> QED BY <1>1, <1>3, <1>5, <1>7

\* While nothing is matched, what is reserved covers what is in the book.
Covered(account) == have(reserved, account) >= due(account)

LEMMA OfferedNat ==
  ASSUME PairIInv, NEW account \in Accounts
  PROVE  due(account) \in Nat
<1> DEFINE q == [id \in OwnIds |-> on(book[id], account)]
<1>1. \A id \in OwnIds : q[id] \in Nat
  BY OnNat DEF PairIInv, PairTypeOK
<1>2. due(account) = SumFunctionOnSet(q, OwnIds)
  BY DEF due
<1> HIDE DEF q
<1>3. SumFunctionOnSet(q, OwnIds) \in Nat
  BY <1>1, SumNat, OwnOrdersAssumption
<1> QED BY <1>2, <1>3, Zenon

\* Each match that has not been told leaves less.
LEMMA BudgetsFall ==
  ASSUME NEW n \in Nat, NEW left \in [0 .. n -> [Accounts -> Nat]], NEW account \in Accounts,
         \A i \in 1 .. n : left[i - 1][account] >= left[i][account]
  PROVE  left[0][account] >= left[n][account]
<1> DEFINE P == {i \in 0 .. n : left[0][account] >= left[i][account]}
<1>1. \A i \in 0 .. n : left[i][account] \in Nat
  OBVIOUS
<1>2. P \in SUBSET (0 .. n) /\ 0 \in P
  BY <1>1
<1>3. ASSUME NEW i \in 1 .. n, i - 1 \in P PROVE i \in P
  <2>1. i \in 0 .. n /\ i - 1 \in 0 .. n
    OBVIOUS
  <2>2. PICK a, b, c : a = left[0][account] /\ b = left[i - 1][account] /\ c = left[i][account]
    OBVIOUS
  <2>3. a \in Nat /\ b \in Nat /\ c \in Nat
    BY <1>1, <2>1, <2>2
  <2>4. a >= b /\ b >= c
    BY <1>3, <2>2
  <2>5. a >= c
    BY <2>3, <2>4
  <2> QED BY <2>1, <2>2, <2>5
<1>4. P = 0 .. n
  <2> HIDE DEF P
  <2> QED BY <1>2, <1>3, Indices
<1>5. n \in P
  <2> HIDE DEF P
  <2> QED BY <1>4
<1> QED BY <1>5

LEMMA BudgetCovers ==
  ASSUME OwnTypeOK, BudgetInv, "kept" \notin mishaps, NEW account \in Accounts, PairIInv
  PROVE  Covered(account)
<1>1. PICK left \in [0 .. Len(fills) -> [Accounts -> Nat]] : Budgets(left)
  BY DEF BudgetInv
<1>2. PICK n \in Nat : n = Len(fills)
  BY TypeFacts
<1>10. left \in [0 .. n -> [Accounts -> Nat]]
  BY <1>2, Zenon
<1>9. \A i \in 0 .. n : left[i][account] \in Nat
  BY <1>10
<1>3. \A i \in 1 .. n : left[i - 1][account] >= left[i][account]
  <2> SUFFICES ASSUME NEW i \in 1 .. n PROVE left[i - 1][account] >= left[i][account]
    OBVIOUS
  <2>1. takes(fills[i], account) \in Nat
    <3>1. fills \in Seq(Takers)
      BY TypeFacts
    <3>2. fills[i] \in Takers
      BY <1>2, <3>1
    <3> QED BY <3>2, TakesNat
  <2>2. left[i - 1][account] >= left[i][account] + takes(fills[i], account)
    BY <1>1, <1>2 DEF Budgets
  <2>3. left[i - 1][account] \in Nat /\ left[i][account] \in Nat
    <3>1. i - 1 \in 0 .. n /\ i \in 0 .. n
      OBVIOUS
    <3> QED BY <1>9, <3>1
  <2> QED BY <2>1, <2>2, <2>3
<1>4. left[0][account] >= left[n][account]
  BY <1>3, <1>10, BudgetsFall
<1>5. have(reserved, account) >= left[0][account] /\ left[n][account] >= due(account)
  BY <1>1, <1>2 DEF Budgets
<1>6. left[0][account] \in Nat /\ left[n][account] \in Nat /\ have(reserved, account) \in Nat
  <2>1. reserved \in [BOOLEAN -> Sides]
    BY TypeFacts
  <2>2. have(reserved, account) \in Nat
    BY <2>1, HaveNat
  <2>3. 0 \in 0 .. n /\ n \in 0 .. n
    OBVIOUS
  <2> QED BY <1>9, <2>2, <2>3
<1>7. PICK o \in Nat : o = due(account)
  BY OfferedNat
<1>8. have(reserved, account) >= o
  BY <1>4, <1>5, <1>6, <1>7
<1> QED BY <1>7, <1>8 DEF Covered

LEMMA CoverIsBudget ==
  ASSUME OwnTypeOK', PairIInv', fills' = <<>>, "kept" \notin mishaps' => \A account \in Accounts : Covered(account)'
  PROVE  BudgetInv'
<1> SUFFICES ASSUME "kept" \notin mishaps'
             PROVE  \E left \in [0 .. Len(fills') -> [Accounts -> Nat]] : Budgets(left)'
  BY DEF BudgetInv
<1>1. \A account \in Accounts : have(reserved', account) \in Nat
  BY TypeFactsNext, HaveNat
<1>2. Len(fills') = 0 /\ 1 .. Len(fills') = {}
  OBVIOUS
<1>3. PICK base \in [Accounts -> Nat] : \A account \in Accounts : base[account] = have(reserved', account)
  <2> DEFINE all == [account \in Accounts |-> have(reserved', account)]
  <2>1. all \in [Accounts -> Nat] /\ \A account \in Accounts : all[account] = have(reserved', account)
    BY <1>1
  <2> HIDE DEF all
  <2> QED BY <2>1
<1>4. PICK left \in [0 .. 0 -> [Accounts -> Nat]] : left[0] = base
  <2>1. [i \in 0 .. 0 |-> base] \in [0 .. 0 -> [Accounts -> Nat]] /\ [i \in 0 .. 0 |-> base][0] = base
    OBVIOUS
  <2> QED BY <2>1
<1>5. \A account \in Accounts : have(reserved', account) >= left[0][account]
  BY <1>1, <1>3, <1>4
<1>6. \A account \in Accounts : left[0][account] >= due(account)'
  BY <1>3, <1>4, Zenon DEF Covered
<1>7. Budgets(left)'
  BY <1>2, <1>5, <1>6, Zenon DEF Budgets
<1>8. left \in [0 .. Len(fills') -> [Accounts -> Nat]]
  BY <1>2, Zenon
<1> QED BY <1>7, <1>8

\* What is due for the orders of a side changes as the one order does.
LEMMA OfferedMoves ==
  ASSUME PairIInv, PairIInv', NEW own \in OwnIds, NEW account \in Accounts,
         \A id \in OwnIds \ {own} : book'[id] = book[id],
         NEW was, NEW is, was = on(book[own], account), is = on(book'[own], account)
  PROVE  \E a, b \in Nat : /\ a = due(account) /\ b = due(account)'
                           /\ was \in Nat /\ is \in Nat /\ was <= a /\ b + was = a + is
<1> DEFINE q == [id \in OwnIds |-> on(book[id], account)]
           r == [id \in OwnIds |-> on(book[id], account)']
<1>1. \A id \in OwnIds : q[id] \in Nat /\ r[id] \in Nat
  BY OnNat DEF PairIInv, PairTypeOK
<1>2. \A id \in OwnIds \ {own} : q[id] = r[id]
  BY Zenon
<1>3. q[own] = was /\ r[own] = is
  OBVIOUS
<1>4. due(account) = SumFunctionOnSet(q, OwnIds) /\ due(account)' = SumFunctionOnSet(r, OwnIds)
  BY DEF due
<1> HIDE DEF q, r
<1>5. /\ SumFunctionOnSet(q, OwnIds) \in Nat /\ SumFunctionOnSet(r, OwnIds) \in Nat
      /\ SumFunctionOnSet(r, OwnIds) + q[own] = SumFunctionOnSet(q, OwnIds) + r[own]
      /\ q[own] <= SumFunctionOnSet(q, OwnIds)
  BY <1>1, <1>2, SumChange, SumAtLeast, OwnOrdersAssumption
<1>6. PICK a, b \in Nat : a = SumFunctionOnSet(q, OwnIds) /\ b = SumFunctionOnSet(r, OwnIds)
  BY <1>5
<1>7. was \in Nat /\ is \in Nat /\ was <= a /\ b + was = a + is
  BY <1>1, <1>3, <1>5, <1>6
<1>8. a = due(account) /\ b = due(account)'
  BY <1>4, <1>6, Zenon
<1> QED BY <1>7, <1>8, Zenon

\* What is reserved and what is in the book change together, for one order.
LEMMA CoverMoves ==
  ASSUME OwnTypeOK, OwnTypeOK', PairIInv, PairIInv', NEW own \in OwnIds, NEW account \in Accounts,
         \A id \in OwnIds \ {own} : book'[id] = book[id],
         NEW was \in Nat, NEW is \in Nat, was = on(book[own], account), is = on(book'[own], account),
         have(reserved, account) + is <= have(reserved', account) + was,
         Covered(account)
  PROVE  Covered(account)'
<1>1. PICK a, b \in Nat : /\ a = due(account) /\ b = due(account)'
                          /\ was \in Nat /\ is \in Nat /\ was <= a /\ b + was = a + is
  BY OfferedMoves
<1>2. PICK x \in Nat, y \in Nat : x = have(reserved, account) /\ y = have(reserved', account)
  BY TypeFacts, TypeFactsNext, HaveNat
<1>3. x >= a
  BY <1>1, <1>2 DEF Covered
<1>4. y >= b
  BY <1>1, <1>2, <1>3
<1> QED BY <1>1, <1>2, <1>4, Zenon DEF Covered

\* One own order is replaced in the book by one that covers its hold.
Replaces(id, order) ==
  /\ order \in Orders /\ order.hold <= order.quantity
  /\ book' = [book EXCEPT ![id] = order]
  /\ queue' \in {queue, queue \cup {id}, queue \ {id}}
  /\ offered' \in [Ids -> Nat] /\ \A other \in Ids \ {id} : offered'[other] = offered[other]
  /\ UNCHANGED matchVars

LEMMA ReplacesInv ==
  ASSUME PairIInv, NEW id \in OwnIds, NEW order, Replaces(id, order)
  PROVE  /\ PairIInv' /\ book'[id] = order
         /\ \A other \in Ids \ {id} : book'[other] = book[other]
<1>1. PairTypeOK /\ HoldsCovered /\ PeerOrdersIntact
  BY DEF PairIInv
<1>2. /\ order \in Orders /\ order.hold <= order.quantity
      /\ book' = [book EXCEPT ![id] = order] /\ queue' \in {queue, queue \cup {id}, queue \ {id}}
      /\ UNCHANGED <<taker, matching, aside, takers, matched>>
      /\ offered' \in [Ids -> Nat] /\ \A other \in Ids \ {id} : offered'[other] = offered[other]
  BY DEF Replaces, matchVars
<1>3. book \in [Ids -> Orders] /\ id \in Ids /\ \A p \in PeerIds : p # id /\ p \in Ids
  BY <1>1, IdsAssumption DEF PairTypeOK
<1>4. /\ book' \in [Ids -> Orders] /\ book'[id] = order
      /\ \A other \in Ids \ {id} : book'[other] = book[other]
  <2> HIDE DEF Orders
  <2> QED BY <1>2, <1>3
<1>5. PairTypeOK'
  BY <1>1, <1>2, <1>3, <1>4 DEF PairTypeOK
<1>6. HoldsCovered'
  BY <1>1, <1>2, <1>3, <1>4 DEF HoldsCovered
<1>7. PeerOrdersIntact'
  <2> SUFFICES ASSUME NEW p \in PeerIds
               PROVE  /\ p \in live' <=> p \in queue'
                      /\ matched'[p] + book'[p].quantity <= offered'[p]
    BY DEF PeerOrdersIntact
  <2>1. p \in Ids /\ p # id /\ book'[p] = book[p] /\ offered'[p] = offered[p] /\ matched'[p] = matched[p]
    BY <1>2, <1>3, <1>4
  <2>2. p \in live <=> p \in queue
    BY <1>1 DEF PeerOrdersIntact
  <2>3. matched[p] + book[p].quantity <= offered[p]
    BY <1>1 DEF PeerOrdersIntact
  <2>4. p \in queue' <=> p \in queue
    BY <1>2, <2>1
  <2>5. p \in live' <=> p \in live
    BY <2>1
  <2> QED BY <2>1, <2>2, <2>3, <2>4, <2>5
<1> QED BY <1>4, <1>5, <1>6, <1>7 DEF PairIInv

\* The book, and all that belongs to it, stays as it is.
LEMMA QuietInv ==
  ASSUME OwnIInv, UNCHANGED <<pairVars, removals, reserved, fills, sold, cancelled, mishaps>>,
         requests' \in [Hashes -> Requests], Deals!DealTypeOK', DealsInv',
         down' \in {"no", "hold", "removal", "reserved", "database"},
         \A id \in OwnIds, h \in Hashes : held(h, id)' = held(h, id)
  PROVE  OwnIInv'
<1>1. PairIInv'
  BY DEF OwnIInv, PairIInv, PairTypeOK, HoldsCovered, PeerOrdersIntact, pairVars
<1>2. OwnTypeOK'
  BY <1>1 DEF OwnIInv, OwnTypeOK, PairIInv, Requests
<1>3. SwapsNotOversold'
  BY DEF OwnIInv, SwapsNotOversold, pairVars
<1>4. HoldsMatchSwaps'
  <2>1. \A id \in OwnIds : book'[id].hold = book[id].hold
    BY DEF pairVars
  <2> QED BY <2>1, HoldsStay DEF OwnIInv
<1>5. CancelInv'
  BY DEF OwnIInv, CancelInv, awaited, pairVars
<1>6. BudgetInv'
  <2>1. /\ book' = book /\ reserved' = reserved /\ fills' = fills /\ matching' = matching /\ mishaps' = mishaps
    BY DEF pairVars
  <2>2. BudgetInv
    BY DEF OwnIInv
  <2>3. \A account \in Accounts : due(account)' = due(account)
    BY <2>1 DEF due
  <2>4. ASSUME "kept" \notin mishaps'
        PROVE  \E left \in [0 .. Len(fills') -> [Accounts -> Nat]] : Budgets(left)'
    <3>1. PICK left \in [0 .. Len(fills) -> [Accounts -> Nat]] : Budgets(left)
      BY <2>1, <2>2, <2>4 DEF BudgetInv
    <3>2. Budgets(left)'
      BY <2>1, <2>3, <3>1, Zenon DEF Budgets
    <3> QED BY <2>1, <3>2
  <2> QED BY <2>1, <2>2, <2>4 DEF BudgetInv
<1> QED BY <1>1, <1>2, <1>3, <1>4, <1>5, <1>6 DEF OwnIInv

\* Nothing is known, of any order or swap.
Blank ==
  /\ book = [id \in Ids |-> NoOrder] /\ queue = {} /\ aside = {}
  /\ taker = NoTaker /\ matching = FALSE /\ takers = 0
  /\ offered = [id \in Ids |-> 0] /\ matched = [id \in Ids |-> 0]
  /\ Deals!Init
  /\ requests = [h \in Hashes |-> NoRequest] /\ removals = <<>>
  /\ reserved = [isBuy \in BOOLEAN |-> NothingReserved]
  /\ fills = <<>> /\ sold = [id \in OwnIds |-> 0] /\ cancelled = {} /\ mishaps = {}
  /\ down \in {"no", "hold", "removal", "reserved", "database"}

LEMMA BlankInv == Blank => OwnIInv
<1> SUFFICES ASSUME Blank PROVE OwnIInv
  OBVIOUS
<1>1. PairIInv
  <2>1. PairInit
    BY DEF Blank, PairInit
  <2> QED BY <2>1, PairInitInv
<1>2. NoRequest \in [order : OwnIds, quantity : Nat, stage : Stages] /\ NoRequest.stage = "none" /\ NoRequest.quantity = 0
  BY OwnOrdersAssumption DEF NoRequest, Stages
<1>3. OwnTypeOK
  <2>1. Deals!DealTypeOK
    BY DEF Blank, Deals!DealTypeOK, Deals!Init, Deals!DealPhases
  <2>2. requests \in [Hashes -> [order : OwnIds, quantity : Nat, stage : Stages]]
    BY <1>2 DEF Blank
  <2>3. reserved \in [BOOLEAN -> [base : Nat, quote : Nat, parts : Nat]]
    BY DEF Blank, NothingReserved
  <2>4. /\ removals \in Seq([order : OwnIds, left : Nat \ {0}]) /\ fills \in Seq(Takers)
        /\ sold \in [OwnIds -> Nat] /\ cancelled \subseteq OwnIds /\ mishaps \subseteq Mishaps
        /\ down \in {"no", "hold", "removal", "reserved", "database"}
    BY DEF Blank
  <2> QED BY <1>1, <2>1, <2>2, <2>3, <2>4 DEF OwnTypeOK, PairIInv
<1>4. \A h \in Hashes : requests[h].stage = "none" /\ requests[h].quantity = 0 /\ deal[h] = "none"
  BY <1>2 DEF Blank, Deals!Init
<1>5. failed = {} /\ asking = {}
  BY DEF Blank, Deals!Init
<1>6. DealsInv
  BY <1>4, <1>5 DEF DealsInv, RequestInv
<1>7. \A id \in OwnIds : book[id] = NoOrder /\ book[id].hold = 0 /\ book[id].quantity = 0 /\ sold[id] = 0 /\ offered[id] = 0
  BY DEF Blank
<1>8. SwapsNotOversold
  <2> SUFFICES ASSUME NEW id \in OwnIds PROVE sold[id] + book[id].quantity <= offered[id]
    BY DEF SwapsNotOversold
  <2>1. book[id].quantity = 0 /\ sold[id] = 0 /\ offered[id] = 0
    BY <1>7
  <2> QED BY <2>1
<1>9. HoldsMatchSwaps
  <2> SUFFICES ASSUME NEW id \in OwnIds PROVE book[id].hold = heldOf(id)
    BY DEF HoldsMatchSwaps
  <2> DEFINE q == [h \in Hashes |-> held(h, id)]
  <2>1. \A h \in Hashes : q[h] = 0
    BY <1>4 DEF held, holding
  <2>2. heldOf(id) = SumFunctionOnSet(q, Hashes)
    BY DEF heldOf
  <2> HIDE DEF q
  <2>3. SumFunctionOnSet(q, Hashes) = 0
    BY <2>1, SumZero, OwnOrdersAssumption
  <2> QED BY <1>7, <2>2, <2>3, Zenon
<1>10. CancelInv
  BY DEF Blank, CancelInv
<1>11. BudgetInv
  <2>1. \A account \in Accounts : have(reserved, account) = 0
    BY DEF Blank, NothingReserved, Accounts, Kinds, have, amount
  <2>2. ASSUME NEW account \in Accounts PROVE due(account) = 0
    <3> DEFINE q == [id \in OwnIds |-> on(book[id], account)]
    <3>1. \A id \in OwnIds : q[id] = 0
      BY <1>7, NoOrderIsOrder, WorthNat DEF on, Accounts
    <3>2. due(account) = SumFunctionOnSet(q, OwnIds)
      BY DEF due
    <3> HIDE DEF q
    <3>3. SumFunctionOnSet(q, OwnIds) = 0
      BY <3>1, SumZero, OwnOrdersAssumption
    <3> QED BY <3>2, <3>3, Zenon
  <2>3. fills = <<>> /\ Len(fills) = 0 /\ 1 .. Len(fills) = {}
    BY DEF Blank
  <2>4. PICK left \in [0 .. 0 -> [Accounts -> Nat]] : \A account \in Accounts : left[0][account] = 0
    <3> DEFINE zero == [i \in 0 .. 0 |-> [account \in Accounts |-> 0]]
    <3>1. zero \in [0 .. 0 -> [Accounts -> Nat]] /\ \A account \in Accounts : zero[0][account] = 0
      OBVIOUS
    <3> HIDE DEF zero
    <3> QED BY <3>1
  <2>5. \A account \in Accounts : have(reserved, account) >= left[0][account]
    BY <2>1, <2>4
  <2>6. ASSUME NEW account \in Accounts PROVE left[0][account] >= due(account)
    <3>1. PICK o : o = due(account)
      BY Zenon
    <3>2. o = 0
      BY <2>2, <3>1, Zenon
    <3>3. left[0][account] >= o
      BY <2>4, <3>2
    <3> QED BY <3>1, <3>3, Zenon
  <2>7. \A account \in Accounts : left[Len(fills)][account] >= due(account)
    BY <2>3, <2>6, Zenon
  <2>8. Budgets(left)
    BY <2>3, <2>5, <2>7, Zenon DEF Budgets
  <2>9. left \in [0 .. Len(fills) -> [Accounts -> Nat]]
    BY <2>3, Zenon
  <2> QED BY <2>3, <2>8, <2>9 DEF BudgetInv
<1> QED BY <1>1, <1>3, <1>6, <1>8, <1>9, <1>10, <1>11 DEF OwnIInv

LEMMA OwnInitInv ==
  ASSUME OwnInit
  PROVE  OwnIInv
<1>1. Blank
  BY DEF OwnInit, PairInit, Blank
<1> QED BY <1>1, BlankInv

LEMMA StopsInv ==
  ASSUME NEW reason \in {"hold", "removal", "reserved", "database"}, Stops(reason)
  PROVE  OwnIInv'
<1>1. Blank'
  BY DEF Stops, Blank, Deals!Stop, Deals!Init
<1> QED BY <1>1, BlankInv, PTL

-----------------------------------------------------------------------------
(* Steps of deals and requests that leave the book alone *)

\* The request and the deal of one hash take a step.
Moves(h) ==
  /\ requests' \in [Hashes -> Requests] /\ Deals!DealTypeOK'
  /\ requests'[h].order = requests[h].order /\ requests'[h].quantity = requests[h].quantity
  /\ OthersStay(h)

LEMMA MovesFacts ==
  ASSUME OwnIInv, NEW h \in Hashes, Moves(h), RequestInv(h)'
  PROVE  /\ DealsInv'
         /\ \A id \in OwnIds, g \in Hashes : g # h => held(g, id)' = held(g, id)
<1>1. OthersStay(h) /\ DealsInv
  BY DEF Moves, OwnIInv
<1>2. DealsInv'
  BY <1>1, DealsMove
<1>3. ASSUME NEW id \in OwnIds, NEW g \in Hashes, g # h PROVE held(g, id)' = held(g, id)
  <2>1. requests'[g] = requests[g] /\ deal'[g] = deal[g] /\ (g \in failed' <=> g \in failed)
    BY <1>1, <1>3 DEF OthersStay
  <2> QED BY <2>1 DEF held, holding, releasedByEvent
<1> QED BY <1>2, <1>3

LEMMA MoveQuiet ==
  ASSUME OwnIInv, NEW h \in Hashes, Moves(h), RequestInv(h)', holding(h)' <=> holding(h),
         UNCHANGED <<pairVars, removals, reserved, fills, sold, cancelled, mishaps, down>>
  PROVE  OwnIInv'
<1>1. \A id \in OwnIds : held(h, id)' = held(h, id)
  BY DEF held, Moves
<1>2. DealsInv' /\ \A id \in OwnIds, g \in Hashes : held(g, id)' = held(g, id)
  BY <1>1, MovesFacts
<1>3. down' \in {"no", "hold", "removal", "reserved", "database"}
  BY DEF OwnIInv, OwnTypeOK
<1> QED BY <1>2, <1>3, QuietInv DEF Moves

\* A step of handleSwapRequest or persistTrade.
LEMMA StagedMoves ==
  ASSUME OwnIInv, NEW h \in Hashes, NEW stage \in Stages, staged(h, stage)
  PROVE  /\ requests' \in [Hashes -> Requests] /\ requests'[h].stage = stage
         /\ requests'[h].order = requests[h].order /\ requests'[h].quantity = requests[h].quantity
         /\ \A g \in Hashes \ {h} : requests'[g] = requests[g]
<1>1. requests \in [Hashes -> Requests]
  BY TypeFacts DEF OwnIInv
<1>2. requests[h] \in Requests
  BY <1>1
<1>3. [requests[h] EXCEPT !.stage = stage] \in Requests
  BY <1>2 DEF Requests
<1>4. requests' = [requests EXCEPT ![h] = [requests[h] EXCEPT !.stage = stage]]
  BY DEF staged
<1>5. requests'[h] = [requests[h] EXCEPT !.stage = stage]
  BY <1>1, <1>4
<1>6. requests' \in [Hashes -> Requests] /\ \A g \in Hashes \ {h} : requests'[g] = requests[g]
  BY <1>1, <1>3, <1>4
<1>7. /\ requests'[h].stage = stage /\ requests'[h].order = requests[h].order
      /\ requests'[h].quantity = requests[h].quantity
  BY <1>2, <1>5 DEF Requests
<1> QED BY <1>6, <1>7

\* What each step of a deal does.
LEMMA DealSteps ==
  ASSUME Deals!DealTypeOK, NEW h \in Hashes,
         \/ Deals!Create(h) \/ Deals!Fail(h) \/ Deals!Refuse(h) \/ Deals!Agree(h)
         \/ Deals!Answer(h) \/ Deals!Withdraw(h) \/ Deals!Pay(h) \/ UNCHANGED <<deal, failed, asking>>
  PROVE  /\ Deals!DealTypeOK'
         /\ \A g \in Hashes \ {h} : /\ deal'[g] = deal[g]
                                    /\ g \in failed' <=> g \in failed
                                    /\ g \in asking' <=> g \in asking
         /\ Deals!Create(h) => /\ deal[h] = "none" /\ deal'[h] = "created"
                               /\ (h \in failed' <=> h \in failed) /\ h \in asking'
         /\ Deals!Fail(h) => /\ deal'[h] = deal[h] /\ h \in failed' /\ (h \in asking' <=> h \in asking)
                             /\ deal[h] \in {"created", "agreed"} /\ h \notin failed
         /\ Deals!Refuse(h) => /\ deal[h] = "created" /\ deal'[h] = deal[h] /\ h \in failed' /\ h \notin asking'
         /\ Deals!Agree(h) => /\ deal[h] = "created" /\ deal'[h] = "agreed" /\ h \notin failed
                              /\ h \notin failed' /\ h \in asking'
         /\ Deals!Answer(h) => /\ deal[h] = "agreed" /\ deal'[h] = deal[h] /\ (h \in failed' <=> h \in failed)
                               /\ h \notin asking'
         /\ Deals!Withdraw(h) => /\ deal[h] = "agreed" /\ deal'[h] = deal[h] /\ h \in failed' /\ h \notin asking'
         /\ Deals!Pay(h) => /\ deal[h] = "agreed" /\ deal'[h] = "paid" /\ h \notin failed
                            /\ h \notin failed' /\ h \notin asking /\ h \notin asking'
BY DEF Deals!DealTypeOK, Deals!DealPhases, Deals!Create, Deals!Fail, Deals!Refuse, Deals!Agree,
       Deals!Answer, Deals!Withdraw, Deals!Pay, Deals!canFail, Deals!canPay

LEMMA RequestSavedInv ==
  ASSUME OwnIInv, NEW h \in Hashes, RequestSaved(h)
  PROVE  OwnIInv'
<1>1. PICK stage \in {"asked", "refused"} :
        /\ staged(h, stage)
        /\ \/ stage = "asked" /\ Deals!Create(h)
           \/ stage = "refused" /\ UNCHANGED <<deal, failed, asking>>
  BY DEF RequestSaved
<1>2. Deals!DealTypeOK /\ RequestInv(h) /\ stage \in Stages /\ requests[h].stage = "saving"
  BY TypeFacts DEF OwnIInv, DealsInv, Stages, RequestSaved
<1>3. /\ requests' \in [Hashes -> Requests] /\ requests'[h].stage = stage
      /\ requests'[h].order = requests[h].order /\ requests'[h].quantity = requests[h].quantity
      /\ \A g \in Hashes \ {h} : requests'[g] = requests[g]
  BY <1>1, <1>2, StagedMoves
<1>4. Moves(h)
  BY <1>1, <1>2, <1>3, DealSteps DEF Moves, OthersStay
<1>5. RequestInv(h)' /\ (holding(h)' <=> holding(h))
  BY <1>1, <1>2, <1>3, DealSteps DEF RequestInv, holding, releasedByEvent
<1> QED BY <1>4, <1>5, MoveQuiet DEF RequestSaved

LEMMA DealAgreedInv ==
  ASSUME OwnIInv, NEW h \in Hashes, DealAgreed(h)
  PROVE  OwnIInv'
<1>1. requests[h].stage = "asked" /\ Deals!Agree(h) /\ requests' = requests
  BY DEF DealAgreed
<1>2. Deals!DealTypeOK /\ RequestInv(h) /\ requests \in [Hashes -> Requests]
  BY TypeFacts DEF OwnIInv, DealsInv
<1>3. Moves(h)
  BY <1>1, <1>2, DealSteps DEF Moves, OthersStay
<1>4. RequestInv(h)' /\ (holding(h)' <=> holding(h))
  BY <1>1, <1>2, DealSteps DEF RequestInv, holding, releasedByEvent
<1> QED BY <1>3, <1>4, MoveQuiet DEF DealAgreed

LEMMA DealAnsweredInv ==
  ASSUME OwnIInv, NEW h \in Hashes, DealAnswered(h)
  PROVE  OwnIInv'
<1>1. requests[h].stage = "asked" /\ Deals!Answer(h) /\ staged(h, "accepted")
  BY DEF DealAnswered
<1>2. Deals!DealTypeOK /\ RequestInv(h) /\ "accepted" \in Stages
  BY TypeFacts DEF OwnIInv, DealsInv, Stages
<1>3. /\ requests' \in [Hashes -> Requests] /\ requests'[h].stage = "accepted"
      /\ requests'[h].order = requests[h].order /\ requests'[h].quantity = requests[h].quantity
      /\ \A g \in Hashes \ {h} : requests'[g] = requests[g]
  BY <1>1, <1>2, StagedMoves
<1>4. Moves(h)
  BY <1>1, <1>2, <1>3, DealSteps DEF Moves, OthersStay
<1>5. RequestInv(h)' /\ (holding(h)' <=> holding(h))
  BY <1>1, <1>2, <1>3, DealSteps DEF RequestInv, holding, releasedByEvent
<1> QED BY <1>4, <1>5, MoveQuiet DEF DealAnswered

LEMMA TradeSavedInv ==
  ASSUME OwnIInv, NEW h \in Hashes, TradeSaved(h)
  PROVE  OwnIInv'
<1>1. requests[h].stage = "trading" /\ staged(h, "over") /\ UNCHANGED <<deal, failed, asking>>
  BY DEF TradeSaved
<1>2. Deals!DealTypeOK /\ RequestInv(h) /\ "over" \in Stages
  BY TypeFacts DEF OwnIInv, DealsInv, Stages
<1>3. /\ requests' \in [Hashes -> Requests] /\ requests'[h].stage = "over"
      /\ requests'[h].order = requests[h].order /\ requests'[h].quantity = requests[h].quantity
      /\ \A g \in Hashes \ {h} : requests'[g] = requests[g]
  BY <1>1, <1>2, StagedMoves
<1>4. Moves(h)
  BY <1>1, <1>2, <1>3, DealSteps DEF Moves, OthersStay
<1>5. RequestInv(h)' /\ (holding(h)' <=> holding(h))
  BY <1>1, <1>2, <1>3 DEF RequestInv, holding, releasedByEvent
<1> QED BY <1>4, <1>5, MoveQuiet DEF TradeSaved

-----------------------------------------------------------------------------
(* Steps that change one own order *)

\* No more of the reserved amounts goes than one order gets smaller.
Settles(id, order) ==
  \A account \in Accounts :
    have(reserved, account) + on(order, account) <= have(reserved', account) + on(book[id], account)

\* All but the parts about holds, swaps and cancellations.
LEMMA BookStep ==
  ASSUME OwnIInv, ~matching, NEW id \in OwnIds, NEW order, Replaces(id, order),
         requests' \in [Hashes -> Requests], Deals!DealTypeOK', DealsInv',
         removals' \in Seq(Removals), reserved' \in [BOOLEAN -> Sides], fills' = fills,
         sold' \in [OwnIds -> Nat], \A other \in OwnIds \ {id} : sold'[other] = sold[other],
         sold'[id] + order.quantity <= offered'[id],
         cancelled' \subseteq OwnIds, mishaps \subseteq mishaps', mishaps' \subseteq Mishaps, down' = down,
         Settles(id, order)
  PROVE  /\ PairIInv' /\ OwnTypeOK' /\ SwapsNotOversold' /\ BudgetInv'
         /\ book'[id] = order /\ \A other \in Ids \ {id} : book'[other] = book[other]
<1>1. PairIInv' /\ book'[id] = order /\ \A other \in Ids \ {id} : book'[other] = book[other]
  BY ReplacesInv DEF OwnIInv
<1>2. OwnTypeOK'
  <2>1. fills' \in Seq(Takers)
    BY TypeFacts DEF OwnIInv
  <2> QED BY <1>1, <2>1 DEF OwnIInv, OwnTypeOK, PairIInv, Requests, Removals, Sides
<1>3. SwapsNotOversold'
  <2> SUFFICES ASSUME NEW other \in OwnIds PROVE sold'[other] + book'[other].quantity <= offered'[other]
    BY DEF SwapsNotOversold
  <2>1. CASE other = id
    BY <1>1, <2>1
  <2>2. CASE other # id
    <3>1. sold[other] + book[other].quantity <= offered[other]
      BY DEF OwnIInv, SwapsNotOversold
    <3>2. sold'[other] = sold[other] /\ book'[other] = book[other] /\ offered'[other] = offered[other]
      BY <1>1, <2>2 DEF Replaces
    <3> QED BY <3>1, <3>2
  <2> QED BY <2>1, <2>2
<1>4. BudgetInv'
  <2>1. fills' = <<>>
    BY DEF OwnIInv, BudgetInv
  <2>2. ASSUME "kept" \notin mishaps', NEW account \in Accounts PROVE Covered(account)'
    <3>1. Covered(account)
      BY <2>2, BudgetCovers DEF OwnIInv
    <3>2. order \in Orders /\ book[id] \in Orders
      BY DEF Replaces, OwnIInv, PairIInv, PairTypeOK
    <3>3. PICK was \in Nat, is \in Nat : was = on(book[id], account) /\ is = on(order, account)
      BY <3>2, OnNat
    <3>4. was = on(book[id], account) /\ is = on(book'[id], account)
      BY <1>1, <3>3
    <3>5. have(reserved, account) + is <= have(reserved', account) + was
      BY <3>3 DEF Settles
    <3>6. \A other \in OwnIds \ {id} : book'[other] = book[other]
      BY <1>1
    <3>7. OwnTypeOK /\ PairIInv
      BY DEF OwnIInv
    <3> QED BY <1>1, <1>2, <3>1, <3>4, <3>5, <3>6, <3>7, CoverMoves
  <2> QED BY <1>1, <1>2, <2>1, <2>2, CoverIsBudget
<1> QED BY <1>1, <1>2, <1>3, <1>4

\* Orders that were cancelled before wait on, and one that is cancelled now waits.
LEMMA CancelMoves ==
  ASSUME OwnIInv, NEW id \in OwnIds, NEW order, Replaces(id, order), mishaps \subseteq mishaps',
         cancelled' \subseteq OwnIds, cancelled' \subseteq cancelled \cup {id},
         id \in cancelled' => offered'[id] > 0,
         \A other \in OwnIds \ {id} : mishaps' \subseteq {"kept"} /\ awaited(other) => awaited(other)',
         mishaps' \subseteq {"kept"} /\ id \in cancelled' /\ order.quantity > 0
           => order.quantity = order.hold /\ awaited(id)'
  PROVE  CancelInv'
<1>1. book'[id] = order /\ \A other \in Ids \ {id} : book'[other] = book[other]
  BY ReplacesInv DEF OwnIInv
<1>2. CancelInv /\ book \in [Ids -> Orders]
  BY DEF OwnIInv, PairIInv, PairTypeOK
<1>3. \A other \in cancelled' : offered'[other] > 0
  BY <1>2 DEF CancelInv, Replaces
<1>4. ASSUME mishaps' \subseteq {"kept"}, NEW other \in cancelled' \cap live'
      PROVE  available(other)' = 0 /\ awaited(other)'
  <2>1. CASE other = id
    <3>1. order.quantity > 0
      BY <1>1, <1>4, <2>1
    <3>2. order.quantity = order.hold /\ awaited(id)'
      BY <1>4, <2>1, <3>1
    <3>3. order \in Orders
      BY DEF Replaces
    <3> QED BY <1>1, <2>1, <3>2, <3>3
  <2>2. CASE other # id
    <3>1. other \in cancelled /\ book'[other] = book[other] /\ other \in OwnIds /\ other \in Ids
      BY <1>1, <1>4, <2>2
    <3>2. other \in live
      BY <1>4, <3>1
    <3>3. available(other) = 0 /\ awaited(other)
      BY <1>2, <1>4, <3>1, <3>2 DEF CancelInv
    <3>4. available(other)' = 0
      BY <3>1, <3>3
    <3> QED BY <1>4, <2>2, <3>1, <3>3, <3>4
  <2> QED BY <2>1, <2>2
<1> QED BY <1>3, <1>4 DEF CancelInv

\* Nobody waits for less, and nothing else of the other orders changes.
LEMMA WaitsStay ==
  ASSUME OwnIInv, NEW other \in OwnIds, book'[other] = book[other], awaited(other), NEW waits,
         removals' = waits,
         \A i \in DOMAIN removals : removals[i].order = other =>
           \E k \in DOMAIN waits : waits[k] = removals[i]
  PROVE  awaited(other)'
<1>1. PICK i \in DOMAIN removals : removals[i].order = other /\ removals[i].left >= book[other].hold
  BY DEF awaited
<1>2. PICK k \in DOMAIN waits : waits[k] = removals[i]
  BY <1>1
<1> QED BY <1>1, <1>2 DEF awaited

LEMMA NotCancelled ==
  ASSUME OwnIInv, mishaps \subseteq {"kept"}, NEW id \in OwnIds, available(id) > 0
  PROVE  id \notin cancelled
<1>1. book[id] \in Orders /\ id \in Ids
  BY DEF OwnIInv, PairIInv, PairTypeOK
<1>2. id \in live
  BY <1>1
<1> QED BY <1>2 DEF OwnIInv, CancelInv

LEMMA OwnAddsInv ==
  ASSUME OwnIInv, ~matching, NEW id \in OwnIds, OwnAdds(id)
  PROVE  OwnIInv'
<1>1. PICK price \in Prices, quantity \in Quantities, isBuy \in BOOLEAN, time \in Times :
        /\ offered[id] = 0
        /\ addOrder(id, Stamped(isBuy, price, time, quantity))
        /\ offered' = [offered EXCEPT ![id] = quantity]
        /\ reserves(isBuy, [reserved[isBuy] EXCEPT !.base = @ + quantity,
                                                   !.quote = @ + quoteAmount(quantity, price)])
  BY DEF OwnAdds
<1>2. /\ UNCHANGED <<taker, matching, aside, takers, matched>>
      /\ UNCHANGED <<deal, failed, asking, requests, removals, fills, sold, cancelled, mishaps, down>>
  BY DEF OwnAdds, matchVars
<1>3. price \in Nat /\ quantity \in Nat /\ time \in Nat /\ quantity > 0
  BY NumbersAssumption
<1>4. PICK order : order = Stamped(isBuy, price, time, quantity)
  OBVIOUS
<1>5. order \in Orders /\ order.hold = 0 /\ order.quantity = quantity /\ order.isBuy = isBuy /\ order.price = price
  BY <1>3, <1>4 DEF Stamped
<1>6. /\ PairIInv /\ book \in [Ids -> Orders] /\ offered \in [Ids -> Nat] /\ id \in Ids
      /\ sold \in [OwnIds -> Nat] /\ reserved \in [BOOLEAN -> Sides]
  BY TypeFacts DEF OwnIInv, PairIInv, PairTypeOK
<1>7. book[id] = NoOrder /\ book' = [book EXCEPT ![id] = order] /\ queue' = queue \cup {id}
  BY <1>1, <1>4 DEF addOrder
<1>8. offered' \in [Ids -> Nat] /\ offered'[id] = quantity /\ \A other \in Ids \ {id} : offered'[other] = offered[other]
  BY <1>1, <1>3, <1>6
<1>9. Replaces(id, order)
  BY <1>2, <1>3, <1>5, <1>7, <1>8 DEF Replaces, matchVars
<1>10. PICK quote \in Nat : quote = quoteAmount(quantity, price)
  BY <1>3, QuoteNat
<1>11. PICK side : side = [reserved[isBuy] EXCEPT !.base = @ + quantity, !.quote = @ + quote]
  OBVIOUS
<1>12. PICK was \in Sides : was = reserved[isBuy]
  BY <1>6
<1>13. /\ side \in Sides /\ side.base = was.base + quantity
       /\ side.quote = was.quote + quote /\ side.parts = was.parts
  <2>1. was.base \in Nat /\ was.quote \in Nat /\ was.parts \in Nat
    BY DEF Sides
  <2>2. PICK b \in Nat, q \in Nat : b = was.base + quantity /\ q = was.quote + quote
    BY <1>3, <2>1
  <2>3. side = [was EXCEPT !.base = b, !.quote = q]
    BY <1>11, <1>12, <2>2
  <2> QED BY <2>1, <2>2, <2>3 DEF Sides
<1>14. reserved' = [reserved EXCEPT ![isBuy] = side]
  BY <1>1, <1>10, <1>11 DEF reserves
<1>15. /\ reserved' \in [BOOLEAN -> Sides] /\ reserved'[isBuy] = side
       /\ \A other \in BOOLEAN : other # isBuy => reserved'[other] = reserved[other]
  BY <1>6, <1>13, <1>14
<1>16. Settles(id, order)
  <2> SUFFICES ASSUME NEW account \in Accounts
               PROVE  have(reserved, account) + on(order, account) <= have(reserved', account) + on(book[id], account)
    BY DEF Settles
  <2>1. on(book[id], account) = 0 /\ have(reserved, account) \in Nat
    BY <1>6, <1>7, NoOrderIsOrder, WorthNat, HaveNat DEF on, Accounts
  <2>2. PICK b \in BOOLEAN, kind \in Kinds : b = account[1] /\ kind = account[2]
    BY DEF Accounts
  <2>3. CASE b = isBuy
    <3>1. /\ have(reserved, account) = amount(was, kind) /\ have(reserved', account) = amount(side, kind)
          /\ on(order, account) = worth(order, kind)
      BY <1>5, <1>12, <1>15, <2>2, <2>3 DEF have, on
    <3>2. amount(side, kind) = amount(was, kind) + worth(order, kind)
      <4>1. was.base \in Nat /\ was.quote \in Nat /\ was.parts \in Nat
        BY DEF Sides
      <4> QED BY <1>5, <1>10, <1>13, <4>1 DEF amount, worth
    <3> QED BY <2>1, <3>1, <3>2, WorthNat, <1>5
  <2>4. CASE b # isBuy
    BY <1>5, <1>15, <2>1, <2>2, <2>4 DEF on, have
  <2> QED BY <2>3, <2>4
<1>17. sold'[id] + order.quantity <= offered'[id]
  <2>1. sold[id] + book[id].quantity <= offered[id]
    BY DEF OwnIInv, SwapsNotOversold
  <2>2. sold[id] \in Nat /\ book[id].quantity = 0 /\ offered[id] = 0
    BY <1>1, <1>6, <1>7
  <2>3. sold[id] = 0
    BY <2>1, <2>2
  <2> QED BY <1>2, <1>3, <1>5, <1>8, <2>3
<1>18. /\ requests' \in [Hashes -> Requests] /\ Deals!DealTypeOK' /\ removals' \in Seq(Removals)
       /\ sold' \in [OwnIds -> Nat] /\ cancelled' \subseteq OwnIds /\ mishaps' \subseteq Mishaps
  BY <1>2, TypeFacts DEF OwnIInv, Deals!DealTypeOK
<1>19. DealsInv'
  BY <1>2 DEF OwnIInv, DealsInv, RequestInv
<1>20. /\ PairIInv' /\ OwnTypeOK' /\ SwapsNotOversold' /\ BudgetInv'
       /\ book'[id] = order /\ \A other \in Ids \ {id} : book'[other] = book[other]
  BY <1>2, <1>9, <1>15, <1>16, <1>17, <1>18, <1>19, BookStep
<1>21. HoldsMatchSwaps'
  <2>1. \A own \in OwnIds, h \in Hashes : held(h, own)' = held(h, own)
    BY <1>2 DEF held, holding, releasedByEvent
  <2>2. \A own \in OwnIds : book'[own].hold = book[own].hold
    BY <1>5, <1>7, <1>20
  <2> QED BY <1>2, <2>1, <2>2, HoldsStay DEF OwnIInv
<1>22. CancelInv'
  <2>1. id \notin cancelled
    BY <1>1 DEF OwnIInv, CancelInv
  <2>2. ASSUME NEW other \in OwnIds \ {id}, awaited(other) PROVE awaited(other)'
    BY <1>2, <1>20, <2>2 DEF awaited
  <2> QED BY <1>2, <1>9, <1>18, <2>1, <2>2, CancelMoves
<1> QED BY <1>19, <1>20, <1>21, <1>22 DEF OwnIInv

LEMMA Puts ==
  ASSUME NEW id \in OwnIds, OwnIInv, NEW order \in Orders, order.hold <= order.quantity,
         puts(id, order), UNCHANGED <<matchVars, offered>>
  PROVE  Replaces(id, order)
<1>1. offered \in [Ids -> Nat]
  BY DEF OwnIInv, PairIInv, PairTypeOK
<1>2. book' = [book EXCEPT ![id] = order] /\ queue' \in {queue, queue \ {id}}
  BY DEF puts
<1> QED BY <1>1, <1>2 DEF Replaces, matchVars

LEMMA SideMoves ==
  ASSUME OwnIInv, NEW id \in OwnIds, NEW order \in Orders, NEW side \in Sides,
         order.quantity > 0 => order.isBuy = book[id].isBuy,
         Pays(book[id], reserved[book[id].isBuy], order, side),
         reserves(book[id].isBuy, side)
  PROVE  reserved' \in [BOOLEAN -> Sides] /\ Settles(id, order)
<1>1. reserved \in [BOOLEAN -> Sides] /\ book[id] \in Orders
  BY TypeFacts DEF OwnIInv, PairIInv, PairTypeOK
<1>2. PICK own \in BOOLEAN : own = book[id].isBuy
  BY <1>1
<1>3. reserved' = [reserved EXCEPT ![own] = side]
  BY <1>2 DEF reserves
<1>4. /\ reserved' \in [BOOLEAN -> Sides] /\ reserved'[own] = side
      /\ \A isBuy \in BOOLEAN : isBuy # own => reserved'[isBuy] = reserved[isBuy]
  BY <1>1, <1>3
<1>5. ASSUME NEW account \in Accounts
      PROVE  have(reserved, account) + on(order, account) <= have(reserved', account) + on(book[id], account)
  <2>1. PICK isBuy \in BOOLEAN, kind \in Kinds : isBuy = account[1] /\ kind = account[2]
    BY DEF Accounts
  <2>2. PICK is \in Nat, was \in Nat : is = worth(order, kind) /\ was = worth(book[id], kind)
    BY <1>1, WorthNat, Zenon
  <2>3. order.isBuy # book[id].isBuy => is = 0
    <3>1. order.quantity \in Nat
      OBVIOUS
    <3> QED BY <2>2, <3>1, WorthNat
  <2>4. CASE isBuy = own
    <3>1. on(book[id], account) = was
      BY <1>2, <2>1, <2>2, <2>4 DEF on
    <3>2. on(order, account) = is
      BY <1>2, <2>1, <2>2, <2>3, <2>4 DEF on
    <3>3. have(reserved, account) = amount(reserved[own], kind) /\ have(reserved', account) = amount(side, kind)
      BY <1>4, <2>1, <2>4 DEF have
    <3>4. amount(reserved[own], kind) + is <= amount(side, kind) + was
      BY <1>2, <2>2 DEF Pays
    <3> QED BY <3>1, <3>2, <3>3, <3>4
  <2>5. CASE isBuy # own
    <3>1. on(book[id], account) = 0 /\ on(order, account) = 0
      BY <1>2, <2>1, <2>2, <2>3, <2>5 DEF on
    <3>2. have(reserved', account) = have(reserved, account) /\ have(reserved, account) \in Nat
      BY <1>1, <1>4, <2>1, <2>5, HaveNat DEF have
    <3> QED BY <3>1, <3>2
  <2> QED BY <2>4, <2>5
<1> QED BY <1>4, <1>5 DEF Settles

\* A quantity that is not on hold is removed.
LEMMA RemovesOwn ==
  ASSUME OwnIInv, NEW id \in OwnIds, NEW quantity \in Nat, canRemove(id, quantity),
         NEW result, result = removed(book[id], reserved[book[id].isBuy], quantity),
         puts(id, result.order), reserves(book[id].isBuy, result.side), UNCHANGED <<matchVars, offered>>
  PROVE  /\ Replaces(id, result.order) /\ result.order = rest(book[id], quantity)
         /\ result.order.hold = book[id].hold /\ result.order.quantity <= book[id].quantity
         /\ reserved' \in [BOOLEAN -> Sides]
         /\ Settles(id, result.order)
<1>1. reserved \in [BOOLEAN -> Sides] /\ book[id] \in Orders /\ book[id].hold <= book[id].quantity
  BY TypeFacts DEF OwnIInv, PairIInv, PairTypeOK, HoldsCovered
<1>2. reserved[book[id].isBuy] \in Sides /\ keepsHold(book[id], quantity)
  BY <1>1 DEF canRemove
<1>3. PICK order, side : order = result.order /\ side = result.side
  OBVIOUS
<1>4. /\ order = rest(book[id], quantity) /\ order \in Orders /\ side \in Sides
      /\ order.hold = book[id].hold /\ order.hold <= order.quantity
      /\ order.quantity <= book[id].quantity
      /\ order.quantity > 0 => order.isBuy = book[id].isBuy
      /\ Pays(book[id], reserved[book[id].isBuy], order, side)
  BY <1>1, <1>2, <1>3, TakenOut, ZenonT(40)
<1>5. Replaces(id, order)
  BY <1>3, <1>4, Puts
<1>6. /\ reserved' \in [BOOLEAN -> Sides]
      /\ Settles(id, order)
  BY <1>3, <1>4, SideMoves
<1> QED BY <1>3, <1>4, <1>5, <1>6

\* The swaps and their deals stay as they are.
LEMMA SwapsStay ==
  ASSUME OwnIInv, UNCHANGED <<deal, failed, asking, requests>>
  PROVE  /\ requests' \in [Hashes -> Requests] /\ Deals!DealTypeOK' /\ DealsInv'
         /\ \A id \in OwnIds, h \in Hashes : held(h, id)' = held(h, id)
<1>1. requests' \in [Hashes -> Requests] /\ Deals!DealTypeOK'
  BY TypeFacts DEF OwnIInv, Deals!DealTypeOK
<1>2. DealsInv'
  BY DEF OwnIInv, DealsInv, RequestInv
<1> QED BY <1>1, <1>2 DEF held, holding, releasedByEvent

\* One order of the book gets smaller, and keeps what is on hold.
LEMMA ShrinksInv ==
  ASSUME OwnIInv, ~matching, NEW id \in OwnIds, NEW order, Replaces(id, order),
         order.hold = book[id].hold, order.quantity <= book[id].quantity,
         removals' \in Seq(Removals), reserved' \in [BOOLEAN -> Sides],
         Settles(id, order),
         UNCHANGED <<offered, deal, failed, asking, requests, fills, sold, mishaps, down>>,
         cancelled' \subseteq OwnIds, CancelInv'
  PROVE  OwnIInv'
<1>1. /\ requests' \in [Hashes -> Requests] /\ Deals!DealTypeOK' /\ DealsInv'
      /\ \A own \in OwnIds, h \in Hashes : held(h, own)' = held(h, own)
  BY SwapsStay
<1>2. sold \in [OwnIds -> Nat] /\ mishaps \subseteq Mishaps /\ book[id] \in Orders /\ order \in Orders /\ offered \in [Ids -> Nat]
  BY TypeFacts DEF OwnIInv, Replaces, PairIInv, PairTypeOK
<1>3. sold'[id] + order.quantity <= offered'[id]
  <2>1. sold[id] + book[id].quantity <= offered[id]
    BY DEF OwnIInv, SwapsNotOversold
  <2>2. sold[id] \in Nat /\ book[id].quantity \in Nat /\ order.quantity \in Nat /\ offered[id] \in Nat
    BY <1>2
  <2> QED BY <2>1, <2>2
<1>4. /\ PairIInv' /\ OwnTypeOK' /\ SwapsNotOversold' /\ BudgetInv'
      /\ book'[id] = order /\ \A other \in Ids \ {id} : book'[other] = book[other]
  BY <1>1, <1>2, <1>3, BookStep
<1>5. HoldsMatchSwaps'
  <2>1. \A own \in OwnIds : book'[own].hold = book[own].hold
    BY <1>4
  <2> QED BY <1>1, <2>1, HoldsStay DEF OwnIInv
<1> QED BY <1>1, <1>4, <1>5 DEF OwnIInv

LEMMA RemoveAvailableInv ==
  ASSUME OwnIInv, ~matching, NEW id \in OwnIds, NEW quantity \in Amounts(id), RemoveAvailable(id, quantity)
  PROVE  OwnIInv'
<1>1. PICK result : result = removed(book[id], reserved[book[id].isBuy], quantity)
  OBVIOUS
<1>2. /\ 0 < quantity /\ quantity <= available(id) /\ canRemove(id, quantity)
      /\ puts(id, result.order) /\ reserves(book[id].isBuy, result.side)
      /\ UNCHANGED <<matchVars, offered, deal, failed, asking, requests, removals, fills, sold, cancelled, mishaps, down>>
  BY <1>1 DEF RemoveAvailable
<1>3. quantity \in Nat /\ book[id] \in Orders /\ id \in Ids
  BY AmountsNat DEF OwnIInv, PairIInv, PairTypeOK
<1>4. /\ Replaces(id, result.order)
      /\ result.order.hold = book[id].hold /\ result.order.quantity <= book[id].quantity
      /\ reserved' \in [BOOLEAN -> Sides]
      /\ Settles(id, result.order)
  BY <1>1, <1>2, <1>3, RemovesOwn
<1>5. removals' \in Seq(Removals) /\ cancelled' \subseteq OwnIds
  BY <1>2, TypeFacts DEF OwnIInv
<1>6. CancelInv'
  <2>1. available(id) > 0
    BY <1>2, <1>3
  <2>2. id \in cancelled => ~(mishaps' \subseteq {"kept"})
    BY <1>2, <2>1, NotCancelled
  <2>3. id \in cancelled' => offered'[id] > 0
    BY <1>2 DEF OwnIInv, CancelInv
  <2>4. \A other \in Ids \ {id} : book'[other] = book[other]
    BY <1>4, ReplacesInv DEF OwnIInv
  <2>5. ASSUME NEW other \in OwnIds \ {id}, awaited(other) PROVE awaited(other)'
    BY <1>2, <2>4, <2>5 DEF awaited
  <2> QED BY <1>2, <1>4, <1>5, <2>2, <2>3, <2>5, CancelMoves
<1> QED BY <1>2, <1>4, <1>5, <1>6, ShrinksInv

LEMMA RemoveHeldInv ==
  ASSUME OwnIInv, ~matching, NEW id \in OwnIds, NEW quantity \in Amounts(id), RemoveHeld(id, quantity)
  PROVE  OwnIInv'
<1>1. /\ quantity \in Nat /\ book[id] \in Orders /\ id \in Ids /\ book[id].hold <= book[id].quantity
      /\ removals \in Seq(Removals) /\ cancelled \subseteq OwnIds /\ reserved \in [BOOLEAN -> Sides]
      /\ PairIInv /\ offered \in [Ids -> Nat] /\ sold \in [OwnIds -> Nat]
  BY AmountsNat, TypeFacts DEF OwnIInv, PairIInv, PairTypeOK, HoldsCovered
<1>2. id \in live /\ available(id) < quantity /\ quantity <= book[id].quantity
  BY DEF RemoveHeld
<1>3. PICK part \in Nat : part = available(id)
  BY <1>1
<1>4. PICK left \in Nat \ {0} : left = quantity - part
  BY <1>1, <1>2, <1>3
<1>5. PICK removal \in Removals : removal = [order |-> id, left |-> left]
  BY DEF Removals
<1>6. PICK waits : waits = Append(removals, removal)
  OBVIOUS
<1>7. /\ waits \in Seq(Removals)
      /\ \A i \in DOMAIN removals : i \in DOMAIN waits /\ waits[i] = removals[i]
      /\ Len(removals) + 1 \in DOMAIN waits /\ waits[Len(removals) + 1] = removal
  <2>1. Len(removals) \in Nat /\ DOMAIN removals = 1 .. Len(removals)
    BY <1>1
  <2>2. /\ waits \in Seq(Removals) /\ Len(waits) = Len(removals) + 1 /\ waits[Len(removals) + 1] = removal
        /\ \A i \in 1 .. Len(removals) : waits[i] = removals[i]
    BY <1>1, <1>6, AppendRemoval
  <2>3. DOMAIN waits = 1 .. Len(removals) + 1
    BY <2>2
  <2> QED BY <2>1, <2>2, <2>3
<1> DEFINE registers == /\ removals' = waits
                        /\ cancelled' = IF quantity = book[id].quantity THEN cancelled \cup {id} ELSE cancelled
<1>8. \/ part = 0 /\ registers /\ UNCHANGED <<book, queue, reserved>>
      \/ /\ part > 0 /\ canRemove(id, part)
         /\ LET result == removed(book[id], reserved[book[id].isBuy], part) IN
            /\ puts(id, result.order) /\ reserves(book[id].isBuy, result.side)
            /\ IF result.ok THEN registers ELSE UNCHANGED <<removals, cancelled>>
  BY <1>3, <1>4, <1>5, <1>6 DEF RemoveHeld
<1>9. UNCHANGED <<matchVars, offered, deal, failed, asking, requests, fills, sold, mishaps, down>>
  BY DEF RemoveHeld
<1>10. registers \/ UNCHANGED <<removals, cancelled>>
  BY <1>8
<1>11. removals' \in Seq(Removals) /\ cancelled' \subseteq OwnIds /\ cancelled' \subseteq cancelled \cup {id}
  BY <1>1, <1>7, <1>10
<1>12. offered[id] > 0
  <2>1. sold[id] + book[id].quantity <= offered[id]
    BY DEF OwnIInv, SwapsNotOversold
  <2>2. book[id].quantity > 0
    BY <1>2
  <2>3. sold[id] \in Nat /\ book[id].quantity \in Nat /\ offered[id] \in Nat
    BY <1>1
  <2> QED BY <2>1, <2>2, <2>3
<1>13. ASSUME NEW order, Replaces(id, order), order.hold = book[id].hold,
              \/ part = 0 /\ registers /\ order = book[id]
              \/ part > 0 /\ order = rest(book[id], part)
       PROVE  CancelInv'
  <2>1. /\ book'[id] = order /\ \A other \in Ids \ {id} : book'[other] = book[other]
    BY <1>13, ReplacesInv DEF OwnIInv
  <2>2. ASSUME NEW other \in OwnIds \ {id}, awaited(other) PROVE awaited(other)'
    <3>1. book'[other] = book[other]
      BY <2>1
    <3>2. PICK all : removals' = all
      OBVIOUS
    <3>3. \A i \in DOMAIN removals : \E k \in DOMAIN all : all[k] = removals[i]
      BY <1>7, <1>10, <3>2
    <3> QED BY <2>2, <3>1, <3>2, <3>3, WaitsStay
  <2>3. ASSUME mishaps' \subseteq {"kept"}, id \in cancelled', order.quantity > 0
        PROVE  order.quantity = order.hold /\ awaited(id)'
    <3>1. CASE registers /\ quantity = book[id].quantity
      <4>1. left = book[id].hold
        BY <1>1, <1>3, <1>4, <3>1
      <4>2. Len(removals) + 1 \in DOMAIN removals' /\ removals'[Len(removals) + 1] = removal
        BY <1>7, <3>1
      <4>3. removal.order = id /\ removal.left = left
        BY <1>5
      <4>4. awaited(id)'
        BY <1>13, <2>1, <4>1, <4>2, <4>3, <1>1 DEF awaited
      <4>5. CASE part = 0
        BY <1>1, <1>3, <1>13, <4>4, <4>5
      <4>6. CASE part > 0
        <5>1. order = rest(book[id], part)
          BY <1>13, <4>6
        <5>2. order # NoOrder
          BY <2>3
        <5>3. order.quantity = book[id].quantity - part
          BY <1>1, <5>1, <5>2, RestOf
        <5> QED BY <1>1, <1>3, <1>13, <4>4, <5>3
      <4> QED BY <4>5, <4>6
    <3>3. CASE ~(registers /\ quantity = book[id].quantity)
      <4>1. id \in cancelled
        BY <1>10, <2>3, <3>3
      <4>2. ~(available(id) > 0)
        BY <1>9, <2>3, <4>1, NotCancelled
      <4>3. part = 0 /\ registers /\ order = book[id]
        BY <1>3, <1>13, <4>2
      <4>4. order = book[id]
        BY <4>3
      <4>5. awaited(id)
        BY <1>2, <1>9, <2>3, <4>1 DEF OwnIInv, CancelInv
      <4>6. PICK i \in DOMAIN removals : removals[i].order = id /\ removals[i].left >= book[id].hold
        BY <4>5 DEF awaited
      <4>7. i \in DOMAIN removals' /\ removals'[i] = removals[i]
        BY <1>7, <4>3
      <4>8. awaited(id)'
        BY <2>1, <4>4, <4>6, <4>7 DEF awaited
      <4> QED BY <1>1, <1>3, <4>3, <4>4, <4>8
    <3> QED BY <3>1, <3>3
  <2>4. mishaps \subseteq mishaps' /\ (id \in cancelled' => offered'[id] > 0)
    BY <1>9, <1>12
  <2> QED BY <1>11, <1>13, <2>2, <2>3, <2>4, CancelMoves
<1> HIDE DEF registers
<1>14. CASE part = 0 /\ registers /\ UNCHANGED <<book, queue, reserved>>
  <2>1. book' = [book EXCEPT ![id] = book[id]]
    BY <1>1, <1>14 DEF PairIInv, PairTypeOK
  <2>2. Replaces(id, book[id])
    BY <1>1, <1>9, <1>14, <2>1 DEF Replaces, matchVars
  <2>3. CancelInv'
    BY <1>13, <1>14, <2>2
  <2>4. Settles(id, book[id])
    BY <1>1, <1>14, HaveNat, OnNat DEF Settles
  <2>5. book[id].quantity <= book[id].quantity
    BY <1>1
  <2> QED BY <1>1, <1>9, <1>11, <1>14, <2>2, <2>3, <2>4, <2>5, ShrinksInv
<1>15. CASE /\ part > 0 /\ canRemove(id, part)
            /\ LET result == removed(book[id], reserved[book[id].isBuy], part) IN
               /\ puts(id, result.order) /\ reserves(book[id].isBuy, result.side)
               /\ IF result.ok THEN registers ELSE UNCHANGED <<removals, cancelled>>
  <2>1. PICK result : result = removed(book[id], reserved[book[id].isBuy], part)
    OBVIOUS
  <2>2. puts(id, result.order) /\ reserves(book[id].isBuy, result.side)
    BY <1>15, <2>1
  <2>3. /\ Replaces(id, result.order) /\ result.order = rest(book[id], part)
        /\ result.order.hold = book[id].hold /\ result.order.quantity <= book[id].quantity
        /\ reserved' \in [BOOLEAN -> Sides]
        /\ Settles(id, result.order)
    BY <1>9, <1>15, <2>1, <2>2, RemovesOwn
  <2>4. CancelInv'
    BY <1>13, <1>15, <2>3
  <2> QED BY <1>9, <1>11, <2>3, <2>4, ShrinksInv
<1> QED BY <1>8, <1>14, <1>15 DEF registers

\* What is on hold of one order changes by what one swap holds more or less of it.
HoldGoesWith(id, h, hold) ==
  /\ \E was, is : /\ was = held(h, id) /\ is = held(h, id)'
                  /\ "releasedTwice" \notin mishaps' => hold + was = book[id].hold + is
  /\ \A own \in OwnIds, g \in Hashes : own # id \/ g # h => held(g, own)' = held(g, own)

LEMMA HoldStepInv ==
  ASSUME OwnIInv, ~matching, NEW id \in OwnIds, NEW h \in Hashes, NEW hold \in Nat,
         hold <= book[id].quantity, book' = [book EXCEPT ![id].hold = hold],
         UNCHANGED <<queue, matchVars, offered, removals, reserved, fills, sold, cancelled, down>>,
         requests' \in [Hashes -> Requests], Deals!DealTypeOK', DealsInv',
         mishaps \subseteq mishaps', mishaps' \subseteq Mishaps,
         HoldGoesWith(id, h, hold), mishaps' \subseteq {"kept"} => id \notin cancelled
  PROVE  OwnIInv'
<1>1. /\ PairIInv /\ book \in [Ids -> Orders] /\ book[id] \in Orders /\ id \in Ids /\ offered \in [Ids -> Nat]
      /\ removals \in Seq(Removals) /\ reserved \in [BOOLEAN -> Sides] /\ sold \in [OwnIds -> Nat]
      /\ cancelled \subseteq OwnIds
  BY TypeFacts DEF OwnIInv, PairIInv, PairTypeOK
<1>2. PICK order : order = [book[id] EXCEPT !.hold = hold]
  OBVIOUS
<1>3. /\ order \in Orders /\ order.hold = hold /\ order.quantity = book[id].quantity
      /\ order.isBuy = book[id].isBuy /\ order.price = book[id].price
  BY <1>1, <1>2
<1>4. book' = [book EXCEPT ![id] = order]
  BY <1>2
<1>5. Replaces(id, order)
  BY <1>1, <1>3, <1>4 DEF Replaces, matchVars
<1>6. sold'[id] + order.quantity <= offered'[id]
  BY <1>3 DEF OwnIInv, SwapsNotOversold
<1>7. Settles(id, order)
  BY <1>1, <1>3, HaveNat, OnNat, SameWorth DEF Settles
<1>8. /\ PairIInv' /\ OwnTypeOK' /\ SwapsNotOversold' /\ BudgetInv'
      /\ book'[id] = order /\ \A other \in Ids \ {id} : book'[other] = book[other]
  BY <1>1, <1>5, <1>6, <1>7, BookStep
<1>9. HoldsMatchSwaps'
  <2>1. \A own \in OwnIds \ {id} : book'[own].hold = book[own].hold
    BY <1>8
  <2>4. PICK was, is : /\ was = held(h, id) /\ is = held(h, id)'
                       /\ "releasedTwice" \notin mishaps' => hold + was = book[id].hold + is
    BY DEF HoldGoesWith
  <2>2. "releasedTwice" \notin mishaps' => book'[id].hold + was = book[id].hold + is
    BY <1>3, <1>8, <2>4
  <2>3. OwnTypeOK /\ HoldsMatchSwaps
    BY DEF OwnIInv
  <2>5. \A own \in OwnIds, g \in Hashes : own # id \/ g # h => held(g, own)' = held(g, own)
    BY DEF HoldGoesWith
  <2> QED BY <1>8, <2>1, <2>2, <2>3, <2>4, <2>5, HoldsMove
<1>10. CancelInv'
  <2>1. ASSUME NEW other \in OwnIds \ {id}, awaited(other) PROVE awaited(other)'
    BY <1>8, <2>1 DEF awaited
  <2>2. id \in cancelled' => offered'[id] > 0
    BY DEF OwnIInv, CancelInv
  <2> QED BY <1>1, <1>5, <2>1, <2>2, CancelMoves
<1> QED BY <1>8, <1>9, <1>10 DEF OwnIInv

LEMMA SwapRequestInv ==
  ASSUME OwnIInv, ~matching, NEW id \in OwnIds, NEW proposed \in Amounts(id), NEW h \in Hashes,
         SwapRequest(h, id, proposed)
  PROVE  OwnIInv'
<1>1. PICK quantity : quantity = Lesser(proposed, available(id))
  OBVIOUS
<1>2. /\ requests[h].stage = "none" /\ available(id) > 0
      /\ addOrderHold(id, quantity)
      /\ requests' = [requests EXCEPT ![h] = [order |-> id, quantity |-> quantity, stage |-> "saving"]]
      /\ UNCHANGED <<queue, matchVars, offered, deal, failed, asking, removals, reserved, fills, sold, cancelled, mishaps, down>>
  BY <1>1 DEF SwapRequest
<1>3. /\ book[id] \in Orders /\ book[id].hold <= book[id].quantity /\ proposed \in Nat
      /\ requests \in [Hashes -> Requests] /\ Deals!DealTypeOK /\ mishaps \subseteq Mishaps
  BY AmountsNat, TypeFacts DEF OwnIInv, PairIInv, PairTypeOK, HoldsCovered
<1>4. quantity \in Nat /\ quantity > 0
  BY <1>1, <1>2, <1>3, LesserNat DEF addOrderHold
<1>5. PICK hold \in Nat : hold = book[id].hold + quantity
  BY <1>3, <1>4
<1>6. hold <= book[id].quantity /\ book' = [book EXCEPT ![id].hold = hold]
  BY <1>2, <1>5 DEF addOrderHold
<1>7. PICK request : request = [order |-> id, quantity |-> quantity, stage |-> "saving"]
  OBVIOUS
<1>8. request \in Requests /\ request.order = id /\ request.quantity = quantity /\ request.stage = "saving"
  BY <1>4, <1>7 DEF Requests, Stages
<1>9. /\ requests' \in [Hashes -> Requests] /\ requests'[h] = request
      /\ \A g \in Hashes \ {h} : requests'[g] = requests[g]
  BY <1>2, <1>3, <1>7, <1>8
<1>10. OthersStay(h) /\ Deals!DealTypeOK'
  BY <1>2, <1>3, <1>9 DEF OthersStay, Deals!DealTypeOK
<1>11. DealsInv'
  <2>1. RequestInv(h) /\ DealsInv
    BY DEF OwnIInv, DealsInv
  <2>2. RequestInv(h)'
    BY <1>2, <1>4, <1>8, <1>9, <2>1 DEF RequestInv
  <2> QED BY <1>10, <2>1, <2>2, DealsMove
<1>12. 0 = held(h, id) /\ quantity = held(h, id)'
  BY <1>2, <1>8, <1>9 DEF held, holding
<1>13. ASSUME NEW own \in OwnIds, NEW g \in Hashes, own # id \/ g # h PROVE held(g, own)' = held(g, own)
  <2>1. CASE g = h
    BY <1>2, <1>8, <1>9, <1>13, <2>1 DEF held, holding
  <2>2. CASE g # h
    BY <1>2, <1>9, <2>2 DEF held, holding, releasedByEvent
  <2> QED BY <2>1, <2>2
<1>14. mishaps' \subseteq {"kept"} => id \notin cancelled
  BY <1>2, NotCancelled
<1>15. PICK was, is : was = held(h, id) /\ is = held(h, id)'
  BY Zenon
<1>16. hold + was = book[id].hold + is
  <2>1. was = 0 /\ is = quantity
    BY <1>12, <1>15, Zenon
  <2> QED BY <1>3, <1>5, <2>1
<1>17. mishaps \subseteq mishaps' /\ mishaps' \subseteq Mishaps
  BY <1>2, <1>3
<1>18. HoldGoesWith(id, h, hold)
  BY <1>13, <1>15, <1>16 DEF HoldGoesWith
<1> QED BY <1>2, <1>6, <1>9, <1>10, <1>11, <1>14, <1>17, <1>18, HoldStepInv

LEMMA RequestRefusedInv ==
  ASSUME OwnIInv, ~matching, NEW h \in Hashes, RequestRefused(h)
  PROVE  OwnIInv'
<1>1. /\ requests \in [Hashes -> Requests] /\ Deals!DealTypeOK /\ mishaps \subseteq Mishaps
      /\ RequestInv(h) /\ DealsInv /\ book \in [Ids -> Orders]
  BY TypeFacts DEF OwnIInv, DealsInv, PairIInv, PairTypeOK
<1>2. PICK id \in OwnIds, quantity \in Nat : id = requests[h].order /\ quantity = requests[h].quantity
  BY <1>1 DEF Requests
<1>3. book[id] \in Orders /\ book[id].hold <= book[id].quantity
  BY <1>1 DEF OwnIInv, PairIInv, HoldsCovered
<1>4. CASE ~releasable(id, quantity) /\ Stops("hold")
  BY <1>4, StopsInv
<1>5. CASE /\ releasable(id, quantity)
           /\ removeOrderHold(id, quantity)
           /\ staged(h, "over")
           /\ IF requests[h].stage = "withdrawn" THEN noted("releasedTwice", TRUE)
              ELSE noted("cancellationMissed", \E i \in DOMAIN removals : removals[i].order = id)
           /\ UNCHANGED <<queue, matchVars, offered, deal, failed, asking, removals, reserved, fills, sold, cancelled, down>>
  <2>1. PICK hold \in Nat : hold = book[id].hold - quantity /\ hold + quantity = book[id].hold
    BY <1>2, <1>3, <1>5 DEF removeOrderHold
  <2>2. hold <= book[id].quantity /\ book' = [book EXCEPT ![id].hold = hold]
    BY <1>3, <1>5, <2>1 DEF removeOrderHold
  <2>3. /\ requests' \in [Hashes -> Requests] /\ requests'[h].stage = "over"
        /\ requests'[h].order = id /\ requests'[h].quantity = quantity
        /\ \A g \in Hashes \ {h} : requests'[g] = requests[g]
    BY <1>2, <1>5, StagedMoves DEF Stages
  <2>4. OthersStay(h) /\ Deals!DealTypeOK'
    BY <1>1, <1>5, <2>3 DEF OthersStay, Deals!DealTypeOK
  <2>5. requests[h].stage \in {"refused", "withdrawn"}
    BY DEF RequestRefused
  <2>6. RequestInv(h)'
    BY <1>1, <1>2, <1>5, <2>3, <2>5 DEF RequestInv
  <2>7. DealsInv'
    BY <1>1, <2>4, <2>6, DealsMove
  <2>8. /\ mishaps \subseteq mishaps' /\ mishaps' \subseteq Mishaps
        /\ requests[h].stage = "withdrawn" => "releasedTwice" \in mishaps'
        /\ requests[h].stage = "refused" /\ (\E i \in DOMAIN removals : removals[i].order = id)
             => "cancellationMissed" \in mishaps'
    BY <1>1, <1>5 DEF noted, Mishaps
  <2>9. /\ held(h, id)' = 0
        /\ held(h, id) = IF requests[h].stage = "refused" THEN quantity ELSE 0
    BY <1>2, <2>3, <2>5 DEF held, holding
  <2>10. ASSUME NEW own \in OwnIds, NEW g \in Hashes, own # id \/ g # h PROVE held(g, own)' = held(g, own)
    <3>1. CASE g = h
      BY <1>2, <2>3, <2>10, <3>1 DEF held
    <3>2. CASE g # h
      BY <1>5, <2>3, <3>2 DEF held, holding, releasedByEvent
    <3> QED BY <3>1, <3>2
  <2>11. ASSUME mishaps' \subseteq {"kept"} PROVE id \notin cancelled
    <3> SUFFICES ASSUME id \in cancelled PROVE FALSE
      OBVIOUS
    <3>1. requests[h].stage = "refused" /\ ~\E i \in DOMAIN removals : removals[i].order = id
      BY <2>5, <2>8, <2>11
    <3>2. id \in live
      BY <1>5 DEF releasable
    <3>3. awaited(id)
      BY <2>8, <2>11, <3>2 DEF OwnIInv, CancelInv
    <3> QED BY <3>1, <3>3 DEF awaited
  <2>12. PICK was, is : was = held(h, id) /\ is = held(h, id)'
    BY Zenon
  <2>13. "releasedTwice" \notin mishaps' => hold + was = book[id].hold + is
    <3>1. is = 0 /\ ("releasedTwice" \notin mishaps' => was = quantity)
      BY <2>5, <2>8, <2>9, <2>12
    <3> QED BY <1>2, <1>3, <2>1, <3>1
  <2>14. HoldGoesWith(id, h, hold)
    BY <2>10, <2>12, <2>13 DEF HoldGoesWith
  <2> QED BY <1>5, <2>2, <2>3, <2>4, <2>7, <2>8, <2>11, <2>14, HoldStepInv
<1> QED BY <1>2, <1>4, <1>5 DEF RequestRefused

-----------------------------------------------------------------------------
(* What "swap.failed" leaves of the cancellations *)

\* Cancellations that wait go on waiting, and so does one of another order.
LEMMA EarlierStay ==
  ASSUME NEW seen \in Seens, NEW removal \in Removals, NEW id, NEW quantity \in Nat,
         NEW next, next = handleFailed(seen, removal, id, quantity)
  PROVE  /\ \A k \in DOMAIN seen.removals :
              k \in DOMAIN next.removals /\ next.removals[k] = seen.removals[k]
         /\ removal.order # id => \E k \in DOMAIN next.removals : next.removals[k] = removal
<1>1. seen.removals \in Seq(Removals) /\ removal.left \in Nat /\ removal.left > 0
  <2>1. removal.left \in Nat /\ removal.left > 0
    BY DEF Removals
  <2> QED BY <2>1, SeenFields
<1>2. PICK waits \in Seq(Removals) : waits = seen.removals
  BY <1>1
<1>3. PICK part \in Nat : part = Lesser(quantity, removal.left) /\ part <= removal.left
  BY <1>1, LesserNat
<1>4. \/ next.removals = waits /\ removal.order = id
      \/ \E last \in Removals : next.removals = Append(waits, last) /\ (removal.order # id => last = removal)
  <2>1. CASE next = waitsFor(seen, removal) \/ next = throwsAt(seen, removal)
    <3>1. next.removals = Append(waits, removal)
      BY <1>2, <2>1 DEF waitsFor, throwsAt, Seens
    <3> QED BY <3>1
  <2>2. CASE removal.order = id /\ removesPart(seen, removal, part, next)
    <3>1. PICK result : result = removed(seen.order, seen.side, part)
      OBVIOUS
    <3>2. next.removals = IF result.ok /\ part = removal.left THEN seen.removals
                          ELSE Append(seen.removals, IF result.ok THEN lessOf(removal, part) ELSE removal)
      BY <2>2, <3>1 DEF removesPart
    <3>3. part # removal.left => lessOf(removal, part) \in Removals
      BY <1>1, <1>3 DEF lessOf, Removals
    <3> QED BY <1>2, <2>2, <3>2, <3>3
  <2> QED BY <1>3, <2>1, <2>2, Handles
<1>5. CASE next.removals = waits /\ removal.order = id
  BY <1>2, <1>5
<1>6. CASE \E last \in Removals : next.removals = Append(waits, last) /\ (removal.order # id => last = removal)
  <2>1. PICK last \in Removals : next.removals = Append(waits, last) /\ (removal.order # id => last = removal)
    BY <1>6
  <2>2. PICK all : all = Append(waits, last)
    OBVIOUS
  <2>3. /\ all \in Seq(Removals) /\ Len(all) = Len(waits) + 1 /\ all[Len(waits) + 1] = last
        /\ \A k \in 1 .. Len(waits) : all[k] = waits[k]
    BY <2>2, AppendRemoval
  <2>4. DOMAIN waits = 1 .. Len(waits) /\ DOMAIN all = 1 .. Len(waits) + 1 /\ Len(waits) \in Nat
    BY <2>3
  <2> QED BY <1>2, <2>1, <2>2, <2>3, <2>4
<1> QED BY <1>4, <1>5, <1>6

LEMMA OthersWait ==
  ASSUME removals \in Seq(Removals), NEW start \in Seens, start.order.hold <= start.order.quantity,
         NEW id, NEW quantity \in Nat, NEW f, f = heard(start, id, quantity),
         NEW j \in DOMAIN removals, removals[j].order # id
  PROVE  \E k \in DOMAIN f[Len(removals)].removals : f[Len(removals)].removals[k] = removals[j]
<1>1. PICK n \in Nat : n = Len(removals) /\ j \in 1 .. n
  OBVIOUS
<1>2. /\ \A i \in 1 .. n : f[i] = handleFailed(f[i - 1], removals[i], id, quantity) /\ removals[i] \in Removals
      /\ \A i \in 0 .. n : f[i] \in Seens
  BY <1>1, Heard DEF Follows
<1> DEFINE P == {i \in 0 .. n : i < j \/ \E k \in DOMAIN f[i].removals : f[i].removals[k] = removals[j]}
<1>3. P \in SUBSET (0 .. n) /\ 0 \in P
  BY <1>1
<1>4. ASSUME NEW i \in 1 .. n, i - 1 \in P PROVE i \in P
  <2>1. i \in 0 .. n /\ i - 1 \in 0 .. n
    OBVIOUS
  <2>2. f[i - 1] \in Seens /\ f[i] = handleFailed(f[i - 1], removals[i], id, quantity) /\ removals[i] \in Removals
    BY <1>2, <2>1
  <2>3. /\ \A k \in DOMAIN f[i - 1].removals :
             k \in DOMAIN f[i].removals /\ f[i].removals[k] = f[i - 1].removals[k]
        /\ removals[i].order # id => \E k \in DOMAIN f[i].removals : f[i].removals[k] = removals[i]
    BY <2>2, EarlierStay
  <2>4. CASE i < j
    BY <2>1, <2>4
  <2>5. CASE i = j
    BY <2>1, <2>3, <2>5
  <2>6. CASE i > j
    <3>1. ~(i - 1 < j)
      BY <1>1, <2>6
    <3>2. PICK k \in DOMAIN f[i - 1].removals : f[i - 1].removals[k] = removals[j]
      BY <1>4, <3>1
    <3> QED BY <2>1, <2>3, <3>2
  <2> QED BY <1>1, <2>4, <2>5, <2>6
<1>5. P = 0 .. n
  <2> HIDE DEF P
  <2> QED BY <1>3, <1>4, Indices
<1>6. n \in P
  <2> HIDE DEF P
  <2> QED BY <1>5
<1>7. ~(n < j)
  BY <1>1
<1> QED BY <1>1, <1>6, <1>7

\* A cancellation of all of an order has come to nothing, or waits for what is
\* on hold of it, and there is no more of it than that.
Settled(seen, id) ==
  \/ seen.threw # "no" \/ seen.order.quantity = 0
  \/ /\ seen.order.quantity = seen.order.hold
     /\ \E k \in DOMAIN seen.removals :
          seen.removals[k].order = id /\ seen.removals[k].left >= seen.order.hold

\* An order with nothing available has nothing to remove.
LEMMA NothingToRemove ==
  ASSUME NEW order \in Orders, order.quantity = order.hold, order.quantity > 0,
         NEW part \in Nat, part > 0
  PROVE  ~keepsHold(order, part)
<1>1. CASE rest(order, part) = NoOrder
  BY <1>1 DEF keepsHold
<1>2. CASE rest(order, part) # NoOrder
  BY <1>2 DEF keepsHold
<1> QED BY <1>1, <1>2

LEMMA SettledStays ==
  ASSUME NEW start \in Seens, NEW seen \in Follows(start), NEW removal \in Removals, NEW id,
         NEW quantity \in Nat, quantity > 0, Settled(seen, id),
         NEW next, next = handleFailed(seen, removal, id, quantity)
  PROVE  Settled(next, id)
<1>1. seen \in Seens /\ seen.order \in Orders /\ seen.side \in Sides /\ seen.order.hold <= seen.order.quantity
  BY SeenFields DEF Follows
<1>2. removal.left \in Nat /\ removal.left > 0
  BY DEF Removals
<1>3. PICK part \in Nat : part = Lesser(quantity, removal.left) /\ part > 0
  BY <1>2 DEF Lesser
<1>4. /\ \A k \in DOMAIN seen.removals :
           k \in DOMAIN next.removals /\ next.removals[k] = seen.removals[k]
  BY <1>1, EarlierStay
<1>5. CASE next = waitsFor(seen, removal)
  <2>1. next.threw = seen.threw /\ next.order = seen.order
    BY <1>1, <1>5 DEF waitsFor, Seens
  <2> QED BY <1>4, <2>1 DEF Settled
<1>6. CASE next = throwsAt(seen, removal)
  <2>1. next.threw = "removal"
    BY <1>1, <1>6 DEF throwsAt, waitsFor, Seens
  <2> QED BY <2>1 DEF Settled
<1>7. CASE seen.threw = "no" /\ removesPart(seen, removal, part, next)
  <2>1. keepsHold(seen.order, part) /\ next.order = removed(seen.order, seen.side, part).order
    BY <1>7 DEF removesPart
  <2>2. seen.order.quantity = 0
    BY <1>1, <1>3, <1>7, <2>1, NothingToRemove DEF Settled
  <2>3. next.order \in Orders /\ next.order.quantity <= seen.order.quantity
    BY <1>1, <2>1, TakenOut
  <2>4. next.order.quantity = 0
    BY <2>2, <2>3
  <2> QED BY <2>4 DEF Settled
<1> QED BY <1>1, <1>3, <1>5, <1>6, <1>7, Handles

LEMMA SettledBy ==
  ASSUME NEW start \in Seens, start.order.hold <= start.order.quantity, NEW seen \in Follows(start), NEW removal \in Removals,
         NEW quantity \in Nat, quantity > 0, NEW hold \in Nat, removal.left >= hold,
         \/ hold = start.order.hold /\ start.order.quantity = hold
         \/ hold = start.order.hold + quantity /\ start.order.quantity = hold,
         NEW next, next = handleFailed(seen, removal, removal.order, quantity)
  PROVE  Settled(next, removal.order)
<1>1. /\ seen \in Seens /\ seen.order \in Orders /\ seen.side \in Sides /\ start.order \in Orders
      /\ seen.order.hold = start.order.hold /\ seen.order.quantity <= start.order.quantity
      /\ seen.order.hold <= seen.order.quantity
  BY SeenFields DEF Follows
<1>2. removal.left \in Nat /\ removal.left > 0 /\ seen.removals \in Seq(Removals)
  <2>1. removal.left \in Nat /\ removal.left > 0
    BY DEF Removals
  <2> QED BY <1>1, <2>1, SeenFields
<1>3. PICK part \in Nat : /\ part = Lesser(quantity, removal.left) /\ part > 0
                          /\ part <= quantity /\ part <= removal.left
  BY <1>2 DEF Lesser
<1>4. CASE next = waitsFor(seen, removal) /\ seen.threw # "no"
  <2>1. next.threw = seen.threw
    BY <1>1, <1>4 DEF waitsFor, Seens
  <2> QED BY <1>4, <2>1 DEF Settled
<1>5. CASE next = throwsAt(seen, removal)
  <2>1. next.threw = "removal"
    BY <1>1, <1>5 DEF throwsAt, waitsFor, Seens
  <2> QED BY <2>1 DEF Settled
<1>6. CASE seen.threw = "no" /\ removesPart(seen, removal, part, next)
  <2>1. PICK result : result = removed(seen.order, seen.side, part)
    OBVIOUS
  <2>2. /\ keepsHold(seen.order, part) /\ next.order = result.order
        /\ next.threw = IF result.ok THEN "no" ELSE "reserved"
        /\ next.removals = IF result.ok /\ part = removal.left THEN seen.removals
                           ELSE Append(seen.removals, IF result.ok THEN lessOf(removal, part) ELSE removal)
    BY <1>6, <2>1 DEF removesPart
  <2>3. /\ result.order = rest(seen.order, part) /\ result.order \in Orders /\ result.order.hold = seen.order.hold
    BY <1>1, <2>1, <2>2, TakenOut
  <2>4. CASE result.order = NoOrder
    BY <2>2, <2>4 DEF Settled
  <2>5. CASE ~result.ok
    BY <2>2, <2>5 DEF Settled
  <2>6. CASE result.ok /\ result.order # NoOrder
    <3>1. part <= seen.order.quantity - seen.order.hold
      BY <2>2, <2>3, <2>6 DEF keepsHold
    <3>2. result.order.quantity = seen.order.quantity - part
      <4> HIDE DEF Orders, NoOrder
      <4> QED BY <1>1, <2>3, <2>6, RestOf
    <3>3. PICK a, b, c \in Nat : a = seen.order.quantity /\ b = seen.order.hold /\ c = start.order.quantity
      BY <1>1
    <3>4. a \in Nat /\ b \in Nat /\ c \in Nat
      BY <1>1, <3>3
    <3>5. a <= c /\ b <= a /\ b = start.order.hold /\ part <= a - b
      BY <1>1, <3>1, <3>3
    <3>6. hold = b + quantity /\ c = hold
      BY <1>3, <3>3, <3>4, <3>5
    <3>7. part = quantity
      BY <1>2, <1>3, <3>4, <3>6 DEF Lesser
    <3>8. a = hold
      BY <3>4, <3>5, <3>6, <3>7
    <3>9. result.order.quantity = b
      BY <3>2, <3>3, <3>4, <3>6, <3>7, <3>8
    <3>10. result.order.hold = b
      BY <2>3, <3>3
    <3>11. CASE part = removal.left
      <4>1. b = 0
        BY <1>2, <3>4, <3>6, <3>7, <3>11
      <4> QED BY <2>2, <3>9, <4>1 DEF Settled
    <3>12. CASE part # removal.left
      <4>1. PICK less \in Removals : less = lessOf(removal, part)
        <5>1. lessOf(removal, part) \in Removals
          BY <1>2, <1>3, <3>12 DEF lessOf, Removals
        <5> QED BY <5>1
      <4>2. less.order = removal.order /\ less.left = removal.left - part
        BY <4>1 DEF lessOf, Removals
      <4>3. less.left >= b
        BY <1>2, <3>4, <3>6, <3>7, <4>2
      <4>4. next.removals = Append(seen.removals, less)
        BY <2>2, <2>6, <3>12, <4>1
      <4>5. \E k \in DOMAIN next.removals : next.removals[k] = less
        <5>1. PICK waits \in Seq(Removals) : waits = seen.removals
          BY <1>2
        <5>2. PICK all : all = Append(waits, less)
          OBVIOUS
        <5>3. all \in Seq(Removals) /\ Len(all) = Len(waits) + 1 /\ all[Len(waits) + 1] = less
          BY <5>2, AppendRemoval
        <5>4. Len(waits) + 1 \in DOMAIN all
          BY <5>3
        <5> QED BY <4>4, <5>1, <5>2, <5>3, <5>4
      <4> QED BY <2>2, <3>9, <3>10, <4>2, <4>3, <4>5 DEF Settled
    <3> QED BY <3>11, <3>12
  <2> QED BY <2>4, <2>5, <2>6
<1> QED BY <1>1, <1>3, <1>4, <1>5, <1>6, Handles

LEMMA HeardSettles ==
  ASSUME removals \in Seq(Removals), NEW start \in Seens, start.order.hold <= start.order.quantity,
         NEW id, NEW quantity \in Nat, quantity > 0, NEW f, f = heard(start, id, quantity),
         NEW j \in DOMAIN removals, removals[j].order = id, NEW hold \in Nat, removals[j].left >= hold,
         \/ hold = start.order.hold /\ start.order.quantity = hold
         \/ hold = start.order.hold + quantity /\ start.order.quantity = hold
  PROVE  Settled(f[Len(removals)], id)
<1>1. PICK n \in Nat : n = Len(removals) /\ j \in 1 .. n
  OBVIOUS
<1>2. /\ \A i \in 1 .. n : f[i] = handleFailed(f[i - 1], removals[i], id, quantity) /\ removals[i] \in Removals
      /\ \A i \in 0 .. n : f[i] \in Follows(start)
  BY <1>1, Heard
<1> DEFINE P == {i \in 0 .. n : i < j \/ Settled(f[i], id)}
<1>3. P \in SUBSET (0 .. n) /\ 0 \in P
  BY <1>1
<1>4. ASSUME NEW i \in 1 .. n, i - 1 \in P PROVE i \in P
  <2>1. i \in 0 .. n /\ i - 1 \in 0 .. n
    OBVIOUS
  <2>2. /\ f[i - 1] \in Follows(start) /\ f[i] = handleFailed(f[i - 1], removals[i], id, quantity)
        /\ removals[i] \in Removals
    BY <1>2, <2>1
  <2>3. CASE i < j
    BY <2>1, <2>3
  <2>4. CASE i = j
    <3>1. Settled(f[i], id)
      BY <2>2, <2>4, SettledBy
    <3> QED BY <2>1, <3>1
  <2>5. CASE i > j
    <3>1. Settled(f[i - 1], id)
      BY <1>1, <1>4, <2>5
    <3>2. Settled(f[i], id)
      BY <2>2, <3>1, SettledStays
    <3> QED BY <2>1, <3>2
  <2> QED BY <1>1, <2>3, <2>4, <2>5
<1>5. P = 0 .. n
  <2> HIDE DEF P
  <2> QED BY <1>3, <1>4, Indices
<1>6. n \in P
  <2> HIDE DEF P
  <2> QED BY <1>5
<1>7. ~(n < j)
  BY <1>1
<1> QED BY <1>1, <1>6, <1>7

\* What the event makes of the order, of the reserved amounts and of the cancellations.
LEMMA FailedEvent ==
  ASSUME OwnIInv, NEW h \in Hashes, requests[h].stage # "none",
         NEW id, id = requests[h].order, NEW quantity, quantity = requests[h].quantity,
         NEW result, result = failedEvent(h)
  PROVE  /\ id \in OwnIds /\ quantity \in Nat /\ quantity > 0
         /\ result.order \in Orders /\ result.side \in Sides /\ result.threw \in Throws
         /\ result.removals \in Seq(Removals)
         /\ result.order.hold <= result.order.quantity /\ result.order.quantity <= book[id].quantity
         /\ result.order.quantity > 0 => result.order.isBuy = book[id].isBuy
         /\ Pays(book[id], reserved[book[id].isBuy], result.order, result.side)
         /\ IF deal[h] = "agreed" /\ releasable(id, quantity)
            THEN result.order.hold + quantity = book[id].hold
            ELSE result.order.hold = book[id].hold
         /\ \A j \in DOMAIN removals : removals[j].order # id =>
              \E k \in DOMAIN result.removals : result.removals[k] = removals[j]
         /\ mishaps \subseteq {"kept"} /\ id \in cancelled => Settled(result, id)
<1>1. /\ requests \in [Hashes -> Requests] /\ removals \in Seq(Removals) /\ reserved \in [BOOLEAN -> Sides]
      /\ book \in [Ids -> Orders] /\ RequestInv(h)
  BY TypeFacts DEF OwnIInv, PairIInv, PairTypeOK, DealsInv
<1>2. id \in OwnIds /\ id \in Ids /\ quantity \in Nat /\ quantity > 0
  BY <1>1 DEF Requests, RequestInv
<1>3. book[id] \in Orders /\ book[id].hold <= book[id].quantity
  BY <1>1, <1>2 DEF OwnIInv, PairIInv, HoldsCovered
<1>4. PICK releases \in BOOLEAN : releases <=> deal[h] = "agreed" /\ releasable(id, quantity)
  OBVIOUS
<1>5. PICK hold \in Nat : IF releases THEN hold + quantity = book[id].hold ELSE hold = book[id].hold
  <2>1. CASE releases
    <3>1. book[id].hold - quantity \in Nat
      BY <1>2, <1>3, <1>4, <2>1 DEF releasable
    <3>2. (book[id].hold - quantity) + quantity = book[id].hold
      BY <1>2, <1>3
    <3> QED BY <2>1, <3>1, <3>2
  <2>2. CASE ~releases
    BY <1>3, <2>2
  <2> QED BY <2>1, <2>2
<1>6. PICK order : order = IF releases THEN [book[id] EXCEPT !.hold = @ - quantity] ELSE book[id]
  OBVIOUS
<1>7. /\ order \in Orders /\ order.hold = hold /\ order.quantity = book[id].quantity /\ order.isBuy = book[id].isBuy
      /\ order.price = book[id].price
  <2>1. CASE releases
    <3>1. hold = book[id].hold - quantity
      BY <1>2, <1>3, <1>5, <2>1
    <3>2. order = [book[id] EXCEPT !.hold = hold]
      BY <1>6, <2>1, <3>1
    <3> QED BY <1>3, <3>2
  <2>2. CASE ~releases
    BY <1>3, <1>5, <1>6, <2>2
  <2> QED BY <2>1, <2>2
<1>8. PICK threw \in Throws : threw = IF deal[h] = "agreed" /\ ~releasable(id, quantity) THEN "hold" ELSE "no"
  BY DEF Throws
<1>9. PICK start : start = [order |-> order, side |-> reserved[book[id].isBuy], removals |-> <<>>, threw |-> threw]
  OBVIOUS
<1>10. start \in Seens /\ start.order = order /\ start.side = reserved[book[id].isBuy]
  <2>1. reserved[book[id].isBuy] \in Sides /\ <<>> \in Seq(Removals)
    BY <1>1, <1>3
  <2> HIDE DEF Orders
  <2> QED BY <1>7, <1>8, <1>9, <2>1 DEF Seens
<1>11. start.order.hold <= start.order.quantity
  <2>1. hold <= book[id].quantity
    BY <1>2, <1>3, <1>5
  <2> QED BY <1>7, <1>10, <2>1
<1>12. PICK f : f = heard(start, id, quantity)
  OBVIOUS
<1>13. PICK n \in Nat : n = Len(removals)
  BY <1>1
<1>14. result = f[n]
  <2>1. start = [order |-> IF deal[h] = "agreed" /\ ~(deal[h] = "agreed" /\ ~releasable(id, quantity))
                           THEN [book[id] EXCEPT !.hold = @ - quantity] ELSE book[id],
                 side |-> reserved[book[id].isBuy], removals |-> <<>>,
                 threw |-> IF deal[h] = "agreed" /\ ~releasable(id, quantity) THEN "hold" ELSE "no"]
    BY <1>4, <1>6, <1>8, <1>9
  <2> QED BY <1>12, <1>13, <2>1 DEF failedEvent
<1>15. f[n] \in Follows(start)
  BY <1>1, <1>2, <1>10, <1>11, <1>12, <1>13, Heard
<1>16. /\ result \in Seens /\ result.order.hold = hold /\ result.order.hold <= result.order.quantity
       /\ result.order.quantity <= book[id].quantity
       /\ result.order.quantity > 0 => result.order.isBuy = book[id].isBuy
       /\ Pays(book[id], reserved[book[id].isBuy], result.order, result.side)
  <2>1. \A kind \in Kinds : worth(order, kind) = worth(book[id], kind)
    BY <1>7, SameWorth
  <2>2. Pays(order, reserved[book[id].isBuy], result.order, result.side)
    BY <1>10, <1>14, <1>15 DEF Follows
  <2>3. Pays(book[id], reserved[book[id].isBuy], result.order, result.side)
    BY <2>1, <2>2 DEF Pays
  <2> QED BY <1>7, <1>10, <1>14, <1>15, <2>3 DEF Follows
<1>17. \A j \in DOMAIN removals : removals[j].order # id =>
         \E k \in DOMAIN result.removals : result.removals[k] = removals[j]
  <2> SUFFICES ASSUME NEW j \in DOMAIN removals, removals[j].order # id
               PROVE  \E k \in DOMAIN result.removals : result.removals[k] = removals[j]
    OBVIOUS
  <2>1. \E k \in DOMAIN f[Len(removals)].removals : f[Len(removals)].removals[k] = removals[j]
    BY <1>1, <1>2, <1>10, <1>11, <1>12, OthersWait
  <2> QED BY <1>13, <1>14, <2>1, Zenon
<1>18. ASSUME mishaps \subseteq {"kept"}, id \in cancelled PROVE Settled(result, id)
  <2>1. CASE id \notin live
    <3>1. result.order.quantity = 0
      BY <1>2, <1>3, <1>16, <2>1, SeenFields
    <3> QED BY <3>1 DEF Settled
  <2>2. CASE id \in live
    <3>1. available(id) = 0 /\ awaited(id)
      BY <1>18, <2>2 DEF OwnIInv, CancelInv
    <3>2. PICK j \in DOMAIN removals : removals[j].order = id /\ removals[j].left >= book[id].hold
      BY <3>1 DEF awaited
    <3>3. book[id].quantity = book[id].hold /\ book[id].hold \in Nat
      BY <1>3, <3>1
    <3>4. \/ book[id].hold = start.order.hold /\ start.order.quantity = book[id].hold
          \/ book[id].hold = start.order.hold + quantity /\ start.order.quantity = book[id].hold
      BY <1>5, <1>7, <1>10, <3>3
    <3>5. Settled(f[Len(removals)], id)
      BY <1>1, <1>2, <1>10, <1>11, <1>12, <3>2, <3>3, <3>4, HeardSettles
    <3> QED BY <1>13, <1>14, <3>5
  <2> QED BY <2>1, <2>2
<1>19. /\ result.order \in Orders /\ result.side \in Sides /\ result.threw \in Throws
       /\ result.removals \in Seq(Removals)
  BY <1>16, SeenFields
<1>20. IF deal[h] = "agreed" /\ releasable(id, quantity)
       THEN result.order.hold + quantity = book[id].hold
       ELSE result.order.hold = book[id].hold
  BY <1>4, <1>5, <1>16
<1> QED BY <1>2, <1>16, <1>17, <1>18, <1>19, <1>20

\* The event, with the step of the deal that it belongs to.
LEMMA AfterFailedInv ==
  ASSUME OwnIInv, ~matching, NEW h \in Hashes, requests[h].stage # "none", afterFailed(h),
         Moves(h), RequestInv(h)',
         IF deal[h] = "agreed" THEN holding(h) /\ ~holding(h)' ELSE holding(h)' <=> holding(h)
  PROVE  OwnIInv'
<1>1. PICK id, quantity, result :
        id = requests[h].order /\ quantity = requests[h].quantity /\ result = failedEvent(h)
  BY Zenon
<1>2. /\ id \in OwnIds /\ quantity \in Nat /\ quantity > 0
      /\ result.order \in Orders /\ result.side \in Sides /\ result.threw \in Throws
      /\ result.removals \in Seq(Removals)
      /\ result.order.hold <= result.order.quantity /\ result.order.quantity <= book[id].quantity
      /\ result.order.quantity > 0 => result.order.isBuy = book[id].isBuy
      /\ Pays(book[id], reserved[book[id].isBuy], result.order, result.side)
      /\ IF deal[h] = "agreed" /\ releasable(id, quantity)
         THEN result.order.hold + quantity = book[id].hold
         ELSE result.order.hold = book[id].hold
      /\ \A j \in DOMAIN removals : removals[j].order # id =>
           \E k \in DOMAIN result.removals : result.removals[k] = removals[j]
      /\ mishaps \subseteq {"kept"} /\ id \in cancelled => Settled(result, id)
  BY <1>1, FailedEvent
<1>3. /\ puts(id, result.order) /\ reserves(book[id].isBuy, result.side)
      /\ removals' = result.removals
      /\ noted("caught", result.threw # "no")
      /\ UNCHANGED <<matchVars, offered, fills, sold, cancelled, down>>
  BY <1>1 DEF afterFailed
<1>4. PICK order \in Orders : order = result.order
  BY <1>2
<1>5. Replaces(id, order)
  BY <1>2, <1>3, <1>4, Puts
<1>6. /\ reserved' \in [BOOLEAN -> Sides]
      /\ Settles(id, order)
  BY <1>2, <1>3, <1>4, SideMoves
<1>7. /\ sold \in [OwnIds -> Nat] /\ mishaps \subseteq Mishaps /\ book[id] \in Orders /\ offered \in [Ids -> Nat]
      /\ cancelled \subseteq OwnIds /\ id \in Ids
  BY <1>2, TypeFacts DEF OwnIInv, PairIInv, PairTypeOK
<1>8. sold'[id] + order.quantity <= offered'[id]
  <2>1. sold[id] + book[id].quantity <= offered[id]
    BY <1>2 DEF OwnIInv, SwapsNotOversold
  <2>2. sold[id] \in Nat /\ book[id].quantity \in Nat /\ order.quantity \in Nat /\ offered[id] \in Nat
    BY <1>2, <1>4, <1>7
  <2>3. order.quantity <= book[id].quantity
    BY <1>2, <1>4
  <2> QED BY <1>3, <2>1, <2>2, <2>3
<1>9. /\ mishaps \subseteq mishaps' /\ mishaps' \subseteq Mishaps
      /\ result.threw # "no" => "caught" \in mishaps'
      /\ "releasedTwice" \in mishaps' <=> "releasedTwice" \in mishaps
  BY <1>3, <1>7 DEF noted, Mishaps
<1>10. DealsInv' /\ \A own \in OwnIds, g \in Hashes : g # h => held(g, own)' = held(g, own)
  BY MovesFacts
<1>11. /\ PairIInv' /\ OwnTypeOK' /\ SwapsNotOversold' /\ BudgetInv'
       /\ book'[id] = order /\ \A other \in Ids \ {id} : book'[other] = book[other]
  BY <1>2, <1>3, <1>5, <1>6, <1>7, <1>8, <1>9, <1>10, BookStep DEF Moves
<1>12. HoldsMatchSwaps'
  <2>1. OwnTypeOK /\ HoldsMatchSwaps /\ requests'[h].order = id /\ requests'[h].quantity = quantity
    BY <1>1 DEF OwnIInv, Moves
  <2>2. PICK was, is : was = held(h, id) /\ is = held(h, id)'
    BY Zenon
  <2>3. /\ was = IF holding(h) THEN quantity ELSE 0
        /\ is = IF holding(h)' THEN quantity ELSE 0
    BY <1>1, <2>1, <2>2 DEF held
  <2>4. ASSUME "releasedTwice" \notin mishaps' PROVE book'[id].hold + was = book[id].hold + is
    <3>1. CASE deal[h] = "agreed"
      <4>1. quantity <= book[id].hold
        BY <1>1, <1>9, <2>1, <2>4, <3>1, HoldIsThere
      <4>2. releasable(id, quantity)
        BY <1>2, <1>7, <4>1, <1>11 DEF releasable, OwnIInv, PairIInv, HoldsCovered
      <4>3. order.hold + quantity = book[id].hold
        BY <1>2, <1>4, <3>1, <4>2
      <4>4. was = quantity /\ is = 0
        BY <2>3, <3>1
      <4> QED BY <1>2, <1>4, <1>7, <1>11, <4>3, <4>4
    <3>2. CASE deal[h] # "agreed"
      <4>1. order.hold = book[id].hold /\ was = is
        BY <1>2, <1>4, <2>3, <3>2
      <4>2. was \in Nat
        BY <1>2, <2>3
      <4> QED BY <1>11, <4>1, <4>2
    <3> QED BY <3>1, <3>2
  <2>5. \A own \in OwnIds \ {id} : book'[own].hold = book[own].hold
    BY <1>11
  <2>6. \A own \in OwnIds, g \in Hashes : own # id \/ g # h => held(g, own)' = held(g, own)
    <3>1. \A own \in OwnIds : own # id => held(h, own)' = held(h, own)
      BY <1>1, <2>1 DEF held
    <3> QED BY <1>10, <3>1
  <2> QED BY <1>2, <1>9, <1>11, <2>1, <2>2, <2>4, <2>5, <2>6, HoldsMove
<1>13. CancelInv'
  <2>1. ASSUME NEW other \in OwnIds \ {id}, awaited(other) PROVE awaited(other)'
    <3>1. \A j \in DOMAIN removals : removals[j].order = other =>
            \E k \in DOMAIN result.removals : result.removals[k] = removals[j]
      BY <1>2, <2>1
    <3>2. book'[other] = book[other]
      BY <1>11
    <3> QED BY <1>3, <2>1, <3>1, <3>2, WaitsStay
  <2>2. ASSUME mishaps' \subseteq {"kept"}, id \in cancelled', order.quantity > 0
        PROVE  order.quantity = order.hold /\ awaited(id)'
    <3>1. result.threw = "no" /\ mishaps \subseteq {"kept"} /\ id \in cancelled
      BY <1>3, <1>9, <2>2
    <3>2. Settled(result, id)
      BY <1>2, <3>1
    <3>3. /\ result.order.quantity = result.order.hold
          /\ \E k \in DOMAIN result.removals :
               result.removals[k].order = id /\ result.removals[k].left >= result.order.hold
      BY <1>4, <2>2, <3>1, <3>2 DEF Settled
    <3> QED BY <1>3, <1>4, <1>11, <3>3 DEF awaited
  <2>3. id \in cancelled' => offered'[id] > 0
    BY <1>3 DEF OwnIInv, CancelInv
  <2> QED BY <1>2, <1>3, <1>5, <1>7, <1>9, <2>1, <2>2, <2>3, CancelMoves
<1> QED BY <1>10, <1>11, <1>12, <1>13 DEF OwnIInv

LEMMA ThrowReasons ==
  ASSUME OwnIInv, NEW h \in Hashes, requests[h].stage # "none", failedEvent(h).threw # "no"
  PROVE  failedEvent(h).threw \in {"hold", "removal", "reserved", "database"}
<1>1. PICK id, quantity, result :
        id = requests[h].order /\ quantity = requests[h].quantity /\ result = failedEvent(h)
  BY Zenon
<1>2. result.threw \in Throws
  BY <1>1, FailedEvent
<1> QED BY <1>1, <1>2 DEF Throws

LEMMA DealFailsInv ==
  ASSUME OwnIInv, ~matching, NEW h \in Hashes, DealFails(h)
  PROVE  OwnIInv'
<1>1. RequestInv(h) /\ Deals!DealTypeOK /\ requests \in [Hashes -> Requests]
  BY TypeFacts DEF OwnIInv, DealsInv
<1>2. PICK threw : threw = failedEvent(h).threw
  OBVIOUS
<1>3. CASE threw # "no" /\ Deals!canFail(h) /\ Stops(threw)
  <2>1. requests[h].stage # "none"
    BY <1>1, <1>3 DEF RequestInv, Deals!canFail
  <2>2. threw \in {"hold", "removal", "reserved", "database"}
    BY <1>2, <1>3, <2>1, ThrowReasons
  <2> QED BY <1>3, <2>2, StopsInv
<1>4. CASE Deals!Fail(h) /\ afterFailed(h) /\ UNCHANGED requests
  <2>1. /\ deal'[h] = deal[h] /\ h \in failed' /\ (h \in asking' <=> h \in asking)
        /\ deal[h] \in {"created", "agreed"} /\ h \notin failed /\ Deals!DealTypeOK'
    BY <1>1, <1>4, DealSteps
  <2>2. Moves(h)
    BY <1>1, <1>4, <2>1, DealSteps DEF Moves, OthersStay
  <2>3. requests[h].stage \in {"asked", "accepted"} /\ (deal[h] = "created" => requests[h].stage = "asked")
    <3>1. requests[h].stage \in Stages
      BY <1>1 DEF Requests
    <3> QED BY <1>1, <2>1, <3>1 DEF RequestInv, Stages
  <2>4. RequestInv(h)'
    BY <1>1, <1>4, <2>1, <2>3 DEF RequestInv
  <2>5. IF deal[h] = "agreed" THEN holding(h) /\ ~holding(h)' ELSE holding(h)' <=> holding(h)
    BY <1>4, <2>1, <2>3 DEF holding, releasedByEvent
  <2> QED BY <1>4, <2>2, <2>3, <2>4, <2>5, AfterFailedInv
<1> QED BY <1>2, <1>3, <1>4 DEF DealFails

LEMMA DealRefusedInv ==
  ASSUME OwnIInv, ~matching, NEW h \in Hashes, DealRefused(h)
  PROVE  OwnIInv'
<1>1. /\ RequestInv(h) /\ Deals!DealTypeOK /\ requests[h].stage = "asked" /\ "refused" \in Stages
      /\ deal[h] = "created"
  BY TypeFacts DEF OwnIInv, DealsInv, DealRefused, Stages
<1>2. PICK threw : threw = failedEvent(h).threw
  OBVIOUS
<1>3. CASE threw # "no" /\ Stops(threw)
  <2>1. threw \in {"hold", "removal", "reserved", "database"}
    BY <1>1, <1>2, <1>3, ThrowReasons
  <2> QED BY <1>3, <2>1, StopsInv
<1>4. ASSUME Deals!Refuse(h), staged(h, "refused")
      PROVE  Moves(h) /\ RequestInv(h)' /\ (holding(h)' <=> holding(h))
  <2>1. /\ requests' \in [Hashes -> Requests] /\ requests'[h].stage = "refused"
        /\ requests'[h].order = requests[h].order /\ requests'[h].quantity = requests[h].quantity
        /\ \A g \in Hashes \ {h} : requests'[g] = requests[g]
    BY <1>1, <1>4, StagedMoves
  <2>2. Moves(h)
    BY <1>1, <1>4, <2>1, DealSteps DEF Moves, OthersStay
  <2>3. deal'[h] = "created" /\ h \in failed' /\ h \notin asking'
    BY <1>1, <1>4, DealSteps
  <2>4. RequestInv(h)' /\ (holding(h)' <=> holding(h))
    BY <1>1, <2>1, <2>3 DEF RequestInv, holding, releasedByEvent
  <2> QED BY <2>2, <2>4
<1>5. CASE /\ Deals!Refuse(h) /\ staged(h, "refused")
           /\ UNCHANGED <<pairVars, removals, reserved, fills, sold, cancelled, mishaps, down>>
  BY <1>4, <1>5, MoveQuiet
<1>6. CASE Deals!Refuse(h) /\ afterFailed(h) /\ staged(h, "refused")
  BY <1>1, <1>4, <1>6, AfterFailedInv
<1> QED BY <1>1, <1>2, <1>3, <1>5, <1>6 DEF DealRefused

LEMMA DealWithdrawnInv ==
  ASSUME OwnIInv, ~matching, NEW h \in Hashes, DealWithdrawn(h)
  PROVE  OwnIInv'
<1>1. /\ RequestInv(h) /\ Deals!DealTypeOK /\ requests[h].stage = "asked" /\ "withdrawn" \in Stages
      /\ deal[h] = "agreed"
  BY TypeFacts DEF OwnIInv, DealsInv, DealWithdrawn, Stages
<1>2. PICK threw : threw = failedEvent(h).threw
  OBVIOUS
<1>3. CASE threw # "no" /\ Stops(threw)
  <2>1. threw \in {"hold", "removal", "reserved", "database"}
    BY <1>1, <1>2, <1>3, ThrowReasons
  <2> QED BY <1>3, <2>1, StopsInv
<1>4. ASSUME Deals!Withdraw(h), staged(h, "withdrawn")
      PROVE  Moves(h) /\ RequestInv(h)' /\ ~holding(h)' /\ (holding(h) <=> h \notin failed)
  <2>1. /\ requests' \in [Hashes -> Requests] /\ requests'[h].stage = "withdrawn"
        /\ requests'[h].order = requests[h].order /\ requests'[h].quantity = requests[h].quantity
        /\ \A g \in Hashes \ {h} : requests'[g] = requests[g]
    BY <1>1, <1>4, StagedMoves
  <2>2. Moves(h)
    BY <1>1, <1>4, <2>1, DealSteps DEF Moves, OthersStay
  <2>3. deal'[h] = "agreed" /\ h \in failed' /\ h \notin asking'
    BY <1>1, <1>4, DealSteps
  <2>4. RequestInv(h)' /\ ~holding(h)' /\ (holding(h) <=> h \notin failed)
    BY <1>1, <2>1, <2>3 DEF RequestInv, holding, releasedByEvent
  <2> QED BY <2>2, <2>4
<1>5. CASE /\ h \in failed /\ Deals!Withdraw(h) /\ staged(h, "withdrawn")
           /\ UNCHANGED <<pairVars, removals, reserved, fills, sold, cancelled, mishaps, down>>
  BY <1>4, <1>5, MoveQuiet
<1>6. CASE h \notin failed /\ Deals!Withdraw(h) /\ afterFailed(h) /\ staged(h, "withdrawn")
  BY <1>1, <1>4, <1>6, AfterFailedInv
<1> QED BY <1>1, <1>2, <1>3, <1>5, <1>6 DEF DealWithdrawn

-----------------------------------------------------------------------------
(* What "swap.paid" leaves of the cancellations *)

LEMMA LessIsRemoval ==
  ASSUME NEW removal \in Removals, NEW part \in Nat, removal.left > part
  PROVE  /\ lessOf(removal, part) \in Removals /\ lessOf(removal, part).order = removal.order
         /\ lessOf(removal, part).left = removal.left - part
<1>1. removal.left \in Nat
  BY DEF Removals
<1>2. PICK less \in Nat \ {0} : less = removal.left - part
  BY <1>1
<1>3. lessOf(removal, part) = [removal EXCEPT !.left = less]
  BY <1>2 DEF lessOf
<1>4. /\ lessOf(removal, part) \in Removals /\ lessOf(removal, part).order = removal.order
      /\ lessOf(removal, part).left = less
  BY <1>3 DEF Removals
<1> QED BY <1>2, <1>4, Zenon

paidFrom(removal, id, quantity) == IF removal.order # id THEN removal ELSE lessOf(removal, quantity)

\* A cancellation that has more to wait for goes on waiting for the rest.
LEMMA PaidKeeps ==
  ASSUME removals \in Seq(Removals), NEW id, NEW quantity \in Nat, NEW waits, waits = paidEvent(id, quantity),
         NEW j \in DOMAIN removals, removals[j].order # id \/ removals[j].left > quantity
  PROVE  waits \in Seq(Removals) /\ \E k \in DOMAIN waits : waits[k] = paidFrom(removals[j], id, quantity)
<1>0. PICK entry : entry = paidFrom(removals[j], id, quantity)
  BY Zenon
<1>1. PICK n \in Nat : n = Len(removals) /\ j \in 1 .. n
  OBVIOUS
<1>2. PICK f : /\ f[0] = <<>> /\ waits = f[Len(removals)]
               /\ \A i \in 1 .. Len(removals) : f[i] = handlePaid(f[i - 1], removals[i], id, quantity)
               /\ \A i \in 0 .. Len(removals) : f[i] \in Seq(Removals)
  BY Paid
<1>3. /\ \A i \in 1 .. n : f[i] = handlePaid(f[i - 1], removals[i], id, quantity) /\ removals[i] \in Removals
      /\ \A i \in 0 .. n : f[i] \in Seq(Removals)
  BY <1>1, <1>2
<1>10. entry = IF removals[j].order # id THEN removals[j] ELSE lessOf(removals[j], quantity)
  BY <1>0 DEF paidFrom
<1> DEFINE P == {i \in 0 .. n : i < j \/ \E k \in DOMAIN f[i] : f[i][k] = entry}
<1>4. P \in SUBSET (0 .. n) /\ 0 \in P
  BY <1>1
<1>5. ASSUME NEW i \in 1 .. n, i - 1 \in P PROVE i \in P
  <2>1. i \in 0 .. n /\ i - 1 \in 0 .. n
    OBVIOUS
  <2>2. PICK was \in Seq(Removals), now \in Seq(Removals), removal \in Removals :
          was = f[i - 1] /\ now = f[i] /\ removal = removals[i]
    BY <1>3, <2>1
  <2>3. now = handlePaid(was, removal, id, quantity) /\ removal.left \in Nat
    BY <1>3, <2>2 DEF Removals
  <2>4. \/ now = was /\ removal.order = id /\ removal.left <= quantity
        \/ removal.order # id /\ now = Append(was, removal)
        \/ removal.order = id /\ removal.left > quantity /\ now = Append(was, lessOf(removal, quantity))
    BY <2>3 DEF handlePaid, lessOf
  <2>5. \A k \in DOMAIN was : k \in DOMAIN now /\ now[k] = was[k]
    <3>1. CASE now = was
      BY <3>1
    <3>2. ASSUME NEW last \in Removals, now = Append(was, last)
          PROVE  \A k \in DOMAIN was : k \in DOMAIN now /\ now[k] = was[k]
      <4>1. /\ Len(now) = Len(was) + 1 /\ DOMAIN was = 1 .. Len(was) /\ DOMAIN now = 1 .. Len(now)
            /\ Len(was) \in Nat /\ \A k \in 1 .. Len(was) : now[k] = was[k]
        BY <2>2, <3>2, AppendRemoval
      <4> QED BY <4>1
    <3>3. removal.left > quantity => lessOf(removal, quantity) \in Removals
      BY LessIsRemoval
    <3>4. CASE removal.order # id /\ now = Append(was, removal)
      BY <3>2, <3>4
    <3>5. CASE removal.left > quantity /\ now = Append(was, lessOf(removal, quantity))
      BY <3>2, <3>3, <3>5
    <3> QED BY <2>4, <3>1, <3>4, <3>5
  <2>6. i = j => \E k \in DOMAIN now : now[k] = entry
    <3> SUFFICES ASSUME i = j PROVE \E k \in DOMAIN now : now[k] = entry
      OBVIOUS
    <3>1. now = Append(was, entry)
      BY <1>10, <2>2, <2>3, <2>4
    <3>2. Len(was) + 1 \in DOMAIN now /\ now[Len(was) + 1] = entry
      BY <2>2, <3>1
    <3> QED BY <3>2
  <2>7. i > j => \E k \in DOMAIN now : now[k] = entry
    <3> SUFFICES ASSUME i > j PROVE \E k \in DOMAIN now : now[k] = entry
      OBVIOUS
    <3>1. ~(i - 1 < j)
      BY <1>1
    <3>2. PICK k \in DOMAIN was : was[k] = entry
      BY <1>5, <2>2, <3>1
    <3> QED BY <2>5, <3>2
  <2> QED BY <1>1, <2>1, <2>2, <2>6, <2>7
<1>6. P = 0 .. n
  <2> HIDE DEF P
  <2> QED BY <1>4, <1>5, Indices
<1>7. n \in P
  <2> HIDE DEF P
  <2> QED BY <1>6
<1>8. ~(n < j)
  BY <1>1
<1>9. waits = f[n] /\ waits \in Seq(Removals)
  BY <1>1, <1>2, <1>3
<1> QED BY <1>0, <1>7, <1>8, <1>9

LEMMA DealPaidInv ==
  ASSUME OwnIInv, ~matching, NEW h \in Hashes, DealPaid(h)
  PROVE  OwnIInv'
<1>1. /\ requests \in [Hashes -> Requests] /\ Deals!DealTypeOK /\ mishaps \subseteq Mishaps
      /\ removals \in Seq(Removals) /\ reserved \in [BOOLEAN -> Sides] /\ sold \in [OwnIds -> Nat]
      /\ RequestInv(h) /\ book \in [Ids -> Orders] /\ offered \in [Ids -> Nat] /\ cancelled \subseteq OwnIds
  BY TypeFacts DEF OwnIInv, DealsInv, PairIInv, PairTypeOK
<1>2. requests[h].stage = "accepted"
  BY DEF DealPaid
<1>3. PICK id \in OwnIds, quantity \in Nat : id = requests[h].order /\ quantity = requests[h].quantity
  BY <1>1 DEF Requests
<1>4. quantity > 0 /\ deal[h] = "agreed" /\ id \in Ids
  BY <1>1, <1>2, <1>3 DEF RequestInv
<1>5. book[id] \in Orders /\ book[id].hold <= book[id].quantity
  BY <1>1, <1>4 DEF OwnIInv, PairIInv, HoldsCovered
<1>6. PICK order : order = [book[id] EXCEPT !.hold = @ - quantity]
  OBVIOUS
<1>7. PICK result : result = removed(order, reserved[order.isBuy], quantity)
  OBVIOUS
<1>8. PICK threw : threw = IF ~releasable(id, quantity) THEN "hold"
                           ELSE IF ~keepsHold(order, quantity) THEN "removal"
                           ELSE IF result.ok THEN "no" ELSE "reserved"
  OBVIOUS
<1>9. \/ /\ threw = "no" /\ Deals!Pay(h)
         /\ puts(id, result.order) /\ reserves(order.isBuy, result.side)
         /\ removals' = paidEvent(id, quantity)
         /\ sold' = [sold EXCEPT ![id] = @ + quantity]
         /\ staged(h, "trading")
         /\ UNCHANGED <<matchVars, offered, fills, cancelled, mishaps, down>>
      \/ threw # "no" /\ Stops(threw)
  BY <1>3, <1>6, <1>7, <1>8 DEF DealPaid
<1>10. CASE threw # "no" /\ Stops(threw)
  <2>1. threw \in {"hold", "removal", "reserved", "database"}
    BY <1>8, <1>10
  <2> QED BY <1>10, <2>1, StopsInv
<1>11. CASE /\ threw = "no" /\ Deals!Pay(h)
            /\ puts(id, result.order) /\ reserves(order.isBuy, result.side)
            /\ removals' = paidEvent(id, quantity)
            /\ sold' = [sold EXCEPT ![id] = @ + quantity]
            /\ staged(h, "trading")
            /\ UNCHANGED <<matchVars, offered, fills, cancelled, mishaps, down>>
  <2>1. releasable(id, quantity) /\ keepsHold(order, quantity)
    BY <1>8, <1>11
  <2>2. /\ order \in Orders /\ order.hold + quantity = book[id].hold /\ order.hold \in Nat
        /\ order.quantity = book[id].quantity /\ order.isBuy = book[id].isBuy /\ order.hold <= order.quantity
        /\ order.price = book[id].price
    BY <1>3, <1>5, <1>6, <2>1 DEF releasable
  <2>3. reserved[order.isBuy] \in Sides
    BY <1>1, <2>2
  <2>4. /\ result.order = rest(order, quantity)
        /\ result.order \in Orders /\ result.side \in Sides
        /\ result.order.hold = order.hold /\ result.order.hold <= result.order.quantity
        /\ result.order.quantity <= order.quantity
        /\ result.order.quantity > 0 => result.order.isBuy = order.isBuy
        /\ Pays(order, reserved[order.isBuy], result.order, result.side)
    BY <1>3, <1>7, <2>1, <2>2, <2>3, TakenOut, ZenonT(40)
  <2>5. PICK left \in Orders : left = result.order
    BY <2>4
  <2>6. /\ left.hold + quantity = book[id].hold /\ left.hold <= left.quantity
        /\ left.quantity + quantity <= book[id].quantity
        /\ left.quantity > 0 => left.quantity + quantity = book[id].quantity
    <3>1. left.hold \in Nat /\ left.quantity \in Nat /\ book[id].quantity \in Nat /\ book[id].hold \in Nat
      BY <1>5, <2>5
    <3>2. \/ left = NoOrder
          \/ quantity < order.quantity /\ left.quantity = order.quantity - quantity
      <4> HIDE DEF Orders, NoOrder
      <4> QED BY <1>3, <2>2, <2>4, <2>5, RestOf
    <3>3. left = NoOrder => left.quantity = 0
      OBVIOUS
    <3> QED BY <1>3, <1>5, <2>2, <2>4, <2>5, <3>1, <3>2, <3>3
  <2>7. Replaces(id, left)
    BY <1>11, <2>4, <2>5, Puts
  <2>8. /\ reserved' \in [BOOLEAN -> Sides]
        /\ Settles(id, left)
    <3>1. reserves(book[id].isBuy, result.side)
      BY <1>11, <2>2
    <3>2. Pays(book[id], reserved[book[id].isBuy], left, result.side)
      <4>1. \A kind \in Kinds : worth(order, kind) = worth(book[id], kind)
        BY <2>2, SameWorth
      <4> QED BY <2>2, <2>4, <2>5, <4>1 DEF Pays
    <3>3. left.quantity > 0 => left.isBuy = book[id].isBuy
      BY <2>2, <2>4, <2>5
    <3> QED BY <2>4, <3>1, <3>2, <3>3, SideMoves
  <2>9. PICK waits : waits = paidEvent(id, quantity)
    OBVIOUS
  <2>10. waits \in Seq(Removals) /\ removals' = waits
    <3>1. PICK f : paidEvent(id, quantity) = f[Len(removals)] /\ \A i \in 0 .. Len(removals) : f[i] \in Seq(Removals)
      BY <1>1, Paid, ZenonT(40)
    <3>2. Len(removals) \in 0 .. Len(removals)
      BY <1>1
    <3> QED BY <1>11, <2>9, <3>1, <3>2
  <2>11. /\ sold' \in [OwnIds -> Nat] /\ sold'[id] = sold[id] + quantity
         /\ \A other \in OwnIds \ {id} : sold'[other] = sold[other]
    <3>1. PICK n \in Nat : n = sold[id] + quantity
      BY <1>1
    <3> QED BY <1>1, <1>11, <3>1
  <2>12. sold'[id] + left.quantity <= offered'[id]
    <3>1. sold[id] + book[id].quantity <= offered[id]
      BY DEF OwnIInv, SwapsNotOversold
    <3>2. sold[id] \in Nat /\ book[id].quantity \in Nat /\ left.quantity \in Nat /\ offered[id] \in Nat
      BY <1>1, <1>4, <1>5
    <3> QED BY <1>3, <1>11, <2>6, <2>11, <3>1, <3>2
  <2>13. /\ requests' \in [Hashes -> Requests] /\ requests'[h].stage = "trading"
         /\ requests'[h].order = id /\ requests'[h].quantity = quantity
         /\ \A g \in Hashes \ {h} : requests'[g] = requests[g]
    BY <1>3, <1>11, StagedMoves DEF Stages
  <2>14. /\ Deals!DealTypeOK' /\ deal'[h] = "paid" /\ h \notin failed' /\ h \notin asking' /\ h \notin failed
         /\ \A g \in Hashes \ {h} : /\ deal'[g] = deal[g]
                                    /\ g \in failed' <=> g \in failed
                                    /\ g \in asking' <=> g \in asking
    BY <1>1, <1>11, DealSteps
  <2>15. Moves(h)
    BY <1>3, <2>13, <2>14 DEF Moves, OthersStay
  <2>16. RequestInv(h)'
    BY <1>3, <1>4, <2>13, <2>14 DEF RequestInv
  <2>17. DealsInv' /\ \A own \in OwnIds, g \in Hashes : g # h => held(g, own)' = held(g, own)
    BY <2>15, <2>16, MovesFacts
  <2>18. /\ PairIInv' /\ OwnTypeOK' /\ SwapsNotOversold' /\ BudgetInv'
         /\ book'[id] = left /\ \A other \in Ids \ {id} : book'[other] = book[other]
    <3>1. /\ fills' = fills /\ cancelled' \subseteq OwnIds /\ mishaps \subseteq mishaps'
          /\ mishaps' \subseteq Mishaps /\ down' = down /\ removals' \in Seq(Removals)
      BY <1>1, <1>11, <2>10
    <3>2. requests' \in [Hashes -> Requests] /\ Deals!DealTypeOK' /\ DealsInv'
      BY <2>13, <2>14, <2>17
    <3> HIDE DEF Orders, NoOrder
    <3> QED BY <2>7, <2>8, <2>11, <2>12, <3>1, <3>2, BookStep
  <2>19. HoldsMatchSwaps'
    <3>1. OwnTypeOK /\ HoldsMatchSwaps
      BY DEF OwnIInv
    <3>2. PICK was, is : was = held(h, id) /\ is = held(h, id)'
      BY Zenon
    <3>3. was = quantity /\ is = 0
      BY <1>2, <1>3, <1>4, <2>13, <2>14, <3>2 DEF held, holding, releasedByEvent
    <3>4. book'[id].hold + was = book[id].hold + is
      BY <1>5, <2>6, <2>18, <3>3
    <3>5. \A own \in OwnIds \ {id} : book'[own].hold = book[own].hold
      BY <2>18
    <3>6. \A own \in OwnIds, g \in Hashes : own # id \/ g # h => held(g, own)' = held(g, own)
      <4>1. \A own \in OwnIds : own # id => held(h, own)' = held(h, own)
        BY <1>3, <2>13 DEF held
      <4> QED BY <2>17, <4>1
    <3>7. "releasedTwice" \notin mishaps' => "releasedTwice" \notin mishaps
      BY <1>11
    <3> QED BY <2>18, <3>1, <3>2, <3>4, <3>5, <3>6, <3>7, HoldsMove
  <2>20. CancelInv'
    <3>1. ASSUME NEW other \in OwnIds \ {id}, awaited(other) PROVE awaited(other)'
      <4>1. \A j \in DOMAIN removals : removals[j].order = other =>
              \E k \in DOMAIN waits : waits[k] = removals[j]
        <5> SUFFICES ASSUME NEW j \in DOMAIN removals, removals[j].order = other
                     PROVE  \E k \in DOMAIN waits : waits[k] = removals[j]
          OBVIOUS
        <5>1. removals[j].order # id
          BY <3>1
        <5>2. \E k \in DOMAIN waits : waits[k] = paidFrom(removals[j], id, quantity)
          BY <1>1, <2>9, <5>1, PaidKeeps, SMTT(20)
        <5> QED BY <5>1, <5>2 DEF paidFrom
      <4>2. book'[other] = book[other]
        BY <2>18
      <4> QED BY <2>10, <3>1, <4>1, <4>2, WaitsStay
    <3>2. ASSUME mishaps' \subseteq {"kept"}, id \in cancelled', left.quantity > 0
          PROVE  left.quantity = left.hold /\ awaited(id)'
      <4>1. mishaps \subseteq {"kept"} /\ id \in cancelled
        BY <1>11, <3>2
      <4>2. id \in live
        BY <2>1 DEF releasable
      <4>3. available(id) = 0 /\ awaited(id)
        BY <4>1, <4>2 DEF OwnIInv, CancelInv
      <4>4. /\ left.hold \in Nat /\ left.quantity \in Nat /\ book[id].quantity \in Nat /\ book[id].hold \in Nat
        BY <1>5
      <4>5. book[id].quantity = book[id].hold
        BY <1>5, <4>3, <4>4
      <4>6. left.quantity = left.hold /\ left.hold > 0
        BY <1>3, <2>6, <3>2, <4>4, <4>5
      <4>7. PICK j \in DOMAIN removals : removals[j].order = id /\ removals[j].left >= book[id].hold
        BY <4>3 DEF awaited
      <4>8. removals[j] \in Removals
        BY <1>1
      <4>9. removals[j].left \in Nat /\ removals[j].left > quantity
        BY <1>3, <2>6, <4>4, <4>6, <4>7, <4>8 DEF Removals
      <4>10. PICK entry : entry = lessOf(removals[j], quantity)
        OBVIOUS
      <4>11. entry.order = id /\ entry.left = removals[j].left - quantity
        BY <4>7, <4>8, <4>9, <4>10, LessIsRemoval
      <4>12. PICK k \in DOMAIN waits : waits[k] = entry
        <5>1. \E k \in DOMAIN waits : waits[k] = paidFrom(removals[j], id, quantity)
          BY <1>1, <2>9, <4>9, PaidKeeps
        <5> QED BY <4>7, <4>10, <5>1 DEF paidFrom
      <4>13. waits[k].order = id /\ waits[k].left >= left.hold
        BY <1>3, <2>6, <4>4, <4>7, <4>9, <4>11, <4>12
      <4> QED BY <2>10, <2>18, <4>6, <4>12, <4>13 DEF awaited
    <3>3. id \in cancelled' => offered'[id] > 0
      BY <1>11 DEF OwnIInv, CancelInv
    <3>4. /\ mishaps \subseteq mishaps' /\ cancelled' \subseteq OwnIds /\ cancelled' \subseteq cancelled \cup {id}
      BY <1>1, <1>11
    <3> QED BY <2>7, <3>1, <3>2, <3>3, <3>4, CancelMoves
  <2> QED BY <2>17, <2>18, <2>19, <2>20 DEF OwnIInv
<1> QED BY <1>9, <1>10, <1>11

-----------------------------------------------------------------------------
(* Steps that leave the book as it is *)

LEMMA RejectedInv ==
  ASSUME OwnIInv, NEW h \in Hashes, RequestSaveRejected(h) \/ TradeSaveRejected(h)
  PROVE  OwnIInv'
BY StopsInv DEF RequestSaveRejected, TradeSaveRejected

LEMMA StartsInv ==
  ASSUME OwnIInv, Starts \/ UNCHANGED vars
  PROVE  OwnIInv'
<1>1. /\ UNCHANGED <<pairVars, removals, reserved, fills, sold, cancelled, mishaps>>
      /\ UNCHANGED <<deal, failed, asking, requests>> /\ down' \in {"no", down}
  BY DEF Starts, vars, ownVars
<1>2. down' \in {"no", "hold", "removal", "reserved", "database"}
  BY <1>1 DEF OwnIInv, OwnTypeOK
<1> QED BY <1>1, <1>2, SwapsStay, QuietInv

\* What is left after each match that is to be told stays what it is.
LEMMA BudgetsStay ==
  ASSUME "kept" \notin mishaps, BudgetInv, UNCHANGED <<reserved, fills>>,
         \A id \in OwnIds : book'[id] = book[id]
  PROVE  \E left \in [0 .. Len(fills') -> [Accounts -> Nat]] : Budgets(left)'
<1>1. \A account \in Accounts : due(account)' = due(account)
  <2> SUFFICES ASSUME NEW account \in Accounts PROVE due(account)' = due(account)
    OBVIOUS
  <2>1. [id \in OwnIds |-> on(book[id], account)]' = [id \in OwnIds |-> on(book[id], account)]
    OBVIOUS
  <2> QED BY <2>1, Zenon DEF due
<1>2. PICK left \in [0 .. Len(fills) -> [Accounts -> Nat]] : Budgets(left)
  BY DEF BudgetInv
<1>3. reserved' = reserved /\ fills' = fills
  OBVIOUS
<1>4. Budgets(left)'
  BY <1>1, <1>2, <1>3, Zenon DEF Budgets
<1> QED BY <1>2, <1>3, <1>4

LEMMA OwnMatchesInv ==
  ASSUME OwnIInv, ~matching, OwnMatches
  PROVE  OwnIInv'
<1>1. PairMatches /\ UNCHANGED ownVars
  BY DEF OwnMatches, PairMatches
<1>2. matching' = TRUE /\ UNCHANGED <<book, offered>>
  BY <1>1 DEF PairMatches, Match, startsMatch
<1>3. /\ UNCHANGED <<deal, failed, asking, requests, removals, reserved, fills, sold, cancelled, mishaps, down>>
  BY <1>1 DEF ownVars
<1>4. PairIInv'
  BY <1>1, MatchInv DEF OwnIInv
<1>5. OwnTypeOK'
  BY <1>3, <1>4 DEF OwnIInv, OwnTypeOK, PairIInv, Deals!DealTypeOK
<1>6. SwapsNotOversold'
  BY <1>2, <1>3 DEF OwnIInv, SwapsNotOversold
<1>7. DealsInv' /\ \A id \in OwnIds, h \in Hashes : held(h, id)' = held(h, id)
  BY <1>3, SwapsStay
<1>8. HoldsMatchSwaps'
  BY <1>2, <1>3, <1>7, HoldsStay DEF OwnIInv
<1>9. CancelInv'
  BY <1>2, <1>3 DEF OwnIInv, CancelInv, awaited
<1>10. BudgetInv'
  <2>1. "kept" \notin mishaps' => \E left \in [0 .. Len(fills') -> [Accounts -> Nat]] : Budgets(left)'
    BY <1>2, <1>3, BudgetsStay DEF OwnIInv
  <2> QED BY <1>2, <2>1 DEF BudgetInv
<1> QED BY <1>4, <1>5, <1>6, <1>7, <1>8, <1>9, <1>10 DEF OwnIInv

-----------------------------------------------------------------------------
(* Steps of match *)

MatchedBy(maker) == MatchFully(maker) \/ MatchAvailable(maker) \/ MatchPart(maker) \/ MatchThrows(maker)

\* Only what was not on hold is matched, and that goes, or nothing does.
LEMMA MatchedFacts ==
  ASSUME OwnIInv, NEW maker \in Ids, MatchedBy(maker), NEW quantity, quantity = matchingQuantity(maker)
  PROVE  /\ PairIInv' /\ offered' = offered
         /\ quantity \in Nat /\ quantity > 0 /\ available(maker) > 0
         /\ \A id \in Ids \ {maker} : book'[id] = book[id]
         /\ book[maker] \in Orders /\ book'[maker] \in Orders /\ book'[maker].hold = book[maker].hold
         /\ book'[maker].quantity <= book[maker].quantity
         /\ book'[maker] = book[maker] \/ book'[maker].quantity + quantity <= book[maker].quantity
         /\ book'[maker].quantity > 0 =>
              book'[maker].price = book[maker].price /\ book'[maker].isBuy = book[maker].isBuy
<1>1. PairIInv /\ PairTypeOK /\ book \in [Ids -> Orders] /\ book[maker] \in Orders
  BY DEF OwnIInv, PairIInv, PairTypeOK
<1>2. PairIInv'
  BY <1>1, MatchFullyInv, MatchAvailableInv, MatchPartInv, MatchThrowsInv DEF MatchedBy
<1>3. matches(maker) /\ offered' = offered
  BY DEF MatchedBy, MatchFully, MatchAvailable, MatchPart, MatchThrows
<1>4. /\ quantity \in Nat /\ quantity <= available(maker) /\ available(maker) \in Nat
      /\ book[maker].hold <= book[maker].quantity
  BY <1>1, MatchingQuantityBounds DEF PairIInv, HoldsCovered
<1>5. quantity > 0
  <2>1. quantity * book[maker].price >= DustLimit * Unit
    BY <1>3 DEF matches
  <2>2. DustLimit * Unit \in Nat /\ DustLimit * Unit > 0
    BY NumbersAssumption
  <2>3. quantity = 0 => quantity * book[maker].price = 0
    BY <1>1
  <2> QED BY <1>4, <2>1, <2>2, <2>3
<1>6. PICK left : left = [book[maker] EXCEPT !.quantity = @ - quantity]
  OBVIOUS
<1>7. /\ left \in Orders /\ left.quantity + quantity = book[maker].quantity
      /\ left.hold = book[maker].hold /\ left.isBuy = book[maker].isBuy /\ left.price = book[maker].price
  BY <1>1, <1>4, <1>6
<1>8. \/ book' = book
      \/ book' = [book EXCEPT ![maker] = left]
      \/ book' = [book EXCEPT ![maker] = NoOrder] /\ book[maker].hold = 0
  <2>1. CASE MatchFully(maker)
    <3>1. book' = [book EXCEPT ![maker] = NoOrder] /\ quantity = book[maker].quantity
      BY <2>1 DEF MatchFully
    <3>2. book[maker].hold = 0
      BY <1>1, <1>4, <3>1
    <3> QED BY <3>1, <3>2
  <2>2. CASE MatchAvailable(maker) \/ MatchThrows(maker)
    <3>1. book' = book \/ book' = [book EXCEPT ![maker].quantity = @ - quantity]
      BY <2>2 DEF MatchAvailable, MatchThrows
    <3> QED BY <1>6, <3>1
  <2>3. CASE MatchPart(maker)
    BY <1>6, <2>3 DEF MatchPart
  <2> QED BY <2>1, <2>2, <2>3 DEF MatchedBy
<1>9. /\ \A id \in Ids \ {maker} : book'[id] = book[id]
      /\ \/ book'[maker] = book[maker] \/ book'[maker] = left
         \/ book'[maker] = NoOrder /\ book[maker].hold = 0
  BY <1>1, <1>8
<1>10. NoOrder \in Orders /\ NoOrder.quantity = 0 /\ NoOrder.hold = 0
  OBVIOUS
<1>11. /\ book'[maker] \in Orders /\ book'[maker].hold = book[maker].hold
       /\ book'[maker].quantity <= book[maker].quantity
       /\ book'[maker] = book[maker] \/ book'[maker].quantity + quantity <= book[maker].quantity
       /\ book'[maker].quantity > 0 =>
            book'[maker].price = book[maker].price /\ book'[maker].isBuy = book[maker].isBuy
  <2>1. CASE book'[maker] = book[maker]
    BY <1>1, <2>1
  <2>2. CASE book'[maker] = left
    BY <1>1, <1>4, <1>7, <2>2
  <2>3. CASE book'[maker] = NoOrder /\ book[maker].hold = 0
    BY <1>1, <1>4, <1>10, <2>3
  <2> QED BY <1>9, <2>1, <2>2, <2>3
<1> QED BY <1>1, <1>2, <1>3, <1>4, <1>5, <1>9, <1>11

\* All of the invariant, but what is reserved.
LEMMA MatchedInv ==
  ASSUME OwnIInv, NEW maker \in Ids, MatchedBy(maker), fills' \in Seq(Takers),
         UNCHANGED <<deal, failed, asking, requests, removals, reserved, sold, cancelled, down>>,
         mishaps \subseteq mishaps', mishaps' \subseteq mishaps \cup {"kept"}
  PROVE  /\ PairIInv' /\ OwnTypeOK' /\ DealsInv' /\ SwapsNotOversold'
         /\ HoldsMatchSwaps' /\ CancelInv'
<1>1. /\ PairIInv' /\ offered' = offered /\ available(maker) > 0
      /\ \A id \in Ids \ {maker} : book'[id] = book[id]
      /\ book[maker] \in Orders /\ book'[maker] \in Orders /\ book'[maker].hold = book[maker].hold
      /\ book'[maker].quantity <= book[maker].quantity
  BY MatchedFacts
<1>2. book \in [Ids -> Orders] /\ offered \in [Ids -> Nat] /\ sold \in [OwnIds -> Nat] /\ mishaps \subseteq Mishaps
  BY TypeFacts DEF OwnIInv, PairIInv, PairTypeOK
<1>3. OwnTypeOK'
  <2>1. mishaps' \subseteq Mishaps
    BY <1>2 DEF Mishaps
  <2> QED BY <1>1, <2>1 DEF OwnIInv, OwnTypeOK, PairIInv, Deals!DealTypeOK
<1>4. DealsInv' /\ \A id \in OwnIds, h \in Hashes : held(h, id)' = held(h, id)
  BY SwapsStay
<1>5. SwapsNotOversold'
  <2> SUFFICES ASSUME NEW id \in OwnIds PROVE sold'[id] + book'[id].quantity <= offered'[id]
    BY DEF SwapsNotOversold
  <2>1. sold[id] + book[id].quantity <= offered[id]
    BY DEF OwnIInv, SwapsNotOversold
  <2>2. book'[id] \in Orders /\ book'[id].quantity <= book[id].quantity
    <3>1. CASE id = maker
      BY <1>1, <3>1
    <3>2. CASE id # maker
      BY <1>1, <1>2, <3>2, SMTT(20)
    <3> QED BY <3>1, <3>2
  <2>3. PICK a, b, c, d \in Nat : a = sold[id] /\ b = book[id].quantity /\ c = book'[id].quantity /\ d = offered[id]
    BY <1>2, <2>2
  <2>4. a + c <= d
    <3>1. a + b <= d /\ c <= b
      <4> HIDE DEF Orders
      <4> QED BY <2>1, <2>2, <2>3
    <3> QED BY <3>1
  <2> QED BY <1>1, <2>3, <2>4
<1>6. HoldsMatchSwaps'
  <2>1. \A id \in OwnIds : book'[id].hold = book[id].hold
    BY <1>1
  <2> QED BY <1>4, <2>1, HoldsStay DEF OwnIInv
<1>7. CancelInv'
  <2>1. \A id \in cancelled' : offered'[id] > 0
    BY <1>1 DEF OwnIInv, CancelInv
  <2>2. ASSUME mishaps' \subseteq {"kept"}, NEW id \in cancelled' \cap live'
        PROVE  available(id)' = 0 /\ awaited(id)'
    <3>1. mishaps \subseteq {"kept"} /\ id \in cancelled /\ id \in OwnIds
      BY <2>2 DEF OwnIInv, OwnTypeOK
    <3>2. id # maker
      BY <1>1, <3>1, NotCancelled
    <3>3. book'[id] = book[id] /\ id \in Ids
      BY <1>1, <3>1, <3>2
    <3>4. id \in live
      BY <2>2, <3>3
    <3>5. available(id) = 0 /\ awaited(id)
      BY <3>1, <3>4 DEF OwnIInv, CancelInv
    <3> QED BY <3>3, <3>5 DEF awaited
  <2> QED BY <2>1, <2>2 DEF CancelInv
<1> QED BY <1>1, <1>3, <1>4, <1>5, <1>6, <1>7

\* One more step at the end of what is left after each match.
LEMMA Extends ==
  ASSUME NEW n \in Nat, NEW left \in [0 .. n -> [Accounts -> Nat]], NEW last \in [Accounts -> Nat]
  PROVE  \E more \in [0 .. n + 1 -> [Accounts -> Nat]] :
           more[n + 1] = last /\ \A i \in 0 .. n : more[i] = left[i]
<1> DEFINE more == [i \in 0 .. n + 1 |-> IF i = n + 1 THEN last ELSE left[i]]
<1>1. more \in [0 .. n + 1 -> [Accounts -> Nat]] /\ more[n + 1] = last /\ \A i \in 0 .. n : more[i] = left[i]
  OBVIOUS
<1> HIDE DEF more
<1> QED BY <1>1

\* What the book has lost of an order of this node is to be told.
LEMMA BudgetsExtend ==
  ASSUME OwnIInv, PairIInv', "kept" \notin mishaps, NEW maker \in OwnIds, NEW fill \in Takers,
         fills' = Append(fills, fill), reserved' = reserved,
         \A id \in OwnIds \ {maker} : book'[id] = book[id],
         \A account \in Accounts : on(book'[maker], account) + takes(fill, account) <= on(book[maker], account)
  PROVE  \E left \in [0 .. Len(fills') -> [Accounts -> Nat]] : Budgets(left)'
<1>1. PICK n \in Nat : n = Len(fills)
  BY TypeFacts DEF OwnIInv
<1>2. fills \in Seq(Takers) /\ PairIInv /\ book[maker] \in Orders /\ book'[maker] \in Orders
  BY TypeFacts DEF OwnIInv, PairIInv, PairTypeOK
<1>3. /\ Len(fills') = n + 1 /\ fills'[n + 1] = fill /\ \A i \in 1 .. n : fills'[i] = fills[i]
  BY <1>1, <1>2
<1>4. PICK left \in [0 .. n -> [Accounts -> Nat]] : Budgets(left)
  BY <1>1 DEF OwnIInv, BudgetInv
<1>5. /\ \A account \in Accounts : have(reserved, account) >= left[0][account] /\ left[n][account] >= due(account)
      /\ \A i \in 1 .. n, account \in Accounts :
           left[i - 1][account] >= left[i][account] + takes(fills[i], account)
  BY <1>1, <1>4, Zenon DEF Budgets
<1> DEFINE part(x) == takes(fill, x)
<1>6. ASSUME NEW account \in Accounts
      PROVE  /\ left[n][account] \in Nat /\ part(account) \in Nat /\ part(account) <= left[n][account]
             /\ left[n][account] - part(account) >= due(account)'
  <2>1. PICK was, is : was = on(book[maker], account) /\ is = on(book'[maker], account)
    BY Zenon
  <2>2. PICK a, b \in Nat : /\ a = due(account) /\ b = due(account)'
                            /\ was \in Nat /\ is \in Nat /\ was <= a /\ b + was = a + is
    <3>1. PairIInv
      BY <1>2
    <3>2. /\ PairIInv' /\ \A id \in OwnIds \ {maker} : book'[id] = book[id]
      OBVIOUS
    <3> HIDE DEF Orders, part
    <3> QED BY ONLY <2>1, <3>1, <3>2, OfferedMoves, SMTT(30)
  <2>3. is + part(account) <= was /\ part(account) \in Nat
    <3>1. was = on(book[maker], account) /\ is = on(book'[maker], account)
      BY <2>1
    <3>2. part(account) \in Nat
      BY TakesNat
    <3> QED BY <3>1, <3>2
  <2>4. PICK m \in Nat : m = left[n][account]
    BY <1>4
  <2>5. m >= a
    BY <1>5, <2>2, <2>4
  <2>6. part(account) <= m /\ m - part(account) >= b
    BY <2>2, <2>3, <2>5
  <2> QED BY <2>2, <2>3, <2>4, <2>6, Zenon
<1>7. PICK last \in [Accounts -> Nat] : \A account \in Accounts : last[account] = left[n][account] - part(account)
  <2> DEFINE all == [account \in Accounts |-> left[n][account] - part(account)]
  <2>1. all \in [Accounts -> Nat] /\ \A account \in Accounts : all[account] = left[n][account] - part(account)
    BY <1>6
  <2> HIDE DEF all
  <2> QED BY <2>1
<1>8. PICK more \in [0 .. n + 1 -> [Accounts -> Nat]] : more[n + 1] = last /\ \A i \in 0 .. n : more[i] = left[i]
  BY Extends
<1>9. \A account \in Accounts : have(reserved', account) >= more[0][account]
  BY <1>5, <1>8
<1>10. \A account \in Accounts : more[Len(fills')][account] >= due(account)'
  <2> SUFFICES ASSUME NEW account \in Accounts PROVE more[n + 1][account] >= due(account)'
    BY <1>3
  <2>1. left[n][account] - part(account) >= due(account)'
    BY <1>6
  <2>2. more[n + 1][account] = left[n][account] - part(account)
    BY <1>7, <1>8, Zenon
  <2> QED BY <2>1, <2>2, Zenon
<1>11. ASSUME NEW i \in 1 .. Len(fills'), NEW account \in Accounts
       PROVE  more[i - 1][account] >= more[i][account] + takes(fills'[i], account)
  <2>1. CASE i = n + 1
    <3>1. /\ more[i - 1][account] = left[n][account] /\ more[i][account] = left[n][account] - part(account)
          /\ part(account) = takes(fills'[i], account)
      <4>1. more[i - 1] = left[n] /\ more[i] = last /\ fills'[i] = fill
        BY <1>3, <1>8, <2>1
      <4>2. last[account] = left[n][account] - part(account)
        BY <1>7
      <4> QED BY <4>1, <4>2, Zenon
    <3>2. PICK m, p \in Nat : m = left[n][account] /\ p = part(account) /\ p <= m
      BY <1>6
    <3>3. m >= (m - p) + p
      BY <3>2
    <3> HIDE DEF part
    <3> QED BY <3>1, <3>2, <3>3, Zenon
  <2>2. CASE i # n + 1
    <3>1. i \in 1 .. n /\ i - 1 \in 0 .. n /\ i \in 0 .. n
      BY <1>3, <2>2
    <3>2. more[i - 1] = left[i - 1] /\ more[i] = left[i] /\ fills'[i] = fills[i]
      BY <1>3, <1>8, <3>1
    <3> QED BY <1>5, <3>1, <3>2, Zenon
  <2> QED BY <2>1, <2>2
<1>12. Budgets(more)'
  BY <1>9, <1>10, <1>11, Zenon DEF Budgets
<1>13. more \in [0 .. Len(fills') -> [Accounts -> Nat]]
  BY <1>3, <1>8, Zenon
<1> QED BY <1>12, <1>13

LEMMA OwnMatchStepInv ==
  ASSUME OwnIInv, NEW maker \in Ids, OwnMatchStep(maker)
  PROVE  OwnIInv'
<1>1. PICK quantity : quantity = matchingQuantity(maker)
  BY Zenon
<1>2. PICK fill : fill = [isBuy |-> book[maker].isBuy, price |-> book[maker].price, quantity |-> quantity]
  OBVIOUS
<1>3. /\ MatchedBy(maker) /\ matching' = TRUE
      /\ fills' = IF maker \in PeerIds THEN fills ELSE Append(fills, fill)
      /\ mishaps' = IF book'[maker] = book[maker] THEN mishaps \cup {"kept"} ELSE mishaps
      /\ UNCHANGED <<deal, failed, asking, requests, removals, reserved, sold, cancelled, down>>
  BY <1>1, <1>2 DEF OwnMatchStep, MatchedBy, MatchFully, MatchAvailable, MatchPart, matches, noted
<1>4. /\ PairIInv' /\ quantity \in Nat
      /\ \A id \in Ids \ {maker} : book'[id] = book[id]
      /\ book[maker] \in Orders /\ book'[maker] \in Orders
      /\ book'[maker] = book[maker] \/ book'[maker].quantity + quantity <= book[maker].quantity
      /\ book'[maker].quantity > 0 =>
           book'[maker].price = book[maker].price /\ book'[maker].isBuy = book[maker].isBuy
  BY <1>1, <1>3, MatchedFacts
<1>5. /\ fill \in Takers /\ fill.quantity = quantity
      /\ fill.isBuy = book[maker].isBuy /\ fill.price = book[maker].price
  BY <1>2, <1>4 DEF Takers
<1>6. fills' \in Seq(Takers)
  <2>1. fills \in Seq(Takers)
    BY TypeFacts DEF OwnIInv
  <2> QED BY <1>3, <1>5, <2>1
<1>7. mishaps \subseteq mishaps' /\ mishaps' \subseteq mishaps \cup {"kept"}
  BY <1>3
<1>8. PairIInv' /\ OwnTypeOK' /\ DealsInv' /\ SwapsNotOversold' /\ HoldsMatchSwaps' /\ CancelInv'
  BY <1>3, <1>6, <1>7, MatchedInv
<1>9. BudgetInv'
  <2>1. ASSUME "kept" \notin mishaps'
        PROVE  \E left \in [0 .. Len(fills') -> [Accounts -> Nat]] : Budgets(left)'
    <3>1. "kept" \notin mishaps /\ book'[maker] # book[maker]
      BY <1>3, <2>1
    <3>2. CASE maker \in PeerIds
      <4>1. \A id \in OwnIds : book'[id] = book[id]
        BY <1>4, <3>2, IdsAssumption
      <4> QED BY <1>3, <3>1, <3>2, <4>1, BudgetsStay DEF OwnIInv
    <3>3. CASE maker \notin PeerIds
      <4>1. /\ maker \in OwnIds /\ \A id \in OwnIds \ {maker} : book'[id] = book[id]
        BY <1>4, <3>3
      <4>2. \A account \in Accounts : on(book'[maker], account) + takes(fill, account) <= on(book[maker], account)
        <5>1. book'[maker].quantity + fill.quantity <= book[maker].quantity
          BY <1>4, <1>5, <3>1
        <5> HIDE DEF Orders
        <5> QED BY <1>4, <1>5, <5>1, OnParts
      <4> QED BY <1>3, <1>4, <1>5, <3>1, <3>3, <4>1, <4>2, BudgetsExtend
    <3> QED BY <3>2, <3>3
  <2> QED BY <1>3, <2>1 DEF BudgetInv
<1> QED BY <1>8, <1>9 DEF OwnIInv

LEMMA OwnMatchThrowsInv ==
  ASSUME OwnIInv, NEW maker \in Ids, OwnMatchThrows(maker)
  PROVE  OwnIInv'
<1>1. PICK quantity : quantity = matchingQuantity(maker)
  BY Zenon
<1>2. /\ MatchedBy(maker) /\ fills' = <<>> /\ book[maker].hold > 0
      /\ UNCHANGED <<deal, failed, asking, requests, removals, reserved, sold, cancelled, mishaps, down>>
  BY DEF OwnMatchThrows, MatchThrows, MatchedBy
<1>3. /\ PairIInv' /\ \A id \in Ids \ {maker} : book'[id] = book[id]
      /\ book[maker] \in Orders /\ book'[maker] \in Orders
      /\ book'[maker].quantity <= book[maker].quantity
      /\ book'[maker].quantity > 0 =>
           book'[maker].price = book[maker].price /\ book'[maker].isBuy = book[maker].isBuy
  BY <1>1, <1>2, MatchedFacts
<1>4. fills' \in Seq(Takers)
  BY <1>2
<1>5. PairIInv' /\ OwnTypeOK' /\ DealsInv' /\ SwapsNotOversold' /\ HoldsMatchSwaps' /\ CancelInv'
  BY <1>2, <1>4, MatchedInv
<1>6. ASSUME "kept" \notin mishaps', NEW account \in Accounts PROVE Covered(account)'
  <2>1. Covered(account) /\ OwnTypeOK /\ PairIInv
    BY <1>2, <1>6, BudgetCovers DEF OwnIInv
  <2>2. maker \in OwnIds
    BY <1>2, <2>1, HeldIsOwn
  <2>3. PICK was, is : was = on(book[maker], account) /\ is = on(book'[maker], account)
    BY Zenon
  <2>4. was \in Nat /\ is \in Nat /\ is <= was
    BY <1>3, <2>3, OnNat, OnFalls
  <2>5. PICK n \in Nat : n = have(reserved, account) /\ n = have(reserved', account)
    BY <1>2, <2>1, TypeFacts, HaveNat
  <2>6. have(reserved, account) + is <= have(reserved', account) + was
    BY <2>4, <2>5
  <2>7. \A id \in OwnIds \ {maker} : book'[id] = book[id]
    BY <1>3
  <2> QED BY <1>5, <2>1, <2>2, <2>3, <2>4, <2>6, <2>7, CoverMoves
<1>7. BudgetInv'
  BY <1>2, <1>5, <1>6, CoverIsBudget
<1> QED BY <1>5, <1>7 DEF OwnIInv

\* What has been told leaves enough for what is still to be told.
LEMMA ToldCovers ==
  ASSUME OwnIInv, "kept" \notin mishaps, NEW account \in Accounts, NEW n \in Nat, n = Len(fills)
  PROVE  have(told[n], account) >= due(account)
<1>1. fills \in Seq(Takers) /\ reserved \in [BOOLEAN -> Sides]
  BY TypeFacts DEF OwnIInv
<1>2. PICK f : f = told
  BY Zenon
<1>3. /\ f[0] = reserved /\ \A i \in 1 .. n : f[i] = tells(f[i - 1], fills[i])
      /\ \A i \in 0 .. n : f[i] \in [BOOLEAN -> Sides]
  BY <1>1, <1>2, Told
<1>4. PICK left \in [0 .. n -> [Accounts -> Nat]] : Budgets(left)
  BY DEF OwnIInv, BudgetInv
<1>5. /\ have(reserved, account) >= left[0][account] /\ left[n][account] >= due(account)
      /\ \A i \in 1 .. n :
           left[i - 1][account] >= left[i][account] + takes(fills[i], account)
  BY <1>4, Zenon DEF Budgets
<1> DEFINE P == {i \in 0 .. n : have(f[i], account) >= left[i][account]}
<1>6. P \in SUBSET (0 .. n) /\ 0 \in P
  BY <1>3, <1>5
<1>7. ASSUME NEW i \in 1 .. n, i - 1 \in P PROVE i \in P
  <2>1. i \in 0 .. n /\ i - 1 \in 0 .. n /\ fills[i] \in Takers
    BY <1>1
  <2>2. PICK part \in Nat : part = takes(fills[i], account)
    BY <2>1, TakesNat
  <2>3. PICK was, is \in [BOOLEAN -> Sides] : was = f[i - 1] /\ is = f[i]
    BY <1>3, <2>1
  <2>4. is = tells(was, fills[i])
    BY <1>3, <2>3
  <2>5. have(was, account) <= have(is, account) + part
    BY <2>1, <2>2, <2>3, <2>4, TellsTyped
  <2>6. have(was, account) \in Nat /\ have(is, account) \in Nat
    BY HaveNat
  <2>7. PICK a, b \in Nat : a = left[i - 1][account] /\ b = left[i][account]
    BY <2>1
  <2>8. a >= b + part
    BY <1>5, <2>2, <2>7
  <2>9. have(was, account) >= a
    BY <1>7, <2>3, <2>7
  <2>10. have(is, account) >= b
    BY <2>5, <2>6, <2>8, <2>9
  <2> QED BY <2>1, <2>3, <2>7, <2>10
<1>8. n \in P
  <2> HIDE DEF P
  <2>1. P = 0 .. n
    BY <1>6, <1>7, Indices
  <2> QED BY <2>1
<1>9. PICK a, b, c \in Nat : a = have(f[n], account) /\ b = left[n][account] /\ c = due(account)
  <2>1. have(f[n], account) \in Nat /\ left[n][account] \in Nat
    <3>1. n \in 0 .. n
      OBVIOUS
    <3>2. f[n] \in [BOOLEAN -> Sides] /\ left[n] \in [Accounts -> Nat]
      BY <1>3, <1>4, <3>1
    <3> QED BY <3>2, HaveNat
  <2>2. due(account) \in Nat
    BY OfferedNat DEF OwnIInv
  <2> QED BY <2>1, <2>2, Zenon
<1>10. a >= b /\ b >= c
  BY <1>5, <1>8, <1>9
<1>11. a >= c
  BY <1>9, <1>10
<1> QED BY <1>2, <1>9, <1>11, Zenon

LEMMA OwnMatchEndsInv ==
  ASSUME OwnIInv, OwnMatchEnds
  PROVE  OwnIInv'
<1>1. PICK n \in Nat : n = Len(fills)
  BY TypeFacts DEF OwnIInv
<1>2. /\ MatchEnds /\ reserved' = told[n] /\ fills' = <<>>
      /\ UNCHANGED <<deal, failed, asking, requests, removals, sold, cancelled, mishaps, down>>
  BY <1>1 DEF OwnMatchEnds
<1>3. book' = book /\ offered' = offered
  BY <1>2 DEF MatchEnds
<1>4. PairIInv'
  BY <1>2, MatchEndsInv DEF OwnIInv
<1>5. reserved' \in [BOOLEAN -> Sides]
  <2>1. fills \in Seq(Takers) /\ reserved \in [BOOLEAN -> Sides]
    BY TypeFacts DEF OwnIInv
  <2>2. told[n] \in [BOOLEAN -> Sides]
    BY <1>1, <2>1, Told
  <2> QED BY <1>2, <2>2, Zenon
<1>6. OwnTypeOK'
  <2>1. fills' \in Seq(Takers)
    BY <1>2
  <2> QED BY <1>2, <1>4, <1>5, <2>1 DEF OwnIInv, OwnTypeOK, PairIInv, Deals!DealTypeOK, Sides
<1>7. DealsInv' /\ \A id \in OwnIds, h \in Hashes : held(h, id)' = held(h, id)
  BY <1>2, SwapsStay
<1>8. SwapsNotOversold'
  BY <1>2, <1>3 DEF OwnIInv, SwapsNotOversold
<1>9. HoldsMatchSwaps'
  BY <1>2, <1>3, <1>7, HoldsStay DEF OwnIInv
<1>10. CancelInv'
  BY <1>2, <1>3 DEF OwnIInv, CancelInv, awaited
<1>11. ASSUME "kept" \notin mishaps', NEW account \in Accounts PROVE Covered(account)'
  <2>1. have(told[n], account) >= due(account)
    BY <1>1, <1>2, <1>11, ToldCovers
  <2>2. due(account)' = due(account)
    <3>1. [id \in OwnIds |-> on(book[id], account)]' = [id \in OwnIds |-> on(book[id], account)]
      BY <1>3
    <3> QED BY <3>1, Zenon DEF due
  <2> QED BY <1>2, <2>1, <2>2, Zenon DEF Covered
<1>12. BudgetInv'
  BY <1>2, <1>4, <1>6, <1>11, CoverIsBudget
<1> QED BY <1>4, <1>6, <1>7, <1>8, <1>9, <1>10, <1>12 DEF OwnIInv

-----------------------------------------------------------------------------
(* All steps, and what follows *)

\* Orders come and go.
LEMMA OrdersInv ==
  ASSUME OwnIInv, ~matching, NEW id \in OwnIds,
         \/ OwnAdds(id)
         \/ \E quantity \in Amounts(id) :
              \/ RemoveAvailable(id, quantity)
              \/ RemoveHeld(id, quantity)
              \/ \E h \in Hashes : SwapRequest(h, id, quantity)
  PROVE  OwnIInv'
<1>1. CASE OwnAdds(id)
  BY <1>1, OwnAddsInv
<1>2. ASSUME NEW quantity \in Amounts(id),
             RemoveAvailable(id, quantity) \/ RemoveHeld(id, quantity) \/ \E h \in Hashes : SwapRequest(h, id, quantity)
      PROVE  OwnIInv'
  BY <1>2, RemoveAvailableInv, RemoveHeldInv, SwapRequestInv
<1> QED BY <1>1, <1>2

\* Requests and deals go on.
LEMMA SwapsInv ==
  ASSUME OwnIInv, ~matching, NEW h \in Hashes,
         \/ RequestSaved(h) \/ RequestSaveRejected(h) \/ RequestRefused(h)
         \/ DealFails(h) \/ DealRefused(h) \/ DealAgreed(h) \/ DealAnswered(h)
         \/ DealWithdrawn(h) \/ DealPaid(h) \/ TradeSaved(h) \/ TradeSaveRejected(h)
  PROVE  OwnIInv'
BY RequestSavedInv, RejectedInv, RequestRefusedInv, DealFailsInv, DealRefusedInv, DealAgreedInv,
   DealAnsweredInv, DealWithdrawnInv, DealPaidInv, TradeSavedInv

LEMMA OwnStepInv ==
  ASSUME OwnIInv, [OwnNext]_vars
  PROVE  OwnIInv'
<1>1. ASSUME ~matching, NEW id \in OwnIds,
             \/ OwnAdds(id)
             \/ \E quantity \in Amounts(id) :
                  \/ RemoveAvailable(id, quantity)
                  \/ RemoveHeld(id, quantity)
                  \/ \E h \in Hashes : SwapRequest(h, id, quantity)
      PROVE  OwnIInv'
  BY <1>1, OrdersInv
<1>2. ASSUME ~matching, NEW h \in Hashes,
             \/ RequestSaved(h) \/ RequestSaveRejected(h) \/ RequestRefused(h)
             \/ DealFails(h) \/ DealRefused(h) \/ DealAgreed(h) \/ DealAnswered(h)
             \/ DealWithdrawn(h) \/ DealPaid(h) \/ TradeSaved(h) \/ TradeSaveRejected(h)
      PROVE  OwnIInv'
  BY <1>2, SwapsInv
<1>3. CASE ~matching /\ OwnMatches
  BY <1>3, OwnMatchesInv
<1>4. CASE \E maker \in Ids : OwnMatchStep(maker) \/ OwnMatchThrows(maker)
  BY <1>4, OwnMatchStepInv, OwnMatchThrowsInv
<1>5. CASE OwnMatchEnds
  BY <1>5, OwnMatchEndsInv
<1>6. CASE Starts \/ UNCHANGED vars
  BY <1>6, StartsInv
<1> QED BY <1>1, <1>2, <1>3, <1>4, <1>5, <1>6, Zenon DEF OwnNext

(***************************************************************************)
(* The book of this node's orders, their swaps, the cancellations and the  *)
(* reserved amounts agree with each other, in all interleavings of what    *)
(* the handlers of OrderBook.ts do, whatever orders and requests there are *)
(* and whatever save or listener fails.                                    *)
(***************************************************************************)
THEOREM OwnInvariance == OwnSpec => []OwnIInv
BY OwnInitInv, OwnStepInv, PTL DEF OwnSpec

(***************************************************************************)
(* Every step keeps the types: no quantity, hold, reserved amount or       *)
(* cancellation that waits becomes negative (handleSwapRequest, the        *)
(* listeners on "swap.paid" and "swap.failed", onOrderRemoved).            *)
(***************************************************************************)
THEOREM OwnTypeCorrect == OwnSpec => []OwnTypeOK
<1>1. OwnIInv => OwnTypeOK
  BY DEF OwnIInv
<1> QED BY <1>1, OwnInvariance, PTL

(***************************************************************************)
(* What is on hold of an order is the sum of what its swaps in progress    *)
(* hold, for any number of orders and swaps: a hold is neither left behind *)
(* nor released twice, but by an agreed deal whose save failed.            *)
(***************************************************************************)
THEOREM HoldsAreTheSwaps == OwnSpec => []HoldsMatchSwaps
<1>1. OwnIInv => HoldsMatchSwaps
  BY DEF OwnIInv
<1> QED BY <1>1, OwnInvariance, PTL

(***************************************************************************)
(* Peers never buy more of an order than it offered, in any number of      *)
(* swaps at a time: what they bought and what is left is never more        *)
(* (handleSwapRequest, "swap.paid", removeOrder, match).                   *)
(***************************************************************************)
THEOREM OrdersNotOversold == OwnSpec => []SwapsNotOversold
<1>1. OwnIInv => SwapsNotOversold
  BY DEF OwnIInv
<1> QED BY <1>1, OwnInvariance, PTL

(***************************************************************************)
(* The base amount reserved on a side covers all that the orders of that   *)
(* side offer, and the quote amount all but one for each part that was     *)
(* subtracted and rounded on its own (onOrderRemoved, UnitConverter),      *)
(* unless match has handed out an order and kept it.                       *)
(***************************************************************************)
THEOREM ReservedIsEnough == OwnSpec => []ReservedCovers
<1>1. ASSUME OwnIInv PROVE ReservedCovers
  <2> SUFFICES ASSUME "kept" \notin mishaps, NEW isBuy \in BOOLEAN
               PROVE  /\ reserved[isBuy].base >= offeredOn(isBuy)
                      /\ reserved[isBuy].quote + reserved[isBuy].parts >= quoteOfferedOn(isBuy)
    BY DEF ReservedCovers
  <2>1. \A account \in Accounts : Covered(account)
    BY <1>1, BudgetCovers DEF OwnIInv
  <2>2. PICK base, quote \in Accounts : base = <<isBuy, "base">> /\ quote = <<isBuy, "quote">>
    BY DEF Accounts, Kinds
  <2>3. /\ have(reserved, base) = reserved[isBuy].base
        /\ have(reserved, quote) = reserved[isBuy].quote + reserved[isBuy].parts
    BY <2>2 DEF have, amount
  <2>4. due(base) = offeredOn(isBuy)
    <3>1. \A id \in OwnIds : on(book[id], base) = quantityOn(isBuy, id)
      BY <2>2 DEF on, worth, quantityOn
    <3>2. [id \in OwnIds |-> on(book[id], base)] = [id \in OwnIds |-> quantityOn(isBuy, id)]
      BY <3>1
    <3> QED BY <3>2, Zenon DEF due, offeredOn
  <2>5. due(quote) = quoteOfferedOn(isBuy)
    <3>1. \A id \in OwnIds : on(book[id], quote) = quoteOn(isBuy, id)
      BY <2>2 DEF on, worth, quoteOn
    <3>2. [id \in OwnIds |-> on(book[id], quote)] = [id \in OwnIds |-> quoteOn(isBuy, id)]
      BY <3>1
    <3> QED BY <3>2, Zenon DEF due, quoteOfferedOn
  <2> QED BY <2>1, <2>2, <2>3, <2>4, <2>5, Zenon DEF Covered
<1> QED BY <1>1, OwnInvariance, PTL

(***************************************************************************)
(* No peer gets what was cancelled while swaps held it: all of such an     *)
(* order stays on hold until removeOwnOrderByLocalId's listeners have      *)
(* removed it, whichever swaps fail or are paid, in whatever order.        *)
(***************************************************************************)
THEOREM CancelledStaysOut == OwnSpec => []CancelledNotOffered
<1>1. OwnIInv => CancelledNotOffered
  BY DEF OwnIInv, CancelInv, CancelledNotOffered
<1> QED BY <1>1, OwnInvariance, PTL

-----------------------------------------------------------------------------
(* The deals *)

\* What the order book does with its deals: one step of Deal, or nothing.
DealStep == Deals!Next \/ UNCHANGED Deals!dealVars

LEMMA StopsDeals ==
  ASSUME NEW reason, Stops(reason)
  PROVE  DealStep
BY DEF Stops, DealStep, Deals!Next

LEMMA DealsKept ==
  ASSUME UNCHANGED <<deal, failed, asking>>
  PROVE  DealStep
BY DEF DealStep, Deals!dealVars

LEMMA RequestStepsDeals ==
  ASSUME NEW h \in Hashes,
         \/ RequestSaved(h) \/ RequestSaveRejected(h) \/ RequestRefused(h)
         \/ DealFails(h) \/ DealRefused(h) \/ DealAgreed(h) \/ DealAnswered(h)
         \/ DealWithdrawn(h) \/ DealPaid(h) \/ TradeSaved(h) \/ TradeSaveRejected(h)
  PROVE  DealStep
<1>1. CASE RequestSaved(h)
  BY <1>1, DealsKept DEF RequestSaved, DealStep, Deals!Next
<1>2. CASE RequestSaveRejected(h) \/ TradeSaveRejected(h)
  BY <1>2, StopsDeals DEF RequestSaveRejected, TradeSaveRejected
<1>3. CASE RequestRefused(h)
  BY <1>3, DealsKept, StopsDeals DEF RequestRefused
<1>4. CASE DealFails(h)
  BY <1>4, StopsDeals DEF DealFails, DealStep, Deals!Next
<1>5. CASE DealRefused(h)
  BY <1>5, StopsDeals DEF DealRefused, DealStep, Deals!Next
<1>6. CASE DealAgreed(h) \/ DealAnswered(h)
  BY <1>6 DEF DealAgreed, DealAnswered, DealStep, Deals!Next
<1>7. CASE DealWithdrawn(h)
  <2>1. Deals!Withdraw(h) \/ \E reason : Stops(reason)
    BY <1>7, Zenon DEF DealWithdrawn
  <2> QED BY <2>1, StopsDeals DEF DealStep, Deals!Next
<1>8. CASE DealPaid(h)
  BY <1>8, StopsDeals DEF DealPaid, DealStep, Deals!Next
<1>9. CASE TradeSaved(h)
  BY <1>9, DealsKept DEF TradeSaved
<1> QED BY <1>1, <1>2, <1>3, <1>4, <1>5, <1>6, <1>7, <1>8, <1>9

(***************************************************************************)
(* The order book lets its deals do what Deal allows and nothing else:     *)
(* whatever handleSwapRequest, the listeners, a cancellation or match do,  *)
(* no deal is created twice, answered before it was asked for, or paid and *)
(* failed; and the maker that implements Deal can stand in for the deals.  *)
(***************************************************************************)
THEOREM OrdersUseDeals == OwnSpec => Deals!Spec
<1>1. OwnInit => Deals!Init
  BY DEF OwnInit
<1>2. ASSUME [OwnNext]_vars PROVE [Deals!Next]_(Deals!dealVars)
  <2>1. CASE \E id \in OwnIds :
               \/ OwnAdds(id)
               \/ \E quantity \in Amounts(id) :
                    \/ RemoveAvailable(id, quantity)
                    \/ RemoveHeld(id, quantity)
                    \/ \E h \in Hashes : SwapRequest(h, id, quantity)
    <3>1. ASSUME NEW id, OwnAdds(id) PROVE UNCHANGED <<deal, failed, asking>>
      BY <3>1 DEF OwnAdds
    <3>2. ASSUME NEW id, NEW quantity, RemoveAvailable(id, quantity)
          PROVE  UNCHANGED <<deal, failed, asking>>
      BY <3>2, Zenon DEF RemoveAvailable
    <3>3. ASSUME NEW id, NEW quantity, RemoveHeld(id, quantity)
          PROVE  UNCHANGED <<deal, failed, asking>>
      BY <3>3, Zenon DEF RemoveHeld
    <3>4. ASSUME NEW h, NEW id, NEW quantity, SwapRequest(h, id, quantity)
          PROVE  UNCHANGED <<deal, failed, asking>>
      BY <3>4, Zenon DEF SwapRequest
    <3>5. UNCHANGED <<deal, failed, asking>>
      BY <2>1, <3>1, <3>2, <3>3, <3>4
    <3> QED BY <3>5, DealsKept DEF DealStep
  <2>2. CASE \E h \in Hashes :
               \/ RequestSaved(h) \/ RequestSaveRejected(h) \/ RequestRefused(h)
               \/ DealFails(h) \/ DealRefused(h) \/ DealAgreed(h) \/ DealAnswered(h)
               \/ DealWithdrawn(h) \/ DealPaid(h) \/ TradeSaved(h) \/ TradeSaveRejected(h)
    BY <2>2, RequestStepsDeals DEF DealStep
  <2>3. CASE \/ OwnMatches \/ OwnMatchEnds \/ Starts \/ UNCHANGED vars
             \/ \E maker \in Ids : OwnMatchStep(maker) \/ OwnMatchThrows(maker)
    BY <2>3, DealsKept DEF OwnMatches, OwnMatchEnds, Starts, OwnMatchStep, OwnMatchThrows, vars, ownVars, DealStep
  <2> QED BY <1>2, <2>1, <2>2, <2>3 DEF OwnNext
<1> QED BY <1>1, <1>2, PTL DEF OwnSpec, Deals!Spec
=============================================================================
