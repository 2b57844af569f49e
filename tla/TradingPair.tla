----------------------------- MODULE TradingPair -----------------------------
(***************************************************************************)
(* The order book of one trading pair, lib/orderbook/TradingPair.ts: own   *)
(* orders and those of peers, the quantities of own orders that are on     *)
(* hold for swaps, and the routine that matches an order against the       *)
(* opposite side.  Its methods are synchronous; match is one step per pass *)
(* of its loop, and nothing else happens while it runs.                    *)
(***************************************************************************)
EXTENDS Naturals

CONSTANTS
  OwnIds, PeerIds,  \* ids of own orders and of orders of peers
  Quantities, Prices, Times,
  DustLimit,        \* QUANTITY_DUST_LIMIT
  Unit,             \* quantity q at price p is worth q * p / Unit
  MaxTakers         \* bound: how many orders are matched against the book

Ids == OwnIds \cup PeerIds

ASSUME IdsAssumption == OwnIds \cap PeerIds = {}
ASSUME NumbersAssumption ==
  /\ Quantities \subseteq Nat \ {0} /\ Prices \subseteq Nat \ {0} /\ Times \subseteq Nat
  /\ DustLimit \in Nat \ {0} /\ Unit \in Nat \ {0}
  /\ MaxTakers \in Nat

VARIABLES
  book,      \* the maps ownOrders and peersOrders
  queue,     \* the orders in the two priority queues
  taker,     \* match: remainingOrder
  matching,  \* match: whether it runs
  aside,     \* match: queueRemovedOrdersWithHold
  offered,   \* the initial quantity of each order placed so far
  takers,    \* how many taker orders there have been
  matched    \* how much of each order match has handed out

pairVars == <<book, queue, taker, matching, aside, offered, takers, matched>>

\* An order that is not in the book has quantity 0.
Orders == [isBuy : BOOLEAN, price : Nat, createdAt : Nat, quantity : Nat, hold : Nat]
NoOrder == [isBuy |-> FALSE, price |-> 0, createdAt |-> 0, quantity |-> 0, hold |-> 0]
Takers == [isBuy : BOOLEAN, price : Nat, quantity : Nat]
NoTaker == [isBuy |-> FALSE, price |-> 0, quantity |-> 0]

live == {id \in Ids : book[id].quantity > 0}
available(id) == book[id].quantity - book[id].hold

PairTypeOK ==
  /\ book \in [Ids -> Orders]
  /\ queue \subseteq Ids /\ aside \subseteq OwnIds
  /\ taker \in Takers /\ matching \in BOOLEAN /\ takers \in Nat
  /\ offered \in [Ids -> Nat] /\ matched \in [Ids -> Nat]

PairInit ==
  /\ book = [id \in Ids |-> NoOrder]
  /\ queue = {} /\ aside = {}
  /\ taker = NoTaker /\ matching = FALSE /\ takers = 0
  /\ offered = [id \in Ids |-> 0] /\ matched = [id \in Ids |-> 0]

\* Enough on both sides of a trade.
Swappable(quantity, price) == quantity >= DustLimit /\ quantity * price >= DustLimit * Unit

-----------------------------------------------------------------------------
(* Adding and removing orders, and holds *)

\* addOwnOrder and addPeerOrder: no order has that id.
addOrder(id, order) ==
  /\ book[id] = NoOrder
  /\ book' = [book EXCEPT ![id] = order]
  /\ queue' = queue \cup {id}

\* What removeOrder leaves of an order: nothing, if it would be dust.
rest(order, quantity) ==
  IF quantity < order.quantity /\ Swappable(order.quantity - quantity, order.price)
  THEN [order EXCEPT !.quantity = @ - quantity]
  ELSE NoOrder

\* Its assertions: an own order keeps what is on hold.
keepsHold(order, quantity) ==
  IF rest(order, quantity) = NoOrder THEN order.hold = 0
  ELSE quantity <= order.quantity - order.hold

remainder(id, quantity) == rest(book[id], quantity)
canRemove(id, quantity) == id \in live /\ keepsHold(book[id], quantity)

removeOrder(id, quantity) ==
  /\ canRemove(id, quantity)
  /\ book' = [book EXCEPT ![id] = remainder(id, quantity)]
  /\ queue' = IF remainder(id, quantity) = NoOrder THEN queue \ {id} ELSE queue

\* removePeerOrders: the orders of one peer, whichever they are.
removePeerOrders(ids) ==
  /\ book' = [id \in Ids |-> IF id \in ids THEN NoOrder ELSE book[id]]
  /\ queue' = queue \ ids

\* Mutant: the whole quantity can be put on hold again.
addOrderHoldAgain(id, quantity) ==
  /\ id \in live /\ quantity > 0
  /\ quantity <= book[id].quantity
  /\ book' = [book EXCEPT ![id].hold = @ + quantity]

\* addOrderHold; without an amount it is all of an order without a hold.
addOrderHold(id, quantity) ==
  /\ id \in live /\ quantity > 0
  /\ book[id].hold + quantity <= book[id].quantity
  /\ book' = [book EXCEPT ![id].hold = @ + quantity]

\* Mutant: more than what is on hold is released.
removeOrderHoldBeyond(id, quantity) ==
  /\ id \in live /\ quantity > 0
  /\ book' = [book EXCEPT ![id].hold = @ - quantity]

removeOrderHold(id, quantity) ==
  /\ id \in live /\ quantity > 0
  /\ book[id].hold >= quantity
  /\ book' = [book EXCEPT ![id].hold = @ - quantity]

-----------------------------------------------------------------------------
(* match *)

\* Mutant: orders at the same price only go by time.
PrecedesByTime(a, b) ==
  \/ IF book[a].isBuy THEN book[a].price > book[b].price ELSE book[a].price < book[b].price
  \/ book[a].price = book[b].price /\ book[a].createdAt < book[b].createdAt

\* getOrdersPriorityQueueComparator: by price, own orders first, by time.
Precedes(a, b) ==
  \/ IF book[a].isBuy THEN book[a].price > book[b].price ELSE book[a].price < book[b].price
  \/ /\ book[a].price = book[b].price
     /\ \/ a \in OwnIds /\ b \in PeerIds
        \/ (a \in OwnIds <=> b \in OwnIds) /\ book[a].createdAt < book[b].createdAt

opposite == {id \in queue : book[id].isBuy # taker.isBuy}
isBest(maker) == maker \in opposite /\ \A id \in opposite : ~Precedes(id, maker)

Lesser(a, b) == IF a <= b THEN a ELSE b

crosses(maker) ==
  IF taker.isBuy THEN taker.price >= book[maker].price ELSE book[maker].price >= taker.price

\* getMatchingQuantity, of what is not on hold
matchingQuantity(maker) ==
  IF crosses(maker) THEN Lesser(taker.quantity, available(maker)) ELSE 0

\* A pass of the loop that finds a match with the maker order at the top.
matches(maker) ==
  /\ matching /\ taker.quantity > 0
  /\ isBest(maker)
  /\ matchingQuantity(maker) * book[maker].price >= DustLimit * Unit
  /\ taker' = [taker EXCEPT !.quantity = @ - matchingQuantity(maker)]
  /\ matched' = [matched EXCEPT ![maker] = @ + matchingQuantity(maker)]

startsMatch(order) ==
  /\ ~matching /\ takers < MaxTakers
  /\ matching' = TRUE /\ taker' = order /\ takers' = takers + 1
  /\ UNCHANGED <<queue, aside, offered, matched>>
Match(order) == startsMatch(order) /\ UNCHANGED book

\* Mutant: the order leaves the queue, but not the map.
MatchFullyKeeps(maker) ==
  /\ matches(maker)
  /\ matchingQuantity(maker) = book[maker].quantity
  /\ queue' = queue \ {maker}
  /\ UNCHANGED <<book, matching, aside, offered, takers>>

\* The maker order is fully matched and removed.
MatchFully(maker) ==
  /\ matches(maker)
  /\ matchingQuantity(maker) = book[maker].quantity
  /\ book' = [book EXCEPT ![maker] = NoOrder]
  /\ queue' = queue \ {maker}
  /\ UNCHANGED <<matching, aside, offered, takers>>

\* All that is not on hold is matched.  The maker order is split, and loses
\* that quantity, only if the taker order is fully matched as well.
MatchAvailable(maker) ==
  /\ matches(maker)
  /\ matchingQuantity(maker) = available(maker) /\ book[maker].hold > 0
  /\ book' = IF matchingQuantity(maker) = taker.quantity
             THEN [book EXCEPT ![maker].quantity = @ - matchingQuantity(maker)] ELSE book
  /\ queue' = queue \ {maker}
  /\ aside' = aside \cup {maker}
  /\ UNCHANGED <<matching, offered, takers>>

\* Mutant: what is left is not looked at.
MatchPartOnly(maker) ==
  /\ matches(maker)
  /\ matchingQuantity(maker) < available(maker)
  /\ book' = [book EXCEPT ![maker].quantity = @ - matchingQuantity(maker)]
  /\ UNCHANGED <<queue, matching, aside, offered, takers>>

\* The maker order is split, and removed if what is left of it is dust.
MatchPart(maker) ==
  /\ matches(maker)
  /\ matchingQuantity(maker) < available(maker)
  /\ LET left == available(maker) - matchingQuantity(maker) IN
     \/ /\ Swappable(left, book[maker].price)
        /\ book' = [book EXCEPT ![maker].quantity = @ - matchingQuantity(maker)]
        /\ UNCHANGED queue
     \/ /\ ~Swappable(left, book[maker].price) /\ book[maker].hold = 0
        /\ book' = [book EXCEPT ![maker] = NoOrder]
        /\ queue' = queue \ {maker}
  /\ UNCHANGED <<matching, aside, offered, takers>>

\* What is left is dust, but part of the order is on hold: the assertion of
\* removeOrder ends the routine, and the orders put aside are not returned.
MatchThrows(maker) ==
  /\ matches(maker)
  /\ matchingQuantity(maker) < available(maker)
  /\ ~Swappable(available(maker) - matchingQuantity(maker), book[maker].price)
  /\ book[maker].hold > 0
  /\ book' = [book EXCEPT ![maker].quantity = @ - matchingQuantity(maker)]
  /\ matching' = FALSE /\ aside' = {}
  /\ UNCHANGED <<queue, offered, takers>>

\* Nothing left to match, or no match with the best maker order that is worth
\* a swap; one with a hold is put aside as well before the loop ends.
MatchEnds ==
  /\ matching
  /\ \/ taker.quantity = 0
     \/ opposite = {}
     \/ \E maker \in opposite : /\ isBest(maker)
                                /\ matchingQuantity(maker) * book[maker].price < DustLimit * Unit
  /\ matching' = FALSE /\ aside' = {} /\ taker' = NoTaker
  /\ queue' = queue \cup aside
  /\ UNCHANGED <<book, offered, takers, matched>>

-----------------------------------------------------------------------------
(* The trading pair on its own: orders come and go as OrderBook.ts allows. *)

Stamped(isBuy, price, createdAt, quantity) ==
  [isBuy |-> isBuy, price |-> price, createdAt |-> createdAt, quantity |-> quantity, hold |-> 0]

\* An order enters the book with any time stamp: own ones are stamped before
\* the awaits of placeOrder.
enters(id, quantity, price) ==
  /\ offered[id] = 0
  /\ \E isBuy \in BOOLEAN, time \in Times : addOrder(id, Stamped(isBuy, price, time, quantity))
  /\ offered' = [offered EXCEPT ![id] = quantity]
  /\ UNCHANGED <<taker, matching, aside, takers, matched>>

PairAdds(id) ==
  \E price \in Prices, quantity \in Quantities :
    Swappable(quantity, price) /\ enters(id, quantity, price)

\* What was matched of an order of a peer comes back after its swap failed; it
\* may be too small for another swap, and nobody looks.
PeerReturns(id) ==
  \E price \in Prices, quantity \in Quantities : enters(id, quantity, price)

\* Without an amount, all of an order is removed, or held, or released.
Amounts(id) == Quantities \cup {book[id].quantity, book[id].hold}

PairRemoves(id) ==
  /\ \E quantity \in Amounts(id) : quantity > 0 /\ removeOrder(id, quantity)
  /\ UNCHANGED <<taker, matching, aside, offered, takers, matched>>

PeerDrops ==
  /\ \E ids \in SUBSET (PeerIds \cap live) : ids # {} /\ removePeerOrders(ids)
  /\ UNCHANGED <<taker, matching, aside, offered, takers, matched>>

PairHolds(id) ==
  /\ \E quantity \in Amounts(id) : addOrderHold(id, quantity) \/ removeOrderHold(id, quantity)
  /\ UNCHANGED <<queue, taker, matching, aside, offered, takers, matched>>

PairMatches ==
  \E isBuy \in BOOLEAN, price \in Prices, quantity \in Quantities :
    Match([isBuy |-> isBuy, price |-> price, quantity |-> quantity])

MatchSteps ==
  \/ \E maker \in Ids : \/ MatchFully(maker) \/ MatchAvailable(maker) \/ MatchPart(maker)
                        \/ MatchThrows(maker)
  \/ MatchEnds

PairNext ==
  \/ /\ ~matching
     /\ \/ \E id \in Ids : PairAdds(id) \/ PairRemoves(id)
        \/ \E id \in PeerIds : PeerReturns(id)
        \/ PeerDrops
        \/ \E id \in OwnIds : PairHolds(id)
        \/ PairMatches
  \/ MatchSteps

PairSpec == PairInit /\ [][PairNext]_pairVars

-----------------------------------------------------------------------------
(* What the book promises *)

(***************************************************************************)
(* What is on hold of an own order is in the book, and neither matched nor *)
(* removed; orders of peers are never on hold.                             *)
(***************************************************************************)
HoldsCovered ==
  /\ \A id \in OwnIds : book[id].hold <= book[id].quantity
  /\ \A id \in PeerIds : book[id].hold = 0

(***************************************************************************)
(* Orders of peers are there to be matched: map and queue agree about      *)
(* them, and none is matched for more than it offered.                     *)
(***************************************************************************)
PeerOrdersIntact ==
  \A id \in PeerIds :
    /\ id \in live <=> id \in queue
    /\ matched[id] + book[id].quantity <= offered[id]

(***************************************************************************)
(* "We must make sure that we don't leave an order that is too small to    *)
(* swap in the order book": what matching or removing leaves of an order   *)
(* of a peer is worth a swap.                                              *)
(***************************************************************************)
NoDustLeft ==
  [][\A id \in PeerIds :
       0 < book'[id].quantity /\ book'[id].quantity < book[id].quantity
         => Swappable(book'[id].quantity, book'[id].price)]_pairVars

(***************************************************************************)
(* A taker order gets the best price there is, and the orders of this node *)
(* before those of peers at the same price (internal matches cost no       *)
(* swap): no order that is still in the queue is passed over for a worse   *)
(* one, in any pass of the loop.                                           *)
(***************************************************************************)
BestOrdersFirst ==
  [][\A maker, other \in Ids :
       /\ matched'[maker] > matched[maker]
       /\ other \in queue /\ book[other].isBuy = book[maker].isBuy
       => /\ IF taker.isBuy THEN book[maker].price <= book[other].price
             ELSE book[maker].price >= book[other].price
          /\ book[maker].price = book[other].price /\ other \in OwnIds => maker \in OwnIds]_pairVars

(***************************************************************************)
(* No own order is matched for more than it offered.                       *)
(***************************************************************************)
OwnOrdersNotOversold ==
  \A id \in OwnIds : matched[id] <= offered[id]
=============================================================================
