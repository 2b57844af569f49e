-------------------------- MODULE TradingPair_proofs --------------------------
(***************************************************************************)
(* That no order of a trading pair loses what is on hold, and no order of  *)
(* a peer is matched for more than it offered, for any orders and numbers. *)
(* At the end, what the proofs about the users of a pair need of sums.     *)
(***************************************************************************)
EXTENDS TradingPair, FiniteSets, Functions, Folds, WellFoundedInduction, FiniteSetTheorems, TLAPS

\* The three invariants need each other: a hold is covered because orders of
\* peers have none, and an order set aside is an own one.
PairIInv == PairTypeOK /\ HoldsCovered /\ PeerOrdersIntact

USE DEF Ids, Orders, NoOrder, live, available

LEMMA NoOrderIsOrder == NoOrder \in Orders
OBVIOUS

\* An order is put back into the book with less in it, or not at all.
LEMMA Reduced ==
  ASSUME PairIInv, NEW id \in Ids, NEW q \in Nat, q <= book[id].quantity
  PROVE  [book[id] EXCEPT !.quantity = @ - q] \in Orders
BY DEF PairIInv, PairTypeOK

LEMMA LesserNat ==
  ASSUME NEW a \in Nat, NEW b \in Nat
  PROVE  Lesser(a, b) \in Nat /\ Lesser(a, b) <= a /\ Lesser(a, b) <= b
BY DEF Lesser

LEMMA MatchingQuantityBounds ==
  ASSUME PairIInv, NEW maker \in Ids
  PROVE  /\ available(maker) \in Nat
         /\ matchingQuantity(maker) \in Nat
         /\ matchingQuantity(maker) <= available(maker)
         /\ matchingQuantity(maker) <= taker.quantity
         /\ available(maker) <= book[maker].quantity
<1>1. /\ book[maker] \in Orders /\ taker.quantity \in Nat
  BY DEF PairIInv, PairTypeOK, Takers
<1>2. book[maker].hold <= book[maker].quantity
  BY <1>1 DEF PairIInv, HoldsCovered
<1>3. available(maker) \in Nat /\ available(maker) <= book[maker].quantity
  BY <1>1, <1>2
<1> HIDE DEF available
<1>4. CASE crosses(maker)
  BY <1>1, <1>3, <1>4, LesserNat DEF matchingQuantity
<1>5. CASE ~crosses(maker)
  BY <1>1, <1>3, <1>5 DEF matchingQuantity
<1> QED BY <1>3, <1>4, <1>5

LEMMA PairInitInv ==
  ASSUME PairInit
  PROVE  PairIInv
<1>1. /\ \A id \in Ids : book[id] = NoOrder /\ offered[id] = 0 /\ matched[id] = 0
      /\ book \in [Ids -> Orders] /\ offered \in [Ids -> Nat] /\ matched \in [Ids -> Nat]
  BY NoOrderIsOrder DEF PairInit
<1>2. PairTypeOK
  BY <1>1 DEF PairInit, PairTypeOK, NoTaker, Takers
<1>3. HoldsCovered
  BY <1>1 DEF HoldsCovered
<1>4. PeerOrdersIntact
  BY <1>1 DEF PeerOrdersIntact, PairInit
<1> QED BY <1>2, <1>3, <1>4 DEF PairIInv

\* Orders may always be taken out of book and queue as a whole.
LEMMA Removed ==
  ASSUME PairIInv, NEW ids \in SUBSET Ids,
         book' = [id \in Ids |-> IF id \in ids THEN NoOrder ELSE book[id]],
         queue' = queue \ ids,
         UNCHANGED <<taker, matching, aside, offered, takers, matched>>
  PROVE  PairIInv'
<1>1. /\ \A id \in Ids : book'[id] = IF id \in ids THEN NoOrder ELSE book[id]
      /\ book' \in [Ids -> Orders]
  BY NoOrderIsOrder DEF PairIInv, PairTypeOK
<1>2. PairTypeOK'
  BY <1>1 DEF PairIInv, PairTypeOK
<1>3. HoldsCovered'
  BY <1>1 DEF PairIInv, HoldsCovered
<1>4. PeerOrdersIntact'
  <2> SUFFICES ASSUME NEW id \in PeerIds
               PROVE  /\ id \in live' <=> id \in queue'
                      /\ matched'[id] + book'[id].quantity <= offered'[id]
    BY DEF PeerOrdersIntact
  <2>1. /\ id \in live <=> id \in queue
        /\ matched[id] + book[id].quantity <= offered[id]
        /\ matched[id] \in Nat /\ offered[id] \in Nat /\ book[id].quantity \in Nat
    BY DEF PairIInv, PairTypeOK, PeerOrdersIntact
  <2> QED BY <1>1, <2>1
<1> QED BY <1>2, <1>3, <1>4 DEF PairIInv

\* What the methods other than match do to the invariant.
LEMMA EntersInv ==
  ASSUME PairIInv, NEW id \in Ids, NEW quantity \in Quantities, NEW price \in Prices,
         enters(id, quantity, price)
  PROVE  PairIInv'
<1>1. PICK isBuy \in BOOLEAN, time \in Times :
        addOrder(id, Stamped(isBuy, price, time, quantity))
  BY DEF enters
<1>2. price \in Nat /\ time \in Nat /\ quantity \in Nat /\ quantity > 0
  BY NumbersAssumption
<1>3. /\ Stamped(isBuy, price, time, quantity) \in Orders
      /\ Stamped(isBuy, price, time, quantity).quantity = quantity
      /\ Stamped(isBuy, price, time, quantity).hold = 0
  BY <1>2 DEF Stamped
<1>4. /\ book' = [book EXCEPT ![id] = Stamped(isBuy, price, time, quantity)]
      /\ queue' = queue \cup {id} /\ offered[id] = 0
      /\ offered' = [offered EXCEPT ![id] = quantity]
      /\ UNCHANGED <<taker, matching, aside, takers, matched>>
  BY <1>1 DEF addOrder, enters
<1>5. PairTypeOK'
  BY <1>2, <1>3, <1>4 DEF PairIInv, PairTypeOK
<1>6. HoldsCovered'
  BY <1>2, <1>3, <1>4, IdsAssumption DEF PairIInv, PairTypeOK, HoldsCovered
<1>7. PeerOrdersIntact'
  BY <1>2, <1>3, <1>4, IdsAssumption DEF PairIInv, PairTypeOK, PeerOrdersIntact
<1> QED BY <1>5, <1>6, <1>7 DEF PairIInv

LEMMA AmountsNat ==
  ASSUME PairIInv, NEW id \in Ids, NEW quantity \in Amounts(id)
  PROVE  quantity \in Nat
BY NumbersAssumption DEF Amounts, PairIInv, PairTypeOK

LEMMA RemovesInv ==
  ASSUME PairIInv, NEW id \in Ids, PairRemoves(id)
  PROVE  PairIInv'
<1>1. PICK quantity \in Amounts(id) : removeOrder(id, quantity)
  BY DEF PairRemoves
<1>2. quantity \in Nat
  BY AmountsNat
<1>3. /\ UNCHANGED <<taker, matching, aside, offered, takers, matched>>
      /\ book' = [book EXCEPT ![id] = remainder(id, quantity)]
      /\ book[id] \in Orders
  BY <1>1 DEF PairRemoves, removeOrder, PairIInv, PairTypeOK
<1>4. CASE quantity < book[id].quantity /\ Swappable(book[id].quantity - quantity, book[id].price)
  <2>1. /\ remainder(id, quantity) = [book[id] EXCEPT !.quantity = @ - quantity]
        /\ remainder(id, quantity) \in Orders
        /\ remainder(id, quantity).quantity > 0
    BY <1>2, <1>3, <1>4, Reduced DEF remainder, rest
  <2>2. remainder(id, quantity) # NoOrder
    BY <2>1
  <2>3. queue' = queue /\ quantity <= available(id)
    BY <1>1, <2>2 DEF removeOrder, canRemove, keepsHold, remainder
  <2>4. PairTypeOK'
    BY <1>3, <2>1, <2>3 DEF PairIInv, PairTypeOK
  <2>5. HoldsCovered'
    BY <1>2, <1>3, <2>1, <2>3, IdsAssumption DEF PairIInv, PairTypeOK, HoldsCovered
  <2>6. PeerOrdersIntact'
    BY <1>2, <1>3, <1>4, <2>1, <2>3, IdsAssumption DEF PairIInv, PairTypeOK, PeerOrdersIntact
  <2> QED BY <2>4, <2>5, <2>6 DEF PairIInv
<1>5. CASE ~(quantity < book[id].quantity /\ Swappable(book[id].quantity - quantity, book[id].price))
  <2>1. remainder(id, quantity) = NoOrder
    BY <1>5 DEF remainder, rest
  <2>2. book' = [book EXCEPT ![id] = NoOrder] /\ queue' = queue \ {id}
    BY <1>1, <1>3, <2>1 DEF removeOrder
  <2>3. book' = [other \in Ids |-> IF other \in {id} THEN NoOrder ELSE book[other]]
    BY <2>2 DEF PairIInv, PairTypeOK
  <2> QED BY <1>3, <2>2, <2>3, Removed
<1> QED BY <1>4, <1>5

LEMMA DropsInv ==
  ASSUME PairIInv, PeerDrops
  PROVE  PairIInv'
<1>1. PICK ids \in SUBSET (PeerIds \cap live) : removePeerOrders(ids)
  BY DEF PeerDrops
<1>2. UNCHANGED <<taker, matching, aside, offered, takers, matched>>
  BY DEF PeerDrops
<1> QED BY <1>1, <1>2, Removed DEF removePeerOrders

LEMMA HoldsInv ==
  ASSUME PairIInv, NEW id \in OwnIds, PairHolds(id)
  PROVE  PairIInv'
<1>1. PICK quantity \in Amounts(id) : addOrderHold(id, quantity) \/ removeOrderHold(id, quantity)
  BY DEF PairHolds
<1>2. quantity \in Nat
  BY AmountsNat
<1>3. PICK hold \in Nat :
        hold <= book[id].quantity /\ book' = [book EXCEPT ![id].hold = hold]
  <2>1. book[id].hold \in Nat /\ book[id].quantity \in Nat /\ book[id].hold <= book[id].quantity
    BY DEF PairIInv, PairTypeOK, HoldsCovered
  <2>2. CASE addOrderHold(id, quantity)
    <3>1. book' = [book EXCEPT ![id].hold = book[id].hold + quantity]
      BY <2>2 DEF addOrderHold
    <3>2. book[id].hold + quantity \in Nat /\ book[id].hold + quantity <= book[id].quantity
      BY <1>2, <2>1, <2>2 DEF addOrderHold
    <3> QED BY <3>1, <3>2, Zenon
  <2>3. CASE removeOrderHold(id, quantity)
    <3>1. book' = [book EXCEPT ![id].hold = book[id].hold - quantity]
      BY <2>3 DEF removeOrderHold
    <3>2. book[id].hold - quantity \in Nat /\ book[id].hold - quantity <= book[id].quantity
      BY <1>2, <2>1, <2>3 DEF removeOrderHold
    <3> QED BY <3>1, <3>2, Zenon
  <2> QED BY <1>1, <2>2, <2>3
<1>4. UNCHANGED <<queue, taker, matching, aside, offered, takers, matched>>
  BY DEF PairHolds
<1> QED BY <1>3, <1>4, IdsAssumption DEF PairIInv, PairTypeOK, HoldsCovered, PeerOrdersIntact

LEMMA MatchInv ==
  ASSUME PairIInv, PairMatches
  PROVE  PairIInv'
<1>1. PICK isBuy \in BOOLEAN, price \in Prices, quantity \in Quantities :
        Match([isBuy |-> isBuy, price |-> price, quantity |-> quantity])
  BY DEF PairMatches
<1>2. price \in Nat /\ quantity \in Nat
  BY NumbersAssumption
<1> QED BY <1>1, <1>2, IdsAssumption
  DEF Match, startsMatch, Takers, PairIInv, PairTypeOK, HoldsCovered, PeerOrdersIntact

-----------------------------------------------------------------------------
(* The passes of match *)

\* What every pass that matches does.
LEMMA MatchesFacts ==
  ASSUME PairIInv, NEW maker \in Ids, matches(maker)
  PROVE  /\ taker' \in Takers
         /\ matched' \in [Ids -> Nat]
         /\ \A id \in Ids : matched'[id] = IF id = maker THEN matched[id] + matchingQuantity(id)
                                           ELSE matched[id]
         /\ maker \in queue
<1>1. /\ matchingQuantity(maker) \in Nat /\ matchingQuantity(maker) <= taker.quantity
  BY MatchingQuantityBounds
<1>2. /\ taker' = [taker EXCEPT !.quantity = @ - matchingQuantity(maker)]
      /\ matched' = [matched EXCEPT ![maker] = @ + matchingQuantity(maker)]
      /\ maker \in queue
  BY DEF matches, isBest, opposite
<1>3. taker \in Takers /\ matched \in [Ids -> Nat]
  BY DEF PairIInv, PairTypeOK
<1> HIDE DEF Ids
<1> QED BY <1>1, <1>2, <1>3 DEF Takers

\* The maker order is removed after a match.
LEMMA MatchedAway ==
  ASSUME PairIInv, NEW maker \in Ids, matches(maker),
         book' = [book EXCEPT ![maker] = NoOrder], queue' = queue \ {maker},
         UNCHANGED <<matching, aside, offered, takers>>
  PROVE  PairIInv'
<1> DEFINE q == matchingQuantity(maker)
<1>1. q \in Nat /\ q <= book[maker].quantity /\ book[maker] \in Orders
  BY MatchingQuantityBounds DEF PairIInv, PairTypeOK
<1>2. /\ taker' \in Takers /\ matched' \in [Ids -> Nat]
      /\ \A id \in Ids : matched'[id] = IF id = maker THEN matched[id] + q ELSE matched[id]
  BY MatchesFacts
<1> HIDE DEF q
<1>3. PairTypeOK' /\ HoldsCovered'
  BY <1>1, <1>2, IdsAssumption DEF PairIInv, PairTypeOK, HoldsCovered
<1>4. PeerOrdersIntact'
  BY <1>1, <1>2, IdsAssumption DEF PairIInv, PairTypeOK, PeerOrdersIntact
<1> QED BY <1>3, <1>4 DEF PairIInv

\* The maker order loses the quantity that was matched; one of a peer is matched
\* in part only and stays in the queue.
LEMMA MatchedInPart ==
  ASSUME PairIInv, NEW maker \in Ids, matches(maker),
         book' = [book EXCEPT ![maker].quantity = @ - matchingQuantity(maker)],
         maker \in PeerIds => queue' = queue /\ matchingQuantity(maker) < available(maker),
         maker \in OwnIds => queue' \in {queue, queue \ {maker}},
         aside' \subseteq OwnIds, matching' \in BOOLEAN,
         UNCHANGED <<offered, takers>>
  PROVE  PairIInv'
<1> DEFINE q == matchingQuantity(maker)
<1>1. q \in Nat /\ q <= available(maker) /\ book[maker] \in Orders
  BY MatchingQuantityBounds DEF PairIInv, PairTypeOK
<1>2. /\ taker' \in Takers /\ matched' \in [Ids -> Nat]
      /\ \A id \in Ids : matched'[id] = IF id = maker THEN matched[id] + q ELSE matched[id]
  BY MatchesFacts
<1>3. available(maker) \in Nat /\ available(maker) <= book[maker].quantity
  BY MatchingQuantityBounds
<1>4. /\ [book[maker] EXCEPT !.quantity = @ - q] \in Orders
      /\ book' = [book EXCEPT ![maker] = [book[maker] EXCEPT !.quantity = @ - q]]
  BY <1>1, <1>3, Reduced DEF PairIInv, PairTypeOK
<1>5. queue' \subseteq Ids
  BY DEF PairIInv, PairTypeOK
<1>6. /\ maker \in PeerIds => queue' = queue /\ q < available(maker)
      /\ maker \in OwnIds => queue' \in {queue, queue \ {maker}}
  OBVIOUS
<1> HIDE DEF q
<1>7. PairTypeOK'
  BY <1>2, <1>4, <1>5 DEF PairIInv, PairTypeOK
<1>8. HoldsCovered'
  BY <1>1, <1>4, IdsAssumption DEF PairIInv, PairTypeOK, HoldsCovered
<1>9. PeerOrdersIntact'
  <2> SUFFICES ASSUME NEW id \in PeerIds
               PROVE  /\ id \in live' <=> id \in queue'
                      /\ matched'[id] + book'[id].quantity <= offered'[id]
    BY DEF PeerOrdersIntact
  <2>1. CASE id = maker
    <3>1. book[id].hold = 0
      BY DEF PairIInv, HoldsCovered
    <3>2. /\ book'[id].quantity = book[id].quantity - q /\ book'[id].price = book[id].price
          /\ available(id) = book[id].quantity
      BY <1>1, <1>4, <2>1, <3>1 DEF PairIInv, PairTypeOK
    <3>3. maker \in queue
      BY DEF matches, isBest, opposite
    <3>4. matched'[id] = matched[id] + q /\ offered'[id] = offered[id]
      BY <1>2, <2>1
    <3>5. /\ matched[id] + book[id].quantity <= offered[id]
          /\ matched[id] \in Nat /\ offered[id] \in Nat /\ book[id].quantity \in Nat
      BY DEF PairIInv, PairTypeOK, PeerOrdersIntact
    <3> QED BY <1>1, <1>6, <2>1, <3>2, <3>3, <3>4, <3>5
  <2>2. CASE id # maker
    <3>1. book'[id] = book[id] /\ matched'[id] = matched[id] /\ offered'[id] = offered[id]
      BY <1>2, <1>4, <2>2 DEF PairIInv, PairTypeOK
    <3>2. id \in queue <=> id \in queue'
      BY <1>6, <2>2, IdsAssumption
    <3> QED BY <3>1, <3>2 DEF PairIInv, PeerOrdersIntact
  <2> QED BY <2>1, <2>2
<1> QED BY <1>7, <1>8, <1>9 DEF PairIInv

LEMMA MatchFullyInv ==
  ASSUME PairIInv, NEW maker \in Ids, MatchFully(maker)
  PROVE  PairIInv'
BY MatchedAway DEF MatchFully

\* Only an own order has a hold.
LEMMA HeldIsOwn ==
  ASSUME PairIInv, NEW maker \in Ids, book[maker].hold > 0
  PROVE  maker \in OwnIds /\ maker \notin PeerIds
BY IdsAssumption DEF PairIInv, HoldsCovered

LEMMA MatchAvailableInv ==
  ASSUME PairIInv, NEW maker \in Ids, MatchAvailable(maker)
  PROVE  PairIInv'
<1>1. /\ matches(maker) /\ maker \in OwnIds /\ maker \notin PeerIds
      /\ queue' = queue \ {maker} /\ aside' = aside \cup {maker}
      /\ UNCHANGED <<matching, offered, takers>>
  BY HeldIsOwn DEF MatchAvailable
<1>2. aside' \subseteq OwnIds /\ matching' \in BOOLEAN
  BY <1>1 DEF PairIInv, PairTypeOK
<1>3. CASE book' = [book EXCEPT ![maker].quantity = @ - matchingQuantity(maker)]
  BY <1>1, <1>2, <1>3, MatchedInPart
<1>4. CASE book' = book
  <2>1. /\ taker' \in Takers /\ matched' \in [Ids -> Nat]
        /\ \A id \in PeerIds : matched'[id] = matched[id]
    BY <1>1, MatchesFacts
  <2> QED BY <1>1, <1>2, <1>4, <2>1
    DEF PairIInv, PairTypeOK, HoldsCovered, PeerOrdersIntact
<1> QED BY <1>3, <1>4 DEF MatchAvailable

LEMMA MatchPartInv ==
  ASSUME PairIInv, NEW maker \in Ids, MatchPart(maker)
  PROVE  PairIInv'
<1>1. matches(maker) /\ UNCHANGED <<matching, aside, offered, takers>>
  BY DEF MatchPart
<1>2. aside' \subseteq OwnIds /\ matching' \in BOOLEAN
  BY <1>1 DEF PairIInv, PairTypeOK
<1>3. CASE /\ matchingQuantity(maker) < available(maker)
           /\ book' = [book EXCEPT ![maker].quantity = @ - matchingQuantity(maker)]
           /\ queue' = queue
  BY <1>1, <1>2, <1>3, MatchedInPart
<1>4. CASE book' = [book EXCEPT ![maker] = NoOrder] /\ queue' = queue \ {maker}
  BY <1>1, <1>4, MatchedAway
<1> QED BY <1>3, <1>4 DEF MatchPart

LEMMA MatchThrowsInv ==
  ASSUME PairIInv, NEW maker \in Ids, MatchThrows(maker)
  PROVE  PairIInv'
<1>1. /\ matches(maker) /\ maker \notin PeerIds
      /\ book' = [book EXCEPT ![maker].quantity = @ - matchingQuantity(maker)]
      /\ aside' = {} /\ matching' = FALSE
      /\ UNCHANGED <<queue, offered, takers>>
  BY HeldIsOwn DEF MatchThrows
<1> QED BY <1>1, MatchedInPart

LEMMA MatchEndsInv ==
  ASSUME PairIInv, MatchEnds
  PROVE  PairIInv'
<1>1. /\ queue' = queue \cup aside /\ aside' = {} /\ matching' = FALSE /\ taker' = NoTaker
      /\ UNCHANGED <<book, offered, takers, matched>>
  BY DEF MatchEnds
<1>2. PairTypeOK'
  BY <1>1 DEF NoTaker, Takers, PairIInv, PairTypeOK
<1>3. HoldsCovered'
  BY <1>1 DEF PairIInv, HoldsCovered
<1>4. \A id \in PeerIds : id \in queue' <=> id \in queue
  BY <1>1, IdsAssumption DEF PairIInv, PairTypeOK
<1>5. PeerOrdersIntact'
  BY <1>1, <1>4 DEF PairIInv, PeerOrdersIntact
<1> QED BY <1>2, <1>3, <1>5 DEF PairIInv

-----------------------------------------------------------------------------
(* The theorems *)

LEMMA PairStepInv ==
  ASSUME PairIInv, [PairNext]_pairVars
  PROVE  PairIInv'
<1>1. CASE \E id \in Ids : PairAdds(id) \/ PairRemoves(id) \/ PeerReturns(id)
  BY <1>1, EntersInv, RemovesInv DEF PairAdds, PeerReturns
<1>2. CASE PeerDrops
  BY <1>2, DropsInv
<1>3. CASE \E id \in OwnIds : PairHolds(id)
  BY <1>3, HoldsInv
<1>4. CASE PairMatches
  BY <1>4, MatchInv
<1>5. CASE MatchSteps
  BY <1>5, MatchFullyInv, MatchAvailableInv, MatchPartInv, MatchThrowsInv, MatchEndsInv DEF MatchSteps
<1>6. CASE UNCHANGED pairVars
  BY <1>6 DEF pairVars, PairIInv, PairTypeOK, HoldsCovered, PeerOrdersIntact
<1> QED BY <1>1, <1>2, <1>3, <1>4, <1>5, <1>6 DEF PairNext

(***************************************************************************)
(* The books, the queues and the routine match stay well formed, holds are *)
(* covered and orders of peers intact, whatever orders there are.          *)
(***************************************************************************)
THEOREM PairInvariance == PairSpec => []PairIInv
BY PairInitInv, PairStepInv, PTL DEF PairSpec

(***************************************************************************)
(* The maps, the queues and the routine match keep their types: no         *)
(* quantity or hold becomes negative (removeOrder, removeOrderHold, match).*)
(***************************************************************************)
THEOREM PairTypeCorrect == PairSpec => []PairTypeOK
<1>1. PairIInv => PairTypeOK
  BY DEF PairIInv
<1> QED BY <1>1, PairInvariance, PTL

(***************************************************************************)
(* No quantity of an own order that is on hold for a swap is matched again *)
(* or removed (addOrderHold, removeOrder, match).                          *)
(***************************************************************************)
THEOREM HoldsAreCovered == PairSpec => []HoldsCovered
<1>1. PairIInv => HoldsCovered
  BY DEF PairIInv
<1> QED BY <1>1, PairInvariance, PTL

(***************************************************************************)
(* No order of a peer is matched for more than it offered, and each can be *)
(* matched for as long as it is in the book (addOrder, match, removeOrder).*)
(***************************************************************************)
THEOREM PeerOrdersStayIntact == PairSpec => []PeerOrdersIntact
<1>1. PairIInv => PeerOrdersIntact
  BY DEF PairIInv
<1> QED BY <1>1, PairInvariance, PTL

NoDustInStep ==
  \A id \in PeerIds :
    0 < book'[id].quantity /\ book'[id].quantity < book[id].quantity
      => Swappable(book'[id].quantity, book'[id].price)

\* Steps that leave orders as they are or remove them.
LEMMA WholeOrdersOnly ==
  ASSUME PairIInv, \A id \in PeerIds : book'[id] \in {book[id], NoOrder}
  PROVE  NoDustInStep
<1>1. \A id \in PeerIds : book[id].quantity \in Nat
  BY DEF PairIInv, PairTypeOK
<1> QED BY <1>1 DEF NoDustInStep

LEMMA MatchFullyNoDust ==
  ASSUME PairIInv, NEW maker \in Ids, MatchFully(maker)
  PROVE  NoDustInStep
<1>1. \A id \in Ids : book'[id] \in {book[id], NoOrder}
  BY DEF MatchFully, PairIInv, PairTypeOK
<1> QED BY <1>1, WholeOrdersOnly

\* Only own orders have holds.
LEMMA HeldNoDust ==
  ASSUME PairIInv, NEW maker \in Ids, MatchAvailable(maker) \/ MatchThrows(maker)
  PROVE  NoDustInStep
<1>1. maker \notin PeerIds
  BY HeldIsOwn DEF MatchAvailable, MatchThrows
<1>2. \A id \in PeerIds : book'[id] = book[id]
  BY <1>1 DEF MatchAvailable, MatchThrows, PairIInv, PairTypeOK
<1> QED BY <1>2, WholeOrdersOnly

LEMMA MatchPartNoDust ==
  ASSUME PairIInv, NEW maker \in Ids, MatchPart(maker)
  PROVE  NoDustInStep
<1>1. book \in [Ids -> Orders]
  BY DEF PairIInv, PairTypeOK
<1>2. CASE /\ Swappable(available(maker) - matchingQuantity(maker), book[maker].price)
           /\ book' = [book EXCEPT ![maker].quantity = @ - matchingQuantity(maker)]
  <2> SUFFICES ASSUME NEW id \in PeerIds, book'[id].quantity < book[id].quantity
               PROVE  Swappable(book'[id].quantity, book'[id].price)
    BY DEF NoDustInStep
  <2>1. id = maker
    BY <1>1, <1>2
  <2>2. book[id].hold = 0
    BY DEF PairIInv, HoldsCovered
  <2>3. matchingQuantity(maker) \in Nat
    BY MatchingQuantityBounds
  <2>4. /\ book'[id].quantity = available(maker) - matchingQuantity(maker)
        /\ book'[id].price = book[maker].price
    BY <1>1, <1>2, <2>1, <2>2, <2>3
  <2> QED BY <1>2, <2>4
<1>3. CASE book' = [book EXCEPT ![maker] = NoOrder]
  BY <1>1, <1>3 DEF NoDustInStep
<1> QED BY <1>2, <1>3 DEF MatchPart

LEMMA RemovesNoDust ==
  ASSUME PairIInv, NEW id \in Ids, PairRemoves(id)
  PROVE  NoDustInStep
<1>1. PICK quantity \in Amounts(id) : removeOrder(id, quantity)
  BY DEF PairRemoves
<1>2. quantity \in Nat /\ book \in [Ids -> Orders]
  BY AmountsNat DEF PairIInv, PairTypeOK
<1>3. book' = [book EXCEPT ![id] = remainder(id, quantity)]
  BY <1>1 DEF removeOrder
<1>4. CASE quantity < book[id].quantity /\ Swappable(book[id].quantity - quantity, book[id].price)
  <2>1. /\ remainder(id, quantity).quantity = book[id].quantity - quantity
        /\ remainder(id, quantity).price = book[id].price
    BY <1>2, <1>4 DEF remainder, rest
  <2> QED BY <1>2, <1>3, <1>4, <2>1 DEF NoDustInStep
<1>5. CASE ~(quantity < book[id].quantity /\ Swappable(book[id].quantity - quantity, book[id].price))
  <2>1. remainder(id, quantity) = NoOrder
    BY <1>5 DEF remainder, rest
  <2> QED BY <1>2, <1>3, <2>1 DEF NoDustInStep
<1> QED BY <1>4, <1>5

LEMMA HoldsNoDust ==
  ASSUME PairIInv, NEW own \in OwnIds, PairHolds(own)
  PROVE  NoDustInStep
<1>1. \A id \in PeerIds : book'[id] = book[id]
  BY IdsAssumption DEF PairHolds, addOrderHold, removeOrderHold, PairIInv, PairTypeOK
<1>2. \A id \in PeerIds : book[id].quantity \in Nat
  BY DEF PairIInv, PairTypeOK
<1> QED BY <1>1, <1>2 DEF NoDustInStep

LEMMA EntersNoDust ==
  ASSUME PairIInv, NEW id \in Ids, NEW quantity \in Quantities, NEW price \in Prices,
         enters(id, quantity, price)
  PROVE  NoDustInStep
<1>1. PICK order : book' = [book EXCEPT ![id] = order] /\ book[id] = NoOrder
  BY DEF enters, addOrder
<1>2. \A other \in Ids : book[other].quantity \in Nat
  BY DEF PairIInv, PairTypeOK
<1>3. ASSUME NEW other \in PeerIds
      PROVE  ~(0 < book'[other].quantity /\ book'[other].quantity < book[other].quantity)
  <2>1. CASE other = id
    <3>1. book[other].quantity = 0
      BY <1>1, <2>1
    <3>2. book'[other].quantity \in Nat
      BY EntersInv DEF PairIInv, PairTypeOK
    <3> QED BY <3>1, <3>2
  <2>2. CASE other # id
    <3>1. book'[other] = book[other]
      BY <1>1, <2>2 DEF PairIInv, PairTypeOK
    <3> QED BY <1>2, <3>1
  <2> QED BY <2>1, <2>2
<1> QED BY <1>3 DEF NoDustInStep

(***************************************************************************)
(* What match and removeOrder leave of an order of a peer is worth a swap. *)
(***************************************************************************)
THEOREM NoDustIsLeft == PairSpec => NoDustLeft
<1>1. ASSUME PairIInv, PairNext
      PROVE  NoDustInStep
  <2>1. CASE \E id \in Ids : PairAdds(id) \/ PairRemoves(id) \/ PeerReturns(id)
    BY <1>1, <2>1, EntersNoDust, RemovesNoDust DEF PairAdds, PeerReturns
  <2>2. CASE \E id \in OwnIds : PairHolds(id)
    BY <1>1, <2>2, HoldsNoDust
  <2>3. CASE \E maker \in Ids : MatchPart(maker)
    BY <1>1, <2>3, MatchPartNoDust
  <2>4. CASE PeerDrops
    <3>1. PICK ids \in SUBSET (PeerIds \cap live) : removePeerOrders(ids)
      BY <2>4 DEF PeerDrops
    <3> QED BY <1>1, <3>1, WholeOrdersOnly DEF removePeerOrders
  <2>5. CASE \E maker \in Ids : MatchFully(maker)
    BY <1>1, <2>5, MatchFullyNoDust
  <2>6. CASE \E maker \in Ids : MatchAvailable(maker) \/ MatchThrows(maker)
    <3>1. PICK maker \in Ids : MatchAvailable(maker) \/ MatchThrows(maker)
      BY <2>6
    <3> QED BY <1>1, <3>1, HeldNoDust
  <2>7. CASE PairMatches \/ MatchEnds
    BY <1>1, <2>7, WholeOrdersOnly DEF PairMatches, Match, startsMatch, MatchEnds
  <2> QED BY <1>1, <2>1, <2>2, <2>3, <2>4, <2>5, <2>6, <2>7 DEF PairNext, MatchSteps
<1> QED BY <1>1, PairInvariance, PTL DEF PairSpec, NoDustLeft, NoDustInStep

BestInStep ==
  \A maker, other \in Ids :
    /\ matched'[maker] > matched[maker]
    /\ other \in queue /\ book[other].isBuy = book[maker].isBuy
    => /\ IF taker.isBuy THEN book[maker].price <= book[other].price
          ELSE book[maker].price >= book[other].price
       /\ book[maker].price = book[other].price /\ other \in OwnIds => maker \in OwnIds

\* Only the passes of match hand anything out.
LEMMA NothingMatched ==
  ASSUME PairIInv, matched' = matched
  PROVE  BestInStep
<1>1. \A id \in Ids : ~(matched'[id] > matched[id])
  BY DEF PairIInv, PairTypeOK
<1> QED BY <1>1 DEF BestInStep

\* The order at the top of the queue is at least as good as any on its side.
LEMMA BestIsBest ==
  ASSUME PairIInv, NEW maker \in Ids, isBest(maker),
         NEW other \in Ids, other \in queue, book[other].isBuy = book[maker].isBuy
  PROVE  /\ IF taker.isBuy THEN book[maker].price <= book[other].price
            ELSE book[maker].price >= book[other].price
         /\ book[maker].price = book[other].price /\ other \in OwnIds => maker \in OwnIds
<1>1. /\ book[maker].isBuy # taker.isBuy /\ other \in opposite /\ ~Precedes(other, maker)
  BY DEF isBest, opposite
<1>2. /\ book[maker].price \in Nat /\ book[other].price \in Nat
      /\ book[maker].isBuy \in BOOLEAN /\ book[other].isBuy \in BOOLEAN /\ taker.isBuy \in BOOLEAN
  BY DEF PairIInv, PairTypeOK, Takers
<1>3. IF taker.isBuy THEN book[maker].price <= book[other].price
      ELSE book[maker].price >= book[other].price
  BY <1>1, <1>2 DEF Precedes
<1>4. book[maker].price = book[other].price /\ other \in OwnIds => maker \in OwnIds
  BY <1>1 DEF Precedes
<1> QED BY <1>3, <1>4

LEMMA PassTakesBest ==
  ASSUME PairIInv, NEW best \in Ids, matches(best)
  PROVE  BestInStep
<1> SUFFICES ASSUME NEW maker \in Ids, NEW other \in Ids, matched'[maker] > matched[maker],
                    other \in queue, book[other].isBuy = book[maker].isBuy
             PROVE  /\ IF taker.isBuy THEN book[maker].price <= book[other].price
                       ELSE book[maker].price >= book[other].price
                    /\ book[maker].price = book[other].price /\ other \in OwnIds
                         => maker \in OwnIds
  BY DEF BestInStep
<1>1. maker = best
  <2>1. \A id \in Ids : id # best => matched'[id] = matched[id]
    BY MatchesFacts
  <2>2. matched[maker] \in Nat
    BY DEF PairIInv, PairTypeOK
  <2> QED BY <2>1, <2>2
<1>2. isBest(maker)
  BY <1>1 DEF matches
<1> QED BY <1>2, BestIsBest

(***************************************************************************)
(* Every pass of match hands out the best order of the other side: none in *)
(* the queue has a better price, and none of this node is passed over for  *)
(* one of a peer at the same price.                                        *)
(***************************************************************************)
THEOREM BestOrdersGoFirst == PairSpec => BestOrdersFirst
<1>1. ASSUME PairIInv, PairNext
      PROVE  BestInStep
  <2>1. CASE \E id \in Ids : PairAdds(id) \/ PairRemoves(id) \/ PeerReturns(id)
    BY <1>1, <2>1, NothingMatched DEF PairAdds, PeerReturns, enters, PairRemoves
  <2>2. CASE PeerDrops \/ (\E id \in OwnIds : PairHolds(id))
    BY <1>1, <2>2, NothingMatched DEF PeerDrops, PairHolds
  <2>3. CASE PairMatches \/ MatchEnds
    BY <1>1, <2>3, NothingMatched DEF PairMatches, Match, startsMatch, MatchEnds
  <2>4. CASE \E maker \in Ids : \/ MatchFully(maker) \/ MatchAvailable(maker) \/ MatchPart(maker)
                                \/ MatchThrows(maker)
    BY <1>1, <2>4, PassTakesBest DEF MatchFully, MatchAvailable, MatchPart, MatchThrows
  <2> QED BY <1>1, <2>1, <2>2, <2>3, <2>4 DEF PairNext, MatchSteps
<1>2. ASSUME PairIInv, UNCHANGED pairVars
      PROVE  BestInStep
  BY <1>2, NothingMatched DEF pairVars
<1> QED BY <1>1, <1>2, PairInvariance, PTL DEF PairSpec, BestOrdersFirst, BestInStep

-----------------------------------------------------------------------------
(* Induction over finite sets, for the sums below: the theorems of the     *)
(* library about it are over operators, which no prover here instantiates; *)
(* that a set of numbers has a least element is not.                       *)

\* A set of numbers has a least element.
LEMMA LeastNumber ==
  ASSUME NEW N \in SUBSET Nat, N # {}
  PROVE  \E m \in N : \A k \in N : m <= k
<1>1. PICK m \in N : \A k \in N : ~ (<<k, m>> \in OpToRel(<, Nat))
  <2>1. IsWellFoundedOn(OpToRel(<, Nat), Nat)
    BY NatLessThanWellFounded
  <2> QED
    BY <2>1, WFMin, Zenon
<1>2. \A k \in N : ~(k < m)
  BY <1>1, Zenon DEF OpToRel
<1> QED
  BY <1>2

\* Induction over the finite subsets of a set, without one element at a time.
LEMMA SubsetInduction ==
  ASSUME NEW S, IsFiniteSet(S), NEW Q \in SUBSET (SUBSET S),
         \A s \in SUBSET S : (\A x \in s : s \ {x} \in Q) => s \in Q
  PROVE  Q = SUBSET S
<1> SUFFICES ASSUME NEW t \in SUBSET S, t \notin Q PROVE FALSE
  OBVIOUS
<1> DEFINE N == {Cardinality(s) : s \in (SUBSET S) \ Q}
<1>1. \A s \in SUBSET S : IsFiniteSet(s) /\ Cardinality(s) \in Nat
  <2> SUFFICES ASSUME NEW s \in SUBSET S PROVE IsFiniteSet(s) /\ Cardinality(s) \in Nat
    OBVIOUS
  <2>1. IsFiniteSet(s)
    BY FS_Subset
  <2> QED
    BY <2>1, FS_CardinalityType
<1>2. N \in SUBSET Nat /\ N # {}
  BY <1>1
<1>3. PICK s \in (SUBSET S) \ Q : \A r \in (SUBSET S) \ Q : Cardinality(s) <= Cardinality(r)
  <2>1. PICK m \in N : \A k \in N : m <= k
    <3> HIDE DEF N
    <3> QED BY <1>2, LeastNumber
  <2>2. PICK s \in (SUBSET S) \ Q : m = Cardinality(s)
    OBVIOUS
  <2> QED
    BY <2>1, <2>2
<1>4. PICK x \in s : s \ {x} \notin Q
  OBVIOUS
<1>5. Cardinality(s \ {x}) = Cardinality(s) - 1
  BY <1>1, FS_RemoveElement
<1> QED
  BY <1>1, <1>3, <1>4, <1>5

-----------------------------------------------------------------------------
(* What SumFunctionOnSet is *)

some(s) == CHOOSE x \in s : TRUE
IsSum(g, q, D) == g = [s \in D |-> IF s = {} THEN 0 ELSE q[some(s)] + g[s \ {some(s)}]]

LEMMA SomeIsThere ==
  ASSUME NEW s, s # {}
  PROVE  some(s) \in s
  BY DEF some

LEMMA SumIsIter ==
  ASSUME NEW q, NEW S
  PROVE  SumFunctionOnSet(q, S) = (CHOOSE g : IsSum(g, q, SUBSET S))[S]
  BY Zenon DEF SumFunctionOnSet, FoldFunctionOnSet, MapThenFoldSet, IsSum, some

\* The subsets of a set up to a size.
Small(S, n) == {s \in SUBSET S : Cardinality(s) <= n}

LEMMA Subsets ==
  ASSUME NEW S, IsFiniteSet(S), NEW s \in SUBSET S
  PROVE  /\ IsFiniteSet(s) /\ Cardinality(s) \in Nat /\ Cardinality(s) <= Cardinality(S)
         /\ Cardinality(s) = 0 <=> s = {}
         /\ \A x \in s : s \ {x} \in SUBSET S /\ Cardinality(s \ {x}) = Cardinality(s) - 1
<1>1. IsFiniteSet(s) /\ Cardinality(s) <= Cardinality(S)
  BY FS_Subset
<1>2. Cardinality(s) \in Nat
  BY <1>1, FS_CardinalityType
<1>3. Cardinality(s) = 0 <=> s = {}
  BY <1>1, FS_EmptySet
<1>4. ASSUME NEW x \in s PROVE Cardinality(s \ {x}) = Cardinality(s) - 1
  BY <1>1, FS_RemoveElement
<1> QED
  BY <1>1, <1>2, <1>3, <1>4

\* There is such a function for each size of the subsets, so there is one for all.
LEMMA SumExists ==
  ASSUME NEW q, NEW S, IsFiniteSet(S)
  PROVE  \E g : IsSum(g, q, SUBSET S)
<1> DEFINE N == {n \in Nat : ~ \E g : IsSum(g, q, Small(S, n))}
<1>1. ASSUME NEW m \in Nat, m \in N, \A k \in N : m <= k PROVE FALSE
  <2>1. CASE m = 0
    <3>1. \A s \in Small(S, 0) : s = {}
      BY Subsets DEF Small
    <3>2. IsSum([s \in Small(S, 0) |-> 0], q, Small(S, 0))
      BY <3>1 DEF IsSum
    <3> QED
      BY <1>1, <2>1, <3>2
  <2>2. CASE m # 0
    <3>1. m - 1 \in Nat /\ m - 1 \notin N
      BY <1>1, <2>2
    <3>2. PICK g : IsSum(g, q, Small(S, m - 1))
      BY <3>1
    <3> DEFINE h == [s \in Small(S, m) |-> IF s = {} THEN 0 ELSE q[some(s)] + g[s \ {some(s)}]]
    <3>3. ASSUME NEW s \in Small(S, m), s # {} PROVE h[s \ {some(s)}] = g[s \ {some(s)}]
      <4>1. some(s) \in s
        BY <3>3, SomeIsThere
      <4>2. s \ {some(s)} \in Small(S, m - 1) /\ s \ {some(s)} \in Small(S, m)
        BY <4>1, Subsets DEF Small
      <4> QED
        BY <3>2, <4>2 DEF IsSum
    <3>4. h = [s \in Small(S, m) |-> IF s = {} THEN 0 ELSE q[some(s)] + h[s \ {some(s)}]]
      BY <3>3
    <3>5. IsSum(h, q, Small(S, m))
      BY <3>4, Zenon DEF IsSum
    <3> QED
      BY <1>1, <3>5
  <2> QED
    BY <2>1, <2>2
<1>2. N = {}
  BY <1>1, LeastNumber
<1>3. Cardinality(S) \in Nat /\ Small(S, Cardinality(S)) = SUBSET S
  BY Subsets, FS_CardinalityType DEF Small
<1> QED
  BY <1>2, <1>3

\* All such functions agree.
Agree(g, h, S) == \A s \in SUBSET S : g[s] = h[s]

LEMMA SumUnique ==
  ASSUME NEW q, NEW S, NEW T, IsFiniteSet(S), S \subseteq T, NEW g, NEW h,
         IsSum(g, q, SUBSET S), IsSum(h, q, SUBSET T)
  PROVE  Agree(g, h, S)
<1> DEFINE Q == {s \in SUBSET S : g[s] = h[s]}
<1>1. ASSUME NEW s \in SUBSET S, \A x \in s : s \ {x} \in Q PROVE s \in Q
  <2>1. s \in SUBSET S /\ s \in SUBSET T
    OBVIOUS
  <2>2. CASE s = {}
    BY <2>1, <2>2 DEF IsSum
  <2>3. CASE s # {}
    <3>1. some(s) \in s /\ s \ {some(s)} \in Q
      BY <1>1, <2>3, SomeIsThere
    <3>2. g[s] = q[some(s)] + g[s \ {some(s)}] /\ h[s] = q[some(s)] + h[s \ {some(s)}]
      BY <2>1, <2>3 DEF IsSum
    <3> QED
      BY <3>1, <3>2
  <2> QED
    BY <2>2, <2>3
<1>2. Q = SUBSET S
  <2>1. Q \in SUBSET (SUBSET S)
    OBVIOUS
  <2> HIDE DEF Q
  <2> QED
    BY <1>1, <2>1, SubsetInduction
<1> QED
  BY <1>2 DEF Agree

-----------------------------------------------------------------------------
(* The sums *)

\* A sum is one element and the sum of the rest.
LEMMA SumSome ==
  ASSUME NEW q, NEW S, IsFiniteSet(S)
  PROVE  /\ SumFunctionOnSet(q, {}) = 0
         /\ S # {} => SumFunctionOnSet(q, S) = q[some(S)] + SumFunctionOnSet(q, S \ {some(S)})
<1> DEFINE G(s) == CHOOSE g : IsSum(g, q, SUBSET s)
<1>1. ASSUME NEW s, IsFiniteSet(s) PROVE IsSum(G(s), q, SUBSET s)
  BY <1>1, SumExists
<1>2. \A s : SumFunctionOnSet(q, s) = G(s)[s]
  BY SumIsIter
<1> HIDE DEF G
<1>3. SumFunctionOnSet(q, {}) = 0
  BY <1>1, <1>2, FS_EmptySet DEF IsSum
<1>4. ASSUME S # {}
      PROVE  SumFunctionOnSet(q, S) = q[some(S)] + SumFunctionOnSet(q, S \ {some(S)})
  <2> DEFINE R == S \ {some(S)}
  <2>1. IsFiniteSet(R) /\ R \in SUBSET S /\ R \in SUBSET R
    BY FS_RemoveElement
  <2>2. G(S)[S] = q[some(S)] + G(S)[R]
    BY <1>1, <1>4 DEF IsSum
  <2>3. G(R)[R] = G(S)[R]
    <3>1. PICK g, h : g = G(R) /\ h = G(S) /\ IsSum(g, q, SUBSET R) /\ IsSum(h, q, SUBSET S)
      BY <1>1, <2>1
    <3>2. IsFiniteSet(R) /\ R \subseteq S
      BY <2>1
    <3> HIDE DEF R
    <3>3. \A s \in SUBSET R : g[s] = h[s]
      <4>1. Agree(g, h, R)
        BY <3>1, <3>2, SumUnique
      <4> QED
        BY <4>1 DEF Agree
    <3> QED
      BY <2>1, <3>1, <3>3
  <2> QED
    BY <1>2, <2>2, <2>3
<1> QED
  BY <1>3, <1>4

\* A sum of natural numbers is one.
LEMMA SumNat ==
  ASSUME NEW q, NEW S, IsFiniteSet(S), \A x \in S : q[x] \in Nat
  PROVE  SumFunctionOnSet(q, S) \in Nat
<1> DEFINE Q == {s \in SUBSET S : SumFunctionOnSet(q, s) \in Nat}
<1>1. ASSUME NEW s \in SUBSET S, \A x \in s : s \ {x} \in Q PROVE s \in Q
  <2>1. IsFiniteSet(s)
    BY FS_Subset
  <2>2. CASE s = {}
    <3>1. SumFunctionOnSet(q, {}) = 0
      BY FS_EmptySet, SumSome
    <3> QED
      BY <2>2, <3>1
  <2>3. CASE s # {}
    <3>1. some(s) \in s
      BY <2>3, SomeIsThere
    <3>2. s \ {some(s)} \in Q /\ q[some(s)] \in Nat
      BY <1>1, <3>1
    <3> QED
      BY <2>1, <2>3, <3>2, SumSome
  <2> QED
    BY <2>2, <2>3
<1>2. Q = SUBSET S
  <2>1. Q \in SUBSET (SUBSET S)
    OBVIOUS
  <2> HIDE DEF Q
  <2> QED
    BY <1>1, <2>1, SubsetInduction
<1> QED
  BY <1>2

\* Whichever element is taken out.
LEMMA SumWithout ==
  ASSUME NEW q, NEW S, IsFiniteSet(S), \A x \in S : q[x] \in Nat
  PROVE  \A x \in S : SumFunctionOnSet(q, S) = q[x] + SumFunctionOnSet(q, S \ {x})
<1> DEFINE Takes(s) == \A x \in s : SumFunctionOnSet(q, s) = q[x] + SumFunctionOnSet(q, s \ {x})
           Q == {s \in SUBSET S : Takes(s)}
<1>1. ASSUME NEW s \in SUBSET S, \A x \in s : s \ {x} \in Q PROVE s \in Q
  <2> SUFFICES ASSUME NEW x \in s
               PROVE  SumFunctionOnSet(q, s) = q[x] + SumFunctionOnSet(q, s \ {x})
    OBVIOUS
  <2>1. IsFiniteSet(s) /\ some(s) \in s
    BY FS_Subset, SomeIsThere
  <2>2. SumFunctionOnSet(q, s) = q[some(s)] + SumFunctionOnSet(q, s \ {some(s)})
    BY <2>1, SumSome
  <2>3. CASE x # some(s)
    <3> DEFINE r == s \ {x, some(s)}
    <3>1. SumFunctionOnSet(q, s \ {some(s)}) = q[x] + SumFunctionOnSet(q, r)
      <4>1. s \ {some(s)} \in Q /\ x \in s \ {some(s)} /\ (s \ {some(s)}) \ {x} = r
        BY <1>1, <2>1, <2>3
      <4> QED
        BY <4>1
    <3>2. SumFunctionOnSet(q, s \ {x}) = q[some(s)] + SumFunctionOnSet(q, r)
      <4>1. s \ {x} \in Q /\ some(s) \in s \ {x} /\ (s \ {x}) \ {some(s)} = r
        BY <1>1, <2>1, <2>3
      <4> QED
        BY <4>1
    <3>3. SumFunctionOnSet(q, r) \in Nat
      <4>1. IsFiniteSet(r)
        BY FS_Subset
      <4> QED
        BY <4>1, SumNat
    <3>4. q[x] \in Nat /\ q[some(s)] \in Nat
      BY <2>1
    <3> HIDE DEF r
    <3> QED
      BY <2>2, <3>1, <3>2, <3>3, <3>4
  <2> QED
    BY <2>2, <2>3
<1>2. Q = SUBSET S
  <2>1. Q \in SUBSET (SUBSET S)
    OBVIOUS
  <2> HIDE DEF Q
  <2> QED
    BY <1>1, <2>1, SubsetInduction
<1> QED
  BY <1>2

\* A sum depends on what is added up.
LEMMA SumSame ==
  ASSUME NEW q, NEW r, NEW S, IsFiniteSet(S), \A x \in S : q[x] = r[x]
  PROVE  SumFunctionOnSet(q, S) = SumFunctionOnSet(r, S)
<1> DEFINE Q == {s \in SUBSET S : SumFunctionOnSet(q, s) = SumFunctionOnSet(r, s)}
<1>1. ASSUME NEW s \in SUBSET S, \A x \in s : s \ {x} \in Q PROVE s \in Q
  <2>1. IsFiniteSet(s)
    BY FS_Subset
  <2>2. CASE s = {}
    <3>1. SumFunctionOnSet(q, {}) = 0 /\ SumFunctionOnSet(r, {}) = 0
      BY FS_EmptySet, SumSome
    <3> QED
      BY <2>2, <3>1
  <2>3. CASE s # {}
    <3>1. some(s) \in s
      BY <2>3, SomeIsThere
    <3>2. s \ {some(s)} \in Q /\ q[some(s)] = r[some(s)]
      BY <1>1, <3>1
    <3> QED
      BY <2>1, <2>3, <3>2, SumSome
  <2> QED
    BY <2>2, <2>3
<1>2. Q = SUBSET S
  <2>1. Q \in SUBSET (SUBSET S)
    OBVIOUS
  <2> HIDE DEF Q
  <2> QED
    BY <1>1, <2>1, SubsetInduction
<1> QED
  BY <1>2

\* One of the numbers changes.
LEMMA SumChange ==
  ASSUME NEW q, NEW r, NEW S, IsFiniteSet(S), NEW x \in S,
         \A y \in S : q[y] \in Nat /\ r[y] \in Nat,
         \A y \in S \ {x} : q[y] = r[y]
  PROVE  /\ SumFunctionOnSet(q, S) \in Nat /\ SumFunctionOnSet(r, S) \in Nat
         /\ SumFunctionOnSet(r, S) + q[x] = SumFunctionOnSet(q, S) + r[x]
<1> DEFINE R == S \ {x}
<1>1. SumFunctionOnSet(q, S) = q[x] + SumFunctionOnSet(q, R)
  BY SumWithout
<1>2. SumFunctionOnSet(r, S) = r[x] + SumFunctionOnSet(r, R)
  BY SumWithout
<1>3. IsFiniteSet(R) /\ \A y \in R : q[y] \in Nat /\ q[y] = r[y]
  BY FS_RemoveElement
<1>4. q[x] \in Nat /\ r[x] \in Nat
  OBVIOUS
<1> HIDE DEF R
<1>5. SumFunctionOnSet(q, R) = SumFunctionOnSet(r, R)
  BY <1>3, SumSame
<1>6. SumFunctionOnSet(q, R) \in Nat
  BY <1>3, SumNat
<1> QED
  BY <1>1, <1>2, <1>4, <1>5, <1>6

\* No number is more than the sum.
LEMMA SumAtLeast ==
  ASSUME NEW q, NEW S, IsFiniteSet(S), NEW x \in S, \A y \in S : q[y] \in Nat
  PROVE  q[x] <= SumFunctionOnSet(q, S)
<1>1. SumFunctionOnSet(q, S) = q[x] + SumFunctionOnSet(q, S \ {x})
  BY SumWithout
<1>2. IsFiniteSet(S \ {x}) /\ \A y \in S \ {x} : q[y] \in Nat
  BY FS_RemoveElement
<1>3. SumFunctionOnSet(q, S \ {x}) \in Nat
  BY <1>2, SumNat
<1> QED
  BY <1>1, <1>3

\* A sum of zeroes is zero.
LEMMA SumZero ==
  ASSUME NEW q, NEW S, IsFiniteSet(S), \A x \in S : q[x] = 0
  PROVE  SumFunctionOnSet(q, S) = 0
<1> DEFINE Q == {s \in SUBSET S : SumFunctionOnSet(q, s) = 0}
<1>1. ASSUME NEW s \in SUBSET S, \A x \in s : s \ {x} \in Q PROVE s \in Q
  <2>1. IsFiniteSet(s)
    BY FS_Subset
  <2>2. CASE s = {}
    <3>1. SumFunctionOnSet(q, {}) = 0
      BY FS_EmptySet, SumSome
    <3> QED
      BY <2>2, <3>1
  <2>3. CASE s # {}
    <3>1. some(s) \in s
      BY <2>3, SomeIsThere
    <3>2. s \ {some(s)} \in Q /\ q[some(s)] = 0
      BY <1>1, <3>1
    <3> QED
      BY <2>1, <2>3, <3>2, SumSome
  <2> QED
    BY <2>2, <2>3
<1>2. Q = SUBSET S
  <2>1. Q \in SUBSET (SUBSET S)
    OBVIOUS
  <2> HIDE DEF Q
  <2> QED
    BY <1>1, <2>1, SubsetInduction
<1> QED
  BY <1>2

\* A sum of smaller numbers is not larger.
LEMMA SumLess ==
  ASSUME NEW q, NEW r, NEW S, IsFiniteSet(S),
         \A x \in S : q[x] \in Nat /\ r[x] \in Nat /\ r[x] <= q[x]
  PROVE  SumFunctionOnSet(r, S) <= SumFunctionOnSet(q, S)
<1> DEFINE Q == {s \in SUBSET S : SumFunctionOnSet(r, s) <= SumFunctionOnSet(q, s)}
<1>1. ASSUME NEW s \in SUBSET S, \A x \in s : s \ {x} \in Q PROVE s \in Q
  <2>1. IsFiniteSet(s)
    BY FS_Subset
  <2>2. CASE s = {}
    <3>1. SumFunctionOnSet(q, {}) = 0 /\ SumFunctionOnSet(r, {}) = 0
      BY FS_EmptySet, SumSome
    <3> QED
      BY <2>2, <3>1
  <2>3. CASE s # {}
    <3> DEFINE x == some(s)
               t == s \ {x}
    <3>1. x \in s /\ x \in S
      BY <2>3, SomeIsThere
    <3>2. t \in Q /\ q[x] \in Nat /\ r[x] \in Nat /\ r[x] <= q[x]
      BY <1>1, <3>1
    <3>3. SumFunctionOnSet(q, t) \in Nat /\ SumFunctionOnSet(r, t) \in Nat
      <4>1. IsFiniteSet(t) /\ t \subseteq S
        BY FS_Subset
      <4> HIDE DEF t
      <4> QED
        BY <4>1, SumNat
    <3>4. /\ SumFunctionOnSet(q, s) = q[x] + SumFunctionOnSet(q, t)
          /\ SumFunctionOnSet(r, s) = r[x] + SumFunctionOnSet(r, t)
      BY <2>1, <2>3, SumSome
    <3> HIDE DEF x, t
    <3> QED
      BY <3>2, <3>3, <3>4
  <2> QED
    BY <2>2, <2>3
<1>2. Q = SUBSET S
  <2>1. Q \in SUBSET (SUBSET S)
    OBVIOUS
  <2> HIDE DEF Q
  <2> QED
    BY <1>1, <2>1, SubsetInduction
<1> QED
  BY <1>2

\* One number changes, and the others become no larger.
LEMMA SumMoves ==
  ASSUME NEW q, NEW r, NEW S, IsFiniteSet(S), NEW x \in S,
         \A y \in S : q[y] \in Nat /\ r[y] \in Nat,
         \A y \in S \ {x} : r[y] <= q[y]
  PROVE  /\ SumFunctionOnSet(q, S) \in Nat /\ SumFunctionOnSet(r, S) \in Nat
         /\ SumFunctionOnSet(r, S) + q[x] <= SumFunctionOnSet(q, S) + r[x]
<1> DEFINE R == S \ {x}
<1>1. SumFunctionOnSet(q, S) = q[x] + SumFunctionOnSet(q, R)
  BY SumWithout
<1>2. SumFunctionOnSet(r, S) = r[x] + SumFunctionOnSet(r, R)
  BY SumWithout
<1>3. IsFiniteSet(R) /\ \A y \in R : q[y] \in Nat /\ r[y] \in Nat /\ r[y] <= q[y]
  BY FS_RemoveElement
<1>4. q[x] \in Nat /\ r[x] \in Nat
  OBVIOUS
<1> HIDE DEF R
<1>5. SumFunctionOnSet(r, R) <= SumFunctionOnSet(q, R)
  BY <1>3, SumLess
<1>6. SumFunctionOnSet(q, R) \in Nat /\ SumFunctionOnSet(r, R) \in Nat
  BY <1>3, SumNat
<1> QED
  BY <1>1, <1>2, <1>4, <1>5, <1>6
-----------------------------------------------------------------------------
(* The loop of match comes to an end *)

(***************************************************************************)
(* While there is something left to match, and an order on the other side, *)
(* the queue has a best one: the comparator never leaves match without an  *)
(* order to look at, whatever prices, owners and times are equal.          *)
(***************************************************************************)
MatchGoesOn ==
  matching /\ taker.quantity > 0 /\ opposite # {} => \E maker \in opposite : isBest(maker)

(***************************************************************************)
(* A pass of match that is not its last leaves less to match.              *)
(***************************************************************************)
PassesMatchSomething ==
  [][matching => ~matching' \/ taker'.quantity < taker.quantity]_pairVars

FiniteInv == IsFiniteSet(queue) /\ IsFiniteSet(aside)

\* The comparator puts the orders of one side in a strict order.
LEMMA PrecedesIsStrict ==
  ASSUME PairTypeOK, NEW a \in opposite, NEW b \in opposite, NEW c \in opposite
  PROVE  /\ ~Precedes(a, a)
         /\ Precedes(a, b) /\ Precedes(b, c) => Precedes(a, c)
<1>1. /\ book[a].price \in Nat /\ book[b].price \in Nat /\ book[c].price \in Nat
      /\ book[a].createdAt \in Nat /\ book[b].createdAt \in Nat /\ book[c].createdAt \in Nat
      /\ book[a].isBuy = book[b].isBuy /\ book[b].isBuy = book[c].isBuy
      /\ a \in Ids /\ b \in Ids /\ c \in Ids
  BY DEF PairTypeOK, opposite, Takers
<1> QED
  BY <1>1, IdsAssumption DEF Precedes

LEMMA BestExists ==
  ASSUME PairTypeOK, IsFiniteSet(opposite), opposite # {}
  PROVE  \E maker \in opposite : isBest(maker)
<1> DEFINE HasBest(s) == \E best \in s : \A id \in s : ~Precedes(id, best)
<1> DEFINE Q == {s \in SUBSET opposite : s # {} => HasBest(s)}
<1>1. ASSUME NEW s \in SUBSET opposite, \A x \in s : s \ {x} \in Q, s # {}
      PROVE  HasBest(s)
  <2>1. PICK x \in s : TRUE
    BY <1>1
  <2>2. \A id \in s : id \in opposite
    BY <1>1
  <2>3. CASE s \ {x} = {}
    BY <2>1, <2>2, <2>3, PrecedesIsStrict
  <2>4. CASE s \ {x} # {}
    <3>1. PICK best \in s \ {x} : \A id \in s \ {x} : ~Precedes(id, best)
      BY <1>1, <2>1, <2>4
    <3>2. CASE ~Precedes(x, best)
      BY <3>1, <3>2
    <3>3. CASE Precedes(x, best)
      BY <2>1, <2>2, <3>1, <3>3, PrecedesIsStrict
    <3> QED BY <3>2, <3>3
  <2> QED BY <2>3, <2>4
<1>2. \A s \in SUBSET opposite : (\A x \in s : s \ {x} \in Q) => s \in Q
  BY <1>1
<1>3. Q \in SUBSET (SUBSET opposite)
  OBVIOUS
<1>4. Q = SUBSET opposite
  <2> HIDE DEF Q
  <2> QED BY <1>2, <1>3, SubsetInduction
<1>5. HasBest(opposite)
  BY <1>4
<1> QED
  BY <1>5 DEF isBest

\* Orders enter the queue one at a time, or come back from where they are put aside.
LEMMA FiniteStep ==
  ASSUME FiniteInv, [PairNext]_pairVars
  PROVE  FiniteInv'
<1>1. \/ queue' \subseteq queue /\ aside' \subseteq aside
      \/ \E id \in Ids : queue' = queue \cup {id} /\ aside' = aside
      \/ \E id \in Ids : queue' \subseteq queue /\ aside' = aside \cup {id}
      \/ queue' = queue \cup aside /\ aside' = {}
  <2>1. CASE \E id \in Ids : PairAdds(id) \/ PairRemoves(id) \/ PeerReturns(id)
    BY <2>1 DEF PairAdds, PeerReturns, enters, addOrder, PairRemoves, removeOrder
  <2>2. CASE PeerDrops \/ (\E id \in OwnIds : PairHolds(id)) \/ PairMatches
    BY <2>2 DEF PeerDrops, removePeerOrders, PairHolds, PairMatches, Match, startsMatch
  <2>3. CASE MatchSteps
    BY <2>3 DEF MatchSteps, MatchFully, MatchAvailable, MatchPart, MatchThrows, MatchEnds
  <2>4. CASE UNCHANGED pairVars
    BY <2>4 DEF pairVars
  <2> QED BY <2>1, <2>2, <2>3, <2>4 DEF PairNext
<1> QED
  BY <1>1, FS_Subset, FS_AddElement, FS_Union, FS_EmptySet DEF FiniteInv

(***************************************************************************)
(* match never waits for an order it cannot find: as long as it has to go  *)
(* on there is an order that getOrdersPriorityQueueComparator puts first,  *)
(* for any orders.                                                         *)
(***************************************************************************)
THEOREM MatchIsNotStuck == PairSpec => []MatchGoesOn
<1>1. PairInit => FiniteInv
  BY FS_EmptySet DEF PairInit, FiniteInv
<1>2. FiniteInv /\ [PairNext]_pairVars => FiniteInv'
  BY FiniteStep
<1>3. PairTypeOK /\ FiniteInv => MatchGoesOn
  <2>1. FiniteInv => IsFiniteSet(opposite)
    BY FS_Subset DEF FiniteInv, opposite
  <2> QED BY <2>1, BestExists DEF MatchGoesOn
<1> QED BY <1>1, <1>2, <1>3, PairTypeCorrect, PTL DEF PairSpec

(***************************************************************************)
(* Every pass of match hands out a quantity, or is the last one: with a    *)
(* taker order for q there are at most q passes that match something, and  *)
(* match, which blocks everything else in the process, returns.            *)
(***************************************************************************)
THEOREM MatchComesToAnEnd == PairSpec => PassesMatchSomething
<1> DEFINE Shrinks == matching => ~matching' \/ taker'.quantity < taker.quantity
<1>1. ASSUME PairIInv, NEW maker \in Ids, matches(maker)
      PROVE  taker'.quantity < taker.quantity
  <2> DEFINE q == matchingQuantity(maker)
  <2>1. q \in Nat /\ q <= taker.quantity /\ taker.quantity \in Nat /\ book[maker].price \in Nat
    BY <1>1, MatchingQuantityBounds DEF PairIInv, PairTypeOK, Takers
  <2>2. /\ q * book[maker].price >= DustLimit * Unit
        /\ taker' = [taker EXCEPT !.quantity = @ - q]
    BY <1>1 DEF matches
  <2>3. taker'.quantity = taker.quantity - q
    BY <1>1, <2>2 DEF PairIInv, PairTypeOK, Takers
  <2> HIDE DEF q
  <2>4. q # 0
    <3>1. \A a \in Nat \ {0}, b \in Nat \ {0} : a * b \in Nat /\ a * b > 0
      OBVIOUS
    <3>2. DustLimit * Unit \in Nat /\ DustLimit * Unit > 0
      BY <3>1, NumbersAssumption
    <3>3. ASSUME q = 0 PROVE q * book[maker].price = 0
      BY <2>1, <3>3
    <3> QED BY <2>2, <3>2, <3>3
  <2> QED BY <2>1, <2>3, <2>4
<1>2. ASSUME PairIInv, PairNext PROVE Shrinks
  <2>1. CASE MatchSteps
    BY <1>1, <1>2, <2>1 DEF MatchSteps, MatchFully, MatchAvailable, MatchPart, MatchThrows, MatchEnds
  <2> QED BY <1>2, <2>1 DEF PairNext
<1> QED BY <1>2, PairInvariance, PTL DEF PairSpec, PassesMatchSomething
=============================================================================
