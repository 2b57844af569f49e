----------------------------- MODULE Place_proofs -----------------------------
(***************************************************************************)
(* That placing an order keeps count of it, offers no more of an order of  *)
(* a peer than the peer does, and offers a replaced order or the one that  *)
(* replaces it: for any peers, orders, quantities and number of retries.   *)
(***************************************************************************)
EXTENDS PlaceOrder, TradingPair_proofs

-----------------------------------------------------------------------------
(* The inductive invariant *)

Stages == {"none", "checking", "matching", "swapping", "rejected", "ended"}
PartStages == {"none", "filling", "starting", "swapping", "retrying"}
Parents == [call : Calls \cup {0}, maker : Ids]
CallRecords == [stage : Stages, quantity : Nat, remaining : Nat, parent : Parents,
                failed : [PeerIds -> Orders], invalid : SUBSET PeerIds]
PartRecords == [stage : PartStages, order : Orders]
Roots == [price : Nat, discard : BOOLEAN, replaced : SUBSET OwnIds]

\* placeOrder holds all of an order, or nothing: see CallMatches.
BookInv ==
  /\ PairTypeOK
  /\ HoldsCovered
  /\ \A id \in OwnIds : book[id].hold \in {0, book[id].quantity}

CallOK(r) == r \in CallRecords /\ \A p \in PeerIds : r.failed[p].hold = 0
CallsOK(cs) == DOMAIN cs = Calls /\ cs = [c \in Calls |-> cs[c]] /\ \A c \in Calls : CallOK(cs[c])
PartsOK(ps) ==
  /\ ps \in [Calls -> [Ids -> PartRecords]]
  /\ \A c \in Calls, p \in PeerIds : ps[c][p].order.hold = 0

CallsTyped ==
  /\ CallsOK(calls) /\ PartsOK(parts)
  /\ root \in Roots /\ timeUp \in BOOLEAN
  /\ connected \subseteq PeerIds /\ late \subseteq PeerIds /\ told \in [PeerIds -> Nat]
  /\ counts \in [swapped : Nat, filled : Nat, placed : Nat, discarded : Nat]

\* A call that is a retry has a parent for which a part waits, and no part has
\* two calls; only the first call, and one whose failure is known, have none.
Links ==
  /\ \A c \in Calls : calls[c].parent # NoParent =>
       /\ calls[c].parent.call \in Calls
       /\ parts[calls[c].parent.call][calls[c].parent.maker].stage = "retrying"
  /\ \A c, d \in Calls : c # d /\ calls[c].parent # NoParent => calls[c].parent # calls[d].parent
  /\ calls[Root].parent = NoParent
  /\ \A c \in Calls \ {Root} : calls[c].parent = NoParent => calls[c].stage \in {"none", "rejected"}

\* Parts belong to calls that have matched, or match; one call at a time does.
Stagings ==
  /\ \A c \in Calls : calls[c].stage = "none" => calls[c] = NoCall
  /\ \A c \in Calls : calls[c].stage \in {"none", "checking", "ended"} =>
       \A m \in Ids : parts[c][m].stage = "none"
  /\ \A c \in Calls : calls[c].stage = "matching" =>
       matching /\ \A m \in Ids : parts[c][m].stage \in {"none", "filling", "starting"}
  /\ \A c, d \in Calls : calls[c].stage = "matching" /\ calls[d].stage = "matching" => c = d
  /\ calls[Root].stage = "none" => \A c \in Calls : calls[c].stage = "none"
  /\ \A c \in Calls \ {Root} : calls[c].stage # "ended"

CallsInv == CallsTyped /\ Stagings /\ Links

-----------------------------------------------------------------------------
(* The book *)

USE DEF Ids, Orders, NoOrder, live, available

LEMMA OrderFields ==
  ASSUME BookInv, NEW id \in Ids
  PROVE  /\ book[id] \in Orders /\ book[id].quantity \in Nat /\ book[id].hold \in Nat
         /\ book[id].price \in Nat /\ taker \in Takers /\ taker.quantity \in Nat
         /\ book[id].hold <= book[id].quantity
         /\ id \in PeerIds => book[id].hold = 0
BY DEF BookInv, PairTypeOK, HoldsCovered, Takers

LEMMA MatchingQuantity ==
  ASSUME BookInv, NEW maker \in Ids
  PROVE  /\ available(maker) \in Nat /\ matchingQuantity(maker) \in Nat
         /\ matchingQuantity(maker) <= available(maker)
         /\ matchingQuantity(maker) <= taker.quantity
         /\ available(maker) <= book[maker].quantity
         /\ matchingQuantity(maker) \in {0, taker.quantity, available(maker)}
<1>1. available(maker) \in Nat /\ available(maker) <= book[maker].quantity /\ taker.quantity \in Nat
  BY OrderFields
<1> HIDE DEF available
<1>2. CASE crosses(maker)
  BY <1>1, <1>2, LesserNat DEF matchingQuantity, Lesser
<1>3. CASE ~crosses(maker)
  BY <1>1, <1>3 DEF matchingQuantity
<1> QED BY <1>1, <1>2, <1>3

LEMMA Positive ==
  ASSUME NEW a \in Nat \ {0}, NEW b \in Nat \ {0}
  PROVE  a * b \in Nat \ {0}
OBVIOUS

\* What matches is worth a swap, so it is not on hold.
LEMMA WhatMatches ==
  ASSUME BookInv, NEW maker \in Ids, matches(maker)
  PROVE  /\ matchingQuantity(maker) > 0 /\ available(maker) > 0 /\ book[maker].quantity > 0
         /\ book[maker].hold = 0 /\ available(maker) = book[maker].quantity
<1>1. matchingQuantity(maker) # 0
  <2>1. DustLimit * Unit \in Nat \ {0}
    BY Positive, NumbersAssumption
  <2>2. matchingQuantity(maker) * book[maker].price >= DustLimit * Unit
    BY DEF matches
  <2> SUFFICES ASSUME matchingQuantity(maker) = 0 PROVE FALSE
    OBVIOUS
  <2>3. 0 * book[maker].price = 0
    BY OrderFields
  <2> QED BY <2>1, <2>2, <2>3
<1>2. matchingQuantity(maker) > 0 /\ available(maker) > 0 /\ book[maker].quantity > 0
  BY <1>1, MatchingQuantity, OrderFields
<1>3. book[maker].hold = 0
  <2>1. CASE maker \in OwnIds
    BY <2>1, <1>2, OrderFields DEF BookInv
  <2> QED BY <2>1, OrderFields
<1> QED BY <1>2, <1>3, OrderFields

\* The book and the queue change, and what is in the book is well formed.
LEMMA BookChanges ==
  ASSUME BookInv, PairTypeOK',
         \A id \in Ids : \/ book'[id] = book[id]
                         \/ book'[id].hold = 0
                         \/ id \in OwnIds /\ book'[id].hold = book'[id].quantity
  PROVE  BookInv'
<1>1. \A id \in Ids : book'[id].hold \in Nat /\ book'[id].quantity \in Nat
  BY DEF PairTypeOK
<1>2. HoldsCovered'
  BY <1>1, IdsAssumption DEF BookInv, HoldsCovered
<1>3. \A id \in OwnIds : book'[id].hold \in {0, book'[id].quantity}
  BY DEF BookInv
<1> QED BY <1>2, <1>3 DEF BookInv

\* An order enters the book.
LEMMA AddsBook ==
  ASSUME BookInv, NEW id \in Ids, NEW quantity \in Quantities, NEW price \in Prices,
         NEW time \in Times, NEW isBuy \in BOOLEAN,
         addOrder(id, Stamped(isBuy, price, time, quantity)),
         offered' = [offered EXCEPT ![id] = quantity], UNCHANGED matchVars
  PROVE  BookInv'
<1> DEFINE order == Stamped(isBuy, price, time, quantity)
<1>1. order \in Orders /\ order.hold = 0
  BY NumbersAssumption DEF Stamped
<1> HIDE DEF order
<1>2. book' = [book EXCEPT ![id] = order] /\ queue' = queue \cup {id}
  BY DEF addOrder, order
<1>3. PairTypeOK'
  BY <1>1, <1>2, NumbersAssumption DEF BookInv, PairTypeOK, matchVars
<1>4. \A other \in Ids : book'[other] = book[other] \/ book'[other].hold = 0
  BY <1>1, <1>2 DEF BookInv, PairTypeOK
<1> QED BY <1>3, <1>4, BookChanges

\* Part of an order that nothing of is on hold, or all of it.
LEMMA RestOfOrder ==
  ASSUME NEW order \in Orders, NEW quantity \in Nat,
         quantity > 0, keepsHold(order, quantity),
         order.hold = 0 \/ quantity = order.quantity
  PROVE  /\ rest(order, quantity) \in Orders /\ rest(order, quantity).hold = 0
         /\ rest(order, quantity) = NoOrder \/ rest(order, quantity).quantity = order.quantity - quantity
         /\ quantity >= order.quantity => rest(order, quantity) = NoOrder
<1>1. CASE quantity < order.quantity /\ Swappable(order.quantity - quantity, order.price)
  <2>1. rest(order, quantity) = [order EXCEPT !.quantity = @ - quantity]
    BY <1>1 DEF rest
  <2> QED BY <1>1, <2>1
<1>2. CASE ~(quantity < order.quantity /\ Swappable(order.quantity - quantity, order.price))
  <2>1. rest(order, quantity) = NoOrder
    BY <1>2 DEF rest
  <2> QED BY <2>1, NoOrderIsOrder
<1> QED BY <1>1, <1>2

LEMMA RemovesBook ==
  ASSUME BookInv, NEW id \in Ids, NEW quantity \in Nat, quantity > 0,
         removeOrder(id, quantity), UNCHANGED <<matchVars, offered>>,
         id \in PeerIds \/ quantity = book[id].quantity
  PROVE  BookInv' /\ book' = [book EXCEPT ![id] = remainder(id, quantity)]
<1> DEFINE left == remainder(id, quantity)
<1>1. left \in Orders /\ left.hold = 0
  <2>1. /\ book[id] \in Orders /\ keepsHold(book[id], quantity)
        /\ book[id].hold = 0 \/ quantity = book[id].quantity
    BY OrderFields DEF removeOrder, canRemove
  <2> HIDE DEF Orders
  <2> QED BY <2>1, RestOfOrder DEF remainder
<1>2. book' = [book EXCEPT ![id] = left] /\ queue' \in {queue, queue \ {id}}
  BY DEF removeOrder
<1> HIDE DEF left
<1>3. PairTypeOK'
  BY <1>1, <1>2 DEF BookInv, PairTypeOK, matchVars
<1>4. \A other \in Ids : book'[other] = book[other] \/ book'[other].hold = 0
  BY <1>1, <1>2 DEF BookInv, PairTypeOK
<1> QED BY <1>2, <1>3, <1>4, BookChanges DEF left

\* Some orders leave the book.
LEMMA DropsBook ==
  ASSUME BookInv, NEW ids \in SUBSET Ids,
         book' = [id \in Ids |-> IF id \in ids THEN NoOrder ELSE book[id]],
         queue' \subseteq queue, UNCHANGED <<matchVars, offered>>
  PROVE  BookInv'
<1>1. PairTypeOK'
  BY NoOrderIsOrder DEF BookInv, PairTypeOK, matchVars
<1>2. \A id \in Ids : book'[id] = book[id] \/ book'[id].hold = 0
  OBVIOUS
<1> QED BY <1>1, <1>2, BookChanges

\* The replaced order is put on hold, and match starts.
LEMMA MatchesBook ==
  ASSUME BookInv, CallsTyped, NEW c \in Calls, CallMatches(c)
  PROVE  BookInv'
<1>1. replacedBy(c) \subseteq OwnIds /\ root.price \in Nat /\ calls[c].quantity \in Nat
  BY DEF CallsTyped, CallsOK, CallOK, Roots, CallRecords, replacedBy
<1>2. \A id \in Ids : /\ book'[id] \in Orders
                      /\ \/ book'[id] = book[id]
                         \/ id \in OwnIds /\ book'[id].hold = book'[id].quantity
  BY <1>1, OrderFields DEF CallMatches
<1>3. DOMAIN book' = Ids /\ book' = [id \in Ids |-> book'[id]]
  BY DEF CallMatches
<1>4. PairTypeOK'
  <2> HIDE DEF Orders
  <2>1. book' \in [Ids -> Orders]
    BY <1>2, <1>3
  <2> QED BY <1>1, <2>1 DEF CallMatches, startsMatch, Takers, BookInv, PairTypeOK
<1> QED BY <1>2, <1>4, BookChanges

\* What a match does: the order of the maker is taken out of the book, or part
\* of it is, and then that was all that was wanted.
met(maker) ==
  /\ matches(maker)
  /\ book[maker].quantity > 0 /\ matchingQuantity(maker) \in Nat \ {0}
  /\ matchingQuantity(maker) <= book[maker].quantity
  /\ taker' = [taker EXCEPT !.quantity = @ - matchingQuantity(maker)]
  /\ matching' = matching /\ offered' = offered
  /\ \/ book' = [book EXCEPT ![maker] = NoOrder]
     \/ /\ book' = [book EXCEPT ![maker].quantity = @ - matchingQuantity(maker)]
        /\ taker'.quantity = 0

LEMMA MeetsBook ==
  ASSUME BookInv, NEW maker \in Ids,
         MatchFully(maker) \/ MatchAvailable(maker) \/ MatchPart(maker)
  PROVE  BookInv' /\ met(maker)
<1> DEFINE q == matchingQuantity(maker)
<1>1. /\ matches(maker) /\ q \in Nat \ {0} /\ q <= book[maker].quantity
      /\ available(maker) = book[maker].quantity
      /\ book[maker].hold = 0 /\ book[maker] \in Orders /\ q \in {taker.quantity, available(maker)}
      /\ taker \in Takers
  <2>1. matches(maker)
    BY DEF MatchFully, MatchAvailable, MatchPart
  <2> QED BY <2>1, WhatMatches, MatchingQuantity, OrderFields
<1>2. /\ taker' = [taker EXCEPT !.quantity = @ - q] /\ matched' = [matched EXCEPT ![maker] = @ + q]
      /\ q <= taker.quantity
  BY <1>1, MatchingQuantity DEF matches
<1>3. UNCHANGED <<matching, aside, offered, takers>>
  BY <1>1 DEF MatchFully, MatchAvailable, MatchPart
<1>4. taker' \in Takers /\ matched' \in [Ids -> Nat]
  <2> HIDE DEF q
  <2> QED BY <1>1, <1>2 DEF Takers, BookInv, PairTypeOK
<1>5. CASE book' = [book EXCEPT ![maker] = NoOrder] /\ queue' = queue \ {maker}
  <2>1. PairTypeOK'
    BY <1>3, <1>4, <1>5, NoOrderIsOrder DEF BookInv, PairTypeOK
  <2>2. \A id \in Ids : book'[id] = book[id] \/ book'[id].hold = 0
    BY <1>5 DEF BookInv, PairTypeOK
  <2>3. BookInv'
    BY <2>1, <2>2, BookChanges
  <2> QED BY <1>1, <1>2, <1>3, <1>5, <2>3 DEF met
<1>6. CASE book' = [book EXCEPT ![maker].quantity = @ - q] /\ queue' = queue /\ q < available(maker)
  <2>1. q = taker.quantity /\ taker'.quantity = 0
    <3> HIDE DEF q
    <3> QED BY <1>1, <1>2, <1>6 DEF Takers
  <2>2. [book[maker] EXCEPT !.quantity = @ - q] \in Orders
    <3> HIDE DEF q
    <3> QED BY <1>1, <1>6
  <2>3. PairTypeOK'
    <3> HIDE DEF q, Orders
    <3> QED BY <1>3, <1>4, <1>6, <2>2 DEF BookInv, PairTypeOK
  <2>4. \A id \in Ids : book'[id] = book[id] \/ book'[id].hold = 0
    <3> HIDE DEF q
    <3> QED BY <1>1, <1>6 DEF BookInv, PairTypeOK
  <2>5. BookInv'
    BY <2>3, <2>4, BookChanges
  <2> QED BY <1>1, <1>2, <1>3, <1>6, <2>1, <2>5 DEF met
<1> QED BY <1>1, <1>5, <1>6 DEF MatchFully, MatchAvailable, MatchPart

LEMMA SwapsBook ==
  ASSUME BookInv, MatchEnds
  PROVE  BookInv'
<1>1. PairTypeOK'
  BY DEF MatchEnds, BookInv, PairTypeOK, Takers, NoTaker
<1> QED BY <1>1, BookChanges DEF MatchEnds

\* The end of a call.
LEMMA PutsBackBook ==
  ASSUME BookInv, CallsTyped, NEW c \in Calls, NEW released, NEW placed,
         putsBack(c, released, placed),
         \A id \in Ids : /\ released[id] \in Orders
                         /\ released[id] = book[id] \/ released[id].hold = 0,
         DOMAIN placed \subseteq Ids,
         \A id \in DOMAIN placed : placed[id] \in Orders /\ placed[id].hold = 0,
         offered' \in [Ids -> Nat], UNCHANGED matchVars
  PROVE  BookInv'
<1>1. returning(c) \subseteq PeerIds
  BY DEF returning
<1>2. \A p \in PeerIds : calls[c].failed[p] \in Orders /\ calls[c].failed[p].hold = 0
  BY DEF CallsTyped, CallsOK, CallOK, CallRecords
<1>3. \A id \in Ids : /\ book'[id] \in Orders
                      /\ book'[id] = book[id] \/ book'[id].hold = 0
  BY <1>1, <1>2 DEF putsBack
<1>4. book' \in [Ids -> Orders] /\ queue' \subseteq Ids
  <2>1. book' = [id \in Ids |-> book'[id]]
    BY DEF putsBack
  <2>2. queue' \subseteq Ids
    BY <1>1 DEF putsBack, BookInv, PairTypeOK
  <2> HIDE DEF Orders
  <2> QED BY <1>3, <2>1, <2>2
<1>5. PairTypeOK'
  BY <1>4 DEF BookInv, PairTypeOK, matchVars
<1> QED BY <1>3, <1>5, BookChanges

rootPlaces == /\ ~root.discard /\ calls[Root].remaining > 0
              /\ Swappable(calls[Root].remaining, root.price)
rootOrder == [isBuy |-> TRUE, price |-> root.price, createdAt |-> 0,
              quantity |-> calls[Root].remaining, hold |-> 0]
rootReleased == [id \in Ids |-> IF id \notin root.replaced THEN book[id]
                                ELSE IF rootPlaces \/ calls[Root].remaining = 0 THEN NoOrder
                                ELSE [book[id] EXCEPT !.hold = 0]]
rootPlaced == IF rootPlaces THEN [id \in {NewId} |-> rootOrder] ELSE <<>>

LEMMA RootEndsBook ==
  ASSUME BookInv, CallsTyped, RootEnds
  PROVE  /\ BookInv'
         /\ putsBack(Root, rootReleased, rootPlaced)
         /\ DOMAIN rootPlaced = IF rootPlaces THEN {NewId} ELSE {}
         /\ offered' = [offered EXCEPT ![NewId] = IF rootPlaces THEN calls[Root].remaining ELSE @]
<1>1. /\ putsBack(Root, rootReleased, rootPlaced)
      /\ offered' = [offered EXCEPT ![NewId] = IF rootPlaces THEN calls[Root].remaining ELSE @]
      /\ UNCHANGED matchVars
  BY DEF RootEnds, rootReleased, rootPlaced, rootOrder, rootPlaces
<1>2. Root \in Calls /\ calls[Root].remaining \in Nat /\ root.price \in Nat
  BY PlaceOrderAssumption DEF CallsTyped, CallsOK, CallOK, CallRecords, Roots, Root, Calls
<1>3. rootOrder \in Orders /\ rootOrder.hold = 0
  BY <1>2 DEF rootOrder
<1>4. DOMAIN rootPlaced = IF rootPlaces THEN {NewId} ELSE {}
  BY DEF rootPlaced
<1>5. \A id \in DOMAIN rootPlaced : rootPlaced[id] \in Orders /\ rootPlaced[id].hold = 0
  <2> HIDE DEF Orders
  <2> QED BY <1>3, <1>4 DEF rootPlaced
<1>6. \A id \in Ids : /\ rootReleased[id] \in Orders
                      /\ rootReleased[id] = book[id] \/ rootReleased[id].hold = 0
  <2> SUFFICES ASSUME NEW id \in Ids
               PROVE  /\ rootReleased[id] \in Orders
                      /\ rootReleased[id] = book[id] \/ rootReleased[id].hold = 0
    OBVIOUS
  <2>1. book[id] \in Orders /\ NoOrder \in Orders
    BY OrderFields, NoOrderIsOrder
  <2>2. [book[id] EXCEPT !.hold = 0] \in Orders /\ [book[id] EXCEPT !.hold = 0].hold = 0
    BY <2>1
  <2>3. rootReleased[id] \in {book[id], NoOrder, [book[id] EXCEPT !.hold = 0]}
    BY DEF rootReleased
  <2>4. NoOrder.hold = 0
    OBVIOUS
  <2> HIDE DEF Orders, NoOrder
  <2> QED BY <2>1, <2>2, <2>3, <2>4
<1>7. DOMAIN rootPlaced \subseteq Ids /\ offered' \in [Ids -> Nat]
  BY <1>1, <1>2, <1>4, PlaceOrderAssumption DEF BookInv, PairTypeOK
<1>8. BookInv'
  <2> HIDE DEF Orders, NoOrder
  <2> QED BY <1>1, <1>2, <1>5, <1>6, <1>7, PutsBackBook
<1> QED BY <1>1, <1>4, <1>8

LEMMA RetryEndsBook ==
  ASSUME BookInv, CallsTyped, NEW c \in Calls, RetryEnds(c)
  PROVE  BookInv'
<1>1. putsBack(c, book, <<>>) /\ UNCHANGED <<matchVars, offered>>
  BY DEF RetryEnds
<1>2. offered' \in [Ids -> Nat] /\ DOMAIN <<>> = {}
  BY <1>1 DEF BookInv, PairTypeOK
<1>3. \A id \in Ids : book[id] \in Orders
  BY OrderFields
<1> QED BY <1>1, <1>2, <1>3, PutsBackBook

\* The steps that the book has no part in.
LEMMA BookStays ==
  ASSUME BookInv, UNCHANGED pairVars
  PROVE  BookInv'
<1>1. PairTypeOK'
  BY DEF BookInv, PairTypeOK, pairVars
<1> QED BY <1>1, BookChanges DEF pairVars

LEMMA BookStep ==
  ASSUME BookInv, CallsTyped, PlaceNext
  PROVE  BookInv'
<1>1. CASE Environment
  <2>1. ASSUME NEW p \in PeerIds, PeerOffers(p) PROVE BookInv'
    BY <2>1, AddsBook DEF PeerOffers
  <2>2. ASSUME NEW p \in PeerIds, PeerCloses(p) PROVE BookInv'
    BY <2>2, DropsBook DEF PeerCloses, removePeerOrders
  <2>3. ASSUME NEW p \in PeerIds, NEW quantity \in withdrawals(p), PeerInvalidates(p, quantity)
        PROVE  BookInv'
    <3>1. quantity \in Nat /\ quantity > 0
      BY <2>3, PlaceOrderAssumption DEF withdrawals, PeerInvalidates, CallsTyped
    <3>2. UNCHANGED <<matchVars, offered>>
      BY <2>3 DEF PeerInvalidates
    <3>3. CASE removeOrder(p, quantity)
      BY <3>1, <3>2, <3>3, RemovesBook
    <3>4. CASE UNCHANGED <<book, queue>>
      BY <3>2, <3>4, BookStays DEF pairVars, matchVars
    <3> QED BY <2>3, <3>3, <3>4 DEF PeerInvalidates
  <2>4. ASSUME NEW id \in OwnIds, OwnOffers(id) PROVE BookInv'
    BY <2>4, AddsBook DEF OwnOffers
  <2>5. ASSUME NEW id \in OwnIds, OwnCancels(id) PROVE BookInv'
    <3>1. /\ removeOrder(id, book[id].quantity) /\ UNCHANGED <<matchVars, offered>>
          /\ book[id].quantity \in Nat /\ book[id].quantity > 0
      BY <2>5, OrderFields DEF OwnCancels
    <3> QED BY <3>1, RemovesBook
  <2>6. CASE (\E p \in PeerIds : PeerReopens(p)) \/ Places \/ TimePasses
    BY <2>6, BookStays DEF PeerReopens, Places, TimePasses
  <2> QED BY <1>1, <2>1, <2>2, <2>3, <2>4, <2>5, <2>6 DEF Environment
<1>2. CASE Proceeds
  <2>1. ASSUME NEW c \in Calls, CallMatches(c) PROVE BookInv'
    BY <2>1, MatchesBook
  <2>2. ASSUME NEW c \in Calls, NEW maker \in Ids, CallMeets(c, maker) PROVE BookInv'
    BY <2>2, MeetsBook DEF CallMeets
  <2>3. ASSUME NEW c \in Calls, CallSwaps(c) PROVE BookInv'
    BY <2>3, SwapsBook DEF CallSwaps
  <2>4. ASSUME NEW c \in Calls, NEW p \in PeerIds, SwapFails(c, p) PROVE BookInv'
    <3>1. /\ book' = [book EXCEPT ![p] = NoOrder] /\ queue' = queue \ {p}
          /\ UNCHANGED <<matchVars, offered>>
      BY <2>4 DEF SwapFails
    <3>2. book' = [id \in Ids |-> IF id \in {p} THEN NoOrder ELSE book[id]]
      BY <3>1 DEF BookInv, PairTypeOK
    <3> QED BY <3>1, <3>2, DropsBook
  <2>5. ASSUME NEW c \in Calls, RetryEnds(c) PROVE BookInv'
    BY <2>5, RetryEndsBook
  <2>6. CASE RootEnds
    BY <2>6, RootEndsBook
  <2>7. ASSUME NEW c \in Calls, CallRejects(c) \/ RetryRejects(c) \/ RetryForgotten(c) PROVE BookInv'
    BY <2>7, BookStays DEF CallRejects, RetryRejects, RetryForgotten
  <2>8. ASSUME NEW c \in Calls, NEW maker \in Ids,
               FillSaved(c, maker) \/ PartThrows(c, maker) \/ SwapStarts(c, maker)
                 \/ SwapSucceeds(c, maker) \/ SwapUnsaved(c, maker)
        PROVE BookInv'
    BY <2>8, BookStays DEF FillSaved, PartThrows, SwapStarts, SwapSucceeds, SwapUnsaved
  <2>9. ASSUME NEW c \in Calls, NEW p \in PeerIds, NEW accepted \in Parts, SwapPartly(c, p, accepted)
        PROVE BookInv'
    BY <2>9, BookStays DEF SwapPartly
  <2> QED BY <1>2, <2>1, <2>2, <2>3, <2>4, <2>5, <2>6, <2>7, <2>8, <2>9 DEF Proceeds
<1> QED BY <1>1, <1>2 DEF PlaceNext

-----------------------------------------------------------------------------
(* The types of the calls and their parts *)

LEMMA CallFields ==
  ASSUME CallsTyped, NEW c \in Calls
  PROVE  /\ CallOK(calls[c]) /\ calls[c] \in CallRecords
         /\ calls[c].stage \in Stages /\ calls[c].quantity \in Nat /\ calls[c].remaining \in Nat
         /\ calls[c].parent \in Parents /\ calls[c].failed \in [PeerIds -> Orders]
         /\ calls[c].invalid \subseteq PeerIds
BY DEF CallsTyped, CallsOK, CallOK, CallRecords

LEMMA PartFields ==
  ASSUME CallsTyped, NEW c \in Calls, NEW m \in Ids
  PROVE  /\ parts[c][m] \in PartRecords /\ parts[c][m].order \in Orders
         /\ parts[c][m].stage \in PartStages
         /\ parts[c][m].order.quantity \in Nat
         /\ m \in PeerIds => parts[c][m].order.hold = 0
BY DEF CallsTyped, PartsOK, PartRecords

HIDE DEF Orders, NoOrder, live, available

LEMMA NoOrderHasNothing == NoOrder \in Orders /\ NoOrder.hold = 0 /\ NoOrder.quantity = 0
BY DEF NoOrder, Orders

LEMMA RootIsCall == Root \in Calls /\ 0 \notin Calls /\ Calls \subseteq Nat /\ NewId \in Ids
BY PlaceOrderAssumption DEF Root, Calls

LEMMA NoCallOK == CallOK(NoCall) /\ NoParent \in Parents
<1>1. NoParent \in Parents
  BY RootIsCall DEF NoParent, Parents
<1>2. NoCall \in CallRecords
  BY <1>1, NoOrderHasNothing DEF NoCall, CallRecords, Stages
<1>3. \A p \in PeerIds : NoCall.failed[p].hold = 0
  BY NoOrderHasNothing DEF NoCall
<1> QED BY <1>1, <1>2, <1>3 DEF CallOK

LEMMA CallUpdates ==
  ASSUME NEW r, CallOK(r)
  PROVE  /\ \A stage \in Stages : CallOK([r EXCEPT !.stage = stage])
         /\ \A q \in Nat : CallOK([r EXCEPT !.quantity = q]) /\ CallOK([r EXCEPT !.remaining = q])
         /\ \A parent \in Parents : CallOK([r EXCEPT !.parent = parent])
         /\ \A failed \in [PeerIds -> Orders] :
              (\A p \in PeerIds : failed[p].hold = 0) => CallOK([r EXCEPT !.failed = failed])
         /\ \A peers \in SUBSET PeerIds : CallOK([r EXCEPT !.invalid = peers])
BY DEF CallOK, CallRecords

LEMMA CallChanges ==
  ASSUME NEW cs, CallsOK(cs), NEW c, NEW r, CallOK(r)
  PROVE  CallsOK([cs EXCEPT ![c] = r])
<1> DEFINE ds == [cs EXCEPT ![c] = r]
<1>1. \A d \in Calls : ds[d] = IF d = c THEN r ELSE cs[d]
  BY DEF CallsOK
<1>2. DOMAIN ds = Calls /\ ds = [d \in Calls |-> ds[d]]
  BY DEF CallsOK
<1> HIDE DEF ds
<1>3. CallsOK(ds)
  BY <1>1, <1>2 DEF CallsOK
<1> QED BY <1>3 DEF ds

LEMMA PartChanges ==
  ASSUME PartsOK(parts), NEW c, NEW m, NEW part \in PartRecords,
         m \in PeerIds => part.order.hold = 0
  PROVE  PartsOK([parts EXCEPT ![c][m] = part])
<1> DEFINE ps == [parts EXCEPT ![c][m] = part]
<1>1. ASSUME NEW d \in Calls
      PROVE  ps[d] \in [Ids -> PartRecords] /\ \A p \in PeerIds : ps[d][p].order.hold = 0
  <2>1. parts[d] \in [Ids -> PartRecords] /\ \A p \in PeerIds : parts[d][p].order.hold = 0
    BY DEF PartsOK
  <2>2. CASE d = c
    <3>1. ps[d] = [parts[d] EXCEPT ![m] = part]
      BY <2>2 DEF PartsOK
    <3> HIDE DEF ps
    <3> QED BY <2>1, <3>1
  <2>3. CASE d # c
    <3>1. ps[d] = parts[d]
      BY <2>3 DEF PartsOK
    <3> QED BY <2>1, <3>1
  <2> QED BY <2>2, <2>3
<1>2. ps = [d \in Calls |-> ps[d]]
  BY DEF PartsOK
<1> HIDE DEF ps
<1>3. PartsOK(ps)
  BY <1>1, <1>2 DEF PartsOK
<1> QED BY <1>3 DEF ps

LEMMA NoPartOK == NoPart \in PartRecords /\ NoPart.order.hold = 0 /\ NoPart.stage = "none"
BY NoOrderHasNothing DEF NoPart, PartRecords, PartStages

LEMMA EndsParts ==
  ASSUME PartsOK(parts), NEW c, NEW m, ends(c, m)
  PROVE  PartsOK(parts')
BY PartChanges, NoPartOK DEF ends

LEMMA PartStageOK ==
  ASSUME CallsTyped, NEW c \in Calls, NEW m \in Ids, NEW stage \in PartStages,
         parts' = [parts EXCEPT ![c][m].stage = stage]
  PROVE  PartsOK(parts')
<1> DEFINE part == [parts[c][m] EXCEPT !.stage = stage]
<1>1. part \in PartRecords /\ (m \in PeerIds => part.order.hold = 0)
  BY PartFields DEF PartRecords
<1>2. parts' = [parts EXCEPT ![c][m] = part]
  OBVIOUS
<1> HIDE DEF part
<1>3. PartsOK([parts EXCEPT ![c][m] = part])
  <2>1. PartsOK(parts)
    BY DEF CallsTyped
  <2> QED BY <1>1, <2>1, PartChanges
<1> QED BY <1>2, <1>3

LEMMA FirstFree ==
  ASSUME free # {}
  PROVE  Min(free) \in free /\ Min(free) \in Calls
<1>1. free \in SUBSET Nat
  BY RootIsCall DEF free
<1> DEFINE F == free
<1>2. \E m \in F : \A k \in F : m <= k
  BY <1>1, LeastNumber
<1>3. Min(F) \in F
  <2> HIDE DEF F
  <2> QED BY <1>2 DEF Min
<1> QED BY <1>3 DEF free

LEMMA UnmatchedNat == \A q \in Nat : unmatched(q) \in {0, q} /\ unmatched(q) \in Nat /\ q - unmatched(q) \in Nat
BY DEF unmatched

LEMMA CountedOK ==
  ASSUME CallsTyped, NEW swapped \in Nat, NEW discarded \in Nat, counted(swapped, discarded)
  PROVE  /\ counts' \in [swapped : Nat, filled : Nat, placed : Nat, discarded : Nat]
         /\ counts'.swapped = counts.swapped + swapped /\ counts'.filled = counts.filled
         /\ counts'.placed = counts.placed /\ counts'.discarded = counts.discarded + discarded
<1>1. counts \in [swapped : Nat, filled : Nat, placed : Nat, discarded : Nat]
  BY DEF CallsTyped
<1>2. /\ counts.swapped \in Nat /\ counts.discarded \in Nat
      /\ counts' = [counts EXCEPT !.swapped = @ + swapped, !.discarded = @ + discarded]
  BY <1>1 DEF counted
<1>3. counts.swapped + swapped \in Nat /\ counts.discarded + discarded \in Nat
  BY <1>2
<1>4. counts' = [counts EXCEPT !.swapped = counts.swapped + swapped,
                               !.discarded = counts.discarded + discarded]
  BY <1>2
<1> QED BY <1>1, <1>3, <1>4

LEMMA TradedOK ==
  ASSUME CallsTyped, NEW p \in PeerIds, NEW q \in Nat, traded(p, q)
  PROVE  /\ told' \in [PeerIds -> Nat]
         /\ \A other \in PeerIds : other # p => told'[other] = told[other]
         /\ told'[p] = IF q < told[p] THEN told[p] - q ELSE 0
<1>1. told \in [PeerIds -> Nat]
  BY DEF CallsTyped
<1> QED BY <1>1 DEF traded

LEMMA RejectsCalls ==
  ASSUME CallsTyped, NEW c \in Calls, rejects(c)
  PROVE  CallsOK(calls')
BY CallFields, CallUpdates, CallChanges DEF rejects, CallsTyped, Stages

\* The call that a failed part gets.
childOf(c, p, quantity) ==
  [NoCall EXCEPT !.stage = "checking", !.quantity = quantity, !.parent = [call |-> c, maker |-> p]]

LEMMA ChildOK ==
  ASSUME NEW c \in Calls, NEW p \in PeerIds, NEW quantity \in Nat
  PROVE  /\ CallOK(childOf(c, p, quantity))
         /\ childOf(c, p, quantity).parent = [call |-> c, maker |-> p]
         /\ childOf(c, p, quantity).stage = "checking"
         /\ childOf(c, p, quantity).quantity = quantity
         /\ childOf(c, p, quantity).failed = NoCall.failed
         /\ childOf(c, p, quantity).remaining = 0
         /\ [call |-> c, maker |-> p] # NoParent
<1>1. [call |-> c, maker |-> p] \in Parents /\ [call |-> c, maker |-> p] # NoParent
  BY RootIsCall DEF Parents, NoParent
<1> QED BY <1>1, NoCallOK DEF childOf, NoCall, CallOK, CallRecords, Stages

\* The three outcomes of retryFailedSwap.
retryRefused(c, p, failed) ==
  /\ calls' = [calls EXCEPT ![c].failed = failed, ![c].stage = "rejected"]
  /\ ends(c, p)
retryTooLate(c, p, quantity, failed) ==
  /\ calls' = [calls EXCEPT ![c].failed = failed, ![c].remaining = @ + unmatched(quantity)]
  /\ ends(c, p)
retryCalled(c, p, quantity, failed) ==
  /\ free # {}
  /\ calls' = [calls EXCEPT ![c].failed = failed, ![Min(free)] = childOf(c, p, quantity)]
  /\ parts' = [parts EXCEPT ![c][p].stage = "retrying"]

LEMMA RetryOutcomes ==
  ASSUME NEW c \in Calls, NEW p \in PeerIds, NEW quantity \in Nat, NEW swapped \in Nat,
         NEW failed \in [PeerIds -> Orders], CallsTyped,
         retryFailedSwap(c, p, quantity, failed, swapped)
  PROVE  \/ retryRefused(c, p, failed) /\ counted(swapped, 0)
         \/ /\ retryTooLate(c, p, quantity, failed)
            /\ counted(swapped, quantity - unmatched(quantity))
         \/ retryCalled(c, p, quantity, failed) /\ counted(swapped, 0)
BY DEF retryFailedSwap, retryRefused, retryTooLate, retryCalled, childOf

LEMMA RetryTypes ==
  ASSUME NEW c \in Calls, NEW p \in PeerIds, NEW quantity \in Nat, NEW swapped \in Nat,
         NEW failed \in [PeerIds -> Orders], \A peer \in PeerIds : failed[peer].hold = 0,
         CallsTyped, retryFailedSwap(c, p, quantity, failed, swapped)
  PROVE  /\ CallsOK(calls') /\ PartsOK(parts')
         /\ counts' \in [swapped : Nat, filled : Nat, placed : Nat, discarded : Nat]
<1>1. CallsOK(calls) /\ PartsOK(parts) /\ CallOK(calls[c]) /\ p \in Ids
  BY CallFields DEF CallsTyped, Ids
<1> DEFINE seen == [calls[c] EXCEPT !.failed = failed]
<1>2. CallOK(seen)
  BY <1>1, CallUpdates
<1>3. CASE retryRefused(c, p, failed) /\ counted(swapped, 0)
  <2> DEFINE r == [seen EXCEPT !.stage = "rejected"]
  <2>1. CallOK(r)
    BY <1>2, CallUpdates DEF Stages
  <2>2. calls' = [calls EXCEPT ![c] = r]
    BY <1>1, <1>3 DEF retryRefused, CallsOK
  <2> HIDE DEF r
  <2>3. CallsOK(calls')
    BY <1>1, <2>1, <2>2, CallChanges
  <2> QED BY <1>1, <1>3, <2>3, EndsParts, CountedOK DEF retryRefused
<1>4. CASE /\ retryTooLate(c, p, quantity, failed)
           /\ counted(swapped, quantity - unmatched(quantity))
  <2> DEFINE r == [seen EXCEPT !.remaining = @ + unmatched(quantity)]
  <2>1. CallOK(r)
    <3>1. seen.remaining + unmatched(quantity) \in Nat
      BY CallFields, UnmatchedNat
    <3> HIDE DEF seen
    <3> QED BY <1>2, <3>1, CallUpdates
  <2>2. calls' = [calls EXCEPT ![c] = r]
    BY <1>1, <1>4 DEF retryTooLate, CallsOK
  <2> HIDE DEF r
  <2>3. CallsOK(calls')
    BY <1>1, <2>1, <2>2, CallChanges
  <2> QED BY <1>1, <1>4, <2>3, EndsParts, CountedOK, UnmatchedNat DEF retryTooLate
<1>5. CASE retryCalled(c, p, quantity, failed) /\ counted(swapped, 0)
  <2>1. CallsOK([calls EXCEPT ![c] = seen])
    <3> HIDE DEF seen
    <3> QED BY <1>1, <1>2, CallChanges
  <2>2. calls' = [[calls EXCEPT ![c] = seen] EXCEPT ![Min(free)] = childOf(c, p, quantity)]
    BY <1>5 DEF retryCalled
  <2>3. CallsOK(calls')
    <3> HIDE DEF seen
    <3> QED BY <2>1, <2>2, CallChanges, ChildOK
  <2>4. PartsOK(parts')
    BY <1>1, <1>5, PartStageOK DEF retryCalled, PartStages
  <2> QED BY <1>5, <2>3, <2>4, CountedOK
<1> QED BY <1>3, <1>4, <1>5, RetryOutcomes

\* Nothing but book and peers changes.
RestTyped ==
  /\ root \in Roots /\ timeUp \in BOOLEAN
  /\ connected \subseteq PeerIds /\ late \subseteq PeerIds /\ told \in [PeerIds -> Nat]
  /\ counts \in [swapped : Nat, filled : Nat, placed : Nat, discarded : Nat]

LEMMA TypedParts == CallsTyped <=> CallsOK(calls) /\ PartsOK(parts) /\ RestTyped
BY DEF CallsTyped, RestTyped

LEMMA EnvironmentTyped ==
  ASSUME BookInv, CallsTyped, Environment
  PROVE  CallsTyped'
<1>1. ASSUME NEW p \in PeerIds, PeerOffers(p) PROVE CallsTyped'
  <2>1. told' \in [PeerIds -> Nat]
    BY <1>1, NumbersAssumption DEF PeerOffers, CallsTyped
  <2> QED BY <1>1, <2>1 DEF PeerOffers, callVars, CallsTyped
<1>2. ASSUME NEW p \in PeerIds, PeerCloses(p) PROVE CallsTyped'
  BY <1>2 DEF PeerCloses, callVars, CallsTyped
<1>3. ASSUME NEW p \in PeerIds, NEW quantity \in withdrawals(p), PeerInvalidates(p, quantity)
      PROVE  CallsTyped'
  <2>1. told' \in [PeerIds -> Nat] /\ late' \subseteq PeerIds
    <3>1. told \in [PeerIds -> Nat] /\ quantity \in Nat /\ quantity <= told[p]
      BY <1>3, PlaceOrderAssumption DEF PeerInvalidates, withdrawals, CallsTyped
    <3> QED BY <1>3, <3>1 DEF PeerInvalidates, CallsTyped
  <2>2. \A c \in Calls : CallOK(calls'[c])
    <3> SUFFICES ASSUME NEW c \in Calls PROVE CallOK(calls'[c])
      OBVIOUS
    <3>1. CallOK(calls[c]) /\ calls[c].invalid \cup {p} \in SUBSET PeerIds
      BY CallFields
    <3>2. CallOK([calls[c] EXCEPT !.invalid = @ \cup {p}])
      BY <3>1, CallUpdates
    <3> QED BY <1>3, <3>1, <3>2 DEF PeerInvalidates
  <2>3. CallsOK(calls')
    BY <1>3, <2>2 DEF PeerInvalidates, CallsOK
  <2> QED BY <1>3, <2>1, <2>3 DEF PeerInvalidates, CallsTyped
<1>4. ASSUME NEW p \in PeerIds, PeerReopens(p) PROVE CallsTyped'
  BY <1>4 DEF PeerReopens, callVars, CallsTyped
<1>5. ASSUME NEW id \in OwnIds, OwnOffers(id) \/ OwnCancels(id) PROVE CallsTyped'
  BY <1>5 DEF OwnOffers, OwnCancels, placeVars, callVars, CallsTyped
<1>6. ASSUME Places PROVE CallsTyped'
  <2>1. PICK quantity \in Quantities, price \in Prices,
             replaced \in SUBSET (OwnIds \cap live), discard \in BOOLEAN :
          /\ calls' = [calls EXCEPT ![Root] = [NoCall EXCEPT !.stage = "checking", !.quantity = quantity]]
          /\ root' = [price |-> price, discard |-> discard, replaced |-> replaced]
    BY <1>6 DEF Places
  <2>2. CallOK([NoCall EXCEPT !.stage = "checking", !.quantity = quantity])
    BY NoCallOK, NumbersAssumption DEF NoCall, CallOK, CallRecords, Stages
  <2>3. CallsOK(calls')
    BY <2>1, <2>2, CallChanges DEF CallsTyped
  <2>4. root' \in Roots
    BY <2>1, NumbersAssumption DEF Roots
  <2> QED BY <1>6, <2>3, <2>4 DEF Places, CallsTyped
<1>7. ASSUME TimePasses PROVE CallsTyped'
  BY <1>7 DEF TimePasses, CallsTyped
<1> QED BY <1>1, <1>2, <1>3, <1>4, <1>5, <1>6, <1>7 DEF Environment

LEMMA MeetsTyped ==
  ASSUME BookInv, CallsTyped, NEW c \in Calls, NEW maker \in Ids, CallMeets(c, maker)
  PROVE  CallsTyped'
<1> DEFINE part == [stage |-> IF maker \in OwnIds THEN "filling" ELSE "starting",
                    order |-> [book[maker] EXCEPT !.quantity = matchingQuantity(maker)]]
<1>1. matchingQuantity(maker) \in Nat /\ book[maker] \in Orders /\ (maker \in PeerIds => book[maker].hold = 0)
  BY MatchingQuantity, OrderFields
<1>2. [book[maker] EXCEPT !.quantity = matchingQuantity(maker)] \in Orders
  BY <1>1 DEF Orders
<1>3. part \in PartRecords /\ (maker \in PeerIds => part.order.hold = 0)
  BY <1>1, <1>2 DEF PartRecords, PartStages, Orders
<1>4. parts' = [parts EXCEPT ![c][maker] = part]
  BY DEF CallMeets
<1>5. counts' \in [swapped : Nat, filled : Nat, placed : Nat, discarded : Nat]
  <2>1. /\ counts' = [counts EXCEPT !.filled = @ + IF maker \in OwnIds THEN matchingQuantity(maker) ELSE 0]
        /\ counts \in [swapped : Nat, filled : Nat, placed : Nat, discarded : Nat]
    BY DEF CallMeets, CallsTyped
  <2> QED BY <1>1, <2>1
<1> HIDE DEF part
<1>6. PartsOK(parts')
  BY <1>3, <1>4, PartChanges DEF CallsTyped
<1> QED BY <1>5, <1>6 DEF CallMeets, CallsTyped

LEMMA MatchTyped ==
  ASSUME BookInv, CallsTyped, NEW c \in Calls, CallMatches(c) \/ CallSwaps(c)
  PROVE  CallsTyped'
<1>1. CASE CallMatches(c)
  <2>1. CallOK([calls[c] EXCEPT !.stage = "matching"])
    BY CallFields, CallUpdates DEF Stages
  <2>2. CallsOK(calls')
    BY <1>1, <2>1, CallChanges DEF CallMatches, CallsTyped
  <2> QED BY <1>1, <2>2 DEF CallMatches, CallsTyped
<1>2. CASE CallSwaps(c)
  <2> DEFINE r == [[calls[c] EXCEPT !.stage = "swapping"] EXCEPT !.remaining = taker.quantity]
  <2>1. CallOK(r)
    <3>1. CallOK([calls[c] EXCEPT !.stage = "swapping"]) /\ taker.quantity \in Nat
      BY CallFields, CallUpdates DEF Stages, BookInv, PairTypeOK, Takers
    <3> QED BY <3>1, CallUpdates
  <2>2. calls' = [calls EXCEPT ![c] = r]
    BY <1>2 DEF CallSwaps, CallsTyped, CallsOK
  <2> HIDE DEF r
  <2>3. CallsOK(calls')
    BY <2>1, <2>2, CallChanges DEF CallsTyped
  <2> QED BY <1>2, <2>3 DEF CallSwaps, CallsTyped
<1> QED BY <1>1, <1>2

LEMMA PartEndsTyped ==
  ASSUME CallsTyped, NEW c \in Calls, NEW m \in Ids,
         \/ FillSaved(c, m) \/ PartThrows(c, m) \/ CallRejects(c)
         \/ m \in PeerIds /\ (SwapStarts(c, m) \/ SwapSucceeds(c, m) \/ SwapUnsaved(c, m))
  PROVE  CallsTyped'
<1>1. CASE FillSaved(c, m)
  BY <1>1, EndsParts DEF FillSaved, CallsTyped
<1>2. CASE PartThrows(c, m)
  BY <1>2, EndsParts, RejectsCalls DEF PartThrows, CallsTyped
<1>3. CASE CallRejects(c)
  BY <1>3, RejectsCalls DEF CallRejects, CallsTyped
<1>4. CASE m \in PeerIds /\ SwapStarts(c, m)
  BY <1>4, PartStageOK DEF SwapStarts, CallsTyped, PartStages
<1>5. CASE m \in PeerIds /\ (SwapSucceeds(c, m) \/ SwapUnsaved(c, m))
  <2>1. /\ traded(m, parts[c][m].order.quantity) /\ counted(parts[c][m].order.quantity, 0)
        /\ ends(c, m) /\ parts[c][m].order.quantity \in Nat
        /\ calls' = calls \/ rejects(c)
        /\ UNCHANGED <<root, timeUp, connected, late>>
    BY <1>5, PartFields DEF SwapSucceeds, SwapUnsaved
  <2>2. told' \in [PeerIds -> Nat] /\ counts' \in [swapped : Nat, filled : Nat, placed : Nat, discarded : Nat]
    BY <1>5, <2>1, TradedOK, CountedOK
  <2>3. CallsOK(calls') /\ PartsOK(parts')
    BY <2>1, EndsParts, RejectsCalls DEF CallsTyped
  <2> QED BY <2>1, <2>2, <2>3 DEF CallsTyped
<1> QED BY <1>1, <1>2, <1>3, <1>4, <1>5

LEMMA SwapPartlyTyped ==
  ASSUME CallsTyped, NEW c \in Calls, NEW p \in PeerIds, NEW accepted \in Parts,
         SwapPartly(c, p, accepted)
  PROVE  CallsTyped'
<1>1. /\ accepted \in Nat /\ parts[c][p].order.quantity - accepted \in Nat
      /\ calls[c].failed \in [PeerIds -> Orders] /\ \A peer \in PeerIds : calls[c].failed[peer].hold = 0
  BY PartFields, CallFields, PlaceOrderAssumption DEF SwapPartly, Ids, CallOK
<1>2. told' \in [PeerIds -> Nat]
  BY <1>1, TradedOK DEF SwapPartly
<1>3. retryFailedSwap(c, p, parts[c][p].order.quantity - accepted, calls[c].failed, accepted)
  BY DEF SwapPartly
<1>4. /\ CallsOK(calls') /\ PartsOK(parts')
      /\ counts' \in [swapped : Nat, filled : Nat, placed : Nat, discarded : Nat]
  BY <1>1, <1>3, RetryTypes
<1> QED BY <1>2, <1>4 DEF SwapPartly, CallsTyped

LEMMA FailedOrderOK ==
  ASSUME BookInv, CallsTyped, NEW c \in Calls, NEW p \in PeerIds
  PROVE  /\ failedOrder(c, p) \in Orders /\ failedOrder(c, p).hold = 0
         /\ [calls[c].failed EXCEPT ![p] = failedOrder(c, p)] \in [PeerIds -> Orders]
         /\ \A peer \in PeerIds : [calls[c].failed EXCEPT ![p] = failedOrder(c, p)][peer].hold = 0
<1>1. /\ book[p] \in Orders /\ book[p].hold = 0 /\ parts[c][p].order \in Orders
      /\ parts[c][p].order.hold = 0 /\ parts[c][p].order.quantity \in Nat
  BY OrderFields, PartFields DEF Ids
<1>2. failedOrder(c, p) \in Orders /\ failedOrder(c, p).hold = 0
  BY <1>1, NoOrderHasNothing DEF failedOrder, Orders
<1>3. calls[c].failed \in [PeerIds -> Orders] /\ \A peer \in PeerIds : calls[c].failed[peer].hold = 0
  BY CallFields DEF CallOK
<1> QED BY <1>2, <1>3

LEMMA SwapFailsTyped ==
  ASSUME BookInv, CallsTyped, NEW c \in Calls, NEW p \in PeerIds, SwapFails(c, p)
  PROVE  CallsTyped'
<1> DEFINE failed == [calls[c].failed EXCEPT ![p] = failedOrder(c, p)]
<1>1. /\ failed \in [PeerIds -> Orders] /\ \A peer \in PeerIds : failed[peer].hold = 0
      /\ parts[c][p].order.quantity \in Nat /\ 0 \in Nat
  BY FailedOrderOK, PartFields DEF Ids
<1>2. retryFailedSwap(c, p, parts[c][p].order.quantity, failed, 0)
  BY DEF SwapFails
<1> HIDE DEF failed
<1>3. /\ CallsOK(calls') /\ PartsOK(parts')
      /\ counts' \in [swapped : Nat, filled : Nat, placed : Nat, discarded : Nat]
  BY <1>1, <1>2, RetryTypes
<1> QED BY <1>3 DEF SwapFails, CallsTyped

LEMMA CallEndsTyped ==
  ASSUME BookInv, CallsInv, NEW c \in Calls,
         RetryEnds(c) \/ RetryRejects(c) \/ RetryForgotten(c)
  PROVE  CallsTyped'
<1> DEFINE d == calls[c].parent.call
<1>1. CallsTyped /\ CallsOK(calls) /\ PartsOK(parts) /\ calls[c].parent \in Parents
  BY CallFields DEF CallsInv, CallsTyped
<1>2. CASE RetryForgotten(c)
  BY <1>1, <1>2, NoCallOK, CallChanges DEF RetryForgotten, CallsTyped
<1>3. CASE RetryRejects(c)
  <2>1. d \in Calls
    BY <1>3 DEF RetryRejects, rejecting, CallsInv, Links
  <2> DEFINE cs == [calls EXCEPT ![c].parent = NoParent]
  <2>2. CallsOK(cs)
    BY <1>1, CallFields, CallUpdates, NoCallOK, CallChanges
  <2>3. CallOK([cs[d] EXCEPT !.stage = "rejected"])
    <3>1. CallOK(cs[d])
      BY <2>1, <2>2 DEF CallsOK
    <3> HIDE DEF cs
    <3> QED BY <3>1, CallUpdates DEF Stages
  <2>4. calls' = [cs EXCEPT ![d] = [cs[d] EXCEPT !.stage = "rejected"]]
    BY <1>3, <2>1, <1>1 DEF RetryRejects, CallsOK
  <2>5. CallsOK(calls')
    <3> HIDE DEF cs, d
    <3> QED BY <2>2, <2>3, <2>4, CallChanges
  <2>6. PartsOK(parts')
    BY <1>1, <1>3, EndsParts DEF RetryRejects
  <2> QED BY <1>1, <1>3, <2>5, <2>6 DEF RetryRejects, CallsTyped
<1>4. CASE RetryEnds(c)
  <2>1. d \in Calls
    BY <1>4 DEF RetryEnds, done, CallsInv, Links
  <2>2. calls[c].remaining \in Nat /\ unmatched(calls[c].remaining) \in Nat
        /\ calls[c].remaining - unmatched(calls[c].remaining) \in Nat
    BY <1>1, CallFields, UnmatchedNat
  <2> DEFINE cs == [calls EXCEPT ![c] = NoCall]
             n == unmatched(calls[c].remaining)
  <2>3. CallsOK(cs)
    BY <1>1, NoCallOK, CallChanges
  <2>4. CallOK([cs[d] EXCEPT !.remaining = cs[d].remaining + n])
    <3>1. CallOK(cs[d])
      BY <2>1, <2>3 DEF CallsOK
    <3> HIDE DEF cs
    <3>2. cs[d].remaining + n \in Nat
      BY <2>2, <3>1 DEF CallOK, CallRecords
    <3> QED BY <3>1, <3>2, CallUpdates
  <2>5. calls' = [cs EXCEPT ![d] = [cs[d] EXCEPT !.remaining = cs[d].remaining + n]]
    <3>1. calls' = [calls EXCEPT ![c] = NoCall, ![d].remaining = @ + n]
      BY <1>4 DEF RetryEnds
    <3>2. d # c
      BY <1>4, CallFields DEF RetryEnds, done, running, CallsInv, Links, Parents
    <3>3. DOMAIN calls = Calls /\ cs[d] = calls[d]
      BY <1>1, <2>1, <3>2 DEF CallsOK
    <3> HIDE DEF n, d
    <3> QED BY <2>1, <3>1, <3>2, <3>3
  <2>6. CallsOK(calls')
    <3> HIDE DEF cs, d, n
    <3> QED BY <2>3, <2>4, <2>5, CallChanges
  <2>7. PartsOK(parts')
    BY <1>1, <1>4, EndsParts DEF RetryEnds
  <2>8. counts' \in [swapped : Nat, filled : Nat, placed : Nat, discarded : Nat]
    BY <1>1, <1>4, <2>2, CountedOK DEF RetryEnds
  <2> QED BY <1>1, <1>4, <2>6, <2>7, <2>8 DEF RetryEnds, CallsTyped
<1> QED BY <1>2, <1>3, <1>4

LEMMA RootEndsTyped ==
  ASSUME CallsTyped, RootEnds
  PROVE  CallsTyped'
<1>1. CallsOK(calls) /\ calls[Root].quantity \in Nat /\ calls[Root].remaining \in Nat
  BY CallFields, RootIsCall DEF CallsTyped
<1>2. CallOK([NoCall EXCEPT !.stage = "ended", !.quantity = calls[Root].quantity])
  BY <1>1, NoCallOK DEF NoCall, CallOK, CallRecords, Stages
<1>3. CallsOK(calls')
  BY <1>1, <1>2, CallChanges DEF RootEnds
<1>4. counts' \in [swapped : Nat, filled : Nat, placed : Nat, discarded : Nat]
  <2>1. counts \in [swapped : Nat, filled : Nat, placed : Nat, discarded : Nat]
    BY DEF CallsTyped
  <2>2. counts' \in {[counts EXCEPT !.placed = calls[Root].remaining],
                     [counts EXCEPT !.discarded = @ + calls[Root].remaining]}
    BY DEF RootEnds
  <2> QED BY <1>1, <2>1, <2>2
<1> QED BY <1>3, <1>4 DEF RootEnds, CallsTyped

LEMMA TypesStep ==
  ASSUME BookInv, CallsInv, PlaceNext
  PROVE  BookInv' /\ CallsTyped'
<1>1. CallsTyped
  BY DEF CallsInv
<1>2. BookInv'
  BY <1>1, BookStep
<1>3. CASE Environment
  BY <1>1, <1>2, <1>3, EnvironmentTyped
<1>4. CASE Proceeds
  <2>1. CASE RootEnds
    BY <1>1, <1>2, <2>1, RootEndsTyped
  <2>2. ASSUME NEW c \in Calls, CallMatches(c) \/ CallSwaps(c) PROVE CallsTyped'
    BY <1>1, <2>2, MatchTyped
  <2>3. ASSUME NEW c \in Calls, RetryEnds(c) \/ RetryRejects(c) \/ RetryForgotten(c) PROVE CallsTyped'
    BY <2>3, CallEndsTyped
  <2>4. ASSUME NEW c \in Calls, NEW maker \in Ids, CallMeets(c, maker) PROVE CallsTyped'
    BY <1>1, <2>4, MeetsTyped
  <2>5. ASSUME NEW c \in Calls, CallRejects(c) PROVE CallsTyped'
    BY <1>1, <2>5, PartEndsTyped, RootIsCall
  <2>6. ASSUME NEW c \in Calls, NEW m \in Ids, FillSaved(c, m) \/ PartThrows(c, m) PROVE CallsTyped'
    BY <1>1, <2>6, PartEndsTyped
  <2>7. ASSUME NEW c \in Calls, NEW p \in PeerIds,
               SwapStarts(c, p) \/ SwapSucceeds(c, p) \/ SwapUnsaved(c, p)
        PROVE  CallsTyped'
    BY <1>1, <2>7, PartEndsTyped DEF Ids
  <2>8. ASSUME NEW c \in Calls, NEW p \in PeerIds, SwapFails(c, p) PROVE CallsTyped'
    BY <1>1, <2>8, SwapFailsTyped
  <2>9. ASSUME NEW c \in Calls, NEW p \in PeerIds, NEW accepted \in Parts, SwapPartly(c, p, accepted)
        PROVE  CallsTyped'
    BY <1>1, <2>9, SwapPartlyTyped
  <2> QED BY <1>2, <1>4, <2>1, <2>2, <2>3, <2>4, <2>5, <2>6, <2>7, <2>8, <2>9 DEF Proceeds, Ids
<1> QED BY <1>2, <1>3, <1>4 DEF PlaceNext

-----------------------------------------------------------------------------
(* The stages of the calls and their parts, and the links between them *)

\* A part is over.
LEMMA EndsAt ==
  ASSUME CallsTyped, NEW c, NEW m, ends(c, m)
  PROVE  \A d \in Calls, n \in Ids :
           parts'[d][n] = IF d = c /\ n = m THEN NoPart ELSE parts[d][n]
<1>1. parts \in [Calls -> [Ids -> PartRecords]] /\ parts' = [parts EXCEPT ![c][m] = NoPart]
  BY DEF CallsTyped, PartsOK, ends
<1> SUFFICES ASSUME NEW d \in Calls, NEW n \in Ids
             PROVE  parts'[d][n] = IF d = c /\ n = m THEN NoPart ELSE parts[d][n]
  OBVIOUS
<1>2. CASE d = c
  <2>1. parts'[d] = [parts[d] EXCEPT ![m] = NoPart]
    BY <1>1, <1>2
  <2> QED BY <1>1, <1>2, <2>1
<1>3. CASE d # c
  BY <1>1, <1>3
<1> QED BY <1>2, <1>3

stages(c, m, next) == parts' = [parts EXCEPT ![c][m].stage = next]

LEMMA PartStageAt ==
  ASSUME CallsTyped, NEW c \in Calls, NEW m \in Ids, NEW next, stages(c, m, next)
  PROVE  /\ \A d \in Calls, n \in Ids : d # c \/ n # m => parts'[d][n] = parts[d][n]
         /\ parts'[c][m].stage = next /\ parts'[c][m].order = parts[c][m].order
<1>1. parts \in [Calls -> [Ids -> PartRecords]]
  BY DEF CallsTyped, PartsOK
<1> USE DEF stages
<1>2. ASSUME NEW d \in Calls, NEW n \in Ids, d # c \/ n # m
      PROVE  parts'[d][n] = parts[d][n]
  <2>1. CASE d = c
    <3>1. parts'[d] = [parts[d] EXCEPT ![m].stage = next]
      BY <1>1, <2>1
    <3> QED BY <1>1, <1>2, <2>1, <3>1
  <2>2. CASE d # c
    BY <1>1, <2>2
  <2> QED BY <2>1, <2>2
<1>3. parts'[c][m] = [parts[c][m] EXCEPT !.stage = next]
  <2>1. parts'[c] = [parts[c] EXCEPT ![m].stage = next]
    BY <1>1
  <2> QED BY <1>1, <2>1
<1>4. parts[c][m] \in PartRecords
  BY <1>1
<1>5. parts'[c][m].stage = next /\ parts'[c][m].order = parts[c][m].order
  BY <1>3, <1>4 DEF PartRecords
<1> QED BY <1>2, <1>3, <1>5

LEMMA CallStageAt ==
  ASSUME CallsTyped, NEW c \in Calls, NEW stage,
         calls' = [calls EXCEPT ![c].stage = stage]
  PROVE  /\ \A d \in Calls : d # c => calls'[d] = calls[d]
         /\ calls'[c].stage = stage /\ calls'[c].parent = calls[c].parent
         /\ calls'[c].failed = calls[c].failed /\ calls'[c].invalid = calls[c].invalid
         /\ calls'[c].quantity = calls[c].quantity /\ calls'[c].remaining = calls[c].remaining
<1>1. DOMAIN calls = Calls /\ calls[c] \in CallRecords
  BY DEF CallsTyped, CallsOK, CallOK
<1>2. calls'[c] = [calls[c] EXCEPT !.stage = stage] /\ \A d \in Calls : d # c => calls'[d] = calls[d]
  BY <1>1
<1> QED BY <1>1, <1>2 DEF CallRecords

\* The call is the same, for the links.
same(d) ==
  /\ calls'[d].stage = calls[d].stage /\ calls'[d].parent = calls[d].parent
  /\ calls[d].stage = "none" => calls'[d] = calls[d]

\* As long as no call comes or goes and no waiting part is over.
LEMMA LinksStay ==
  ASSUME CallsInv, \A d \in Calls : calls'[d].parent = calls[d].parent,
         \A d \in Calls, n \in Ids : parts[d][n].stage = "retrying" => parts'[d][n].stage = "retrying",
         \A d \in Calls \ {Root} :
           calls[d].parent = NoParent => calls'[d].stage \in {"none", "rejected"}
  PROVE  Links'
<1>1. ASSUME NEW d \in Calls, calls'[d].parent # NoParent
      PROVE  /\ calls'[d].parent.call \in Calls
             /\ parts'[calls'[d].parent.call][calls'[d].parent.maker].stage = "retrying"
  <2>1. /\ calls[d].parent.call \in Calls /\ calls[d].parent.maker \in Ids
        /\ parts[calls[d].parent.call][calls[d].parent.maker].stage = "retrying"
    BY <1>1, CallFields DEF CallsInv, Links, Parents
  <2> QED BY <2>1
<1>2. ASSUME NEW d \in Calls, NEW e \in Calls, d # e, calls'[d].parent # NoParent
      PROVE  calls'[d].parent # calls'[e].parent
  BY <1>2 DEF CallsInv, Links
<1>3. calls'[Root].parent = NoParent
  BY RootIsCall DEF CallsInv, Links
<1> QED BY <1>1, <1>2, <1>3 DEF Links

LEMMA NothingMoves ==
  ASSUME CallsInv, matching' = matching, parts' = parts, \A d \in Calls : same(d)
  PROVE  Stagings' /\ Links'
<1>1. Stagings'
  <2>1. \A d \in Calls : calls'[d].stage = calls[d].stage
    BY DEF same
  <2>2. \A d \in Calls : calls'[d].stage = "none" => calls'[d] = NoCall
    BY DEF CallsInv, Stagings, same
  <2> HIDE DEF same
  <2> QED BY <2>1, <2>2, RootIsCall DEF CallsInv, Stagings
<1>2. Links'
  <2>1. \A d \in Calls \ {Root} :
          calls[d].parent = NoParent => calls'[d].stage \in {"none", "rejected"}
    BY DEF CallsInv, Links, same
  <2> QED BY <2>1, LinksStay DEF same
<1> QED BY <1>1, <1>2

\* A part moves on or is over, and its call may reject.
partMoves(c, m) ==
  /\ ~matching /\ matching' = matching
  /\ active(c) /\ parts[c][m].stage \in {"filling", "starting", "swapping"}
  /\ \A d \in Calls, n \in Ids : d # c \/ n # m => parts'[d][n] = parts[d][n]
  /\ parts'[c][m].stage \in {"none", "swapping"}
  /\ \A d \in Calls : d # c => calls'[d] = calls[d]
  /\ calls'[c].stage \in {calls[c].stage, "rejected"} /\ calls'[c].parent = calls[c].parent

LEMMA PartMoves ==
  ASSUME CallsInv, NEW c \in Calls, NEW m \in Ids, partMoves(c, m)
  PROVE  Stagings' /\ Links'
<1>1. Stagings'
  <2>1. \A d \in Calls : calls'[d].stage = calls[d].stage \/ (d = c /\ calls'[d].stage = "rejected")
    BY DEF partMoves
  <2>2. calls[c].stage \in {"swapping", "rejected"} /\ calls'[c].stage \in {"swapping", "rejected"}
    BY DEF partMoves, active
  <2> QED BY <2>1, <2>2, RootIsCall DEF CallsInv, Stagings, partMoves
<1>2. Links'
  <2>1. \A d \in Calls : calls'[d].parent = calls[d].parent
    BY DEF partMoves
  <2>2. \A d \in Calls : d # c => calls'[d].stage = calls[d].stage
    BY DEF partMoves
  <2>3. \A d \in Calls, n \in Ids : parts[d][n].stage = "retrying" => parts'[d][n].stage = "retrying"
    BY DEF partMoves
  <2>4. c # Root /\ calls[c].parent = NoParent => calls'[c].stage \in {"none", "rejected"}
    BY DEF CallsInv, Links, partMoves, active
  <2>5. \A d \in Calls \ {Root} :
          calls[d].parent = NoParent => calls'[d].stage \in {"none", "rejected"}
    BY <2>2, <2>4 DEF CallsInv, Links
  <2> QED BY <2>1, <2>3, <2>5, LinksStay
<1> QED BY <1>1, <1>2

\* A call keeps what it does not change, of what the invariants are about.
keeps(c) ==
  /\ calls'[c].parent = calls[c].parent /\ calls'[c].quantity = calls[c].quantity
  /\ calls'[c].invalid = calls[c].invalid
others(c) == \A d \in Calls : d # c => calls'[d] = calls[d]
onePart(c, m) == \A d \in Calls, n \in Ids : d # c \/ n # m => parts'[d][n] = parts[d][n]

\* What the outcomes of a retry do to the call and its parts.
LEMMA RefusedAt ==
  ASSUME CallsTyped, NEW c \in Calls, NEW p \in PeerIds, NEW failed, retryRefused(c, p, failed)
  PROVE  /\ others(c) /\ keeps(c) /\ onePart(c, p) /\ parts'[c][p] = NoPart
         /\ calls'[c].stage = "rejected" /\ calls'[c].failed = failed
         /\ calls'[c].remaining = calls[c].remaining
<1>1. calls[c] \in CallRecords /\ DOMAIN calls = Calls
  BY DEF CallsTyped, CallsOK, CallOK
<1>2. calls' = [calls EXCEPT ![c].failed = failed, ![c].stage = "rejected"] /\ ends(c, p)
  BY DEF retryRefused
<1>3. /\ others(c) /\ keeps(c) /\ calls'[c].stage = "rejected" /\ calls'[c].failed = failed
      /\ calls'[c].remaining = calls[c].remaining
  BY <1>1, <1>2 DEF CallRecords, others, keeps
<1>4. onePart(c, p) /\ parts'[c][p] = NoPart
  BY <1>2, EndsAt DEF onePart, Ids
<1> QED BY <1>3, <1>4

LEMMA TooLateAt ==
  ASSUME CallsTyped, NEW c \in Calls, NEW p \in PeerIds, NEW failed, NEW quantity \in Nat,
         retryTooLate(c, p, quantity, failed)
  PROVE  /\ others(c) /\ keeps(c) /\ onePart(c, p) /\ parts'[c][p] = NoPart
         /\ calls'[c].stage = calls[c].stage /\ calls'[c].failed = failed
         /\ calls'[c].remaining = calls[c].remaining + unmatched(quantity)
<1>1. calls[c] \in CallRecords /\ DOMAIN calls = Calls
  BY DEF CallsTyped, CallsOK, CallOK
<1>2. /\ calls' = [calls EXCEPT ![c].failed = failed, ![c].remaining = @ + unmatched(quantity)]
      /\ ends(c, p)
  BY DEF retryTooLate
<1>3. /\ others(c) /\ keeps(c) /\ calls'[c].stage = calls[c].stage /\ calls'[c].failed = failed
      /\ calls'[c].remaining = calls[c].remaining + unmatched(quantity)
  BY <1>1, <1>2 DEF CallRecords, others, keeps
<1>4. onePart(c, p) /\ parts'[c][p] = NoPart
  BY <1>2, EndsAt DEF onePart, Ids
<1> QED BY <1>3, <1>4

calledAt(c, p, quantity, failed, child) ==
  /\ child \in Calls /\ child # c /\ calls[child] = NoCall /\ calls[child].stage = "none"
  /\ calls'[child] = childOf(c, p, quantity)
  /\ \A d \in Calls : d # c /\ d # child => calls'[d] = calls[d]
  /\ keeps(c) /\ calls'[c].stage = calls[c].stage /\ calls'[c].failed = failed
  /\ calls'[c].remaining = calls[c].remaining
  /\ onePart(c, p) /\ parts'[c][p].stage = "retrying" /\ parts'[c][p].order = parts[c][p].order

LEMMA CalledAt ==
  ASSUME CallsInv, NEW c \in Calls, NEW p \in PeerIds, NEW failed, NEW quantity \in Nat,
         active(c), retryCalled(c, p, quantity, failed)
  PROVE  \E child \in Calls : calledAt(c, p, quantity, failed, child)
<1>1. calls[c] \in CallRecords /\ DOMAIN calls = Calls /\ CallsTyped
  BY DEF CallsInv, CallsTyped, CallsOK, CallOK
<1> DEFINE child == Min(free)
<1>2. child \in Calls /\ calls[child].stage = "none" /\ calls[child] = NoCall /\ child # c
  BY FirstFree DEF retryCalled, free, active, CallsInv, Stagings
<1>3. calls' = [calls EXCEPT ![c].failed = failed, ![child] = childOf(c, p, quantity)]
  BY DEF retryCalled
<1> HIDE DEF child
<1>4. /\ calls'[child] = childOf(c, p, quantity)
      /\ \A d \in Calls : d # c /\ d # child => calls'[d] = calls[d]
      /\ keeps(c) /\ calls'[c].stage = calls[c].stage /\ calls'[c].failed = failed
      /\ calls'[c].remaining = calls[c].remaining
  BY <1>1, <1>2, <1>3 DEF CallRecords, keeps
<1>5. /\ onePart(c, p) /\ parts'[c][p].stage = "retrying" /\ parts'[c][p].order = parts[c][p].order
  <2>1. stages(c, p, "retrying") /\ p \in Ids
    BY DEF retryCalled, Ids, stages
  <2>3. /\ \A d \in Calls, n \in Ids : d # c \/ n # p => parts'[d][n] = parts[d][n]
        /\ parts'[c][p].stage = "retrying" /\ parts'[c][p].order = parts[c][p].order
    BY <1>1, <2>1, PartStageAt
  <2> QED BY <2>3 DEF onePart
<1> QED BY <1>2, <1>4, <1>5 DEF calledAt

\* The steps that are the end of a part, or the start of its swap.
LEMMA PartSteps ==
  ASSUME CallsInv, NEW c \in Calls, NEW m \in Ids,
         \/ FillSaved(c, m) /\ m \in OwnIds
         \/ PartThrows(c, m)
         \/ m \in PeerIds /\ (SwapStarts(c, m) \/ SwapSucceeds(c, m) \/ SwapUnsaved(c, m))
  PROVE  partMoves(c, m)
<1>1. CallsTyped
  BY DEF CallsInv
<1>2. ~matching /\ active(c) /\ parts[c][m].stage \in {"filling", "starting", "swapping"}
  BY DEF FillSaved, PartThrows, SwapStarts, SwapSucceeds, SwapUnsaved, idle
<1>3. matching' = matching
  BY DEF FillSaved, PartThrows, SwapStarts, SwapSucceeds, SwapUnsaved, pairVars
<1>4. CASE ends(c, m)
  <2>1. onePart(c, m) /\ parts'[c][m].stage = "none"
    BY <1>1, <1>4, EndsAt, NoPartOK DEF onePart
  <2>2. calls' = calls \/ rejects(c)
    BY DEF FillSaved, PartThrows, SwapStarts, SwapSucceeds, SwapUnsaved
  <2>3. CASE calls' = calls
    BY <1>2, <1>3, <2>1, <2>3 DEF partMoves, onePart
  <2>4. CASE rejects(c)
    <3>1. others(c) /\ calls'[c].stage = "rejected" /\ calls'[c].parent = calls[c].parent
      BY <1>1, <2>4, CallStageAt DEF rejects, others
    <3> QED BY <1>2, <1>3, <2>1, <3>1 DEF partMoves, onePart, others
  <2> QED BY <2>2, <2>3, <2>4
<1>5. CASE m \in PeerIds /\ SwapStarts(c, m)
  <2>1. stages(c, m, "swapping") /\ calls' = calls
    BY <1>5 DEF SwapStarts, stages
  <2>2. onePart(c, m) /\ parts'[c][m].stage = "swapping"
    BY <1>1, <2>1, PartStageAt DEF onePart
  <2> QED BY <1>2, <1>3, <2>1, <2>2 DEF partMoves, onePart
<1> QED BY <1>4, <1>5 DEF FillSaved, PartThrows, SwapSucceeds, SwapUnsaved

\* What a failed part, or the rest of one, leads to.
LEMMA RetryLinks ==
  ASSUME CallsInv, NEW c \in Calls, NEW p \in PeerIds, NEW quantity \in Nat, NEW swapped \in Nat,
         NEW failed \in [PeerIds -> Orders], idle, active(c), parts[c][p].stage = "swapping",
         matching' = matching, retryFailedSwap(c, p, quantity, failed, swapped)
  PROVE  Stagings' /\ Links'
<1>1. CallsTyped /\ p \in Ids /\ ~matching
  BY DEF CallsInv, Ids, idle
<1>2. CASE retryRefused(c, p, failed)
  <2>1. partMoves(c, p)
    BY <1>1, <1>2, RefusedAt, NoPartOK DEF partMoves, others, keeps, onePart
  <2> QED BY <1>1, <2>1, PartMoves
<1>3. CASE retryTooLate(c, p, quantity, failed)
  <2>1. partMoves(c, p)
    BY <1>1, <1>3, TooLateAt, NoPartOK DEF partMoves, others, keeps, onePart
  <2> QED BY <1>1, <2>1, PartMoves
<1>4. CASE retryCalled(c, p, quantity, failed)
  <2>1. PICK child \in Calls : calledAt(c, p, quantity, failed, child)
    BY <1>4, CalledAt
  <2>2. /\ calls'[child].parent = [call |-> c, maker |-> p] /\ calls'[child].stage = "checking"
        /\ [call |-> c, maker |-> p] # NoParent
    BY <2>1, ChildOK DEF calledAt
  <2>3. \A d \in Calls : d # child => calls'[d].stage = calls[d].stage /\ calls'[d].parent = calls[d].parent
    BY <2>1 DEF calledAt, keeps
  <2>4. child # Root
    BY <2>1 DEF calledAt, CallsInv, Stagings, active
  <2>5. Stagings'
    <3>1. \A m \in Ids : parts'[child][m].stage = "none"
      BY <1>1, <2>1 DEF calledAt, onePart, CallsInv, Stagings
    <3>2. \A d \in Calls, m \in Ids : d # c => parts'[d][m] = parts[d][m]
      BY <2>1 DEF calledAt, onePart
    <3>3. \A d \in Calls : calls'[d].stage = "none" => calls'[d] = NoCall
      BY <2>1, <2>2, <2>3 DEF calledAt, active, CallsInv, Stagings
    <3>4. calls[c].stage \in {"swapping", "rejected"}
      BY DEF active
    <3>5. \A d \in Calls : calls'[d].stage # "matching"
      BY <1>1, <2>2, <2>3 DEF CallsInv, Stagings
    <3>6. calls'[Root].stage # "none"
      BY <2>3, <2>4, <3>4, RootIsCall DEF CallsInv, Stagings
    <3>7. \A d \in Calls : calls'[d].stage \in {"none", "checking", "ended"} =>
            \A m \in Ids : parts'[d][m].stage = "none"
      BY <2>2, <2>3, <3>1, <3>2, <3>4 DEF CallsInv, Stagings
    <3>8. \A d \in Calls \ {Root} : calls'[d].stage # "ended"
      BY <2>2, <2>3 DEF CallsInv, Stagings
    <3> QED BY <3>3, <3>5, <3>6, <3>7, <3>8 DEF Stagings
  <2>6. Links'
    <3>1. \A d \in Calls : calls[d].parent # NoParent => calls[d].parent # [call |-> c, maker |-> p]
      BY CallFields DEF CallsInv, Links
    <3>2. \A d \in Calls, n \in Ids : parts[d][n].stage = "retrying" => parts'[d][n].stage = "retrying"
      BY <2>1 DEF calledAt, onePart
    <3>3. ASSUME NEW d \in Calls, calls'[d].parent # NoParent
          PROVE  /\ calls'[d].parent.call \in Calls
                 /\ parts'[calls'[d].parent.call][calls'[d].parent.maker].stage = "retrying"
      <4>1. CASE d = child
        BY <2>1, <2>2, <4>1 DEF calledAt
      <4>2. CASE d # child
        <5>1. calls[d].parent # NoParent /\ calls'[d].parent = calls[d].parent
          BY <2>3, <3>3, <4>2
        <5>2. /\ calls[d].parent.call \in Calls /\ calls[d].parent.maker \in Ids
              /\ parts[calls[d].parent.call][calls[d].parent.maker].stage = "retrying"
          BY <5>1, <1>1, CallFields DEF CallsInv, Links, Parents
        <5> QED BY <3>2, <5>1, <5>2
      <4> QED BY <4>1, <4>2
    <3>4. ASSUME NEW d \in Calls, NEW e \in Calls, d # e, calls'[d].parent # NoParent
          PROVE  calls'[d].parent # calls'[e].parent
      <4>1. CASE d = child
        BY <2>2, <2>3, <3>1, <3>4, <4>1
      <4>2. CASE e = child
        BY <2>2, <2>3, <3>1, <3>4, <4>2
      <4>3. CASE d # child /\ e # child
        BY <2>3, <3>4, <4>3 DEF CallsInv, Links
      <4> QED BY <4>1, <4>2, <4>3
    <3>5. calls'[Root].parent = NoParent
      BY <2>3, <2>4, RootIsCall DEF CallsInv, Links
    <3>6. \A d \in Calls \ {Root} : calls'[d].parent = NoParent => calls'[d].stage \in {"none", "rejected"}
      BY <2>2, <2>3 DEF CallsInv, Links
    <3> QED BY <3>3, <3>4, <3>5, <3>6 DEF Links
  <2> QED BY <2>5, <2>6
<1> QED BY <1>1, <1>2, <1>3, <1>4, RetryOutcomes

\* What the other steps do to the calls.
LEMMA PlacesAt ==
  ASSUME CallsInv, Places
  PROVE  /\ others(Root) /\ calls[Root].stage = "none" /\ calls'[Root].stage = "checking"
         /\ calls'[Root].parent = NoParent /\ calls'[Root].failed = NoCall.failed
         /\ calls'[Root].remaining = 0 /\ calls'[Root].quantity \in Nat
         /\ calls'[Root].invalid = {} /\ parts' = parts /\ ~matching /\ matching' = matching
<1>1. PICK quantity \in Quantities :
        calls' = [calls EXCEPT ![Root] = [NoCall EXCEPT !.stage = "checking", !.quantity = quantity]]
  BY DEF Places
<1>2. DOMAIN calls = Calls /\ Root \in Calls /\ quantity \in Nat
  BY RootIsCall, NumbersAssumption DEF CallsInv, CallsTyped, CallsOK
<1>3. others(Root) /\ calls'[Root] = [NoCall EXCEPT !.stage = "checking", !.quantity = quantity]
  BY <1>1, <1>2 DEF others
<1> QED BY <1>2, <1>3 DEF Places, NoCall, pairVars, idle

LEMMA MatchesAt ==
  ASSUME CallsInv, NEW c \in Calls, CallMatches(c)
  PROVE  /\ others(c) /\ keeps(c) /\ calls[c].stage = "checking" /\ calls'[c].stage = "matching"
         /\ calls'[c].failed = calls[c].failed /\ calls'[c].remaining = calls[c].remaining
         /\ parts' = parts /\ idle /\ matching' = TRUE /\ taker'.quantity = calls[c].quantity
         /\ replacedBy(c) \subseteq live
<1>1. calls' = [calls EXCEPT ![c].stage = "matching"] /\ CallsTyped
  BY DEF CallMatches, CallsInv
<1>2. others(c) /\ calls'[c].stage = "matching" /\ keeps(c)
      /\ calls'[c].failed = calls[c].failed /\ calls'[c].remaining = calls[c].remaining
  BY <1>1, CallStageAt DEF others, keeps
<1> QED BY <1>2 DEF CallMatches, startsMatch

LEMMA MeetsAt ==
  ASSUME BookInv, CallsInv, NEW c \in Calls, NEW maker \in Ids, CallMeets(c, maker)
  PROVE  /\ calls' = calls /\ calls[c].stage = "matching" /\ matching' = matching
         /\ onePart(c, maker) /\ met(maker)
         /\ parts'[c][maker].stage = IF maker \in OwnIds THEN "filling" ELSE "starting"
         /\ parts'[c][maker].order.quantity = matchingQuantity(maker)
<1> DEFINE part == [stage |-> IF maker \in OwnIds THEN "filling" ELSE "starting",
                    order |-> [book[maker] EXCEPT !.quantity = matchingQuantity(maker)]]
<1>1. /\ parts' = [parts EXCEPT ![c][maker] = part]
      /\ parts \in [Calls -> [Ids -> PartRecords]] /\ book[maker] \in Orders
  BY OrderFields DEF CallMeets, CallsInv, CallsTyped, PartsOK
<1>2. part.stage = (IF maker \in OwnIds THEN "filling" ELSE "starting")
      /\ part.order.quantity = matchingQuantity(maker)
  BY <1>1 DEF Orders
<1> HIDE DEF part
<1>3. onePart(c, maker) /\ parts'[c][maker] = part
  <2>1. parts'[c] = [parts[c] EXCEPT ![maker] = part] /\ \A d \in Calls : d # c => parts'[d] = parts[d]
    BY <1>1
  <2> QED BY <1>1, <2>1 DEF onePart
<1>4. met(maker)
  BY MeetsBook DEF CallMeets
<1> QED BY <1>2, <1>3, <1>4 DEF CallMeets, met

LEMMA SwapsAt ==
  ASSUME CallsInv, NEW c \in Calls, CallSwaps(c)
  PROVE  /\ others(c) /\ keeps(c) /\ calls[c].stage = "matching" /\ calls'[c].stage = "swapping"
         /\ calls'[c].failed = calls[c].failed /\ calls'[c].remaining = taker.quantity
         /\ parts' = parts /\ matching' = FALSE
<1>1. /\ calls' = [calls EXCEPT ![c].stage = "swapping", ![c].remaining = taker.quantity]
      /\ calls[c] \in CallRecords /\ DOMAIN calls = Calls
  BY DEF CallSwaps, CallsInv, CallsTyped, CallsOK, CallOK
<1>2. /\ others(c) /\ keeps(c) /\ calls'[c].stage = "swapping"
      /\ calls'[c].failed = calls[c].failed /\ calls'[c].remaining = taker.quantity
  BY <1>1 DEF others, keeps, CallRecords
<1> QED BY <1>2 DEF CallSwaps, MatchEnds

LEMMA RejectsAt ==
  ASSUME CallsInv, NEW c \in Calls, rejects(c)
  PROVE  /\ others(c) /\ keeps(c) /\ calls'[c].stage = "rejected"
         /\ calls'[c].failed = calls[c].failed /\ calls'[c].remaining = calls[c].remaining
<1>1. calls' = [calls EXCEPT ![c].stage = "rejected"] /\ CallsTyped
  BY DEF rejects, CallsInv
<1> QED BY <1>1, CallStageAt DEF others, keeps

\* A retry ends, and the part of its parent d with it.
retryEnds(c, d, m) ==
  /\ c # Root /\ c # d /\ ~matching /\ matching' = matching
  /\ calls[c].parent = [call |-> d, maker |-> m] /\ calls[c].parent # NoParent
  /\ parts[d][m].stage = "retrying" /\ onePart(d, m) /\ parts'[d][m] = NoPart
  /\ \A e \in Calls : e # c /\ e # d => calls'[e] = calls[e]
  /\ keeps(d) /\ calls'[d].failed = calls[d].failed

LEMMA ParentFacts ==
  ASSUME CallsInv, NEW c \in Calls, calls[c].parent # NoParent
  PROVE  \E d \in Calls, m \in Ids :
           /\ calls[c].parent = [call |-> d, maker |-> m]
           /\ calls[c].parent.call = d /\ calls[c].parent.maker = m
           /\ parts[d][m].stage = "retrying"
           /\ calls[d].stage \in {"swapping", "rejected"} /\ c # Root
<1>1. calls[c].parent \in Parents /\ \A d \in Calls : calls[d].stage \in Stages
  BY CallFields DEF CallsInv
<1> DEFINE d == calls[c].parent.call
           m == calls[c].parent.maker
<1>2. d \in Calls /\ m \in Ids /\ parts[d][m].stage = "retrying" /\ c # Root
  BY <1>1 DEF Parents, CallsInv, Links
<1>3. calls[d].stage \notin {"none", "checking", "ended", "matching"}
  BY <1>2 DEF CallsInv, Stagings
<1>4. calls[d].stage \in {"swapping", "rejected"}
  BY <1>1, <1>2, <1>3 DEF Stages
<1>5. calls[c].parent = [call |-> d, maker |-> m]
  BY <1>1 DEF Parents
<1> QED BY <1>2, <1>4, <1>5

LEMMA RetryEndsAt ==
  ASSUME CallsInv, NEW c \in Calls, RetryEnds(c)
  PROVE  \E d \in Calls, m \in Ids :
           /\ retryEnds(c, d, m) /\ calls[c].stage = "swapping" /\ calls'[c] = NoCall
           /\ \A n \in Ids : parts[c][n].stage = "none"
           /\ calls'[d].stage = calls[d].stage
           /\ calls'[d].remaining = calls[d].remaining + unmatched(calls[c].remaining)
           /\ counted(0, calls[c].remaining - unmatched(calls[c].remaining))
<1>1. /\ c # Root /\ calls[c].stage = "swapping" /\ \A n \in Ids : parts[c][n].stage = "none"
      /\ CallsTyped /\ DOMAIN calls = Calls
  BY DEF RetryEnds, done, running, CallsInv, CallsTyped, CallsOK
<1>2. calls[c].parent # NoParent
  BY <1>1 DEF CallsInv, Links
<1>3. PICK d \in Calls, m \in Ids :
        /\ calls[c].parent = [call |-> d, maker |-> m] /\ calls[c].parent.call = d /\ calls[c].parent.maker = m
        /\ parts[d][m].stage = "retrying"
  BY <1>2, ParentFacts
<1>4. c # d
  BY <1>1, <1>3
<1> DEFINE n == unmatched(calls[c].remaining)
<1>5. /\ calls' = [calls EXCEPT ![c] = NoCall, ![d].remaining = @ + n]
      /\ ends(d, m) /\ ~matching /\ matching' = matching
      /\ counted(0, calls[c].remaining - n)
  BY <1>3 DEF RetryEnds, matchVars
<1> HIDE DEF n
<1>6. calls[d] \in CallRecords
  BY <1>1, CallFields
<1>7. /\ calls'[c] = NoCall /\ keeps(d) /\ calls'[d].failed = calls[d].failed
      /\ \A e \in Calls : e # c /\ e # d => calls'[e] = calls[e]
      /\ calls'[d].stage = calls[d].stage /\ calls'[d].remaining = calls[d].remaining + n
  BY <1>1, <1>4, <1>5, <1>6 DEF keeps, CallRecords
<1>8. onePart(d, m) /\ parts'[d][m] = NoPart
  BY <1>1, <1>5, EndsAt DEF onePart
<1>9. retryEnds(c, d, m)
  BY <1>1, <1>2, <1>3, <1>4, <1>5, <1>7, <1>8 DEF retryEnds
<1> QED BY <1>1, <1>5, <1>7, <1>9 DEF n

\* A retry that has rejected ends the part of its parent d, which rejects.
retryRejects(c, d, m) ==
  /\ calls[c].stage = "rejected" /\ calls[c].parent = [call |-> d, maker |-> m]
  /\ calls[c].parent # NoParent /\ c # Root /\ ~matching /\ matching' = matching
  /\ parts[d][m].stage = "retrying" /\ onePart(d, m) /\ parts'[d][m] = NoPart
  /\ \A e \in Calls : e # c /\ e # d => calls'[e] = calls[e]
  /\ \A e \in Calls : /\ calls'[e].failed = calls[e].failed /\ calls'[e].invalid = calls[e].invalid
                      /\ calls'[e].remaining = calls[e].remaining
                      /\ calls'[e].quantity = calls[e].quantity
                      /\ e # c => calls'[e].parent = calls[e].parent
                      /\ e # d => calls'[e].stage = calls[e].stage
  /\ calls'[c].parent = NoParent /\ calls'[d].stage = "rejected"
  /\ calls[d].stage \in {"swapping", "rejected"}

LEMMA RetryRejectsAt ==
  ASSUME CallsInv, NEW c \in Calls, RetryRejects(c)
  PROVE  \E d \in Calls, m \in Ids : retryRejects(c, d, m)
<1>1. /\ c # Root /\ calls[c].stage = "rejected" /\ calls[c].parent # NoParent
      /\ CallsTyped /\ DOMAIN calls = Calls
  BY DEF RetryRejects, rejecting, CallsInv, CallsTyped, CallsOK
<1>2. PICK d \in Calls, m \in Ids :
        /\ calls[c].parent = [call |-> d, maker |-> m] /\ calls[c].parent.call = d /\ calls[c].parent.maker = m
        /\ parts[d][m].stage = "retrying" /\ calls[d].stage \in {"swapping", "rejected"}
  BY <1>1, ParentFacts
<1>3. /\ calls' = [calls EXCEPT ![c].parent = NoParent, ![d].stage = "rejected"]
      /\ ends(d, m) /\ ~matching /\ matching' = matching
  BY <1>2 DEF RetryRejects, pairVars
<1>4. calls[d] \in CallRecords /\ calls[c] \in CallRecords
  BY <1>1, CallFields
<1>5. /\ \A e \in Calls : e # c /\ e # d => calls'[e] = calls[e]
      /\ calls'[c].parent = NoParent /\ calls'[d].stage = "rejected"
      /\ c # d => calls'[d].parent = calls[d].parent /\ calls'[c].stage = calls[c].stage
      /\ \A e \in {c, d} : /\ calls'[e].failed = calls[e].failed /\ calls'[e].invalid = calls[e].invalid
                           /\ calls'[e].remaining = calls[e].remaining
                           /\ calls'[e].quantity = calls[e].quantity
  <2>1. CASE c = d
    BY <1>1, <1>3, <1>4, <2>1 DEF CallRecords
  <2>2. CASE c # d
    BY <1>1, <1>3, <1>4, <2>2 DEF CallRecords
  <2> QED BY <2>1, <2>2
<1>6. onePart(d, m) /\ parts'[d][m] = NoPart
  BY <1>1, <1>3, EndsAt DEF onePart
<1>7. retryRejects(c, d, m)
  BY <1>1, <1>2, <1>3, <1>5, <1>6 DEF retryRejects
<1> QED BY <1>7

LEMMA ForgottenAt ==
  ASSUME CallsInv, NEW c \in Calls, RetryForgotten(c)
  PROVE  /\ others(c) /\ calls'[c] = NoCall /\ c # Root /\ calls[c].stage = "rejected"
         /\ calls[c].parent = NoParent /\ \A n \in Ids : parts[c][n].stage = "none"
         /\ parts' = parts /\ idle /\ matching' = matching
BY DEF RetryForgotten, running, others, CallsInv, CallsTyped, CallsOK, pairVars

LEMMA RootEndsAt ==
  ASSUME CallsInv, RootEnds
  PROVE  /\ others(Root) /\ calls[Root].stage = "swapping" /\ calls'[Root].stage = "ended"
         /\ calls'[Root].quantity = calls[Root].quantity /\ calls'[Root].remaining = 0
         /\ calls'[Root].parent = NoParent /\ calls'[Root].failed = NoCall.failed
         /\ \A n \in Ids : parts[Root][n].stage = "none"
         /\ parts' = parts /\ ~matching /\ matching' = matching
<1>1. /\ calls' = [calls EXCEPT ![Root] = [NoCall EXCEPT !.stage = "ended", !.quantity = calls[Root].quantity]]
      /\ DOMAIN calls = Calls /\ Root \in Calls
  BY RootIsCall DEF RootEnds, CallsInv, CallsTyped, CallsOK
<1>2. others(Root) /\ calls'[Root] = [NoCall EXCEPT !.stage = "ended", !.quantity = calls[Root].quantity]
  BY <1>1 DEF others
<1>3. /\ calls'[Root].stage = "ended" /\ calls'[Root].quantity = calls[Root].quantity
      /\ calls'[Root].remaining = 0 /\ calls'[Root].parent = NoParent
      /\ calls'[Root].failed = NoCall.failed
  BY <1>2 DEF NoCall
<1>4. done(Root) /\ ~matching /\ parts' = parts /\ matching' = matching
  BY DEF RootEnds, matchVars
<1>5. calls[Root].stage = "swapping" /\ \A n \in Ids : parts[Root][n].stage = "none"
  BY <1>4 DEF done, running
<1> QED BY <1>2, <1>3, <1>4, <1>5

LEMMA NoCallFields ==
  /\ NoCall.stage = "none" /\ NoCall.parent = NoParent /\ NoCall.remaining = 0
  /\ NoCall.invalid = {} /\ \A p \in PeerIds : NoCall.failed[p] = NoOrder
BY DEF NoCall

\* A call that nobody waits for stops, or starts, or changes its stage.
LEMMA OneCallMoves ==
  ASSUME CallsInv, NEW c \in Calls, others(c), parts' = parts, matching' \in BOOLEAN,
         c = Root \/ calls[Root].stage # "none",
         calls'[c].parent = calls[c].parent,
         calls'[c].stage \in Stages,
         calls'[c].stage = "none" => calls'[c] = NoCall /\ c # Root,
         calls'[c].stage \in {"none", "checking", "ended"} => \A m \in Ids : parts[c][m].stage = "none",
         calls'[c].stage = "matching" =>
           /\ matching' /\ ~matching /\ \A m \in Ids : parts[c][m].stage = "none",
         calls'[c].stage = "ended" => c = Root,
         c # Root /\ calls[c].parent = NoParent => calls'[c].stage \in {"none", "rejected"},
         calls'[c].stage # "matching" =>
           matching' = matching \/ (calls[c].stage = "matching" /\ ~matching')
  PROVE  Stagings' /\ Links'
<1>1. \A d \in Calls : d # c => calls'[d] = calls[d]
  BY DEF others
<1>2. \A d \in Calls : calls'[d].parent = calls[d].parent
  BY <1>1
<1>3. Links'
  <2>1. \A d \in Calls \ {Root} : calls[d].parent = NoParent => calls'[d].stage \in {"none", "rejected"}
    BY <1>1 DEF CallsInv, Links
  <2> QED BY <1>2, <2>1, LinksStay
<1>4. \A d \in Calls : calls'[d].stage = "none" => calls'[d] = NoCall
  BY <1>1 DEF CallsInv, Stagings
<1>5. \A d \in Calls : calls'[d].stage \in {"none", "checking", "ended"} =>
        \A m \in Ids : parts'[d][m].stage = "none"
  BY <1>1 DEF CallsInv, Stagings
<1>6. \A d \in Calls : calls'[d].stage = "matching" =>
        matching' /\ \A m \in Ids : parts'[d][m].stage \in {"none", "filling", "starting"}
  <2> SUFFICES ASSUME NEW d \in Calls, calls'[d].stage = "matching"
               PROVE  matching' /\ \A m \in Ids : parts'[d][m].stage \in {"none", "filling", "starting"}
    OBVIOUS
  <2>1. CASE d = c
    BY <2>1
  <2>2. CASE d # c
    <3>1. calls[d].stage = "matching" /\ matching
      BY <1>1, <2>2 DEF CallsInv, Stagings
    <3>2. calls[c].stage # "matching"
      BY <2>2, <3>1 DEF CallsInv, Stagings
    <3>3. calls'[c].stage # "matching" /\ matching'
      BY <3>1, <3>2
    <3> QED BY <3>1, <3>3 DEF CallsInv, Stagings
  <2> QED BY <2>1, <2>2
<1>7. \A d, e \in Calls : calls'[d].stage = "matching" /\ calls'[e].stage = "matching" => d = e
  <2>1. \A d \in Calls : d # c /\ calls'[d].stage = "matching" => calls[d].stage = "matching" /\ matching
    BY <1>1 DEF CallsInv, Stagings
  <2> QED BY <2>1 DEF CallsInv, Stagings
<1>8. calls'[Root].stage = "none" => \A d \in Calls : calls'[d].stage = "none"
  BY <1>1, RootIsCall DEF CallsInv, Stagings
<1>9. \A d \in Calls \ {Root} : calls'[d].stage # "ended"
  BY <1>1 DEF CallsInv, Stagings
<1> QED BY <1>3, <1>4, <1>5, <1>6, <1>7, <1>8, <1>9 DEF Stagings

LEMMA MovesLinks ==
  ASSUME BookInv, CallsInv, NEW c \in Calls,
         \/ c = Root /\ (Places \/ RootEnds)
         \/ CallRejects(c) \/ CallMatches(c) \/ CallSwaps(c) \/ RetryForgotten(c)
  PROVE  Stagings' /\ Links'
<1>1. calls[c].stage # "none" => calls[Root].stage # "none"
  BY DEF CallsInv, Stagings
<1>2. matching \in BOOLEAN
  BY DEF BookInv, PairTypeOK
<1>3. CASE c = Root /\ Places
  <2>1. /\ others(c) /\ calls[c].stage = "none" /\ calls'[c].stage = "checking" /\ c = Root
        /\ calls'[c].parent = NoParent /\ parts' = parts /\ ~matching /\ matching' = matching
    BY <1>3, PlacesAt
  <2>2. \A m \in Ids : parts[c][m].stage = "none"
    BY <2>1 DEF CallsInv, Stagings
  <2>3. calls[c].parent = NoParent
    BY <2>1 DEF CallsInv, Links
  <2>4. calls'[c].stage \in Stages
    BY <2>1 DEF Stages
  <2> QED BY <1>2, <2>1, <2>2, <2>3, <2>4, OneCallMoves
<1>4. CASE c = Root /\ RootEnds
  <2>1. /\ others(c) /\ calls[c].stage = "swapping" /\ calls'[c].stage = "ended" /\ c = Root
        /\ calls'[c].parent = NoParent /\ \A n \in Ids : parts[c][n].stage = "none"
        /\ parts' = parts /\ ~matching /\ matching' = matching
    BY <1>4, RootEndsAt
  <2>2. calls[c].parent = NoParent
    BY <2>1 DEF CallsInv, Links
  <2>3. calls'[c].stage \in Stages
    BY <2>1 DEF Stages
  <2> QED BY <1>2, <2>1, <2>2, <2>3, OneCallMoves
<1>5. CASE CallRejects(c)
  <2>1. /\ others(c) /\ calls[c].stage = "checking" /\ calls'[c].stage = "rejected"
        /\ calls'[c].parent = calls[c].parent /\ parts' = parts /\ matching' = matching
    BY <1>5, RejectsAt DEF CallRejects, keeps, pairVars
  <2>2. calls'[c].stage \in Stages
    BY <2>1 DEF Stages
  <2> QED BY <1>1, <1>2, <2>1, <2>2, OneCallMoves
<1>6. CASE CallMatches(c)
  <2>1. /\ others(c) /\ calls[c].stage = "checking" /\ calls'[c].stage = "matching"
        /\ calls'[c].parent = calls[c].parent /\ parts' = parts /\ ~matching /\ matching' = TRUE
    BY <1>6, MatchesAt DEF keeps, idle
  <2>2. \A m \in Ids : parts[c][m].stage = "none"
    BY <2>1 DEF CallsInv, Stagings
  <2>3. calls'[c].stage \in Stages
    BY <2>1 DEF Stages
  <2>4. c # Root => calls[c].parent # NoParent
    BY <2>1 DEF CallsInv, Links
  <2> QED BY <1>1, <2>1, <2>2, <2>3, <2>4, OneCallMoves
<1>7. CASE CallSwaps(c)
  <2>1. /\ others(c) /\ calls[c].stage = "matching" /\ calls'[c].stage = "swapping"
        /\ calls'[c].parent = calls[c].parent /\ parts' = parts /\ matching' = FALSE
    BY <1>7, SwapsAt DEF keeps
  <2>2. calls'[c].stage \in Stages
    BY <2>1 DEF Stages
  <2>3. c # Root => calls[c].parent # NoParent
    BY <2>1 DEF CallsInv, Links
  <2> QED BY <1>1, <2>1, <2>2, <2>3, OneCallMoves
<1>8. CASE RetryForgotten(c)
  <2>1. /\ others(c) /\ calls'[c] = NoCall /\ c # Root /\ calls[c].stage = "rejected"
        /\ calls[c].parent = NoParent /\ \A n \in Ids : parts[c][n].stage = "none"
        /\ parts' = parts /\ matching' = matching
    BY <1>8, ForgottenAt
  <2>2. calls'[c].stage \in Stages /\ calls'[c].stage = "none" /\ calls'[c].parent = NoParent
    BY <2>1, NoCallFields DEF Stages
  <2> QED BY <1>1, <1>2, <2>1, <2>2, OneCallMoves
<1> QED BY <1>3, <1>4, <1>5, <1>6, <1>7, <1>8

LEMMA MeetsLinks ==
  ASSUME BookInv, CallsInv, NEW c \in Calls, NEW maker \in Ids, CallMeets(c, maker)
  PROVE  Stagings' /\ Links'
<1>1. /\ calls' = calls /\ calls[c].stage = "matching" /\ matching' = matching
      /\ onePart(c, maker) /\ parts'[c][maker].stage \in {"filling", "starting"}
  BY MeetsAt
<1>2. Stagings'
  BY <1>1 DEF CallsInv, Stagings, onePart
<1>3. Links'
  <2>1. parts[c][maker].stage # "retrying"
    BY <1>1 DEF CallsInv, Stagings
  <2>2. \A d \in Calls, n \in Ids : parts[d][n].stage = "retrying" => parts'[d][n].stage = "retrying"
    BY <1>1, <2>1 DEF onePart
  <2>3. \A d \in Calls \ {Root} : calls[d].parent = NoParent => calls'[d].stage \in {"none", "rejected"}
    BY <1>1 DEF CallsInv, Links
  <2> QED BY <1>1, <2>2, <2>3, LinksStay
<1> QED BY <1>2, <1>3

\* The link of a retry goes, and the part that waits with it.
LEMMA LinkEnds ==
  ASSUME CallsInv, NEW c \in Calls, NEW d \in Calls, NEW m \in Ids,
         calls[c].parent = [call |-> d, maker |-> m], calls[c].parent # NoParent,
         onePart(d, m), calls'[c].parent = NoParent,
         \A e \in Calls : e # c => calls'[e].parent = calls[e].parent,
         calls'[c].stage \in {"none", "rejected"},
         \A e \in Calls : e # c /\ calls[e].parent = NoParent =>
           calls'[e].stage = calls[e].stage \/ calls'[e].stage = "rejected"
  PROVE  Links'
<1>1. ASSUME NEW e \in Calls, calls'[e].parent # NoParent
      PROVE  /\ calls'[e].parent.call \in Calls
             /\ parts'[calls'[e].parent.call][calls'[e].parent.maker].stage = "retrying"
  <2>1. e # c /\ calls'[e].parent = calls[e].parent
    BY <1>1
  <2>2. /\ calls[e].parent \in Parents /\ calls[e].parent.call \in Calls /\ calls[e].parent.maker \in Ids
        /\ parts[calls[e].parent.call][calls[e].parent.maker].stage = "retrying"
    BY <1>1, <2>1, CallFields DEF CallsInv, Links, Parents
  <2>3. calls[e].parent # [call |-> d, maker |-> m]
    BY <1>1, <2>1 DEF CallsInv, Links
  <2>4. calls[e].parent.call # d \/ calls[e].parent.maker # m
    BY <2>2, <2>3 DEF Parents
  <2> QED BY <2>1, <2>2, <2>4 DEF onePart
<1>2. ASSUME NEW e \in Calls, NEW f \in Calls, e # f, calls'[e].parent # NoParent
      PROVE  calls'[e].parent # calls'[f].parent
  <2>1. e # c /\ calls'[e].parent = calls[e].parent /\ calls[e].parent # NoParent
    BY <1>2
  <2> QED BY <1>2, <2>1 DEF CallsInv, Links
<1>3. calls'[Root].parent = NoParent
  BY RootIsCall DEF CallsInv, Links
<1>4. \A e \in Calls \ {Root} : calls'[e].parent = NoParent => calls'[e].stage \in {"none", "rejected"}
  BY DEF CallsInv, Links
<1> QED BY <1>1, <1>2, <1>3, <1>4 DEF Links

LEMMA EndsLinks ==
  ASSUME BookInv, CallsInv, NEW c \in Calls, RetryEnds(c) \/ RetryRejects(c)
  PROVE  Stagings' /\ Links'
<1>1. matching \in BOOLEAN
  BY DEF BookInv, PairTypeOK
<1>2. CASE RetryEnds(c)
  <2>1. PICK d \in Calls, m \in Ids :
          /\ retryEnds(c, d, m) /\ calls[c].stage = "swapping" /\ calls'[c] = NoCall
          /\ \A n \in Ids : parts[c][n].stage = "none"
          /\ calls'[d].stage = calls[d].stage
    BY <1>2, RetryEndsAt
  <2>2. Links'
    BY <2>1, LinkEnds, NoCallFields DEF retryEnds, keeps
  <2>3. \A e \in Calls : e # c => calls'[e].stage = calls[e].stage
    BY <2>1 DEF retryEnds
  <2>4. calls[d].stage # "none"
    BY <2>1 DEF retryEnds, CallsInv, Stagings
  <2>5. \A e \in Calls, n \in Ids : parts[e][n].stage = "none" => parts'[e][n].stage = "none"
    BY <2>1, NoPartOK DEF retryEnds, onePart
  <2>6. ~matching /\ ~matching' /\ c # Root
    BY <2>1 DEF retryEnds
  <2>7. Stagings'
    <3>1. \A e \in Calls : calls'[e].stage = "none" => calls'[e] = NoCall
      BY <2>1, <2>3, <2>4 DEF retryEnds, CallsInv, Stagings
    <3>2. \A e \in Calls : calls'[e].stage \in {"none", "checking", "ended"} =>
            \A n \in Ids : parts'[e][n].stage = "none"
      BY <2>1, <2>3, <2>5 DEF CallsInv, Stagings
    <3>3. \A e \in Calls : calls'[e].stage # "matching"
      BY <2>1, <2>3, <2>6, NoCallFields DEF CallsInv, Stagings
    <3>4. calls'[Root].stage # "none"
      BY <2>1, <2>3, <2>6, RootIsCall DEF CallsInv, Stagings
    <3>5. \A e \in Calls \ {Root} : calls'[e].stage # "ended"
      BY <2>1, <2>3, NoCallFields DEF CallsInv, Stagings
    <3> QED BY <3>1, <3>2, <3>3, <3>4, <3>5 DEF Stagings
  <2> QED BY <2>2, <2>7
<1>3. CASE RetryRejects(c)
  <2>0. PICK d \in Calls, m \in Ids : retryRejects(c, d, m)
    BY <1>3, RetryRejectsAt
  <2>1. /\ calls[c].stage = "rejected" /\ calls[c].parent = [call |-> d, maker |-> m]
        /\ calls[c].parent # NoParent /\ c # Root /\ ~matching /\ matching' = matching
        /\ parts[d][m].stage = "retrying" /\ onePart(d, m) /\ parts'[d][m] = NoPart
        /\ \A e \in Calls : e # c /\ e # d => calls'[e] = calls[e]
        /\ \A e \in Calls : /\ e # c => calls'[e].parent = calls[e].parent
                            /\ e # d => calls'[e].stage = calls[e].stage
        /\ calls'[c].parent = NoParent /\ calls'[d].stage = "rejected"
    BY <2>0 DEF retryRejects
  <2>2. Links'
    BY <2>1, LinkEnds
  <2>3. \A e \in Calls : calls'[e].stage \in {calls[e].stage, "rejected"}
    BY <2>1
  <2>4. \A e \in Calls, n \in Ids : parts[e][n].stage = "none" => parts'[e][n].stage = "none"
    BY <2>1, NoPartOK DEF onePart
  <2>5. Stagings'
    <3>1. \A e \in Calls : calls'[e].stage = "none" => calls'[e] = NoCall
      BY <2>1 DEF CallsInv, Stagings
    <3>2. \A e \in Calls : calls'[e].stage \in {"none", "checking", "ended"} =>
            \A n \in Ids : parts'[e][n].stage = "none"
      BY <2>3, <2>4 DEF CallsInv, Stagings
    <3>3. \A e \in Calls : calls'[e].stage # "matching"
      BY <2>1, <2>3 DEF CallsInv, Stagings
    <3>4. calls'[Root].stage # "none"
      BY <2>1, <2>3, RootIsCall DEF CallsInv, Stagings
    <3>5. \A e \in Calls \ {Root} : calls'[e].stage # "ended"
      BY <2>3 DEF CallsInv, Stagings
    <3> QED BY <3>1, <3>2, <3>3, <3>4, <3>5 DEF Stagings
  <2> QED BY <2>2, <2>5
<1> QED BY <1>2, <1>3

\* The failed order that a swap leaves.
failedOrders(c, p) == [calls[c].failed EXCEPT ![p] = failedOrder(c, p)]

\* A part fails, all of it or the rest, and is placed again.
retried(c, p, quantity, swapped, failed) ==
  /\ idle /\ active(c) /\ parts[c][p].stage = "swapping" /\ matching' = matching
  /\ retryFailedSwap(c, p, quantity, failed, swapped)
  /\ quantity + swapped = parts[c][p].order.quantity
  /\ \A peer \in PeerIds : failed[peer].hold = 0
  /\ \/ /\ failed = calls[c].failed /\ traded(p, swapped)
        /\ UNCHANGED <<pairVars, root, timeUp, connected, late>>
     \/ /\ failed = failedOrders(c, p) /\ swapped = 0
        /\ book' = [book EXCEPT ![p] = NoOrder]
        /\ UNCHANGED <<matchVars, offered, root, timeUp, connected, told, late>>

LEMMA RetrySteps ==
  ASSUME BookInv, CallsInv, NEW c \in Calls, NEW p \in PeerIds,
         SwapFails(c, p) \/ \E accepted \in Parts : SwapPartly(c, p, accepted)
  PROVE  \E quantity \in Nat, swapped \in Nat, failed \in [PeerIds -> Orders] :
           retried(c, p, quantity, swapped, failed)
<1>1. CallsTyped /\ p \in Ids /\ parts[c][p].order.quantity \in Nat
  BY PartFields DEF CallsInv, Ids
<1>2. ASSUME NEW accepted \in Parts, SwapPartly(c, p, accepted)
      PROVE  \E quantity \in Nat, swapped \in Nat, failed \in [PeerIds -> Orders] :
               retried(c, p, quantity, swapped, failed)
  <2> DEFINE quantity == parts[c][p].order.quantity - accepted
  <2>1. /\ accepted \in Nat /\ quantity \in Nat
        /\ calls[c].failed \in [PeerIds -> Orders] /\ \A peer \in PeerIds : calls[c].failed[peer].hold = 0
    BY <1>1, <1>2, CallFields, PlaceOrderAssumption DEF SwapPartly, CallOK
  <2>2. /\ idle /\ active(c) /\ parts[c][p].stage = "swapping" /\ matching' = matching
        /\ retryFailedSwap(c, p, quantity, calls[c].failed, accepted)
        /\ traded(p, accepted) /\ UNCHANGED <<pairVars, root, timeUp, connected, late>>
    BY <1>2 DEF SwapPartly, pairVars
  <2>3. quantity + accepted = parts[c][p].order.quantity
    BY <1>1, <2>1
  <2> HIDE DEF quantity
  <2>4. retried(c, p, quantity, accepted, calls[c].failed)
    BY <2>1, <2>2, <2>3 DEF retried
  <2> QED BY <2>1, <2>4
<1>3. ASSUME SwapFails(c, p)
      PROVE  \E quantity \in Nat, swapped \in Nat, failed \in [PeerIds -> Orders] :
               retried(c, p, quantity, swapped, failed)
  <2>1. failedOrders(c, p) \in [PeerIds -> Orders] /\ \A peer \in PeerIds : failedOrders(c, p)[peer].hold = 0
    BY <1>1, FailedOrderOK DEF failedOrders
  <2>2. /\ idle /\ active(c) /\ parts[c][p].stage = "swapping" /\ matching' = matching
        /\ retryFailedSwap(c, p, parts[c][p].order.quantity, failedOrders(c, p), 0)
        /\ book' = [book EXCEPT ![p] = NoOrder]
        /\ UNCHANGED <<matchVars, offered, root, timeUp, connected, told, late>>
    BY <1>3 DEF SwapFails, matchVars, failedOrders
  <2>3. parts[c][p].order.quantity + 0 = parts[c][p].order.quantity
    BY <1>1
  <2>4. retried(c, p, parts[c][p].order.quantity, 0, failedOrders(c, p))
    BY <2>1, <2>2, <2>3 DEF retried
  <2> QED BY <1>1, <2>1, <2>4
<1> QED BY <1>2, <1>3

LEMMA CallsStep ==
  ASSUME BookInv, CallsInv, PlaceNext
  PROVE  BookInv' /\ CallsInv'
<1>1. BookInv' /\ CallsTyped'
  BY TypesStep
<1>2. ASSUME Environment PROVE Stagings' /\ Links'
  <2>1. CASE Places
    <3>1. PICK c \in Calls : c = Root
      BY RootIsCall
    <3> QED BY <2>1, <3>1, MovesLinks
  <2>2. ASSUME NEW p \in PeerIds, NEW quantity \in withdrawals(p), PeerInvalidates(p, quantity)
        PROVE  Stagings' /\ Links'
    <3>1. matching' = matching /\ parts' = parts
      BY <2>2 DEF PeerInvalidates, matchVars
    <3>2. ASSUME NEW d \in Calls PROVE same(d)
      <4>1. calls[d] \in CallRecords
        BY CallFields DEF CallsInv
      <4>2. calls'[d] = IF calls[d].stage \in {"swapping", "rejected"}
                        THEN [calls[d] EXCEPT !.invalid = @ \cup {p}] ELSE calls[d]
        BY <2>2 DEF PeerInvalidates
      <4> QED BY <4>1, <4>2 DEF same, CallRecords
    <3> QED BY <3>1, <3>2, NothingMoves
  <2>3. ASSUME matching' = matching, parts' = parts, calls' = calls PROVE Stagings' /\ Links'
    BY <2>3, NothingMoves DEF same
  <2>4. ASSUME NEW p \in PeerIds, PeerOffers(p) \/ PeerCloses(p) \/ PeerReopens(p)
        PROVE  Stagings' /\ Links'
    BY <2>3, <2>4 DEF PeerOffers, PeerCloses, PeerReopens, matchVars, pairVars, callVars
  <2>5. ASSUME NEW id \in OwnIds, OwnOffers(id) \/ OwnCancels(id)
        PROVE  Stagings' /\ Links'
    BY <2>3, <2>5 DEF OwnOffers, OwnCancels, matchVars, placeVars, callVars
  <2>6. CASE TimePasses
    BY <2>3, <2>6 DEF TimePasses, pairVars
  <2> QED BY <1>2, <2>1, <2>2, <2>4, <2>5, <2>6 DEF Environment
<1>3. ASSUME Proceeds PROVE Stagings' /\ Links'
  <2>1. CASE RootEnds
    <3>1. PICK c \in Calls : c = Root
      BY RootIsCall
    <3> QED BY <2>1, <3>1, MovesLinks
  <2>2. ASSUME NEW c \in Calls, CallRejects(c) \/ CallMatches(c) \/ CallSwaps(c) \/ RetryForgotten(c)
        PROVE  Stagings' /\ Links'
    BY <2>2, MovesLinks
  <2>3. ASSUME NEW c \in Calls, RetryEnds(c) \/ RetryRejects(c) PROVE Stagings' /\ Links'
    BY <2>3, EndsLinks
  <2>4. ASSUME NEW c \in Calls, NEW maker \in Ids, CallMeets(c, maker) PROVE Stagings' /\ Links'
    BY <2>4, MeetsLinks
  <2>5. ASSUME NEW c \in Calls, NEW m \in Ids,
               \/ FillSaved(c, m) /\ m \in OwnIds
               \/ PartThrows(c, m)
               \/ m \in PeerIds /\ (SwapStarts(c, m) \/ SwapSucceeds(c, m) \/ SwapUnsaved(c, m))
        PROVE  Stagings' /\ Links'
    BY <2>5, PartSteps, PartMoves
  <2>6. ASSUME NEW c \in Calls, NEW p \in PeerIds,
               SwapFails(c, p) \/ \E accepted \in Parts : SwapPartly(c, p, accepted)
        PROVE  Stagings' /\ Links'
    <3>1. \E quantity \in Nat, swapped \in Nat, failed \in [PeerIds -> Orders] :
             retried(c, p, quantity, swapped, failed)
      BY <2>6, RetrySteps
    <3>2. PICK quantity \in Nat, swapped \in Nat, failed \in [PeerIds -> Orders] :
            retried(c, p, quantity, swapped, failed)
      BY <3>1
    <3> QED BY <3>2, RetryLinks DEF retried
  <2> QED BY <1>3, <2>1, <2>2, <2>3, <2>4, <2>5, <2>6 DEF Proceeds, Ids
<1> QED BY <1>1, <1>2, <1>3 DEF PlaceNext, CallsInv

-----------------------------------------------------------------------------
(* What is met while a call matches *)

\* What is wanted still has taken all of each order it met.
MeetInv ==
  \A c \in Calls : calls[c].stage = "matching" /\ taker.quantity > 0 =>
    \A m \in Ids : parts[c][m].stage # "none" => book[m].quantity = 0

\* Nothing but match runs while it does.
LEMMA MatchingSteps ==
  ASSUME BookInv, CallsInv, PlaceNext, matching'
  PROVE  \/ \E c \in Calls : CallMatches(c)
         \/ \E c \in Calls, maker \in Ids : CallMeets(c, maker)
<1> SUFFICES ASSUME ~matching, matching' = matching PROVE FALSE
  <2>1. CASE Environment
    <3>1. ~matching /\ matching' = matching
      BY <2>1 DEF Environment, PeerOffers, PeerCloses, PeerReopens, PeerInvalidates, OwnOffers, OwnCancels,
                  Places, TimePasses, matchVars, pairVars, idle
    <3> QED BY <3>1
  <2>2. CASE Proceeds
    <3>1. ASSUME NEW c \in Calls,
                 CallRejects(c) \/ RetryEnds(c) \/ RetryRejects(c) \/ RetryForgotten(c) \/ RootEnds
          PROVE  ~matching /\ matching' = matching
      BY <3>1 DEF CallRejects, RetryEnds, RetryRejects, RetryForgotten, RootEnds, idle, matchVars, pairVars
    <3>2. ASSUME NEW c \in Calls, CallSwaps(c) PROVE FALSE
      BY <3>2, SwapsAt
    <3>3. ASSUME NEW c \in Calls, NEW m \in Ids,
                 \/ FillSaved(c, m) /\ m \in OwnIds
                 \/ PartThrows(c, m)
                 \/ m \in PeerIds /\ (SwapStarts(c, m) \/ SwapSucceeds(c, m) \/ SwapUnsaved(c, m))
          PROVE  ~matching /\ matching' = matching
      BY <3>3 DEF FillSaved, PartThrows, SwapStarts, SwapSucceeds, SwapUnsaved, idle, matchVars, pairVars
    <3>4. ASSUME NEW c \in Calls, NEW p \in PeerIds,
                 SwapFails(c, p) \/ \E accepted \in Parts : SwapPartly(c, p, accepted)
          PROVE  ~matching /\ matching' = matching
      BY <3>4 DEF SwapFails, SwapPartly, idle, matchVars, pairVars
    <3> QED BY <2>2, <3>1, <3>2, <3>3, <3>4, RootIsCall DEF Proceeds, Ids
  <2> QED BY <2>1, <2>2 DEF PlaceNext
<1> QED OBVIOUS

\* An order is met once in a match.
LEMMA MeetsNew ==
  ASSUME BookInv, CallsInv, MeetInv, NEW c \in Calls, NEW maker \in Ids, CallMeets(c, maker)
  PROVE  parts[c][maker].stage = "none" /\ taker.quantity > 0
<1>1. calls[c].stage = "matching" /\ met(maker)
  BY MeetsAt
<1>2. taker.quantity > 0 /\ book[maker].quantity > 0
  BY <1>1 DEF met, matches
<1>3. book[maker].quantity # 0
  BY <1>2, OrderFields
<1> QED BY <1>1, <1>2, <1>3 DEF MeetInv

LEMMA MeetStep ==
  ASSUME BookInv, CallsInv, MeetInv, PlaceNext
  PROVE  MeetInv'
<1>0. CallsInv' /\ BookInv'
  BY CallsStep
<1>1. CASE ~matching'
  BY <1>0, <1>1 DEF CallsInv, Stagings, MeetInv
<1>2. ASSUME NEW c \in Calls, CallMatches(c) PROVE MeetInv'
  <2>1. calls'[c].stage = "matching" /\ parts' = parts /\ calls[c].stage = "checking"
    BY <1>2, MatchesAt
  <2>2. \A m \in Ids : parts'[c][m].stage = "none"
    BY <2>1 DEF CallsInv, Stagings
  <2>3. \A d \in Calls : calls'[d].stage = "matching" => d = c
    BY <1>0, <2>1 DEF CallsInv, Stagings
  <2> QED BY <2>2, <2>3 DEF MeetInv
<1>3. ASSUME NEW c \in Calls, NEW maker \in Ids, CallMeets(c, maker) PROVE MeetInv'
  <2>1. calls' = calls /\ calls[c].stage = "matching" /\ onePart(c, maker) /\ met(maker)
    BY <1>3, MeetsAt
  <2>2. taker.quantity > 0
    BY <1>3, MeetsNew
  <2>3. \A d \in Calls : calls'[d].stage = "matching" => d = c
    BY <2>1 DEF CallsInv, Stagings
  <2>4. taker'.quantity > 0 => taker'.quantity # 0
    BY <1>0 DEF BookInv, PairTypeOK, Takers
  <2>5. ASSUME taker'.quantity > 0, NEW m \in Ids, parts'[c][m].stage # "none"
        PROVE  book'[m].quantity = 0
    <3>1. book' = [book EXCEPT ![maker] = NoOrder] /\ DOMAIN book = Ids
      BY <2>1, <2>4, <2>5 DEF met, BookInv, PairTypeOK
    <3>2. CASE m = maker
      BY <3>1, <3>2, NoOrderHasNothing
    <3>3. CASE m # maker
      <4>1. parts[c][m].stage # "none"
        BY <2>1, <2>5, <3>3 DEF onePart
      <4>2. book[m].quantity = 0
        BY <2>1, <2>2, <4>1 DEF MeetInv
      <4> QED BY <3>1, <3>3, <4>2
    <3> QED BY <3>2, <3>3
  <2> QED BY <2>3, <2>5 DEF MeetInv
<1> QED BY <1>1, <1>2, <1>3, MatchingSteps

-----------------------------------------------------------------------------
(* The order that is replaced, and the one that replaces it *)

ReplacedInv ==
  /\ calls[Root].stage # "ended" => book[NewId].quantity = 0 /\ counts.placed = 0
  /\ calls[Root].stage = "none" => root.replaced = {}
  /\ NewId \notin root.replaced
  /\ ReplacedOnce

\* What a step does to an order of this node.
ownStep(id) ==
  \/ book'[id] = book[id]
  \/ book'[id].quantity = 0
  \/ available(id) > 0 /\ book'[id].quantity <= book[id].quantity
  \/ /\ id \in replacedBy(Root) /\ CallMatches(Root)
     /\ book'[id].quantity = book[id].quantity /\ book'[id].hold = book[id].quantity
  \/ calls[Root].stage = "none" /\ id # NewId
  \/ RootEnds

LEMMA OwnOrdersAt ==
  ASSUME BookInv, CallsInv, PlaceNext, NEW id \in OwnIds
  PROVE  ownStep(id)
<1>0. /\ DOMAIN book = Ids /\ id \in Ids /\ id \notin PeerIds /\ book[id].quantity \in Nat /\ book[id] \in Orders
      /\ CallsTyped
  BY OrderFields, IdsAssumption DEF BookInv, PairTypeOK, CallsInv, Ids
<1>1. CASE Environment
  <2>1. ASSUME NEW p \in PeerIds, PeerOffers(p) PROVE ownStep(id)
    BY <1>0, <2>1 DEF PeerOffers, addOrder, ownStep
  <2>2. ASSUME NEW p \in PeerIds, PeerCloses(p) PROVE ownStep(id)
    BY <1>0, <2>2 DEF PeerCloses, removePeerOrders, ownStep
  <2>3. ASSUME NEW p \in PeerIds, NEW quantity \in withdrawals(p), PeerInvalidates(p, quantity)
        PROVE  ownStep(id)
    BY <1>0, <2>3 DEF PeerInvalidates, removeOrder, ownStep
  <2>4. ASSUME NEW other \in OwnIds, OwnOffers(other) PROVE ownStep(id)
    BY <1>0, <2>4 DEF OwnOffers, addOrder, ownStep
  <2>5. ASSUME NEW other \in OwnIds, OwnCancels(other) PROVE ownStep(id)
    <3>1. removeOrder(other, book[other].quantity) /\ UNCHANGED <<matchVars, offered>>
          /\ other \in Ids /\ other \in live
      BY <2>5 DEF OwnCancels, Ids
    <3>2. book[other].quantity \in Nat /\ book[other].quantity > 0
      BY <3>1, OrderFields DEF live
    <3>3. book' = [book EXCEPT ![other] = remainder(other, book[other].quantity)]
      BY <3>1 DEF removeOrder
    <3>4. remainder(other, book[other].quantity) = NoOrder
      BY <3>2 DEF remainder, rest
    <3>5. CASE other = id
      BY <1>0, <3>3, <3>4, <3>5, NoOrderHasNothing DEF ownStep
    <3>6. CASE other # id
      BY <1>0, <3>3, <3>6 DEF ownStep
    <3> QED BY <3>5, <3>6
  <2>6. CASE (\E p \in PeerIds : PeerReopens(p)) \/ Places \/ TimePasses
    BY <2>6 DEF PeerReopens, Places, TimePasses, pairVars, ownStep
  <2> QED BY <1>1, <2>1, <2>2, <2>3, <2>4, <2>5, <2>6 DEF Environment
<1>2. CASE Proceeds
  <2>1. ASSUME NEW c \in Calls, CallMatches(c) PROVE ownStep(id)
    <3>1. book'[id] = IF id \in replacedBy(c) THEN [book[id] EXCEPT !.hold = book[id].quantity] ELSE book[id]
      BY <1>0, <2>1 DEF CallMatches
    <3>2. CASE id \in replacedBy(c)
      <4>1. c = Root /\ CallMatches(Root)
        BY <2>1, <3>2 DEF replacedBy
      <4>2. book'[id].quantity = book[id].quantity /\ book'[id].hold = book[id].quantity
        BY <1>0, <3>1, <3>2 DEF Orders
      <4> QED BY <3>2, <4>1, <4>2 DEF ownStep
    <3> QED BY <3>1, <3>2 DEF ownStep
  <2>2. ASSUME NEW c \in Calls, NEW maker \in Ids, CallMeets(c, maker) PROVE ownStep(id)
    <3>1. /\ MatchFully(maker) \/ MatchAvailable(maker) \/ MatchPart(maker)
          /\ met(maker)
      BY <2>2, MeetsBook DEF CallMeets
    <3>2. matches(maker)
      BY <3>1 DEF met
    <3>3. available(maker) > 0
      BY <3>2, WhatMatches
    <3>4. /\ matchingQuantity(maker) \in Nat \ {0} /\ matchingQuantity(maker) <= book[maker].quantity
          /\ \/ book' = [book EXCEPT ![maker] = NoOrder]
             \/ book' = [book EXCEPT ![maker].quantity = @ - matchingQuantity(maker)]
      BY <3>1 DEF met
    <3>5. CASE maker = id
      <4>1. CASE book' = [book EXCEPT ![maker] = NoOrder]
        BY <1>0, <3>5, <4>1, NoOrderHasNothing DEF ownStep
      <4>2. CASE book' = [book EXCEPT ![maker].quantity = @ - matchingQuantity(maker)]
        <5>1. book'[id].quantity = book[id].quantity - matchingQuantity(maker)
          BY <1>0, <3>5, <4>2 DEF Orders
        <5>2. book'[id].quantity <= book[id].quantity
          BY <1>0, <3>4, <3>5, <5>1
        <5> QED BY <3>3, <3>5, <5>2 DEF ownStep
      <4> QED BY <3>4, <4>1, <4>2
    <3>6. CASE maker # id
      BY <1>0, <3>4, <3>6 DEF ownStep
    <3> QED BY <3>5, <3>6
  <2>3. ASSUME NEW c \in Calls, CallSwaps(c) PROVE ownStep(id)
    BY <2>3 DEF CallSwaps, MatchEnds, ownStep
  <2>4. ASSUME NEW c \in Calls, NEW p \in PeerIds, SwapFails(c, p) PROVE ownStep(id)
    BY <1>0, <2>4 DEF SwapFails, ownStep
  <2>5. ASSUME NEW c \in Calls, RetryEnds(c) PROVE ownStep(id)
    <3>1. putsBack(c, book, <<>>) /\ id \notin returning(c) /\ DOMAIN <<>> = {}
      BY <1>0, <2>5 DEF RetryEnds, returning
    <3>2. book'[id] = book[id]
      BY <1>0, <3>1 DEF putsBack
    <3> QED BY <3>2 DEF ownStep
  <2>6. CASE RootEnds
    BY <2>6 DEF ownStep
  <2>7. ASSUME NEW c \in Calls, CallRejects(c) \/ RetryRejects(c) \/ RetryForgotten(c) PROVE ownStep(id)
    BY <2>7 DEF CallRejects, RetryRejects, RetryForgotten, pairVars, ownStep
  <2>8. ASSUME NEW c \in Calls, NEW maker \in Ids,
               FillSaved(c, maker) \/ PartThrows(c, maker) \/ SwapStarts(c, maker)
                 \/ SwapSucceeds(c, maker) \/ SwapUnsaved(c, maker)
        PROVE ownStep(id)
    BY <2>8 DEF FillSaved, PartThrows, SwapStarts, SwapSucceeds, SwapUnsaved, pairVars, ownStep
  <2>9. ASSUME NEW c \in Calls, NEW p \in PeerIds, NEW accepted \in Parts, SwapPartly(c, p, accepted)
        PROVE ownStep(id)
    BY <2>9 DEF SwapPartly, pairVars, ownStep
  <2> QED BY <1>2, <2>1, <2>2, <2>3, <2>4, <2>5, <2>6, <2>7, <2>8, <2>9 DEF Proceeds, Ids
<1> QED BY <1>1, <1>2 DEF PlaceNext

\* The outcomes of a retry, for the call and its part.
refusedAt(c, p, failed) ==
  /\ others(c) /\ keeps(c) /\ onePart(c, p) /\ parts'[c][p] = NoPart
  /\ calls'[c].stage = "rejected" /\ calls'[c].failed = failed
  /\ calls'[c].remaining = calls[c].remaining
tooLateAt(c, p, quantity, failed) ==
  /\ others(c) /\ keeps(c) /\ onePart(c, p) /\ parts'[c][p] = NoPart
  /\ calls'[c].stage = calls[c].stage /\ calls'[c].failed = failed
  /\ calls'[c].remaining = calls[c].remaining + unmatched(quantity)

retriedAt(c, p, quantity, swapped, failed) ==
  \/ refusedAt(c, p, failed) /\ counted(swapped, 0)
  \/ tooLateAt(c, p, quantity, failed) /\ counted(swapped, quantity - unmatched(quantity))
  \/ \E child \in Calls : calledAt(c, p, quantity, failed, child) /\ counted(swapped, 0)

LEMMA RetriedAt ==
  ASSUME CallsInv, NEW c \in Calls, NEW p \in PeerIds, NEW quantity \in Nat, NEW swapped \in Nat,
         NEW failed \in [PeerIds -> Orders], retried(c, p, quantity, swapped, failed)
  PROVE  retriedAt(c, p, quantity, swapped, failed)
<1>1. CallsTyped /\ active(c) /\ retryFailedSwap(c, p, quantity, failed, swapped)
  BY DEF CallsInv, retried
<1>2. CASE retryRefused(c, p, failed) /\ counted(swapped, 0)
  <2>1. refusedAt(c, p, failed)
    BY <1>1, <1>2, RefusedAt DEF refusedAt
  <2> QED BY <1>2, <2>1 DEF retriedAt
<1>3. CASE /\ retryTooLate(c, p, quantity, failed)
           /\ counted(swapped, quantity - unmatched(quantity))
  <2>1. tooLateAt(c, p, quantity, failed)
    BY <1>1, <1>3, TooLateAt DEF tooLateAt
  <2> QED BY <1>3, <2>1 DEF retriedAt
<1>4. CASE retryCalled(c, p, quantity, failed) /\ counted(swapped, 0)
  <2>1. \E child \in Calls : calledAt(c, p, quantity, failed, child)
    BY <1>1, <1>4, CalledAt
  <2> QED BY <1>4, <2>1 DEF retriedAt
<1> QED BY <1>1, <1>2, <1>3, <1>4, RetryOutcomes

\* What a step does to the first call.
rootStep ==
  \/ calls'[Root].stage = calls[Root].stage
  \/ Places
  \/ calls[Root].stage = "checking" /\ calls'[Root].stage = "rejected"
  \/ CallMatches(Root) /\ calls'[Root].stage = "matching"
  \/ calls[Root].stage = "matching" /\ calls'[Root].stage = "swapping"
  \/ calls[Root].stage \in {"swapping", "rejected"} /\ calls'[Root].stage = "rejected"
  \/ RootEnds

LEMMA RootStep ==
  ASSUME BookInv, CallsInv, PlaceNext
  PROVE  rootStep
<1>0. Root \in Calls
  BY RootIsCall
<1>1. CASE Environment
  <2>1. ASSUME NEW p \in PeerIds, NEW quantity \in withdrawals(p), PeerInvalidates(p, quantity)
        PROVE  rootStep
    <3>1. calls[Root] \in CallRecords
      BY <1>0, CallFields DEF CallsInv
    <3>2. calls'[Root] = IF calls[Root].stage \in {"swapping", "rejected"}
                         THEN [calls[Root] EXCEPT !.invalid = @ \cup {p}] ELSE calls[Root]
      BY <1>0, <2>1 DEF PeerInvalidates
    <3> QED BY <3>1, <3>2 DEF rootStep, CallRecords
  <2>2. ASSUME NEW p \in PeerIds, PeerOffers(p) \/ PeerCloses(p) \/ PeerReopens(p)
        PROVE  rootStep
    BY <2>2 DEF PeerOffers, PeerCloses, PeerReopens, callVars, rootStep
  <2>3. ASSUME NEW id \in OwnIds, OwnOffers(id) \/ OwnCancels(id) PROVE rootStep
    BY <2>3 DEF OwnOffers, OwnCancels, placeVars, callVars, rootStep
  <2>4. CASE Places \/ TimePasses
    BY <2>4 DEF TimePasses, rootStep
  <2> QED BY <1>1, <2>1, <2>2, <2>3, <2>4 DEF Environment
<1>2. CASE Proceeds
  <2>1. CASE RootEnds
    BY <2>1 DEF rootStep
  <2>2. ASSUME NEW c \in Calls, CallRejects(c) PROVE rootStep
    BY <1>0, <2>2, RejectsAt DEF CallRejects, others, rootStep
  <2>3. ASSUME NEW c \in Calls, CallMatches(c) PROVE rootStep
    BY <1>0, <2>3, MatchesAt DEF others, rootStep
  <2>4. ASSUME NEW c \in Calls, CallSwaps(c) PROVE rootStep
    BY <1>0, <2>4, SwapsAt DEF others, rootStep
  <2>5. ASSUME NEW c \in Calls, RetryForgotten(c) PROVE rootStep
    BY <1>0, <2>5, ForgottenAt DEF others, rootStep
  <2>6. ASSUME NEW c \in Calls, RetryEnds(c) PROVE rootStep
    <3>1. PICK d \in Calls, m \in Ids : retryEnds(c, d, m) /\ calls'[d].stage = calls[d].stage
      BY <2>6, RetryEndsAt
    <3> QED BY <1>0, <3>1 DEF retryEnds, rootStep
  <2>7. ASSUME NEW c \in Calls, RetryRejects(c) PROVE rootStep
    <3>1. PICK d \in Calls, m \in Ids : retryRejects(c, d, m)
      BY <2>7, RetryRejectsAt
    <3> QED BY <1>0, <3>1 DEF retryRejects, rootStep
  <2>8. ASSUME NEW c \in Calls, NEW maker \in Ids, CallMeets(c, maker) PROVE rootStep
    BY <2>8, MeetsAt DEF rootStep
  <2>9. ASSUME NEW c \in Calls, NEW m \in Ids,
               \/ FillSaved(c, m) /\ m \in OwnIds
               \/ PartThrows(c, m)
               \/ m \in PeerIds /\ (SwapStarts(c, m) \/ SwapSucceeds(c, m) \/ SwapUnsaved(c, m))
        PROVE  rootStep
    <3>1. partMoves(c, m)
      BY <2>9, PartSteps
    <3> QED BY <1>0, <3>1 DEF partMoves, active, rootStep
  <2>10. ASSUME NEW c \in Calls, NEW p \in PeerIds,
                SwapFails(c, p) \/ \E accepted \in Parts : SwapPartly(c, p, accepted)
         PROVE  rootStep
    <3>1. \E quantity \in Nat, swapped \in Nat, failed \in [PeerIds -> Orders] :
             retried(c, p, quantity, swapped, failed)
      BY <2>10, RetrySteps
    <3>2. PICK quantity \in Nat, swapped \in Nat, failed \in [PeerIds -> Orders] :
            retried(c, p, quantity, swapped, failed)
      BY <3>1
    <3>3. retriedAt(c, p, quantity, swapped, failed) /\ active(c)
      BY <3>2, RetriedAt DEF retried
    <3>4. CASE refusedAt(c, p, failed) \/ tooLateAt(c, p, quantity, failed)
      BY <1>0, <3>3, <3>4 DEF refusedAt, tooLateAt, others, active, rootStep
    <3>5. ASSUME NEW child \in Calls, calledAt(c, p, quantity, failed, child) PROVE rootStep
      <4>1. child # Root
        BY <3>3, <3>5 DEF calledAt, CallsInv, Stagings, active
      <4> QED BY <1>0, <3>5, <4>1 DEF calledAt, rootStep
    <3> QED BY <3>3, <3>4, <3>5 DEF retriedAt
  <2> QED BY <1>2, <2>1, <2>2, <2>3, <2>4, <2>5, <2>6, <2>7, <2>8, <2>9, <2>10 DEF Proceeds, Ids
<1> QED BY <1>1, <1>2 DEF PlaceNext

\* The order itself enters the book at the end only.
LEMMA PlacedLast ==
  ASSUME BookInv, CallsInv, PlaceNext
  PROVE  (Places \/ root' = root) /\ (RootEnds \/ counts'.placed = counts.placed)
<1> DEFINE G == (Places \/ root' = root) /\ (RootEnds \/ counts'.placed = counts.placed)
<1>0. CallsTyped /\ counts \in [swapped : Nat, filled : Nat, placed : Nat, discarded : Nat]
  BY DEF CallsInv, CallsTyped
<1>1. CASE Environment
  BY <1>1 DEF Environment, PeerOffers, PeerCloses, PeerReopens, PeerInvalidates, OwnOffers, OwnCancels,
              Places, TimePasses, placeVars, callVars
<1>2. CASE Proceeds
  <2>1. ASSUME NEW c \in Calls,
               \/ CallRejects(c) \/ CallMatches(c) \/ CallSwaps(c) \/ RetryRejects(c) \/ RetryForgotten(c)
               \/ \E m \in Ids : FillSaved(c, m) \/ PartThrows(c, m) \/ SwapStarts(c, m)
        PROVE  G
    BY <2>1 DEF CallRejects, CallMatches, CallSwaps, RetryRejects, RetryForgotten, FillSaved, PartThrows,
                SwapStarts
  <2>2. ASSUME NEW c \in Calls, RetryEnds(c) PROVE G
    <3>1. counted(0, calls[c].remaining - unmatched(calls[c].remaining)) /\ root' = root
          /\ calls[c].remaining - unmatched(calls[c].remaining) \in Nat
      BY <1>0, <2>2, CallFields, UnmatchedNat DEF RetryEnds
    <3> QED BY <1>0, <3>1, CountedOK
  <2>3. CASE RootEnds
    BY <2>3 DEF RootEnds
  <2>4. ASSUME NEW c \in Calls, NEW maker \in Ids, CallMeets(c, maker) PROVE G
    <3>1. /\ root' = root
          /\ counts' = [counts EXCEPT !.filled = @ + IF maker \in OwnIds THEN matchingQuantity(maker) ELSE 0]
      BY <2>4 DEF CallMeets
    <3> QED BY <1>0, <3>1
  <2>5. ASSUME NEW c \in Calls, NEW p \in PeerIds, SwapSucceeds(c, p) \/ SwapUnsaved(c, p) PROVE G
    <3>1. /\ root' = root /\ parts[c][p].order.quantity \in Nat /\ 0 \in Nat
          /\ counted(parts[c][p].order.quantity, 0)
      BY <1>0, <2>5, PartFields DEF SwapSucceeds, SwapUnsaved, Ids
    <3> QED BY <1>0, <3>1, CountedOK
  <2>6. ASSUME NEW c \in Calls, NEW p \in PeerIds,
               SwapFails(c, p) \/ \E accepted \in Parts : SwapPartly(c, p, accepted)
        PROVE  G
    <3>1. \E quantity \in Nat, swapped \in Nat, failed \in [PeerIds -> Orders] :
             retried(c, p, quantity, swapped, failed)
      BY <2>6, RetrySteps
    <3>2. PICK quantity \in Nat, swapped \in Nat, failed \in [PeerIds -> Orders] :
            retried(c, p, quantity, swapped, failed)
      BY <3>1
    <3>3. retriedAt(c, p, quantity, swapped, failed) /\ root' = root
      BY <3>2, RetriedAt DEF retried
    <3>4. counted(swapped, 0) \/ counted(swapped, quantity - unmatched(quantity))
      BY <3>3 DEF retriedAt
    <3>5. quantity - unmatched(quantity) \in Nat /\ 0 \in Nat
      BY UnmatchedNat
    <3> QED BY <1>0, <3>3, <3>4, <3>5, CountedOK
  <2> QED BY <1>2, <2>1, <2>2, <2>3, <2>4, <2>5, <2>6 DEF Proceeds, Ids
<1> QED BY <1>1, <1>2 DEF PlaceNext

LEMMA ReplacedStep ==
  ASSUME BookInv, CallsInv, ReplacedInv, PlaceNext
  PROVE  ReplacedInv'
<1>0. /\ BookInv' /\ CallsInv' /\ rootStep /\ Root \in Calls /\ NewId \in OwnIds /\ NewId \in Ids
      /\ (Places \/ root' = root) /\ (RootEnds \/ counts'.placed = counts.placed)
      /\ \A id \in OwnIds : ownStep(id)
  BY CallsStep, RootStep, PlacedLast, OwnOrdersAt, RootIsCall, PlaceOrderAssumption
<1>1. CASE Places
  <2>1. /\ calls[Root].stage = "none" /\ calls'[Root].stage = "checking" /\ UNCHANGED <<book, counts>>
        /\ root'.replaced \subseteq live /\ NewId \notin live
    <3>1. PICK replaced \in SUBSET (OwnIds \cap live) : root'.replaced = replaced
      BY <1>1 DEF Places
    <3>2. calls[Root].stage = "none" /\ calls'[Root].stage = "checking" /\ UNCHANGED <<book, counts>>
      BY <1>1, PlacesAt DEF Places, pairVars
    <3>3. book[NewId].quantity = 0
      BY <3>2 DEF ReplacedInv
    <3> QED BY <3>1, <3>2, <3>3 DEF live
  <2> QED BY <2>1 DEF ReplacedInv, ReplacedOnce, live
<1>2. CASE RootEnds
  <2>1. /\ putsBack(Root, rootReleased, rootPlaced) /\ calls'[Root].stage = "ended" /\ root' = root
        /\ DOMAIN rootPlaced = IF rootPlaces THEN {NewId} ELSE {}
        /\ calls[Root].stage = "swapping"
    BY <1>2, RootEndsBook, RootEndsAt DEF RootEnds, CallsInv
  <2>2. \A id \in OwnIds : book'[id] = IF id \in DOMAIN rootPlaced THEN rootPlaced[id] ELSE rootReleased[id]
    <3>1. \A id \in OwnIds : id \in Ids /\ id \notin returning(Root)
      BY IdsAssumption DEF returning, Ids
    <3> QED BY <2>1, <3>1 DEF putsBack
  <2>3. NewId \notin root.replaced /\ root.replaced \subseteq OwnIds /\ book[NewId].quantity = 0
    BY <2>1 DEF ReplacedInv, CallsInv, CallsTyped, Roots
  <2>4. CASE rootPlaces
    <3>1. \A id \in root.replaced : book'[id].quantity = 0
      <4> SUFFICES ASSUME NEW id \in root.replaced PROVE book'[id].quantity = 0
        OBVIOUS
      <4>1. id \in OwnIds /\ id # NewId /\ book'[id] = rootReleased[id]
        BY <2>1, <2>2, <2>3
      <4>2. rootReleased[id] = NoOrder
        BY <2>4, <4>1 DEF rootReleased, Ids
      <4> QED BY <4>1, <4>2, NoOrderHasNothing
    <3> QED BY <2>1, <2>3, <3>1 DEF ReplacedInv, ReplacedOnce, live
  <2>5. CASE ~rootPlaces
    <3>1. book'[NewId] = rootReleased[NewId] /\ rootReleased[NewId] = book[NewId]
      BY <1>0, <2>1, <2>2, <2>3, <2>5 DEF rootReleased
    <3> QED BY <2>1, <2>3, <3>1 DEF ReplacedInv, ReplacedOnce, live
  <2> QED BY <2>4, <2>5
<1>3. CASE ~Places /\ ~RootEnds
  <2>1. /\ root' = root /\ counts'.placed = counts.placed
        /\ calls[Root].stage = "none" => calls'[Root].stage = "none"
        /\ calls[Root].stage = "ended" => calls'[Root].stage = "ended"
        /\ calls'[Root].stage = "ended" => calls[Root].stage = "ended"
        /\ calls'[Root].stage = "none" => calls[Root].stage = "none"
        /\ calls'[Root].stage \in {"matching", "swapping"} =>
             CallMatches(Root) \/ calls[Root].stage \in {"matching", "swapping"}
    <3>1. CallMatches(Root) => calls[Root].stage = "checking"
      BY <1>0, MatchesAt
    <3> QED BY <1>0, <1>3, <3>1 DEF rootStep
  <2>2. \A id \in OwnIds : book[id].quantity \in Nat /\ book'[id].quantity \in Nat /\ book[id].hold \in Nat
    BY <1>0 DEF BookInv, PairTypeOK, Orders, Ids
  <2>3. \A id \in OwnIds : calls[Root].stage # "none" \/ id = NewId =>
          book'[id].quantity <= book[id].quantity
    <3> SUFFICES ASSUME NEW id \in OwnIds, calls[Root].stage # "none" \/ id = NewId
                 PROVE  book'[id].quantity <= book[id].quantity
      OBVIOUS
    <3>1. ownStep(id)
      BY <1>0
    <3> QED BY <1>3, <2>2, <3>1 DEF ownStep
  <2>4. calls'[Root].stage # "ended" => book'[NewId].quantity = 0 /\ counts'.placed = 0
    BY <1>0, <2>1, <2>2, <2>3 DEF ReplacedInv
  <2>5. ASSUME NEW id \in root'.replaced \cap live' PROVE NewId \notin live'
    <3>1. id \in OwnIds /\ id \in root.replaced /\ calls[Root].stage # "none"
      BY <2>1, <2>5 DEF CallsInv, CallsTyped, Roots, ReplacedInv
    <3>2. book'[id].quantity > 0 /\ book'[id].quantity <= book[id].quantity
      BY <2>3, <2>5, <3>1 DEF live
    <3>3. id \in live
      BY <2>2, <3>1, <3>2 DEF live, Ids
    <3>4. NewId \notin live
      BY <3>1, <3>3 DEF ReplacedInv, ReplacedOnce
    <3>5. ~(book[NewId].quantity > 0)
      BY <1>0, <3>4 DEF live
    <3> QED BY <1>0, <2>2, <2>3, <3>5 DEF live
  <2>6. ASSUME NEW id \in root'.replaced \cap live', calls'[Root].stage \in {"matching", "swapping"}
        PROVE  available(id)' = 0
    <3>1. /\ id \in OwnIds /\ id \in Ids /\ id \in root.replaced /\ calls[Root].stage # "none"
          /\ book'[id].quantity > 0 /\ ownStep(id)
      BY <1>0, <2>1, <2>6 DEF CallsInv, CallsTyped, Roots, ReplacedInv, live, Ids
    <3>2. id \in live
      BY <2>2, <2>3, <3>1 DEF live
    <3>3. CASE CallMatches(Root)
      <4>1. book'[id] = [book[id] EXCEPT !.hold = book[id].quantity] /\ book[id] \in Orders
        BY <3>1, <3>3, OrderFields DEF CallMatches, replacedBy
      <4> QED BY <4>1 DEF available, Orders
    <3>4. CASE ~CallMatches(Root)
      <4>1. calls[Root].stage \in {"matching", "swapping"} /\ available(id) = 0
        BY <2>1, <2>6, <3>1, <3>2, <3>4 DEF ReplacedInv, ReplacedOnce
      <4>2. book'[id] = book[id]
        BY <1>3, <3>1, <3>4, <4>1 DEF ownStep
      <4> QED BY <4>1, <4>2 DEF available
    <3> QED BY <3>3, <3>4
  <2> QED BY <2>1, <2>4, <2>5, <2>6 DEF ReplacedInv, ReplacedOnce
<1> QED BY <1>1, <1>2, <1>3

-----------------------------------------------------------------------------
(* What is in the book of an order of a peer, and what can come back to it *)

\* What call c can still put back of the order of p, or swap.
pendingOf(c, p) == inSwap(c, p) + calls[c].failed[p].quantity
pending(p) == SumFunctionOnSet([c \in Calls |-> pendingOf(c, p)], Calls)

trading(c, p) == parts[c][p].stage \in {"starting", "swapping"}

\* Nothing of the order can come back: each call that swaps with it knows that
\* it was withdrawn.
Gone(p) ==
  /\ book[p].quantity = 0
  /\ \A c \in Calls : calls[c].failed[p] = NoOrder /\ (trading(c, p) => p \in calls[c].invalid)

OfferInv(p) ==
  /\ p \notin late => book[p].quantity + pending(p) <= told[p] \/ Gone(p)
  /\ offered[p] = 0 => /\ book[p].quantity = 0
                       /\ \A c \in Calls : calls[c].failed[p] = NoOrder /\ parts[c][p].stage = "none"

OffersInv == \A p \in PeerIds : OfferInv(p)

LEMMA CallsAreFinite == IsFiniteSet(Calls)
BY FS_Interval, PlaceOrderAssumption DEF Calls

\* The numbers above are numbers, now and after the step.
LEMMA PendingNat ==
  ASSUME CallsTyped, NEW c \in Calls, NEW p \in PeerIds
  PROVE  /\ inSwap(c, p) \in Nat /\ calls[c].failed[p].quantity \in Nat /\ calls[c].failed[p] \in Orders
         /\ pendingOf(c, p) \in Nat /\ pendingOf(c, p) = inSwap(c, p) + calls[c].failed[p].quantity
         /\ inSwap(c, p) = IF trading(c, p) THEN parts[c][p].order.quantity ELSE 0
         /\ parts[c][p].order.quantity \in Nat
<1>1. parts[c][p].order.quantity \in Nat /\ calls[c].failed[p] \in Orders
  BY PartFields, CallFields DEF Ids
<1>2. calls[c].failed[p].quantity \in Nat
  BY <1>1 DEF Orders
<1> QED BY <1>1, <1>2 DEF pendingOf, inSwap, trading

LEMMA PendingNatNext ==
  ASSUME CallsTyped', NEW c \in Calls, NEW p \in PeerIds
  PROVE  /\ inSwap(c, p)' \in Nat /\ calls'[c].failed[p].quantity \in Nat
         /\ pendingOf(c, p)' \in Nat
         /\ pendingOf(c, p)' = inSwap(c, p)' + calls'[c].failed[p].quantity
         /\ inSwap(c, p)' = IF trading(c, p)' THEN parts'[c][p].order.quantity ELSE 0
<1>1. parts'[c][p].order.quantity \in Nat /\ calls'[c].failed[p] \in Orders
  BY DEF CallsTyped, CallsOK, CallOK, CallRecords, PartsOK, PartRecords, Orders, Ids
<1>2. calls'[c].failed[p].quantity \in Nat
  BY <1>1 DEF Orders
<1> QED BY <1>1, <1>2 DEF pendingOf, inSwap, trading

\* Call c has no more of the order of p than before.
lessens(c, p) ==
  /\ pendingOf(c, p)' <= pendingOf(c, p)
  /\ calls'[c].failed[p] \in {NoOrder, calls[c].failed[p]}
  /\ trading(c, p)' => trading(c, p) /\ (p \in calls[c].invalid => p \in calls'[c].invalid)
  /\ parts[c][p].stage = "none" => parts'[c][p].stage = "none"

\* The calls but one have no more of it.
LEMMA PendingMoves ==
  ASSUME CallsTyped, CallsTyped', NEW c \in Calls, NEW p \in PeerIds,
         \A d \in Calls \ {c} : lessens(d, p)
  PROVE  /\ pending(p) \in Nat /\ pending(p)' \in Nat
         /\ pending(p)' + pendingOf(c, p) <= pending(p) + pendingOf(c, p)'
<1> DEFINE q == [d \in Calls |-> pendingOf(d, p)]
           r == [d \in Calls |-> pendingOf(d, p)']
<1>1. \A d \in Calls : q[d] \in Nat /\ r[d] \in Nat
  BY PendingNat, PendingNatNext
<1>2. \A d \in Calls \ {c} : r[d] <= q[d]
  BY DEF lessens
<1>3. q[c] = pendingOf(c, p) /\ r[c] = pendingOf(c, p)'
  OBVIOUS
<1>4. pending(p) = SumFunctionOnSet(q, Calls) /\ pending(p)' = SumFunctionOnSet(r, Calls)
  BY DEF pending
<1> HIDE DEF q, r
<1>5. /\ SumFunctionOnSet(q, Calls) \in Nat /\ SumFunctionOnSet(r, Calls) \in Nat
      /\ SumFunctionOnSet(r, Calls) + q[c] <= SumFunctionOnSet(q, Calls) + r[c]
  BY <1>1, <1>2, CallsAreFinite, SumMoves
<1> QED BY <1>3, <1>4, <1>5

LEMMA PendingAtLeast ==
  ASSUME CallsTyped, NEW c \in Calls, NEW p \in PeerIds
  PROVE  pending(p) \in Nat /\ pendingOf(c, p) <= pending(p)
<1> DEFINE q == [d \in Calls |-> pendingOf(d, p)]
<1>1. \A d \in Calls : q[d] \in Nat
  BY PendingNat
<1>2. q[c] = pendingOf(c, p) /\ pending(p) = SumFunctionOnSet(q, Calls)
  BY DEF pending
<1> HIDE DEF q
<1> QED BY <1>1, <1>2, CallsAreFinite, SumAtLeast, SumNat

\* Nor has the book, and the peer offers no less.
OfferKept(p) ==
  /\ book'[p].quantity <= book[p].quantity /\ told[p] <= told'[p]
  /\ offered'[p] = offered[p] /\ (p \in late => p \in late')

LEMMA OfferLessens ==
  ASSUME BookInv, BookInv', CallsTyped, CallsTyped', NEW p \in PeerIds, OfferInv(p), OfferKept(p),
         \A c \in Calls : lessens(c, p)
  PROVE  OfferInv(p)'
<1>0. /\ book[p].quantity \in Nat /\ book'[p].quantity \in Nat /\ told[p] \in Nat /\ told'[p] \in Nat
      /\ NoOrder.quantity = 0
  BY NoOrderHasNothing DEF BookInv, PairTypeOK, Orders, CallsTyped, Ids
<1>1. offered'[p] = 0 => /\ book'[p].quantity = 0
                         /\ \A c \in Calls : calls'[c].failed[p] = NoOrder /\ parts'[c][p].stage = "none"
  BY <1>0 DEF OfferInv, OfferKept, lessens
<1>2. ASSUME p \notin late', Gone(p) PROVE Gone(p)'
  BY <1>0, <1>2 DEF Gone, OfferKept, lessens
<1>3. ASSUME p \notin late', book[p].quantity + pending(p) <= told[p]
      PROVE  book'[p].quantity + pending(p)' <= told'[p]
  <2>1. /\ pending(p) \in Nat /\ pending(p)' \in Nat
        /\ pending(p)' + pendingOf(Root, p) <= pending(p) + pendingOf(Root, p)'
    BY PendingMoves, RootIsCall
  <2>2. /\ pendingOf(Root, p)' <= pendingOf(Root, p) /\ pendingOf(Root, p) \in Nat
        /\ pendingOf(Root, p)' \in Nat
    BY RootIsCall, PendingNat, PendingNatNext DEF lessens
  <2> QED BY <1>0, <1>3, <2>1, <2>2 DEF OfferKept
<1> QED BY <1>1, <1>2, <1>3 DEF OfferInv, OfferKept

\* Between the book, one call and what the peer offers, it moves.
LEMMA OfferMoves ==
  ASSUME BookInv, BookInv', CallsTyped, CallsTyped', NEW c \in Calls, NEW p \in PeerIds, OfferInv(p),
         offered'[p] = offered[p], offered[p] # 0, p \in late => p \in late',
         \A d \in Calls \ {c} : lessens(d, p),
         Gone(p) => Gone(p)',
         book[p].quantity + pendingOf(c, p) <= told[p] =>
           book'[p].quantity + pendingOf(c, p)' + told[p]
             <= book[p].quantity + pendingOf(c, p) + told'[p]
  PROVE  OfferInv(p)'
<1>0. /\ book[p].quantity \in Nat /\ book'[p].quantity \in Nat /\ told[p] \in Nat /\ told'[p] \in Nat
      /\ pendingOf(c, p) \in Nat /\ pendingOf(c, p)' \in Nat
  BY PendingNat, PendingNatNext DEF BookInv, PairTypeOK, Orders, CallsTyped, Ids
<1>1. ASSUME book[p].quantity + pending(p) <= told[p]
      PROVE  book'[p].quantity + pending(p)' <= told'[p]
  <2>1. /\ pending(p) \in Nat /\ pending(p)' \in Nat
        /\ pending(p)' + pendingOf(c, p) <= pending(p) + pendingOf(c, p)'
    BY PendingMoves
  <2>2. pendingOf(c, p) <= pending(p)
    BY PendingAtLeast
  <2> QED BY <1>0, <1>1, <2>1, <2>2
<1> QED BY <1>1 DEF OfferInv

\* A call that is the same.
LEMMA SameLessens ==
  ASSUME CallsTyped, NEW c \in Calls, NEW p \in PeerIds,
         calls'[c].failed[p] = calls[c].failed[p], calls[c].invalid \subseteq calls'[c].invalid,
         parts'[c][p] = parts[c][p]
  PROVE  lessens(c, p) /\ pendingOf(c, p)' = pendingOf(c, p)
<1>1. pendingOf(c, p)' = pendingOf(c, p) /\ pendingOf(c, p) \in Nat
  BY PendingNat DEF pendingOf, inSwap
<1> QED BY <1>1 DEF lessens, trading

\* A part that is over, or waits, or starts.
LEMMA EndLessens ==
  ASSUME CallsTyped, CallsTyped', NEW c \in Calls, NEW p \in PeerIds,
         calls'[c].failed[p] \in {NoOrder, calls[c].failed[p]},
         ~trading(c, p)',
         parts[c][p].stage = "none" => parts'[c][p].stage = "none"
  PROVE  lessens(c, p)
<1>1. /\ inSwap(c, p)' = 0 /\ pendingOf(c, p) \in Nat
      /\ pendingOf(c, p)' = inSwap(c, p)' + calls'[c].failed[p].quantity
      /\ pendingOf(c, p) = inSwap(c, p) + calls[c].failed[p].quantity
      /\ inSwap(c, p) \in Nat /\ calls[c].failed[p].quantity \in Nat
      /\ NoOrder.quantity = 0
  BY PendingNat, PendingNatNext, NoOrderHasNothing
<1>2. pendingOf(c, p)' <= pendingOf(c, p)
  BY <1>1
<1> QED BY <1>2 DEF lessens

\* It is gone, or was withdrawn too late.
LEMMA OfferGoes ==
  ASSUME BookInv, BookInv', CallsTyped, CallsTyped', NEW p \in PeerIds, OfferInv(p),
         offered'[p] = offered[p], book'[p].quantity <= book[p].quantity,
         \A c \in Calls : lessens(c, p), p \in late' \/ Gone(p)'
  PROVE  OfferInv(p)'
<1>0. book[p].quantity \in Nat /\ book'[p].quantity \in Nat
  BY DEF BookInv, PairTypeOK, Orders, Ids
<1>1. offered'[p] = 0 => /\ book'[p].quantity = 0
                         /\ \A c \in Calls : calls'[c].failed[p] = NoOrder /\ parts'[c][p].stage = "none"
  BY <1>0 DEF OfferInv, lessens
<1> QED BY <1>1 DEF OfferInv

LEMMA PeerOffersOffer ==
  ASSUME BookInv, BookInv', CallsTyped, CallsTyped', NEW p \in PeerIds, OfferInv(p),
         NEW q \in PeerIds, PeerOffers(q)
  PROVE  OfferInv(p)'
<1>1. calls' = calls /\ parts' = parts /\ late' = late /\ offered[q] = 0
  BY DEF PeerOffers, callVars
<1>2. PICK price \in Prices, quantity \in Quantities, time \in Times :
        /\ addOrder(q, Stamped(FALSE, price, time, quantity))
        /\ offered' = [offered EXCEPT ![q] = quantity] /\ told' = [told EXCEPT ![q] = quantity]
  BY DEF PeerOffers
<1>3. /\ book' = [book EXCEPT ![q] = Stamped(FALSE, price, time, quantity)]
      /\ Stamped(FALSE, price, time, quantity).quantity = quantity
      /\ DOMAIN book = Ids /\ DOMAIN offered = Ids /\ DOMAIN told = PeerIds
      /\ p \in Ids /\ quantity \in Nat \ {0}
  BY <1>2, NumbersAssumption DEF addOrder, Stamped, BookInv, PairTypeOK, CallsTyped, Ids
<1>4. \A c \in Calls : lessens(c, p) /\ pendingOf(c, p)' = pendingOf(c, p)
  BY <1>1, SameLessens
<1>5. CASE p # q
  <2>1. OfferKept(p)
    <3>1. book'[p] = book[p] /\ told'[p] = told[p] /\ offered'[p] = offered[p]
      BY <1>2, <1>3, <1>5
    <3>2. book[p].quantity \in Nat /\ told[p] \in Nat
      BY <1>3 DEF BookInv, PairTypeOK, Orders, CallsTyped
    <3> QED BY <1>1, <3>1, <3>2 DEF OfferKept
  <2> QED BY <1>4, <2>1, OfferLessens
<1>6. CASE p = q
  <2>1. book'[p].quantity = quantity /\ told'[p] = quantity /\ offered'[p] = quantity
    BY <1>2, <1>3, <1>6
  <2>2. pending(p)' = 0
    <3> DEFINE r == [c \in Calls |-> pendingOf(c, p)']
    <3>1. ASSUME NEW c \in Calls PROVE pendingOf(c, p)' = 0
      <4>1. calls[c].failed[p] = NoOrder /\ parts[c][p].stage = "none"
        BY <1>1, <1>6 DEF OfferInv
      <4>2. inSwap(c, p) = 0 /\ NoOrder.quantity = 0
        BY <4>1, NoOrderHasNothing DEF inSwap
      <4>3. pendingOf(c, p) = 0
        BY <4>1, <4>2 DEF pendingOf
      <4> QED BY <1>4, <4>3
    <3>2. \A c \in Calls : r[c] = 0
      BY <3>1
    <3>3. pending(p)' = SumFunctionOnSet(r, Calls)
      BY DEF pending
    <3> HIDE DEF r
    <3> QED BY <3>2, <3>3, CallsAreFinite, SumZero
  <2>3. quantity + 0 <= quantity /\ quantity # 0
    BY <1>3
  <2>4. book'[p].quantity + pending(p)' <= told'[p] /\ offered'[p] # 0
    BY <2>1, <2>2, <2>3
  <2> QED BY <2>4 DEF OfferInv
<1> QED BY <1>5, <1>6

LEMMA PeerInvalidatesOffer ==
  ASSUME BookInv, BookInv', CallsInv, CallsTyped', NEW p \in PeerIds, OfferInv(p),
         NEW q \in PeerIds, NEW quantity \in withdrawals(q), PeerInvalidates(q, quantity)
  PROVE  OfferInv(p)'
<1>0. /\ CallsTyped /\ ~matching /\ parts' = parts /\ offered' = offered
      /\ told' = [told EXCEPT ![q] = @ - quantity] /\ quantity \in Nat /\ 0 < quantity /\ quantity <= told[q]
      /\ late' = IF unwatched(q) THEN late \cup {q} ELSE late
      /\ DOMAIN book = Ids /\ told \in [PeerIds -> Nat] /\ p \in Ids /\ q \in Ids
      /\ book[p].quantity \in Nat /\ book'[p].quantity \in Nat
  BY PlaceOrderAssumption DEF PeerInvalidates, idle, withdrawals, CallsInv, CallsTyped, BookInv, PairTypeOK,
                              Orders, Ids
<1>1. ASSUME NEW c \in Calls
      PROVE  /\ calls'[c].failed = calls[c].failed /\ calls[c].invalid \subseteq calls'[c].invalid
             /\ calls[c].stage \in {"swapping", "rejected"} => q \in calls'[c].invalid
  <2>1. calls'[c] = IF calls[c].stage \in {"swapping", "rejected"}
                    THEN [calls[c] EXCEPT !.invalid = @ \cup {q}] ELSE calls[c]
    BY DEF PeerInvalidates
  <2>2. calls[c] \in CallRecords
    BY <1>0, CallFields
  <2> QED BY <2>1, <2>2 DEF CallRecords
<1>2. \A c \in Calls : lessens(c, p) /\ pendingOf(c, p)' = pendingOf(c, p)
  BY <1>0, <1>1, SameLessens
<1>3. CASE p # q
  <2>1. book'[p] = book[p]
    BY <1>0, <1>3 DEF PeerInvalidates, removeOrder
  <2>2. OfferKept(p)
    BY <1>0, <1>3, <2>1 DEF OfferKept
  <2> QED BY <1>0, <1>2, <2>2, OfferLessens
<1>4. ASSUME p = q, book'[p].quantity = 0 PROVE OfferInv(p)'
  <2>1. p \in late' \/ Gone(p)'
    <3> SUFFICES ASSUME ~unwatched(p) PROVE Gone(p)'
      BY <1>0, <1>4
    <3>1. \A c \in Calls : calls'[c].failed[p] = NoOrder
      BY <1>1 DEF unwatched
    <3>2. ASSUME NEW c \in Calls, trading(c, p)' PROVE p \in calls'[c].invalid
      <4>1. parts[c][p].stage \in {"starting", "swapping"}
        BY <1>0, <3>2 DEF trading
      <4>2. calls[c].stage \notin {"none", "checking", "ended", "matching"}
        BY <1>0, <4>1 DEF CallsInv, Stagings
      <4>3. calls[c].stage \in {"swapping", "rejected"}
        BY <1>0, <4>2, CallFields DEF Stages
      <4> QED BY <1>1, <1>4, <4>3
    <3> QED BY <1>4, <3>1, <3>2 DEF Gone
  <2>2. book'[p].quantity <= book[p].quantity
    BY <1>0, <1>4
  <2> QED BY <1>0, <1>2, <2>1, <2>2, OfferGoes
<1>5. ASSUME p = q, book'[p].quantity # 0 PROVE OfferInv(p)'
  <2>1. p \in live
    <3>1. p \notin live => book'[p].quantity = book[p].quantity /\ ~(book[p].quantity > 0)
      BY <1>0, <1>5 DEF PeerInvalidates, live
    <3> QED BY <1>0, <1>5, <3>1
  <2>2. /\ book[p] \in Orders /\ quantity < book[p].quantity
        /\ book'[p].quantity = book[p].quantity - quantity
    <3>1. removeOrder(p, quantity) /\ book[p] \in Orders
      BY <1>5, <2>1, OrderFields DEF PeerInvalidates, Ids
    <3>2. book'[p] = rest(book[p], quantity)
      BY <1>0, <3>1 DEF removeOrder, remainder
    <3>3. book'[p] # NoOrder
      BY <1>5, NoOrderHasNothing
    <3>4. quantity < book[p].quantity /\ book'[p] = [book[p] EXCEPT !.quantity = @ - quantity]
      BY <3>2, <3>3 DEF rest
    <3> QED BY <3>1, <3>4 DEF Orders
  <2>3. book[p].quantity # 0 /\ offered[p] # 0 /\ ~Gone(p) /\ told'[p] = told[p] - quantity
    BY <1>0, <1>5, <2>2 DEF OfferInv, Gone
  <2>4. pendingOf(Root, p) \in Nat /\ pendingOf(Root, p)' = pendingOf(Root, p)
    BY <1>0, <1>2, RootIsCall, PendingNat
  <2>5. book'[p].quantity + pendingOf(Root, p)' + told[p] <= book[p].quantity + pendingOf(Root, p) + told'[p]
    BY <1>0, <2>2, <2>3, <2>4
  <2>6. offered'[p] = offered[p] /\ (p \in late => p \in late') /\ \A d \in Calls \ {Root} : lessens(d, p)
    BY <1>0, <1>2
  <2> QED BY <1>0, <2>3, <2>5, <2>6, RootIsCall, OfferMoves
<1> QED BY <1>3, <1>4, <1>5

LEMMA PeerClosesOffer ==
  ASSUME BookInv, BookInv', CallsInv, CallsTyped', NEW p \in PeerIds, OfferInv(p),
         NEW q \in PeerIds, PeerCloses(q)
  PROVE  OfferInv(p)'
<1>0. /\ CallsTyped /\ calls' = calls /\ parts' = parts /\ offered' = offered
      /\ told' = [told EXCEPT ![q] = 0] /\ told \in [PeerIds -> Nat] /\ p \in Ids
      /\ late' = IF unwatched(q) \/ \E c \in Calls : trading(c, q) THEN late \cup {q} ELSE late
      /\ book'[p] = IF p = q THEN NoOrder ELSE book[p]
      /\ book[p].quantity \in Nat
  BY DEF PeerCloses, removePeerOrders, callVars, CallsInv, CallsTyped, BookInv, PairTypeOK, Orders, Ids, trading
<1>1. \A c \in Calls : lessens(c, p)
  BY <1>0, SameLessens
<1>2. CASE p # q
  <2>1. OfferKept(p)
    BY <1>0, <1>2 DEF OfferKept
  <2> QED BY <1>0, <1>1, <2>1, OfferLessens
<1>3. CASE p = q
  <2>1. book'[p].quantity = 0 /\ book'[p].quantity <= book[p].quantity
    BY <1>0, <1>3, NoOrderHasNothing
  <2>2. p \in late' \/ Gone(p)'
    BY <1>0, <1>3, <2>1 DEF unwatched, trading, Gone
  <2> QED BY <1>0, <1>1, <2>1, <2>2, OfferGoes
<1> QED BY <1>2, <1>3

\* The steps of the calls that are about none of the peers' orders.
LEMMA CallOffer ==
  ASSUME BookInv, BookInv', CallsInv, CallsTyped', NEW p \in PeerIds, OfferInv(p),
         NEW c \in Calls,
         \/ c = Root /\ Places
         \/ CallRejects(c) \/ CallMatches(c) \/ CallSwaps(c) \/ RetryForgotten(c)
  PROVE  OfferInv(p)'
<1>0. CallsTyped /\ p \in Ids /\ p \notin OwnIds /\ NoCall.failed[p] = NoOrder
  BY IdsAssumption, NoCallFields DEF CallsInv, Ids
<1>1. others(c) /\ parts' = parts /\ told' = told /\ late' = late /\ offered' = offered
  BY PlacesAt, RejectsAt, MatchesAt, SwapsAt, ForgottenAt
     DEF Places, CallRejects, CallMatches, CallSwaps, RetryForgotten, startsMatch, MatchEnds, pairVars
<1>2. book'[p] = book[p]
  <2>1. CASE CallMatches(c)
    <3>1. replacedBy(c) \subseteq OwnIds
      BY <1>0 DEF replacedBy, CallsTyped, Roots
    <3> QED BY <1>0, <2>1, <3>1 DEF CallMatches
  <2> QED BY <2>1 DEF Places, CallRejects, CallSwaps, RetryForgotten, MatchEnds, pairVars
<1>3. OfferKept(p)
  <2>1. book[p].quantity \in Nat /\ told[p] \in Nat
    BY <1>0 DEF BookInv, PairTypeOK, Orders, CallsTyped
  <2> QED BY <1>1, <1>2, <2>1 DEF OfferKept
<1>4. \A d \in Calls \ {c} : lessens(d, p)
  BY <1>0, <1>1, SameLessens DEF others
<1>5. lessens(c, p)
  <2>1. CASE RetryForgotten(c)
    <3>1. calls'[c] = NoCall /\ parts[c][p].stage = "none" /\ parts' = parts
      BY <1>0, <2>1, ForgottenAt
    <3> QED BY <1>0, <3>1, EndLessens DEF trading
  <2>2. CASE ~RetryForgotten(c)
    <3>1. calls'[c].failed = calls[c].failed /\ calls[c].invalid \subseteq calls'[c].invalid
      <4>1. CASE c = Root /\ Places
        <5>1. calls[c] = NoCall
          BY <4>1, PlacesAt DEF CallsInv, Stagings
        <5> QED BY <4>1, <5>1, PlacesAt, NoCallFields
      <4> QED BY <2>2, <4>1, RejectsAt, MatchesAt, SwapsAt DEF CallRejects, keeps
    <3> QED BY <1>0, <1>1, <3>1, SameLessens
  <2> QED BY <2>1, <2>2
<1> QED BY <1>0, <1>3, <1>4, <1>5, OfferLessens

\* The peers are not heard of.
LEMMA SamePeers ==
  ASSUME BookInv, CallsTyped, NEW p \in PeerIds,
         book'[p] = book[p], told'[p] = told[p], offered'[p] = offered[p], late' = late
  PROVE  OfferKept(p)
<1>1. book[p].quantity \in Nat /\ told[p] \in Nat
  BY DEF BookInv, PairTypeOK, Orders, CallsTyped, Ids
<1> QED BY <1>1 DEF OfferKept

LEMMA MeetsOffer ==
  ASSUME BookInv, BookInv', CallsInv, CallsTyped', MeetInv, NEW p \in PeerIds, OfferInv(p),
         NEW c \in Calls, NEW maker \in Ids, CallMeets(c, maker)
  PROVE  OfferInv(p)'
<1>0. /\ CallsTyped /\ calls' = calls /\ onePart(c, maker) /\ met(maker)
      /\ parts'[c][maker].stage = (IF maker \in OwnIds THEN "filling" ELSE "starting")
      /\ parts'[c][maker].order.quantity = matchingQuantity(maker)
      /\ parts[c][maker].stage = "none"
      /\ told' = told /\ late' = late /\ offered' = offered
      /\ p \in Ids /\ p \notin OwnIds /\ DOMAIN book = Ids
  BY MeetsAt, MeetsNew, IdsAssumption, ZenonT(40) DEF CallsInv, CallMeets, met, Ids, BookInv, PairTypeOK
<1>1. /\ matchingQuantity(maker) \in Nat \ {0} /\ matchingQuantity(maker) <= book[maker].quantity
      /\ book[maker].quantity > 0
      /\ \/ book' = [book EXCEPT ![maker] = NoOrder]
         \/ book' = [book EXCEPT ![maker].quantity = @ - matchingQuantity(maker)]
  BY <1>0 DEF met
<1>2. \A d \in Calls \ {c} : lessens(d, p)
  BY <1>0, SameLessens DEF onePart
<1>3. CASE maker # p
  <2>1. lessens(c, p)
    BY <1>0, <1>3, SameLessens DEF onePart
  <2>2. book'[p] = book[p]
    BY <1>0, <1>1, <1>3
  <2> QED BY <1>0, <1>2, <2>1, <2>2, SamePeers, OfferLessens
<1>4. CASE maker = p
  <2>1. book[p].quantity \in Nat /\ book[p] \in Orders /\ NoOrder.quantity = 0
    BY <1>0, OrderFields, NoOrderHasNothing
  <2>2. book'[p].quantity + matchingQuantity(p) <= book[p].quantity
    <3>1. CASE book' = [book EXCEPT ![maker] = NoOrder]
      BY <1>0, <1>1, <1>4, <2>1, <3>1
    <3>2. CASE book' = [book EXCEPT ![maker].quantity = @ - matchingQuantity(maker)]
      <4>1. book'[p].quantity = book[p].quantity - matchingQuantity(p)
        BY <1>0, <1>4, <2>1, <3>2 DEF Orders
      <4> QED BY <1>1, <1>4, <2>1, <4>1
    <3> QED BY <1>1, <3>1, <3>2
  <2>3. ~Gone(p) /\ offered[p] # 0
    BY <1>1, <1>4, <2>1 DEF Gone, OfferInv
  <2>4. pendingOf(c, p)' = pendingOf(c, p) + matchingQuantity(p) /\ pendingOf(c, p) \in Nat
    <3>1. inSwap(c, p) = 0 /\ inSwap(c, p)' = matchingQuantity(p)
      BY <1>0, <1>4 DEF inSwap
    <3>2. calls[c].failed[p].quantity \in Nat /\ calls'[c].failed = calls[c].failed
      BY <1>0, PendingNat
    <3> QED BY <1>1, <1>4, <3>1, <3>2 DEF pendingOf
  <2>5. told[p] \in Nat /\ told'[p] = told[p] /\ book'[p].quantity \in Nat
    BY <1>0 DEF CallsTyped, BookInv, PairTypeOK, Orders
  <2>6. book'[p].quantity + pendingOf(c, p)' + told[p] <= book[p].quantity + pendingOf(c, p) + told'[p]
    BY <1>1, <1>4, <2>1, <2>2, <2>4, <2>5
  <2> QED BY <1>0, <1>2, <2>3, <2>6, OfferMoves
<1> QED BY <1>3, <1>4

\* What a part does to the calls, for the orders that failed in them.
sameFailed == \A d \in Calls : /\ calls'[d].failed = calls[d].failed
                               /\ calls[d].invalid \subseteq calls'[d].invalid

LEMMA RejectsFailed ==
  ASSUME CallsInv, NEW c \in Calls, calls' = calls \/ rejects(c)
  PROVE  sameFailed
BY RejectsAt DEF sameFailed, others, keeps

\* A part of p that has been swapped.
LEMMA TradesOffer ==
  ASSUME BookInv, BookInv', CallsTyped, CallsTyped', NEW p \in PeerIds, OfferInv(p),
         NEW c \in Calls, NEW q \in PeerIds, NEW swapped \in Nat, swapped <= parts[c][q].order.quantity,
         parts[c][q].stage = "swapping", onePart(c, q), ~trading(c, q)', sameFailed,
         traded(q, swapped), UNCHANGED <<book, offered, late>>
  PROVE  OfferInv(p)'
<1>0. p \in Ids /\ q \in Ids
  BY DEF Ids
<1>1. \A d \in Calls \ {c} : lessens(d, p)
  BY <1>0, SameLessens DEF onePart, sameFailed
<1>2. CASE p # q
  <2>1. lessens(c, p)
    BY <1>0, <1>2, SameLessens DEF onePart, sameFailed
  <2>2. told'[p] = told[p]
    BY <1>2, TradedOK
  <2> QED BY <1>1, <2>1, <2>2, SamePeers, OfferLessens
<1>3. CASE p = q
  <2>1. /\ trading(c, p) /\ parts[c][p].order.quantity \in Nat /\ inSwap(c, p) = parts[c][p].order.quantity
        /\ pendingOf(c, p) = inSwap(c, p) + calls[c].failed[p].quantity
        /\ calls[c].failed[p].quantity \in Nat
    BY <1>3, PendingNat DEF trading
  <2>2. pendingOf(c, p)' = calls[c].failed[p].quantity
    <3>1. /\ pendingOf(c, p)' = inSwap(c, p)' + calls'[c].failed[p].quantity
          /\ inSwap(c, p)' = 0
      BY <1>3, PendingNatNext
    <3> QED BY <2>1, <3>1 DEF sameFailed
  <2>3. offered[p] # 0
    BY <2>1 DEF OfferInv, trading
  <2>4. Gone(p) => Gone(p)'
    <3>1. \A d \in Calls : trading(d, p)' => trading(d, p)
      BY <1>0, <1>3 DEF onePart, trading
    <3> QED BY <3>1 DEF Gone, sameFailed
  <2>5. /\ told'[p] = IF swapped < told[p] THEN told[p] - swapped ELSE 0
        /\ told[p] \in Nat /\ book[p].quantity \in Nat
    BY <1>0, <1>3, TradedOK DEF CallsTyped, BookInv, PairTypeOK, Orders
  <2>6. book[p].quantity + pendingOf(c, p) <= told[p] =>
          book'[p].quantity + pendingOf(c, p)' + told[p] <= book[p].quantity + pendingOf(c, p) + told'[p]
    BY <1>3, <2>1, <2>2, <2>5
  <2> QED BY <1>1, <2>3, <2>4, <2>6, OfferMoves
<1> QED BY <1>2, <1>3

LEMMA PartsOffer ==
  ASSUME BookInv, BookInv', CallsInv, CallsTyped', NEW p \in PeerIds, OfferInv(p),
         NEW c \in Calls, NEW m \in Ids,
         \/ FillSaved(c, m) /\ m \in OwnIds
         \/ PartThrows(c, m)
         \/ m \in PeerIds /\ (SwapStarts(c, m) \/ SwapSucceeds(c, m) \/ SwapUnsaved(c, m))
  PROVE  OfferInv(p)'
<1>0. /\ CallsTyped /\ p \in Ids /\ UNCHANGED <<book, offered, late>> /\ sameFailed
  <2>1. calls' = calls \/ rejects(c)
    BY DEF FillSaved, PartThrows, SwapStarts, SwapSucceeds, SwapUnsaved
  <2> QED BY <2>1, RejectsFailed
          DEF CallsInv, Ids, FillSaved, PartThrows, SwapStarts, SwapSucceeds, SwapUnsaved, pairVars
<1>1. CASE m \in PeerIds /\ (SwapSucceeds(c, m) \/ SwapUnsaved(c, m))
  <2>1. /\ parts[c][m].stage = "swapping" /\ ends(c, m)
        /\ traded(m, parts[c][m].order.quantity) /\ parts[c][m].order.quantity \in Nat
    BY <1>0, <1>1, PartFields DEF SwapSucceeds, SwapUnsaved
  <2>2. onePart(c, m) /\ parts'[c][m] = NoPart
    BY <1>0, <2>1, EndsAt DEF onePart
  <2>3. ~trading(c, m)'
    BY <2>2, NoPartOK DEF trading
  <2>4. parts[c][m].order.quantity <= parts[c][m].order.quantity
    BY <2>1
  <2> QED BY <1>0, <1>1, <2>1, <2>2, <2>3, <2>4, TradesOffer
<1>2. CASE ~(m \in PeerIds /\ (SwapSucceeds(c, m) \/ SwapUnsaved(c, m)))
  <2>1. told' = told
    BY <1>2 DEF FillSaved, PartThrows, SwapStarts
  <2>2. OfferKept(p)
    BY <1>0, <2>1, SamePeers
  <2>3. CASE ends(c, m)
    <3>1. onePart(c, m) /\ parts'[c][m] = NoPart
      BY <1>0, <2>3, EndsAt DEF onePart
    <3>2. \A d \in Calls : d # c \/ m # p => lessens(d, p)
      BY <1>0, <3>1, SameLessens DEF onePart, sameFailed
    <3>3. m = p => lessens(c, p)
      <4> SUFFICES ASSUME m = p PROVE lessens(c, p)
        OBVIOUS
      <4>1. ~trading(c, p)' /\ parts'[c][p].stage = "none"
        BY <3>1, NoPartOK DEF trading
      <4>2. calls'[c].failed[p] = calls[c].failed[p]
        BY <1>0 DEF sameFailed
      <4> QED BY <1>0, <4>1, <4>2, EndLessens
    <3> QED BY <1>0, <2>2, <3>2, <3>3, OfferLessens
  <2>4. CASE m \in PeerIds /\ SwapStarts(c, m)
    <3>1. stages(c, m, "swapping") /\ parts[c][m].stage = "starting"
      BY <2>4 DEF SwapStarts, stages
    <3>2. onePart(c, m) /\ parts'[c][m].stage = "swapping" /\ parts'[c][m].order = parts[c][m].order
      BY <1>0, <3>1, PartStageAt DEF onePart
    <3>3. \A d \in Calls : d # c \/ m # p => lessens(d, p)
      BY <1>0, <3>2, SameLessens DEF onePart, sameFailed
    <3>4. m = p => lessens(c, p)
      <4> SUFFICES ASSUME m = p PROVE lessens(c, p)
        OBVIOUS
      <4>1. calls'[c].failed[p] = calls[c].failed[p] /\ calls[c].invalid \subseteq calls'[c].invalid
        BY <1>0 DEF sameFailed
      <4>2. inSwap(c, p)' = inSwap(c, p)
        BY <3>1, <3>2 DEF inSwap
      <4>3. pendingOf(c, p)' = pendingOf(c, p) /\ pendingOf(c, p) \in Nat
        BY <1>0, <4>1, <4>2, PendingNat DEF pendingOf
      <4> QED BY <3>1, <3>2, <4>1, <4>3 DEF lessens, trading
    <3> QED BY <1>0, <2>2, <3>3, <3>4, OfferLessens
  <2> QED BY <1>2, <2>3, <2>4 DEF FillSaved, PartThrows
<1> QED BY <1>1, <1>2

\* What a retry does to the calls, for the orders that failed in them.
LEMMA RetriedFailed ==
  ASSUME CallsInv, NEW c \in Calls, NEW p \in PeerIds, NEW quantity \in Nat, NEW swapped \in Nat,
         NEW failed \in [PeerIds -> Orders], retriedAt(c, p, quantity, swapped, failed)
  PROVE  /\ calls'[c].failed = failed /\ calls'[c].invalid = calls[c].invalid
         /\ onePart(c, p) /\ ~trading(c, p)'
         /\ \A d \in Calls \ {c} : /\ calls'[d].failed = calls[d].failed
                                   /\ calls[d].invalid \subseteq calls'[d].invalid
<1>1. CASE refusedAt(c, p, failed) \/ tooLateAt(c, p, quantity, failed)
  <2>1. others(c) /\ keeps(c) /\ onePart(c, p) /\ parts'[c][p] = NoPart /\ calls'[c].failed = failed
    BY <1>1 DEF refusedAt, tooLateAt
  <2>2. ~trading(c, p)'
    BY <2>1, NoPartOK DEF trading
  <2> QED BY <2>1, <2>2 DEF others, keeps
<1>2. ASSUME NEW child \in Calls, calledAt(c, p, quantity, failed, child)
      PROVE  /\ calls'[c].failed = failed /\ calls'[c].invalid = calls[c].invalid
             /\ onePart(c, p) /\ ~trading(c, p)'
             /\ \A d \in Calls \ {c} : /\ calls'[d].failed = calls[d].failed
                                       /\ calls[d].invalid \subseteq calls'[d].invalid
  <2>1. /\ onePart(c, p) /\ parts'[c][p].stage = "retrying" /\ calls'[c].failed = failed
        /\ calls'[c].invalid = calls[c].invalid /\ calls[child] = NoCall
        /\ calls'[child] = childOf(c, p, quantity)
        /\ \A d \in Calls : d # c /\ d # child => calls'[d] = calls[d]
    BY <1>2 DEF calledAt, keeps
  <2>2. calls'[child].failed = calls[child].failed /\ calls[child].invalid = {}
    <3>1. childOf(c, p, quantity).failed = NoCall.failed
      BY DEF childOf, NoCall
    <3> QED BY <2>1, <3>1, NoCallFields
  <2> QED BY <2>1, <2>2 DEF trading
<1> QED BY <1>1, <1>2 DEF retriedAt

LEMMA RetriesOffer ==
  ASSUME BookInv, BookInv', CallsInv, CallsTyped', NEW p \in PeerIds, OfferInv(p),
         NEW c \in Calls, NEW q \in PeerIds, NEW quantity \in Nat, NEW swapped \in Nat,
         NEW failed \in [PeerIds -> Orders], retried(c, q, quantity, swapped, failed)
  PROVE  OfferInv(p)'
<1>0. /\ CallsTyped /\ p \in Ids /\ q \in Ids /\ parts[c][q].stage = "swapping"
      /\ retriedAt(c, q, quantity, swapped, failed)
      /\ quantity + swapped = parts[c][q].order.quantity
  BY RetriedAt DEF retried, CallsInv, Ids
<1>1. /\ calls'[c].failed = failed /\ calls'[c].invalid = calls[c].invalid
      /\ onePart(c, q) /\ ~trading(c, q)'
      /\ \A d \in Calls \ {c} : /\ calls'[d].failed = calls[d].failed
                                /\ calls[d].invalid \subseteq calls'[d].invalid
  BY <1>0, RetriedFailed
<1>2. CASE failed = calls[c].failed /\ traded(q, swapped) /\ UNCHANGED <<pairVars, root, timeUp, connected, late>>
  <2>1. sameFailed
    BY <1>1, <1>2 DEF sameFailed
  <2>2. swapped <= parts[c][q].order.quantity /\ UNCHANGED <<book, offered, late>>
    BY <1>0, <1>2 DEF pairVars
  <2> QED BY <1>0, <1>1, <1>2, <2>1, <2>2, TradesOffer
<1>3. CASE /\ failed = failedOrders(c, q)
           /\ book' = [book EXCEPT ![q] = NoOrder]
           /\ UNCHANGED <<matchVars, offered, root, timeUp, connected, told, late>>
  <2>1. \A d \in Calls \ {c} : lessens(d, p)
    BY <1>0, <1>1, SameLessens DEF onePart
  <2>2. calls[c].failed \in [PeerIds -> Orders] /\ DOMAIN book = Ids /\ told[p] \in Nat
        /\ book[p].quantity \in Nat
    BY <1>0, CallFields DEF BookInv, PairTypeOK, Orders, CallsTyped
  <2>3. CASE p # q
    <3>1. calls'[c].failed[p] = calls[c].failed[p] /\ calls[c].invalid \subseteq calls'[c].invalid
      BY <1>1, <1>3, <2>2, <2>3 DEF failedOrders
    <3>2. parts'[c][p] = parts[c][p]
      BY <1>0, <1>1, <2>3 DEF onePart
    <3>3. lessens(c, p)
      BY <1>0, <3>1, <3>2, SameLessens
    <3>4. book'[p] = book[p]
      BY <1>3, <2>2, <2>3
    <3> QED BY <1>0, <1>3, <2>1, <3>3, <3>4, SamePeers, OfferLessens
  <2>4. CASE p = q
    <3>1. book'[p].quantity = 0 /\ calls'[c].failed[p] = failedOrder(c, p)
      BY <1>0, <1>1, <1>3, <2>2, <2>4, NoOrderHasNothing DEF failedOrders
    <3>2. offered[p] # 0
      BY <1>0, <2>4 DEF OfferInv
    <3>3. /\ trading(c, p) /\ parts[c][p].order.quantity \in Nat /\ parts[c][p].order \in Orders
          /\ pendingOf(c, p) = parts[c][p].order.quantity + calls[c].failed[p].quantity
          /\ calls[c].failed[p].quantity \in Nat
      BY <1>0, <2>4, PendingNat, PartFields DEF trading
    <3>4. pendingOf(c, p)' = failedOrder(c, p).quantity
      <4>1. /\ pendingOf(c, p)' = inSwap(c, p)' + calls'[c].failed[p].quantity
            /\ inSwap(c, p)' = 0 /\ calls'[c].failed[p].quantity \in Nat
        BY <1>1, <2>4, PendingNatNext
      <4> QED BY <3>1, <4>1
    <3>5. /\ failedOrder(c, p).quantity <= book[p].quantity + parts[c][p].order.quantity
          /\ failedOrder(c, p).quantity \in Nat
      <4>1. CASE p \in live
        <5>1. book[p] \in Orders /\ failedOrder(c, p) = [book[p] EXCEPT !.quantity = @ + parts[c][p].order.quantity]
          BY <1>0, <4>1, OrderFields DEF failedOrder
        <5>2. failedOrder(c, p).quantity = book[p].quantity + parts[c][p].order.quantity
          BY <5>1 DEF Orders
        <5> QED BY <2>2, <3>3, <5>2
      <4>2. CASE p \notin live
        <5>1. failedOrder(c, p).quantity \in {0, parts[c][p].order.quantity}
          BY <4>2, NoOrderHasNothing DEF failedOrder
        <5> QED BY <2>2, <3>3, <5>1
      <4> QED BY <4>1, <4>2
    <3>6. Gone(p) => Gone(p)'
      <4> SUFFICES ASSUME Gone(p) PROVE Gone(p)'
        OBVIOUS
      <4>1. p \notin live /\ p \in calls[c].invalid
        BY <3>3 DEF Gone, live
      <4>2. calls'[c].failed[p] = NoOrder
        BY <3>1, <4>1 DEF failedOrder
      <4>3. \A d \in Calls : trading(d, p)' => d # c /\ trading(d, p)
        BY <1>0, <1>1, <2>4 DEF onePart, trading
      <4> QED BY <1>1, <3>1, <4>2, <4>3 DEF Gone
    <3>7. book'[p].quantity + pendingOf(c, p)' + told[p] <= book[p].quantity + pendingOf(c, p) + told'[p]
      BY <1>3, <2>2, <3>1, <3>3, <3>4, <3>5
    <3>8. offered'[p] = offered[p] /\ (p \in late => p \in late')
      BY <1>3
    <3> QED BY <1>0, <2>1, <3>2, <3>6, <3>7, <3>8, OfferMoves
  <2> QED BY <2>3, <2>4
<1> QED BY <1>2, <1>3 DEF retried

\* A call ends, and puts back what failed.
LEMMA PutsBackOffer ==
  ASSUME BookInv, BookInv', CallsTyped, CallsTyped', NEW p \in PeerIds, OfferInv(p),
         NEW c \in Calls, book'[p] = IF p \in returning(c) THEN calls[c].failed[p] ELSE book[p],
         calls'[c].failed[p] = NoOrder, parts[c][p].stage = "none", parts'[c][p].stage = "none",
         \A d \in Calls \ {c} : lessens(d, p),
         told' = told, late' = late, offered'[p] = offered[p]
  PROVE  OfferInv(p)'
<1>1. lessens(c, p)
  BY EndLessens DEF trading
<1>2. CASE p \notin returning(c)
  BY <1>1, <1>2, SamePeers, OfferLessens
<1>3. CASE p \in returning(c)
  <2>1. calls[c].failed[p] # NoOrder /\ p \notin live /\ book'[p] = calls[c].failed[p]
    BY <1>3 DEF returning
  <2>2. ~Gone(p) /\ offered[p] # 0
    BY <2>1 DEF Gone, OfferInv
  <2>3. /\ pendingOf(c, p) = inSwap(c, p) + calls[c].failed[p].quantity /\ inSwap(c, p) = 0
        /\ calls[c].failed[p].quantity \in Nat
    BY PendingNat DEF trading
  <2>4. pendingOf(c, p)' = inSwap(c, p)' + calls'[c].failed[p].quantity /\ inSwap(c, p)' = 0
        /\ NoOrder.quantity = 0
    BY PendingNatNext, NoOrderHasNothing DEF trading
  <2>5. book[p].quantity = 0 /\ told[p] \in Nat
    <3>1. book[p].quantity \in Nat /\ ~(book[p].quantity > 0) /\ told[p] \in Nat
      BY <2>1 DEF live, BookInv, PairTypeOK, Orders, CallsTyped, Ids
    <3> QED BY <3>1
  <2>6. book'[p].quantity + pendingOf(c, p)' + told[p] <= book[p].quantity + pendingOf(c, p) + told'[p]
    BY <2>1, <2>3, <2>4, <2>5
  <2> QED BY <2>2, <2>6, OfferMoves
<1> QED BY <1>2, <1>3

LEMMA EndsOffer ==
  ASSUME BookInv, BookInv', CallsInv, CallsTyped', NEW p \in PeerIds, OfferInv(p),
         NEW c \in Calls, RetryEnds(c) \/ (c = Root /\ RootEnds) \/ RetryRejects(c)
  PROVE  OfferInv(p)'
<1>0. CallsTyped /\ p \in Ids /\ p \notin OwnIds /\ NoCall.failed[p] = NoOrder
  BY IdsAssumption, NoCallFields DEF CallsInv, Ids
<1>1. CASE RetryEnds(c)
  <2>1. PICK d \in Calls, m \in Ids :
          /\ retryEnds(c, d, m) /\ calls'[c] = NoCall /\ \A n \in Ids : parts[c][n].stage = "none"
    BY <1>1, RetryEndsAt
  <2>2. /\ c # d /\ parts[d][m].stage = "retrying" /\ onePart(d, m) /\ parts'[d][m] = NoPart
        /\ \A e \in Calls : e # c /\ e # d => calls'[e] = calls[e]
        /\ keeps(d) /\ calls'[d].failed = calls[d].failed
    BY <2>1 DEF retryEnds
  <2>3. book'[p] = IF p \in returning(c) THEN calls[c].failed[p] ELSE book[p]
    <3>1. putsBack(c, book, <<>>) /\ DOMAIN <<>> = {}
      BY <1>1 DEF RetryEnds
    <3> QED BY <1>0, <3>1 DEF putsBack
  <2>4. parts'[c][p].stage = "none" /\ parts[c][p].stage = "none"
    BY <1>0, <2>1, <2>2 DEF onePart
  <2>5. \A e \in Calls \ {c} : lessens(e, p)
    <3> SUFFICES ASSUME NEW e \in Calls \ {c} PROVE lessens(e, p)
      OBVIOUS
    <3>1. calls'[e].failed = calls[e].failed /\ calls[e].invalid \subseteq calls'[e].invalid
      BY <2>2 DEF keeps
    <3>2. CASE e = d /\ p = m
      BY <1>0, <2>2, <3>1, <3>2, EndLessens, NoPartOK DEF trading
    <3>3. CASE ~(e = d /\ p = m)
      BY <1>0, <2>2, <3>1, <3>3, SameLessens DEF onePart
    <3> QED BY <3>2, <3>3
  <2>6. told' = told /\ late' = late /\ offered'[p] = offered[p] /\ calls'[c].failed[p] = NoOrder
    BY <1>0, <1>1, <2>1 DEF RetryEnds
  <2> QED BY <1>0, <2>3, <2>4, <2>5, <2>6, PutsBackOffer
<1>2. CASE c = Root /\ RootEnds
  <2>1. /\ putsBack(Root, rootReleased, rootPlaced)
        /\ DOMAIN rootPlaced = IF rootPlaces THEN {NewId} ELSE {}
        /\ offered' = [offered EXCEPT ![NewId] = IF rootPlaces THEN calls[Root].remaining ELSE @]
    BY <1>0, <1>2, RootEndsBook
  <2>2. others(c) /\ calls'[c].failed = NoCall.failed /\ parts' = parts /\ parts[c][p].stage = "none"
    BY <1>0, <1>2, RootEndsAt
  <2>3. book'[p] = IF p \in returning(c) THEN calls[c].failed[p] ELSE book[p]
    <3>1. p # NewId /\ p \notin DOMAIN rootPlaced /\ p \notin root.replaced
      BY <1>0, <2>1, PlaceOrderAssumption DEF CallsTyped, Roots
    <3>2. rootReleased[p] = book[p]
      BY <1>0, <3>1 DEF rootReleased
    <3> QED BY <1>0, <1>2, <2>1, <3>1, <3>2 DEF putsBack
  <2>4. \A e \in Calls \ {c} : lessens(e, p)
    BY <1>0, <2>2, SameLessens DEF others
  <2>5. told' = told /\ late' = late /\ offered'[p] = offered[p]
    <3>1. p # NewId
      BY <1>0, PlaceOrderAssumption
    <3> QED BY <1>0, <1>2, <2>1, <3>1 DEF RootEnds, BookInv, PairTypeOK
  <2> QED BY <1>0, <2>2, <2>3, <2>4, <2>5, PutsBackOffer
<1>3. CASE RetryRejects(c)
  <2>1. PICK d \in Calls, m \in Ids : retryRejects(c, d, m)
    BY <1>3, RetryRejectsAt
  <2>2. /\ parts[d][m].stage = "retrying" /\ onePart(d, m) /\ parts'[d][m] = NoPart
        /\ \A e \in Calls : calls'[e].failed = calls[e].failed /\ calls'[e].invalid = calls[e].invalid
    BY <2>1 DEF retryRejects
  <2>3. ASSUME NEW e \in Calls PROVE lessens(e, p)
    <3>1. CASE e = d /\ p = m
      BY <1>0, <2>2, <3>1, EndLessens, NoPartOK DEF trading
    <3>2. CASE ~(e = d /\ p = m)
      BY <1>0, <2>2, <3>2, SameLessens DEF onePart
    <3> QED BY <3>1, <3>2
  <2>4. book' = book /\ told' = told /\ offered' = offered /\ late' = late
    BY <1>3 DEF RetryRejects, pairVars
  <2> QED BY <1>0, <2>3, <2>4, SamePeers, OfferLessens
<1> QED BY <1>1, <1>2, <1>3

LEMMA OffersStep ==
  ASSUME BookInv, CallsInv, MeetInv, OffersInv, PlaceNext
  PROVE  OffersInv'
<1> SUFFICES ASSUME NEW p \in PeerIds PROVE OfferInv(p)'
  BY DEF OffersInv
<1>0. BookInv' /\ CallsTyped' /\ CallsTyped /\ OfferInv(p) /\ p \in Ids /\ p \notin OwnIds
  BY TypesStep, IdsAssumption DEF CallsInv, OffersInv, Ids
<1>1. CASE Environment
  <2>1. ASSUME NEW q \in PeerIds, PeerOffers(q) PROVE OfferInv(p)'
    BY <1>0, <2>1, PeerOffersOffer
  <2>2. ASSUME NEW q \in PeerIds, PeerCloses(q) PROVE OfferInv(p)'
    BY <1>0, <2>2, PeerClosesOffer
  <2>3. ASSUME NEW q \in PeerIds, NEW quantity \in withdrawals(q), PeerInvalidates(q, quantity)
        PROVE  OfferInv(p)'
    BY <1>0, <2>3, PeerInvalidatesOffer
  <2>4. ASSUME book'[p] = book[p], told' = told, late' = late, offered'[p] = offered[p],
               calls' = calls, parts' = parts
        PROVE  OfferInv(p)'
    <3>1. \A c \in Calls : lessens(c, p)
      BY <1>0, <2>4, SameLessens
    <3> QED BY <1>0, <2>4, <3>1, SamePeers, OfferLessens
  <2>5. ASSUME NEW q \in PeerIds, PeerReopens(q) PROVE OfferInv(p)'
    BY <2>4, <2>5 DEF PeerReopens, pairVars, callVars
  <2>6. ASSUME NEW id \in OwnIds, OwnOffers(id) \/ OwnCancels(id) PROVE OfferInv(p)'
    <3>1. book'[p] = book[p] /\ offered'[p] = offered[p]
      BY <1>0, <2>6 DEF OwnOffers, OwnCancels, addOrder, removeOrder, BookInv, PairTypeOK
    <3> QED BY <2>4, <2>6, <3>1 DEF OwnOffers, OwnCancels, placeVars, callVars
  <2>7. CASE TimePasses
    BY <2>4, <2>7 DEF TimePasses, pairVars
  <2>8. CASE Places
    <3>1. PICK c \in Calls : c = Root
      BY RootIsCall
    <3> QED BY <1>0, <2>8, <3>1, CallOffer
  <2> QED BY <1>1, <2>1, <2>2, <2>3, <2>5, <2>6, <2>7, <2>8 DEF Environment
<1>2. CASE Proceeds
  <2>1. ASSUME NEW c \in Calls, CallRejects(c) \/ CallMatches(c) \/ CallSwaps(c) \/ RetryForgotten(c)
        PROVE  OfferInv(p)'
    BY <1>0, <2>1, CallOffer
  <2>2. ASSUME NEW c \in Calls, RetryEnds(c) \/ RetryRejects(c) PROVE OfferInv(p)'
    BY <1>0, <2>2, EndsOffer
  <2>3. CASE RootEnds
    <3>1. PICK c \in Calls : c = Root
      BY RootIsCall
    <3> QED BY <1>0, <2>3, <3>1, EndsOffer
  <2>4. ASSUME NEW c \in Calls, NEW maker \in Ids, CallMeets(c, maker) PROVE OfferInv(p)'
    BY <1>0, <2>4, MeetsOffer
  <2>5. ASSUME NEW c \in Calls, NEW m \in Ids,
               \/ FillSaved(c, m) /\ m \in OwnIds
               \/ PartThrows(c, m)
               \/ m \in PeerIds /\ (SwapStarts(c, m) \/ SwapSucceeds(c, m) \/ SwapUnsaved(c, m))
        PROVE  OfferInv(p)'
    BY <1>0, <2>5, PartsOffer
  <2>6. ASSUME NEW c \in Calls, NEW q \in PeerIds,
               SwapFails(c, q) \/ \E accepted \in Parts : SwapPartly(c, q, accepted)
        PROVE  OfferInv(p)'
    <3>1. \E quantity \in Nat, swapped \in Nat, failed \in [PeerIds -> Orders] :
             retried(c, q, quantity, swapped, failed)
      BY <2>6, RetrySteps
    <3>2. PICK quantity \in Nat, swapped \in Nat, failed \in [PeerIds -> Orders] :
            retried(c, q, quantity, swapped, failed)
      BY <3>1
    <3> QED BY <1>0, <3>2, RetriesOffer
  <2> QED BY <1>2, <2>1, <2>2, <2>3, <2>4, <2>5, <2>6 DEF Proceeds, Ids
<1> QED BY <1>1, <1>2 DEF PlaceNext

-----------------------------------------------------------------------------
(* Calls that were rejected *)

rejected(c) == calls[c].stage = "rejected"
rejectedAt(c) == calls'[c].stage = "rejected"

\* A retry is further from the first call than its parent; one whose failure is
\* known has made the first call reject, or there is one nearer to it that is
\* about to tell its own parent.
Ranked(rank) ==
  /\ \A c \in Calls : calls[c].parent # NoParent => rank[c] > rank[calls[c].parent.call]
  /\ ~rejected(Root) => \A c \in Calls : rejected(c) /\ ~rejecting(c) =>
       \E d \in Calls : rejecting(d) /\ rank[c] > rank[d]

RankInv ==
  /\ \A c, d \in Calls : rejecting(c) /\ rejecting(d) => c = d
  /\ \E rank \in [Calls -> Nat] : Ranked(rank)

LEMMA RankSame ==
  ASSUME RankInv,
         \A d \in Calls : calls'[d].parent = calls[d].parent /\ (rejectedAt(d) <=> rejected(d))
  PROVE  RankInv'
<1>1. \A d \in Calls : (rejecting(d)' <=> rejecting(d)) /\ (rejected(d)' <=> rejected(d))
  BY DEF rejecting, rejected, rejectedAt
<1>2. PICK rank \in [Calls -> Nat] : Ranked(rank)
  BY DEF RankInv
<1>3. Ranked(rank)'
  BY <1>1, <1>2, RootIsCall DEF Ranked
<1> QED BY <1>1, <1>2, <1>3 DEF RankInv

\* While nothing is rejecting, a retry has been rejected only if the first call
\* has.
LEMMA RejectedKnown ==
  ASSUME CallsInv, RankInv, idle, NEW c \in Calls, rejected(c), calls[c].parent = NoParent
  PROVE  rejected(Root)
<1>1. ~rejecting(c) /\ \A d \in Calls : ~rejecting(d)
  BY DEF idle
<1> QED BY <1>1 DEF RankInv, Ranked

LEMMA RankRejects ==
  ASSUME CallsInv, RankInv, idle, NEW c \in Calls, calls[c].stage \notin {"none", "ended"},
         \A d \in Calls : calls'[d].parent = calls[d].parent,
         \A d \in Calls \ {c} : rejectedAt(d) <=> rejected(d),
         rejectedAt(c)
  PROVE  RankInv'
<1>1. \A d \in Calls : ~rejecting(d)
  BY DEF idle
<1>2. \A d \in Calls : rejecting(d)' => d = c
  BY <1>1 DEF rejecting, rejected, rejectedAt
<1>3. PICK rank \in [Calls -> Nat] : Ranked(rank)
  BY DEF RankInv
<1>4. ASSUME ~rejectedAt(Root), NEW d \in Calls, rejectedAt(d), ~rejecting(d)' PROVE FALSE
  <2>1. c # Root /\ ~rejected(Root)
    BY <1>4, RootIsCall DEF rejected, rejectedAt
  <2>2. \A e \in Calls : ~rejected(e)
    BY <1>1, <1>3, <2>1 DEF Ranked
  <2>3. d = c
    BY <1>4, <2>2
  <2>4. calls[c].parent # NoParent
    BY <2>1, <2>2 DEF CallsInv, Links, rejected
  <2> QED BY <1>4, <2>1, <2>3, <2>4 DEF rejecting, rejectedAt
<1>5. Ranked(rank)'
  <2>1. \A d \in Calls : calls'[d].parent # NoParent => rank[d] > rank[calls'[d].parent.call]
    BY <1>3 DEF Ranked
  <2> QED BY <1>4, <2>1 DEF Ranked, rejected, rejectedAt
<1> QED BY <1>2, <1>3, <1>5 DEF RankInv

LEMMA RankCalled ==
  ASSUME CallsInv, RankInv, NEW c \in Calls, NEW p \in PeerIds, NEW quantity \in Nat, NEW failed,
         NEW child \in Calls, active(c), calledAt(c, p, quantity, failed, child)
  PROVE  RankInv'
<1>1. /\ child # c /\ calls[child].stage = "none" /\ calls'[child].stage = "checking"
      /\ calls'[child].parent = [call |-> c, maker |-> p]
      /\ \A d \in Calls : d # child => calls'[d].parent = calls[d].parent /\ calls'[d].stage = calls[d].stage
  BY ChildOK DEF calledAt, keeps
<1>2. \A d \in Calls : (rejecting(d)' <=> rejecting(d)) /\ (rejected(d)' <=> rejected(d))
  BY <1>1 DEF rejecting, rejected
<1>3. PICK rank \in [Calls -> Nat] : Ranked(rank)
  BY DEF RankInv
<1> DEFINE next == [rank EXCEPT ![child] = rank[c] + 1]
<1>4. next \in [Calls -> Nat] /\ next[child] > next[c] /\ \A d \in Calls : d # child => next[d] = rank[d]
  BY <1>1, <1>3
<1> HIDE DEF next
<1>5. ASSUME NEW d \in Calls, calls'[d].parent # NoParent
      PROVE  next[d] > next[calls'[d].parent.call]
  <2>1. CASE d = child
    <3>1. calls'[child].parent.call = c
      BY <1>1
    <3> QED BY <1>4, <2>1, <3>1
  <2>2. CASE d # child
    <3>1. calls'[d].parent = calls[d].parent /\ calls[d].parent # NoParent
      BY <1>1, <1>5, <2>2
    <3>2. PICK e \in Calls : calls[d].parent.call = e /\ calls[e].stage \in {"swapping", "rejected"}
      BY <3>1, ParentFacts
    <3>3. e # child /\ rank[d] > rank[e]
      BY <1>1, <1>3, <3>1, <3>2 DEF Ranked
    <3> QED BY <1>4, <2>2, <3>1, <3>2, <3>3
  <2> QED BY <2>1, <2>2
<1>6. ASSUME ~rejected(Root)', NEW d \in Calls, rejected(d)', ~rejecting(d)'
      PROVE  \E e \in Calls : rejecting(e)' /\ next[d] > next[e]
  <2>1. ~rejected(Root) /\ rejected(d) /\ ~rejecting(d) /\ d # child
    BY <1>1, <1>2, <1>6, RootIsCall DEF rejected
  <2>2. PICK e \in Calls : rejecting(e) /\ rank[d] > rank[e]
    BY <1>3, <2>1 DEF Ranked
  <2>3. e # child
    BY <1>1, <2>2 DEF rejecting
  <2> QED BY <1>2, <1>4, <2>1, <2>2, <2>3
<1>7. Ranked(next)'
  BY <1>5, <1>6 DEF Ranked
<1> QED BY <1>2, <1>4, <1>7 DEF RankInv

\* A retry goes, whose failure does not count.
LEMMA RankGoes ==
  ASSUME CallsInv, RankInv, NEW c \in Calls, c # Root, ~rejected(c) \/ (idle /\ calls[c].parent = NoParent),
         calls'[c] = NoCall,
         \A d \in Calls \ {c} : calls'[d].parent = calls[d].parent /\ calls'[d].stage = calls[d].stage
  PROVE  RankInv'
<1>1. ~rejecting(c) /\ ~rejecting(c)' /\ ~rejected(c)'
  BY NoCallFields DEF rejecting, rejected, idle
<1>2. \A d \in Calls : (rejecting(d)' <=> rejecting(d)) /\ (rejected(d)' => rejected(d))
                       /\ calls'[d].parent \in {calls[d].parent, NoParent}
  BY <1>1, NoCallFields DEF rejecting, rejected
<1>3. rejected(Root)' <=> rejected(Root)
  BY RootIsCall DEF rejected
<1>4. PICK rank \in [Calls -> Nat] : Ranked(rank)
  BY DEF RankInv
<1>5. Ranked(rank)'
  BY <1>2, <1>3, <1>4 DEF Ranked
<1> QED BY <1>2, <1>4, <1>5 DEF RankInv

\* A retry tells its parent.
LEMMA RankTells ==
  ASSUME CallsInv, RankInv, NEW c \in Calls, NEW d \in Calls, NEW m \in Ids, retryRejects(c, d, m)
  PROVE  RankInv'
<1>1. /\ rejecting(c) /\ c # Root /\ calls[c].parent.call = d /\ calls[c].parent # NoParent
      /\ calls'[c].parent = NoParent /\ rejected(d)'
      /\ \A e \in Calls : /\ e # c => calls'[e].parent = calls[e].parent
                          /\ e # d => calls'[e].stage = calls[e].stage
      /\ calls[d].stage \in {"swapping", "rejected"}
  BY DEF retryRejects, rejecting, rejected
<1>2. PICK rank \in [Calls -> Nat] : Ranked(rank)
  BY DEF RankInv
<1>3. \A e \in Calls : rejecting(e)' => e = d
  BY <1>1 DEF RankInv, rejecting
<1>4. rank[c] > rank[d] /\ rank[c] \in Nat /\ rank[d] \in Nat /\ c # d
  BY <1>1, <1>2 DEF Ranked
<1>5. ASSUME ~rejected(Root)', NEW e \in Calls, rejected(e)', ~rejecting(e)'
      PROVE  \E f \in Calls : rejecting(f)' /\ rank[e] > rank[f]
  <2>1. d # Root /\ ~rejected(Root)
    BY <1>1, <1>5, RootIsCall DEF rejected
  <2>2. \A f \in Calls : rejected(f) /\ ~rejecting(f) => rank[f] > rank[c]
    BY <1>1, <1>2, <2>1 DEF Ranked, RankInv
  <2>3. rejecting(d)'
    <3>1. CASE calls[d].parent = NoParent
      <4>1. rejected(d) /\ ~rejecting(d)
        BY <1>1, <2>1, <3>1 DEF CallsInv, Links, rejected, rejecting
      <4> QED BY <1>4, <2>2, <4>1
    <3>2. CASE calls[d].parent # NoParent
      BY <1>1, <1>4, <2>1, <3>2 DEF rejecting, rejected
    <3> QED BY <3>1, <3>2
  <2>4. CASE e = c
    BY <1>4, <2>3, <2>4
  <2>5. CASE e # c
    <3>1. e # d /\ rejected(e) /\ ~rejecting(e)
      BY <1>1, <1>5, <2>3, <2>5 DEF rejected, rejecting
    <3>2. rank[e] > rank[c] /\ rank[e] \in Nat
      BY <1>2, <2>2, <3>1
    <3> QED BY <1>4, <2>3, <3>2
  <2> QED BY <2>4, <2>5
<1>6. \A e \in Calls : calls'[e].parent # NoParent => rank[e] > rank[calls'[e].parent.call]
  BY <1>1, <1>2 DEF Ranked
<1>7. Ranked(rank)'
  BY <1>5, <1>6 DEF Ranked
<1> QED BY <1>2, <1>3, <1>7 DEF RankInv

LEMMA RankStep ==
  ASSUME BookInv, CallsInv, RankInv, PlaceNext
  PROVE  RankInv'
<1> USE DEF rejected, rejectedAt
<1>0. CallsTyped /\ Root \in Calls
  BY RootIsCall DEF CallsInv
<1>1. CASE Environment
  <2>1. ASSUME NEW p \in PeerIds, NEW quantity \in withdrawals(p), PeerInvalidates(p, quantity)
        PROVE  RankInv'
    <3>1. ASSUME NEW d \in Calls PROVE calls'[d].parent = calls[d].parent /\ calls'[d].stage = calls[d].stage
      <4>1. calls'[d] = IF calls[d].stage \in {"swapping", "rejected"}
                        THEN [calls[d] EXCEPT !.invalid = @ \cup {p}] ELSE calls[d]
        BY <2>1 DEF PeerInvalidates
      <4>2. calls[d] \in CallRecords
        BY <1>0, CallFields
      <4> QED BY <4>1, <4>2 DEF CallRecords
    <3> QED BY <3>1, RankSame
  <2>2. CASE Places
    <3>1. others(Root) /\ calls[Root].stage = "none" /\ calls'[Root].stage = "checking"
          /\ calls'[Root].parent = NoParent /\ calls[Root].parent = NoParent
      BY <2>2, PlacesAt DEF CallsInv, Links
    <3> QED BY <3>1, RankSame DEF others
  <2>3. ASSUME calls' = calls PROVE RankInv'
    BY <2>3, RankSame
  <2>4. ASSUME NEW p \in PeerIds, PeerOffers(p) \/ PeerCloses(p) \/ PeerReopens(p) PROVE RankInv'
    BY <2>3, <2>4 DEF PeerOffers, PeerCloses, PeerReopens, callVars
  <2>5. ASSUME NEW id \in OwnIds, OwnOffers(id) \/ OwnCancels(id) PROVE RankInv'
    BY <2>3, <2>5 DEF OwnOffers, OwnCancels, placeVars, callVars
  <2>6. CASE TimePasses
    BY <2>3, <2>6 DEF TimePasses
  <2> QED BY <1>1, <2>1, <2>2, <2>4, <2>5, <2>6 DEF Environment
<1>2. CASE Proceeds
  <2>1. ASSUME NEW c \in Calls, idle, others(c), keeps(c), rejectedAt(c),
               calls[c].stage \notin {"none", "ended"}
        PROVE  RankInv'
    BY <2>1, RankRejects DEF others, keeps
  <2>2. ASSUME NEW c \in Calls, CallRejects(c) PROVE RankInv'
    BY <2>1, <2>2, RejectsAt DEF CallRejects
  <2>3. ASSUME NEW c \in Calls, CallMatches(c) PROVE RankInv'
    BY <2>3, MatchesAt, RankSame DEF others, keeps
  <2>4. ASSUME NEW c \in Calls, CallSwaps(c) PROVE RankInv'
    BY <2>4, SwapsAt, RankSame DEF others, keeps
  <2>5. ASSUME NEW c \in Calls, NEW maker \in Ids, CallMeets(c, maker) PROVE RankInv'
    BY <2>5, MeetsAt, RankSame
  <2>6. CASE RootEnds
    <3>1. others(Root) /\ calls[Root].stage = "swapping" /\ calls'[Root].stage = "ended"
          /\ calls'[Root].parent = NoParent /\ calls[Root].parent = NoParent
      BY <2>6, RootEndsAt DEF CallsInv, Links
    <3> QED BY <3>1, RankSame DEF others
  <2>7. ASSUME NEW c \in Calls, RetryForgotten(c) PROVE RankInv'
    BY <2>7, ForgottenAt, RankGoes DEF others
  <2>8. ASSUME NEW c \in Calls, RetryEnds(c) PROVE RankInv'
    <3>1. PICK d \in Calls, m \in Ids :
            /\ retryEnds(c, d, m) /\ calls[c].stage = "swapping" /\ calls'[c] = NoCall
            /\ calls'[d].stage = calls[d].stage
      BY <2>8, RetryEndsAt
    <3>2. \A e \in Calls \ {c} : calls'[e].parent = calls[e].parent /\ calls'[e].stage = calls[e].stage
      BY <3>1 DEF retryEnds, keeps
    <3>3. c # Root
      BY <3>1 DEF retryEnds
    <3> QED BY <3>1, <3>2, <3>3, RankGoes
  <2>9. ASSUME NEW c \in Calls, RetryRejects(c) PROVE RankInv'
    <3>1. PICK d \in Calls, m \in Ids : retryRejects(c, d, m)
      BY <2>9, RetryRejectsAt
    <3> QED BY <3>1, RankTells
  <2>10. ASSUME NEW c \in Calls, NEW m \in Ids,
               \/ FillSaved(c, m) /\ m \in OwnIds
               \/ PartThrows(c, m)
               \/ m \in PeerIds /\ (SwapStarts(c, m) \/ SwapSucceeds(c, m) \/ SwapUnsaved(c, m))
        PROVE  RankInv'
    <3>1. calls' = calls \/ rejects(c)
      BY <2>10 DEF FillSaved, PartThrows, SwapStarts, SwapSucceeds, SwapUnsaved
    <3>2. idle /\ calls[c].stage \notin {"none", "ended"}
      BY <2>10 DEF FillSaved, PartThrows, SwapStarts, SwapSucceeds, SwapUnsaved, active
    <3>3. CASE calls' = calls
      BY <3>3, RankSame
    <3>4. CASE rejects(c)
      BY <2>1, <3>2, <3>4, RejectsAt
    <3> QED BY <3>1, <3>3, <3>4
  <2>11. ASSUME NEW c \in Calls, NEW p \in PeerIds,
               SwapFails(c, p) \/ \E accepted \in Parts : SwapPartly(c, p, accepted)
        PROVE  RankInv'
    <3>1. \E quantity \in Nat, swapped \in Nat, failed \in [PeerIds -> Orders] :
             retried(c, p, quantity, swapped, failed)
      BY <2>11, RetrySteps
    <3>2. PICK quantity \in Nat, swapped \in Nat, failed \in [PeerIds -> Orders] :
            retried(c, p, quantity, swapped, failed)
      BY <3>1
    <3>3. retriedAt(c, p, quantity, swapped, failed) /\ idle /\ active(c)
      BY <3>2, RetriedAt DEF retried
    <3>4. CASE refusedAt(c, p, failed)
      BY <2>1, <3>3, <3>4 DEF refusedAt, active
    <3>5. CASE tooLateAt(c, p, quantity, failed)
      BY <3>5, RankSame DEF tooLateAt, others, keeps
    <3>6. ASSUME NEW child \in Calls, calledAt(c, p, quantity, failed, child) PROVE RankInv'
      BY <3>3, <3>6, RankCalled
    <3> QED BY <3>3, <3>4, <3>5, <3>6 DEF retriedAt
  <2> QED BY <1>2, <2>2, <2>3, <2>4, <2>5, <2>6, <2>7, <2>8, <2>9, <2>10, <2>11 DEF Proceeds, Ids
<1> QED BY <1>1, <1>2 DEF PlaceNext

-----------------------------------------------------------------------------
(* What becomes of the order *)

AccountInv ==
  /\ OrderAccounted
  /\ calls[Root].stage = "none" => counts = NoCounts
  /\ \A c \in Calls : calls[c].stage = "checking" => calls[c].remaining = 0

amount(c) == quantityIn(c) + inSwaps(c)
total == settled + inCalls

\* The numbers above are numbers, now and after the step.
LEMMA AmountNat ==
  ASSUME BookInv, CallsTyped, NEW c \in Calls
  PROVE  /\ quantityIn(c) \in Nat /\ inSwaps(c) \in Nat /\ amount(c) \in Nat
         /\ \A m \in Ids : inSwap(c, m) \in Nat
<1>1. taker.quantity \in Nat /\ calls[c].quantity \in Nat /\ calls[c].remaining \in Nat
  BY CallFields DEF BookInv, PairTypeOK, Takers
<1>2. quantityIn(c) \in Nat
  BY <1>1 DEF quantityIn
<1>3. \A m \in Ids : inSwap(c, m) \in Nat
  BY PartFields DEF inSwap
<1> DEFINE q == [m \in Ids |-> inSwap(c, m)]
<1>4. inSwaps(c) = SumFunctionOnSet(q, Ids) /\ \A m \in Ids : q[m] \in Nat
  BY <1>3 DEF inSwaps
<1> HIDE DEF q
<1>5. inSwaps(c) \in Nat
  BY <1>4, SumNat, PlaceOrderAssumption
<1> QED BY <1>2, <1>3, <1>5 DEF amount

LEMMA AmountNatNext ==
  ASSUME BookInv', CallsTyped', NEW c \in Calls
  PROVE  /\ quantityIn(c)' \in Nat /\ inSwaps(c)' \in Nat /\ amount(c)' \in Nat
         /\ \A m \in Ids : inSwap(c, m)' \in Nat
<1>1. taker'.quantity \in Nat /\ calls'[c].quantity \in Nat /\ calls'[c].remaining \in Nat
  BY DEF BookInv, PairTypeOK, Takers, CallsTyped, CallsOK, CallOK, CallRecords
<1>2. quantityIn(c)' \in Nat
  BY <1>1 DEF quantityIn
<1>3. \A m \in Ids : inSwap(c, m)' \in Nat
  <2>1. \A m \in Ids : parts'[c][m].order.quantity \in Nat
    BY DEF CallsTyped, PartsOK, PartRecords, Orders
  <2> QED BY <2>1 DEF inSwap
<1> DEFINE q == [m \in Ids |-> inSwap(c, m)']
<1>4. inSwaps(c)' = SumFunctionOnSet(q, Ids) /\ \A m \in Ids : q[m] \in Nat
  BY <1>3 DEF inSwaps
<1> HIDE DEF q
<1>5. inSwaps(c)' \in Nat
  BY <1>4, SumNat, PlaceOrderAssumption
<1> QED BY <1>2, <1>3, <1>5 DEF amount

LEMMA SettledNat ==
  ASSUME CallsTyped
  PROVE  /\ settled \in Nat
         /\ counts.swapped \in Nat /\ counts.filled \in Nat /\ counts.placed \in Nat /\ counts.discarded \in Nat
<1>1. counts \in [swapped : Nat, filled : Nat, placed : Nat, discarded : Nat]
  BY DEF CallsTyped
<1> QED BY <1>1 DEF settled

LEMMA TotalNat ==
  ASSUME BookInv, CallsTyped
  PROVE  settled \in Nat /\ inCalls \in Nat /\ total \in Nat
<1> DEFINE q == [c \in Calls |-> amount(c)]
<1>1. inCalls = SumFunctionOnSet(q, Calls) /\ \A c \in Calls : q[c] \in Nat
  BY AmountNat DEF inCalls, amount
<1> HIDE DEF q
<1>2. inCalls \in Nat
  BY <1>1, SumNat, CallsAreFinite
<1> QED BY <1>2, SettledNat DEF total

LEMMA TotalNatNext ==
  ASSUME BookInv', CallsTyped'
  PROVE  settled' \in Nat /\ inCalls' \in Nat /\ total' \in Nat
<1> DEFINE q == [c \in Calls |-> amount(c)']
<1>1. inCalls' = SumFunctionOnSet(q, Calls) /\ \A c \in Calls : q[c] \in Nat
  BY AmountNatNext DEF inCalls, amount
<1> HIDE DEF q
<1>2. inCalls' \in Nat
  BY <1>1, SumNat, CallsAreFinite
<1>3. settled' \in Nat
  <2>1. counts' \in [swapped : Nat, filled : Nat, placed : Nat, discarded : Nat]
    BY DEF CallsTyped
  <2> QED BY <2>1 DEF settled
<1>4. PICK s, i : s = settled' /\ i = inCalls'
  BY Zenon
<1>5. s \in Nat /\ i \in Nat /\ total' = s + i
  BY <1>2, <1>3, <1>4, Zenon DEF total
<1> QED BY <1>2, <1>3, <1>5

\* One part of a call changes; or none does; or it has none.
LEMMA SwapsChange ==
  ASSUME BookInv, BookInv', CallsTyped, CallsTyped', NEW c \in Calls, NEW m \in Ids,
         \A n \in Ids : n # m => parts'[c][n] = parts[c][n]
  PROVE  inSwaps(c)' + inSwap(c, m) = inSwaps(c) + inSwap(c, m)'
<1> DEFINE q == [n \in Ids |-> inSwap(c, n)]
           r == [n \in Ids |-> inSwap(c, n)']
<1>1. \A n \in Ids : q[n] \in Nat /\ r[n] \in Nat
  BY AmountNat, AmountNatNext
<1>2. \A n \in Ids \ {m} : q[n] = r[n]
  BY DEF inSwap
<1>3. inSwaps(c) = SumFunctionOnSet(q, Ids) /\ inSwaps(c)' = SumFunctionOnSet(r, Ids)
  BY DEF inSwaps
<1>4. q[m] = inSwap(c, m) /\ r[m] = inSwap(c, m)'
  OBVIOUS
<1> HIDE DEF q, r
<1>5. SumFunctionOnSet(r, Ids) + q[m] = SumFunctionOnSet(q, Ids) + r[m]
  BY <1>1, <1>2, SumChange, PlaceOrderAssumption
<1> QED BY <1>3, <1>4, <1>5

LEMMA SwapsSame ==
  ASSUME NEW c \in Calls, \A n \in Ids : parts'[c][n] = parts[c][n]
  PROVE  inSwaps(c)' = inSwaps(c)
<1>1. [n \in Ids |-> inSwap(c, n)'] = [n \in Ids |-> inSwap(c, n)]
  BY DEF inSwap
<1> QED BY <1>1 DEF inSwaps

LEMMA SwapsNone ==
  ASSUME NEW c \in Calls
  PROVE  /\ (\A n \in Ids : parts[c][n].stage = "none") => inSwaps(c) = 0
         /\ (\A n \in Ids : parts'[c][n].stage = "none") => inSwaps(c)' = 0
<1>1. ASSUME \A n \in Ids : parts[c][n].stage = "none" PROVE inSwaps(c) = 0
  <2> DEFINE q == [n \in Ids |-> inSwap(c, n)]
  <2>1. (\A n \in Ids : q[n] = 0) /\ inSwaps(c) = SumFunctionOnSet(q, Ids)
    BY <1>1 DEF inSwap, inSwaps
  <2> HIDE DEF q
  <2> QED BY <2>1, SumZero, PlaceOrderAssumption
<1>2. ASSUME \A n \in Ids : parts'[c][n].stage = "none" PROVE inSwaps(c)' = 0
  <2> DEFINE q == [n \in Ids |-> inSwap(c, n)']
  <2>1. (\A n \in Ids : q[n] = 0) /\ inSwaps(c)' = SumFunctionOnSet(q, Ids)
    BY <1>2 DEF inSwap, inSwaps
  <2> HIDE DEF q
  <2> QED BY <2>1, SumZero, PlaceOrderAssumption
<1> QED BY <1>1, <1>2

\* A call that has as much as before.
quiet(c) ==
  /\ calls'[c].stage = calls[c].stage /\ calls'[c].quantity = calls[c].quantity
  /\ calls'[c].remaining = calls[c].remaining
  /\ \A m \in Ids : parts'[c][m] = parts[c][m]
  /\ calls[c].stage = "matching" => taker' = taker

LEMMA QuietAmount ==
  ASSUME NEW c \in Calls, quiet(c)
  PROVE  amount(c)' = amount(c)
BY SwapsSame DEF quiet, quantityIn, amount

\* No call, one, or two have more or less than before.
LEMMA NoAmount ==
  ASSUME \A c \in Calls : amount(c)' = amount(c)
  PROVE  inCalls' = inCalls
<1>1. [c \in Calls |-> amount(c)'] = [c \in Calls |-> amount(c)]
  OBVIOUS
<1> QED BY <1>1 DEF inCalls, amount

LEMMA OneAmount ==
  ASSUME BookInv, BookInv', CallsTyped, CallsTyped', NEW c \in Calls,
         \A d \in Calls \ {c} : amount(d)' = amount(d)
  PROVE  inCalls' + amount(c) = inCalls + amount(c)'
<1> DEFINE q == [d \in Calls |-> amount(d)]
           r == [d \in Calls |-> amount(d)']
<1>1. \A d \in Calls : q[d] \in Nat /\ r[d] \in Nat
  BY AmountNat, AmountNatNext
<1>2. \A d \in Calls \ {c} : q[d] = r[d]
  OBVIOUS
<1>3. q[c] = amount(c) /\ r[c] = amount(c)'
  OBVIOUS
<1>4. inCalls = SumFunctionOnSet(q, Calls) /\ inCalls' = SumFunctionOnSet(r, Calls)
  BY DEF inCalls, amount
<1> HIDE DEF q, r
<1>5. SumFunctionOnSet(r, Calls) + q[c] = SumFunctionOnSet(q, Calls) + r[c]
  BY <1>1, <1>2, CallsAreFinite, SumChange
<1> QED BY <1>3, <1>4, <1>5

LEMMA TwoAmounts ==
  ASSUME BookInv, BookInv', CallsTyped, CallsTyped', NEW c \in Calls, NEW d \in Calls, c # d,
         \A e \in Calls \ {c, d} : amount(e)' = amount(e)
  PROVE  inCalls' + amount(c) + amount(d) = inCalls + amount(c)' + amount(d)'
<1> DEFINE q == [e \in Calls |-> amount(e)]
           r == [e \in Calls |-> amount(e)']
           s == [e \in Calls |-> IF e = d THEN amount(e)' ELSE amount(e)]
<1>1. \A e \in Calls : q[e] \in Nat /\ r[e] \in Nat /\ s[e] \in Nat
  BY AmountNat, AmountNatNext
<1>2. (\A e \in Calls \ {d} : q[e] = s[e]) /\ (\A e \in Calls \ {c} : s[e] = r[e])
  OBVIOUS
<1>3. q[c] = amount(c) /\ r[c] = amount(c)' /\ s[c] = q[c] /\ q[d] = amount(d) /\ r[d] = amount(d)'
      /\ s[d] = r[d]
  OBVIOUS
<1>4. inCalls = SumFunctionOnSet(q, Calls) /\ inCalls' = SumFunctionOnSet(r, Calls)
  BY DEF inCalls, amount
<1> HIDE DEF q, r, s
<1>5. /\ SumFunctionOnSet(q, Calls) \in Nat /\ SumFunctionOnSet(s, Calls) \in Nat
      /\ SumFunctionOnSet(s, Calls) + q[d] = SumFunctionOnSet(q, Calls) + s[d]
  BY <1>1, <1>2, CallsAreFinite, SumChange
<1>6. /\ SumFunctionOnSet(r, Calls) \in Nat
      /\ SumFunctionOnSet(r, Calls) + s[c] = SumFunctionOnSet(s, Calls) + r[c]
  BY <1>1, <1>2, CallsAreFinite, SumChange
<1> QED BY <1>1, <1>3, <1>4, <1>5, <1>6

LEMMA SettledCounted ==
  ASSUME CallsTyped, NEW swapped \in Nat, NEW discarded \in Nat, counted(swapped, discarded)
  PROVE  settled' = settled + swapped + discarded
BY SettledNat, CountedOK DEF settled

\* A step keeps count of the order, or loses some of it and a call is rejected.
accounts ==
  /\ calls[Root].stage # "none" /\ calls'[Root].stage # "none"
  /\ calls'[Root].quantity = calls[Root].quantity
  /\ \/ total' = total /\ \A c \in Calls : rejected(c) => \E d \in Calls : rejectedAt(d)
     \/ total' <= total /\ \E d \in Calls : rejectedAt(d)
  /\ \A c \in Calls : calls'[c].stage = "checking" => calls'[c].remaining = 0

LEMMA AccountKeeps ==
  ASSUME BookInv, BookInv', CallsInv, CallsInv', AccountInv, accounts
  PROVE  AccountInv'
<1>1. total \in Nat /\ calls[Root].quantity \in Nat
  BY TotalNat, CallFields, RootIsCall DEF CallsInv
<1>2. total' \in Nat
  BY TotalNatNext DEF CallsInv
<1>3. IF \E c \in Calls : rejected(c) THEN total <= calls[Root].quantity ELSE total = calls[Root].quantity
  BY DEF AccountInv, OrderAccounted, accounts, rejected, total
<1>4. IF \E c \in Calls : rejectedAt(c) THEN total' <= calls'[Root].quantity
      ELSE total' = calls'[Root].quantity
  <2>1. total' <= total /\ total <= calls[Root].quantity
    BY <1>1, <1>2, <1>3 DEF accounts
  <2>2. total' <= calls'[Root].quantity
    BY <1>1, <1>2, <2>1 DEF accounts
  <2>3. ASSUME ~ \E c \in Calls : rejectedAt(c) PROVE total' = calls'[Root].quantity
    BY <1>3, <2>3 DEF accounts
  <2> QED BY <2>2, <2>3
<1>5. OrderAccounted'
  BY <1>4 DEF OrderAccounted, rejectedAt, total
<1> QED BY <1>5 DEF AccountInv, accounts

\* A call that has a stage has a first call.
LEMMA RootRuns ==
  ASSUME CallsInv, NEW c \in Calls, calls[c].stage # "none"
  PROVE  calls[Root].stage # "none"
BY DEF CallsInv, Stagings

\* What the calls have less is settled, or lost.
LEMMA Balance ==
  ASSUME BookInv, BookInv', CallsTyped, CallsTyped', NEW a \in Nat, NEW b \in Nat, NEW gain \in Nat,
         inCalls' + a = inCalls + b, settled' = settled + gain
  PROVE  /\ b + gain = a => total' = total
         /\ b + gain <= a => total' <= total
<1>1. PICK s0, s1, i0, i1 : s0 = settled /\ s1 = settled' /\ i0 = inCalls /\ i1 = inCalls'
  BY Zenon
<1>2. /\ s0 \in Nat /\ s1 \in Nat /\ i0 \in Nat /\ i1 \in Nat
      /\ i1 + a = i0 + b /\ s1 = s0 + gain
  BY <1>1, TotalNat, TotalNatNext, Zenon
<1>3. (b + gain = a => s1 + i1 = s0 + i0) /\ (b + gain <= a => s1 + i1 <= s0 + i0)
  BY <1>2
<1>4. total = s0 + i0 /\ total' = s1 + i1
  BY <1>1, Zenon DEF total
<1> QED BY <1>1, <1>3, <1>4, Zenon

\* One call that is not the first to begin changes, and its parts.
LEMMA OneAccount ==
  ASSUME BookInv, BookInv', CallsInv, CallsInv', AccountInv, NEW c \in Calls,
         calls[c].stage # "none", others(c), calls'[c].stage # "none" \/ c # Root,
         calls'[c].quantity = calls[c].quantity \/ c # Root,
         calls'[c].stage # "checking",
         \A d \in Calls \ {c} : /\ \A m \in Ids : parts'[d][m] = parts[d][m]
                                /\ calls[d].stage = "matching" => taker' = taker,
         NEW gain \in Nat, settled' = settled + gain,
         \/ amount(c)' + gain = amount(c) /\ (rejected(c) => \E d \in Calls : rejectedAt(d))
         \/ amount(c)' + gain <= amount(c) /\ \E d \in Calls : rejectedAt(d)
  PROVE  AccountInv'
<1>1. calls[Root].stage # "none" /\ CallsTyped /\ CallsTyped' /\ Root \in Calls
  BY RootRuns, RootIsCall DEF CallsInv
<1>2. calls'[Root].stage # "none" /\ calls'[Root].quantity = calls[Root].quantity
  BY <1>1 DEF others
<1>3. \A d \in Calls \ {c} : amount(d)' = amount(d)
  <2>1. \A d \in Calls \ {c} : quiet(d)
    BY DEF quiet, others
  <2> QED BY <2>1, QuietAmount
<1>4. inCalls' + amount(c) = inCalls + amount(c)'
  BY <1>1, <1>3, OneAmount
<1>5. amount(c) \in Nat /\ amount(c)' \in Nat
  BY <1>1, AmountNat, AmountNatNext
<1>6. /\ amount(c)' + gain = amount(c) => total' = total
      /\ amount(c)' + gain <= amount(c) => total' <= total
  <2>1. PICK a \in Nat, b \in Nat : a = amount(c) /\ b = amount(c)'
    BY <1>5
  <2>2. inCalls' + a = inCalls + b
    BY <1>4, <2>1, Zenon
  <2>3. (b + gain = a => total' = total) /\ (b + gain <= a => total' <= total)
    BY <1>1, <2>2, Balance
  <2> QED BY <2>1, <2>3, Zenon
<1>8. \A d \in Calls : rejected(d) => rejectedAt(d) \/ d = c
  BY DEF others, rejected, rejectedAt
<1>9. \A d \in Calls : calls'[d].stage = "checking" => calls'[d].remaining = 0
  BY DEF others, AccountInv
<1>10. \/ total' = total /\ \A d \in Calls : rejected(d) => \E e \in Calls : rejectedAt(e)
       \/ total' <= total /\ \E d \in Calls : rejectedAt(d)
  BY <1>6, <1>8
<1>11. accounts
  BY <1>1, <1>2, <1>9, <1>10 DEF accounts
<1> QED BY <1>11, AccountKeeps

\* None changes.
LEMMA SameAccount ==
  ASSUME BookInv, BookInv', CallsInv, CallsInv', AccountInv, settled' = settled,
         \A c \in Calls : amount(c)' = amount(c),
         \A c \in Calls : calls'[c].stage = calls[c].stage /\ calls'[c].quantity = calls[c].quantity
                          /\ calls'[c].remaining = calls[c].remaining,
         calls[Root].stage # "none"
  PROVE  AccountInv'
<1>1. inCalls' = inCalls /\ total' = total
  BY NoAmount DEF total
<1>2. accounts
  BY <1>1, RootIsCall DEF accounts, rejected, rejectedAt, AccountInv
<1> QED BY <1>2, AccountKeeps

\* Before the order is placed there is nothing to account for.
LEMMA NoAccount ==
  ASSUME CallsInv, AccountInv, calls[Root].stage = "none",
         \A c \in Calls : calls'[c] = calls[c], counts' = counts
  PROVE  AccountInv'
<1>1. calls'[Root].stage = "none"
  BY RootIsCall
<1> QED BY <1>1 DEF AccountInv, OrderAccounted

\* Only one call matches at a time.
LEMMA OneMatches ==
  ASSUME CallsInv, NEW c \in Calls, calls[c].stage = "matching" \/ ~matching
  PROVE  \A d \in Calls \ {c} : calls[d].stage # "matching"
BY DEF CallsInv, Stagings

LEMMA RejectsAccount ==
  ASSUME BookInv, BookInv', CallsInv, CallsInv', AccountInv, NEW c \in Calls, CallRejects(c)
  PROVE  AccountInv'
<1>1. /\ others(c) /\ keeps(c) /\ calls'[c].stage = "rejected" /\ calls[c].stage = "checking"
      /\ calls'[c].remaining = calls[c].remaining /\ parts' = parts /\ taker' = taker
      /\ counts' = counts /\ CallsTyped
  BY RejectsAt DEF CallRejects, pairVars, CallsInv
<1>2. settled' = settled + 0
  BY <1>1, SettledNat DEF settled
<1>3. amount(c)' + 0 <= amount(c)
  <2>1. quantityIn(c)' = 0
    BY <1>1 DEF quantityIn, AccountInv
  <2>2. quantityIn(c) \in Nat /\ inSwaps(c) \in Nat /\ inSwaps(c)' = inSwaps(c)
    BY <1>1, AmountNat, SwapsSame
  <2> QED BY <2>1, <2>2 DEF amount
<1>4. \E d \in Calls : rejectedAt(d)
  BY <1>1 DEF rejectedAt
<1> QED BY <1>1, <1>2, <1>3, <1>4, OneAccount DEF keeps

LEMMA MatchesAccount ==
  ASSUME BookInv, BookInv', CallsInv, CallsInv', AccountInv, NEW c \in Calls,
         CallMatches(c) \/ CallSwaps(c)
  PROVE  AccountInv'
<1>1. /\ others(c) /\ keeps(c) /\ calls'[c].stage \in {"matching", "swapping"}
      /\ ~rejected(c) /\ calls[c].stage # "none" /\ parts' = parts /\ counts' = counts
      /\ calls[c].stage = "matching" \/ ~matching
      /\ quantityIn(c)' = quantityIn(c)
  <2>1. CASE CallMatches(c)
    <3>1. /\ others(c) /\ keeps(c) /\ calls[c].stage = "checking" /\ calls'[c].stage = "matching"
          /\ parts' = parts /\ idle /\ taker'.quantity = calls[c].quantity
      BY <2>1, MatchesAt
    <3>2. quantityIn(c) = calls[c].quantity /\ quantityIn(c)' = taker'.quantity
      BY <3>1 DEF quantityIn
    <3> QED BY <2>1, <3>1, <3>2 DEF CallMatches, idle, rejected
  <2>2. CASE CallSwaps(c)
    <3>1. /\ others(c) /\ keeps(c) /\ calls[c].stage = "matching" /\ calls'[c].stage = "swapping"
          /\ calls'[c].remaining = taker.quantity /\ parts' = parts
      BY <2>2, SwapsAt
    <3>2. quantityIn(c) = taker.quantity /\ quantityIn(c)' = calls'[c].remaining
      BY <3>1 DEF quantityIn
    <3> QED BY <2>2, <3>1, <3>2 DEF CallSwaps, rejected
  <2> QED BY <2>1, <2>2
<1>2. settled' = settled + 0
  BY <1>1, SettledNat DEF settled, CallsInv
<1>3. amount(c)' + 0 = amount(c)
  <2>1. inSwaps(c)' = inSwaps(c) /\ quantityIn(c) \in Nat /\ inSwaps(c) \in Nat
    BY <1>1, SwapsSame, AmountNat DEF CallsInv
  <2> QED BY <1>1, <2>1 DEF amount
<1>4. \A d \in Calls \ {c} : calls[d].stage # "matching"
  BY <1>1, OneMatches
<1>5. calls'[c].stage \notin {"none", "checking"}
  BY <1>1
<1> QED BY <1>1, <1>2, <1>3, <1>4, <1>5, OneAccount DEF keeps

LEMMA MeetsAccount ==
  ASSUME BookInv, BookInv', CallsInv, CallsInv', MeetInv, AccountInv, NEW c \in Calls,
         NEW maker \in Ids, CallMeets(c, maker)
  PROVE  AccountInv'
<1> DEFINE q == matchingQuantity(maker)
           gain == IF maker \in OwnIds THEN q ELSE 0
<1>1. /\ calls' = calls /\ calls[c].stage = "matching" /\ onePart(c, maker)
      /\ parts'[c][maker].stage = IF maker \in OwnIds THEN "filling" ELSE "starting"
      /\ parts'[c][maker].order.quantity = q /\ parts[c][maker].stage = "none"
      /\ CallsTyped /\ CallsTyped'
  BY MeetsAt, MeetsNew DEF CallsInv
<1>2. /\ q \in Nat /\ gain \in Nat /\ taker'.quantity = taker.quantity - q
      /\ taker.quantity \in Nat
  <2>1. met(maker) /\ taker \in Takers
    BY MeetsAt DEF BookInv, PairTypeOK
  <2> QED BY <2>1 DEF met, Takers
<1>3. settled' = settled + gain
  <2>1. counts' = [counts EXCEPT !.filled = @ + gain]
    BY DEF CallMeets
  <2>2. counts \in [swapped : Nat, filled : Nat, placed : Nat, discarded : Nat]
    BY <1>1 DEF CallsTyped
  <2> HIDE DEF gain
  <2>3. /\ counts'.filled = counts.filled + gain /\ counts'.swapped = counts.swapped
        /\ counts'.placed = counts.placed /\ counts'.discarded = counts.discarded
    BY <2>1, <2>2
  <2> QED BY <1>1, <1>2, <2>3, SettledNat DEF settled
<1>4. amount(c)' + gain = amount(c)
  <2>1. inSwap(c, maker) = 0 /\ inSwap(c, maker)' = IF maker \in OwnIds THEN 0 ELSE q
    BY <1>1 DEF inSwap
  <2>2. inSwaps(c)' + inSwap(c, maker) = inSwaps(c) + inSwap(c, maker)'
    BY <1>1, SwapsChange DEF onePart
  <2>3. quantityIn(c) = taker.quantity /\ quantityIn(c)' = taker'.quantity
    BY <1>1 DEF quantityIn
  <2>4. inSwaps(c) \in Nat /\ inSwaps(c)' \in Nat
    BY <1>1, AmountNat, AmountNatNext
  <2> HIDE DEF q
  <2> QED BY <1>2, <2>1, <2>2, <2>3, <2>4 DEF amount
<1>5. \A d \in Calls \ {c} : calls[d].stage # "matching"
  BY <1>1, OneMatches
<1>6. others(c) /\ ~rejected(c)
  BY <1>1 DEF others, rejected
<1> HIDE DEF q, gain
<1> QED BY <1>1, <1>2, <1>3, <1>4, <1>5, <1>6, OneAccount DEF onePart

\* A part of a call ends, or its swap starts: what it no longer has is back with
\* the call, or settled; or it is lost, and the call rejects.
LEMMA PartAccount ==
  ASSUME BookInv, BookInv', CallsInv, CallsInv', AccountInv, NEW c \in Calls, NEW m \in Ids,
         ~matching, active(c), others(c), keeps(c), onePart(c, m),
         calls'[c].stage \in {calls[c].stage, "rejected"},
         NEW back \in Nat, calls'[c].remaining = calls[c].remaining + back,
         NEW gain \in Nat, settled' = settled + gain,
         \/ inSwap(c, m)' + back + gain = inSwap(c, m)
         \/ inSwap(c, m)' + back + gain <= inSwap(c, m) /\ rejectedAt(c)
  PROVE  AccountInv'
<1>1. CallsTyped /\ CallsTyped'
  BY DEF CallsInv
<1>2. calls[c].stage \in {"swapping", "rejected"} /\ calls'[c].stage \in {"swapping", "rejected"}
  BY DEF active
<1>3. /\ quantityIn(c) = calls[c].remaining /\ quantityIn(c)' = calls[c].remaining + back
      /\ calls[c].remaining \in Nat
  BY <1>1, <1>2, CallFields DEF quantityIn
<1>4. inSwaps(c)' + inSwap(c, m) = inSwaps(c) + inSwap(c, m)'
  BY <1>1, SwapsChange DEF onePart
<1>5. /\ inSwaps(c) \in Nat /\ inSwaps(c)' \in Nat
      /\ inSwap(c, m) \in Nat /\ inSwap(c, m)' \in Nat
  BY <1>1, AmountNat, AmountNatNext
<1>6. /\ amount(c) = calls[c].remaining + inSwaps(c)
      /\ amount(c)' = calls[c].remaining + back + inSwaps(c)'
  BY <1>3 DEF amount
<1>7. /\ inSwap(c, m)' + back + gain = inSwap(c, m) => amount(c)' + gain = amount(c)
      /\ inSwap(c, m)' + back + gain <= inSwap(c, m) => amount(c)' + gain <= amount(c)
  BY <1>3, <1>4, <1>5, <1>6
<1>8. rejected(c) => rejectedAt(c)
  BY DEF rejected, rejectedAt
<1>9. \A d \in Calls \ {c} : calls[d].stage # "matching"
  BY OneMatches
<1> QED BY <1>2, <1>7, <1>8, <1>9, OneAccount DEF keeps, onePart

LEMMA PartsAccount ==
  ASSUME BookInv, BookInv', CallsInv, CallsInv', AccountInv, NEW c \in Calls, NEW m \in Ids,
         \/ FillSaved(c, m) /\ m \in OwnIds
         \/ PartThrows(c, m)
         \/ m \in PeerIds /\ (SwapStarts(c, m) \/ SwapSucceeds(c, m) \/ SwapUnsaved(c, m))
  PROVE  AccountInv'
<1>1. partMoves(c, m) /\ CallsTyped
  BY PartSteps DEF CallsInv
<1>2. /\ ~matching /\ active(c) /\ others(c) /\ onePart(c, m)
      /\ calls'[c].stage \in {calls[c].stage, "rejected"}
  BY <1>1 DEF partMoves, others, onePart
<1>3. keeps(c) /\ calls'[c].remaining = calls[c].remaining /\ (rejects(c) => rejectedAt(c))
  <2>1. calls' = calls \/ rejects(c)
    BY DEF FillSaved, PartThrows, SwapStarts, SwapSucceeds, SwapUnsaved
  <2>2. CASE rejects(c)
    BY <2>2, RejectsAt DEF rejectedAt
  <2>3. CASE calls' = calls /\ ~rejects(c)
    BY <2>3 DEF keeps
  <2> QED BY <2>1, <2>2, <2>3
<1>4. calls[c].remaining \in Nat /\ calls'[c].remaining = calls[c].remaining + 0
  BY <1>1, <1>3, CallFields
<1>5. inSwap(c, m) \in Nat
  BY <1>1, AmountNat
<1>6. ends(c, m) => inSwap(c, m)' = 0
  <2>1. ends(c, m) => parts'[c][m].stage = "none"
    BY <1>1, EndsAt, NoPartOK
  <2> QED BY <2>1 DEF inSwap
<1>7. CASE counts' = counts
  <2>1. settled' = settled + 0
    BY <1>1, <1>7, SettledNat DEF settled
  <2>2. \/ inSwap(c, m)' + 0 + 0 = inSwap(c, m)
        \/ inSwap(c, m)' + 0 + 0 <= inSwap(c, m) /\ rejectedAt(c)
    <3>1. CASE FillSaved(c, m)
      <4>1. inSwap(c, m) = 0
        BY <3>1 DEF FillSaved, inSwap
      <4> QED BY <1>6, <3>1, <4>1 DEF FillSaved
    <3>2. CASE PartThrows(c, m)
      BY <1>3, <1>5, <1>6, <3>2 DEF PartThrows
    <3>3. CASE m \in PeerIds /\ SwapStarts(c, m)
      <4>1. stages(c, m, "swapping") /\ parts[c][m].stage = "starting"
        BY <3>3 DEF SwapStarts, stages
      <4>2. parts'[c][m].stage = "swapping" /\ parts'[c][m].order = parts[c][m].order
        BY <1>1, <4>1, PartStageAt
      <4>3. inSwap(c, m)' = inSwap(c, m)
        BY <4>1, <4>2 DEF inSwap
      <4> QED BY <1>5, <4>3
    <3>4. CASE m \in PeerIds /\ (SwapSucceeds(c, m) \/ SwapUnsaved(c, m))
      <4>1. /\ counted(parts[c][m].order.quantity, 0) /\ parts[c][m].stage = "swapping" /\ ends(c, m)
            /\ parts[c][m].order.quantity \in Nat /\ 0 \in Nat
        BY <1>1, <3>4, PartFields DEF SwapSucceeds, SwapUnsaved
      <4>2. counts'.swapped = counts.swapped + parts[c][m].order.quantity
        BY <1>1, <4>1, CountedOK
      <4>3. inSwap(c, m) = 0
        BY <1>1, <1>7, <4>1, <4>2, SettledNat DEF inSwap
      <4> QED BY <1>6, <4>1, <4>3
    <3> QED BY <3>1, <3>2, <3>3, <3>4
  <2> QED BY <1>2, <1>3, <1>4, <2>1, <2>2, PartAccount
<1>8. CASE m \in PeerIds /\ (SwapSucceeds(c, m) \/ SwapUnsaved(c, m))
  <2> DEFINE q == parts[c][m].order.quantity
  <2>1. /\ counted(q, 0) /\ parts[c][m].stage = "swapping" /\ ends(c, m) /\ q \in Nat /\ 0 \in Nat
    BY <1>1, <1>8, PartFields DEF SwapSucceeds, SwapUnsaved
  <2>2. inSwap(c, m) = q
    BY <2>1 DEF inSwap
  <2> HIDE DEF q
  <2>3. settled' = settled + q
    <3>1. settled' = settled + q + 0
      BY <1>1, <2>1, SettledCounted
    <3> QED BY <1>1, <2>1, <3>1, SettledNat
  <2>4. inSwap(c, m)' + 0 + q = inSwap(c, m)
    BY <1>6, <2>1, <2>2
  <2> QED BY <1>2, <1>3, <1>4, <2>1, <2>3, <2>4, PartAccount
<1> QED BY <1>7, <1>8 DEF FillSaved, PartThrows, SwapStarts

\* A part is placed again.
LEMMA RetriesAccount ==
  ASSUME BookInv, BookInv', CallsInv, CallsInv', AccountInv, NEW c \in Calls, NEW p \in PeerIds,
         SwapFails(c, p) \/ \E accepted \in Parts : SwapPartly(c, p, accepted)
  PROVE  AccountInv'
<1>1. \E quantity \in Nat, swapped \in Nat, failed \in [PeerIds -> Orders] :
         retried(c, p, quantity, swapped, failed)
  BY RetrySteps
<1>2. PICK quantity \in Nat, swapped \in Nat, failed \in [PeerIds -> Orders] :
        retried(c, p, quantity, swapped, failed)
  BY <1>1
<1>3. /\ retriedAt(c, p, quantity, swapped, failed) /\ idle /\ active(c) /\ p \in Ids
      /\ CallsTyped /\ CallsTyped' /\ ~matching
      /\ quantity + swapped = parts[c][p].order.quantity /\ parts[c][p].stage = "swapping"
  BY <1>2, RetriedAt DEF retried, CallsInv, Ids, idle
<1>4. /\ inSwap(c, p) = quantity + swapped /\ 0 \in Nat /\ calls[c].remaining \in Nat
      /\ unmatched(quantity) \in Nat /\ quantity - unmatched(quantity) \in Nat
  BY <1>3, CallFields, UnmatchedNat DEF inSwap
<1>5. CASE refusedAt(c, p, failed) /\ counted(swapped, 0)
  <2>1. settled' = settled + swapped
    <3>1. settled' = settled + swapped + 0
      BY <1>3, <1>4, <1>5, SettledCounted
    <3> QED BY <1>3, <3>1, SettledNat
  <2>2. /\ others(c) /\ keeps(c) /\ onePart(c, p) /\ calls'[c].stage = "rejected" /\ rejectedAt(c)
        /\ calls'[c].remaining = calls[c].remaining + 0
    BY <1>4, <1>5 DEF refusedAt, rejectedAt
  <2>3. inSwap(c, p)' = 0
    BY <1>5, NoPartOK DEF refusedAt, inSwap
  <2>4. inSwap(c, p)' + 0 + swapped <= inSwap(c, p)
    BY <1>4, <2>3
  <2> QED BY <1>3, <1>4, <2>1, <2>2, <2>4, PartAccount
<1>6. CASE tooLateAt(c, p, quantity, failed) /\ counted(swapped, quantity - unmatched(quantity))
  <2> DEFINE gain == swapped + (quantity - unmatched(quantity))
  <2>1. settled' = settled + gain /\ gain \in Nat
    <3>1. settled' = settled + swapped + (quantity - unmatched(quantity))
      BY <1>3, <1>4, <1>6, SettledCounted
    <3> QED BY <1>3, <1>4, <3>1, SettledNat
  <2>2. /\ others(c) /\ keeps(c) /\ onePart(c, p) /\ calls'[c].stage = calls[c].stage
        /\ calls'[c].remaining = calls[c].remaining + unmatched(quantity)
    BY <1>6 DEF tooLateAt
  <2>3. inSwap(c, p)' = 0
    BY <1>6, NoPartOK DEF tooLateAt, inSwap
  <2>4. inSwap(c, p)' + unmatched(quantity) + gain = inSwap(c, p)
    BY <1>4, <2>3
  <2> HIDE DEF gain
  <2> QED BY <1>3, <1>4, <2>1, <2>2, <2>4, PartAccount
<1>7. ASSUME NEW child \in Calls, calledAt(c, p, quantity, failed, child), counted(swapped, 0)
      PROVE  AccountInv'
  <2>1. settled' = settled + swapped
    <3>1. settled' = settled + swapped + 0
      BY <1>3, <1>4, <1>7, SettledCounted
    <3> QED BY <1>3, <3>1, SettledNat
  <2>2. /\ child # c /\ keeps(c) /\ calls'[c].stage = calls[c].stage
        /\ calls'[c].remaining = calls[c].remaining
        /\ calls[child] = NoCall /\ calls[child].stage = "none" /\ calls[child].remaining = 0
        /\ calls'[child].stage = "checking" /\ calls'[child].quantity = quantity
        /\ calls'[child].remaining = 0
        /\ \A d \in Calls : d # c /\ d # child => calls'[d] = calls[d]
        /\ onePart(c, p) /\ inSwap(c, p)' = 0
    <3>1. /\ child # c /\ keeps(c) /\ calls'[c].stage = calls[c].stage
          /\ calls'[c].remaining = calls[c].remaining
          /\ calls[child] = NoCall /\ calls[child].stage = "none"
          /\ calls'[child] = childOf(c, p, quantity)
          /\ \A d \in Calls : d # c /\ d # child => calls'[d] = calls[d]
          /\ onePart(c, p) /\ parts'[c][p].stage = "retrying"
      BY <1>7 DEF calledAt
    <3>2. calls[child].remaining = 0
      BY <3>1, NoCallFields
    <3>3. /\ calls'[child].stage = "checking" /\ calls'[child].quantity = quantity
          /\ calls'[child].remaining = 0
      BY <3>1 DEF childOf, NoCall
    <3>4. inSwap(c, p)' = 0
      <4>1. parts'[c][p].stage = "retrying"
        BY <3>1
      <4> QED BY <4>1 DEF inSwap
    <3> QED BY <3>1, <3>2, <3>3, <3>4
  <2>3. /\ \A m \in Ids : parts[child][m].stage = "none"
        /\ \A d \in Calls \ {c} : \A m \in Ids : parts'[d][m] = parts[d][m]
    BY <2>2 DEF onePart, CallsInv, Stagings
  <2>4. amount(child) = 0 /\ amount(child)' = quantity
    <3>1. inSwaps(child) = 0 /\ inSwaps(child)' = 0
      BY <2>2, <2>3, SwapsNone
    <3>2. quantityIn(child) = 0 /\ quantityIn(child)' = quantity
      BY <2>2 DEF quantityIn
    <3> QED BY <3>1, <3>2 DEF amount
  <2>5. amount(c)' + quantity + swapped = amount(c) /\ amount(c) \in Nat /\ amount(c)' \in Nat
    <3>1. quantityIn(c)' = quantityIn(c)
      BY <1>3, <2>2 DEF quantityIn, active
    <3>2. inSwaps(c)' + inSwap(c, p) = inSwaps(c) + inSwap(c, p)'
      BY <1>3, <2>2, SwapsChange DEF onePart
    <3>3. /\ quantityIn(c) \in Nat /\ inSwaps(c) \in Nat /\ inSwaps(c)' \in Nat
          /\ amount(c) \in Nat /\ amount(c)' \in Nat
      BY <1>3, AmountNat, AmountNatNext
    <3> QED BY <1>4, <2>2, <3>1, <3>2, <3>3 DEF amount
  <2>6. \A d \in Calls \ {c, child} : amount(d)' = amount(d)
    <3>1. \A d \in Calls \ {c, child} : quiet(d)
      <4>1. \A d \in Calls : calls[d].stage # "matching"
        BY <1>3 DEF CallsInv, Stagings
      <4> QED BY <2>2, <2>3, <4>1 DEF quiet
    <3> QED BY <3>1, QuietAmount
  <2>7. inCalls' + amount(c) + amount(child) = inCalls + amount(c)' + amount(child)'
    BY <1>3, <2>2, <2>6, TwoAmounts
  <2>8. total' = total
    <3>0. PICK i, j : i = inCalls /\ j = inCalls'
      OBVIOUS
    <3>1. PICK a \in Nat, b \in Nat : a = amount(c) /\ b = amount(c)' + quantity
      BY <2>5
    <3>2. j + a + 0 = i + amount(c)' + quantity
      BY <2>4, <2>7, <3>0, <3>1, Zenon
    <3>3. i \in Nat /\ j \in Nat
      BY <1>3, <3>0, TotalNat, TotalNatNext, Zenon
    <3>4. j + a = i + b /\ b + swapped = a
      BY <2>5, <3>1, <3>2, <3>3
    <3>5. inCalls' + a = inCalls + b
      BY <3>0, <3>1, <3>4, Zenon
    <3> QED BY <1>3, <2>1, <3>4, <3>5, Balance
  <2>9. accounts
    <3>1. calls[Root].stage # "none" /\ child # Root /\ Root \in Calls
      BY <1>3, <2>2, RootRuns, RootIsCall DEF active
    <3>2. calls'[Root].stage = calls[Root].stage /\ calls'[Root].quantity = calls[Root].quantity
      BY <2>2, <3>1 DEF keeps
    <3>3. \A d \in Calls : rejected(d) => rejectedAt(d)
      BY <2>2 DEF rejected, rejectedAt
    <3>4. \A d \in Calls : calls'[d].stage = "checking" => calls'[d].remaining = 0
      BY <2>2 DEF AccountInv
    <3> QED BY <2>8, <3>1, <3>2, <3>3, <3>4 DEF accounts
  <2> QED BY <2>9, AccountKeeps
<1> QED BY <1>3, <1>5, <1>6, <1>7 DEF retriedAt

\* A retry returns to its call what it could not match.
LEMMA RetryEndsAccount ==
  ASSUME BookInv, BookInv', CallsInv, CallsInv', AccountInv, NEW c \in Calls, RetryEnds(c)
  PROVE  AccountInv'
<1>1. PICK d \in Calls, m \in Ids :
        /\ retryEnds(c, d, m) /\ calls[c].stage = "swapping" /\ calls'[c] = NoCall
        /\ \A n \in Ids : parts[c][n].stage = "none"
        /\ calls'[d].stage = calls[d].stage
        /\ calls'[d].remaining = calls[d].remaining + unmatched(calls[c].remaining)
        /\ counted(0, calls[c].remaining - unmatched(calls[c].remaining))
  BY RetryEndsAt
<1>2. /\ c # Root /\ c # d /\ ~matching /\ keeps(d) /\ onePart(d, m) /\ parts'[d][m] = NoPart
      /\ \A e \in Calls : e # c /\ e # d => calls'[e] = calls[e]
      /\ parts[d][m].stage = "retrying"
  BY <1>1 DEF retryEnds
<1> DEFINE left == calls[c].remaining
           gain == left - unmatched(left)
<1>3. /\ left \in Nat /\ unmatched(left) \in Nat /\ gain \in Nat /\ 0 \in Nat
      /\ calls[d].remaining \in Nat /\ CallsTyped /\ CallsTyped'
  BY CallFields, UnmatchedNat DEF CallsInv
<1>4. settled' = settled + gain
  <2>1. settled' = settled + 0 + gain
    BY <1>1, <1>3, SettledCounted
  <2> HIDE DEF gain
  <2> QED BY <1>3, <2>1, SettledNat
<1>5. amount(c) = left /\ amount(c)' = 0
  <2>1. \A n \in Ids : parts'[c][n].stage = "none"
    BY <1>1, <1>2 DEF onePart
  <2>2. inSwaps(c) = 0 /\ inSwaps(c)' = 0
    BY <1>1, <2>1, SwapsNone
  <2>3. quantityIn(c) = left
    BY <1>1 DEF quantityIn
  <2>4. calls'[c].stage = "none" /\ calls'[c].remaining = 0
    BY <1>1, NoCallFields
  <2>5. quantityIn(c)' = 0
    BY <2>4 DEF quantityIn
  <2> QED BY <1>3, <2>2, <2>3, <2>5 DEF amount
<1>6. amount(d)' = amount(d) + unmatched(left) /\ amount(d) \in Nat /\ amount(d)' \in Nat
  <2>1. calls[d].stage \in {"swapping", "rejected"}
    <3>1. calls[d].stage \notin {"none", "checking", "ended", "matching"} /\ calls[d].stage \in Stages
      BY <1>2, CallFields DEF CallsInv, Stagings
    <3> QED BY <3>1 DEF Stages
  <2>2. quantityIn(d) = calls[d].remaining /\ quantityIn(d)' = calls'[d].remaining
    BY <1>1, <2>1 DEF quantityIn
  <2>3. inSwap(d, m) = 0 /\ inSwap(d, m)' = 0
    BY <1>2, NoPartOK DEF inSwap
  <2>4. inSwaps(d)' + inSwap(d, m) = inSwaps(d) + inSwap(d, m)'
    BY <1>2, <1>3, SwapsChange DEF onePart
  <2>5. /\ inSwaps(d) \in Nat /\ inSwaps(d)' \in Nat /\ amount(d) \in Nat /\ amount(d)' \in Nat
    BY <1>3, AmountNat, AmountNatNext
  <2>6. inSwaps(d)' = inSwaps(d)
    BY <2>3, <2>4, <2>5
  <2> HIDE DEF left
  <2>7. quantityIn(d)' = quantityIn(d) + unmatched(left)
    BY <1>1, <2>2 DEF left
  <2>8. quantityIn(d) \in Nat
    BY <1>3, <2>2
  <2> QED BY <1>3, <2>5, <2>6, <2>7, <2>8 DEF amount
<1> HIDE DEF left, gain
<1>7. \A e \in Calls \ {c, d} : amount(e)' = amount(e)
  <2>1. \A e \in Calls \ {c, d} : quiet(e)
    <3>1. \A e \in Calls : calls[e].stage # "matching"
      BY <1>2 DEF CallsInv, Stagings
    <3> QED BY <1>2, <3>1 DEF quiet, onePart
  <2> QED BY <2>1, QuietAmount
<1>8. inCalls' + amount(c) + amount(d) = inCalls + amount(c)' + amount(d)'
  BY <1>2, <1>3, <1>7, TwoAmounts
<1>9. total' = total
  <2>1. PICK i, j : i = inCalls /\ j = inCalls'
    BY Zenon
  <2>2. i \in Nat /\ j \in Nat
    BY <1>3, <2>1, TotalNat, TotalNatNext, Zenon
  <2>3. j + amount(c) + amount(d) = i + amount(c)' + amount(d)'
    BY <1>8, <2>1, Zenon
  <2>4. j + left = i + unmatched(left)
    <3>1. PICK a \in Nat, b \in Nat, u \in Nat : a = amount(d) /\ b = amount(d)' /\ u = unmatched(left)
      BY <1>3, <1>6
    <3>2. j + left + a = i + 0 + b
      BY <1>5, <2>3, <3>1, Zenon
    <3>3. b = a + u
      BY <1>6, <3>1
    <3>4. j + left = i + u
      BY <1>3, <2>2, <3>2, <3>3
    <3> QED BY <3>1, <3>4, Zenon
  <2>5. inCalls' + left = inCalls + unmatched(left)
    BY <2>1, <2>4, Zenon
  <2>6. unmatched(left) + gain = left
    BY <1>3 DEF gain
  <2> QED BY <1>3, <1>4, <2>5, <2>6, Balance
<1>10. accounts
  <2>1. calls[Root].stage # "none" /\ Root \in Calls
    BY <1>1, RootRuns, RootIsCall
  <2>2. calls'[Root].stage = calls[Root].stage /\ calls'[Root].quantity = calls[Root].quantity
    BY <1>1, <1>2, <2>1 DEF keeps
  <2>3. \A e \in Calls : rejected(e) => rejectedAt(e)
    BY <1>1, <1>2 DEF rejected, rejectedAt
  <2>4. calls'[c].stage = "none"
    BY <1>1, NoCallFields
  <2>5. calls[d].stage # "checking"
    BY <1>2 DEF CallsInv, Stagings
  <2>6. \A e \in Calls : calls'[e].stage = "checking" => calls'[e].remaining = 0
    BY <1>1, <1>2, <2>4, <2>5 DEF AccountInv
  <2> QED BY <1>9, <2>1, <2>2, <2>3, <2>6 DEF accounts
<1> QED BY <1>10, AccountKeeps

\* What is left enters the book, or is discarded.
LEMMA RootEndsAccount ==
  ASSUME BookInv, BookInv', CallsInv, CallsInv', ReplacedInv, AccountInv, RootEnds
  PROVE  AccountInv'
<1>1. PICK c \in Calls : c = Root
  BY RootIsCall
<1>2. /\ others(c) /\ calls[c].stage = "swapping" /\ calls'[c].stage = "ended"
      /\ calls'[c].quantity = calls[c].quantity /\ calls'[c].remaining = 0
      /\ \A n \in Ids : parts[c][n].stage = "none"
      /\ parts' = parts /\ taker' = taker /\ CallsTyped
  BY <1>1, RootEndsAt DEF RootEnds, matchVars, CallsInv
<1>3. calls[c].remaining \in Nat /\ calls'[c].remaining = 0
  BY <1>2, CallFields
<1> DEFINE left == calls[c].remaining
<1>4. settled' = settled + left
  <2>1. counts' \in {[counts EXCEPT !.placed = left], [counts EXCEPT !.discarded = @ + left]}
    BY <1>1 DEF RootEnds
  <2>2. /\ counts \in [swapped : Nat, filled : Nat, placed : Nat, discarded : Nat]
        /\ counts.placed = 0
    BY <1>1, <1>2 DEF CallsTyped, ReplacedInv
  <2>3. left \in Nat
    BY <1>3
  <2> HIDE DEF left
  <2>4. CASE counts' = [counts EXCEPT !.placed = left]
    BY <2>2, <2>3, <2>4 DEF settled
  <2>5. CASE counts' = [counts EXCEPT !.discarded = @ + left]
    BY <2>2, <2>3, <2>5 DEF settled
  <2> QED BY <2>1, <2>4, <2>5
<1>5. amount(c)' + left = amount(c)
  <2>1. inSwaps(c) = 0 /\ inSwaps(c)' = 0
    BY <1>2, SwapsNone
  <2>2. quantityIn(c) = left /\ quantityIn(c)' = 0
    BY <1>2 DEF quantityIn
  <2> QED BY <1>3, <2>1, <2>2 DEF amount
<1>6. ~rejected(c)
  BY <1>2 DEF rejected
<1> HIDE DEF left
<1>7. left \in Nat
  BY <1>3 DEF left
<1> QED BY <1>2, <1>4, <1>5, <1>6, <1>7, OneAccount

\* A retry that rejects keeps what it has.
LEMMA RetryRejectsAccount ==
  ASSUME BookInv, BookInv', CallsInv, CallsInv', AccountInv, NEW c \in Calls, RetryRejects(c)
  PROVE  AccountInv'
<1>1. PICK d \in Calls, m \in Ids : retryRejects(c, d, m)
  BY RetryRejectsAt
<1>2. CallsTyped /\ counts' = counts /\ ~matching
  BY <1>1 DEF RetryRejects, CallsInv
<1>3. ASSUME NEW e \in Calls PROVE amount(e)' = amount(e)
  <2>1. quantityIn(e)' = quantityIn(e)
    <3>1. e # d => calls'[e].stage = calls[e].stage
      BY <1>1 DEF retryRejects
    <3>2. calls[d].stage \in {"swapping", "rejected"} /\ calls'[d].stage = "rejected"
      BY <1>1 DEF retryRejects
    <3>3. calls'[e].remaining = calls[e].remaining /\ calls'[e].quantity = calls[e].quantity
      BY <1>1 DEF retryRejects
    <3>4. calls[e].stage # "matching"
      BY <1>2 DEF CallsInv, Stagings
    <3> QED BY <3>1, <3>2, <3>3, <3>4 DEF quantityIn
  <2>2. \A n \in Ids : inSwap(e, n)' = inSwap(e, n)
    <3>1. onePart(d, m) /\ parts'[d][m] = NoPart /\ parts[d][m].stage = "retrying"
      BY <1>1 DEF retryRejects
    <3>2. inSwap(d, m) = 0 /\ inSwap(d, m)' = 0
      BY <3>1, NoPartOK DEF inSwap
    <3>3. \A n \in Ids : e # d \/ n # m => inSwap(e, n)' = inSwap(e, n)
      BY <3>1 DEF onePart, inSwap
    <3> QED BY <3>2, <3>3
  <2>3. [n \in Ids |-> inSwap(e, n)'] = [n \in Ids |-> inSwap(e, n)]
    BY <2>2
  <2>4. inSwaps(e)' = inSwaps(e)
    BY <2>3 DEF inSwaps
  <2> QED BY <2>1, <2>4 DEF amount
<1>4. settled' = settled + 0
  BY <1>2, SettledNat DEF settled
<1>5. inCalls' = inCalls
  BY <1>3, NoAmount
<1>6. total' = total
  <2>1. inCalls' + 0 = inCalls + 0
    BY <1>5, Zenon
  <2> QED BY <1>2, <1>4, <2>1, Balance DEF CallsInv
<1>7. accounts
  <2>1. calls[Root].stage # "none" /\ Root \in Calls /\ calls[c].stage = "rejected"
    BY <1>1, RootRuns, RootIsCall DEF retryRejects
  <2>2. calls'[Root].stage # "none" /\ calls'[Root].quantity = calls[Root].quantity
    BY <1>1, <2>1 DEF retryRejects
  <2>3. rejectedAt(d)
    BY <1>1 DEF retryRejects, rejectedAt
  <2>4. \A e \in Calls : calls'[e].stage = "checking" => calls'[e].remaining = 0
    BY <1>1 DEF retryRejects, AccountInv
  <2> QED BY <1>6, <2>1, <2>2, <2>3, <2>4 DEF accounts
<1> QED BY <1>7, AccountKeeps

\* A rejected retry is forgotten with what it has; the first call has rejected.
LEMMA ForgottenAccount ==
  ASSUME BookInv, BookInv', CallsInv, CallsInv', RankInv, AccountInv, NEW c \in Calls, RetryForgotten(c)
  PROVE  AccountInv'
<1>1. /\ others(c) /\ calls'[c] = NoCall /\ c # Root /\ calls[c].stage = "rejected"
      /\ calls[c].parent = NoParent /\ \A n \in Ids : parts[c][n].stage = "none"
      /\ parts' = parts /\ idle /\ taker' = taker /\ counts' = counts /\ CallsTyped
  BY ForgottenAt DEF RetryForgotten, pairVars, CallsInv
<1>2. rejectedAt(Root) /\ Root \in Calls
  <2>1. rejected(c)
    BY <1>1 DEF rejected
  <2>2. rejected(Root)
    BY <1>1, <2>1, RejectedKnown
  <2> QED BY <1>1, <2>2, RootIsCall DEF others, rejected, rejectedAt
<1>3. settled' = settled + 0
  BY <1>1, SettledNat DEF settled
<1>4. calls'[c].stage = "none" /\ calls'[c].remaining = 0
  BY <1>1, NoCallFields
<1>5. amount(c)' + 0 <= amount(c)
  <2>1. inSwaps(c)' = 0
    BY <1>1, SwapsNone
  <2>2. quantityIn(c)' = 0
    BY <1>4 DEF quantityIn
  <2>3. amount(c) \in Nat
    BY <1>1, AmountNat
  <2> QED BY <2>1, <2>2, <2>3 DEF amount
<1> QED BY <1>1, <1>2, <1>3, <1>4, <1>5, OneAccount

\* The order is placed.
LEMMA PlacesAccount ==
  ASSUME BookInv, BookInv', CallsInv, CallsInv', AccountInv, Places
  PROVE  AccountInv'
<1>1. PICK c \in Calls : c = Root
  BY RootIsCall
<1>2. /\ others(c) /\ calls[c].stage = "none" /\ calls'[c].stage = "checking"
      /\ calls'[c].remaining = 0 /\ calls'[c].quantity \in Nat
      /\ parts' = parts /\ counts' = counts /\ CallsTyped /\ CallsTyped'
  BY <1>1, PlacesAt DEF Places, CallsInv
<1>3. \A d \in Calls : calls[d].stage = "none" /\ calls[d].remaining = 0
  BY <1>1, <1>2, NoCallFields DEF CallsInv, Stagings
<1>4. \A d \in Calls : inSwaps(d) = 0 /\ inSwaps(d)' = 0
  BY <1>2, <1>3, SwapsNone DEF CallsInv, Stagings
<1>5. \A d \in Calls : amount(d) = 0
  BY <1>3, <1>4 DEF quantityIn, amount
<1>6. \A d \in Calls \ {c} : amount(d)' = 0
  BY <1>2, <1>3, <1>4 DEF others, quantityIn, amount
<1>7. amount(c)' = calls'[c].quantity
  BY <1>2, <1>4 DEF quantityIn, amount
<1>8. settled' = 0
  BY <1>1, <1>2 DEF AccountInv, NoCounts, settled
<1>9. inCalls' = calls'[c].quantity
  <2> DEFINE q == [d \in Calls |-> amount(d)']
  <2>1. inCalls' = SumFunctionOnSet(q, Calls) /\ (\A d \in Calls : q[d] \in Nat)
        /\ (\A d \in Calls \ {c} : q[d] = 0) /\ q[c] = calls'[c].quantity
    BY <1>2, <1>6, <1>7 DEF inCalls, amount
  <2> HIDE DEF q
  <2>2. SumFunctionOnSet(q, Calls) = q[c] + SumFunctionOnSet(q, Calls \ {c})
    BY <2>1, CallsAreFinite, SumWithout
  <2>3. IsFiniteSet(Calls \ {c})
    BY CallsAreFinite, FS_RemoveElement
  <2>4. SumFunctionOnSet(q, Calls \ {c}) = 0
    BY <2>1, <2>3, SumZero
  <2> QED BY <1>2, <2>1, <2>2, <2>4
<1>10. \A d \in Calls : ~rejectedAt(d)
  BY <1>2, <1>3 DEF others, rejectedAt
<1>11. OrderAccounted'
  <2>1. PICK s, i : s = settled' /\ i = inCalls'
    BY Zenon
  <2>2. s + i = calls'[c].quantity
    BY <1>2, <1>8, <1>9, <2>1
  <2>3. settled' + inCalls' = calls'[Root].quantity
    BY <1>1, <2>1, <2>2, Zenon
  <2> QED BY <1>10, <2>3, Zenon DEF OrderAccounted, rejectedAt
<1> QED BY <1>1, <1>2, <1>3, <1>11 DEF AccountInv, others

LEMMA EnvironmentAccount ==
  ASSUME BookInv, BookInv', CallsInv, CallsInv', AccountInv, Environment
  PROVE  AccountInv'
<1>1. CASE Places
  BY <1>1, PlacesAccount
<1>2. ASSUME taker' = taker, parts' = parts, counts' = counts,
             \A c \in Calls : /\ calls'[c].stage = calls[c].stage /\ calls'[c].quantity = calls[c].quantity
                              /\ calls'[c].remaining = calls[c].remaining
                              /\ calls[c].stage = "none" => calls'[c] = calls[c]
      PROVE  AccountInv'
  <2>1. CASE calls[Root].stage = "none"
    <3>1. \A c \in Calls : calls'[c] = calls[c]
      BY <1>2, <2>1 DEF CallsInv, Stagings
    <3> QED BY <1>2, <2>1, <3>1, NoAccount
  <2>2. CASE calls[Root].stage # "none"
    <3>1. settled' = settled
      BY <1>2 DEF settled
    <3>2. \A c \in Calls : quiet(c)
      BY <1>2 DEF quiet
    <3>3. \A c \in Calls : amount(c)' = amount(c)
      BY <3>2, QuietAmount
    <3> QED BY <1>2, <2>2, <3>1, <3>3, SameAccount
  <2> QED BY <2>1, <2>2
<1>3. ASSUME taker' = taker, parts' = parts, counts' = counts, calls' = calls PROVE AccountInv'
  BY <1>2, <1>3
<1>4. ASSUME NEW p \in PeerIds, PeerOffers(p) \/ PeerCloses(p) \/ PeerReopens(p) PROVE AccountInv'
  BY <1>3, <1>4 DEF PeerOffers, PeerCloses, PeerReopens, callVars, matchVars, pairVars
<1>5. ASSUME NEW p \in PeerIds, NEW quantity \in withdrawals(p), PeerInvalidates(p, quantity)
      PROVE  AccountInv'
  <2>1. taker' = taker /\ parts' = parts /\ counts' = counts
    BY <1>5 DEF PeerInvalidates, matchVars
  <2>2. ASSUME NEW c \in Calls
        PROVE  /\ calls'[c].stage = calls[c].stage /\ calls'[c].quantity = calls[c].quantity
               /\ calls'[c].remaining = calls[c].remaining
               /\ calls[c].stage = "none" => calls'[c] = calls[c]
    <3>1. calls'[c] = IF calls[c].stage \in {"swapping", "rejected"}
                      THEN [calls[c] EXCEPT !.invalid = @ \cup {p}] ELSE calls[c]
      BY <1>5 DEF PeerInvalidates
    <3>2. calls[c] \in CallRecords
      BY CallFields DEF CallsInv
    <3> QED BY <3>1, <3>2 DEF CallRecords
  <2> QED BY <1>2, <2>1, <2>2
<1>6. ASSUME NEW id \in OwnIds, OwnOffers(id) \/ OwnCancels(id) PROVE AccountInv'
  BY <1>3, <1>6 DEF OwnOffers, OwnCancels, placeVars, callVars, matchVars
<1>7. CASE TimePasses
  BY <1>3, <1>7 DEF TimePasses, pairVars
<1> QED BY <1>1, <1>4, <1>5, <1>6, <1>7 DEF Environment

LEMMA AccountStep ==
  ASSUME BookInv, CallsInv, MeetInv, ReplacedInv, RankInv, AccountInv, PlaceNext
  PROVE  AccountInv'
<1>0. BookInv' /\ CallsInv'
  BY CallsStep
<1>1. CASE Environment
  BY <1>0, <1>1, EnvironmentAccount
<1>2. CASE Proceeds
  <2>1. CASE RootEnds
    BY <1>0, <2>1, RootEndsAccount
  <2>2. ASSUME NEW c \in Calls, CallRejects(c) PROVE AccountInv'
    BY <1>0, <2>2, RejectsAccount
  <2>3. ASSUME NEW c \in Calls, CallMatches(c) \/ CallSwaps(c) PROVE AccountInv'
    BY <1>0, <2>3, MatchesAccount
  <2>4. ASSUME NEW c \in Calls, NEW maker \in Ids, CallMeets(c, maker) PROVE AccountInv'
    BY <1>0, <2>4, MeetsAccount
  <2>5. ASSUME NEW c \in Calls, RetryEnds(c) PROVE AccountInv'
    BY <1>0, <2>5, RetryEndsAccount
  <2>6. ASSUME NEW c \in Calls, RetryRejects(c) PROVE AccountInv'
    BY <1>0, <2>6, RetryRejectsAccount
  <2>7. ASSUME NEW c \in Calls, RetryForgotten(c) PROVE AccountInv'
    BY <1>0, <2>7, ForgottenAccount
  <2>8. ASSUME NEW c \in Calls, NEW m \in Ids,
               \/ FillSaved(c, m) /\ m \in OwnIds
               \/ PartThrows(c, m)
               \/ m \in PeerIds /\ (SwapStarts(c, m) \/ SwapSucceeds(c, m) \/ SwapUnsaved(c, m))
        PROVE  AccountInv'
    BY <1>0, <2>8, PartsAccount
  <2>9. ASSUME NEW c \in Calls, NEW p \in PeerIds,
               SwapFails(c, p) \/ \E accepted \in Parts : SwapPartly(c, p, accepted)
        PROVE  AccountInv'
    BY <1>0, <2>9, RetriesAccount
  <2> QED BY <1>2, <2>1, <2>2, <2>3, <2>4, <2>5, <2>6, <2>7, <2>8, <2>9 DEF Proceeds, Ids
<1> QED BY <1>1, <1>2 DEF PlaceNext

-----------------------------------------------------------------------------
(* The invariant, and what follows from it *)

PlaceIInv == BookInv /\ CallsInv /\ MeetInv /\ ReplacedInv /\ OffersInv /\ RankInv /\ AccountInv

LEMMA PlaceStarts ==
  ASSUME PlaceInit
  PROVE  PlaceIInv
<1>1. /\ book = [id \in Ids |-> NoOrder] /\ offered = [id \in Ids |-> 0]
      /\ calls = [c \in Calls |-> NoCall] /\ parts = [c \in Calls |-> [m \in Ids |-> NoPart]]
      /\ root = NoRoot /\ timeUp = FALSE
      /\ connected = PeerIds /\ told = [p \in PeerIds |-> 0] /\ late = {}
      /\ counts = NoCounts /\ Root \in Calls /\ ~matching
  BY RootIsCall DEF PlaceInit, PairInit
<1>2. \A id \in Ids : book[id] = NoOrder /\ book[id].quantity = 0 /\ book[id].hold = 0
  BY <1>1, NoOrderHasNothing
<1>3. /\ \A c \in Calls : /\ calls[c] = NoCall /\ calls[c].stage = "none" /\ calls[c].parent = NoParent
                          /\ calls[c].remaining = 0 /\ \A p \in PeerIds : calls[c].failed[p] = NoOrder
      /\ \A c \in Calls, m \in Ids : parts[c][m] = NoPart /\ parts[c][m].stage = "none"
  BY <1>1, NoCallFields, NoPartOK
<1>4. BookInv
  <2>1. PairTypeOK
    BY NoOrderIsOrder DEF PlaceInit, PairInit, PairTypeOK, NoTaker, Takers
  <2> QED BY <1>2, <2>1, IdsAssumption DEF BookInv, HoldsCovered, Ids
<1>5. CallsInv
  <2>1. CallsOK(calls) /\ PartsOK(parts)
    BY <1>1, NoCallOK, NoPartOK DEF CallsOK, PartsOK, Ids
  <2>2. CallsTyped
    BY <1>1, <2>1 DEF CallsTyped, NoRoot, Roots, NoCounts
  <2>3. Stagings /\ Links
    BY <1>1, <1>3 DEF Stagings, Links
  <2> QED BY <2>2, <2>3 DEF CallsInv
<1>6. MeetInv
  BY <1>3 DEF MeetInv
<1>7. ReplacedInv
  BY <1>1, <1>2, <1>3, RootIsCall DEF ReplacedInv, ReplacedOnce, NoRoot, NoCounts
<1>8. OffersInv
  <2> SUFFICES ASSUME NEW p \in PeerIds PROVE OfferInv(p)
    BY DEF OffersInv
  <2>1. Gone(p)
    BY <1>2, <1>3 DEF Gone, trading, Ids
  <2> QED BY <1>2, <1>3, <2>1 DEF OfferInv, Ids
<1>9. RankInv
  <2>1. \A c \in Calls : ~rejecting(c) /\ ~rejected(c)
    BY <1>3 DEF rejecting, rejected
  <2> DEFINE rank == [c \in Calls |-> 0]
  <2>2. rank \in [Calls -> Nat] /\ Ranked(rank)
    BY <1>3, <2>1 DEF Ranked
  <2> QED BY <2>1, <2>2 DEF RankInv
<1>10. AccountInv
  BY <1>1, <1>3 DEF AccountInv, OrderAccounted
<1> QED BY <1>4, <1>5, <1>6, <1>7, <1>8, <1>9, <1>10 DEF PlaceIInv

LEMMA PlaceStutters ==
  ASSUME PlaceIInv, UNCHANGED vars
  PROVE  PlaceIInv'
<1>1. UNCHANGED pairVars /\ UNCHANGED placeVars
  BY DEF vars
<1>2. /\ book' = book /\ taker' = taker /\ matching' = matching /\ offered' = offered
      /\ calls' = calls /\ parts' = parts /\ root' = root /\ timeUp' = timeUp
      /\ connected' = connected /\ told' = told /\ late' = late /\ counts' = counts
  BY <1>1 DEF pairVars, placeVars, callVars
<1>3. BookInv'
  BY <1>1, BookStays DEF PlaceIInv
<1>4. CallsInv'
  BY <1>2 DEF PlaceIInv, CallsInv, CallsTyped, Stagings, Links
<1>5. MeetInv' /\ ReplacedInv'
  BY <1>2 DEF PlaceIInv, MeetInv, ReplacedInv, ReplacedOnce, live, available
<1>6. OffersInv'
  <2> SUFFICES ASSUME NEW p \in PeerIds PROVE OfferInv(p)'
    BY DEF OffersInv
  <2>1. \A c \in Calls : pendingOf(c, p)' = pendingOf(c, p) /\ (trading(c, p)' <=> trading(c, p))
    BY <1>2 DEF pendingOf, inSwap, trading
  <2>2. [c \in Calls |-> pendingOf(c, p)'] = [c \in Calls |-> pendingOf(c, p)]
    BY <2>1
  <2>3. pending(p)' = pending(p)
    BY <2>2 DEF pending
  <2>4. Gone(p) => Gone(p)'
    BY <1>2, <2>1 DEF Gone
  <2>5. OfferInv(p)
    BY DEF PlaceIInv, OffersInv
  <2> QED BY <1>2, <2>3, <2>4, <2>5 DEF OfferInv
<1>7. RankInv'
  BY <1>2, RankSame DEF PlaceIInv, rejected, rejectedAt
<1>8. AccountInv'
  <2>1. CASE calls[Root].stage = "none"
    BY <1>2, <2>1, NoAccount DEF PlaceIInv
  <2>2. CASE calls[Root].stage # "none"
    <3>1. \A c \in Calls : amount(c)' = amount(c)
      BY <1>2, QuietAmount DEF quiet
    <3>2. settled' = settled
      BY <1>2 DEF settled
    <3> QED BY <1>2, <1>3, <1>4, <2>2, <3>1, <3>2, SameAccount DEF PlaceIInv
  <2> QED BY <2>1, <2>2
<1> QED BY <1>3, <1>4, <1>5, <1>6, <1>7, <1>8 DEF PlaceIInv

LEMMA PlaceKeeps ==
  ASSUME PlaceIInv, [PlaceNext]_vars
  PROVE  PlaceIInv'
<1>1. CASE PlaceNext
  BY <1>1, CallsStep, MeetStep, ReplacedStep, OffersStep, RankStep, AccountStep DEF PlaceIInv
<1>2. CASE UNCHANGED vars
  BY <1>2, PlaceStutters
<1> QED BY <1>1, <1>2

(***************************************************************************)
(* The invariant holds whatever the peers, orders, quantities and faults   *)
(* are, and however often failed parts are placed again.                   *)
(***************************************************************************)
THEOREM PlaceInvariance == PlaceSpec => []PlaceIInv
BY PlaceStarts, PlaceKeeps, PTL DEF PlaceSpec

(***************************************************************************)
(* The book, the calls of placeOrder, their parts and what they count keep *)
(* their types: no quantity, in the book or on its way, becomes negative.  *)
(***************************************************************************)
THEOREM PlaceTypeCorrect == PlaceSpec => []PlaceTypeOK
<1>1. PlaceIInv => PlaceTypeOK
  <2> SUFFICES ASSUME PlaceIInv PROVE PlaceTypeOK
    OBVIOUS
  <2>1. PairTypeOK /\ CallsTyped
    BY DEF PlaceIInv, BookInv, CallsInv
  <2>2. calls \in [Calls -> CallRecords]
    BY <2>1 DEF CallsTyped, CallsOK, CallOK
  <2>3. parts \in [Calls -> [Ids -> PartRecords]]
    BY <2>1 DEF CallsTyped, PartsOK
  <2> QED BY <2>1, <2>2, <2>3 DEF PlaceTypeOK, CallsTyped, CallRecords, PartRecords, Stages, PartStages,
                                  Parents, Roots
<1> QED BY <1>1, PlaceInvariance, PTL

(***************************************************************************)
(* Of a replaced order and the one that replaces it, peers can take only   *)
(* one (OrderBook.placeOrder with replaceOrderId).                         *)
(***************************************************************************)
THEOREM ReplacedOnlyOnce == PlaceSpec => []ReplacedOnce
<1>1. PlaceIInv => ReplacedOnce
  BY DEF PlaceIInv, ReplacedInv
<1> QED BY <1>1, PlaceInvariance, PTL

(***************************************************************************)
(* No more of an order of a peer is in the book than the peer offers,      *)
(* unless it withdrew it when nobody looked (failedMakerOrders and         *)
(* handlePeerOrderInvalidation in OrderBook.placeOrder).                   *)
(***************************************************************************)
THEOREM OffersAreRespected == PlaceSpec => []OffersRespected
<1>1. PlaceIInv => OffersRespected
  <2> SUFFICES ASSUME PlaceIInv, NEW p \in PeerIds \ late PROVE book[p].quantity <= told[p]
    BY DEF OffersRespected
  <2>1. BookInv /\ CallsTyped /\ OfferInv(p) /\ p \in Ids /\ Root \in Calls
    BY RootIsCall DEF PlaceIInv, CallsInv, OffersInv, Ids
  <2>2. book[p].quantity \in Nat /\ pending(p) \in Nat /\ told[p] \in Nat
    BY <2>1, OrderFields, PendingAtLeast DEF CallsTyped
  <2> QED BY <2>1, <2>2 DEF OfferInv, Gone
<1> QED BY <1>1, PlaceInvariance, PTL

(***************************************************************************)
(* Each part of the order is in one place, however the swaps and the calls *)
(* for their failed parts end (placeOrder, handleMatch, retryFailedSwap).  *)
(***************************************************************************)
THEOREM OrderIsAccounted == PlaceSpec => []OrderAccounted
<1>1. PlaceIInv => OrderAccounted
  BY DEF PlaceIInv, AccountInv
<1> QED BY <1>1, PlaceInvariance, PTL
=============================================================================
