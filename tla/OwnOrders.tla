------------------------------- MODULE OwnOrders -------------------------------
(***************************************************************************)
(* What OrderBook.ts does with this node's own orders while peers swap     *)
(* against them: a swap request puts part of an order on hold, acceptDeal  *)
(* turns it into a deal, and the events of the deal release or spend the   *)
(* hold; the user may cancel what is on hold, which listeners on the same  *)
(* events then carry out.  The amounts reserved for own orders in          *)
(* SwapClientManager go along.  The trading pair is TradingPair.tla, the   *)
(* deals are what Deal.tla promises, and an exception nobody catches stops *)
(* the process, as bootstrap.ts makes it.                                  *)
(***************************************************************************)
EXTENDS TradingPair, Sequences, FiniteSets, Folds, Functions

CONSTANTS
  Hashes,       \* of the swaps peers ask for
  Faults,       \* what may fail: "db", a save
  MaxRemovals   \* bound: cancellations that wait for swaps at a time

ASSUME OwnOrdersAssumption ==
  /\ OwnIds # {} /\ IsFiniteSet(OwnIds) /\ IsFiniteSet(Hashes)
  /\ Faults \subseteq {"db"} /\ MaxRemovals \in Nat

VARIABLES
  deal, failed, asking,  \* see Deal
  requests,      \* handleSwapRequest of each hash, and its trade
  removals,      \* the listeners of removeOwnOrderByLocalId
  reserved,      \* SwapClientManager: reserved for buy and for sell orders
  fills,         \* placeOrder: own orders in matchingResult.matches
  sold,          \* how much of each order peers have paid for
  cancelled,     \* history: orders that were cancelled with all that was left
  mishaps,       \* history: what went wrong so far, see Mishaps
  down           \* what stopped the process, or "no"

Deals == INSTANCE Deal

ownVars == <<deal, failed, asking, requests, removals, reserved, fills, sold, cancelled, mishaps, down>>
vars == <<pairVars, ownVars>>

Stages == {"none", "saving", "asked", "refused", "withdrawn", "accepted", "trading", "over"}
NoRequest == [order |-> CHOOSE id \in OwnIds : TRUE, quantity |-> 0, stage |-> "none"]

\* An order was matched, for what was not on hold, and kept its quantity; a hold
\* was released twice, or for a request that was refused while a cancellation
\* waited for it; an exception of a listener was caught.
Mishaps == {"kept", "releasedTwice", "cancellationMissed", "caught"}
noted(mishap, happened) == mishaps' = IF happened THEN mishaps \cup {mishap} ELSE mishaps
\* The amounts, and as history, how often something was to be subtracted from them.
NothingReserved == [base |-> 0, quote |-> 0, parts |-> 0]

OwnTypeOK ==
  /\ PairTypeOK
  /\ Deals!DealTypeOK
  /\ requests \in [Hashes -> [order : OwnIds, quantity : Nat, stage : Stages]]
  /\ removals \in Seq([order : OwnIds, left : Nat \ {0}])
  /\ reserved \in [BOOLEAN -> [base : Nat, quote : Nat, parts : Nat]]
  /\ fills \in Seq(Takers)
  /\ sold \in [OwnIds -> Nat] /\ cancelled \subseteq OwnIds
  /\ mishaps \subseteq Mishaps
  /\ down \in {"no", "hold", "removal", "reserved", "database"}

OwnInit ==
  /\ PairInit /\ Deals!Init
  /\ requests = [h \in Hashes |-> NoRequest]
  /\ removals = <<>>
  /\ reserved = [isBuy \in BOOLEAN |-> NothingReserved]
  /\ fills = <<>> /\ sold = [id \in OwnIds |-> 0] /\ cancelled = {}
  /\ mishaps = {} /\ down = "no"

\* The process stops, and with it all of this.
Stops(reason) ==
  /\ down' = reason /\ mishaps' = {}
  /\ Deals!Stop
  /\ requests' = [h \in Hashes |-> NoRequest]
  /\ removals' = <<>>
  /\ reserved' = [isBuy \in BOOLEAN |-> NothingReserved]
  /\ fills' = <<>> /\ sold' = [id \in OwnIds |-> 0] /\ cancelled' = {}
  /\ book' = [id \in Ids |-> NoOrder] /\ queue' = {} /\ aside' = {}
  /\ taker' = NoTaker /\ matching' = FALSE /\ takers' = 0
  /\ offered' = [id \in Ids |-> 0] /\ matched' = [id \in Ids |-> 0]

Starts == down # "no" /\ down' = "no" /\ UNCHANGED <<pairVars, deal, failed, asking, requests,
                                                     removals, reserved, fills, sold, cancelled, mishaps>>

-----------------------------------------------------------------------------
(* Reserved amounts *)

\* UnitConverter: Math.round(quantity * price)
quoteAmount(quantity, price) == (2 * quantity * price + Unit) \div (2 * Unit)

\* The assertion of both subtract methods; zero is not an amount to them.
suffices(amount, part) == amount > 0 /\ amount >= part

\* onOrderRemoved: the inbound amount first, and nothing after an assertion.
subtracted(side, order, quantity) ==
  LET quote == quoteAmount(quantity, order.price)
      baseOK == suffices(side.base, quantity)
      quoteOK == suffices(side.quote, quote)
  IN [ok |-> baseOK /\ quoteOK,
      side |-> [base |-> IF baseOK /\ (order.isBuy \/ quoteOK) THEN side.base - quantity ELSE side.base,
                quote |-> IF quoteOK /\ (baseOK \/ ~order.isBuy) THEN side.quote - quote ELSE side.quote,
                parts |-> side.parts + 1]]

\* Mutant: the whole order is subtracted, and not the part that is removed.
removedWhole(order, side, quantity) ==
  LET sub == subtracted(side, order, order.quantity)
  IN [order |-> rest(order, quantity), side |-> sub.side, ok |-> sub.ok]

\* removeOwnOrder, once removeOrder has not thrown.
removed(order, side, quantity) ==
  LET left == rest(order, quantity)
      sub == subtracted(side, order, order.quantity - left.quantity)
  IN [order |-> left, side |-> sub.side, ok |-> sub.ok]

\* An order of the book is replaced by what is left of it.
puts(id, order) ==
  /\ book' = [book EXCEPT ![id] = order]
  /\ queue' = IF order = NoOrder THEN queue \ {id} ELSE queue

reserves(isBuy, side) == reserved' = [reserved EXCEPT ![isBuy] = side]

matchVars == <<taker, matching, aside, takers, matched>>

-----------------------------------------------------------------------------
(* Orders come and go *)

\* addOwnOrder, of what placeOrder could not match.
OwnAdds(id) ==
  /\ \E price \in Prices, quantity \in Quantities, isBuy \in BOOLEAN, time \in Times :
       /\ Swappable(quantity, price) /\ offered[id] = 0
       /\ addOrder(id, Stamped(isBuy, price, time, quantity))
       /\ offered' = [offered EXCEPT ![id] = quantity]
       /\ reserves(isBuy, [reserved[isBuy] EXCEPT !.base = @ + quantity,
                                                  !.quote = @ + quoteAmount(quantity, price)])
  /\ UNCHANGED <<matchVars, deal, failed, asking, requests, removals, fills, sold, cancelled, mishaps, down>>

\* removeOwnOrderByLocalId, of what is not on hold.  If the listener for the
\* reserved amounts throws, the caller is told and the order is gone.
RemoveAvailable(id, quantity) ==
  /\ 0 < quantity /\ quantity <= available(id)
  /\ canRemove(id, quantity)
  /\ LET result == removed(book[id], reserved[book[id].isBuy], quantity) IN
     puts(id, result.order) /\ reserves(book[id].isBuy, result.side)
  /\ UNCHANGED <<matchVars, offered, deal, failed, asking, requests, removals, fills, sold, cancelled, mishaps, down>>

\* removeOwnOrderByLocalId, of more than that: what can be removed is, and the
\* rest waits for the swaps that hold it.
RemoveHeld(id, quantity) ==
  /\ id \in live /\ available(id) < quantity /\ quantity <= book[id].quantity
  /\ Len(removals) < MaxRemovals
  /\ LET waits == Append(removals, [order |-> id, left |-> quantity - available(id)])
         registers == /\ removals' = waits
                      /\ cancelled' = IF quantity = book[id].quantity THEN cancelled \cup {id} ELSE cancelled
     IN
     \/ available(id) = 0 /\ registers /\ UNCHANGED <<book, queue, reserved>>
     \/ /\ available(id) > 0 /\ canRemove(id, available(id))
        /\ LET result == removed(book[id], reserved[book[id].isBuy], available(id)) IN
           /\ puts(id, result.order) /\ reserves(book[id].isBuy, result.side)
           /\ IF result.ok THEN registers ELSE UNCHANGED <<removals, cancelled>>
  /\ UNCHANGED <<matchVars, offered, deal, failed, asking, requests, fills, sold, mishaps, down>>

-----------------------------------------------------------------------------
(* handleSwapRequest, which awaits a save and then acceptDeal *)

staged(h, stage) == requests' = [requests EXCEPT ![h].stage = stage]

\* Of an order that is known and not all on hold, what there is is put on hold.
SwapRequest(h, id, proposed) ==
  /\ requests[h].stage = "none"
  /\ id \in live /\ available(id) > 0
  /\ LET quantity == Lesser(proposed, available(id)) IN
     /\ addOrderHold(id, quantity)
     /\ requests' = [requests EXCEPT ![h] = [order |-> id, quantity |-> quantity, stage |-> "saving"]]
  /\ UNCHANGED <<queue, matchVars, offered, deal, failed, asking, removals, reserved, fills, sold, cancelled, mishaps, down>>

\* The order is saved; acceptDeal adds the deal, or returns false before that
\* (a hash used before, a swap client that is missing or not connected).
RequestSaved(h) ==
  /\ requests[h].stage = "saving"
  /\ \/ Deals!Create(h) /\ staged(h, "asked")
     \/ staged(h, "refused") /\ UNCHANGED <<deal, failed, asking>>
  /\ UNCHANGED <<pairVars, removals, reserved, fills, sold, cancelled, mishaps, down>>

RequestSaveRejected(h) ==
  requests[h].stage = "saving" /\ "db" \in Faults /\ Stops("database")

releasable(id, quantity) == id \in live /\ book[id].hold >= quantity

\* acceptDeal has returned false: the hold is released, again if "swap.failed"
\* released it already.
RequestRefused(h) ==
  /\ requests[h].stage \in {"refused", "withdrawn"}
  /\ LET id == requests[h].order
         waited == \E i \in DOMAIN removals : removals[i].order = id IN
     \/ /\ releasable(id, requests[h].quantity)
        /\ removeOrderHold(id, requests[h].quantity)
        /\ staged(h, "over")
        /\ IF requests[h].stage = "withdrawn" THEN noted("releasedTwice", TRUE)
           ELSE noted("cancellationMissed", waited)
        /\ UNCHANGED <<queue, matchVars, offered, deal, failed, asking, removals, reserved, fills, sold, cancelled, down>>
     \/ ~releasable(id, requests[h].quantity) /\ Stops("hold")

-----------------------------------------------------------------------------
(* The listeners on "swap.failed" and "swap.paid" *)

\* Mutant: what failed counts as removed, as if it had been paid.
handleFailedCounts(seen, removal, id, quantity) ==
  [seen EXCEPT !.removals =
     IF removal.order # id THEN Append(@, removal)
     ELSE IF removal.left <= quantity THEN @
     ELSE Append(@, [removal EXCEPT !.left = @ - quantity])]

\* failedHandler of one cancellation, unless one before it has thrown: what
\* failed is removed, up to what is left to remove.
handleFailed(seen, removal, id, quantity) ==
  LET part == Lesser(quantity, removal.left)
      result == removed(seen.order, seen.side, part)
      waits == [seen EXCEPT !.removals = Append(@, removal)]
  IN IF seen.threw # "no" \/ removal.order # id THEN waits
     ELSE IF seen.order = NoOrder \/ ~keepsHold(seen.order, part) THEN [waits EXCEPT !.threw = "removal"]
     ELSE [order |-> result.order, side |-> result.side,
           threw |-> IF result.ok THEN "no" ELSE "reserved",
           removals |-> IF result.ok /\ part = removal.left THEN seen.removals
                        ELSE Append(seen.removals,
                                    IF result.ok THEN [removal EXCEPT !.left = @ - part] ELSE removal)]

\* What each of them leaves to the next one.
heard(start, id, quantity) ==
  LET seen[i \in 0 .. Len(removals)] ==
        IF i = 0 THEN start ELSE handleFailed(seen[i - 1], removals[i], id, quantity)
  IN seen

\* Mutant: the hold of a deal is released in whatever phase it fails.
failedEventAlways(h) ==
  LET id == requests[h].order
      quantity == requests[h].quantity
      isBuy == book[id].isBuy
      throws == ~releasable(id, quantity)
      start == [order |-> IF ~throws THEN [book[id] EXCEPT !.hold = @ - quantity] ELSE book[id],
                side |-> reserved[isBuy], removals |-> <<>>, threw |-> IF throws THEN "hold" ELSE "no"]
  IN heard(start, id, quantity)[Len(removals)]

\* "swap.failed": the hold is released if the deal was agreed to and not yet
\* paid, then the cancellations are told, in the order they were made.
failedEvent(h) ==
  LET id == requests[h].order
      quantity == requests[h].quantity
      isBuy == book[id].isBuy
      agreed == deal[h] = "agreed"
      throws == agreed /\ ~releasable(id, quantity)
      start == [order |-> IF agreed /\ ~throws THEN [book[id] EXCEPT !.hold = @ - quantity] ELSE book[id],
                side |-> reserved[isBuy], removals |-> <<>>, threw |-> IF throws THEN "hold" ELSE "no"]
  IN heard(start, id, quantity)[Len(removals)]

\* What the event leaves behind, if the process goes on.
afterFailed(h) ==
  LET result == failedEvent(h) IN
  /\ puts(requests[h].order, result.order)
  /\ reserves(book[requests[h].order].isBuy, result.side)
  /\ removals' = result.removals
  /\ noted("caught", result.threw # "no")
  /\ UNCHANGED <<matchVars, offered, fills, sold, cancelled, down>>

\* An exception of a listener ends in an unhandled rejection, unless it was the
\* payment that failed: handleHtlcAccepted catches it.
DealFails(h) ==
  LET threw == failedEvent(h).threw IN
  \/ /\ threw = "no" \/ deal[h] = "agreed"
     /\ Deals!Fail(h) /\ afterFailed(h) /\ UNCHANGED requests
  \/ threw # "no" /\ Deals!canFail(h) /\ Stops(threw)

\* acceptDeal fails the deal, or finds it failed, before it has agreed to it.
DealRefused(h) ==
  /\ requests[h].stage = "asked"
  /\ \/ /\ deal[h] = "created" /\ h \in failed
        /\ Deals!Refuse(h) /\ staged(h, "refused")
        /\ UNCHANGED <<pairVars, removals, reserved, fills, sold, cancelled, mishaps, down>>
     \/ /\ deal[h] = "created" /\ h \notin failed
        /\ LET threw == failedEvent(h).threw IN
           \/ threw = "no" /\ Deals!Refuse(h) /\ afterFailed(h) /\ staged(h, "refused")
           \/ threw # "no" /\ Stops(threw)

DealAgreed(h) ==
  /\ requests[h].stage = "asked" /\ Deals!Agree(h)
  /\ UNCHANGED <<pairVars, requests, removals, reserved, fills, sold, cancelled, mishaps, down>>

\* acceptDeal returns true.
DealAnswered(h) ==
  /\ requests[h].stage = "asked" /\ Deals!Answer(h) /\ staged(h, "accepted")
  /\ UNCHANGED <<pairVars, removals, reserved, fills, sold, cancelled, mishaps, down>>

\* The agreed deal could not be saved: acceptDeal fails it and returns false.
DealWithdrawn(h) ==
  /\ "db" \in Faults /\ requests[h].stage = "asked" /\ deal[h] = "agreed"
  /\ \/ /\ h \in failed
        /\ Deals!Withdraw(h) /\ staged(h, "withdrawn")
        /\ UNCHANGED <<pairVars, removals, reserved, fills, sold, cancelled, mishaps, down>>
     \/ /\ h \notin failed
        /\ LET threw == failedEvent(h).threw IN
           \/ threw = "no" /\ Deals!Withdraw(h) /\ afterFailed(h) /\ staged(h, "withdrawn")
           \/ threw # "no" /\ Stops(threw)

\* Mutant: a cancellation with nothing left to wait for stays.
paidEventStays(id, quantity) ==
  [i \in DOMAIN removals |->
     IF removals[i].order # id THEN removals[i]
     ELSE [removals[i] EXCEPT !.left = @ - Lesser(@, quantity)]]

\* paidHandler of one cancellation.
handlePaid(waits, removal, id, quantity) ==
  IF removal.order # id THEN Append(waits, removal)
  ELSE IF removal.left <= quantity THEN waits
  ELSE Append(waits, [removal EXCEPT !.left = @ - quantity])

\* paidHandler: a cancellation has that much less to wait for.
paidEvent(id, quantity) ==
  LET waits[i \in 0 .. Len(removals)] ==
        IF i = 0 THEN <<>> ELSE handlePaid(waits[i - 1], removals[i], id, quantity)
  IN waits[Len(removals)]

\* Mutant: what was swapped stays in the book.
DealPaidKeeps(h) ==
  /\ requests[h].stage = "accepted"
  /\ releasable(requests[h].order, requests[h].quantity)
  /\ Deals!Pay(h)
  /\ removeOrderHold(requests[h].order, requests[h].quantity)
  /\ removals' = paidEvent(requests[h].order, requests[h].quantity)
  /\ sold' = [sold EXCEPT ![requests[h].order] = @ + requests[h].quantity]
  /\ staged(h, "trading")
  /\ UNCHANGED <<queue, reserved, matchVars, offered, fills, cancelled, mishaps, down>>

\* "swap.paid": the hold is released and that quantity removed.
DealPaid(h) ==
  /\ requests[h].stage = "accepted"
  /\ LET id == requests[h].order
         quantity == requests[h].quantity
         order == [book[id] EXCEPT !.hold = @ - quantity]
         result == removed(order, reserved[order.isBuy], quantity)
         threw == IF ~releasable(id, quantity) THEN "hold"
                  ELSE IF ~keepsHold(order, quantity) THEN "removal"
                  ELSE IF result.ok THEN "no" ELSE "reserved"
     IN
     \/ /\ threw = "no" /\ Deals!Pay(h)
        /\ puts(id, result.order) /\ reserves(order.isBuy, result.side)
        /\ removals' = paidEvent(id, quantity)
        /\ sold' = [sold EXCEPT ![id] = @ + quantity]
        /\ staged(h, "trading")
        /\ UNCHANGED <<matchVars, offered, fills, cancelled, mishaps, down>>
     \/ threw # "no" /\ Deals!canPay(h) /\ Stops(threw)

\* persistTrade
TradeSaved(h) ==
  /\ requests[h].stage = "trading" /\ staged(h, "over")
  /\ UNCHANGED <<pairVars, deal, failed, asking, removals, reserved, fills, sold, cancelled, mishaps, down>>

TradeSaveRejected(h) ==
  requests[h].stage = "trading" /\ "db" \in Faults /\ Stops("database")

-----------------------------------------------------------------------------
(* Internal matches: placeOrder matches an order of this node against the  *)
(* book, and then tells, all at once, which of its own orders were filled.  *)

OwnMatches ==
  /\ \E isBuy \in BOOLEAN, price \in Prices, quantity \in Quantities :
       Match([isBuy |-> isBuy, price |-> price, quantity |-> quantity])
  /\ UNCHANGED ownVars

OwnMatchStep(maker) ==
  /\ MatchFully(maker) \/ MatchAvailable(maker) \/ MatchPart(maker)
  /\ fills' = IF maker \in PeerIds THEN fills
              ELSE Append(fills, [isBuy |-> book[maker].isBuy, price |-> book[maker].price,
                                  quantity |-> matchingQuantity(maker)])
  /\ noted("kept", book'[maker] = book[maker])
  /\ UNCHANGED <<deal, failed, asking, requests, removals, reserved, sold, cancelled, down>>

\* match throws: nobody is told of what it has matched.
OwnMatchThrows(maker) ==
  /\ MatchThrows(maker)
  /\ fills' = <<>>
  /\ UNCHANGED <<deal, failed, asking, requests, removals, reserved, sold, cancelled, mishaps, down>>

\* "ownOrder.filled" for each match with an own order; one that throws ends
\* its own handleMatch only.
told[i \in 0 .. Len(fills)] ==
  IF i = 0 THEN reserved
  ELSE [told[i - 1] EXCEPT ![fills[i].isBuy] = subtracted(@, fills[i], fills[i].quantity).side]

OwnMatchEnds ==
  /\ MatchEnds
  /\ reserved' = told[Len(fills)]
  /\ fills' = <<>>
  /\ UNCHANGED <<deal, failed, asking, requests, removals, sold, cancelled, mishaps, down>>

-----------------------------------------------------------------------------
OwnNext ==
  \/ /\ ~matching /\ down = "no"
     /\ \/ \E id \in OwnIds :
             \/ OwnAdds(id)
             \/ \E quantity \in Amounts(id) :
                  \/ RemoveAvailable(id, quantity)
                  \/ RemoveHeld(id, quantity)
                  \/ \E h \in Hashes : SwapRequest(h, id, quantity)
        \/ \E h \in Hashes :
             \/ RequestSaved(h) \/ RequestSaveRejected(h) \/ RequestRefused(h)
             \/ DealFails(h) \/ DealRefused(h) \/ DealAgreed(h) \/ DealAnswered(h)
             \/ DealWithdrawn(h) \/ DealPaid(h) \/ TradeSaved(h) \/ TradeSaveRejected(h)
        \/ OwnMatches
  \/ \E maker \in Ids : OwnMatchStep(maker) \/ OwnMatchThrows(maker)
  \/ OwnMatchEnds
  \/ Starts

OwnSpec == OwnInit /\ [][OwnNext]_vars

-----------------------------------------------------------------------------
(* What the order book promises about its own orders *)

releasedByEvent(h) ==
  \/ deal[h] = "paid"
  \/ deal[h] = "agreed" /\ h \in failed
holding(h) ==
  \/ requests[h].stage \in {"saving", "refused"}
  \/ requests[h].stage \in {"asked", "accepted"} /\ ~releasedByEvent(h)
held(h, id) == IF requests[h].order = id /\ holding(h) THEN requests[h].quantity ELSE 0
heldOf(id) == SumFunctionOnSet([h \in Hashes |-> held(h, id)], Hashes)

(***************************************************************************)
(* What is on hold of an order is what its swaps in progress hold, in all  *)
(* orders of their events: neither a hold that stays nor one that goes     *)
(* twice; until the save of an agreed deal fails, and it is released by    *)
(* "swap.failed" and by handleSwapRequest (OrderBook.ts 256 and 1350).     *)
(***************************************************************************)
HoldsMatchSwaps ==
  "releasedTwice" \notin mishaps => \A id \in OwnIds : book[id].hold = heldOf(id)

(***************************************************************************)
(* Whatever is cancelled, refused, failed or matched in between, peers     *)
(* never buy more of an order than it offered, and what the book still     *)
(* has of it was not sold.                                                 *)
(***************************************************************************)
SwapsNotOversold ==
  \A id \in OwnIds : sold[id] + book[id].quantity <= offered[id]

quantityOn(isBuy, id) == IF book[id].isBuy = isBuy THEN book[id].quantity ELSE 0
offeredOn(isBuy) == SumFunctionOnSet([id \in OwnIds |-> quantityOn(isBuy, id)], OwnIds)

quoteOn(isBuy, id) ==
  IF book[id].isBuy = isBuy THEN quoteAmount(book[id].quantity, book[id].price) ELSE 0
quoteOfferedOn(isBuy) == SumFunctionOnSet([id \in OwnIds |-> quoteOn(isBuy, id)], OwnIds)

(***************************************************************************)
(* What is reserved covers what the orders in the book offer, but for      *)
(* orders that match has handed out and kept.  The base amount covers all  *)
(* of it.  The quote amount is rounded for an order and for each part of   *)
(* it, and falls short by at most one for each part that was subtracted:   *)
(* enough for the assertions of SwapClientManager.ts 277 and 283 to fail   *)
(* (down = "reserved"), but no more than that.                             *)
(***************************************************************************)
ReservedCovers ==
  "kept" \notin mishaps =>
    \A isBuy \in BOOLEAN :
      /\ reserved[isBuy].base >= offeredOn(isBuy)
      /\ reserved[isBuy].quote + reserved[isBuy].parts >= quoteOfferedOn(isBuy)

(***************************************************************************)
(* An order of which all that is left was cancelled has all of it on hold: *)
(* no peer can ask for it any more, whichever of its deals fail or are     *)
(* paid and whatever else was cancelled of it, until one of the mishaps    *)
(* with a hold or with a listener.                                         *)
(***************************************************************************)
CancelledNotOffered ==
  mishaps \subseteq {"kept"} =>
    \A id \in cancelled \cap live : available(id) = 0

=============================================================================
