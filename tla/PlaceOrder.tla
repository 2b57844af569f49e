------------------------------ MODULE PlaceOrder ------------------------------
(***************************************************************************)
(* OrderBook.placeOrder: an order of this node is matched against the book *)
(* and swapped with the peers whose orders it met, all swaps at once; what *)
(* fails is placed again by a call of its own, and what is left at the end *)
(* enters the book.  In between peers invalidate their orders, go and come *)
(* back.  The trading pair is TradingPair.tla, a swap of a part is one     *)
(* step for its start and one for its end (see Taker.tla for the rest).    *)
(***************************************************************************)
EXTENDS TradingPair, FiniteSetsExt

CONSTANTS
  NewId,       \* of the order that is placed
  Faults,      \* "capacity": checkSwapCapacities throws; "db": a save fails;
               \* "close": a peer disconnects
  MinQuantity, \* thresholds.minQuantity
  Parts,       \* what a maker accepts or a peer withdraws of an order, at first
  MaxCalls     \* bound: calls of placeOrder that are active at a time

ASSUME PlaceOrderAssumption ==
  /\ NewId \in OwnIds /\ IsFiniteSet(Ids)
  /\ Faults \subseteq {"capacity", "db", "close"} /\ MinQuantity \in Nat /\ Parts \subseteq Nat /\ MaxCalls \in Nat \ {0}

Calls == 1 .. MaxCalls
Root == 1

VARIABLES
  calls,      \* the calls of placeOrder
  parts,      \* handleMatch, for each order in the book that a call has met
  root,       \* the order of the first call, and its options
  timeUp,     \* whether maxTime has passed
  connected,  \* the peers, each with one order, that are active
  told,       \* what each peer offers, by its own word
  late,       \* history: orders withdrawn when nobody looked any more
  counts      \* history: what became of the order

callVars == <<calls, parts, root, timeUp>>
placeVars == <<callVars, connected, told, late, counts>>
vars == <<pairVars, placeVars>>

NoParent == [call |-> 0, maker |-> NewId]
NoCall == [stage |-> "none", quantity |-> 0, remaining |-> 0, parent |-> NoParent,
           failed |-> [id \in PeerIds |-> NoOrder], invalid |-> {}]
NoPart == [stage |-> "none", order |-> NoOrder]
NoRoot == [price |-> 0, discard |-> FALSE, replaced |-> {}]
NoCounts == [swapped |-> 0, filled |-> 0, placed |-> 0, discarded |-> 0]

PlaceTypeOK ==
  /\ PairTypeOK
  /\ calls \in [Calls -> [stage : {"none", "checking", "matching", "swapping", "rejected", "ended"},
                          quantity : Nat, remaining : Nat,
                          parent : [call : Calls \cup {0}, maker : Ids],
                          failed : [PeerIds -> Orders], invalid : SUBSET PeerIds]]
  /\ parts \in [Calls -> [Ids -> [stage : {"none", "filling", "starting", "swapping", "retrying"},
                                  order : Orders]]]
  /\ root \in [price : Nat, discard : BOOLEAN, replaced : SUBSET OwnIds] /\ timeUp \in BOOLEAN
  /\ connected \subseteq PeerIds /\ late \subseteq PeerIds /\ told \in [PeerIds -> Nat]
  /\ counts \in [swapped : Nat, filled : Nat, placed : Nat, discarded : Nat]

PlaceInit ==
  /\ PairInit
  /\ calls = [c \in Calls |-> NoCall]
  /\ parts = [c \in Calls |-> [m \in Ids |-> NoPart]]
  /\ root = NoRoot /\ timeUp = FALSE
  /\ connected = PeerIds /\ told = [p \in PeerIds |-> 0] /\ late = {}
  /\ counts = NoCounts

matchVars == <<taker, matching, aside, takers, matched>>
free == {c \in Calls : calls[c].stage = "none"}
running(c) == {m \in Ids : parts[c][m].stage # "none"}

\* A call whose parts have all ended, or that rejects, settles the promises
\* that wait for it in microtasks: nothing else happens before.
done(c) == calls[c].stage = "swapping" /\ running(c) = {}
rejecting(c) == c # Root /\ calls[c].stage = "rejected" /\ calls[c].parent # NoParent
idle == ~matching /\ \A c \in Calls : ~done(c) /\ ~rejecting(c)

-----------------------------------------------------------------------------
(* The peers, and the book before the order is placed *)

\* addPeerOrder, of an order to sell.
PeerOffers(p) ==
  /\ p \in connected /\ offered[p] = 0 /\ idle
  /\ \E price \in Prices, quantity \in Quantities, time \in Times :
       /\ Swappable(quantity, price)
       /\ addOrder(p, Stamped(FALSE, price, time, quantity))
       /\ offered' = [offered EXCEPT ![p] = quantity]
       /\ told' = [told EXCEPT ![p] = quantity]
  /\ UNCHANGED <<matchVars, callVars, connected, late, counts>>

\* An own order that may be matched, or replaced.
OwnOffers(id) ==
  /\ id # NewId /\ offered[id] = 0 /\ calls[Root].stage = "none" /\ idle
  /\ \E price \in Prices, quantity \in Quantities, isBuy \in BOOLEAN, time \in Times :
       /\ Swappable(quantity, price)
       /\ addOrder(id, Stamped(isBuy, price, time, quantity))
       /\ offered' = [offered EXCEPT ![id] = quantity]
  /\ UNCHANGED <<matchVars, placeVars>>

\* The user cancels it; nothing of it is on hold.
OwnCancels(id) ==
  /\ id # NewId /\ id \in live /\ idle /\ removeOrder(id, book[id].quantity)
  /\ UNCHANGED <<matchVars, offered, placeVars>>

\* Nobody looks again at the failed orders of a call.
unwatched(p) == \E c \in Calls : calls[c].failed[p] # NoOrder

\* A part once, or all of it.
withdrawals(p) == {told[p]} \cup IF told[p] = offered[p] THEN Parts ELSE {}

\* Mutant: only the book is told.
PeerInvalidatesBook(p, quantity) ==
  /\ p \in connected /\ 0 < quantity /\ quantity <= told[p] /\ idle
  /\ told' = [told EXCEPT ![p] = @ - quantity]
  /\ late' = IF unwatched(p) THEN late \cup {p} ELSE late
  /\ IF p \in live THEN removeOrder(p, quantity) ELSE UNCHANGED <<book, queue>>
  /\ UNCHANGED <<matchVars, offered, callVars, connected, counts>>

\* handleOrderInvalidation removes what it finds of the order in the book;
\* handlePeerOrderInvalidation of each call takes down its id.
PeerInvalidates(p, quantity) ==
  /\ p \in connected /\ 0 < quantity /\ quantity <= told[p] /\ idle
  /\ told' = [told EXCEPT ![p] = @ - quantity]
  /\ late' = IF unwatched(p) THEN late \cup {p} ELSE late
  /\ IF p \in live THEN removeOrder(p, quantity) ELSE UNCHANGED <<book, queue>>
  /\ calls' = [c \in Calls |-> IF calls[c].stage \in {"swapping", "rejected"}
                               THEN [calls[c] EXCEPT !.invalid = @ \cup {p}] ELSE calls[c]]
  /\ UNCHANGED <<matchVars, offered, parts, root, timeUp, connected, counts>>

\* peer.close: removePeerOrders.  The calls do not listen for that.
PeerCloses(p) ==
  /\ p \in connected /\ "close" \in Faults /\ idle
  /\ connected' = connected \ {p}
  /\ told' = [told EXCEPT ![p] = 0]
  /\ late' = IF unwatched(p) \/ \E c \in Calls : parts[c][p].stage \in {"starting", "swapping"}
             THEN late \cup {p} ELSE late
  /\ removePeerOrders({p})
  /\ UNCHANGED <<matchVars, offered, callVars, counts>>

\* The peer is back, without its order.
PeerReopens(p) ==
  /\ idle /\ p \notin connected /\ connected' = connected \cup {p}
  /\ UNCHANGED <<pairVars, callVars, told, late, counts>>

-----------------------------------------------------------------------------
(* A call, up to the end of match *)

\* placeLimitOrder and placeMarketOrder; an order that is replaced is known.
Places ==
  /\ calls[Root].stage = "none" /\ idle
  /\ \E quantity \in Quantities, price \in Prices,
        replaced \in SUBSET (OwnIds \cap live), discard \in BOOLEAN :
       /\ quantity >= MinQuantity /\ Swappable(quantity, price)
       /\ Cardinality(replaced) <= 1 /\ (discard => replaced = {})
       /\ calls' = [calls EXCEPT ![Root] = [NoCall EXCEPT !.stage = "checking", !.quantity = quantity]]
       /\ root' = [price |-> price, discard |-> discard, replaced |-> replaced]
  /\ UNCHANGED <<pairVars, parts, timeUp, connected, told, late, counts>>

\* maxTime passes.
TimePasses ==
  /\ idle /\ calls[Root].stage \in {"checking", "swapping"} /\ ~timeUp /\ timeUp' = TRUE
  /\ UNCHANGED <<pairVars, calls, parts, root, connected, told, late, counts>>

rejects(c) == calls' = [calls EXCEPT ![c].stage = "rejected"]

replacedBy(c) == IF c = Root THEN root.replaced ELSE {}

\* checkSwapCapacities throws; or the order to be replaced is gone meanwhile,
\* or held for a swap with a peer (not modelled), and then addOrderHold throws.
CallRejects(c) ==
  /\ calls[c].stage = "checking" /\ idle
  /\ "capacity" \in Faults \/ ~(replacedBy(c) \subseteq live)
  /\ rejects(c)
  /\ UNCHANGED <<pairVars, parts, root, timeUp, connected, told, late, counts>>

\* Mutant: the replaced order is not put on hold.
CallMatchesUnheld(c) ==
  /\ calls[c].stage = "checking" /\ replacedBy(c) \subseteq live /\ idle
  /\ startsMatch([isBuy |-> TRUE, price |-> root.price, quantity |-> calls[c].quantity])
  /\ calls' = [calls EXCEPT ![c].stage = "matching"]
  /\ UNCHANGED <<book, parts, root, timeUp, connected, told, late, counts>>

\* All of a replaced order is put on hold, then match runs.
CallMatches(c) ==
  /\ calls[c].stage = "checking" /\ replacedBy(c) \subseteq live /\ idle
  /\ startsMatch([isBuy |-> TRUE, price |-> root.price, quantity |-> calls[c].quantity])
  /\ book' = [id \in Ids |-> IF id \in replacedBy(c) THEN [book[id] EXCEPT !.hold = book[id].quantity]
                             ELSE book[id]]
  /\ calls' = [calls EXCEPT ![c].stage = "matching"]
  /\ UNCHANGED <<parts, root, timeUp, connected, told, late, counts>>

\* A match: an own order is filled at once, one of a peer is yet to be swapped.
CallMeets(c, maker) ==
  /\ calls[c].stage = "matching"
  /\ MatchFully(maker) \/ MatchAvailable(maker) \/ MatchPart(maker)
  /\ parts' = [parts EXCEPT ![c][maker] =
                 [stage |-> IF maker \in OwnIds THEN "filling" ELSE "starting",
                  order |-> [book[maker] EXCEPT !.quantity = matchingQuantity(maker)]]]
  /\ counts' = [counts EXCEPT !.filled = @ + IF maker \in OwnIds THEN matchingQuantity(maker) ELSE 0]
  /\ UNCHANGED <<calls, root, timeUp, connected, told, late>>

\* match returns; from here on the call listens for invalidations.
CallSwaps(c) ==
  /\ calls[c].stage = "matching"
  /\ MatchEnds
  /\ calls' = [calls EXCEPT ![c].stage = "swapping", ![c].remaining = taker.quantity]
  /\ UNCHANGED <<parts, root, timeUp, connected, told, late, counts>>

-----------------------------------------------------------------------------
(* handleMatch *)

active(c) == calls[c].stage \in {"swapping", "rejected"}
ends(c, maker) == parts' = [parts EXCEPT ![c][maker] = NoPart]
counted(swapped, discarded) ==
  counts' = [counts EXCEPT !.swapped = @ + swapped, !.discarded = @ + discarded]

\* Mutant: what the peer has withdrawn meanwhile is subtracted again.
tradedBeyond(p, quantity) == told' = [told EXCEPT ![p] = @ - quantity]

traded(p, quantity) == told' = [told EXCEPT ![p] = IF quantity < @ THEN @ - quantity ELSE 0]

\* An internal match is saved as a trade.
FillSaved(c, id) ==
  /\ active(c) /\ parts[c][id].stage = "filling" /\ idle /\ ends(c, id)
  /\ UNCHANGED <<pairVars, calls, root, timeUp, connected, told, late, counts>>

\* executeSwap has seen to the order in the database; swaps.executeSwap finds
\* the peer.
SwapStarts(c, p) ==
  /\ active(c) /\ parts[c][p].stage = "starting" /\ p \in connected /\ idle
  /\ parts' = [parts EXCEPT ![c][p].stage = "swapping"]
  /\ UNCHANGED <<pairVars, calls, root, timeUp, connected, told, late, counts>>

\* An error that is no SwapFailureReason, NOT_CONNECTED or one of the database,
\* ends handleMatch and the call.
PartThrows(c, maker) ==
  /\ active(c) /\ idle
  /\ \/ parts[c][maker].stage = "starting" /\ (maker \notin connected \/ "db" \in Faults)
     \/ parts[c][maker].stage = "filling" /\ "db" \in Faults
  /\ ends(c, maker) /\ rejects(c)
  /\ UNCHANGED <<pairVars, root, timeUp, connected, told, late, counts>>

\* The swap succeeds and is saved as a trade.
SwapSucceeds(c, p) ==
  /\ active(c) /\ parts[c][p].stage = "swapping" /\ idle
  /\ traded(p, parts[c][p].order.quantity) /\ counted(parts[c][p].order.quantity, 0)
  /\ ends(c, p)
  /\ UNCHANGED <<pairVars, calls, root, timeUp, connected, late>>

\* The swap succeeds, but its trade cannot be saved.
SwapUnsaved(c, p) ==
  /\ active(c) /\ parts[c][p].stage = "swapping" /\ "db" \in Faults /\ idle
  /\ traded(p, parts[c][p].order.quantity) /\ counted(parts[c][p].order.quantity, 0)
  /\ ends(c, p) /\ rejects(c)
  /\ UNCHANGED <<pairVars, root, timeUp, connected, late>>

unmatched(quantity) == IF root.discard THEN 0 ELSE quantity

\* retryFailedSwap: a call of its own for the quantity, which throws below the
\* threshold and returns at once after maxTime.
retryFailedSwap(c, p, quantity, failed, swapped) ==
  LET seen == [calls EXCEPT ![c].failed = failed] IN
  \/ /\ quantity < MinQuantity
     /\ calls' = [seen EXCEPT ![c].stage = "rejected"]
     /\ ends(c, p) /\ counted(swapped, 0)
  \/ /\ quantity >= MinQuantity /\ timeUp
     /\ calls' = [seen EXCEPT ![c].remaining = @ + unmatched(quantity)]
     /\ ends(c, p) /\ counted(swapped, quantity - unmatched(quantity))
  \/ /\ quantity >= MinQuantity /\ ~timeUp /\ free # {}
     /\ calls' = [seen EXCEPT ![Min(free)] =
                    [NoCall EXCEPT !.stage = "checking", !.quantity = quantity,
                                   !.parent = [call |-> c, maker |-> p]]]
     /\ parts' = [parts EXCEPT ![c][p].stage = "retrying"] /\ counted(swapped, 0)

\* Mutant: the whole part is placed again.
SwapPartlyWhole(c, p, accepted) ==
  /\ active(c) /\ parts[c][p].stage = "swapping" /\ accepted < parts[c][p].order.quantity /\ idle
  /\ traded(p, accepted)
  /\ retryFailedSwap(c, p, parts[c][p].order.quantity, calls[c].failed, accepted)
  /\ UNCHANGED <<pairVars, root, timeUp, connected, late>>

\* The maker accepted less: the rest is placed again.
SwapPartly(c, p, accepted) ==
  /\ active(c) /\ parts[c][p].stage = "swapping" /\ accepted < parts[c][p].order.quantity /\ idle
  /\ traded(p, accepted)
  /\ retryFailedSwap(c, p, parts[c][p].order.quantity - accepted, calls[c].failed, accepted)
  /\ UNCHANGED <<pairVars, root, timeUp, connected, late>>

\* What failedMakerOrders keeps of the order: what is in the book as well as
\* the failed part, or only that, unless the peer has invalidated it.
failedOrder(c, p) ==
  IF p \in live THEN [book[p] EXCEPT !.quantity = @ + parts[c][p].order.quantity]
  ELSE IF p \in calls[c].invalid THEN NoOrder
  ELSE parts[c][p].order

\* The swap fails: the order leaves the book until the call ends, and the part
\* is placed again.
SwapFails(c, p) ==
  /\ active(c) /\ parts[c][p].stage = "swapping" /\ idle
  /\ book' = [book EXCEPT ![p] = NoOrder] /\ queue' = queue \ {p}
  /\ retryFailedSwap(c, p, parts[c][p].order.quantity,
                     [calls[c].failed EXCEPT ![p] = failedOrder(c, p)], 0)
  /\ UNCHANGED <<matchVars, offered, root, timeUp, connected, told, late>>

-----------------------------------------------------------------------------
(* The end of a call *)

returning(c) == {p \in PeerIds : calls[c].failed[p] # NoOrder /\ p \in connected /\ p \notin live}

\* The failed orders of active peers go back, and so may the order itself.
putsBack(c, left, placed) ==
  /\ book' = [id \in Ids |-> IF id \in returning(c) THEN calls[c].failed[id]
                             ELSE IF id \in DOMAIN placed THEN placed[id]
                             ELSE left[id]]
  /\ queue' = {id \in queue : left[id] # NoOrder} \cup returning(c) \cup DOMAIN placed

\* A retry returns what it could not match to the call it belongs to.
RetryEnds(c) ==
  /\ ~matching /\ c # Root /\ done(c)
  /\ LET parent == calls[c].parent IN
     /\ calls' = [calls EXCEPT ![c] = NoCall,
                               ![parent.call].remaining = @ + unmatched(calls[c].remaining)]
     /\ ends(parent.call, parent.maker)
  /\ counted(0, calls[c].remaining - unmatched(calls[c].remaining))
  /\ putsBack(c, book, <<>>)
  /\ UNCHANGED <<matchVars, offered, root, timeUp, connected, told, late>>

\* What is left enters the book, in the place of the replaced order; or it is
\* discarded, as dust is.
RootEnds ==
  /\ ~matching /\ done(Root)
  /\ LET left == calls[Root].remaining
         places == ~root.discard /\ left > 0 /\ Swappable(left, root.price)
         released == [id \in Ids |-> IF id \notin root.replaced THEN book[id]
                                    ELSE IF places \/ left = 0 THEN NoOrder
                                    ELSE [book[id] EXCEPT !.hold = 0]]
         order == [isBuy |-> TRUE, price |-> root.price, createdAt |-> 0, quantity |-> left, hold |-> 0]
     IN
     /\ putsBack(Root, released, IF places THEN [id \in {NewId} |-> order] ELSE <<>>)
     /\ offered' = [offered EXCEPT ![NewId] = IF places THEN left ELSE @]
     /\ counts' = IF places THEN [counts EXCEPT !.placed = left]
                  ELSE [counts EXCEPT !.discarded = @ + left]
  /\ calls' = [calls EXCEPT ![Root] = [NoCall EXCEPT !.stage = "ended", !.quantity = calls[Root].quantity]]
  /\ UNCHANGED <<matchVars, parts, root, timeUp, connected, told, late>>

\* A retry that has rejected ends the handleMatch that waits for it, and that
\* rejects its call, once.
RetryRejects(c) ==
  /\ ~matching /\ rejecting(c)
  /\ calls' = [calls EXCEPT ![c].parent = NoParent, ![calls[c].parent.call].stage = "rejected"]
  /\ ends(calls[c].parent.call, calls[c].parent.maker)
  /\ UNCHANGED <<pairVars, root, timeUp, connected, told, late, counts>>

\* The last swap of a rejected retry has ended.
RetryForgotten(c) ==
  /\ c # Root /\ calls[c].stage = "rejected" /\ calls[c].parent = NoParent /\ running(c) = {} /\ idle
  /\ calls' = [calls EXCEPT ![c] = NoCall]
  /\ UNCHANGED <<pairVars, parts, root, timeUp, connected, told, late, counts>>

-----------------------------------------------------------------------------
Environment ==
  \/ \E p \in PeerIds : \/ PeerOffers(p) \/ PeerCloses(p) \/ PeerReopens(p)
                        \/ \E quantity \in withdrawals(p) : PeerInvalidates(p, quantity)
  \/ \E id \in OwnIds : OwnOffers(id) \/ OwnCancels(id)
  \/ Places \/ TimePasses

Proceeds ==
  \/ \E c \in Calls :
       \/ CallRejects(c) \/ CallMatches(c) \/ CallSwaps(c)
       \/ RetryEnds(c) \/ RetryRejects(c) \/ RetryForgotten(c)
       \/ \E id \in OwnIds : FillSaved(c, id)
       \/ \E maker \in Ids : CallMeets(c, maker) \/ PartThrows(c, maker)
       \/ \E p \in PeerIds :
            \/ SwapStarts(c, p) \/ SwapSucceeds(c, p) \/ SwapUnsaved(c, p) \/ SwapFails(c, p)
            \/ \E accepted \in Parts : SwapPartly(c, p, accepted)
  \/ RootEnds

PlaceNext == Environment \/ Proceeds

PlaceSpec == PlaceInit /\ [][PlaceNext]_vars

-----------------------------------------------------------------------------
(* What placing an order promises *)

quantityIn(c) ==
  CASE calls[c].stage = "checking" -> calls[c].quantity
    [] calls[c].stage = "matching" -> taker.quantity
    [] OTHER -> calls[c].remaining
inSwap(c, m) ==
  IF parts[c][m].stage \in {"starting", "swapping"} THEN parts[c][m].order.quantity ELSE 0
inSwaps(c) == SumFunctionOnSet([m \in Ids |-> inSwap(c, m)], Ids)
inCalls == SumFunctionOnSet([c \in Calls |-> quantityIn(c) + inSwaps(c)], Calls)
settled == counts.swapped + counts.filled + counts.placed + counts.discarded

(***************************************************************************)
(* Each part of the order is in one place: with a swap, with a call that   *)
(* places it again, swapped, matched internally, in the book or discarded, *)
(* however the swaps and the calls for their failed parts end; and none is *)
(* lost unless a call was rejected.                                        *)
(***************************************************************************)
OrderAccounted ==
  calls[Root].stage # "none" =>
    IF \E c \in Calls : calls[c].stage = "rejected" THEN settled + inCalls <= calls[Root].quantity
    ELSE settled + inCalls = calls[Root].quantity

(***************************************************************************)
(* "we add a handler here to track orders that were invalidated while we   *)
(* were trying to swap them so that we don't accidentally add them back to *)
(* the order book": no more of an order is in the book than its peer       *)
(* offers, unless it was withdrawn when its failed order waited already.   *)
(***************************************************************************)
OffersRespected == \A p \in PeerIds \ late : book[p].quantity <= told[p]

(***************************************************************************)
(* The same, whenever the order was withdrawn.                             *)
(***************************************************************************)
InvalidatedStaysOut == \A p \in PeerIds : book[p].quantity <= told[p]

(***************************************************************************)
(* Of a replaced order and the one that replaces it, peers can take only   *)
(* one: from match on the replaced order is on hold, and it is gone when   *)
(* the new one is in the book.                                             *)
(***************************************************************************)
ReplacedOnce ==
  \A id \in root.replaced \cap live :
    /\ calls[Root].stage \in {"matching", "swapping"} => available(id) = 0
    /\ NewId \notin live
=============================================================================
