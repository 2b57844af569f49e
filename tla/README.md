# Formal models of xud

xud is the daemon of the OpenDEX/Exchange Union network: a node trades with its
peers without a middleman by matching orders locally and settling every match
with an *atomic swap* over payment channels (LND for bitcoin and litecoin,
Connext for ethereum).  This directory holds TLA+ models of the code in
`src/lib`, the TLC configurations that check them and TLAPS proofs about them.

Paths below are relative to `src/lib` unless they say otherwise.

## 1. The system

| Component | State | Operations | Talks to |
|---|---|---|---|
| Swaps (`swaps/Swaps.ts`) | `deals`, `timeouts`, `usedHashes`; a deal has a role, a phase and a state | `executeSwap`, `beginSwap`, `acceptDeal`, `handleSwapAccepted`, `handleHtlcAccepted`, `resolveHash`, `setDealPhase`, `failDeal`, `persistDeal`, `handleSwapTimeout`, `handleSwapFailed`, sanity swaps | peers by packets, swap clients by calls and events, the order book by `swap.paid` and `swap.failed`, the database |
| SwapRecovery (`swaps/SwapRecovery.ts`) | `pendingSwaps`, a five-minute timer | `recoverDeal`, `checkPaymentStatus`, `claimPayment`, `failDeal` | swap clients, the rows of the deals |
| SwapRepository, `swapdeals` table (`swaps/SwapRepository.ts`, `db/`) | one row per payment hash | `saveSwapDeal`, `getSwapDeal(s)` | sqlite |
| SwapClient, LndClient, ConnextClient, SwapClientManager | connection status, invoice subscriptions, expected transfers, reserved amounts | `addInvoice`, `settleInvoice`, `removeInvoice`, `sendPayment`, `lookupPayment`, status changes, capacity checks | the external LND and Connext processes |
| OrderBook (`orderbook/OrderBook.ts`) | trading pairs, `localIdMap`, currencies and pairs | `placeOrder`, `addOwnOrder`, `addPeerOrder`, removals, holds, `handleSwapRequest`, `verifyPeerPairs` | trading pairs, swaps, the pool |
| TradingPair (`orderbook/TradingPair.ts`) | order maps and priority queues of own and peer orders | `addOrder`, `removeOrder`, `match`, holds | - |
| Pool, NodeList, Peer (`p2p/`) | connections, known nodes, reputation, response timeouts, handshake state | connect, accept, handshake, ban, send, wait for a response | sockets, the database |
| Service, gRPC, HTTP, CLI, NodeKey, InitService, Config, Backup, Xud | little of their own | checks and delegation, start-up, file copies | all of the above |

### How a swap goes

A *taker* matches its order with an order of a *maker* and sends it a
`SwapRequest`.  The taker draws the preimage `rPreimage`; the maker only learns
its hash `rHash`.  The maker opens a hold invoice and answers `SwapAccepted`;
the taker opens a hold invoice of its own, saves the deal and pays the maker
(first leg).  When that HTLC is held, the maker saves the deal and pays the
taker (second leg).  The taker settles its invoice, which reveals the preimage,
and the maker settles the first with it.

### What is hard about it

Every `await` of an `async` method is a point at which any other handler may
run.  In one swap there can be at once a handler awaiting a client, a second
awaiting the database, several saves of the same deal, a timer, packets of the
peer, an invoice stream and a recovery check.  Packets are lost without the
sender being told (`Peer.sendPacket` logs and resolves), database writes are
rejected and most rejections only logged, client calls fail although they were
carried out, and the process may stop anywhere: `bootstrap.ts` stops it as
well whenever an event listener leaves a promise rejected.  After a restart
only the rows and LND know anything.  `PROJECT.json` lists the places in the
code where one of these can go wrong, with the properties that would show it.

### What makes each part correct

* **Maker:** never loses the incoming HTLC while its own payment may go
  through; does not call a paid deal failed; pays only what a row tells of;
  is paid in the end if the taker was.
* **Taker:** calls a deal completed only when it was paid, and lets no deal
  stay active for ever.
* **Swap:** both payments or none, with the taker first.
* **Order book:** held quantities match the swaps under way; no quantity is
  sold twice; matching respects price, then time.
* **Swap clients:** a lost LND is noticed and one that is ready is used again,
  however the calls under way end; a locked one can be unlocked; reserved
  amounts cover the open orders, but for what rounding takes from them.
* **P2P:** one connection per node, responses matched with requests, bans in
  line with reputation.

## 2. The modules

| Module | Models |
|---|---|
| `SwapNet` | what lies between two processes: swap packets, and for each hash the two hold invoices and two payments of the LND nodes; the saves of `SwapRepository` |
| `Maker` | the maker's side of `Swaps.ts`, its invoices in `LndClient.ts`, `SwapRecovery.ts`, against any taker |
| `Taker` | the taker's side of the same, against any maker |
| `Swap` | `Maker` and `Taker` composed: two xud processes |
| `AtomicSwap` | what a swap promises; `Swap` implements it |
| `Deal` | what a deal promises to the order book; `Maker` implements it |
| `TradingPair` | the order book of one pair: `TradingPair.ts` |
| `OwnOrders` | a `TradingPair` and any number of `Deal`s composed: `OrderBook.ts` as a maker, and the reserved amounts of `SwapClientManager.ts` |
| `PlaceOrder` | a `TradingPair` and the calls of `OrderBook.placeOrder`, with the swaps of each: `OrderBook.ts` as a taker |
| `NodeList` | reputation, bans and their rows: `NodeList.ts` |
| `Pool` | two nodes, the sockets between them and their `NodeList`s: `Pool.ts`, `Peer.ts` |
| `SwapClient`, `LndClient` | the status of a swap client, and xud's connection with one LND: `SwapClient.ts`, `LndClient.ts` |
| `Maker_proofs`, `Taker_proofs`, `Swap_proofs`, `TradingPair_proofs`, `Own_proofs`, `Place_proofs`, `Pool_proofs`, `Lnd_proofs` | the proofs about the module of that name (`OwnOrders`, `PlaceOrder`, `LndClient`); `Swap_proofs` uses those of both parties, `Own_proofs` and `Place_proofs` those of the trading pair |
| `MCMaker`, `MCTaker`, `MCSwap`, `MCPair`, `MCOwn`, `MCPlace`, `MCPool`, `MCLnd` | the modules TLC starts from |

The modules meet in three places.  `Swap` puts the two parties together and
checks that each stays within what the other was checked against.  `Maker` is
checked and proved to implement `Deal` (`MakerKeepsDeals`), which is all that `OwnOrders`
knows of a swap; so what holds of the orders holds whatever the packets and
payments behind the deals do.  `OwnOrders` and `PlaceOrder` extend
`TradingPair` and use its operators: its `match` is theirs.

### State and actions

Variables of the maker start with `m`, those of the taker with `t`.

* `mDeals` is the map `Swaps.deals`, `mDeal` the deal *objects*: handlers hold
  a reference to a deal after `persistDeal` took it out of the map.
* `mAccept`, `mResolve`, `tSend`, `tBegin`, `tResolve` say which `await` of
  `acceptDeal`, `handleHtlcAccepted`/`resolveHash`, `handleSwapAccepted` and
  `beginSwap` a handler is at.  Code from one `await` to the next is one
  action, for JavaScript runs it without interruption.
* `mSaves` has one entry for every `saveSwapDeal` call that may be under way.
  A call is *issued*, then reads (looks up the node and copies the deal as it
  is **then**), then writes; with one sqlite connection calls do so in order.
  `mRow` is the row.
* `mSub` is `LndClient.invoiceSubscriptions`; `mCancel` the `cancelInvoice`
  calls that `removeInvoice` started and nobody waits for.
* `mRecover` follows a deal through `SwapRecovery`.
* `mStops`/`tStops` is a stop of the process: memory is lost, the row stays.
  It is a step of its own with the fault "crash", and the effect of a
  rejection that nobody handles.

An action takes the name of what it models: `MakerAccepts` is the part of
`acceptDeal` after `addInvoice`; `mFailDeal` is `failDeal` and is used by every
handler that calls it.  `PROJECT.json` maps each definition to its lines.

The counterparty of `Maker` (`AnyTaker`) and of `Taker` (`AnyMaker`) may send
any packet at any time and do with its own invoice and payment what it likes.
It cannot settle an invoice without the preimage.  Packets are never taken out
of the set of packets sent, so they may be lost, late, repeated and reordered;
where the code itself rules out a repetition (`Peer` takes one response to a
request) the action's guard does.

Four kinds of **faults** are parameters of the swaps: `"crash"`, `"db"` (a query is
rejected), `"client"` (a call to a swap client fails, carried out or not, or
its stream breaks), `"peer"` (the peer is gone when looked up).

LND is external, and modelled from how `LndClient` uses it: an invoice is
open, accepted, settled or canceled; a payment in flight succeeds only when
its invoice was settled and fails finally otherwise.  The expiry of the
**first** HTLC (`FirstHtlcExpires`) has a guard that stands for the lock
buffer of `calculateLockBuffer`: the incoming HTLC outlasts the maker's own
payment, and the time the maker takes to save the deal before it makes one.
That guard is an assumption of everything said about the maker's funds.

### The trading pair

`book` stands for the maps `ownOrders` and `peersOrders` (an order that is in
neither has quantity 0), `queue` for the members of the two priority queues,
whose order is the operator `Precedes`.  The methods are synchronous, so each
is one action; `match` is cut into the passes of its loop (`MatchFully`,
`MatchAvailable`, `MatchPart`, `MatchThrows`, `MatchEnds`) because they are its
branches, and nothing else happens while `matching` is true.  Two orders that
the comparator does not tell apart may come in either order.  Callers are
those of `OrderBook.ts`: an order that is placed, or comes from a peer, is worth
a swap (`Swappable`); what comes back to the book after a failed swap
(`PeerReturns`) and what is matched again need not be, for nobody looks.  An
order that comes back counts as a new one.  A market order is one with the
highest, or lowest, price.  `offered` and `matched` are history: what an order
offered and how much of it `match` has matched.

Alone, `TradingPair` lets any own order be held or released at any time, and
matches any taker order, which allows all that its users do.

### Own orders

`requests` has, for each hash, the order a peer asked for and where
`handleSwapRequest` stands: it awaits a save, then `acceptDeal`.  `deal` and
`asking` are those of `Deal`.  The listeners on `swap.failed` and `swap.paid`
run in the order in which they were registered, the one of the constructor
first and then one pair for each cancellation in `removals`; one that throws
keeps the later ones from running, and unless `acceptDeal` catches the
exception the process stops (`Stops`).  `failedEvent` and `paidEvent` are these
chains of listeners, `DealFails`, `DealRefused`, `DealWithdrawn` and `DealPaid`
the steps of a deal with all its listeners do.  Which of the own orders an
internal match fills is only told when `match` has returned, all at once
(`fills`, `OwnMatchEnds`).  `reserved` has the amounts of both currencies for
buy and for sell orders; an order whose price does not give a whole quote
amount is rounded in `quoteAmount` as `UnitConverter` does.  Each has a field of
history, `parts`, that counts how often something was to be subtracted.
`mishaps` is history: it names the few ways in which the code itself loses track, so that
the properties can say what holds until then.

### Placing an order

`calls` are the calls of `placeOrder`: the first for the order, the others for
parts that failed and are placed again.  A call is at its capacity check, in
`match`, waits for its swaps, or has been rejected while its swaps go on.
`parts` has, for each call and each order it met, where `handleMatch` stands.
A swap starts in one step and ends in another, in one of three ways: all, part
or nothing of what was asked for.  A call all of whose parts have ended goes on
in microtasks, before anything else happens (`idle`).  The peers withdraw
their orders, in part or whole, disconnect and return at any time between.
`told` is what each peer offers by its own word, `counts` what became of the
placed order.  The order to be replaced may be cancelled during the capacity
check; that a peer's swap puts part of it on hold then is left out, for
`addOrderHold` throws (`orderbook/TradingPair.ts:356`, called in
`orderbook/OrderBook.ts:578`) before anything has changed, and the call rejects
as it does for an order that is gone (`CallRejects`).

### Connections

For each of the two nodes `stage` says where `openPeer` stands for its end of a
socket, at its awaits: the connection, the writes of the handshake, the waits
for a response, and the wait for the old peer to close.  `inbox` is what is on
its way through the socket, in order; `"fin"` is the end of it.  `closed` are
the ends on which `Peer.close` has run; `peers` is `Pool.peers`.  A handshake
packet is only what it is: authentication, versions and networks always match.
`crowded` is history: the nodes of which two sides, waiting for one old peer to
close, have become active at once; it takes three sockets.
A peer that is retried while it is pending (`revokeConnectionRetries`) is the
parameter of `Connects`.  `NodeList` is one entry of one node's list; `banning`
are the reputation events whose `addReputationEvent` awaits the older events
before it emits `node.ban`.

### The connection with LND

`client` has the fields of one `LndClient` that its control depends on: the
status, which of the gRPC clients exist (`lightning` also says whose
verification made it, since a closed client fails only its own), whether the
macaroon is loaded, and the promises `initWalletResolve` and
`watchMacaroonResolve`.  The operators `lock`, `disconnect`, `setUnlocked` and
`setStatus` take such a record and return the next, so that an action is their
composition in the order of the code: `CapacityAnswered` is `handled` and then
`connected`.  `verif` says at which call `verifyConnection` stands, for each of
those that may run at once: the one of `init`, which goes on after its time
limit, the one of the reconnection timer, and the one after a wallet was
created.  A call is sent, answered by LND as it is at that time, and its answer
handled later, in any order with others.  Wallet calls are those of the user
(`UserCalls`) and the automatic one when a client is found locked.  LND may be
stopped, started, unlocked by others, fall out of sync, or answer with an
error of another kind (`"refusing"`: for instance a macaroon that no longer
fits).  Loading a macaroon that was just written does not fail, and one wallet
call of the user is under way at a time.

## 3. What is checked

All runs of the swaps use one payment hash.  Two hashes share nothing: every action is
about one hash, and only a stop and a start act on all of them at once, by
treating each alike.  The lemma `LocalStep` of `Maker_proofs` makes this
precise for the maker: a step that leaves the variables of another hash as
they are cannot disturb its invariant.  Within one hash nothing is bounded:
packets are a finite set, and every loop (retries, repeated checks, restarts)
returns to states already seen, so the runs are exhaustive.

`CHECK_DEADLOCK FALSE` is there because each of these systems may stop: its
swaps are over, its orders used up, both its nodes shut down.

| Run | Faults | Shows |
|---|---|---|
| `maker` | all four | `MakerFundsSafe`, `MakerFailureIsFinal`, `MakerFollowsPayments`, `MakerSuccessIsReal`, `MakerTimersMatchDeals`, `MakerPaysWhenCovered` against any taker; `MakerIsPaid`: a taker's claim is followed by the maker's; `MakerKeepsDeals` (refinement of `Deal`): the order book is told of each deal once that it failed or once that it was paid, and `acceptDeal` returns before |
| `taker` | all four | `TakerSuccessIsReal`, `TakerWritesAhead`, `TakerTimersMatchDeals` against any maker, and `TakerSwapsEnd`: no deal stays active in memory for ever |
| `swap` | crash, client | `SwapIsAtomic` (refinement of `AtomicSwap`: both paid or none, the taker first), `NoVerdictAgainstTaker`, and that each party is one the other allows for (`MakerMeetsATaker`, `TakerMeetsAMaker`), so that what holds of one against any counterparty holds in the composition |
| `pair` | - | `HoldsCovered`, `PeerOrdersIntact`, `NoDustLeft`, `BestOrdersFirst` for one own order, two of peers, and two taker orders one after the other |
| `own_orders` | db | `HoldsMatchSwaps`, `SwapsNotOversold`, `ReservedCovers` (of both currencies, the quote amount up to one unit for each part subtracted), `CancelledNotOffered` for an order under two swaps, two cancellations and a match |
| `place_order` | capacity, db, close | `OrderAccounted`, `OffersRespected`, `ReplacedOnce` for an order placed against two peers and an own order |
| `pool` | a lost or stalled socket, or a restart | `ActiveInPool`, `BanCloses`, and `KeepsOne`: of two simultaneous connections one remains, the same on both sides |
| `lnd` | changes of LND | `LockedCanUnlock`; `LossNoticed`: an LND that stays down does not leave the client connected, with one exception; `ComesBack`: when LND stays ready, the client becomes connected or is in one of the named dead ends |
| `swap_decisive` | none | finding 1 |
| `taker_recovery` | crash | finding 2 |
| `double_fill` | - | finding 3 |
| `place_invalidated` | none | finding 4 |

The run `swap` leaves out "db" and "peer" to keep the state space small;
since it shows that each party stays within the other's assumptions there, and
the runs of the parties have all faults, those two matter only for
`SwapIsAtomic` and `NoVerdictAgainstTaker`.

The runs `pair` and `double_fill` have a dust limit of 2 and quantities 1 and 4:
orders of 4 lose parts of 1 by matching, removing and holding, so that every
rest from 3 (worth a swap) down to 1 (dust on the base side) comes about, beside
a hold or alone; at price 2 a part of 1 is dust on one side only; and orders and
takers that are dust themselves occur.  Two prices and three orders give equal
and different prices on each side, and an order put aside while another is
matched.  `MaxTakers` bounds how many orders are matched in one behaviour, and
each order is added once; between these, orders are removed, held and released
without bound.  All times are equal there, which
leaves open every order among equals.  `TradingPair_proofs` shows what is
independent of these bounds.

In `own_orders` one order (its quantities 1, 2 and 4, at a price where one unit
is half a quote unit and has to be rounded) meets two swaps, which is what it
takes for one to disturb the hold of the other; every part of it may be asked
for or cancelled.  `MaxRemovals` bounds the cancellations that *wait* at a
time to two, so that two sets of listeners compete for an event; `MaxTakers` is
one internal match, after which an order that was matched may go on being
swapped.  A restart clears everything, and the order may be added again.

In `place_order` two peers offer one order each and an own order rests in the
book, all of quantity 5, and the placed order, of 5 too, may replace it.
`Parts` is what a maker accepts, or a peer withdraws, at first: 2, so that an
order of which 2 was withdrawn has 3 left, a call meets it and 2 of the other
one, and two swaps of one call are under way at a time.  Both parts are worth
another call (`MinQuantity` is 2) when they fail, while the 1 that is left when
a maker accepts 2 of 3 is not: one handler throws and its call is rejected
while the other swap goes on.  `MaxCalls` allows three calls at a time: the
first, and one retry for each of two parts, or a retry of a retry.  TLC finds
states with two swaps of a call under way, with two retries for one call, and
with a rejected call that still has a swap, when asked for one.  `MaxTakers`
bounds the calls in one behaviour to three.  In `place_invalidated`, which only
needs one trace, the quantity is 4 and a part is 1.

In `pool` two sockets (`MaxConns`) are what the comment at `p2p/Pool.ts:629`
speaks of: both nodes connect at the same time, or one connects again.
`MaxFaults` allows one lost socket, stall or restart at any point, `MaxEvents`
two reputation events of one node, a ban and its removal.  With a third socket
and one reputation event `ActiveInPool` and `BanCloses` hold as well, with the
exception they name (`crowded`); that run takes too long to be repeated, and
`Pool_proofs` shows it for any number.

In `lnd` the state of LND changes `MaxChanges` = 2 times of its own accord, at
any point and from any first state, besides what xud's wallet calls do; that is
enough for LND to be lost and found again, or locked, during a verification
that had begun while it was ready.  With 3 the properties hold as well; that
run takes too long to be repeated every time.

### Fairness

* A stopped process is started again (`MakerRestarts`, `TakerRestarts`).
* LND passes a preimage on (`SecondPaymentSucceeds`).
* Strong fairness of the maker's steps from the taker's claim to its own:
  `SwapRecovery` checks and settle calls are repeated every five minutes and
  clients reconnect, so each is possible again and again and succeeds at some
  time.  Weak fairness would not do, for a crash or an offline client disables
  them over and over.
* For the taker weak fairness while the process runs: an awaited client call
  returns or throws, a started timer fires.
* `Pool`: weak fairness of `Progress`, the steps that nobody has to decide on:
  what was written arrives or the socket ends, awaited writes return, timers
  fire, `node.ban` is announced.  Connecting, bans and shutdown need not
  happen, and `KeepsOne` excuses runs with a fault, ban or shutdown in them.

* `LndClient`: weak fairness of each timer, of each verification and call (LND,
  or gRPC for it, answers), and of LND writing its macaroon.  The user need not
  unlock anything, and LND need not change.

Every property has a mutant: a definition next to the one it alters (its
comment starts with "Mutant") that breaks the code in a plausible way, for
which TLC finds the property violated.

### Findings

1. **A taker's failure is not decisive.** `handleSwapTimeout` and
   `handleSwapFailed` fail a taker's deal in `SendingPayment` also while
   `handleHtlcAccepted` awaits `settleInvoice`.  LND settles, both payments go
   through, and the deal is in state `Error`: its order is tried again, although
   the comment at `swaps/Swaps.ts:1288` says the taker "can decisively fail the
   deal and swap".  When the call then returns, the assertion of `setDealPhase`
   rejects the listener and the process stops.
2. **Recovery does not end a taker's deal.** Its row always has the preimage,
   so `checkPaymentStatus` asks for a settlement that can never succeed, and
   the deal stays pending.
3. **An own order can be filled twice.** If a taker order wants more than
   what is not on hold of an own order, `match` hands out a copy of that part
   and returns the order to the queue with its quantity unchanged.  The next
   taker order is matched with the same quantity.  (If the taker order wants
   exactly as much, or less, the order is split and reduced, as it should.)
4. **A withdrawn order comes back.** `placeOrder` looks whether a peer has
   invalidated an order when its swap fails, and puts the failed orders back at
   the end of the call, after all retries and all other swaps.  An order that
   is withdrawn in between is put back although its peer no longer offers it
   (`orderbook/OrderBook.ts:717` and `:781`).  `OffersRespected` says what does
   hold: an order that is withdrawn before its swap fails stays out.

### Known behaviour

These are in the models as they are in the code.  Most contradict no comment or
test clearly enough to call them findings; none has a run of its own.

* If the socket of a peer closes while `openPeer` writes the last packet of the
  handshake, or waits for the old peer to close, `handlePeerClose` finds the
  peer not active and does nothing; `openPeer` then adds it
  (`p2p/Pool.ts:656`) to what is called "a collection of opened, active peers".
  The node is refused as already connected until the process restarts.
* A client whose LND is lost, or locked, while `setConnected` waits for the
  capacity becomes `ConnectionVerified` all the same (`swaps/SwapClient.ts:184`).
  If `disconnect` or `lock` has closed its `LightningClient` by then, every call fails without
  changing the status, and only a restart helps: this is the exception in
  `LossNoticed`.
* The dead ends of `ComesBack`, in which a client stays although LND is ready:
  `Misconfigured`, since `init` tries again when `tls.cert` was missing but goes
  on from `NotInitialized` only (`swaps/SwapClient.ts:171`); `Initialized`, when the first
  verification gets an error that is not about the connection, because the
  timer does not verify clients in that status, although the message says
  "retrying"; `NoHoldInvoiceSupport`, also when LND was only locked or its
  client closed during the check for hold invoices
  (`lndclient/LndClient.ts:526`); `WaitingUnlock`, when LND is unlocked by
  others; and no macaroon, when it was written before the watch for it began,
  the wallet was created by others, or LND was lost meanwhile
  (`awaitWalletInit` asserts in the status `Disconnected`).
* A chain that is switched does not make a client `Misconfigured`: that status
  can only be set before it is initialized (`lndclient/LndClient.ts:504`).
* The maker's deals have no `executeTime`, so their duration is not a number and neither
  `SwapAbuse` nor `SwapDelay` is recorded (`swaps/Swaps.ts:1540`).
* After a restart `removeInvoice` does nothing, since it needs an entry of
  `invoiceSubscriptions` (`lndclient/LndClient.ts:1134`): the invoice of a deal
  that `SwapRecovery` fails stays open until it expires.
* A cancellation of what is on hold only waits for `swap.failed` and
  `swap.paid`.  A request that `acceptDeal` refuses before there is a deal just
  releases the hold (`orderbook/OrderBook.ts:1350`): the quantity is offered
  again although it was cancelled ("cancellationMissed" in `mishaps`).
* What is reserved in the quote currency is rounded for an order as a whole and
  for each part that leaves it.  The parts may add up to more: an order of 4 at
  a price of half a unit reserves 2, and its parts of 1 and 3 subtract 1 and 2.
  Then the assertion that enough is reserved fails
  (`swaps/SwapClientManager.ts:277` and `:283`) in a listener of the order book
  ("reserved" in `down`), or the amounts of other orders are used up.  So
  `ReservedCovers` says of the quote amount that it is short by no more
  than one unit for each part.
* If the agreed deal cannot be saved, the hold is released by `swap.failed` and
  again by `handleSwapRequest` ("releasedTwice").
* An order that is replaced is only released, and stays in the book, when what
  is left of its replacement is dust, or is discarded
  (`orderbook/OrderBook.ts:747`).
* When a call of `placeOrder` rejects, the replaced order stays on hold and the
  failed maker orders are not put back.
* With three sockets (two attempts of the node with the lower key, for which
  `revokeConnectionRetries` is needed, and one of the other node) two peers may
  wait for the same old peer to close, and when it does both become active: the
  later one takes the place in the pool (`p2p/Pool.ts:642-657`).  The attempt to
  prove `ActiveInPool` for any number of sockets showed it.  The history variable
  `crowded` names the node from then on, and `ActiveInPool` and `BanCloses` say
  what holds of all others; `KeepsOne` does not hold with three sockets.
* A ban that comes when the handshake has passed `validatePeer` does not keep
  the peer from becoming active (`banRaced`).
* `NodeList.load` counts the events newest first: a ban that was lifted counts
  again after a restart, for the score, though not for `banned`.
* `Pool.disconnect` waits for the server to close before it closes the inbound
  sockets that keep it open.
* In `match`, the loop ends at a held order it has put aside "to try to match the next order"
  (`orderbook/TradingPair.ts:429` and `:436`), and when a match leaves dust
  beside a hold, an assertion ends the routine halfway (`MatchThrows`).

## 4. What is proved

The proofs hold for every value of the constants that the named assumptions of
the modules allow, and bound nothing that the runs bound.

| Module | Proved of every behaviour |
|---|---|
| `Maker_proofs` | the six invariants of the run `maker`, `MakerPaysWhenCovered`, and the refinement `MakerKeepsDeals` |
| `Taker_proofs` | the four invariants of the run `taker` |
| `Swap_proofs` | all four properties of the run `swap`: the refinements `SwapIsAtomic`, `MakerMeetsATaker`, `TakerMeetsAMaker`, and `NoVerdictAgainstTaker`; that all that is proved of each party holds of the two together, and that a claim of the taker is covered (`ClaimIsCovered`) |
| `TradingPair_proofs` | `PairTypeOK`, `HoldsCovered`, `PeerOrdersIntact`, `NoDustLeft`, `BestOrdersFirst`: all of the run `pair`; that `match` finds an order as long as it must go on, and ends (`MatchGoesOn`, `PassesMatchSomething`) |
| `Own_proofs` | all five invariants of the run `own_orders`; that `OwnOrders` does with its deals what `Deal` allows |
| `Place_proofs` | all four properties of the run `place_order` |
| `Pool_proofs` | all three invariants of the run `pool` |
| `Lnd_proofs` | `LndTypeOK`, `LockedCanUnlock` |

Most of these are not inductive; each module begins with the invariant that is,
which TLC has checked as an invariant of the run on its bounds as well.

### The maker

Assumed is only `Faults \subseteq FaultKinds`; the set of hashes is any.  That a
failed deal has not been paid depends on what the database is about to write: a
save issued before the failure may copy the deal before or after it, and may be
written after a restart has begun to look at the row.  `MakerIInv` therefore
says, for each hash,

* `DealInv`: how phase and state of the deal, the map, the timers and the
  cancellations under way go together;
* `FreshInv`: that a hash without a deal in memory has no handler, save or
  subscription, and is marked as used if it has a row;
* `StageInv`: which phase the deal is in at each await of the handlers;
* `SaveInv` (`StagedInv`, `CopyInv`): which saves may be under way in which
  phase, and how their copies relate to the deal, the payment and the invoice;
* `RowInv`: what the row may say, given the deal in memory, if any;
* `PayInv`: the safety properties themselves;
* `RecoverInv`: what recovery may be about to do, given row and payment.

Each action has a lemma, or shares one with actions of the same shape (those
that only move a handler on, those that call `failDeal`, those that finish a
save).  A lemma shows that the parts of the invariant hold for the action's
hash, and `LocalStep` does the rest.

`MakerKeepsItsDeals` maps each step of the maker to one of `Deal` or to none:
`canFail` and `canPay` follow from `DealInv` and `StageInv`, and a stop of the
process is a stop of all deals.

`MakerFollowsPayments` needs a second invariant on top of the first:
`FollowInv`, that while the process runs and a payment may go through or has
gone through without the incoming HTLC being claimed, `resolveHash`, its retries of
`settleInvoice` or `SwapRecovery` is after it.  Most steps let nothing go
(`KeepsFollowing`).  A restart loses `resolveHash` and the retries: that it finds
such a deal again is `RowsAtRisk`, which says that its row is active and in
a phase that recovery looks for, and follows from `RowInv` and `PayInv`.

### The taker, and the two together

`TakerIInv` is the taker's counterpart (`tDealInv`, `tFreshInv`, `tStageInv`,
`tSaveInv`, `tPayInv`).  That a deal is paid only when its row says so rests on
`tSaveInv`: a payment is sent when the save of *this* deal returns, and no save
can write an earlier phase over it afterwards.  A deal that failed during that
save is not paid for: the clients' `sendPayment` asserts first that the deal is
active (`TakerSavedSending`).

`Swap_proofs` uses both without proving either again.  A step of the taker is,
to the maker's invoice, payment and packets, a step of `AnyTaker`, against
which `MakerIInv` was proved; and the other way round with `AnyMaker`
(`TakerActsAsAnyTaker`, `MakerActsAsAnyMaker`, which need the invariants: for
instance that the maker's invoice is settled only when its own payment went
through).  So every theorem about one party holds in the composition.  What is
left is `LinkInv`: the taker's HTLC is held or claimed only while the maker's
payment is under way or made.  From these follows `SwapIsAtomicAlways`: the
outcome changes as the two invoices do, and no step of either skips one.

Two theorems put the parts together.  `BothKeepTheirPromises` states the
parties' own theorems of `Swap`.  `ClaimsAreCovered` combines `LinkInv`,
`MakerFundsSafe` and `MakerFollowsPayments`: once the taker has claimed the maker's
payment, the maker has claimed the taker's, or holds it, has an active row,
and is after it while it runs.  `MakerIsPaid` adds to it that the claim succeeds in
the end, which only TLC checks.

### The trading pair

For every set of orders, all quantities, prices and times, any dust limit and
any number of taker orders (own and peer orders have different ids, numbers are
positive).  A hold is not touched because only what is available is matched,
and an order that is only partly available is an own one because orders of
peers are never on hold.  What counts as dust is left open: the proof never
looks into `Swappable`.  That a pass takes the best order needs no more than the
types, for nothing but a pass of `match` adds to `matched`.

That `match` returns is proved in two parts, of which neither is temporal logic.
`getOrdersPriorityQueueComparator` is a strict order on the orders of one side
(`PrecedesIsStrict`) and the queue is finite (`FiniteInv`), so a queue that is
not empty has a best order (`BestExists`, by `SubsetInduction` below) and
the loop has one to look at; and every pass but the last makes what is left
of the taker order smaller, for what it hands out is worth more than nothing.
On the bounds of the run `pair` TLC agrees with both.

### Own orders

For any orders, swaps, cancellations and matches (assumed beside the above: there
are finitely many orders and hashes).  `OwnIInv` is `PairIInv`, the types, the
properties `SwapsNotOversold` and `HoldsMatchSwaps` themselves, which are
inductive with the rest, and

* `DealsInv`: for each hash, where `handleSwapRequest` stands against its deal;
  above all, a request that is over or refused has no deal that may still be
  paid;
* `CancelInv`: of an order of which all was cancelled nothing is available, and
  *one* of the cancellations that wait does so for all that is on hold.  That
  several may wait for parts of the same order is why the property alone is not
  inductive: a listener that runs first may leave the others nothing;
* `BudgetInv`: during a match, orders leave the book at once and what is
  reserved for them only when all matches are told.  So there is a sequence of
  amounts, one for each match still to be told, which begins at no more than what is
  reserved, falls by at least that match at each, and ends at no less than what
  is in the book.  It has such an amount for each side and currency: the quantity
  itself, and, for the quote amount, what is reserved and one unit for each part.
  That a part takes no more than its share of the order and one unit
  (`QuoteParts`) is arithmetic on `quoteAmount`, for any price and unit.

The listeners on an event (`failedEvent`, `paidEvent`) are a recursive function
on the sequence of cancellations, each taking up what the one before left.
`Chains` shows that there is such a function, and `Indices` that what each
listener passes on holds after all of them; both come from the least number
at which it would not.  Listeners keep the hold of the order, take no more out
of the reserved amount than out of the book (`Follows`), and leave the order
with nothing available when one of them has waited for all of it.

`OrdersUseDeals` is the other half of the interface that `MakerKeepsItsDeals` is
about: the specification of own orders implies `Deal`, so no path through
the requests, listeners and stops of `OrderBook.ts` takes a step with a deal
that `Deal`, and hence the maker that implements it, does not have.

### Placing an order

For any orders, any number of calls, any faults, and any `Parts` (assumed beside
the above: there are finitely many orders).  `PlaceIInv` is

* `BookInv`: the trading pair's invariant, and that an own order is on hold
  wholly or not at all;
* `CallsInv`: at what stage which parts may be (`Stagings`), and that a call
  that is a retry belongs to one part that waits for it, and no part has two
  (`Links`);
* `MeetInv`: while a call still wants something, it has taken all of the orders
  it met, so none is met twice;
* `ReplacedInv`, `OffersInv`: what of the replaced order is available, and that
  the book and *all that can come back to it* of a peer's order is no more than
  the peer offers, or that every call that swaps with it knows it is gone;
* `RankInv`: when a call has been rejected, its parent is, or is about to be,
  told.  The chain of calls from a failed part up to the first is as long as
  one likes, so the invariant says that there is a rank, growing along the
  chain, and that the lowest failure not yet told is still on its way;
* `AccountInv`: `OrderAccounted`, and what counts as zero before and after.

`OrderAccounted` and `OffersInv` are about sums over all calls and their parts.
The sum is the operator of the community modules on finite sets, and
the library's theorems about induction take an operator as a parameter, which
the provers cannot follow.  `TradingPair_proofs` goes round them: a set of
natural numbers has a least one (`LeastNumber`, from the library's theorem on
well-founded relations), hence the smallest counterexample, hence
`SubsetInduction` on finite sets with the property given as a *set*; from it
`SumExists` and `SumUnique`, that one iteration gives the sum; and from these
what the proofs cite: a sum in which one number changes (`SumChange`), in which
something moves from one place to another (`SumMoves`), and that it is at least
each of its parts (`SumAtLeast`).

### Two nodes

For any number of sockets, faults and reputation events.  `PoolIInv` says of
each node that the active sides are at most the one in the pool, unless the node
is `crowded`, and that the sides which have passed `validatePeer` and are not
yet open are in `banRaced` when there is a ban: these are the only ones that can
still become active.

The type invariant of the pool says that no score leaves `-Infinity ..
maxReputationScore`, where `Infinity` is more than `MaxEvents` events can take from a
score by adding up.  `load` computes the score of a node anew, by a fold over the
rows; `ScoreExists` shows that this fold (a recursive function given by
`CHOOSE`) is a sequence of scores that the events lead through, and
`LoadedScore` that after n events it is minus infinity or at least -25 n, by
the least n at which it would not be.  The rest, `Scored`, `Boxes` and
`RestTyped`, says what is in rows, sockets and handshakes.

### The connection with LND

For any number of changes of LND.  A client that waits to be unlocked must have
a `WalletUnlocker` client, though every verification closes the clients it
finds.  `LndIInv` says that while it has not, a verification is at its check
for hold invoices (`checking`), whose answer changes the status; that a client in
that status has no `LightningClient`; what may be under way before the client
is initialized (`Starting`); and when a call waits for the wallet
(`WaitsForWallet`).

### Only model-checked

* liveness (`MakerIsPaid`, `TakerSwapsEnd`, `KeepsOne`, `LossNoticed`,
  `ComesBack`), which the proof system does not reach.  What is proved beside
  it is that nothing is forgotten on the way: an active deal of the taker has a
  timer or is at an await that ends (`TakerTimersMatchDeals`), and a payment of the
  maker is pursued until it is covered (`MakerFollowsPayments`).

## 5. What is not modelled

* **In the swaps:** amounts and prices (a packet with a wrong quantity is a
  packet type of its own), reputation events, the timing rules for swap abuse,
  the fee and route computations, `verifyExecution` before a swap.  A deal that
  is accepted for less than was proposed is in `PlaceOrder` (`Parts`) only.
  Left out as well: that LND has added the hold invoice although
  the call throws (`lndclient/LndClient.ts:1227`), for the maker as for the taker,
  which leaves an invoice open that nobody pays; the return of
  `handleSwapAccepted` when a swap client has gone since the handshake
  (`swaps/Swaps.ts:915`), which leaves a deal active without a timer; and, in
  `mRecoverDeal`, a row that is active and in phase `PaymentReceived`
  (`swaps/SwapRecovery.ts:179`), which no modelled save writes.
* **Sanity swaps:** `verifyPeerPairs` and the swaps of one unit without an
  order.  Their deals go through the handlers of `Maker` and `Taker`, without a
  row; that `verifyPeerPairs` does not wait for `canRouteToPeer` is listed
  among the hazards.
* **Swap clients:** channels, balances and on-chain wallets; Connext, whose
  transfers follow another protocol than hold invoices, and its verification.
  To a swap, a client that is not connected is one whose calls fail: `Maker` and
  `Taker` let any call fail and do not use the status.
* **The order book:** pairs and currencies that are added and removed, the mode
  without matching, broadcasts, which capacities suffice for an order.
* **P2P:** framing, encryption and the encoding of packets, which are data with
  little control; addresses, discovery and the backoff of reconnection; more
  than two nodes, of which each pair is as the one modelled.
* **Input and output:** `Backup`, `NodeKey`, `InitService`, `Service`, gRPC, HTTP,
  CLI, `Config`, `Logger`, the start-up in `Xud`, and the generated code in
  `proto/`, which is most of the repository's lines.

## 6. Plan

Every safety property that a passing run checks is proved.  What could be added:

1. sanity swaps, as deals of a module of their own beside `Maker` and `Taker`;
2. Connext, whose transfers follow another protocol than hold invoices, as a
   second implementation of the payments in `SwapNet`;
3. the refinement of `TradingPair` by `PlaceOrder` and `OwnOrders`: their proofs
   use its lemmas step by step, and do not state it as one theorem.
