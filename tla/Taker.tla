-------------------------------- MODULE Taker --------------------------------
(***************************************************************************)
(* The taker's side of a swap: beginSwap, handleSwapAccepted and           *)
(* handleHtlcAccepted of lib/swaps/Swaps.ts, its deals in memory and in    *)
(* the database, its accept and swap timers, the hold invoice it opens     *)
(* through LndClient, and what SwapRecovery does with a taker's deal.      *)
(***************************************************************************)
EXTENDS SwapNet

VARIABLES
  tUp,       \* whether the process runs
  tDrawn,    \* hashes the taker has drawn, never to be drawn again
  tDeals,    \* the hashes in Swaps.deals
  tDeal,     \* phase and state of the deal object
  tBegin,    \* what beginSwap awaits
  tSend,     \* what handleSwapAccepted awaits
  tResolve,  \* what handleHtlcAccepted awaits
  tTimers,   \* Swaps.timeouts
  tSaves,    \* saveSwapDeal calls not finished yet
  tRow,      \* the deal's row of the swapdeals table
  tSub,      \* LndClient.invoiceSubscriptions
  tCancel,   \* cancelInvoice calls in flight
  tRecover   \* SwapRecovery: the deals it watches

tVars == <<tUp, tDrawn, tDeals, tDeal, tBegin, tSend, tResolve, tTimers, tSaves,
           tRow, tSub, tCancel, tRecover>>

SendStates == {"idle", "invoice", "saving", "sending", "done"}
ClaimStates == {"idle", "settling", "done"}

\* The phases that only a maker sets never occur, and no deal is saved before
\* SendingPayment.
TakerDeals == {deal \in Deals : deal.phase \notin {"SwapAccepted", "PreimageResolved"}}
TakerRows == {row \in Rows : row.phase \in {"None", "SendingPayment", "PaymentReceived"}}

TakerTypeOK ==
  /\ NetTypeOK
  /\ tUp \in BOOLEAN
  /\ tDrawn \subseteq Hashes /\ tDeals \subseteq Hashes /\ tTimers \subseteq Hashes
  /\ tSub \subseteq Hashes /\ tCancel \subseteq Hashes
  /\ tBegin \subseteq Hashes /\ tRecover \subseteq Hashes
  /\ tDeal \in [Hashes -> TakerDeals] /\ tRow \in [Hashes -> TakerRows]
  /\ tSend \in [Hashes -> SendStates]
  /\ tResolve \in [Hashes -> ClaimStates]
  /\ tSaves \in [Hashes -> [SaveTags -> Saves]]

TakerInit ==
  /\ tUp = TRUE
  /\ tDrawn = {} /\ tDeals = {} /\ tTimers = {} /\ tSub = {} /\ tCancel = {}
  /\ tBegin = {} /\ tRecover = {}
  /\ tDeal = [h \in Hashes |-> NoDeal] /\ tRow = [h \in Hashes |-> NoRow]
  /\ tSend = [h \in Hashes |-> "idle"]
  /\ tResolve = [h \in Hashes |-> "idle"]
  /\ tSaves = [h \in Hashes |-> NoSaves]

-----------------------------------------------------------------------------
\* The process stops: memory is lost, the row stays.  It does so as well when
\* a promise is rejected that nobody handles (bootstrap.ts).
tStops ==
  /\ tUp' = FALSE
  /\ tDeals' = {} /\ tTimers' = {} /\ tSub' = {} /\ tCancel' = {}
  /\ tBegin' = {} /\ tRecover' = {}
  /\ tDeal' = [h \in Hashes |-> NoDeal]
  /\ tSend' = [h \in Hashes |-> "idle"]
  /\ tResolve' = [h \in Hashes |-> "idle"]
  /\ tSaves' = [h \in Hashes |-> NoSaves]
  /\ UNCHANGED <<tDrawn, tRow>>

\* Swaps.failDeal for a taker.  Only a deal in SendingPayment is saved and
\* has its invoice removed; LndClient does so when it has a subscription.
tFailDeal(h, pending, tellPeer) ==
  IF tDeal[h].state = "Active"
  THEN /\ tDeal' = [tDeal EXCEPT ![h].state = "Error"]
       /\ tSaves' = [tSaves EXCEPT ![h] =
            IF Persisted(tDeal[h].phase) THEN [pending EXCEPT !["failed"] = Issued] ELSE pending]
       /\ tTimers' = tTimers \ {h}
       /\ tCancel' = IF tDeal[h].phase = "SendingPayment" /\ h \in tSub
                     THEN tCancel \cup {h} ELSE tCancel
       /\ IF tellPeer THEN sendPacket("SwapFailed", "maker", h) ELSE UNCHANGED packets
  ELSE /\ tSaves' = [tSaves EXCEPT ![h] = pending]
       /\ UNCHANGED <<tDeal, tTimers, tCancel, packets>>

\* A taker's deal has its preimage from birth.
tRowOf(deal) == [phase |-> deal.phase, state |-> deal.state, preimage |-> TRUE]

\* Mutant: persistDeal forgets active deals as well.
tWriteRowForgets(h, tag) ==
  /\ tRow' = [tRow EXCEPT ![h] = tRowOf(tSaves[h][tag].deal)]
  /\ tDeals' = tDeals \ {h}

\* saveSwapDeal has written its copy of the deal, and persistDeal goes on.
tWriteRow(h, tag) ==
  /\ tRow' = [tRow EXCEPT ![h] = tRowOf(tSaves[h][tag].deal)]
  /\ tDeals' = IF tDeal[h].state = "Active" THEN tDeals ELSE tDeals \ {h}

\* A saveSwapDeal call has found the peer's node, and copies the deal.
TakerCopiesDeal(h) ==
  \E tag \in SaveTags :
    /\ IsNextRead(tSaves[h], tag)
    /\ tSaves' = [tSaves EXCEPT ![h][tag] = Read(tDeal[h])]
    /\ UNCHANGED <<netVars, tUp, tDrawn, tDeals, tDeal, tBegin, tSend, tResolve, tTimers, tRow,
                   tSub, tCancel, tRecover>>

-----------------------------------------------------------------------------
(* Swaps.beginSwap *)

\* A fresh hash, addDeal, and the request is sent.
TakerBegins(h) ==
  /\ h \notin tDrawn
  /\ tDrawn' = tDrawn \cup {h}
  /\ tDeals' = tDeals \cup {h}
  /\ tDeal' = [tDeal EXCEPT ![h] = [phase |-> "SwapCreated", state |-> "Active"]]
  /\ tBegin' = tBegin \cup {h}
  /\ sendPacket("SwapRequest", "maker", h)
  /\ UNCHANGED <<legs, tUp, tSend, tResolve, tTimers, tSaves, tRow, tSub, tCancel, tRecover>>

\* A swap client is inactive: the deal fails before anything is sent.
TakerCannotBegin(h) ==
  /\ "client" \in Faults
  /\ h \notin tDrawn
  /\ tDrawn' = tDrawn \cup {h}
  /\ tDeals' = tDeals \cup {h}
  /\ tDeal' = [tDeal EXCEPT ![h] = [phase |-> "SwapCreated", state |-> "Error"]]
  /\ UNCHANGED <<netVars, tUp, tBegin, tSend, tResolve, tTimers, tSaves, tRow, tSub,
                 tCancel, tRecover>>

\* Mutant: the accept timer is not started.
TakerRequestedUntimed(h) ==
  /\ h \in tBegin
  /\ tBegin' = tBegin \ {h}
  /\ tDeal' = IF tDeal[h].state = "Active"
              THEN [tDeal EXCEPT ![h].phase = "SwapRequested"] ELSE tDeal
  /\ UNCHANGED <<netVars, tUp, tDrawn, tDeals, tSend, tResolve, tTimers, tSaves, tRow,
                 tSub, tCancel, tRecover>>

\* The packet is written: setDealPhase(SwapRequested), which throws for a
\* deal that has failed since.
TakerRequested(h) ==
  /\ h \in tBegin
  /\ tBegin' = tBegin \ {h}
  /\ IF tDeal[h].state = "Active"
     THEN /\ tDeal' = [tDeal EXCEPT ![h].phase = "SwapRequested"]
          /\ tTimers' = tTimers \cup {h}
     ELSE UNCHANGED <<tDeal, tTimers>>
  /\ UNCHANGED <<netVars, tUp, tDrawn, tDeals, tSend, tResolve, tSaves, tRow, tSub,
                 tCancel, tRecover>>

-----------------------------------------------------------------------------
(* Swaps.handleSwapAccepted *)

\* Peer takes one answer to a request, and an answer for a deal that is in
\* another phase or has failed is ignored.
tAnswered(type, h) ==
  /\ Packet(type, "taker", h) \in packets
  /\ h \in tDeals /\ tDeal[h] = [phase |-> "SwapRequested", state |-> "Active"]
  /\ tSend[h] = "idle"

\* The accept timer is cleared; the invoice is added next.
TakerHandlesSwapAccepted(h) ==
  /\ tAnswered("SwapAccepted", h)
  /\ tSend' = [tSend EXCEPT ![h] = "invoice"]
  /\ tTimers' = tTimers \ {h}
  /\ UNCHANGED <<netVars, tUp, tDrawn, tDeals, tDeal, tBegin, tResolve, tSaves, tRow,
                 tSub, tCancel, tRecover>>

TakerRefusesQuantity(h) ==
  /\ tAnswered("BadAcceptance", h)
  /\ tFailDeal(h, tSaves[h], TRUE)
  /\ tSend' = [tSend EXCEPT ![h] = "done"]
  /\ UNCHANGED <<legs, tUp, tDrawn, tDeals, tBegin, tResolve, tRow, tSub, tRecover>>

TakerCannotAddInvoice(h) ==
  /\ "client" \in Faults
  /\ tSend[h] = "invoice"
  /\ tFailDeal(h, tSaves[h], TRUE)
  /\ tSend' = [tSend EXCEPT ![h] = "done"]
  /\ UNCHANGED <<legs, tUp, tDrawn, tDeals, tBegin, tResolve, tRow, tSub, tRecover>>

\* The invoice is there: setDealPhase(SendingPayment) starts the swap timer,
\* and the deal is saved before the payment is sent.  For a deal that failed
\* since, nobody catches what setDealPhase throws, and the invoice stays.
TakerAddsInvoice(h) ==
  /\ tSend[h] = "invoice"
  /\ secondInv' = [secondInv EXCEPT ![h] = "open"]
  /\ IF tDeal[h].state = "Active"
     THEN /\ tDeal' = [tDeal EXCEPT ![h].phase = "SendingPayment"]
          /\ tTimers' = tTimers \cup {h}
          /\ tSaves' = [tSaves EXCEPT ![h]["sending"] = Issued]
          /\ tSend' = [tSend EXCEPT ![h] = "saving"]
          /\ tSub' = tSub \cup {h}
          /\ UNCHANGED <<tUp, tDrawn, tDeals, tBegin, tResolve, tRow, tCancel, tRecover>>
     ELSE tStops
  /\ UNCHANGED <<packets, firstInv, firstPay, secondPay>>

\* Saved: the client's sendPayment begins by asserting that the deal is still
\* active, and hands the payment to LND, unless it is not connected.
TakerSavedSending(h) ==
  /\ IsNextWrite(tSaves[h], "sending")
  /\ tWriteRow(h, "sending")
  /\ tSaves' = [tSaves EXCEPT ![h]["sending"] = NoSave]
  /\ tSend' = [tSend EXCEPT ![h] = "sending"]
  /\ \/ tDeal[h].state = "Active" /\ firstPay' = [firstPay EXCEPT ![h] = "inflight"]
     \/ (tDeal[h].state # "Active" \/ "client" \in Faults) /\ UNCHANGED firstPay
  /\ UNCHANGED <<packets, firstInv, secondInv, secondPay, tUp, tDrawn, tDeal, tBegin,
                 tResolve, tTimers, tSub, tCancel, tRecover>>

\* Mutant: the payment is sent although the save was rejected.
TakerSaveSendingIgnored(h) ==
  /\ IsRejected(tSaves[h], "sending")
  /\ tSaves' = [tSaves EXCEPT ![h]["sending"] = NoSave]
  /\ tSend' = [tSend EXCEPT ![h] = "sending"]
  /\ firstPay' = [firstPay EXCEPT ![h] = "inflight"]
  /\ UNCHANGED <<packets, firstInv, secondInv, secondPay, tUp, tDrawn, tDeals, tDeal,
                 tBegin, tResolve, tTimers, tRow, tSub, tCancel, tRecover>>

\* handleSwapAccepted throws before the payment is sent; nobody catches it.
TakerSaveSendingRejected(h) ==
  /\ IsRejected(tSaves[h], "sending")
  /\ tStops /\ UNCHANGED netVars

TakerSavedLater(h) ==
  \E tag \in {"received", "failed"} :
    /\ IsNextWrite(tSaves[h], tag)
    /\ tWriteRow(h, tag)
    /\ tSaves' = [tSaves EXCEPT ![h][tag] = NoSave]
    /\ UNCHANGED <<netVars, tUp, tDrawn, tDeal, tBegin, tSend, tResolve, tTimers, tSub,
                   tCancel, tRecover>>

\* A rejection that is only logged,
TakerSaveLaterRejected(h) ==
  /\ IsRejected(tSaves[h], "failed")
  /\ tSaves' = [tSaves EXCEPT ![h]["failed"] = NoSave]
  /\ UNCHANGED <<netVars, tUp, tDrawn, tDeals, tDeal, tBegin, tSend, tResolve, tTimers,
                 tRow, tSub, tCancel, tRecover>>

\* and those that nobody handles: of the last save, which handleHtlcAccepted
\* awaits, and of the query for a deal that handleSwapFailed does not know.
TakerAborts(h) ==
  /\ \/ IsRejected(tSaves[h], "received")
     \/ "db" \in Faults /\ Packet("SwapFailed", "taker", h) \in packets /\ h \notin tDeals
  /\ tStops /\ UNCHANGED netVars

\* sendPayment returns the taker's own preimage: nothing more to do.
TakerPaymentSent(h) ==
  /\ tSend[h] = "sending" /\ firstPay[h] = "succeeded"
  /\ tSend' = [tSend EXCEPT ![h] = "done"]
  /\ UNCHANGED <<netVars, tUp, tDrawn, tDeals, tDeal, tBegin, tResolve, tTimers, tSaves,
                 tRow, tSub, tCancel, tRecover>>

\* sendPayment throws, its outcome final or unknown: the deal fails unless it
\* has completed.  A rejection by the maker's node is not reported to it.
TakerSendPaymentThrows(h) ==
  /\ tSend[h] = "sending"
  /\ firstPay[h] \in {"none", "failed"} \/ "client" \in Faults
  /\ \E tellPeer \in BOOLEAN : tFailDeal(h, tSaves[h], tellPeer)
  /\ tSend' = [tSend EXCEPT ![h] = "done"]
  /\ UNCHANGED <<legs, tUp, tDrawn, tDeals, tBegin, tResolve, tRow, tSub, tRecover>>

-----------------------------------------------------------------------------
(* Swaps.handleHtlcAccepted *)

tHtlcReported(h) == secondInv[h] = "accepted" /\ h \in tSub /\ tResolve[h] = "idle"

\* No deal, a failed deal, or a maker that is not connected any more.
TakerIgnoresHtlc(h) ==
  /\ tHtlcReported(h)
  /\ h \notin tDeals \/ tDeal[h].state = "Error" \/ "peer" \in Faults
  /\ tResolve' = [tResolve EXCEPT ![h] = "done"]
  /\ UNCHANGED <<netVars, tUp, tDrawn, tDeals, tDeal, tBegin, tSend, tTimers, tSaves,
                 tRow, tSub, tCancel, tRecover>>

\* resolveHash has the preimage at hand, and settleInvoice is called with it.
TakerReleasesPreimage(h) ==
  /\ tHtlcReported(h)
  /\ h \in tDeals /\ tDeal[h].state = "Active"
  /\ tResolve' = [tResolve EXCEPT ![h] = "settling"]
  /\ UNCHANGED <<netVars, tUp, tDrawn, tDeals, tDeal, tBegin, tSend, tTimers, tSaves,
                 tRow, tSub, tCancel, tRecover>>

\* Mutant: the preimage is released before an HTLC is held.
TakerInvoiceSettlesOpen(h) ==
  /\ h \in tDeals /\ secondInv[h] = "open"
  /\ secondInv' = [secondInv EXCEPT ![h] = "settled"]
  /\ UNCHANGED <<packets, firstInv, firstPay, secondPay, tVars>>

\* LND carries out the settleInvoice call.
TakerInvoiceSettles(h) ==
  /\ tResolve[h] = "settling" /\ secondInv[h] = "accepted"
  /\ secondInv' = [secondInv EXCEPT ![h] = "settled"]
  /\ UNCHANGED <<packets, firstInv, firstPay, secondPay, tVars>>

\* settleInvoice returns: setDealPhase(PaymentReceived).  For a deal that
\* failed since, nobody catches what it throws.
TakerCompletes(h) ==
  /\ tResolve[h] = "settling" /\ secondInv[h] = "settled"
  /\ IF tDeal[h].state = "Active"
     THEN /\ tDeal' = [tDeal EXCEPT ![h] = [phase |-> "PaymentReceived", state |-> "Completed"]]
          /\ tTimers' = tTimers \ {h}
          /\ tSaves' = [tSaves EXCEPT ![h]["received"] = Issued]
          /\ tResolve' = [tResolve EXCEPT ![h] = "done"]
          /\ tSub' = tSub \ {h}
          /\ UNCHANGED <<tUp, tDrawn, tDeals, tBegin, tSend, tRow, tCancel, tRecover>>
     ELSE tStops
  /\ UNCHANGED netVars

\* Mutant: the error of settleInvoice is ignored.
TakerSettleIgnored(h) ==
  /\ tResolve[h] = "settling" /\ tDeal[h].state = "Active"
  /\ tDeal' = [tDeal EXCEPT ![h] = [phase |-> "PaymentReceived", state |-> "Completed"]]
  /\ tTimers' = tTimers \ {h}
  /\ tSaves' = [tSaves EXCEPT ![h]["received"] = Issued]
  /\ tResolve' = [tResolve EXCEPT ![h] = "done"]
  /\ UNCHANGED <<netVars, tUp, tDrawn, tDeals, tBegin, tSend, tRow, tSub, tCancel, tRecover>>

\* settleInvoice throws, its call carried out or not: the deal fails.
TakerSettleThrows(h) ==
  /\ tResolve[h] = "settling"
  /\ secondInv[h] \notin {"accepted", "settled"} \/ "client" \in Faults
  /\ tFailDeal(h, tSaves[h], FALSE)
  /\ tResolve' = [tResolve EXCEPT ![h] = "done"]
  /\ UNCHANGED <<legs, tUp, tDrawn, tDeals, tBegin, tSend, tRow, tSub, tRecover>>

-----------------------------------------------------------------------------
(* Timeouts, packets, and what LND does on its own *)

\* Swaps.handleSwapTimeout, of the accept timer or of the swap timer.
TakerTimesOut(h) ==
  /\ h \in tTimers
  /\ tFailDeal(h, tSaves[h], TRUE)
  /\ UNCHANGED <<legs, tUp, tDrawn, tDeals, tBegin, tSend, tResolve, tRow, tSub, tRecover>>

\* Swaps.handleSwapFailed
TakerHandlesSwapFailed(h) ==
  /\ Packet("SwapFailed", "taker", h) \in packets
  /\ h \in tDeals /\ tDeal[h].phase # "PaymentReceived"
  /\ tFailDeal(h, tSaves[h], FALSE)
  /\ UNCHANGED <<legs, tUp, tDrawn, tDeals, tBegin, tSend, tResolve, tRow, tSub, tRecover>>

TakerInvoiceCancels(h) ==
  /\ h \in tCancel
  /\ tCancel' = tCancel \ {h}
  /\ \/ /\ secondInv[h] \in {"open", "accepted"}
        /\ secondInv' = [secondInv EXCEPT ![h] = "canceled"]
        /\ tSub' = tSub \ {h}
     \/ /\ secondInv[h] \notin {"open", "accepted"} \/ "client" \in Faults
        /\ UNCHANGED <<secondInv, tSub>>
  /\ UNCHANGED <<packets, firstInv, firstPay, secondPay, tUp, tDrawn, tDeals, tDeal,
                 tBegin, tSend, tResolve, tTimers, tSaves, tRow, tRecover>>

TakerLosesSubscription(h) ==
  /\ "client" \in Faults /\ h \in tSub
  /\ tSub' = tSub \ {h}
  /\ UNCHANGED <<netVars, tUp, tDrawn, tDeals, tDeal, tBegin, tSend, tResolve, tTimers,
                 tSaves, tRow, tCancel, tRecover>>

-----------------------------------------------------------------------------
(* A stop of the process, Swaps.init, and SwapRecovery *)

TakerCrashes ==
  /\ "crash" \in Faults /\ tUp
  /\ tStops /\ UNCHANGED netVars

\* Active deals are recovered.  checkPaymentStatus finds a preimage in a
\* taker's row and turns to claimPayment, which asks the client of
\* makerCurrency to settle an invoice that only the maker has: the call
\* throws, now and at every check, and the deal stays pending.
TakerRestarts ==
  /\ ~tUp
  /\ tUp' = TRUE
  /\ tRecover' = {h \in Hashes : tRow[h].state = "Active" /\ tRow[h].phase = "SendingPayment"}
  /\ UNCHANGED <<netVars, tDrawn, tDeals, tDeal, tBegin, tSend, tResolve, tTimers, tSaves,
                 tRow, tSub, tCancel>>

-----------------------------------------------------------------------------
TakerSaves(h) ==
  \/ TakerCopiesDeal(h)
  \/ TakerSavedSending(h) \/ TakerSaveSendingRejected(h)
  \/ TakerSavedLater(h)   \/ TakerSaveLaterRejected(h) \/ TakerAborts(h)

TakerSwaps(h) ==
  \/ TakerBegins(h) \/ TakerCannotBegin(h) \/ TakerRequested(h)
  \/ TakerHandlesSwapAccepted(h) \/ TakerRefusesQuantity(h) \/ TakerCannotAddInvoice(h) \/ TakerAddsInvoice(h)
  \/ TakerPaymentSent(h) \/ TakerSendPaymentThrows(h) \/ TakerIgnoresHtlc(h)
  \/ TakerReleasesPreimage(h) \/ TakerInvoiceSettles(h) \/ TakerCompletes(h)
  \/ TakerSettleThrows(h) \/ TakerTimesOut(h) \/ TakerHandlesSwapFailed(h)
  \/ TakerInvoiceCancels(h) \/ TakerLosesSubscription(h)

TakerNext ==
  \/ \E h \in Hashes : tUp /\ (TakerSwaps(h) \/ TakerSaves(h))
  \/ TakerCrashes
  \/ TakerRestarts

(***************************************************************************)
(* Any counterparty: it may send any packet and pay the taker's invoice at *)
(* any time, and do what it likes with its own invoice, except to settle   *)
(* it without the preimage, which it learns by a payment that succeeded.   *)
(***************************************************************************)
AnyMaker(h) ==
  /\ \/ UNCHANGED packets
     \/ \E type \in {"SwapAccepted", "BadAcceptance", "SwapFailed"} : sendPacket(type, "taker", h)
  /\ \/ UNCHANGED secondPay
     \/ secondPay[h] = "none" /\ secondPay' = [secondPay EXCEPT ![h] = "inflight"]
  /\ \/ UNCHANGED firstInv
     \/ firstInv[h] = "none" /\ firstInv' = [firstInv EXCEPT ![h] = "open"]
     \/ /\ firstInv[h] = "accepted" /\ secondPay[h] = "succeeded"
        /\ firstInv' = [firstInv EXCEPT ![h] = "settled"]
     \/ firstInv[h] \in {"open", "accepted"} /\ firstInv' = [firstInv EXCEPT ![h] = "canceled"]
  /\ UNCHANGED <<firstPay, secondInv>>

TakerEnv(h) == (AnyMaker(h) \/ Network(h) \/ SecondHtlcExpires(h)) /\ UNCHANGED tVars

TakerVars == <<netVars, tVars>>
TakerWorld == TakerNext \/ \E h \in Hashes : TakerEnv(h)
TakerWorldInit == NetInit /\ TakerInit
TakerSpec == TakerWorldInit /\ [][TakerWorld]_TakerVars

(***************************************************************************)
(* A stopped taker is started again; while it runs, what it awaits ends,   *)
(* with a result or an error, and its timers fire.                         *)
(***************************************************************************)
TakerFairness ==
  /\ WF_TakerVars(TakerRestarts)
  /\ \A h \in Hashes :
       /\ WF_TakerVars(tUp /\ TakerRequested(h))
       /\ WF_TakerVars(tUp /\ (TakerAddsInvoice(h) \/ TakerCannotAddInvoice(h)))
       /\ WF_TakerVars(tUp /\ TakerTimesOut(h))

TakerFairSpec == TakerSpec /\ TakerFairness

-----------------------------------------------------------------------------
(* What the taker's side promises, whatever the maker does *)

(***************************************************************************)
(* A deal that memory or the database calls completed has been paid for.   *)
(***************************************************************************)
TakerSuccessIsReal ==
  \A h \in Hashes :
    tDeal[h].state = "Completed" \/ tRow[h].state = "Completed" => secondInv[h] = "settled"

(***************************************************************************)
(* A payment was only ever made for a deal whose row says so ("persist the *)
(* deal to the database before we attempt to send").                       *)
(***************************************************************************)
TakerWritesAhead ==
  \A h \in Hashes :
    firstPay[h] # "none" => tRow[h].phase \in {"SendingPayment", "PaymentReceived"}

(***************************************************************************)
(* A timer that is running belongs to an active deal in the map, so that   *)
(* handleSwapTimeout finds the deal it looks up with getDeal(rHash)!  And  *)
(* an active deal has one, unless a request is being written or an invoice *)
(* is being added for it: no other await is without a limit of time.       *)
(***************************************************************************)
TakerTimersMatchDeals ==
  \A h \in Hashes :
    /\ h \in tTimers => h \in tDeals /\ tDeal[h].state = "Active"
    /\ tDeal[h].state = "Active" => h \in tTimers \/ h \in tBegin \/ tSend[h] = "invoice"

(***************************************************************************)
(* No deal stays active for ever, so that executeSwap answers and the hold *)
(* on the taker's order is released: one timer or the other fails it,      *)
(* whatever the maker sends or keeps back.                                 *)
(***************************************************************************)
TakerSwapsEnd ==
  \A h \in Hashes : tDeal[h].state = "Active" ~> tDeal[h].state # "Active"

(***************************************************************************)
(* handleSwapTimeout: "if we are the taker, we control the preimage and    *)
(* can decisively fail the deal and swap".                                 *)
(***************************************************************************)
TakerFailureIsDecisive ==
  \A h \in Hashes : tDeal[h].state = "Error" => secondInv[h] # "settled"

(***************************************************************************)
(* checkPaymentStatus: "we are not at risk of losing funds, but we should  *)
(* cancel any open invoices"; a test has it fail the taker's deal.         *)
(***************************************************************************)
TakerRecoveryEnds == \A h \in Hashes : h \in tRecover ~> tRow[h].state # "Active"
=============================================================================
