-------------------------------- MODULE Maker --------------------------------
(***************************************************************************)
(* The maker's side of a swap: acceptDeal, handleHtlcAccepted and          *)
(* resolveHash of lib/swaps/Swaps.ts, the swap deals it keeps in memory    *)
(* and in the database, its swap timer, the hold invoice it opens through  *)
(* LndClient, and SwapRecovery after a restart.  Each await of the code is *)
(* a point where other steps may come in between.                          *)
(***************************************************************************)
EXTENDS SwapNet

VARIABLES
  mUp,      \* whether the process runs
  mUsed,    \* Swaps.usedHashes
  mDeals,   \* the hashes in Swaps.deals
  mDeal,    \* phase and state of the deal object, which handlers still hold
            \* after it has left the map
  mAccept,  \* what acceptDeal awaits
  mResolve, \* what handleHtlcAccepted and resolveHash await
  mTimers,  \* Swaps.timeouts
  mSaves,   \* saveSwapDeal calls not finished yet
  mRow,     \* the deal's row of the swapdeals table
  mSub,     \* LndClient.invoiceSubscriptions
  mCancel,  \* cancelInvoice calls in flight
  mRecover  \* SwapRecovery: how far it is with a deal

mVars == <<mUp, mUsed, mDeals, mDeal, mAccept, mResolve, mTimers, mSaves,
           mRow, mSub, mCancel, mRecover>>

AcceptStates == {"idle", "route", "invoice", "saving"}
ResolveStates == {"idle", "saving", "sending", "lookup", "monitor",
                  "settling", "retry", "done"}
RecoverStates == {"none", "canceling", "pending", "known", "claiming", "done"}

\* A maker is never in SwapRequested, and saves no deal before SwapAccepted.
MakerDeals == {deal \in Deals : deal.phase # "SwapRequested"}
MakerRows == {row \in Rows : row.phase \notin {"SwapCreated", "SwapRequested"}}

MakerTypeOK ==
  /\ NetTypeOK
  /\ mUp \in BOOLEAN
  /\ mUsed \subseteq Hashes /\ mDeals \subseteq Hashes /\ mTimers \subseteq Hashes
  /\ mSub \subseteq Hashes /\ mCancel \subseteq Hashes
  /\ mDeal \in [Hashes -> MakerDeals] /\ mRow \in [Hashes -> MakerRows]
  /\ mAccept \in [Hashes -> AcceptStates]
  /\ mResolve \in [Hashes -> ResolveStates]
  /\ mRecover \in [Hashes -> RecoverStates]
  /\ mSaves \in [Hashes -> [SaveTags -> Saves]]

MakerInit ==
  /\ mUp = TRUE
  /\ mUsed = {} /\ mDeals = {} /\ mTimers = {} /\ mSub = {} /\ mCancel = {}
  /\ mDeal = [h \in Hashes |-> NoDeal] /\ mRow = [h \in Hashes |-> NoRow]
  /\ mAccept = [h \in Hashes |-> "idle"]
  /\ mResolve = [h \in Hashes |-> "idle"]
  /\ mRecover = [h \in Hashes |-> "none"]
  /\ mSaves = [h \in Hashes |-> NoSaves]

-----------------------------------------------------------------------------
\* The process stops: memory is lost, the row stays.  It does so as well when
\* a promise is rejected that nobody handles (bootstrap.ts).
mStops ==
  /\ mUp' = FALSE
  /\ mUsed' = {} /\ mDeals' = {} /\ mTimers' = {} /\ mSub' = {} /\ mCancel' = {}
  /\ mDeal' = [h \in Hashes |-> NoDeal]
  /\ mAccept' = [h \in Hashes |-> "idle"]
  /\ mResolve' = [h \in Hashes |-> "idle"]
  /\ mRecover' = [h \in Hashes |-> "none"]
  /\ mSaves' = [h \in Hashes |-> NoSaves]
  /\ UNCHANGED <<netVars, mRow>>

\* LndClient.removeInvoice asks LND to cancel the invoice, without waiting
\* for it, and does nothing when there is no subscription for the invoice.
mRemoveInvoice(h) == mCancel' = IF h \in mSub THEN mCancel \cup {h} ELSE mCancel

\* Swaps.failDeal, with `pending' the saves of h that are still to complete.
\* A deal that has completed or failed already is left as it is.
mFailDeal(h, pending, tellPeer) ==
  IF mDeal[h].state = "Active"
  THEN /\ mDeal' = [mDeal EXCEPT ![h].state = "Error"]
       /\ mSaves' = [mSaves EXCEPT ![h] =
            IF Persisted(mDeal[h].phase) THEN [pending EXCEPT !["failed"] = Issued] ELSE pending]
       /\ mTimers' = mTimers \ {h}
       /\ IF mDeal[h].phase \in {"SwapAccepted", "SendingPayment"}
          THEN mRemoveInvoice(h) ELSE UNCHANGED mCancel
       /\ IF tellPeer THEN sendPacket("SwapFailed", "taker", h) ELSE UNCHANGED packets
  ELSE /\ mSaves' = [mSaves EXCEPT ![h] = pending]
       /\ UNCHANGED <<mDeal, mTimers, mCancel, packets>>

\* The preimage is part of the deal once it is in PreimageResolved.
mRowOf(deal) ==
  [phase |-> deal.phase, state |-> deal.state,
   preimage |-> deal.phase \in {"PreimageResolved", "PaymentReceived"}]

\* Mutant: persistDeal forgets active deals as well.
mWriteRowForgets(h, tag) ==
  /\ mRow' = [mRow EXCEPT ![h] = mRowOf(mSaves[h][tag].deal)]
  /\ mDeals' = mDeals \ {h}

\* SwapRepository.saveSwapDeal has written its copy of the deal, and
\* persistDeal takes a deal that is no longer active out of the map.
mWriteRow(h, tag) ==
  /\ mRow' = [mRow EXCEPT ![h] = mRowOf(mSaves[h][tag].deal)]
  /\ mDeals' = IF mDeal[h].state = "Active" THEN mDeals ELSE mDeals \ {h}

\* A saveSwapDeal call has found the peer's node, and copies the deal.
MakerCopiesDeal(h) ==
  \E tag \in SaveTags :
    /\ IsNextRead(mSaves[h], tag)
    /\ mSaves' = [mSaves EXCEPT ![h][tag] = Read(mDeal[h])]
    /\ UNCHANGED <<netVars, mUp, mUsed, mDeals, mDeal, mAccept, mResolve, mTimers, mRow, mSub,
                   mCancel, mRecover>>

-----------------------------------------------------------------------------
(* Swaps.acceptDeal *)

\* The hash was used before, or a swap client is missing or inactive.
MakerRejects(h) ==
  /\ Packet("SwapRequest", "maker", h) \in packets
  /\ h \in mUsed \/ "client" \in Faults
  /\ sendPacket("SwapFailed", "taker", h)
  /\ UNCHANGED <<legs, mVars>>

\* addDeal; the route to the taker and the block height are asked for next.
MakerAddsDeal(h) ==
  /\ Packet("SwapRequest", "maker", h) \in packets
  /\ h \notin mUsed
  /\ mDeals' = mDeals \cup {h}
  /\ mUsed' = mUsed \cup {h}
  /\ mDeal' = [mDeal EXCEPT ![h] = [phase |-> "SwapCreated", state |-> "Active"]]
  /\ mAccept' = [mAccept EXCEPT ![h] = "route"]
  /\ UNCHANGED <<netVars, mUp, mResolve, mTimers, mSaves, mRow, mSub, mCancel, mRecover>>

MakerFindsRoute(h) ==
  /\ mAccept[h] = "route"
  /\ mAccept' = [mAccept EXCEPT ![h] = "invoice"]
  /\ UNCHANGED <<netVars, mUp, mUsed, mDeals, mDeal, mResolve, mTimers, mSaves,
                 mRow, mSub, mCancel, mRecover>>

\* No route, no balance, no block height; or the invoice could not be added,
\* which is certain for a hash that LND has an invoice for.
MakerCannotAccept(h) ==
  /\ \/ mAccept[h] = "route"
     \/ mAccept[h] = "invoice" /\ (firstInv[h] # "none" \/ "client" \in Faults)
  /\ mFailDeal(h, mSaves[h], TRUE)
  /\ mAccept' = [mAccept EXCEPT ![h] = "idle"]
  /\ UNCHANGED <<legs, mUp, mUsed, mDeals, mResolve, mRow, mSub, mRecover>>

\* The invoice is there: setDealPhase(SwapAccepted) starts the swap timer and
\* a save, and the packet is sent while that save is under way.  It is sent
\* as well when the deal failed in the meantime and its phase cannot be set.
MakerAccepts(h) ==
  /\ mAccept[h] = "invoice" /\ firstInv[h] = "none"
  /\ firstInv' = [firstInv EXCEPT ![h] = "open"]
  /\ mSub' = mSub \cup {h}
  /\ sendPacket("SwapAccepted", "taker", h)
  /\ IF mDeal[h].state = "Active"
     THEN /\ mDeal' = [mDeal EXCEPT ![h].phase = "SwapAccepted"]
          /\ mTimers' = mTimers \cup {h}
          /\ mSaves' = [mSaves EXCEPT ![h]["accepted"] = Issued]
          /\ mAccept' = [mAccept EXCEPT ![h] = "saving"]
     ELSE /\ mAccept' = [mAccept EXCEPT ![h] = "idle"]
          /\ UNCHANGED <<mDeal, mTimers, mSaves>>
  /\ UNCHANGED <<firstPay, secondInv, secondPay, mUp, mUsed, mDeals, mResolve, mRow,
                 mCancel, mRecover>>

MakerSavedAccepted(h) ==
  /\ IsNextWrite(mSaves[h], "accepted")
  /\ mWriteRow(h, "accepted")
  /\ mSaves' = [mSaves EXCEPT ![h]["accepted"] = NoSave]
  /\ mAccept' = [mAccept EXCEPT ![h] = "idle"]
  /\ UNCHANGED <<netVars, mUp, mUsed, mDeal, mResolve, mTimers, mSub, mCancel, mRecover>>

\* The catch around Promise.all: the deal could not be saved, so it fails,
\* whatever phase it has reached by now.
MakerSaveAcceptedRejected(h) ==
  /\ IsRejected(mSaves[h], "accepted")
  /\ mFailDeal(h, [mSaves[h] EXCEPT !["accepted"] = NoSave], TRUE)
  /\ mAccept' = [mAccept EXCEPT ![h] = "idle"]
  /\ UNCHANGED <<legs, mUp, mUsed, mDeals, mResolve, mRow, mSub, mRecover>>

-----------------------------------------------------------------------------
(* Swaps.handleHtlcAccepted and Swaps.resolveHash *)

\* LND reports an HTLC for an invoice the client is subscribed to.
mHtlcReported(h) == firstInv[h] = "accepted" /\ h \in mSub /\ mResolve[h] = "idle"

\* No deal, a failed deal, or a taker that is not connected any more.
MakerIgnoresHtlc(h) ==
  /\ mHtlcReported(h)
  /\ h \notin mDeals \/ mDeal[h].state = "Error" \/ "peer" \in Faults
  /\ mResolve' = [mResolve EXCEPT ![h] = "done"]
  /\ UNCHANGED <<netVars, mUp, mUsed, mDeals, mDeal, mAccept, mTimers, mSaves, mRow,
                 mSub, mCancel, mRecover>>

\* setDealPhase(SendingPayment), whose save must finish before the payment.
MakerStartsPayment(h) ==
  /\ mHtlcReported(h)
  /\ h \in mDeals /\ mDeal[h] = [phase |-> "SwapAccepted", state |-> "Active"]
  /\ mDeal' = [mDeal EXCEPT ![h].phase = "SendingPayment"]
  /\ mSaves' = [mSaves EXCEPT ![h]["sending"] = Issued]
  /\ mResolve' = [mResolve EXCEPT ![h] = "saving"]
  /\ UNCHANGED <<netVars, mUp, mUsed, mDeals, mAccept, mTimers, mRow, mSub, mCancel,
                 mRecover>>

\* Mutant: the deal is not checked again after the save.
MakerSavedSendingUnchecked(h) ==
  /\ IsNextWrite(mSaves[h], "sending")
  /\ mWriteRow(h, "sending")
  /\ mSaves' = [mSaves EXCEPT ![h]["sending"] = NoSave]
  /\ mResolve' = [mResolve EXCEPT ![h] = "sending"]
  /\ secondPay' = [secondPay EXCEPT ![h] = "inflight"]
  /\ UNCHANGED <<packets, firstInv, firstPay, secondInv, mUp, mUsed, mDeal, mAccept,
                 mTimers, mSub, mCancel, mRecover>>

\* The deal is saved in SendingPayment.  Unless it failed meanwhile, the
\* payment is handed to LND, or refused at once by a client that is not
\* connected.
MakerSavedSending(h) ==
  /\ IsNextWrite(mSaves[h], "sending")
  /\ mWriteRow(h, "sending")
  /\ mSaves' = [mSaves EXCEPT ![h]["sending"] = NoSave]
  /\ IF mDeal[h].state = "Error"
     THEN /\ mResolve' = [mResolve EXCEPT ![h] = "done"]
          /\ UNCHANGED secondPay
     ELSE /\ mResolve' = [mResolve EXCEPT ![h] = "sending"]
          /\ \/ secondPay' = [secondPay EXCEPT ![h] = "inflight"]
             \/ "client" \in Faults /\ UNCHANGED secondPay
  /\ UNCHANGED <<packets, firstInv, firstPay, secondInv, mUp, mUsed, mDeal, mAccept,
                 mTimers, mSub, mCancel, mRecover>>

\* Mutant: the payment is sent although the save was rejected.
MakerSaveSendingIgnored(h) ==
  /\ IsRejected(mSaves[h], "sending")
  /\ mSaves' = [mSaves EXCEPT ![h]["sending"] = NoSave]
  /\ mResolve' = [mResolve EXCEPT ![h] = "sending"]
  /\ secondPay' = [secondPay EXCEPT ![h] = "inflight"]
  /\ UNCHANGED <<packets, firstInv, firstPay, secondInv, mUp, mUsed, mDeals, mDeal,
                 mAccept, mTimers, mRow, mSub, mCancel, mRecover>>

\* resolveHash rejects before anything is sent; the deal stays active.
MakerSaveSendingRejected(h) ==
  /\ IsRejected(mSaves[h], "sending")
  /\ mSaves' = [mSaves EXCEPT ![h]["sending"] = NoSave]
  /\ mResolve' = [mResolve EXCEPT ![h] = "done"]
  /\ UNCHANGED <<netVars, mUp, mUsed, mDeals, mDeal, mAccept, mTimers, mRow, mSub,
                 mCancel, mRecover>>

\* A save nobody acts upon when it is finished.
MakerSavedLater(h) ==
  \E tag \in {"resolved", "received", "failed"} :
    /\ IsNextWrite(mSaves[h], tag)
    /\ mWriteRow(h, tag)
    /\ mSaves' = [mSaves EXCEPT ![h][tag] = NoSave]
    /\ UNCHANGED <<netVars, mUp, mUsed, mDeal, mAccept, mResolve, mTimers, mSub, mCancel,
                   mRecover>>

\* Rejections that are only logged,
MakerSaveLaterRejected(h) ==
  \E tag \in {"resolved", "failed"} :
    /\ IsRejected(mSaves[h], tag)
    /\ mSaves' = [mSaves EXCEPT ![h][tag] = NoSave]
    /\ UNCHANGED <<netVars, mUp, mUsed, mDeals, mDeal, mAccept, mResolve, mTimers, mRow,
                   mSub, mCancel, mRecover>>

\* and those that nobody handles: of the last save, which handleHtlcAccepted
\* awaits, and of the query for a deal that handleSwapFailed does not know.
MakerAborts(h) ==
  /\ \/ IsRejected(mSaves[h], "received")
     \/ "db" \in Faults /\ Packet("SwapFailed", "maker", h) \in packets /\ h \notin mDeals
  /\ mStops

\* sendPayment throws: the payment has failed, was never made, or the stream
\* that would tell about it broke.  What has become of it is looked up next.
MakerSendPaymentThrows(h) ==
  /\ mResolve[h] = "sending"
  /\ secondPay[h] \in {"none", "failed"} \/ "client" \in Faults
  /\ mResolve' = [mResolve EXCEPT ![h] = "lookup"]
  /\ UNCHANGED <<netVars, mUp, mUsed, mDeals, mDeal, mAccept, mTimers, mSaves, mRow,
                 mSub, mCancel, mRecover>>

\* lookupPayment cannot tell yet: a timer will look again until it can.
MakerMonitorsPayment(h) ==
  /\ mResolve[h] = "lookup"
  /\ secondPay[h] = "inflight" \/ "client" \in Faults
  /\ mResolve' = [mResolve EXCEPT ![h] = "monitor"]
  /\ UNCHANGED <<netVars, mUp, mUsed, mDeals, mDeal, mAccept, mTimers, mSaves, mRow,
                 mSub, mCancel, mRecover>>

\* lookupPayment reports a final failure; one the taker's node rejected is
\* not reported back to the taker.
MakerPaymentFailed(h) ==
  /\ mResolve[h] \in {"lookup", "monitor"} /\ secondPay[h] \in {"none", "failed"}
  /\ \E tellPeer \in BOOLEAN : mFailDeal(h, mSaves[h], tellPeer)
  /\ mResolve' = [mResolve EXCEPT ![h] = "done"]
  /\ UNCHANGED <<legs, mUp, mUsed, mDeals, mAccept, mRow, mSub, mRecover>>

\* The preimage is known, from sendPayment or from a lookup.  The phase is
\* set without waiting for its save, and handleHtlcAccepted goes on to settle
\* the invoice if the deal is still active.
MakerResolvesPreimage(h) ==
  /\ mResolve[h] \in {"sending", "lookup", "monitor"} /\ secondPay[h] = "succeeded"
  /\ IF mDeal[h].state = "Active"
     THEN /\ mDeal' = [mDeal EXCEPT ![h].phase = "PreimageResolved"]
          /\ mTimers' = mTimers \ {h}
          /\ mSaves' = [mSaves EXCEPT ![h]["resolved"] = Issued]
          /\ mResolve' = [mResolve EXCEPT ![h] = "settling"]
     ELSE /\ mResolve' = [mResolve EXCEPT ![h] = "done"]
          /\ UNCHANGED <<mDeal, mTimers, mSaves>>
  /\ UNCHANGED <<netVars, mUp, mUsed, mDeals, mAccept, mRow, mSub, mCancel, mRecover>>

\* LND carries out a settleInvoice call of handleHtlcAccepted or of recovery.
MakerInvoiceSettles(h) ==
  /\ mResolve[h] \in {"settling", "retry"} \/ mRecover[h] = "claiming"
  /\ firstInv[h] = "accepted"
  /\ firstInv' = [firstInv EXCEPT ![h] = "settled"]
  /\ UNCHANGED <<packets, firstPay, secondInv, secondPay, mVars>>

\* settleInvoice returns: setDealPhase(PaymentReceived), whose assertion that
\* the deal is active nobody catches.
MakerCompletes(h) ==
  /\ mResolve[h] \in {"settling", "retry"} /\ firstInv[h] = "settled"
  /\ IF mDeal[h].state = "Active"
     THEN /\ mDeal' = [mDeal EXCEPT ![h] = [phase |-> "PaymentReceived", state |-> "Completed"]]
          /\ mSaves' = [mSaves EXCEPT ![h]["received"] = Issued]
          /\ mResolve' = [mResolve EXCEPT ![h] = "done"]
          /\ mSub' = mSub \ {h}
          /\ UNCHANGED <<netVars, mUp, mUsed, mDeals, mAccept, mTimers, mRow, mCancel, mRecover>>
     ELSE mStops

\* settleInvoice throws, its call carried out or not: retried for ever.
MakerSettleThrows(h) ==
  /\ mResolve[h] = "settling"
  /\ firstInv[h] \notin {"accepted", "settled"} \/ "client" \in Faults
  /\ mResolve' = [mResolve EXCEPT ![h] = "retry"]
  /\ UNCHANGED <<netVars, mUp, mUsed, mDeals, mDeal, mAccept, mTimers, mSaves, mRow,
                 mSub, mCancel, mRecover>>

-----------------------------------------------------------------------------
(* Timeouts, packets, and what LND does on its own *)

\* Mutant: the timeout fails the deal in any phase.
MakerTimesOutAnyway(h) ==
  /\ h \in mTimers
  /\ mFailDeal(h, mSaves[h], TRUE)
  /\ UNCHANGED <<legs, mUp, mUsed, mDeals, mAccept, mResolve, mRow, mSub, mRecover>>

\* Swaps.handleSwapTimeout: a deal whose payment is under way is not failed.
MakerTimesOut(h) ==
  /\ h \in mTimers
  /\ IF mDeal[h].phase \in {"SwapAccepted", "SwapRequested"}
     THEN mFailDeal(h, mSaves[h], TRUE)
     ELSE /\ sendPacket("SwapFailed", "taker", h)
          /\ mTimers' = mTimers \ {h}
          /\ UNCHANGED <<mDeal, mSaves, mCancel>>
  /\ UNCHANGED <<legs, mUp, mUsed, mDeals, mAccept, mResolve, mRow, mSub, mRecover>>

\* Mutant: the phase is not looked at.
MakerHandlesSwapFailedAnyway(h) ==
  /\ Packet("SwapFailed", "maker", h) \in packets
  /\ h \in mDeals
  /\ mFailDeal(h, mSaves[h], FALSE)
  /\ UNCHANGED <<legs, mUp, mUsed, mDeals, mAccept, mResolve, mRow, mSub, mRecover>>

\* Swaps.handleSwapFailed
MakerHandlesSwapFailed(h) ==
  /\ Packet("SwapFailed", "maker", h) \in packets
  /\ h \in mDeals
  /\ mDeal[h].phase \notin {"SendingPayment", "PreimageResolved", "PaymentReceived"}
  /\ mFailDeal(h, mSaves[h], FALSE)
  /\ UNCHANGED <<legs, mUp, mUsed, mDeals, mAccept, mResolve, mRow, mSub, mRecover>>

\* LND carries out a cancelInvoice call, or the call fails.
MakerInvoiceCancels(h) ==
  /\ h \in mCancel
  /\ mCancel' = mCancel \ {h}
  /\ \/ /\ firstInv[h] \in {"open", "accepted"}
        /\ firstInv' = [firstInv EXCEPT ![h] = "canceled"]
        /\ mSub' = mSub \ {h}
     \/ /\ firstInv[h] \notin {"open", "accepted"} \/ "client" \in Faults
        /\ UNCHANGED <<firstInv, mSub>>
  /\ UNCHANGED <<packets, firstPay, secondInv, secondPay, mUp, mUsed, mDeals, mDeal,
                 mAccept, mResolve, mTimers, mSaves, mRow, mRecover>>

\* The subscription's stream ends with an error.
MakerLosesSubscription(h) ==
  /\ "client" \in Faults /\ h \in mSub
  /\ mSub' = mSub \ {h}
  /\ UNCHANGED <<netVars, mUp, mUsed, mDeals, mDeal, mAccept, mResolve, mTimers, mSaves,
                 mRow, mCancel, mRecover>>

\* The incoming HTLC times out.  Its lock (makerCltvDelta, from
\* calculateLockBuffer) outlasts the maker's own payment and the time it
\* takes to make or to claim one.
FirstHtlcExpires(h) ==
  /\ firstInv[h] = "accepted" /\ secondPay[h] \in {"none", "failed"}
  /\ mResolve[h] # "saving"
  /\ firstInv' = [firstInv EXCEPT ![h] = "canceled"]
  /\ UNCHANGED <<packets, firstPay, secondInv, secondPay, mVars>>

-----------------------------------------------------------------------------
(* A stop of the process, Swaps.init, and SwapRecovery *)

MakerCrashes ==
  /\ "crash" \in Faults /\ mUp
  /\ mStops

\* Mutants: a payment that was begun is taken to have failed, or to have
\* succeeded; or it is not recovered at all.
mRecoverAs(verdict, row) ==
  CASE row.state = "Active" /\ row.phase = "SwapAccepted" -> "canceling"
    [] row.state = "Active" /\ row.phase = "SendingPayment" -> verdict
    [] row.state = "Active" /\ row.phase = "PreimageResolved" -> "known"
    [] OTHER -> "none"
mRecoverByFailing(row) == mRecoverAs("canceling", row)
mRecoverByClaiming(row) == mRecoverAs("known", row)
mRecoverResolved(row) == mRecoverAs("none", row)

\* Swaps.init marks the hashes of all rows as used and recovers active deals.
mRecoverDeal(row) ==
  CASE row.state = "Active" /\ row.phase = "SwapAccepted" -> "canceling"
    [] row.state = "Active" /\ row.phase \in {"SendingPayment", "PreimageResolved"} ->
         IF row.preimage THEN "known" ELSE "pending"
    [] OTHER -> "none"

MakerRestarts ==
  /\ ~mUp
  /\ mUp' = TRUE
  /\ mUsed' = {h \in Hashes : mRow[h].phase # "None"}
  /\ mRecover' = [h \in Hashes |-> mRecoverDeal(mRow[h])]
  /\ UNCHANGED <<netVars, mDeals, mDeal, mAccept, mResolve, mTimers, mSaves, mRow, mSub,
                 mCancel>>

\* SwapRecovery.checkPaymentStatus for a maker, now and every five minutes.
MakerRecoveryLooksUp(h) ==
  /\ mRecover[h] = "pending"
  /\ \/ /\ secondPay[h] = "succeeded"
        /\ mRecover' = [mRecover EXCEPT ![h] = "known"]
        /\ \/ mRow' = [mRow EXCEPT ![h].preimage = TRUE]
           \/ "db" \in Faults /\ UNCHANGED mRow
     \/ /\ secondPay[h] \in {"none", "failed"}
        /\ mRecover' = [mRecover EXCEPT ![h] = "canceling"]
        /\ UNCHANGED mRow
  /\ UNCHANGED <<netVars, mUp, mUsed, mDeals, mDeal, mAccept, mResolve, mTimers, mSaves,
                 mSub, mCancel>>

\* SwapRecovery.failDeal
MakerRecoveryFails(h) ==
  /\ mRecover[h] = "canceling"
  /\ mRemoveInvoice(h)
  /\ mRecover' = [mRecover EXCEPT ![h] = "done"]
  /\ \/ mRow' = [mRow EXCEPT ![h].state = "Error"]
     \/ "db" \in Faults /\ UNCHANGED mRow
  /\ UNCHANGED <<netVars, mUp, mUsed, mDeals, mDeal, mAccept, mResolve, mTimers, mSaves,
                 mSub>>

\* SwapRecovery.claimPayment asks LND to settle, if the client is connected,
MakerRecoveryClaims(h) ==
  /\ mRecover[h] = "known"
  /\ mRecover' = [mRecover EXCEPT ![h] = "claiming"]
  /\ UNCHANGED <<netVars, mUp, mUsed, mDeals, mDeal, mAccept, mResolve, mTimers, mSaves,
                 mRow, mSub, mCancel>>

\* Mutant: the deal is taken to be recovered before LND has answered.
MakerRecoversEarly(h) ==
  /\ mRecover[h] = "claiming"
  /\ mRecover' = [mRecover EXCEPT ![h] = "done"]
  /\ mRow' = [mRow EXCEPT ![h].state = "Recovered"]
  /\ UNCHANGED <<netVars, mUp, mUsed, mDeals, mDeal, mAccept, mResolve, mTimers, mSaves,
                 mSub, mCancel>>

\* and the deal is recovered when that succeeds,
MakerRecovers(h) ==
  /\ mRecover[h] = "claiming" /\ firstInv[h] = "settled"
  /\ mRecover' = [mRecover EXCEPT ![h] = "done"]
  /\ \/ mRow' = [mRow EXCEPT ![h].state = "Recovered"]
     \/ "db" \in Faults /\ UNCHANGED mRow
  /\ UNCHANGED <<netVars, mUp, mUsed, mDeals, mDeal, mAccept, mResolve, mTimers, mSaves,
                 mSub, mCancel>>

\* and stays pending when it fails, as it does for a settled invoice.
MakerClaimThrows(h) ==
  /\ mRecover[h] = "claiming"
  /\ firstInv[h] # "accepted" \/ "client" \in Faults
  /\ mRecover' = [mRecover EXCEPT ![h] = "known"]
  /\ UNCHANGED <<netVars, mUp, mUsed, mDeals, mDeal, mAccept, mResolve, mTimers, mSaves,
                 mRow, mSub, mCancel>>

-----------------------------------------------------------------------------
MakerSaves(h) ==
  \/ MakerCopiesDeal(h)
  \/ MakerSavedAccepted(h) \/ MakerSaveAcceptedRejected(h)
  \/ MakerSavedSending(h)  \/ MakerSaveSendingRejected(h)
  \/ MakerSavedLater(h)    \/ MakerSaveLaterRejected(h) \/ MakerAborts(h)

MakerSwaps(h) ==
  \/ MakerRejects(h) \/ MakerAddsDeal(h) \/ MakerFindsRoute(h) \/ MakerCannotAccept(h)
  \/ MakerAccepts(h) \/ MakerIgnoresHtlc(h) \/ MakerStartsPayment(h)
  \/ MakerSendPaymentThrows(h) \/ MakerMonitorsPayment(h) \/ MakerPaymentFailed(h)
  \/ MakerResolvesPreimage(h) \/ MakerInvoiceSettles(h) \/ MakerCompletes(h)
  \/ MakerSettleThrows(h) \/ MakerTimesOut(h) \/ MakerHandlesSwapFailed(h)
  \/ MakerInvoiceCancels(h) \/ MakerLosesSubscription(h)

MakerRecovery(h) ==
  \/ MakerRecoveryLooksUp(h) \/ MakerRecoveryFails(h) \/ MakerRecoveryClaims(h)
  \/ MakerRecovers(h) \/ MakerClaimThrows(h)

MakerNext ==
  \/ \E h \in Hashes : mUp /\ (MakerSwaps(h) \/ MakerSaves(h) \/ MakerRecovery(h))
  \/ MakerCrashes
  \/ MakerRestarts

(***************************************************************************)
(* Any counterparty: it may send any packet at any time, pay the maker's   *)
(* invoice or not, open, settle and cancel its own invoice as it likes.    *)
(***************************************************************************)
AnyTaker(h) ==
  /\ \/ UNCHANGED packets
     \/ \E type \in {"SwapRequest", "SwapFailed"} : sendPacket(type, "maker", h)
  /\ \/ UNCHANGED firstPay
     \/ firstPay[h] = "none" /\ firstPay' = [firstPay EXCEPT ![h] = "inflight"]
  /\ \/ UNCHANGED secondInv
     \/ secondInv[h] = "none" /\ secondInv' = [secondInv EXCEPT ![h] = "open"]
     \/ secondInv[h] = "accepted" /\ secondInv' = [secondInv EXCEPT ![h] = "settled"]
     \/ secondInv[h] \in {"open", "accepted"} /\ secondInv' = [secondInv EXCEPT ![h] = "canceled"]
  /\ UNCHANGED <<firstInv, secondPay>>

MakerEnv(h) == (AnyTaker(h) \/ Network(h)) /\ UNCHANGED mVars

MakerVars == <<netVars, mVars>>
MakerWorld == MakerNext \/ \E h \in Hashes : MakerEnv(h) \/ FirstHtlcExpires(h)
MakerWorldInit == NetInit /\ MakerInit
MakerSpec == MakerWorldInit /\ [][MakerWorld]_MakerVars

(***************************************************************************)
(* A stopped maker is started again; and, however often it stops and       *)
(* clients fail, it is up with its clients connected often enough to take  *)
(* each of the steps that lead from the taker's claim to its own: clients  *)
(* reconnect, lookups and settle calls are retried every five minutes.     *)
(***************************************************************************)
MakerFairness ==
  /\ WF_MakerVars(MakerRestarts)
  /\ \A h \in Hashes :
       /\ WF_MakerVars(SecondPaymentSucceeds(h) /\ UNCHANGED mVars)
       /\ SF_MakerVars(mUp /\ MakerResolvesPreimage(h))
       /\ SF_MakerVars(mUp /\ MakerRecoveryLooksUp(h))
       /\ SF_MakerVars(mUp /\ MakerRecoveryClaims(h))
       /\ SF_MakerVars(mUp /\ MakerInvoiceSettles(h))

MakerFairSpec == MakerSpec /\ MakerFairness

-----------------------------------------------------------------------------
(* What the maker's side promises, whatever the taker does *)

(***************************************************************************)
(* As long as the maker's payment may still go through, or has gone        *)
(* through, the incoming HTLC is held or claimed: no failure of the deal,  *)
(* timeout, rejected save, crash or recovery cancels it.  ("if we are the  *)
(* maker, we must be able to settle the invoice otherwise we lose funds")  *)
(***************************************************************************)
MakerFundsSafe ==
  \A h \in Hashes :
    secondPay[h] \in {"inflight", "succeeded"} => firstInv[h] \in {"accepted", "settled"}

(***************************************************************************)
(* A deal that memory or the database calls failed has no payment that is  *)
(* under way or went through: the order book may release its hold.         *)
(***************************************************************************)
MakerFailureIsFinal ==
  \A h \in Hashes :
    mDeal[h].state = "Error" \/ mRow[h].state = "Error" => secondPay[h] \in {"none", "failed"}

(***************************************************************************)
(* A payment was only ever made for a deal whose row says so ("we update   *)
(* the phase persist the deal to the database before we attempt to send    *)
(* payment").  Until the incoming HTLC of one that may go through, or has  *)
(* gone through, is claimed, the row stays active and the maker is after   *)
(* it: resolveHash or settleInvoice is, or SwapRecovery, which finds the   *)
(* row after a restart.  No failed call or lost save makes it let go.      *)
(***************************************************************************)
Pursued(h) ==
  \/ mResolve[h] \in {"sending", "lookup", "monitor", "settling", "retry"}
  \/ mRecover[h] \in {"pending", "known", "claiming"}

MakerFollowsPayments ==
  \A h \in Hashes :
    /\ secondPay[h] # "none" => mRow[h].phase \in {"SendingPayment", "PreimageResolved", "PaymentReceived"}
    /\ secondPay[h] \in {"inflight", "succeeded"} /\ firstInv[h] # "settled" =>
         mRow[h].state = "Active" /\ (mUp => Pursued(h))

(***************************************************************************)
(* A deal is called completed or recovered, and its invoice claimed, only  *)
(* when both payments went through.                                        *)
(***************************************************************************)
MakerSuccessIsReal ==
  \A h \in Hashes :
    /\ mDeal[h].state = "Completed" \/ mRow[h].state \in {"Completed", "Recovered"}
         => firstInv[h] = "settled"
    /\ firstInv[h] = "settled" => secondPay[h] = "succeeded"

(***************************************************************************)
(* A swap timer that is running belongs to an active deal in the map, so   *)
(* that handleSwapTimeout finds the deal it looks up with getDeal(rHash)!  *)
(* And an active deal that waits for the taker has one: a taker that does  *)
(* not pay cannot keep it, and what is on hold for it, for ever.           *)
(***************************************************************************)
MakerTimersMatchDeals ==
  \A h \in Hashes :
    /\ h \in mTimers => h \in mDeals /\ mDeal[h].state = "Active"
    /\ mDeal[h] = [phase |-> "SwapCreated", state |-> "Active"] => mAccept[h] # "idle"
    /\ mDeal[h] = [phase |-> "SwapAccepted", state |-> "Active"] => h \in mTimers

(***************************************************************************)
(* A payment is made once for a hash, and only while the incoming HTLC is  *)
(* held, nothing is about to cancel it, and the deal is saved as active:   *)
(* the checks before the save of SendingPayment still hold after it.       *)
(***************************************************************************)
MakerPaysWhenCovered ==
  [][\A h \in Hashes :
       secondPay'[h] = "inflight" /\ secondPay[h] # "inflight" =>
         /\ secondPay[h] = "none"
         /\ firstInv[h] = "accepted" /\ h \notin mCancel
         /\ mRow'[h].state = "Active"]_MakerVars

(***************************************************************************)
(* Once the taker has claimed the maker's payment, the maker claims the    *)
(* taker's, through any number of crashes, failed calls and lost saves.    *)
(***************************************************************************)
MakerIsPaid ==
  \A h \in Hashes : secondInv[h] = "settled" ~> firstInv[h] = "settled"

(***************************************************************************)
(* The order book, which holds part of an order for each deal, is told     *)
(* about a failure or about success, once and never both, and acceptDeal   *)
(* returns before the deal can be paid: the maker implements what          *)
(* OwnOrders takes a deal to be.                                           *)
(***************************************************************************)
MakerDealPhase(phase) ==
  CASE phase = "None" -> "none"
    [] phase = "SwapCreated" -> "created"
    [] phase \in {"SwapAccepted", "SendingPayment"} -> "agreed"
    [] OTHER -> "paid"

MakerDeal == INSTANCE Deal WITH
  deal <- [h \in Hashes |-> MakerDealPhase(mDeal[h].phase)],
  failed <- {h \in Hashes : mDeal[h].state = "Error"},
  asking <- {h \in Hashes : mAccept[h] # "idle"}
MakerKeepsDeals == MakerDeal!Spec
=============================================================================
