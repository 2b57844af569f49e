----------------------------- MODULE Swap_proofs -----------------------------
(***************************************************************************)
(* Proofs about a maker and a taker that both run xud: each is one of the  *)
(* counterparties that the other allows for, so what was proved of each    *)
(* alone holds of the two together; and together they implement an atomic  *)
(* swap, for every set of hashes and of faults.                            *)
(***************************************************************************)
EXTENDS Swap, Maker_proofs, Taker_proofs

-----------------------------------------------------------------------------
(* The inductive invariant *)

\* An HTLC of the second leg is held or claimed only while the maker's payment may still
\* succeed, and the payment succeeds only when it was claimed.
LinkInv(h) ==
  /\ secondInv[h] \in {"accepted", "settled"} => secondPay[h] \in {"inflight", "succeeded"}
  /\ secondPay[h] = "succeeded" => secondInv[h] = "settled"

SwapIInv == MakerIInv /\ TakerIInv /\ \A h \in Hashes : LinkInv(h)

-----------------------------------------------------------------------------
(* Each party as the other sees it *)

\* What a maker does to its own invoice and payment, and sends, any maker may do.
LEMMA MakerActsAsAnyMaker ==
  ASSUME MakerIInv, TakerTypeOK, NEW h \in Hashes, MakerSwaps(h) \/ MakerSaves(h) \/ MakerRecovery(h)
  PROVE  AnyMaker(h) \/ UNCHANGED netVars
<1> USE DEF netVars, legs
<1>1. HashInv(h) /\ MakerTypeOK
  BY DEF MakerIInv
<1>2. CASE MakerSwaps(h)
  <2>1. CASE MakerInvoiceSettles(h)
    <3>1. secondPay[h] = "succeeded"
      BY <1>1, <2>1 DEF MakerInvoiceSettles, HashInv, StageInv, PayInv, RecoverInv, Resolved
    <3> QED
      BY <2>1, <3>1 DEF MakerInvoiceSettles, AnyMaker
  <2>2. CASE MakerAccepts(h) \/ MakerRejects(h) \/ MakerInvoiceCancels(h)
    BY <2>2 DEF MakerAccepts, MakerRejects, MakerInvoiceCancels, AnyMaker
  <2>3. ASSUME NEW tellPeer \in BOOLEAN, mFailDeal(h, mSaves[h], tellPeer), UNCHANGED legs
        PROVE  AnyMaker(h)
    BY <2>3 DEF mFailDeal, AnyMaker
  <2>4. CASE MakerTimesOut(h)
    <3>1. mFailDeal(h, mSaves[h], TRUE) \/ sendPacket("SwapFailed", "taker", h)
      BY <2>4 DEF MakerTimesOut
    <3>2. UNCHANGED legs
      BY <2>4 DEF MakerTimesOut
    <3> QED
      BY <2>3, <3>1, <3>2 DEF AnyMaker
  <2>5. CASE MakerCannotAccept(h) \/ MakerPaymentFailed(h) \/ MakerHandlesSwapFailed(h)
    BY <2>3, <2>5 DEF MakerCannotAccept, MakerPaymentFailed, MakerHandlesSwapFailed
  <2>6. CASE \/ MakerAddsDeal(h) \/ MakerFindsRoute(h) \/ MakerIgnoresHtlc(h) \/ MakerStartsPayment(h)
             \/ MakerSendPaymentThrows(h) \/ MakerMonitorsPayment(h) \/ MakerResolvesPreimage(h)
             \/ MakerCompletes(h) \/ MakerSettleThrows(h) \/ MakerLosesSubscription(h)
    BY <2>6 DEF MakerAddsDeal, MakerFindsRoute, MakerIgnoresHtlc, MakerStartsPayment,
       MakerSendPaymentThrows, MakerMonitorsPayment, MakerResolvesPreimage, MakerCompletes, mStops,
       MakerSettleThrows, MakerLosesSubscription
  <2> QED
    BY <1>2, <2>1, <2>2, <2>4, <2>5, <2>6 DEF MakerSwaps
<1>3. CASE MakerSaves(h)
  <2>1. CASE MakerSavedSending(h)
    <3>1. secondPay[h] = "none"
      BY <1>1, <2>1 DEF MakerSavedSending, IsNextWrite, HashInv, SaveInv, StagedInv, PayInv
    <3>2. secondPay' \in {secondPay, [secondPay EXCEPT ![h] = "inflight"]}
      BY <2>1 DEF MakerSavedSending
    <3> QED
      BY <2>1, <3>1, <3>2 DEF MakerSavedSending, AnyMaker
  <2>2. CASE MakerSaveAcceptedRejected(h)
    BY <2>2 DEF MakerSaveAcceptedRejected, mFailDeal, AnyMaker
  <2>3. CASE \/ MakerCopiesDeal(h) \/ MakerSavedAccepted(h) \/ MakerSaveSendingRejected(h)
             \/ MakerSavedLater(h) \/ MakerSaveLaterRejected(h) \/ MakerAborts(h)
    BY <2>3 DEF MakerCopiesDeal, MakerSavedAccepted, MakerSaveSendingRejected, MakerSavedLater,
       MakerSaveLaterRejected, MakerAborts, mStops
  <2> QED
    BY <1>3, <2>1, <2>2, <2>3 DEF MakerSaves
<1>4. CASE MakerRecovery(h)
  BY <1>4 DEF MakerRecovery, MakerRecoveryLooksUp, MakerRecoveryFails, MakerRecoveryClaims,
     MakerRecovers, MakerClaimThrows
<1> QED
  BY <1>2, <1>3, <1>4

\* What a taker does to its own invoice and payment, and sends, any taker may do.
LEMMA TakerActsAsAnyTaker ==
  ASSUME TakerIInv, NEW h \in Hashes, TakerSwaps(h) \/ TakerSaves(h)
  PROVE  AnyTaker(h) \/ UNCHANGED netVars
<1> USE DEF netVars, legs
<1>1. tHashInv(h) /\ TakerTypeOK
  BY DEF TakerIInv
<1>2. CASE TakerSwaps(h)
  <2>1. CASE TakerAddsInvoice(h)
    <3>1. secondInv[h] = "none"
      BY <1>1, <2>1 DEF TakerAddsInvoice, tHashInv, tStageInv, tFreshInv, Asking
    <3> QED
      BY <2>1, <3>1 DEF TakerAddsInvoice, AnyTaker
  <2>2. CASE TakerBegins(h) \/ TakerInvoiceSettles(h) \/ TakerInvoiceCancels(h)
    BY <2>2 DEF TakerBegins, TakerInvoiceSettles, TakerInvoiceCancels, AnyTaker
  <2>3. ASSUME NEW tellPeer \in BOOLEAN, tFailDeal(h, tSaves[h], tellPeer), UNCHANGED legs
        PROVE  AnyTaker(h)
    BY <2>3 DEF tFailDeal, AnyTaker
  <2>4. CASE \/ TakerRefusesQuantity(h) \/ TakerCannotAddInvoice(h) \/ TakerSendPaymentThrows(h)
             \/ TakerSettleThrows(h) \/ TakerTimesOut(h) \/ TakerHandlesSwapFailed(h)
    BY <2>3, <2>4 DEF TakerRefusesQuantity, TakerCannotAddInvoice, TakerSendPaymentThrows,
       TakerSettleThrows, TakerTimesOut, TakerHandlesSwapFailed
  <2>5. CASE \/ TakerCannotBegin(h) \/ TakerRequested(h) \/ TakerHandlesSwapAccepted(h)
             \/ TakerPaymentSent(h) \/ TakerIgnoresHtlc(h) \/ TakerReleasesPreimage(h)
             \/ TakerCompletes(h) \/ TakerLosesSubscription(h)
    BY <2>5 DEF TakerCannotBegin, TakerRequested, TakerHandlesSwapAccepted, TakerPaymentSent,
       TakerIgnoresHtlc, TakerReleasesPreimage, TakerCompletes, TakerLosesSubscription
  <2> QED
    BY <1>2, <2>1, <2>2, <2>4, <2>5 DEF TakerSwaps
<1>3. CASE TakerSaves(h)
  <2>1. CASE TakerSavedSending(h)
    <3>1. firstPay[h] = "none"
      BY <1>1, <2>1 DEF TakerSavedSending, IsNextWrite, tHashInv, tSaveInv, tStageInv
    <3> QED
      BY <2>1, <3>1 DEF TakerSavedSending, AnyTaker
  <2>2. CASE \/ TakerCopiesDeal(h) \/ TakerSaveSendingRejected(h) \/ TakerSavedLater(h)
             \/ TakerSaveLaterRejected(h) \/ TakerAborts(h)
    BY <2>2 DEF TakerCopiesDeal, TakerSaveSendingRejected, TakerSavedLater, TakerSaveLaterRejected,
       TakerAborts
  <2> QED
    BY <1>3, <2>1, <2>2 DEF TakerSaves
<1> QED
  BY <1>2, <1>3

\* So every step of a swap is, for the taker, a step of its world,
LEMMA StepsOfTakerWorld ==
  ASSUME SwapIInv, [SwapNext]_SwapVars
  PROVE  [TakerWorld]_TakerVars
<1>1. ASSUME MakerNext, UNCHANGED tVars PROVE [TakerWorld]_TakerVars
  <2>1. ASSUME NEW h \in Hashes, MakerSwaps(h) \/ MakerSaves(h) \/ MakerRecovery(h)
        PROVE  [TakerWorld]_TakerVars
    <3>1. AnyMaker(h) \/ UNCHANGED netVars
      BY <2>1, MakerActsAsAnyMaker DEF SwapIInv, TakerIInv
    <3> QED
      BY <1>1, <3>1 DEF TakerWorld, TakerEnv, TakerVars
  <2>2. CASE MakerCrashes \/ MakerRestarts
    BY <1>1, <2>2 DEF MakerCrashes, mStops, MakerRestarts, TakerVars
  <2> QED
    BY <1>1, <2>1, <2>2 DEF MakerNext
<1>2. ASSUME NEW h \in Hashes, FirstHtlcExpires(h), UNCHANGED tVars PROVE [TakerWorld]_TakerVars
  <2>1. AnyMaker(h)
    BY <1>2 DEF FirstHtlcExpires, AnyMaker
  <2> QED
    BY <1>2, <2>1 DEF TakerWorld, TakerEnv
<1>3. ASSUME NEW h \in Hashes, Network(h) \/ SecondHtlcExpires(h), UNCHANGED tVars
      PROVE  [TakerWorld]_TakerVars
  BY <1>3 DEF TakerWorld, TakerEnv
<1>4. CASE UNCHANGED SwapVars
  BY <1>4 DEF SwapVars, TakerVars
<1>5. CASE TakerNext
  BY <1>5 DEF TakerWorld
<1> QED
  BY <1>1, <1>2, <1>3, <1>4, <1>5 DEF SwapNext

\* and for the maker, one of its own.
LEMMA StepsOfMakerWorld ==
  ASSUME SwapIInv, [SwapNext]_SwapVars
  PROVE  [MakerWorld]_MakerVars
<1>1. ASSUME TakerNext, UNCHANGED mVars PROVE [MakerWorld]_MakerVars
  <2>1. ASSUME NEW h \in Hashes, TakerSwaps(h) \/ TakerSaves(h) PROVE [MakerWorld]_MakerVars
    <3>1. AnyTaker(h) \/ UNCHANGED netVars
      BY <2>1, TakerActsAsAnyTaker DEF SwapIInv
    <3> QED
      BY <1>1, <3>1 DEF MakerWorld, MakerEnv, MakerVars
  <2>2. CASE TakerCrashes \/ TakerRestarts
    BY <1>1, <2>2 DEF TakerCrashes, TakerRestarts, MakerVars
  <2> QED
    BY <1>1, <2>1, <2>2 DEF TakerNext
<1>2. ASSUME NEW h \in Hashes, SecondHtlcExpires(h), UNCHANGED mVars PROVE [MakerWorld]_MakerVars
  <2>1. AnyTaker(h)
    BY <1>2 DEF SecondHtlcExpires, AnyTaker
  <2> QED
    BY <1>2, <2>1 DEF MakerWorld, MakerEnv
<1>3. ASSUME NEW h \in Hashes, Network(h), UNCHANGED mVars PROVE [MakerWorld]_MakerVars
  BY <1>3 DEF MakerWorld, MakerEnv
<1>4. ASSUME NEW h \in Hashes, FirstHtlcExpires(h) PROVE [MakerWorld]_MakerVars
  BY <1>4 DEF MakerWorld
<1>5. CASE UNCHANGED SwapVars
  BY <1>5 DEF SwapVars, MakerVars
<1>6. CASE MakerNext
  BY <1>6 DEF MakerWorld
<1> QED
  BY <1>1, <1>2, <1>3, <1>4, <1>5, <1>6 DEF SwapNext

-----------------------------------------------------------------------------
(* What a step does to the two legs *)

\* Only one hash and one of its two invoices change in a step, and these are the changes.
FirstLegStep(h) ==
  /\ UNCHANGED secondInv
  /\ \/ UNCHANGED firstInv
     \/ firstInv[h] = "none" /\ firstInv' = [firstInv EXCEPT ![h] = "open"]
     \/ firstInv[h] = "open" /\ firstInv' = [firstInv EXCEPT ![h] = "accepted"]
     \/ firstInv[h] = "accepted" /\ firstInv' = [firstInv EXCEPT ![h] = "settled"]
     \/ firstInv[h] \in {"open", "accepted"} /\ firstInv' = [firstInv EXCEPT ![h] = "canceled"]
SecondLegStep(h) ==
  /\ UNCHANGED firstInv
  /\ \/ UNCHANGED secondInv
     \/ secondInv[h] = "none" /\ secondInv' = [secondInv EXCEPT ![h] = "open"]
     \/ secondInv[h] = "open" /\ secondInv' = [secondInv EXCEPT ![h] = "accepted"]
     \/ secondInv[h] = "accepted" /\ secondInv' = [secondInv EXCEPT ![h] = "settled"]
     \/ secondInv[h] \in {"open", "accepted"} /\ secondInv' = [secondInv EXCEPT ![h] = "canceled"]

\* Every step of a swap is a step of one leg of one hash, or of none.
LEMMA LegSteps ==
  ASSUME SwapIInv, [SwapNext]_SwapVars
  PROVE  UNCHANGED <<firstInv, secondInv>> \/ \E h \in Hashes : FirstLegStep(h) \/ SecondLegStep(h)
<1> DEFINE Goal == UNCHANGED <<firstInv, secondInv>> \/ \E h \in Hashes : FirstLegStep(h) \/ SecondLegStep(h)
<1> USE DEF netVars, legs
<1>1. ASSUME NEW h \in Hashes, AnyMaker(h) PROVE Goal
  BY <1>1 DEF AnyMaker, FirstLegStep
<1>2. ASSUME NEW h \in Hashes, AnyTaker(h) PROVE Goal
  BY <1>2 DEF AnyTaker, SecondLegStep
<1>3. ASSUME NEW h \in Hashes, Network(h) PROVE Goal
  BY <1>3 DEF Network, HtlcArrives, SecondPaymentSucceeds, FirstLegStep, SecondLegStep
<1>4. ASSUME NEW h \in Hashes, SecondHtlcExpires(h) PROVE Goal
  BY <1>4 DEF SecondHtlcExpires, SecondLegStep
<1>5. ASSUME NEW h \in Hashes, FirstHtlcExpires(h) PROVE Goal
  BY <1>5 DEF FirstHtlcExpires, FirstLegStep
<1>6. ASSUME MakerNext PROVE Goal
  <2>1. CASE \E h \in Hashes : MakerSwaps(h) \/ MakerSaves(h) \/ MakerRecovery(h)
    BY <1>1, <2>1, MakerActsAsAnyMaker DEF SwapIInv, TakerIInv
  <2>2. CASE MakerCrashes \/ MakerRestarts
    BY <2>2 DEF MakerCrashes, mStops, MakerRestarts
  <2> QED
    BY <1>6, <2>1, <2>2 DEF MakerNext
<1>7. ASSUME TakerNext PROVE Goal
  <2>1. CASE \E h \in Hashes : TakerSwaps(h) \/ TakerSaves(h)
    BY <1>2, <2>1, TakerActsAsAnyTaker DEF SwapIInv
  <2>2. CASE TakerCrashes \/ TakerRestarts
    BY <2>2 DEF TakerCrashes, TakerRestarts
  <2> QED
    BY <1>7, <2>1, <2>2 DEF TakerNext
<1> QED
  BY <1>3, <1>4, <1>5, <1>6, <1>7 DEF SwapNext, SwapVars

-----------------------------------------------------------------------------
(* The invariant *)

\* No step of either party or of the network breaks the link of the second leg.
LEMMA LinkSteps ==
  ASSUME SwapIInv, [SwapNext]_SwapVars
  PROVE  \A g \in Hashes : LinkInv(g)'
<1> USE DEF netVars, legs
<1>1. /\ secondInv \in [Hashes -> InvStates] /\ secondPay \in [Hashes -> PayStates]
      /\ \A g \in Hashes : LinkInv(g)
  BY DEF SwapIInv, MakerIInv, MakerTypeOK, NetTypeOK
<1>2. CASE UNCHANGED <<secondInv, secondPay>>
  BY <1>1, <1>2 DEF LinkInv
<1>3. ASSUME NEW h \in Hashes, AnyMaker(h) PROVE \A g \in Hashes : LinkInv(g)'
  BY <1>1, <1>3 DEF AnyMaker, LinkInv
<1>4. ASSUME NEW h \in Hashes, AnyTaker(h) PROVE \A g \in Hashes : LinkInv(g)'
  BY <1>1, <1>4 DEF AnyTaker, LinkInv
<1>5. ASSUME NEW h \in Hashes, Network(h) PROVE \A g \in Hashes : LinkInv(g)'
  <2>1. CASE UNCHANGED <<secondInv, secondPay>>
    BY <1>2, <2>1
  <2>2. CASE HtlcArrives(secondInv, secondPay, h) /\ UNCHANGED secondPay
    BY <1>1, <2>2 DEF HtlcArrives, LinkInv
  <2>3. CASE PaymentFails(secondInv, secondPay, h) /\ UNCHANGED secondInv
    BY <1>1, <2>3 DEF PaymentFails, LinkInv
  <2>4. CASE SecondPaymentSucceeds(h)
    BY <1>1, <2>4 DEF SecondPaymentSucceeds, PaymentSucceeds, LinkInv
  <2> QED
    BY <1>5, <2>1, <2>2, <2>3, <2>4 DEF Network
<1>6. ASSUME NEW h \in Hashes, SecondHtlcExpires(h) PROVE \A g \in Hashes : LinkInv(g)'
  BY <1>1, <1>6 DEF SecondHtlcExpires, LinkInv
<1>7. ASSUME MakerNext PROVE \A g \in Hashes : LinkInv(g)'
  <2>1. CASE \E h \in Hashes : MakerSwaps(h) \/ MakerSaves(h) \/ MakerRecovery(h)
    BY <1>2, <1>3, <2>1, MakerActsAsAnyMaker DEF SwapIInv, TakerIInv
  <2>2. CASE MakerCrashes \/ MakerRestarts
    BY <1>2, <2>2 DEF MakerCrashes, mStops, MakerRestarts
  <2> QED
    BY <1>7, <2>1, <2>2 DEF MakerNext
<1>8. ASSUME TakerNext PROVE \A g \in Hashes : LinkInv(g)'
  <2>1. CASE \E h \in Hashes : TakerSwaps(h) \/ TakerSaves(h)
    BY <1>2, <1>4, <2>1, TakerActsAsAnyTaker DEF SwapIInv
  <2>2. CASE TakerCrashes \/ TakerRestarts
    BY <1>2, <2>2 DEF TakerCrashes, TakerRestarts
  <2> QED
    BY <1>8, <2>1, <2>2 DEF TakerNext
<1>9. ASSUME NEW h \in Hashes, FirstHtlcExpires(h) PROVE UNCHANGED <<secondInv, secondPay>>
  BY <1>9 DEF FirstHtlcExpires
<1> QED
  BY <1>2, <1>5, <1>6, <1>7, <1>8, <1>9 DEF SwapNext, SwapVars

\* Every step preserves the invariant: of each party, because the step is one of its world.
LEMMA SwapSteps ==
  ASSUME SwapIInv, [SwapNext]_SwapVars
  PROVE  SwapIInv'
  BY StepsOfMakerWorld, StepsOfTakerWorld, Steps, TakerSteps, LinkSteps DEF SwapIInv

\* The initial states satisfy the invariant.
LEMMA SwapStarts ==
  ASSUME SwapInit
  PROVE  SwapIInv
<1>1. MakerIInv /\ TakerIInv
  BY Starts, TakerStarts DEF SwapInit, MakerWorldInit, TakerWorldInit
<1> QED
  BY <1>1 DEF SwapIInv, SwapInit, NetInit, LinkInv

\* SwapIInv is an invariant of a swap.
THEOREM SwapInvariance == SwapSpec => []SwapIInv
  BY SwapStarts, SwapSteps, PTL DEF SwapSpec

-----------------------------------------------------------------------------
(* What follows from it *)

\* The xud taker is one of the takers that the maker was proved to withstand: a swap
\* implements the specification of the maker among any takers.
THEOREM MakerMeetsItsTaker == SwapSpec => MakerMeetsATaker
<1>1. SwapInit => MakerWorldInit
  BY DEF SwapInit, MakerWorldInit
<1>2. SwapIInv /\ [SwapNext]_SwapVars => [MakerWorld]_MakerVars
  BY StepsOfMakerWorld
<1> QED
  BY <1>1, <1>2, SwapInvariance, PTL DEF SwapSpec, MakerMeetsATaker, MakerSpec

\* The xud maker is one of the makers that the taker was proved to withstand: a swap
\* implements the specification of the taker among any makers.
THEOREM TakerMeetsItsMaker == SwapSpec => TakerMeetsAMaker
<1>1. SwapInit => TakerWorldInit
  BY DEF SwapInit, TakerWorldInit
<1>2. SwapIInv /\ [SwapNext]_SwapVars => [TakerWorld]_TakerVars
  BY StepsOfTakerWorld
<1> QED
  BY <1>1, <1>2, SwapInvariance, PTL DEF SwapSpec, TakerMeetsAMaker, TakerSpec

\* A swap that the taker completed is not one that the maker, in memory or in its row, calls
\* failed: the taker was paid with the maker's payment, which a failed deal has not made.
THEOREM VerdictsAgree == SwapSpec => []NoVerdictAgainstTaker
<1>1. SwapIInv => NoVerdictAgainstTaker
  BY DEF SwapIInv, MakerIInv, HashInv, PayInv, Unpaid, TakerIInv, tHashInv, tPayInv, LinkInv,
     NoVerdictAgainstTaker
<1> QED
  BY <1>1, SwapInvariance, PTL

-----------------------------------------------------------------------------
(* The swap is atomic *)

\* The outcome of one hash changes as its two invoices do.
LEMMA OutcomeSteps ==
  ASSUME SwapIInv, SwapIInv', NEW h \in Hashes, FirstLegStep(h) \/ SecondLegStep(h)
  PROVE  [AtomicSwap!Next]_outcome
<1> DEFINE result(i, j) ==
      CASE i = "settled"                      -> "bothPaid"
        [] i # "settled" /\ j = "settled"     -> "takerPaid"
        [] i = "canceled" /\ j # "settled"    -> "calledOff"
        [] OTHER                              -> "open"
<1>1. /\ outcome = [g \in Hashes |-> result(firstInv[g], secondInv[g])]
      /\ outcome' = [g \in Hashes |-> result(firstInv'[g], secondInv'[g])]
  BY DEF outcome
<1>2. /\ firstInv \in [Hashes -> InvStates] /\ secondInv \in [Hashes -> InvStates]
      /\ secondPay \in [Hashes -> PayStates]
      /\ PayInv(h) /\ LinkInv(h) /\ PayInv(h)' /\ LinkInv(h)'
  BY DEF SwapIInv, MakerIInv, MakerTypeOK, NetTypeOK, HashInv
<1>3. \A g \in Hashes \ {h} : firstInv'[g] = firstInv[g] /\ secondInv'[g] = secondInv[g]
  BY <1>2 DEF FirstLegStep, SecondLegStep
<1>4. outcome' = [outcome EXCEPT ![h] = result(firstInv'[h], secondInv'[h])]
  BY <1>1, <1>3
<1>5. outcome[h] = result(firstInv[h], secondInv[h])
  BY <1>1
<1>6. \/ result(firstInv'[h], secondInv'[h]) = result(firstInv[h], secondInv[h])
      \/ /\ result(firstInv[h], secondInv[h]) = "open"
         /\ result(firstInv'[h], secondInv'[h]) \in {"calledOff", "takerPaid"}
      \/ /\ result(firstInv[h], secondInv[h]) = "takerPaid"
         /\ result(firstInv'[h], secondInv'[h]) = "bothPaid"
  <2>1. CASE FirstLegStep(h)
    <3>1. CASE firstInv[h] = "accepted" /\ firstInv'[h] = "settled"
      <4>1. secondInv'[h] = "settled" /\ secondInv[h] = "settled"
        BY <1>2, <2>1, <3>1 DEF FirstLegStep, PayInv, LinkInv
      <4> QED
        BY <3>1, <4>1
    <3>2. CASE firstInv[h] \in {"open", "accepted"} /\ firstInv'[h] = "canceled"
      <4>1. secondInv'[h] # "settled" /\ secondInv[h] # "settled"
        BY <1>2, <2>1, <3>2 DEF FirstLegStep, PayInv, LinkInv
      <4> QED
        BY <3>2, <4>1
    <3>3. CASE /\ firstInv'[h] = firstInv[h] \/ (firstInv[h] \in {"none", "open"} /\ firstInv'[h] \in {"open", "accepted"})
               /\ secondInv'[h] = secondInv[h]
      BY <3>3
    <3> QED
      BY <1>2, <2>1, <3>1, <3>2, <3>3 DEF FirstLegStep
  <2>2. CASE SecondLegStep(h)
    <3>1. CASE secondInv[h] = "accepted" /\ secondInv'[h] = "settled" /\ firstInv'[h] = firstInv[h]
      <4>1. firstInv[h] = "accepted"
        BY <1>2, <3>1 DEF PayInv, LinkInv
      <4> QED
        BY <3>1, <4>1
    <3>2. CASE /\ secondInv'[h] = secondInv[h] \/ (secondInv[h] # "settled" /\ secondInv'[h] # "settled")
               /\ firstInv'[h] = firstInv[h]
      BY <3>2
    <3> QED
      BY <1>2, <2>2, <3>1, <3>2 DEF SecondLegStep
  <2> QED
    BY <2>1, <2>2
<1> HIDE DEF result
<1>7. CASE result(firstInv'[h], secondInv'[h]) = result(firstInv[h], secondInv[h])
  <2>1. outcome' = outcome
    BY <1>1, <1>4, <1>5, <1>7
  <2> QED
    BY <2>1
<1> QED
  BY <1>4, <1>5, <1>6, <1>7 DEF AtomicSwap!Next, AtomicSwap!CallOff, AtomicSwap!PayTaker, AtomicSwap!PayMaker

\* The protocol of Swaps.ts implements an atomic swap: the taker is paid first, from then on the
\* swap cannot be called off, and a swap that was called off is never paid.
THEOREM SwapIsAtomicAlways == SwapSpec => SwapIsAtomic
<1>1. SwapInit => AtomicSwap!Init
  BY DEF SwapInit, NetInit, outcome, AtomicSwap!Init
<1>2. SwapIInv /\ SwapIInv' /\ [SwapNext]_SwapVars => [AtomicSwap!Next]_outcome
  <2> SUFFICES ASSUME SwapIInv, SwapIInv', [SwapNext]_SwapVars
               PROVE  [AtomicSwap!Next]_outcome
    OBVIOUS
  <2>1. CASE UNCHANGED <<firstInv, secondInv>>
    BY <2>1 DEF outcome
  <2>2. CASE \E h \in Hashes : FirstLegStep(h) \/ SecondLegStep(h)
    BY <2>2, OutcomeSteps
  <2> QED
    BY <2>1, <2>2, LegSteps
<1> QED
  BY <1>1, <1>2, SwapInvariance, PTL DEF SwapSpec, SwapIsAtomic, AtomicSwap!Spec

-----------------------------------------------------------------------------
(* What was proved of each, of the two together *)

(***************************************************************************)
(* All that a maker promises against any taker, and a taker against any    *)
(* maker, holds when both run Swaps.ts: neither loses what it paid, and    *)
(* the maker's order book sees deals that end once.                        *)
(***************************************************************************)
THEOREM BothKeepTheirPromises ==
  SwapSpec =>
    /\ [](MakerFundsSafe /\ MakerFailureIsFinal /\ MakerFollowsPayments /\ MakerSuccessIsReal)
    /\ [](MakerTimersMatchDeals /\ TakerTimersMatchDeals)
    /\ [](TakerSuccessIsReal /\ TakerWritesAhead)
    /\ MakerPaysWhenCovered /\ MakerKeepsDeals
<1>1. SwapSpec => MakerSpec
  BY MakerMeetsItsTaker DEF MakerMeetsATaker
<1>2. SwapSpec => TakerSpec
  BY TakerMeetsItsMaker DEF TakerMeetsAMaker
<1> QED
  BY <1>1, <1>2, MakerFundsAreSafe, MakerFailsForGood, MakerLosesNoPayment, MakerSucceedsForReal,
     MakerTimersFindDeals, MakerIsCovered, MakerKeepsItsDeals,
     TakerSucceedsForReal, TakerWritesBeforePaying, TakerTimersFindDeals, PTL

\* From the moment the taker has claimed the maker's payment.
ClaimIsCovered ==
  \A h \in Hashes : secondInv[h] = "settled" =>
    \/ firstInv[h] = "settled"
    \/ firstInv[h] = "accepted" /\ mRow[h].state = "Active" /\ (mUp => Pursued(h))

(***************************************************************************)
(* Once the taker has claimed the maker's payment, the maker has claimed   *)
(* the taker's, or still holds it with a row that SwapRecovery finds, and, *)
(* while it runs, resolveHash or recovery is about to claim it: nothing    *)
(* that either party's crashes, timers or packets do gets between.         *)
(***************************************************************************)
THEOREM ClaimsAreCovered == SwapSpec => []ClaimIsCovered
<1>1. SwapIInv /\ MakerFundsSafe /\ MakerFollowsPayments => ClaimIsCovered
  <2> SUFFICES ASSUME SwapIInv, MakerFundsSafe, MakerFollowsPayments, NEW h \in Hashes, secondInv[h] = "settled"
               PROVE  \/ firstInv[h] = "settled"
                      \/ firstInv[h] = "accepted" /\ mRow[h].state = "Active" /\ (mUp => Pursued(h))
    BY DEF ClaimIsCovered
  <2>1. secondPay[h] \in {"inflight", "succeeded"}
    BY DEF SwapIInv, LinkInv
  <2> QED
    BY <2>1 DEF MakerFundsSafe, MakerFollowsPayments
<1> QED
  BY <1>1, SwapInvariance, BothKeepTheirPromises, PTL
=============================================================================
