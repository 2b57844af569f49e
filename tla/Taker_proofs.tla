---------------------------- MODULE Taker_proofs ----------------------------
(***************************************************************************)
(* Proofs about the taker's side of a swap: its type invariant, and what   *)
(* it promises whatever the maker does, for every set of hashes and of     *)
(* faults.                                                                 *)
(***************************************************************************)
EXTENDS Taker, TLAPS

-----------------------------------------------------------------------------
(* The inductive invariant, for one hash *)

\* Before and after handleSwapAccepted has its invoice.
Asking == {"SwapCreated", "SwapRequested"}
Paying == {"SendingPayment", "PaymentReceived"}

\* Phase and state of the deal go together, and with the map and the timers.
tDealInv(h) ==
  /\ tDeal[h].phase = "None" <=> tDeal[h].state = "None"
  /\ tDeal[h].state = "Completed" <=> tDeal[h].phase = "PaymentReceived"
  /\ tDeal[h].state = "Active" => h \in tDeals
  /\ h \in tDeals => tDeal[h].phase # "None"
  /\ h \in tTimers => tDeal[h].state = "Active"
  /\ tDeal[h].state = "Active" => h \in tTimers \/ h \in tBegin \/ tSend[h] = "invoice"

\* A hash is used once: no invoice and no payment before its deal goes on to
\* SendingPayment, and none of them without a draw.
tFreshInv(h) ==
  /\ tDeal[h].phase = "None" =>
       /\ tSend[h] = "idle" /\ tResolve[h] = "idle" /\ tSaves[h] = NoSaves
       /\ h \notin tBegin /\ h \notin tSub
  /\ tDeal[h].phase # "None" \/ tRow[h].phase # "None" => h \in tDrawn
  /\ h \notin tDrawn \/ tDeal[h].phase \in Asking => secondInv[h] = "none" /\ firstPay[h] = "none"

\* What beginSwap, handleSwapAccepted and handleHtlcAccepted await says what
\* phase the deal is in.
tStageInv(h) ==
  /\ h \in tBegin => tDeal[h].phase = "SwapCreated" /\ tSend[h] = "idle"
  /\ tSend[h] = "idle" => tDeal[h].phase \notin Paying
  /\ tSend[h] = "invoice" => tDeal[h].phase = "SwapRequested"
  /\ tSend[h] \in {"saving", "sending"} => tDeal[h].phase \in Paying
  /\ tSend[h] = "saving" => firstPay[h] = "none"
  /\ tResolve[h] = "settling" => tDeal[h].phase = "SendingPayment"

\* Which saves may be under way, and what they have copied.
tSaveInv(h) ==
  /\ tSaves[h]["accepted"].stage = "none" /\ tSaves[h]["resolved"].stage = "none"
  /\ tSaves[h]["sending"].stage # "none" <=> tSend[h] = "saving"
  /\ tSaves[h]["received"].stage # "none" => tDeal[h].phase = "PaymentReceived"
  /\ tSaves[h]["failed"].stage # "none" =>
       tDeal[h] = [phase |-> "SendingPayment", state |-> "Error"]
  /\ \A tag \in SaveTags : tSaves[h][tag].stage = "read" =>
       LET copy == tSaves[h][tag].deal IN
       /\ copy.phase \in Paying
       /\ copy.state = "Completed" => secondInv[h] = "settled"

\* What has become of the invoice and of the payment.
tPayInv(h) ==
  /\ tDeal[h].state = "Completed" \/ tRow[h].state = "Completed" => secondInv[h] = "settled"
  /\ firstPay[h] # "none" => tRow[h].phase \in Paying

\* The parts together.
tHashInv(h) == tDealInv(h) /\ tFreshInv(h) /\ tStageInv(h) /\ tSaveInv(h) /\ tPayInv(h)

TakerIInv == TakerTypeOK /\ \A h \in Hashes : tHashInv(h)

-----------------------------------------------------------------------------
(* Changing one deal or one save *)

TakerPhases == Phases \ {"SwapAccepted", "PreimageResolved"}

\* A deal enters a phase, fails or completes.
LEMMA TakerSetsDeal ==
  ASSUME TakerTypeOK, NEW h \in Hashes, NEW phase \in TakerPhases, NEW state \in States,
         \/ tDeal' = [tDeal EXCEPT ![h] = [phase |-> phase, state |-> state]]
         \/ tDeal' = [tDeal EXCEPT ![h].phase = phase] /\ state = tDeal[h].state
         \/ tDeal' = [tDeal EXCEPT ![h].state = state] /\ phase = tDeal[h].phase
  PROVE  /\ tDeal' \in [Hashes -> TakerDeals]
         /\ tDeal'[h] = [phase |-> phase, state |-> state]
         /\ \A g \in Hashes \ {h} : tDeal'[g] = tDeal[g]
<1>1. tDeal \in [Hashes -> TakerDeals] /\ tDeal[h] \in Deals
  BY DEF TakerTypeOK, TakerDeals
<1>2. /\ [tDeal[h] EXCEPT !.phase = phase] = [phase |-> phase, state |-> tDeal[h].state]
      /\ [tDeal[h] EXCEPT !.state = state] = [phase |-> tDeal[h].phase, state |-> state]
  BY <1>1 DEF Deals
<1>3. tDeal' = [tDeal EXCEPT ![h] = [phase |-> phase, state |-> state]]
  BY <1>1, <1>2
<1>4. [phase |-> phase, state |-> state] \in TakerDeals
  BY DEF TakerDeals, Deals, TakerPhases
<1> QED
  BY <1>1, <1>3, <1>4

\* A save is issued, copies the deal, or ends.
LEMMA TakerSetsSave ==
  ASSUME TakerTypeOK, NEW h \in Hashes, NEW tag \in SaveTags, NEW save \in Saves,
         tSaves' = [tSaves EXCEPT ![h][tag] = save]
  PROVE  /\ tSaves' \in [Hashes -> [SaveTags -> Saves]]
         /\ tSaves'[h] = [tSaves[h] EXCEPT ![tag] = save]
         /\ tSaves'[h][tag] = save
         /\ \A t \in SaveTags \ {tag} : tSaves'[h][t] = tSaves[h][t]
         /\ \A g \in Hashes \ {h} : tSaves'[g] = tSaves[g]
<1>1. tSaves \in [Hashes -> [SaveTags -> Saves]]
  BY DEF TakerTypeOK
<1> QED
  BY <1>1

\* The saves that steps issue, clear and take are saves.
LEMMA TakerSaveTypes ==
  ASSUME TakerTypeOK, NEW h \in Hashes
  PROVE  Issued \in Saves /\ NoSave \in Saves /\ Read(tDeal[h]) \in Saves
  BY DEF TakerTypeOK, TakerDeals, Issued, NoSave, Read, Saves, NoDeal, Deals, Phases, States

-----------------------------------------------------------------------------
(* Hashes do not interfere *)

\* What a step for another hash leaves alone.
tSameFor(g) ==
  /\ (g \in tDrawn' <=> g \in tDrawn) /\ (g \in tDeals' <=> g \in tDeals)
  /\ (g \in tTimers' <=> g \in tTimers) /\ (g \in tBegin' <=> g \in tBegin)
  /\ (g \in tSub' <=> g \in tSub)
  /\ tDeal'[g] = tDeal[g] /\ tRow'[g] = tRow[g] /\ tSaves'[g] = tSaves[g]
  /\ tSend'[g] = tSend[g] /\ tResolve'[g] = tResolve[g]
  /\ secondInv'[g] = secondInv[g] /\ firstPay'[g] = firstPay[g]

\* The invariant of a hash depends on what is kept for that hash alone.
LEMMA TakerFrame ==
  ASSUME NEW g \in Hashes, tHashInv(g), tSameFor(g)
  PROVE  tHashInv(g)'
<1>1. tDealInv(g)' /\ tFreshInv(g)'
  BY DEF tSameFor, tHashInv, tDealInv, tFreshInv
<1>2. tStageInv(g)'
  BY DEF tSameFor, tHashInv, tStageInv
<1>3. tSaveInv(g)' /\ tPayInv(g)'
  BY DEF tSameFor, tHashInv, tSaveInv, tPayInv
<1> QED
  BY <1>1, <1>2, <1>3 DEF tHashInv

\* So a step for h needs to be looked at for h only.
LEMMA TakerLocalStep ==
  ASSUME TakerIInv, NEW h \in Hashes, TakerTypeOK', tHashInv(h)',
         \A g \in Hashes \ {h} : tSameFor(g)
  PROVE  TakerIInv'
  BY TakerFrame DEF TakerIInv

-----------------------------------------------------------------------------
(* Steps that only move control *)

\* Steps that move one control variable.
LEMMA TakerControlSteps ==
  ASSUME TakerIInv, NEW h \in Hashes,
         \/ TakerHandlesSwapAccepted(h) \/ TakerPaymentSent(h) \/ TakerIgnoresHtlc(h)
         \/ TakerReleasesPreimage(h) \/ TakerLosesSubscription(h)
  PROVE  TakerIInv'
<1> USE DEF tAnswered, tHtlcReported, netVars, legs
<1>1. tHashInv(h) /\ TakerTypeOK
  BY DEF TakerIInv
<1>2. CASE TakerHandlesSwapAccepted(h)
  <2>1. TakerTypeOK'
    BY <1>1, <1>2 DEF TakerHandlesSwapAccepted, TakerTypeOK, NetTypeOK, SendStates
  <2>2. \A g \in Hashes \ {h} : tSameFor(g)
    BY <1>1, <1>2 DEF TakerHandlesSwapAccepted, TakerTypeOK, NetTypeOK, tSameFor
  <2>3. tHashInv(h)'
    BY <1>1, <1>2 DEF TakerHandlesSwapAccepted, TakerTypeOK, NetTypeOK, tHashInv, tDealInv, tFreshInv, tStageInv,
       tSaveInv, tPayInv, Paying
  <2> QED
    BY <2>1, <2>2, <2>3, TakerLocalStep
<1>3. CASE TakerPaymentSent(h)
  <2>1. TakerTypeOK'
    BY <1>1, <1>3 DEF TakerPaymentSent, TakerTypeOK, NetTypeOK, SendStates
  <2>2. \A g \in Hashes \ {h} : tSameFor(g)
    BY <1>1, <1>3 DEF TakerPaymentSent, TakerTypeOK, NetTypeOK, tSameFor
  <2>3. tHashInv(h)'
    BY <1>1, <1>3 DEF TakerPaymentSent, TakerTypeOK, NetTypeOK, tHashInv, tDealInv, tFreshInv, tStageInv,
       tSaveInv, tPayInv, Paying
  <2> QED
    BY <2>1, <2>2, <2>3, TakerLocalStep
<1>4. CASE TakerIgnoresHtlc(h)
  <2>1. TakerTypeOK'
    BY <1>1, <1>4 DEF TakerIgnoresHtlc, TakerTypeOK, NetTypeOK, ClaimStates
  <2>2. \A g \in Hashes \ {h} : tSameFor(g)
    BY <1>1, <1>4 DEF TakerIgnoresHtlc, TakerTypeOK, NetTypeOK, tSameFor
  <2>3. tHashInv(h)'
    BY <1>1, <1>4 DEF TakerIgnoresHtlc, TakerTypeOK, NetTypeOK, tHashInv, tDealInv, tFreshInv, tStageInv,
       tSaveInv, tPayInv
  <2> QED
    BY <2>1, <2>2, <2>3, TakerLocalStep
<1>5. CASE TakerReleasesPreimage(h)
  <2>1. TakerTypeOK'
    BY <1>1, <1>5 DEF TakerReleasesPreimage, TakerTypeOK, NetTypeOK, ClaimStates
  <2>2. \A g \in Hashes \ {h} : tSameFor(g)
    BY <1>1, <1>5 DEF TakerReleasesPreimage, TakerTypeOK, NetTypeOK, tSameFor
  <2>3. tHashInv(h)'
    BY <1>1, <1>5 DEF TakerReleasesPreimage, TakerTypeOK, NetTypeOK, tHashInv, tDealInv, tFreshInv, tStageInv,
       tSaveInv, tPayInv, TakerDeals, Deals, Phases, Asking
  <2> QED
    BY <2>1, <2>2, <2>3, TakerLocalStep
<1>6. CASE TakerLosesSubscription(h)
  <2>1. TakerTypeOK'
    BY <1>1, <1>6 DEF TakerLosesSubscription, TakerTypeOK, NetTypeOK
  <2>2. \A g \in Hashes \ {h} : tSameFor(g)
    BY <1>1, <1>6 DEF TakerLosesSubscription, TakerTypeOK, NetTypeOK, tSameFor
  <2>3. tHashInv(h)'
    BY <1>1, <1>6 DEF TakerLosesSubscription, TakerTypeOK, NetTypeOK, tHashInv, tDealInv, tFreshInv, tStageInv,
       tSaveInv, tPayInv
  <2> QED
    BY <2>1, <2>2, <2>3, TakerLocalStep
<1> QED
  BY <1>2, <1>3, <1>4, <1>5, <1>6

-----------------------------------------------------------------------------
(* Swaps.beginSwap *)

\* The steps of beginSwap: a deal is added, for a hash that nothing is known of, and
\* enters SwapRequested.
LEMMA TakerBeginSteps ==
  ASSUME TakerIInv, NEW h \in Hashes,
         TakerBegins(h) \/ TakerCannotBegin(h) \/ TakerRequested(h)
  PROVE  TakerIInv'
<1> USE DEF netVars, legs
<1>1. tHashInv(h) /\ TakerTypeOK
  BY DEF TakerIInv
<1> USE DEF TakerPhases, Phases, States
<1>2. CASE TakerBegins(h) \/ TakerCannotBegin(h)
  <2>1. PICK state \in {"Active", "Error"} :
          /\ tDeal' = [tDeal EXCEPT ![h] = [phase |-> "SwapCreated", state |-> state]]
          /\ tBegin' = IF state = "Active" THEN tBegin \cup {h} ELSE tBegin
          /\ h \notin tDrawn /\ tDrawn' = tDrawn \cup {h} /\ tDeals' = tDeals \cup {h}
          /\ packets' \subseteq packets \cup {Packet("SwapRequest", "maker", h)}
          /\ UNCHANGED <<legs, tUp, tSend, tResolve, tTimers, tSaves, tRow, tSub, tCancel, tRecover>>
    BY <1>2 DEF TakerBegins, TakerCannotBegin, sendPacket
  <2>2. /\ tDeal' \in [Hashes -> TakerDeals]
        /\ tDeal'[h] = [phase |-> "SwapCreated", state |-> state]
        /\ \A g \in Hashes \ {h} : tDeal'[g] = tDeal[g]
    BY <1>1, <2>1, TakerSetsDeal
  <2>3. TakerTypeOK'
    BY <1>1, <2>1, <2>2 DEF TakerTypeOK, NetTypeOK, Packet, Packets, PacketTypes
  <2>4. \A g \in Hashes \ {h} : tSameFor(g)
    BY <2>1, <2>2 DEF tSameFor
  <2>5. tDeal[h].phase = "None"
    BY <1>1, <2>1 DEF tHashInv, tFreshInv
  <2>6. tSaves'[h] = NoSaves /\ \A tag \in SaveTags : tSaves'[h][tag].stage = "none"
    BY <1>1, <2>1, <2>5 DEF tHashInv, tFreshInv, NoSaves, NoSave
  <2>7. tDealInv(h)' /\ tFreshInv(h)' /\ tStageInv(h)'
    BY <1>1, <2>1, <2>2, <2>5 DEF tHashInv, tDealInv, tFreshInv, tStageInv, Paying
  <2>8. tSaveInv(h)' /\ tPayInv(h)'
    BY <1>1, <2>1, <2>2, <2>5, <2>6 DEF tHashInv, tFreshInv, tSaveInv, tPayInv, SaveTags
  <2> QED
    BY <2>3, <2>4, <2>7, <2>8, TakerLocalStep DEF tHashInv
<1>3. CASE TakerRequested(h) /\ tDeal[h].state = "Active"
  <2>1. /\ tDeal' \in [Hashes -> TakerDeals]
        /\ tDeal'[h] = [phase |-> "SwapRequested", state |-> "Active"]
        /\ \A g \in Hashes \ {h} : tDeal'[g] = tDeal[g]
    BY <1>1, <1>3, TakerSetsDeal DEF TakerRequested
  <2>2. TakerTypeOK'
    BY <1>1, <1>3, <2>1 DEF TakerRequested, TakerTypeOK, NetTypeOK
  <2>3. \A g \in Hashes \ {h} : tSameFor(g)
    BY <1>3, <2>1 DEF TakerRequested, tSameFor
  <2>4. tDealInv(h)' /\ tFreshInv(h)' /\ tStageInv(h)'
    BY <1>1, <1>3, <2>1 DEF TakerRequested, TakerTypeOK, tHashInv, tDealInv, tFreshInv, tStageInv, Paying, Asking
  <2>5. tSaveInv(h)' /\ tPayInv(h)'
    BY <1>1, <1>3, <2>1 DEF TakerRequested, tHashInv, tDealInv, tStageInv, tSaveInv, tPayInv, Paying
  <2> QED
    BY <2>2, <2>3, <2>4, <2>5, TakerLocalStep DEF tHashInv
<1>4. CASE TakerRequested(h) /\ tDeal[h].state # "Active"
  <2>1. TakerTypeOK' /\ \A g \in Hashes \ {h} : tSameFor(g)
    BY <1>1, <1>4 DEF TakerRequested, TakerTypeOK, NetTypeOK, tSameFor
  <2>2. tHashInv(h)'
    BY <1>1, <1>4 DEF TakerRequested, tHashInv, tDealInv, tFreshInv, tStageInv,
       tSaveInv, tPayInv
  <2> QED
    BY <2>1, <2>2, TakerLocalStep
<1> QED
  BY <1>2, <1>3, <1>4

-----------------------------------------------------------------------------
(* Steps that fail a deal *)

\* What failing a deal leaves behind.
tFailEffect(h) ==
  /\ packets' \subseteq Packets
  /\ tTimers' \subseteq Hashes /\ tCancel' \subseteq Hashes
  /\ tDeal' \in [Hashes -> TakerDeals] /\ tSaves' \in [Hashes -> [SaveTags -> Saves]]
  /\ \A g \in Hashes \ {h} :
       /\ tDeal'[g] = tDeal[g] /\ tSaves'[g] = tSaves[g]
       /\ g \in tTimers' <=> g \in tTimers
  /\ tDeal[h].state = "Active" =>
       /\ tDeal'[h] = [phase |-> tDeal[h].phase, state |-> "Error"]
       /\ h \notin tTimers'
       /\ \A tag \in SaveTags \ {"failed"} : tSaves'[h][tag] = tSaves[h][tag]
       /\ \/ tSaves'[h]["failed"] = tSaves[h]["failed"]
          \/ tSaves'[h]["failed"] = Issued /\ tDeal[h].phase \notin Asking
  /\ tDeal[h].state # "Active" =>
       tDeal'[h] = tDeal[h] /\ tSaves'[h] = tSaves[h] /\ tTimers' = tTimers

\* failDeal does what tFailEffect says.
LEMMA TakerFailDealEffect ==
  ASSUME TakerTypeOK, NEW h \in Hashes, NEW tellPeer \in BOOLEAN,
         tFailDeal(h, tSaves[h], tellPeer)
  PROVE  tFailEffect(h)
<1>1. /\ Issued \in Saves /\ "failed" \in SaveTags
      /\ Packet("SwapFailed", "maker", h) \in Packets
  BY TakerSaveTypes DEF SaveTags, Packet, Packets, PacketTypes
<1>2. CASE tDeal[h].state = "Active"
  <2>1. /\ tDeal' = [tDeal EXCEPT ![h].state = "Error"]
        /\ tTimers' = tTimers \ {h}
        /\ tCancel' \subseteq tCancel \cup {h}
        /\ packets' \subseteq packets \cup {Packet("SwapFailed", "maker", h)}
    BY <1>2 DEF tFailDeal, sendPacket
  <2>2. /\ tDeal' \in [Hashes -> TakerDeals]
        /\ tDeal'[h] = [phase |-> tDeal[h].phase, state |-> "Error"]
        /\ \A g \in Hashes \ {h} : tDeal'[g] = tDeal[g]
    <3>1. tDeal[h].phase \in TakerPhases /\ "Error" \in States
      BY DEF TakerTypeOK, TakerDeals, Deals, TakerPhases, States
    <3> QED
      BY <2>1, <3>1, TakerSetsDeal
  <2>3. PICK saves \in {tSaves[h], [tSaves[h] EXCEPT !["failed"] = Issued]} :
          /\ tSaves' = [tSaves EXCEPT ![h] = saves]
          /\ tDeal[h].phase \in Asking => saves = tSaves[h]
    BY <1>2 DEF tFailDeal, Persisted, Asking
  <2>4. saves \in [SaveTags -> Saves]
    BY <1>1 DEF TakerTypeOK
  <2> QED
    BY <1>1, <1>2, <2>1, <2>2, <2>3, <2>4 DEF TakerTypeOK, NetTypeOK, tFailEffect
<1>3. CASE tDeal[h].state # "Active"
  BY <1>3 DEF tFailDeal, TakerTypeOK, NetTypeOK, tFailEffect
<1> QED
  BY <1>2, <1>3

\* A deal may fail in any phase that it has not completed.
LEMMA TakerDealFails ==
  ASSUME TakerIInv, NEW h \in Hashes, NEW tellPeer \in BOOLEAN,
         tFailDeal(h, tSaves[h], tellPeer),
         \/ tSend' = tSend
         \/ tSend' = [tSend EXCEPT ![h] = "done"] /\ tSend[h] # "saving" /\ tDeal[h].phase # "None"
            /\ h \notin tBegin,
         \/ tResolve' = tResolve
         \/ tResolve' = [tResolve EXCEPT ![h] = "done"] /\ tDeal[h].phase # "None",
         UNCHANGED <<legs, tUp, tDrawn, tDeals, tBegin, tRow, tSub, tRecover>>
  PROVE  TakerIInv'
<1> USE DEF legs
<1>1. tHashInv(h) /\ TakerTypeOK
  BY DEF TakerIInv
<1>2. tFailEffect(h)
  BY <1>1, TakerFailDealEffect
<1>3. TakerTypeOK'
  <2>1. tSend' \in [Hashes -> SendStates] /\ tResolve' \in [Hashes -> ClaimStates]
    BY <1>1 DEF TakerTypeOK, SendStates, ClaimStates
  <2> QED
    BY <1>1, <1>2, <2>1 DEF tFailEffect, TakerTypeOK, NetTypeOK
<1>4. \A g \in Hashes \ {h} : tSameFor(g)
  BY <1>1, <1>2 DEF tFailEffect, tSameFor, TakerTypeOK
<1>5. /\ tSend'[h] = tSend[h] \/ (/\ tSend'[h] = "done" /\ tSend[h] # "saving"
                                  /\ tDeal[h].phase # "None" /\ h \notin tBegin)
      /\ tResolve'[h] = tResolve[h] \/ (tResolve'[h] = "done" /\ tDeal[h].phase # "None")
  BY <1>1 DEF TakerTypeOK
<1>6. ASSUME tDeal[h].state # "Active" PROVE tHashInv(h)'
  BY <1>1, <1>2, <1>5, <1>6 DEF tFailEffect, tHashInv, tDealInv, tFreshInv, tStageInv,
       tSaveInv, tPayInv
<1>7. ASSUME tDeal[h].state = "Active" PROVE tHashInv(h)'
  <2>1. /\ tDeal'[h] = [phase |-> tDeal[h].phase, state |-> "Error"]
        /\ h \notin tTimers'
        /\ \A tag \in SaveTags \ {"failed"} : tSaves'[h][tag] = tSaves[h][tag]
        /\ \/ tSaves'[h]["failed"] = tSaves[h]["failed"]
           \/ tSaves'[h]["failed"] = Issued /\ tDeal[h].phase \notin Asking
    BY <1>2, <1>7 DEF tFailEffect
  <2>2. tDeal[h].phase \in Asking \cup {"SendingPayment"}
    BY <1>1, <1>7 DEF TakerTypeOK, TakerDeals, Deals, Phases, Asking, tHashInv, tDealInv
  <2>3. tDealInv(h)' /\ tFreshInv(h)'
    BY <1>1, <1>5, <1>7, <2>1, <2>2 DEF tHashInv, tDealInv, tFreshInv, Asking
  <2>4. tStageInv(h)'
    BY <1>1, <1>5, <1>7, <2>1 DEF tHashInv, tStageInv
  <2>5. tSaveInv(h)'
    BY <1>1, <1>5, <1>7, <2>1, <2>2 DEF tHashInv, tSaveInv, SaveTags, Issued
  <2>6. tPayInv(h)'
    BY <1>1, <1>7, <2>1 DEF tHashInv, tPayInv
  <2> QED
    BY <2>3, <2>4, <2>5, <2>6 DEF tHashInv
<1> QED
  BY <1>3, <1>4, <1>6, <1>7, TakerLocalStep

\* The six steps that call failDeal.
LEMMA TakerFailSteps ==
  ASSUME TakerIInv, NEW h \in Hashes,
         \/ TakerRefusesQuantity(h) \/ TakerCannotAddInvoice(h) \/ TakerSendPaymentThrows(h)
         \/ TakerSettleThrows(h) \/ TakerTimesOut(h) \/ TakerHandlesSwapFailed(h)
  PROVE  TakerIInv'
<1>1. tHashInv(h) /\ TakerTypeOK
  BY DEF TakerIInv
<1>2. CASE TakerRefusesQuantity(h)
  <2>1. tDeal[h].phase # "None" /\ h \notin tBegin
    BY <1>1, <1>2 DEF TakerRefusesQuantity, tAnswered, tHashInv, tStageInv
  <2> QED
    BY <1>2, <2>1, TakerDealFails DEF TakerRefusesQuantity, tAnswered
<1>3. CASE TakerCannotAddInvoice(h)
  <2>1. tDeal[h].phase # "None" /\ h \notin tBegin
    BY <1>1, <1>3 DEF TakerCannotAddInvoice, tHashInv, tStageInv
  <2> QED
    BY <1>3, <2>1, TakerDealFails DEF TakerCannotAddInvoice
<1>4. CASE TakerSendPaymentThrows(h)
  <2>1. PICK tellPeer \in BOOLEAN : tFailDeal(h, tSaves[h], tellPeer)
    BY <1>4 DEF TakerSendPaymentThrows
  <2>2. tDeal[h].phase # "None" /\ h \notin tBegin
    BY <1>1, <1>4 DEF TakerSendPaymentThrows, tHashInv, tStageInv, Paying
  <2> QED
    BY <1>4, <2>1, <2>2, TakerDealFails DEF TakerSendPaymentThrows
<1>5. CASE TakerSettleThrows(h)
  <2>1. tDeal[h].phase # "None"
    BY <1>1, <1>5 DEF TakerSettleThrows, tHashInv, tStageInv
  <2> QED
    BY <1>5, <2>1, TakerDealFails DEF TakerSettleThrows
<1>6. CASE TakerTimesOut(h)
  BY <1>6, TakerDealFails DEF TakerTimesOut
<1>7. CASE TakerHandlesSwapFailed(h)
  BY <1>7, TakerDealFails DEF TakerHandlesSwapFailed
<1> QED
  BY <1>2, <1>3, <1>4, <1>5, <1>6, <1>7

-----------------------------------------------------------------------------
(* The taker's invoice *)

\* LND settles, cancels and expires invoices that were opened, and a settled one stays settled.
LEMMA TakerInvoiceSteps ==
  ASSUME TakerIInv, NEW h \in Hashes,
         TakerInvoiceSettles(h) \/ TakerInvoiceCancels(h) \/ (SecondHtlcExpires(h) /\ UNCHANGED tVars)
  PROVE  TakerIInv'
<1> USE DEF tVars
<1>1. tHashInv(h) /\ TakerTypeOK
  BY DEF TakerIInv
<1>2. /\ secondInv' \in [Hashes -> InvStates] /\ tCancel' \subseteq Hashes
      /\ tSub' = tSub \/ tSub' = tSub \ {h}
      /\ secondInv[h] = "none" => secondInv'[h] = "none"
      /\ secondInv[h] = "settled" => secondInv'[h] = "settled"
      /\ \A g \in Hashes \ {h} : secondInv'[g] = secondInv[g]
  BY <1>1 DEF TakerInvoiceSettles, TakerInvoiceCancels, SecondHtlcExpires, TakerTypeOK, NetTypeOK, InvStates
<1>3. UNCHANGED <<packets, firstInv, firstPay, secondPay, tUp, tDrawn, tDeals, tDeal, tBegin, tSend,
                  tResolve, tTimers, tSaves, tRow, tRecover>>
  BY DEF TakerInvoiceSettles, TakerInvoiceCancels, SecondHtlcExpires
<1>4. TakerTypeOK'
  BY <1>1, <1>2, <1>3 DEF TakerTypeOK, NetTypeOK
<1>5. \A g \in Hashes \ {h} : tSameFor(g)
  BY <1>2, <1>3 DEF tSameFor
<1>6. tHashInv(h)'
  BY <1>1, <1>2, <1>3 DEF tHashInv, tDealInv, tFreshInv, tStageInv,
       tSaveInv, tPayInv
<1> QED
  BY <1>4, <1>5, <1>6, TakerLocalStep

\* addInvoice returns: the deal enters SendingPayment and is saved, or the process stops.
LEMMA TakerInvoiceAdded ==
  ASSUME TakerIInv, NEW h \in Hashes, TakerAddsInvoice(h), tDeal[h].state = "Active"
  PROVE  TakerIInv'
<1>1. tHashInv(h) /\ TakerTypeOK
  BY DEF TakerIInv
<1>2. /\ tDeal' \in [Hashes -> TakerDeals]
      /\ tDeal'[h] = [phase |-> "SendingPayment", state |-> "Active"]
      /\ \A g \in Hashes \ {h} : tDeal'[g] = tDeal[g]
  BY <1>1, TakerSetsDeal DEF TakerAddsInvoice, TakerPhases, Phases, States
<1>3. /\ tSaves' \in [Hashes -> [SaveTags -> Saves]]
      /\ tSaves'[h]["sending"] = Issued
      /\ \A t \in SaveTags \ {"sending"} : tSaves'[h][t] = tSaves[h][t]
      /\ \A g \in Hashes \ {h} : tSaves'[g] = tSaves[g]
  <2>1. tSaves' = [tSaves EXCEPT ![h]["sending"] = Issued] /\ "sending" \in SaveTags
    BY DEF TakerAddsInvoice, SaveTags
  <2> QED
    BY <1>1, <2>1, TakerSetsSave, TakerSaveTypes, ZenonT(40)
<1>4. TakerTypeOK'
  BY <1>1, <1>2, <1>3, SMTT(20) DEF TakerAddsInvoice, TakerTypeOK, NetTypeOK, InvStates, SendStates
<1>5. \A g \in Hashes \ {h} : tSameFor(g)
  BY <1>1, <1>2, <1>3 DEF TakerAddsInvoice, tSameFor, TakerTypeOK, NetTypeOK
<1>6. /\ tDeal[h].phase = "SwapRequested" /\ tSend[h] = "invoice" /\ tSend'[h] = "saving"
      /\ secondInv[h] = "none" /\ secondInv'[h] = "open" /\ firstPay'[h] = "none" /\ h \notin tBegin
      /\ tResolve[h] # "settling"
  BY <1>1 DEF TakerAddsInvoice, TakerTypeOK, NetTypeOK, tHashInv, tFreshInv, tStageInv, Asking
<1>7. tDealInv(h)' /\ tFreshInv(h)'
  BY <1>1, <1>2, <1>6 DEF TakerAddsInvoice, tHashInv, tDealInv, tFreshInv, Asking
<1>8. tStageInv(h)' /\ tPayInv(h)'
  BY <1>1, <1>2, <1>6 DEF TakerAddsInvoice, tHashInv, tDealInv, tStageInv, tPayInv, Paying
<1>9. tSaveInv(h)'
  BY <1>1, <1>2, <1>3, <1>6 DEF tHashInv, tSaveInv, SaveTags, Issued
<1> QED
  BY <1>4, <1>5, <1>7, <1>8, <1>9, TakerLocalStep DEF tHashInv

\* settleInvoice returns: the deal completes and is saved, and its invoice is settled.
LEMMA TakerSwapCompletes ==
  ASSUME TakerIInv, NEW h \in Hashes, TakerCompletes(h), tDeal[h].state = "Active"
  PROVE  TakerIInv'
<1> USE DEF netVars, legs
<1>1. tHashInv(h) /\ TakerTypeOK
  BY DEF TakerIInv
<1>2. /\ tDeal' \in [Hashes -> TakerDeals]
      /\ tDeal'[h] = [phase |-> "PaymentReceived", state |-> "Completed"]
      /\ \A g \in Hashes \ {h} : tDeal'[g] = tDeal[g]
  BY <1>1, TakerSetsDeal DEF TakerCompletes, TakerPhases, Phases, States
<1>3. /\ tSaves' \in [Hashes -> [SaveTags -> Saves]]
      /\ tSaves'[h]["received"] = Issued
      /\ \A t \in SaveTags \ {"received"} : tSaves'[h][t] = tSaves[h][t]
      /\ \A g \in Hashes \ {h} : tSaves'[g] = tSaves[g]
  <2>1. tSaves' = [tSaves EXCEPT ![h]["received"] = Issued] /\ "received" \in SaveTags
    BY DEF TakerCompletes, SaveTags
  <2> QED
    BY <1>1, <2>1, TakerSetsSave, TakerSaveTypes, ZenonT(40)
<1>4. TakerTypeOK'
  BY <1>1, <1>2, <1>3 DEF TakerCompletes, TakerTypeOK, NetTypeOK, ClaimStates
<1>5. \A g \in Hashes \ {h} : tSameFor(g)
  BY <1>1, <1>2, <1>3 DEF TakerCompletes, tSameFor, TakerTypeOK
<1>6. tDeal[h].phase = "SendingPayment" /\ secondInv'[h] = "settled" /\ tResolve'[h] = "done"
  BY <1>1 DEF TakerCompletes, TakerTypeOK, tHashInv, tStageInv
<1>7. tDealInv(h)' /\ tFreshInv(h)'
  BY <1>1, <1>2, <1>6 DEF TakerCompletes, tHashInv, tDealInv, tFreshInv, Asking
<1>8. tStageInv(h)' /\ tPayInv(h)'
  BY <1>1, <1>2, <1>6 DEF TakerCompletes, tHashInv, tStageInv, tPayInv, Paying
<1>9. tSaveInv(h)'
  BY <1>1, <1>2, <1>3, <1>6 DEF TakerCompletes, tHashInv, tSaveInv, SaveTags, Issued
<1> QED
  BY <1>4, <1>5, <1>7, <1>8, <1>9, TakerLocalStep DEF tHashInv

-----------------------------------------------------------------------------
(* The maker and the network *)

\* The maker and the network touch neither memory nor rows; they pay and accept only what
\* exists already, and settle no invoice of the taker.
LEMMA TakerEnvSteps ==
  ASSUME TakerIInv, NEW h \in Hashes, AnyMaker(h) \/ Network(h), UNCHANGED tVars
  PROVE  TakerIInv'
<1> USE DEF tVars
<1>1. tHashInv(h) /\ TakerTypeOK
  BY DEF TakerIInv
<1>2. /\ NetTypeOK'
      /\ \A g \in Hashes \ {h} : secondInv'[g] = secondInv[g] /\ firstPay'[g] = firstPay[g]
      /\ secondInv[h] \in {"none", "settled"} => secondInv'[h] = secondInv[h]
      /\ firstPay[h] = "none" <=> firstPay'[h] = "none"
  <2>1. CASE AnyMaker(h)
    <3>1. packets' \subseteq Packets
      BY <1>1, <2>1 DEF AnyMaker, sendPacket, Packet, Packets, PacketTypes, TakerTypeOK, NetTypeOK
    <3>2. firstInv' \in [Hashes -> InvStates] /\ secondPay' \in [Hashes -> PayStates]
      BY <1>1, <2>1 DEF AnyMaker, TakerTypeOK, NetTypeOK, InvStates, PayStates
    <3>3. UNCHANGED <<firstPay, secondInv>>
      BY <2>1 DEF AnyMaker
    <3> QED
      BY <1>1, <3>1, <3>2, <3>3 DEF TakerTypeOK, NetTypeOK
  <2>2. CASE Network(h)
    BY <1>1, <2>2 DEF Network, HtlcArrives, PaymentSucceeds, PaymentFails, SecondPaymentSucceeds,
       TakerTypeOK, NetTypeOK, InvStates, PayStates
  <2> QED
    BY <2>1, <2>2
<1>3. TakerTypeOK'
  BY <1>1, <1>2 DEF TakerTypeOK
<1>4. \A g \in Hashes \ {h} : tSameFor(g)
  BY <1>2 DEF tSameFor
<1>5. tHashInv(h)'
  BY <1>1, <1>2 DEF tHashInv, tDealInv, tFreshInv, tStageInv,
       tSaveInv, tPayInv
<1> QED
  BY <1>3, <1>4, <1>5, TakerLocalStep

-----------------------------------------------------------------------------
(* Saves *)

\* A save copies the deal in the state that it is in.
LEMMA TakerCopies ==
  ASSUME TakerIInv, NEW h \in Hashes, TakerCopiesDeal(h)
  PROVE  TakerIInv'
<1> USE DEF netVars, legs
<1>1. tHashInv(h) /\ TakerTypeOK
  BY DEF TakerIInv
<1>2. PICK tag \in SaveTags :
        /\ tSaves[h][tag].stage = "issued"
        /\ tSaves' = [tSaves EXCEPT ![h][tag] = Read(tDeal[h])]
        /\ UNCHANGED <<netVars, tUp, tDrawn, tDeals, tDeal, tBegin, tSend, tResolve, tTimers, tRow,
                       tSub, tCancel, tRecover>>
  BY DEF TakerCopiesDeal, IsNextRead
<1>3. /\ tSaves' \in [Hashes -> [SaveTags -> Saves]]
      /\ tSaves'[h][tag] = Read(tDeal[h])
      /\ \A t \in SaveTags \ {tag} : tSaves'[h][t] = tSaves[h][t]
      /\ \A g \in Hashes \ {h} : tSaves'[g] = tSaves[g]
  BY <1>1, <1>2, TakerSetsSave, TakerSaveTypes
<1>4. tDeal[h].phase \in Paying
  BY <1>1, <1>2 DEF tHashInv, tSaveInv, tStageInv, SaveTags, Paying
<1>5. TakerTypeOK' /\ \A g \in Hashes \ {h} : tSameFor(g)
  BY <1>1, <1>2, <1>3 DEF TakerTypeOK, NetTypeOK, tSameFor
<1>6. tDealInv(h)' /\ tFreshInv(h)' /\ tStageInv(h)' /\ tPayInv(h)'
  BY <1>1, <1>2, <1>4 DEF tHashInv, tDealInv, tFreshInv, tStageInv, tPayInv, Paying
<1>7. tSaveInv(h)'
  BY <1>1, <1>2, <1>3, <1>4 DEF tHashInv, tSaveInv, tPayInv, SaveTags, Read
<1> QED
  BY <1>5, <1>6, <1>7, TakerLocalStep DEF tHashInv

\* What a save that is written or rejected leaves behind.
tSaveEnds(h, tag) ==
  /\ tSaves[h][tag].stage # "none"
  /\ tSaves' \in [Hashes -> [SaveTags -> Saves]] /\ tRow' \in [Hashes -> TakerRows]
  /\ tSaves'[h][tag] = NoSave
  /\ \A t \in SaveTags \ {tag} : tSaves'[h][t] = tSaves[h][t]
  /\ \A g \in Hashes \ {h} : tSaves'[g] = tSaves[g] /\ tRow'[g] = tRow[g]
  /\ \/ tRow'[h] = tRow[h]
     \/ /\ tRow'[h].phase \in Paying
        /\ tRow'[h].state = "Completed" => secondInv[h] = "settled"
  /\ tDeals' = tDeals \/ (tDeals' = tDeals \ {h} /\ tDeal[h].state # "Active")

\* A write does what tSaveEnds says, and leaves a row in one of the last two phases.
LEMMA TakerWritesRow ==
  ASSUME TakerIInv, NEW h \in Hashes, NEW tag \in SaveTags,
         IsNextWrite(tSaves[h], tag), tWriteRow(h, tag), tSaves' = [tSaves EXCEPT ![h][tag] = NoSave]
  PROVE  tSaveEnds(h, tag) /\ tRow'[h].phase \in Paying
<1>1. tHashInv(h) /\ TakerTypeOK
  BY DEF TakerIInv
<1>2. /\ tSaves' \in [Hashes -> [SaveTags -> Saves]]
      /\ tSaves'[h][tag] = NoSave
      /\ \A t \in SaveTags \ {tag} : tSaves'[h][t] = tSaves[h][t]
      /\ \A g \in Hashes \ {h} : tSaves'[g] = tSaves[g]
  BY <1>1, TakerSetsSave, TakerSaveTypes
<1> DEFINE copy == tSaves[h][tag].deal
<1>3. /\ tSaves[h][tag].stage = "read" /\ copy \in Deals
      /\ copy.phase \in Paying /\ (copy.state = "Completed" => secondInv[h] = "settled")
  BY <1>1 DEF IsNextWrite, tHashInv, tSaveInv, TakerTypeOK, Saves
<1>4. tRowOf(copy) \in TakerRows
  BY <1>3 DEF tRowOf, TakerRows, Rows, Deals, Paying
<1>5. /\ tRow' = [tRow EXCEPT ![h] = tRowOf(copy)] /\ tRow \in [Hashes -> TakerRows]
      /\ tDeals' = tDeals \/ (tDeals' = tDeals \ {h} /\ tDeal[h].state # "Active")
  BY <1>1 DEF tWriteRow, TakerTypeOK
<1>6. tRow'[h] = tRowOf(copy) /\ tRow' \in [Hashes -> TakerRows] /\ \A g \in Hashes \ {h} : tRow'[g] = tRow[g]
  BY <1>4, <1>5
<1> QED
  BY <1>2, <1>3, <1>5, <1>6 DEF tSaveEnds, tRowOf

\* The end of a save other than the first keeps the invariant,
LEMMA TakerSaveIsOver ==
  ASSUME TakerIInv, NEW h \in Hashes, NEW tag \in SaveTags \ {"sending"}, tSaveEnds(h, tag),
         UNCHANGED <<netVars, tUp, tDrawn, tDeal, tBegin, tSend, tResolve, tTimers, tSub, tCancel, tRecover>>
  PROVE  TakerIInv'
<1> USE DEF netVars, legs
<1>1. tHashInv(h) /\ TakerTypeOK
  BY DEF TakerIInv
<1>2. TakerTypeOK' /\ \A g \in Hashes \ {h} : tSameFor(g)
  BY <1>1 DEF tSaveEnds, TakerTypeOK, NetTypeOK, tSameFor
<1>3. tDeal[h].phase \in Paying
  BY <1>1 DEF tSaveEnds, tHashInv, tSaveInv, SaveTags, Paying
<1>4. tDealInv(h)' /\ tFreshInv(h)' /\ tStageInv(h)'
  BY <1>1, <1>3 DEF tSaveEnds, tHashInv, tDealInv, tFreshInv, tStageInv, Paying
<1>5. tSaveInv(h)' /\ tPayInv(h)'
  BY <1>1 DEF tSaveEnds, tHashInv, tSaveInv, tPayInv, SaveTags, NoSave
<1> QED
  BY <1>2, <1>4, <1>5, TakerLocalStep DEF tHashInv

\* as does the end of the first, after which the payment is sent for a row that says so.
LEMMA TakerFirstSave ==
  ASSUME TakerIInv, NEW h \in Hashes, TakerSavedSending(h)
  PROVE  TakerIInv'
<1>1. tHashInv(h) /\ TakerTypeOK
  BY DEF TakerIInv
<1>2. tSaveEnds(h, "sending") /\ tRow'[h].phase \in Paying
  BY TakerWritesRow DEF TakerSavedSending, SaveTags
<1>3. /\ UNCHANGED <<packets, firstInv, secondInv, secondPay, tUp, tDrawn, tDeal, tBegin,
                     tResolve, tTimers, tSub, tCancel, tRecover>>
      /\ tSend' = [tSend EXCEPT ![h] = "sending"]
      /\ firstPay' \in {firstPay, [firstPay EXCEPT ![h] = "inflight"]}
  BY DEF TakerSavedSending
<1>4. TakerTypeOK' /\ \A g \in Hashes \ {h} : tSameFor(g)
  BY <1>1, <1>2, <1>3 DEF tSaveEnds, TakerTypeOK, NetTypeOK, tSameFor, SendStates, PayStates
<1>5. tDeal[h].phase \in Paying /\ tSend[h] = "saving" /\ tSend'[h] = "sending"
  BY <1>1, <1>2, <1>3 DEF tSaveEnds, tHashInv, tSaveInv, tStageInv, TakerTypeOK
<1>6. tDealInv(h)' /\ tFreshInv(h)' /\ tStageInv(h)'
  BY <1>1, <1>2, <1>3, <1>5 DEF tSaveEnds, tHashInv, tDealInv, tFreshInv, tStageInv, Paying, Asking
<1>7. tSaveInv(h)' /\ tPayInv(h)'
  BY <1>1, <1>2, <1>3, <1>5 DEF tSaveEnds, tHashInv, tSaveInv, tPayInv, SaveTags, NoSave
<1> QED
  BY <1>4, <1>6, <1>7, TakerLocalStep DEF tHashInv

\* The three ways in which a save ends without stopping the process.
LEMMA TakerSaveSteps ==
  ASSUME TakerIInv, NEW h \in Hashes, TakerSavedLater(h) \/ TakerSaveLaterRejected(h)
  PROVE  TakerIInv'
<1>1. CASE TakerSavedLater(h)
  <2>1. PICK tag \in {"received", "failed"} :
          /\ IsNextWrite(tSaves[h], tag)
          /\ tWriteRow(h, tag)
          /\ tSaves' = [tSaves EXCEPT ![h][tag] = NoSave]
          /\ UNCHANGED <<netVars, tUp, tDrawn, tDeal, tBegin, tSend, tResolve, tTimers, tSub, tCancel,
                         tRecover>>
    BY <1>1 DEF TakerSavedLater
  <2>2. tag \in SaveTags \ {"sending"}
    BY DEF SaveTags
  <2> QED
    BY <2>1, <2>2, TakerWritesRow, TakerSaveIsOver
<1>2. CASE TakerSaveLaterRejected(h)
  <2>1. TakerTypeOK /\ tSaves[h]["failed"].stage # "none" /\ "failed" \in SaveTags \ {"sending"}
    BY <1>2 DEF TakerIInv, TakerSaveLaterRejected, IsRejected, IsNextRead, IsNextWrite, SaveTags
  <2>2. tSaveEnds(h, "failed")
    BY <1>2, <2>1, TakerSetsSave, TakerSaveTypes DEF TakerSaveLaterRejected, tSaveEnds, TakerTypeOK
  <2> QED
    BY <1>2, <2>1, <2>2, TakerSaveIsOver DEF TakerSaveLaterRejected
<1> QED
  BY <1>1, <1>2

-----------------------------------------------------------------------------
(* A stop and a start of the process *)

\* A stop loses everything in memory, and keeps what the row and LND know, even when an invoice
\* of a drawn hash was opened just before.
LEMMA TakerProcessStops ==
  ASSUME TakerIInv, tStops, UNCHANGED <<packets, firstInv, firstPay, secondPay>>,
         \/ UNCHANGED secondInv
         \/ \E h \in tDrawn : secondInv[h] = "none" /\ secondInv' = [secondInv EXCEPT ![h] = "open"]
  PROVE  TakerIInv'
<1> USE DEF tStops
<1>1. TakerTypeOK /\ tDrawn \subseteq Hashes
  BY DEF TakerIInv, TakerTypeOK
<1>2. /\ secondInv' \in [Hashes -> InvStates]
      /\ \A h \in Hashes : /\ secondInv[h] = "settled" => secondInv'[h] = "settled"
                           /\ h \notin tDrawn => secondInv'[h] = secondInv[h]
  BY <1>1 DEF TakerTypeOK, NetTypeOK, InvStates
<1>3. TakerTypeOK'
  BY <1>1, <1>2 DEF TakerTypeOK, NetTypeOK, NoDeal, TakerDeals, Deals, Phases, States, SendStates,
     ClaimStates, NoSaves, NoSave, Saves
<1>4. ASSUME NEW h \in Hashes PROVE tHashInv(h)'
  <2>1. tHashInv(h)
    BY DEF TakerIInv
  <2>2. tDealInv(h)' /\ tFreshInv(h)' /\ tStageInv(h)'
    BY <1>2, <2>1 DEF tHashInv, tDealInv, tFreshInv, tStageInv, NoDeal, Asking, Paying
  <2>3. tSaveInv(h)' /\ tPayInv(h)'
    BY <1>2, <2>1 DEF tHashInv, tSaveInv, tPayInv, NoDeal, NoSaves, NoSave, SaveTags
  <2> QED
    BY <2>2, <2>3 DEF tHashInv
<1> QED
  BY <1>3, <1>4 DEF TakerIInv

\* The steps that stop the process.
LEMMA TakerStopSteps ==
  ASSUME TakerIInv, NEW h \in Hashes,
         \/ TakerSaveSendingRejected(h) \/ TakerAborts(h) \/ TakerCrashes
         \/ TakerAddsInvoice(h) /\ tDeal[h].state # "Active"
         \/ TakerCompletes(h) /\ tDeal[h].state # "Active"
  PROVE  TakerIInv'
<1> USE DEF netVars, legs
<1>1. CASE TakerAddsInvoice(h) /\ tDeal[h].state # "Active"
  <2>1. tHashInv(h)
    BY DEF TakerIInv
  <2>2. h \in tDrawn /\ secondInv[h] = "none"
    BY <1>1, <2>1 DEF TakerAddsInvoice, tHashInv, tStageInv, tFreshInv, Asking
  <2> QED
    BY <1>1, <2>2, TakerProcessStops DEF TakerAddsInvoice
<1> QED
  BY <1>1, TakerProcessStops DEF TakerSaveSendingRejected, TakerAborts, TakerCrashes, TakerCompletes

-----------------------------------------------------------------------------
(* The invariant *)

\* The initial states satisfy the invariant.
LEMMA TakerStarts ==
  ASSUME TakerWorldInit
  PROVE  TakerIInv
<1> USE DEF TakerWorldInit, NetInit, TakerInit
<1>1. TakerTypeOK
  BY DEF TakerTypeOK, NetTypeOK, Packets, InvStates, PayStates, NoDeal, TakerDeals, Deals, Phases, States,
     SendStates, ClaimStates, NoSaves, NoSave, Saves, NoRow, TakerRows, Rows
<1>2. ASSUME NEW h \in Hashes PROVE tHashInv(h)
  BY DEF tHashInv, tDealInv, tFreshInv, tStageInv,
       tSaveInv, tPayInv, NoDeal, NoRow, NoSaves, NoSave, SaveTags, Paying, Asking
<1> QED
  BY <1>1, <1>2 DEF TakerIInv

\* Every step preserves the invariant.
LEMMA TakerSteps ==
  ASSUME TakerIInv, [TakerWorld]_TakerVars
  PROVE  TakerIInv'
<1>1. ASSUME NEW h \in Hashes, TakerSwaps(h) PROVE TakerIInv'
  BY <1>1, TakerControlSteps, TakerBeginSteps, TakerFailSteps, TakerInvoiceSteps, TakerInvoiceAdded,
     TakerSwapCompletes, TakerStopSteps DEF TakerSwaps
<1>2. ASSUME NEW h \in Hashes, TakerSaves(h) PROVE TakerIInv'
  BY <1>2, TakerCopies, TakerFirstSave, TakerSaveSteps, TakerStopSteps DEF TakerSaves
<1>3. ASSUME NEW h \in Hashes, TakerEnv(h) PROVE TakerIInv'
  BY <1>3, TakerEnvSteps, TakerInvoiceSteps DEF TakerEnv
<1>4. CASE TakerCrashes
  BY <1>4, TakerProcessStops DEF TakerCrashes, netVars, legs
<1>5. CASE TakerRestarts \/ UNCHANGED TakerVars
  <2>1. TakerTypeOK' /\ \A g \in Hashes : tSameFor(g)
    BY <1>5 DEF TakerRestarts, TakerVars, tVars, netVars, legs, TakerIInv, TakerTypeOK, NetTypeOK, tSameFor
  <2> QED
    BY <2>1, TakerFrame DEF TakerIInv
<1> QED
  BY <1>1, <1>2, <1>3, <1>4, <1>5 DEF TakerWorld, TakerNext

\* TakerIInv is an invariant of the taker's side of a swap.
THEOREM TakerInvariance == TakerSpec => []TakerIInv
  BY TakerStarts, TakerSteps, PTL DEF TakerSpec

-----------------------------------------------------------------------------
(* What follows from it *)

\* Every variable keeps its type: a taker's deal is never in a phase that only a maker sets, and
\* saveSwapDeal writes no row before SendingPayment.
THEOREM TakerTypeCorrect == TakerSpec => []TakerTypeOK
<1>1. TakerIInv => TakerTypeOK
  BY DEF TakerIInv
<1> QED
  BY <1>1, TakerInvariance, PTL

\* A deal that setDealPhase(PaymentReceived) completed, or a row that says so, has a settled invoice:
\* the taker has its funds, and keeps them through every restart.
THEOREM TakerSucceedsForReal == TakerSpec => []TakerSuccessIsReal
<1>1. TakerIInv => TakerSuccessIsReal
  BY DEF TakerIInv, tHashInv, tPayInv, TakerSuccessIsReal
<1> QED
  BY <1>1, TakerInvariance, PTL

\* handleSwapAccepted only pays for a deal whose row says that it is paying.
THEOREM TakerWritesBeforePaying == TakerSpec => []TakerWritesAhead
<1>1. TakerIInv => TakerWritesAhead
  BY DEF TakerIInv, tHashInv, tPayInv, Paying, TakerWritesAhead
<1> QED
  BY <1>1, TakerInvariance, PTL

\* handleSwapTimeout finds an active deal for every accept timer and swap timer that is
\* running, and every active deal has one, or is about to.
THEOREM TakerTimersFindDeals == TakerSpec => []TakerTimersMatchDeals
<1>1. TakerIInv => TakerTimersMatchDeals
  BY DEF TakerIInv, TakerTypeOK, tHashInv, tDealInv, TakerTimersMatchDeals
<1> QED
  BY <1>1, TakerInvariance, PTL
=============================================================================
