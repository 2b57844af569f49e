---------------------------- MODULE Maker_proofs ----------------------------
(***************************************************************************)
(* Proofs about the maker's side of a swap: its type invariant, and what   *)
(* it promises whatever the taker does, for every set of hashes and of     *)
(* faults.                                                                 *)
(***************************************************************************)
EXTENDS Maker, TLAPS

-----------------------------------------------------------------------------
(* The inductive invariant, for one hash *)

Sending == {"SendingPayment", "PreimageResolved", "PaymentReceived"}
Resolved == {"PreimageResolved", "PaymentReceived"}
Unpaid == {"none", "failed"}

\* Phase and state of the deal go together, and with the map and the timers.
DealInv(h) ==
  /\ mDeal[h].phase = "None" <=> mDeal[h].state = "None"
  /\ mDeal[h].state # "Recovered"
  /\ mDeal[h].state = "Completed" <=> mDeal[h].phase = "PaymentReceived"
  /\ mDeal[h].state = "Error" => mDeal[h].phase \in {"SwapCreated", "SwapAccepted", "SendingPayment"}
  /\ mDeal[h].state = "Active" => h \in mDeals
  /\ h \in mDeals => mDeal[h].phase # "None"
  /\ h \in mTimers => /\ mDeal[h].state = "Active"
                      /\ mDeal[h].phase \in {"SwapAccepted", "SendingPayment"}
  /\ mDeal[h].state = "Active" /\ mDeal[h].phase = "SwapAccepted" => h \in mTimers
  /\ h \in mCancel => mDeal[h].state = "Error"

\* What a hash without a deal in memory has none of.
FreshInv(h) ==
  /\ mDeal[h].phase = "None" =>
       /\ mAccept[h] = "idle" /\ mResolve[h] = "idle" /\ mSaves[h] = NoSaves
       /\ h \notin mSub
  /\ mUp /\ (mDeal[h].phase # "None" \/ mRow[h].phase # "None") => h \in mUsed
  /\ ~mUp => mDeal[h].phase = "None" /\ mRecover[h] = "none"

\* Where acceptDeal and resolveHash are says what phase the deal is in.
StageInv(h) ==
  /\ mAccept[h] \in {"route", "invoice"} => mDeal[h].phase = "SwapCreated"
  /\ mDeal[h].state = "Active" /\ mDeal[h].phase = "SwapCreated" => mAccept[h] # "idle"
  /\ mResolve[h] = "saving" =>
       /\ mDeal[h].phase = "SendingPayment"
       /\ mDeal[h].state = "Active" => firstInv[h] = "accepted"
  /\ mResolve[h] \in {"sending", "lookup", "monitor"} =>
       /\ mDeal[h] = [phase |-> "SendingPayment", state |-> "Active"]
       /\ mRow[h].phase = "SendingPayment"
  /\ mResolve[h] \in {"settling", "retry"} =>
       mDeal[h] = [phase |-> "PreimageResolved", state |-> "Active"]

\* Which saves may be under way,
StagedInv(h) ==
  /\ mSaves[h]["accepted"].stage # "none" =>
       mDeal[h].phase \in {"SwapAccepted", "SendingPayment"} /\ mRow[h].phase = "None"
  /\ mSaves[h]["accepted"].stage # "none" <=> mAccept[h] = "saving"
  /\ mSaves[h]["sending"].stage # "none" <=> mResolve[h] = "saving"
  /\ mSaves[h]["resolved"].stage # "none" => mDeal[h].phase \in Resolved
  /\ mSaves[h]["received"].stage # "none" => mDeal[h].phase = "PaymentReceived"
  /\ mSaves[h]["failed"].stage # "none" =>
       mDeal[h].state = "Error" /\ mDeal[h].phase # "SwapCreated"
  /\ mResolve[h] \in {"sending", "lookup", "monitor"} => mSaves[h]["accepted"].stage = "none"

\* and what they have copied.
CopyInv(h) ==
  \A tag \in SaveTags : mSaves[h][tag].stage = "read" =>
       LET copy == mSaves[h][tag].deal IN
       /\ copy.phase \in {"SwapAccepted"} \cup Sending
       /\ copy.state \in {"Active", mDeal[h].state}
       /\ copy.state = "Active" => copy.phase # "PaymentReceived"
       /\ copy.phase \in Sending => mDeal[h].phase \in Sending
       /\ copy.phase \in Resolved => mDeal[h].phase \in Resolved
       /\ copy.phase = "SwapAccepted" => tag = "accepted" \/ mDeal[h].phase = "SwapAccepted"

SaveInv(h) == StagedInv(h) /\ CopyInv(h)

\* What the row says of a deal in memory and of the payment.
RowInv(h) ==
  /\ mDeal[h].phase = "SwapCreated" => mRow[h].phase = "None"
  /\ mDeal[h].phase = "SwapAccepted" => mRow[h].phase \in {"None", "SwapAccepted"}
  /\ mRow[h].preimage => secondPay[h] = "succeeded"
  /\ mRow[h].phase # "None" => mRow[h].state # "None"
  /\ mRow[h].state = "Active" => mRow[h].phase # "PaymentReceived"

\* What has become of the payment.
PayInv(h) ==
  /\ mDeal[h].phase \in Resolved => secondPay[h] = "succeeded"
  /\ mDeal[h].state = "Error" \/ mRow[h].state = "Error" => secondPay[h] \in Unpaid
  /\ mResolve[h] = "saving" => secondPay[h] = "none"
  /\ secondPay[h] # "none" => mRow[h].phase \in Sending
  /\ secondPay[h] \in {"inflight", "succeeded"} => firstInv[h] \in {"accepted", "settled"}
  /\ firstInv[h] = "settled" => secondPay[h] = "succeeded"
  /\ mDeal[h].state = "Completed" \/ mRow[h].state \in {"Completed", "Recovered"}
       => firstInv[h] = "settled"

\* What recovery works on.
RecoverInv(h) ==
  /\ mRecover[h] # "none" => mDeal[h].phase = "None" /\ mRow[h].phase # "None"
  /\ mRecover[h] \in {"canceling", "pending", "known", "claiming"} => mRow[h].state = "Active"
  /\ mRecover[h] = "canceling" => secondPay[h] \in Unpaid
  /\ mRecover[h] \in {"known", "claiming"} => secondPay[h] = "succeeded"

\* The parts together.
HashInv(h) ==
  /\ DealInv(h) /\ FreshInv(h) /\ StageInv(h) /\ SaveInv(h)
  /\ RowInv(h) /\ PayInv(h) /\ RecoverInv(h)

MakerIInv == MakerTypeOK /\ \A h \in Hashes : HashInv(h)

-----------------------------------------------------------------------------
(* Changing one field of one deal, row or save *)

MakerPhases == Phases \ {"SwapRequested"}

\* Changing the phase of one deal changes nothing else.
LEMMA PhaseSet ==
  ASSUME NEW f \in [Hashes -> MakerDeals], NEW h \in Hashes, NEW p \in MakerPhases
  PROVE  /\ [f EXCEPT ![h].phase = p] \in [Hashes -> MakerDeals]
         /\ [f EXCEPT ![h].phase = p][h] = [phase |-> p, state |-> f[h].state]
         /\ \A g \in Hashes \ {h} : [f EXCEPT ![h].phase = p][g] = f[g]
<1>1. f[h] \in Deals
  BY DEF MakerDeals
<1>2. [f[h] EXCEPT !.phase = p] = [phase |-> p, state |-> f[h].state]
  BY <1>1 DEF Deals
<1>3. [phase |-> p, state |-> f[h].state] \in MakerDeals
  BY <1>1 DEF MakerDeals, Deals, MakerPhases
<1> QED
  BY <1>2, <1>3

\* Changing the state of one deal changes nothing else.
LEMMA StateSet ==
  ASSUME NEW f \in [Hashes -> MakerDeals], NEW h \in Hashes, NEW s \in States
  PROVE  /\ [f EXCEPT ![h].state = s] \in [Hashes -> MakerDeals]
         /\ [f EXCEPT ![h].state = s][h] = [phase |-> f[h].phase, state |-> s]
         /\ \A g \in Hashes \ {h} : [f EXCEPT ![h].state = s][g] = f[g]
<1>1. f[h] \in Deals
  BY DEF MakerDeals
<1>2. [f[h] EXCEPT !.state = s] = [phase |-> f[h].phase, state |-> s]
  BY <1>1 DEF Deals
<1>3. [phase |-> f[h].phase, state |-> s] \in MakerDeals
  BY <1>1 DEF MakerDeals, Deals
<1> QED
  BY <1>2, <1>3

\* Changing one save of one hash changes nothing else.
LEMMA SaveSet ==
  ASSUME NEW f \in [Hashes -> [SaveTags -> Saves]], NEW h \in Hashes, NEW tag \in SaveTags, NEW s \in Saves
  PROVE  /\ [f EXCEPT ![h][tag] = s] \in [Hashes -> [SaveTags -> Saves]]
         /\ [f EXCEPT ![h][tag] = s][h] = [f[h] EXCEPT ![tag] = s]
         /\ \A g \in Hashes \ {h} : [f EXCEPT ![h][tag] = s][g] = f[g]
  OBVIOUS

\* Changing the state of one row changes nothing else.
LEMMA RowStateSet ==
  ASSUME NEW f \in [Hashes -> MakerRows], NEW h \in Hashes, NEW s \in States
  PROVE  /\ [f EXCEPT ![h].state = s] \in [Hashes -> MakerRows]
         /\ [f EXCEPT ![h].state = s][h].phase = f[h].phase
         /\ [f EXCEPT ![h].state = s][h].state = s
         /\ [f EXCEPT ![h].state = s][h].preimage = f[h].preimage
         /\ \A g \in Hashes \ {h} : [f EXCEPT ![h].state = s][g] = f[g]
<1>1. f[h] \in Rows /\ f[h].phase \notin {"SwapCreated", "SwapRequested"}
  BY DEF MakerRows
<1>2. [f[h] EXCEPT !.state = s] = [phase |-> f[h].phase, state |-> s, preimage |-> f[h].preimage]
  BY <1>1 DEF Rows
<1>3. [phase |-> f[h].phase, state |-> s, preimage |-> f[h].preimage] \in MakerRows
  BY <1>1 DEF MakerRows, Rows
<1> QED
  BY <1>2, <1>3

\* Setting the preimage of one row changes nothing else.
LEMMA PreimageSet ==
  ASSUME NEW f \in [Hashes -> MakerRows], NEW h \in Hashes, NEW b \in BOOLEAN
  PROVE  /\ [f EXCEPT ![h].preimage = b] \in [Hashes -> MakerRows]
         /\ [f EXCEPT ![h].preimage = b][h].phase = f[h].phase
         /\ [f EXCEPT ![h].preimage = b][h].state = f[h].state
         /\ \A g \in Hashes \ {h} : [f EXCEPT ![h].preimage = b][g] = f[g]
<1>1. f[h] \in Rows /\ f[h].phase \notin {"SwapCreated", "SwapRequested"}
  BY DEF MakerRows
<1>2. [f[h] EXCEPT !.preimage = b] = [phase |-> f[h].phase, state |-> f[h].state, preimage |-> b]
  BY <1>1 DEF Rows
<1>3. [phase |-> f[h].phase, state |-> f[h].state, preimage |-> b] \in MakerRows
  BY <1>1 DEF MakerRows, Rows
<1> QED
  BY <1>2, <1>3

\* The saves that steps issue and clear.
LEMMA IssuedIsSave ==
  Issued \in Saves /\ NoSave \in Saves
  BY DEF Issued, NoSave, Saves, NoDeal, Deals, Phases, States

\* A deal enters a phase.
LEMMA SetsPhase ==
  ASSUME MakerTypeOK, NEW h \in Hashes, NEW phase \in MakerPhases,
         mDeal' = [mDeal EXCEPT ![h].phase = phase]
  PROVE  /\ mDeal' \in [Hashes -> MakerDeals]
         /\ mDeal'[h] = [phase |-> phase, state |-> mDeal[h].state]
         /\ \A g \in Hashes \ {h} : mDeal'[g] = mDeal[g]
<1>1. mDeal \in [Hashes -> MakerDeals]
  BY DEF MakerTypeOK
<1> QED
  BY <1>1, PhaseSet

\* A save is issued, copies the deal, or ends.
LEMMA SetsSave ==
  ASSUME MakerTypeOK, NEW h \in Hashes, NEW tag \in SaveTags, NEW save \in Saves,
         mSaves' = [mSaves EXCEPT ![h][tag] = save]
  PROVE  /\ mSaves' \in [Hashes -> [SaveTags -> Saves]]
         /\ mSaves'[h] = [mSaves[h] EXCEPT ![tag] = save]
         /\ \A g \in Hashes \ {h} : mSaves'[g] = mSaves[g]
<1>1. mSaves \in [Hashes -> [SaveTags -> Saves]]
  BY DEF MakerTypeOK
<1> QED
  BY <1>1, SaveSet

-----------------------------------------------------------------------------
(* Hashes do not interfere *)

\* What a step for another hash leaves alone.
SameFor(g) ==
  /\ mUp' = mUp
  /\ (g \in mUsed' <=> g \in mUsed) /\ (g \in mDeals' <=> g \in mDeals)
  /\ (g \in mTimers' <=> g \in mTimers) /\ (g \in mSub' <=> g \in mSub)
  /\ (g \in mCancel' <=> g \in mCancel)
  /\ mDeal'[g] = mDeal[g] /\ mRow'[g] = mRow[g] /\ mSaves'[g] = mSaves[g]
  /\ mAccept'[g] = mAccept[g] /\ mResolve'[g] = mResolve[g] /\ mRecover'[g] = mRecover[g]
  /\ firstInv'[g] = firstInv[g] /\ secondPay'[g] = secondPay[g]

\* The invariant of a hash depends on what is kept for that hash alone.
LEMMA Frame ==
  ASSUME NEW g \in Hashes, HashInv(g), SameFor(g)
  PROVE  HashInv(g)'
<1>1. DealInv(g)'
  BY DEF SameFor, HashInv, DealInv
<1>2. FreshInv(g)'
  BY DEF SameFor, HashInv, FreshInv
<1>3. StageInv(g)'
  BY DEF SameFor, HashInv, StageInv
<1>4. SaveInv(g)'
  BY DEF SameFor, HashInv, SaveInv, StagedInv, CopyInv
<1>5. RowInv(g)' /\ PayInv(g)' /\ RecoverInv(g)'
  BY DEF SameFor, HashInv, RowInv, PayInv, RecoverInv
<1> QED
  BY <1>1, <1>2, <1>3, <1>4, <1>5 DEF HashInv

\* So a step for h needs to be looked at for h only.
LEMMA LocalStep ==
  ASSUME MakerIInv, NEW h \in Hashes, MakerTypeOK', HashInv(h)',
         \A g \in Hashes \ {h} : SameFor(g)
  PROVE  MakerIInv'
  BY Frame DEF MakerIInv

-----------------------------------------------------------------------------
(* Steps that only move control *)

\* Steps that move one control variable, or only send a packet.
LEMMA ControlSteps ==
  ASSUME MakerIInv, NEW h \in Hashes,
         \/ MakerRejects(h) \/ MakerFindsRoute(h) \/ MakerIgnoresHtlc(h)
         \/ MakerSendPaymentThrows(h) \/ MakerMonitorsPayment(h) \/ MakerSettleThrows(h)
         \/ MakerLosesSubscription(h) \/ MakerRecoveryClaims(h) \/ MakerClaimThrows(h)
  PROVE  MakerIInv'
<1> USE DEF mHtlcReported, netVars, legs, mVars
<1>1. HashInv(h) /\ MakerTypeOK
  BY DEF MakerIInv
<1>2. CASE MakerRejects(h)
  <2>1. MakerTypeOK'
    BY <1>1, <1>2 DEF MakerRejects, MakerTypeOK, NetTypeOK, sendPacket, Packet, Packets, PacketTypes
  <2>2. \A g \in Hashes \ {h} : SameFor(g)
    BY <1>1, <1>2 DEF MakerRejects, MakerTypeOK, SameFor
  <2>3. HashInv(h)'
    BY <1>1, <1>2 DEF MakerRejects, MakerTypeOK, HashInv, DealInv, FreshInv, StageInv, SaveInv, StagedInv,
       CopyInv,
       RowInv, PayInv, RecoverInv
  <2> QED
    BY <2>1, <2>2, <2>3, LocalStep
<1>3. CASE MakerFindsRoute(h)
  <2>1. MakerTypeOK'
    BY <1>1, <1>3 DEF MakerFindsRoute, MakerTypeOK, NetTypeOK, AcceptStates
  <2>2. \A g \in Hashes \ {h} : SameFor(g)
    BY <1>1, <1>3 DEF MakerFindsRoute, MakerTypeOK, SameFor
  <2>3. HashInv(h)'
    BY <1>1, <1>3 DEF MakerFindsRoute, MakerTypeOK, HashInv, DealInv, FreshInv, StageInv, SaveInv,
       StagedInv, CopyInv,
       RowInv, PayInv, RecoverInv
  <2> QED
    BY <2>1, <2>2, <2>3, LocalStep
<1>4. CASE MakerIgnoresHtlc(h)
  <2>1. MakerTypeOK'
    BY <1>1, <1>4 DEF MakerIgnoresHtlc, MakerTypeOK, NetTypeOK, ResolveStates
  <2>2. \A g \in Hashes \ {h} : SameFor(g)
    BY <1>1, <1>4 DEF MakerIgnoresHtlc, MakerTypeOK, SameFor
  <2>3. HashInv(h)'
    BY <1>1, <1>4 DEF MakerIgnoresHtlc, MakerTypeOK, HashInv, DealInv, FreshInv, StageInv, SaveInv,
       StagedInv, CopyInv,
       RowInv, PayInv, RecoverInv
  <2> QED
    BY <2>1, <2>2, <2>3, LocalStep
<1>5. CASE MakerSendPaymentThrows(h)
  <2>1. MakerTypeOK'
    BY <1>1, <1>5 DEF MakerSendPaymentThrows, MakerTypeOK, NetTypeOK, ResolveStates
  <2>2. \A g \in Hashes \ {h} : SameFor(g)
    BY <1>1, <1>5 DEF MakerSendPaymentThrows, MakerTypeOK, SameFor
  <2>3. HashInv(h)'
    BY <1>1, <1>5 DEF MakerSendPaymentThrows, MakerTypeOK, HashInv, DealInv, FreshInv, StageInv, SaveInv,
       StagedInv, CopyInv,
       RowInv, PayInv, RecoverInv
  <2> QED
    BY <2>1, <2>2, <2>3, LocalStep
<1>6. CASE MakerMonitorsPayment(h)
  <2>1. MakerTypeOK'
    BY <1>1, <1>6 DEF MakerMonitorsPayment, MakerTypeOK, NetTypeOK, ResolveStates
  <2>2. \A g \in Hashes \ {h} : SameFor(g)
    BY <1>1, <1>6 DEF MakerMonitorsPayment, MakerTypeOK, SameFor
  <2>3. HashInv(h)'
    BY <1>1, <1>6 DEF MakerMonitorsPayment, MakerTypeOK, HashInv, DealInv, FreshInv, StageInv, SaveInv,
       StagedInv, CopyInv,
       RowInv, PayInv, RecoverInv
  <2> QED
    BY <2>1, <2>2, <2>3, LocalStep
<1>7. CASE MakerSettleThrows(h)
  <2>1. MakerTypeOK'
    BY <1>1, <1>7 DEF MakerSettleThrows, MakerTypeOK, NetTypeOK, ResolveStates
  <2>2. \A g \in Hashes \ {h} : SameFor(g)
    BY <1>1, <1>7 DEF MakerSettleThrows, MakerTypeOK, SameFor
  <2>3. HashInv(h)'
    BY <1>1, <1>7 DEF MakerSettleThrows, MakerTypeOK, HashInv, DealInv, FreshInv, StageInv, SaveInv,
       StagedInv, CopyInv,
       RowInv, PayInv, RecoverInv
  <2> QED
    BY <2>1, <2>2, <2>3, LocalStep
<1>8. CASE MakerLosesSubscription(h)
  <2>1. MakerTypeOK'
    BY <1>1, <1>8 DEF MakerLosesSubscription, MakerTypeOK, NetTypeOK
  <2>2. \A g \in Hashes \ {h} : SameFor(g)
    BY <1>1, <1>8 DEF MakerLosesSubscription, MakerTypeOK, SameFor
  <2>3. HashInv(h)'
    BY <1>1, <1>8 DEF MakerLosesSubscription, MakerTypeOK, HashInv, DealInv, FreshInv, StageInv, SaveInv,
       StagedInv, CopyInv,
       RowInv, PayInv, RecoverInv
  <2> QED
    BY <2>1, <2>2, <2>3, LocalStep
<1>9. CASE MakerRecoveryClaims(h)
  <2>1. MakerTypeOK'
    BY <1>1, <1>9 DEF MakerRecoveryClaims, MakerTypeOK, NetTypeOK, RecoverStates
  <2>2. \A g \in Hashes \ {h} : SameFor(g)
    BY <1>1, <1>9 DEF MakerRecoveryClaims, MakerTypeOK, SameFor
  <2>3. HashInv(h)'
    BY <1>1, <1>9 DEF MakerRecoveryClaims, MakerTypeOK, HashInv, DealInv, FreshInv, StageInv, SaveInv,
       StagedInv, CopyInv,
       RowInv, PayInv, RecoverInv
  <2> QED
    BY <2>1, <2>2, <2>3, LocalStep
<1>10. CASE MakerClaimThrows(h)
  <2>1. MakerTypeOK'
    BY <1>1, <1>10 DEF MakerClaimThrows, MakerTypeOK, NetTypeOK, RecoverStates
  <2>2. \A g \in Hashes \ {h} : SameFor(g)
    BY <1>1, <1>10 DEF MakerClaimThrows, MakerTypeOK, SameFor
  <2>3. HashInv(h)'
    BY <1>1, <1>10 DEF MakerClaimThrows, MakerTypeOK, HashInv, DealInv, FreshInv, StageInv, SaveInv,
       StagedInv, CopyInv,
       RowInv, PayInv, RecoverInv
  <2> QED
    BY <2>1, <2>2, <2>3, LocalStep
<1> QED
  BY <1>2, <1>3, <1>4, <1>5, <1>6, <1>7, <1>8, <1>9, <1>10

-----------------------------------------------------------------------------
(* Steps that fail a deal *)

\* What failing a deal leaves behind.
FailEffect(h, pending) ==
  /\ packets' \subseteq Packets
  /\ mTimers' \subseteq Hashes /\ mCancel' \subseteq Hashes
  /\ mDeal' \in [Hashes -> MakerDeals] /\ mSaves' \in [Hashes -> [SaveTags -> Saves]]
  /\ \A g \in Hashes \ {h} :
       /\ mDeal'[g] = mDeal[g] /\ mSaves'[g] = mSaves[g]
       /\ (g \in mTimers' <=> g \in mTimers) /\ (g \in mCancel' <=> g \in mCancel)
  /\ mDeal[h].state = "Active" =>
       /\ mDeal'[h] = [phase |-> mDeal[h].phase, state |-> "Error"]
       /\ h \notin mTimers'
       /\ \A tag \in SaveTags \ {"failed"} : mSaves'[h][tag] = pending[tag]
       /\ \/ mSaves'[h]["failed"] = pending["failed"]
          \/ mSaves'[h]["failed"] = Issued /\ mDeal[h].phase # "SwapCreated"
  /\ mDeal[h].state # "Active" =>
       /\ mDeal'[h] = mDeal[h] /\ mSaves'[h] = pending
       /\ mTimers' = mTimers /\ mCancel' = mCancel

\* failDeal does what FailEffect says.
LEMMA FailDealEffect ==
  ASSUME MakerTypeOK, NEW h \in Hashes, NEW pending \in [SaveTags -> Saves],
         NEW tellPeer \in BOOLEAN, mFailDeal(h, pending, tellPeer)
  PROVE  FailEffect(h, pending)
<1>1. /\ Issued \in Saves /\ "failed" \in SaveTags /\ "Error" \in States
      /\ Packet("SwapFailed", "taker", h) \in Packets
  BY DEF Issued, Saves, NoDeal, Deals, Phases, States, SaveTags, Packet, Packets, PacketTypes
<1>2. [pending EXCEPT !["failed"] = Issued] \in [SaveTags -> Saves]
  BY <1>1
<1>3. CASE mDeal[h].state = "Active"
  <2>1. /\ mDeal' = [mDeal EXCEPT ![h].state = "Error"]
        /\ mTimers' = mTimers \ {h}
        /\ mCancel' \subseteq mCancel \cup {h} /\ mCancel \subseteq mCancel'
        /\ packets' \subseteq packets \cup {Packet("SwapFailed", "taker", h)}
    BY <1>3 DEF mFailDeal, mRemoveInvoice, sendPacket
  <2>2. PICK saves \in {pending, [pending EXCEPT !["failed"] = Issued]} :
          /\ mSaves' = [mSaves EXCEPT ![h] = saves]
          /\ mDeal[h].phase = "SwapCreated" => saves = pending
    BY <1>3 DEF mFailDeal, Persisted
  <2>3. /\ mDeal' \in [Hashes -> MakerDeals]
        /\ mDeal'[h] = [phase |-> mDeal[h].phase, state |-> "Error"]
        /\ \A g \in Hashes \ {h} : mDeal'[g] = mDeal[g]
    <3>1. mDeal \in [Hashes -> MakerDeals]
      BY DEF MakerTypeOK
    <3> QED
      BY <1>1, <2>1, <3>1, StateSet
  <2>4. mSaves' \in [Hashes -> [SaveTags -> Saves]]
    BY <1>2, <2>2 DEF MakerTypeOK
  <2> QED
    BY <1>1, <1>3, <2>1, <2>2, <2>3, <2>4 DEF MakerTypeOK, NetTypeOK, FailEffect
<1>4. CASE mDeal[h].state # "Active"
  BY <1>4 DEF mFailDeal, MakerTypeOK, NetTypeOK, FailEffect
<1> QED
  BY <1>3, <1>4

\* Clearing a save where there is none changes nothing.
LEMMA NoSavesCleared ==
  [NoSaves EXCEPT !["accepted"] = NoSave] = NoSaves
  BY DEF NoSaves


\* Any step that fails a deal whose payment cannot go through.
LEMMA DealFails ==
  ASSUME MakerIInv, NEW h \in Hashes, NEW tellPeer \in BOOLEAN,
         NEW pending \in {mSaves[h], [mSaves[h] EXCEPT !["accepted"] = NoSave]},
         mFailDeal(h, pending, tellPeer),
         mDeal[h].state = "Active" =>
           /\ mDeal[h].phase \in {"SwapCreated", "SwapAccepted", "SendingPayment"}
           /\ secondPay[h] \in Unpaid
           /\ mResolve'[h] \in {"idle", "saving", "done"},
         \/ mAccept' = mAccept /\ pending = mSaves[h]
         \/ /\ mAccept' = [mAccept EXCEPT ![h] = "idle"]
            /\ pending = mSaves[h] => mSaves[h]["accepted"].stage = "none",
         \/ mResolve' = mResolve
         \/ mResolve' = [mResolve EXCEPT ![h] = "done"] /\ mResolve[h] \in {"lookup", "monitor"},
         UNCHANGED <<legs, mUp, mUsed, mDeals, mRow, mSub, mRecover>>
  PROVE  MakerIInv'
<1> USE DEF netVars, legs
<1>1. HashInv(h) /\ MakerTypeOK
  BY DEF MakerIInv
<1>2. pending \in [SaveTags -> Saves]
  BY <1>1, IssuedIsSave DEF MakerTypeOK
<1>3. FailEffect(h, pending)
  BY <1>1, <1>2, FailDealEffect
<1>4. MakerTypeOK'
  <2>1. mAccept' \in [Hashes -> AcceptStates]
    <3>1. mAccept \in [Hashes -> AcceptStates] /\ "idle" \in AcceptStates
      BY <1>1 DEF MakerTypeOK, AcceptStates
    <3>2. mAccept' = mAccept \/ mAccept' = [mAccept EXCEPT ![h] = "idle"]
      OBVIOUS
    <3> QED BY <3>1, <3>2
  <2>2. mResolve' \in [Hashes -> ResolveStates]
    <3>1. mResolve \in [Hashes -> ResolveStates] /\ "done" \in ResolveStates
      BY <1>1 DEF MakerTypeOK, ResolveStates
    <3>2. mResolve' = mResolve \/ mResolve' = [mResolve EXCEPT ![h] = "done"]
      OBVIOUS
    <3> QED BY <3>1, <3>2
  <2> QED
    BY <1>1, <1>3, <2>1, <2>2 DEF FailEffect, MakerTypeOK, NetTypeOK
<1>5. \A g \in Hashes \ {h} : SameFor(g)
  BY <1>1, <1>3 DEF FailEffect, SameFor, MakerTypeOK
<1>6. /\ mAccept'[h] \in {mAccept[h], "idle"}
      /\ mResolve'[h] = mResolve[h] \/ (mResolve'[h] = "done" /\ mResolve[h] \in {"lookup", "monitor"})
      /\ \A tag \in SaveTags : pending[tag] \in {mSaves[h][tag], NoSave}
      /\ \A tag \in SaveTags \ {"accepted"} : pending[tag] = mSaves[h][tag]
      /\ mSaves[h] = NoSaves => pending = NoSaves
      /\ pending["accepted"].stage # "none" <=> mAccept'[h] = "saving"
  <2>1. mSaves[h]["accepted"].stage # "none" <=> mAccept[h] = "saving"
    BY <1>1 DEF HashInv, SaveInv, StagedInv
  <2> QED
    BY <1>1, <2>1, NoSavesCleared DEF MakerTypeOK, NoSave, SaveTags
<1>7. ASSUME mDeal[h].state # "Active" PROVE HashInv(h)'
  <2>1. /\ mDeal'[h] = mDeal[h] /\ mSaves'[h] = pending
        /\ mTimers' = mTimers /\ mCancel' = mCancel
    BY <1>3, <1>7 DEF FailEffect
  <2>2. DealInv(h)' /\ FreshInv(h)' /\ StageInv(h)'
    BY <1>1, <1>6, <1>7, <2>1 DEF HashInv, DealInv, FreshInv, StageInv
  <2>3. SaveInv(h)'
    <3>1. StagedInv(h)'
      BY <1>1, <1>6, <1>7, <2>1 DEF HashInv, SaveInv, StagedInv, StageInv, SaveTags, NoSave
    <3>2. CopyInv(h)'
      BY <1>1, <1>6, <1>7, <2>1 DEF HashInv, SaveInv, StagedInv, CopyInv, StageInv, SaveTags, NoSave
    <3> QED BY <3>1, <3>2 DEF SaveInv
  <2>4. RowInv(h)' /\ PayInv(h)' /\ RecoverInv(h)'
    BY <1>1, <1>6, <2>1 DEF HashInv, RowInv, PayInv, RecoverInv
  <2> QED
    BY <2>2, <2>3, <2>4 DEF HashInv
<1>8. ASSUME mDeal[h].state = "Active" PROVE HashInv(h)'
  <2>1. /\ mDeal'[h] = [phase |-> mDeal[h].phase, state |-> "Error"]
        /\ h \notin mTimers'
        /\ \A tag \in SaveTags \ {"failed"} : mSaves'[h][tag] = pending[tag]
        /\ \/ mSaves'[h]["failed"] = pending["failed"]
           \/ mSaves'[h]["failed"] = Issued /\ mDeal[h].phase # "SwapCreated"
    BY <1>3, <1>8 DEF FailEffect
  <2>2. DealInv(h)' /\ FreshInv(h)'
    BY <1>1, <1>6, <1>8, <2>1 DEF HashInv, DealInv, FreshInv
  <2>3. StageInv(h)'
    BY <1>1, <1>6, <1>8, <2>1 DEF HashInv, StageInv
  <2>4. SaveInv(h)'
    <3>1. StagedInv(h)'
      BY <1>1, <1>6, <1>8, <2>1 DEF HashInv, SaveInv, StagedInv, StageInv, SaveTags, NoSave, Issued, Resolved
    <3>2. CopyInv(h)'
      BY <1>1, <1>6, <1>8, <2>1 DEF HashInv, SaveInv, StagedInv, CopyInv, StageInv, SaveTags, NoSave,
         Issued, Resolved
    <3> QED BY <3>1, <3>2 DEF SaveInv
  <2>5. RowInv(h)' /\ RecoverInv(h)'
    BY <1>1, <2>1 DEF HashInv, RowInv, RecoverInv
  <2>6. PayInv(h)'
    BY <1>1, <1>6, <1>8, <2>1 DEF HashInv, PayInv, Unpaid, Resolved
  <2> QED
    BY <2>2, <2>3, <2>4, <2>5, <2>6 DEF HashInv
<1> QED
  BY <1>4, <1>5, <1>7, <1>8, LocalStep

\* The five steps that call failDeal, and the timeout of a payment under way.
LEMMA FailSteps ==
  ASSUME MakerIInv, NEW h \in Hashes, mUp,
         \/ MakerCannotAccept(h) \/ MakerSaveAcceptedRejected(h) \/ MakerPaymentFailed(h)
         \/ MakerHandlesSwapFailed(h) \/ MakerTimesOut(h)
  PROVE  MakerIInv'
<1> USE DEF netVars, legs
<1>1. HashInv(h) /\ MakerTypeOK
  BY DEF MakerIInv
<1>2. CASE MakerCannotAccept(h)
  <2>1. /\ mDeal[h].phase = "SwapCreated" /\ secondPay[h] = "none" /\ mResolve[h] \in {"idle", "done"}
        /\ mSaves[h]["accepted"].stage = "none"
    BY <1>1, <1>2 DEF MakerCannotAccept, HashInv, StageInv, RowInv, PayInv, SaveInv, StagedInv, MakerTypeOK,
       Sending, ResolveStates
  <2> QED
    BY <1>2, <2>1, DealFails DEF MakerCannotAccept, Unpaid
<1>3. CASE MakerSaveAcceptedRejected(h)
  <2>1. mSaves[h]["accepted"].stage # "none"
    BY <1>3 DEF MakerSaveAcceptedRejected, IsRejected, IsNextRead, IsNextWrite
  <2>2. /\ mDeal[h].phase \in {"SwapAccepted", "SendingPayment"} /\ secondPay[h] = "none"
        /\ mResolve[h] \in {"idle", "saving", "done"}
    BY <1>1, <2>1 DEF HashInv, SaveInv, StagedInv, StageInv, PayInv, MakerTypeOK, ResolveStates, Sending
  <2>3. [mSaves[h] EXCEPT !["accepted"] = NoSave] = mSaves[h] => mSaves[h]["accepted"].stage = "none"
    BY <1>1 DEF MakerTypeOK, NoSave, SaveTags
  <2> QED
    BY <1>3, <2>2, <2>3, DealFails DEF MakerSaveAcceptedRejected, Unpaid
<1>4. CASE MakerPaymentFailed(h)
  <2>1. PICK tellPeer \in BOOLEAN : mFailDeal(h, mSaves[h], tellPeer)
    BY <1>4 DEF MakerPaymentFailed
  <2>2. /\ mDeal[h].phase = "SendingPayment" /\ secondPay[h] \in Unpaid
        /\ mResolve'[h] = "done"
    BY <1>1, <1>4 DEF MakerPaymentFailed, HashInv, StageInv, Unpaid, MakerTypeOK
  <2> QED
    BY <1>4, <2>1, <2>2, DealFails DEF MakerPaymentFailed
<1>5. CASE MakerHandlesSwapFailed(h)
  <2>1. mDeal[h].state = "Active" =>
          /\ mDeal[h].phase \in {"SwapCreated", "SwapAccepted"}
          /\ secondPay[h] = "none" /\ mResolve[h] \in {"idle", "done"}
    BY <1>1, <1>5 DEF MakerHandlesSwapFailed, HashInv, DealInv, StageInv, RowInv, PayInv, MakerTypeOK, 
       MakerDeals, Deals, Phases, Sending, ResolveStates
  <2> QED
    BY <1>5, <2>1, DealFails DEF MakerHandlesSwapFailed, Unpaid
<1>6. CASE MakerTimesOut(h) /\ mDeal[h].phase \in {"SwapAccepted", "SwapRequested"}
  <2>1. /\ mDeal[h].phase = "SwapAccepted"
        /\ secondPay[h] = "none" /\ mResolve[h] \in {"idle", "done"}
    BY <1>1, <1>6 DEF HashInv, StageInv, RowInv, PayInv, MakerTypeOK, MakerDeals, Sending, ResolveStates
  <2> QED
    BY <1>6, <2>1, DealFails DEF MakerTimesOut, Unpaid
<1>7. CASE MakerTimesOut(h) /\ mDeal[h].phase \notin {"SwapAccepted", "SwapRequested"}
  <2>1. MakerTypeOK'
    BY <1>1, <1>7 DEF MakerTimesOut, MakerTypeOK, NetTypeOK, sendPacket, Packet, Packets, PacketTypes
  <2>2. \A g \in Hashes \ {h} : SameFor(g)
    BY <1>7 DEF MakerTimesOut, SameFor
  <2>3. HashInv(h)'
    BY <1>1, <1>7 DEF MakerTimesOut, HashInv, DealInv, FreshInv, StageInv, SaveInv, StagedInv, CopyInv,
       RowInv, PayInv, RecoverInv
  <2> QED
    BY <2>1, <2>2, <2>3, LocalStep
<1> QED
  BY <1>2, <1>3, <1>4, <1>5, <1>6, <1>7

-----------------------------------------------------------------------------
(* The other party, the networks, LND *)

\* The other party, the networks, and what LND does with the invoice.
LEMMA InvoiceSteps ==
  ASSUME MakerIInv, NEW h \in Hashes,
         MakerInvoiceSettles(h) \/ MakerInvoiceCancels(h) \/ FirstHtlcExpires(h)
  PROVE  MakerIInv'
<1> USE DEF netVars, legs, mVars
<1>1. HashInv(h) /\ MakerTypeOK
  BY DEF MakerIInv
<1>2. CASE MakerInvoiceSettles(h)
  <2>1. secondPay[h] = "succeeded"
    BY <1>1, <1>2 DEF MakerInvoiceSettles, HashInv, StageInv, PayInv, RecoverInv, Resolved
  <2>2. MakerTypeOK'
    BY <1>1, <1>2 DEF MakerInvoiceSettles, MakerTypeOK, NetTypeOK, InvStates
  <2>3. \A g \in Hashes \ {h} : SameFor(g)
    BY <1>1, <1>2 DEF MakerInvoiceSettles, MakerTypeOK, NetTypeOK, SameFor
  <2>4. HashInv(h)'
    BY <1>1, <1>2, <2>1 DEF MakerInvoiceSettles, MakerTypeOK, NetTypeOK, HashInv, DealInv, FreshInv,
       StageInv, SaveInv, StagedInv, CopyInv, RowInv, PayInv, RecoverInv
  <2> QED
    BY <2>2, <2>3, <2>4, LocalStep
<1>3. CASE MakerInvoiceCancels(h)
  <2>1. mDeal[h].state = "Error" /\ secondPay[h] \in Unpaid
    BY <1>1, <1>3 DEF MakerInvoiceCancels, HashInv, DealInv, PayInv
  <2>2. MakerTypeOK'
    BY <1>1, <1>3 DEF MakerInvoiceCancels, MakerTypeOK, NetTypeOK, InvStates
  <2>3. \A g \in Hashes \ {h} : SameFor(g)
    BY <1>1, <1>3 DEF MakerInvoiceCancels, MakerTypeOK, NetTypeOK, SameFor
  <2>4. HashInv(h)'
    BY <1>1, <1>3, <2>1 DEF MakerInvoiceCancels, MakerTypeOK, NetTypeOK, HashInv, DealInv, FreshInv,
       StageInv, SaveInv, StagedInv, CopyInv, RowInv, PayInv, RecoverInv, Unpaid
  <2> QED
    BY <2>2, <2>3, <2>4, LocalStep
<1>4. CASE FirstHtlcExpires(h)
  <2>1. MakerTypeOK'
    BY <1>1, <1>4 DEF FirstHtlcExpires, MakerTypeOK, NetTypeOK, InvStates
  <2>2. \A g \in Hashes \ {h} : SameFor(g)
    BY <1>1, <1>4 DEF FirstHtlcExpires, MakerTypeOK, NetTypeOK, SameFor
  <2>3. HashInv(h)'
    BY <1>1, <1>4 DEF FirstHtlcExpires, MakerTypeOK, NetTypeOK, HashInv, DealInv, FreshInv,
       StageInv, SaveInv, StagedInv, CopyInv, RowInv, PayInv, RecoverInv
  <2> QED
    BY <2>1, <2>2, <2>3, LocalStep
<1> QED
  BY <1>2, <1>3, <1>4

\* Whatever the taker does leaves the invariant alone.
LEMMA AnyTakerSteps ==
  ASSUME MakerIInv, NEW h \in Hashes, AnyTaker(h), UNCHANGED mVars
  PROVE  MakerIInv'
<1>1. MakerTypeOK
  BY DEF MakerIInv
<1>2. packets' \subseteq Packets
  BY <1>1 DEF AnyTaker, MakerTypeOK, NetTypeOK, sendPacket, Packet, Packets, PacketTypes
<1>3. firstPay' \in [Hashes -> PayStates]
  BY <1>1 DEF AnyTaker, MakerTypeOK, NetTypeOK, PayStates
<1>4. secondInv' \in [Hashes -> InvStates]
  BY <1>1 DEF AnyTaker, MakerTypeOK, NetTypeOK, InvStates
<1>5. UNCHANGED <<firstInv, secondPay>>
  BY DEF AnyTaker
<1>6. MakerTypeOK'
  BY <1>1, <1>2, <1>3, <1>4, <1>5 DEF MakerTypeOK, NetTypeOK, mVars
<1>7. \A g \in Hashes : SameFor(g)
  BY <1>5 DEF SameFor, mVars
<1> QED
  BY <1>6, <1>7, Frame DEF MakerIInv

\* HTLCs that arrive and payments that end preserve the invariant.
LEMMA NetworkSteps ==
  ASSUME MakerIInv, NEW h \in Hashes, Network(h), UNCHANGED mVars
  PROVE  MakerIInv'
<1> USE DEF netVars, legs, mVars
<1>1. HashInv(h) /\ MakerTypeOK
  BY DEF MakerIInv
<1>2. MakerTypeOK'
  BY <1>1 DEF Network, HtlcArrives, PaymentSucceeds, PaymentFails, SecondPaymentSucceeds,
     MakerTypeOK, NetTypeOK, InvStates, PayStates
<1>3. \A g \in Hashes \ {h} : SameFor(g)
  BY <1>1 DEF Network, HtlcArrives, PaymentSucceeds, PaymentFails, SecondPaymentSucceeds,
     MakerTypeOK, NetTypeOK, SameFor
<1>4. /\ firstInv'[h] = firstInv[h] \/ (firstInv[h] = "open" /\ firstInv'[h] = "accepted")
      /\ \/ secondPay'[h] = secondPay[h]
         \/ secondPay[h] = "inflight" /\ secondPay'[h] \in {"succeeded", "failed"}
  BY <1>1 DEF Network, HtlcArrives, PaymentSucceeds, PaymentFails, SecondPaymentSucceeds,
     MakerTypeOK, NetTypeOK
<1>5. DealInv(h)' /\ FreshInv(h)' /\ SaveInv(h)'
  BY <1>1 DEF HashInv, DealInv, FreshInv, SaveInv, StagedInv, CopyInv
<1>6. StageInv(h)' /\ RowInv(h)'
  BY <1>1, <1>4 DEF HashInv, StageInv, RowInv
<1>7. PayInv(h)' /\ RecoverInv(h)'
  BY <1>1, <1>4 DEF HashInv, PayInv, RecoverInv, Unpaid
<1> QED
  BY <1>2, <1>3, <1>5, <1>6, <1>7, LocalStep DEF HashInv

-----------------------------------------------------------------------------
(* Recovery *)

\* The steps of SwapRecovery that write to the row.
LEMMA RecoverySteps ==
  ASSUME MakerIInv, NEW h \in Hashes,
         MakerRecoveryLooksUp(h) \/ MakerRecoveryFails(h) \/ MakerRecovers(h)
  PROVE  MakerIInv'
<1> USE DEF netVars, legs, mVars
<1>1. HashInv(h) /\ MakerTypeOK
  BY DEF MakerIInv
<1>2. mRecover[h] \in {"pending", "canceling", "claiming"} /\ mRecover' = [mRecover EXCEPT ![h] = mRecover'[h]]
  BY <1>1 DEF MakerRecoveryLooksUp, MakerRecoveryFails, MakerRecovers, MakerTypeOK
<1>3. mDeal[h].phase = "None" /\ mDeal[h].state = "None" /\ h \notin mSub /\ mRow[h].state = "Active" /\ mRow[h].phase # "None"
  BY <1>1, <1>2 DEF HashInv, DealInv, FreshInv, RecoverInv
<1>4. CASE MakerRecoveryLooksUp(h)
  <2>0. /\ mRow' \in [Hashes -> MakerRows]
        /\ \A g \in Hashes \ {h} : mRow'[g] = mRow[g]
        /\ mRow'[h].phase = mRow[h].phase /\ mRow'[h].state = mRow[h].state
    <3>1. mRow \in [Hashes -> MakerRows]
      BY <1>1 DEF MakerTypeOK
    <3>2. CASE mRow' = mRow
      BY <3>1, <3>2
    <3>3. CASE mRow' = [mRow EXCEPT ![h].preimage = TRUE]
      BY <3>1, <3>3, PreimageSet
    <3> QED
      BY <1>4, <3>2, <3>3 DEF MakerRecoveryLooksUp
  <2>1. MakerTypeOK'
    BY <1>1, <1>4, <2>0 DEF MakerRecoveryLooksUp, MakerTypeOK, NetTypeOK, RecoverStates
  <2>2. \A g \in Hashes \ {h} : SameFor(g)
    BY <1>1, <1>4, <2>0 DEF MakerRecoveryLooksUp, MakerTypeOK, SameFor
  <2>3. /\ mRow'[h].phase = mRow[h].phase /\ mRow'[h].state = mRow[h].state
        /\ mRow' = mRow \/ secondPay[h] = "succeeded"
        /\ \/ mRecover'[h] = "known" /\ secondPay[h] = "succeeded"
           \/ mRecover'[h] = "canceling" /\ secondPay[h] \in Unpaid
    BY <1>1, <1>4, <2>0 DEF MakerRecoveryLooksUp, MakerTypeOK, Unpaid
  <2>4. DealInv(h)' /\ FreshInv(h)' /\ StageInv(h)'
    BY <1>1, <1>2, <1>3, <1>4, <2>3 DEF MakerRecoveryLooksUp, HashInv, DealInv, FreshInv, StageInv
  <2>5. SaveInv(h)' /\ RowInv(h)' /\ PayInv(h)' /\ RecoverInv(h)'
    BY <1>1, <1>2, <1>3, <1>4, <2>3 DEF MakerRecoveryLooksUp, HashInv, FreshInv, SaveInv, StagedInv,
       CopyInv, RowInv, PayInv, RecoverInv
  <2> QED
    BY <2>1, <2>2, <2>4, <2>5, LocalStep DEF HashInv
<1>5. ASSUME NEW state \in {"Error", "Recovered"},
             mRow' = [mRow EXCEPT ![h].state = state] \/ mRow' = mRow,
             state = "Error" => secondPay[h] \in Unpaid,
             state = "Recovered" => firstInv[h] = "settled",
             mRecover' = [mRecover EXCEPT ![h] = "done"],
             UNCHANGED <<netVars, mUp, mUsed, mDeals, mDeal, mAccept, mResolve, mTimers, mSaves,
                         mSub, mCancel>>
      PROVE  MakerIInv'
  <2>1. /\ mRow' \in [Hashes -> MakerRows]
        /\ \A g \in Hashes \ {h} : mRow'[g] = mRow[g]
        /\ mRow'[h].phase = mRow[h].phase /\ mRow'[h].preimage = mRow[h].preimage
        /\ mRow'[h].state \in {mRow[h].state, state}
    <3>1. mRow \in [Hashes -> MakerRows] /\ state \in States
      BY <1>1 DEF MakerTypeOK, States
    <3>2. CASE mRow' = mRow
      BY <3>1, <3>2
    <3>3. CASE mRow' = [mRow EXCEPT ![h].state = state]
      BY <3>1, <3>3, RowStateSet
    <3> QED
      BY <1>5, <3>2, <3>3
  <2>2. MakerTypeOK'
    BY <1>1, <1>5, <2>1 DEF MakerTypeOK, NetTypeOK, RecoverStates
  <2>3. \A g \in Hashes \ {h} : SameFor(g)
    BY <1>1, <1>5, <2>1 DEF MakerTypeOK, SameFor
  <2>4. mRecover'[h] = "done"
    BY <1>1, <1>5 DEF MakerTypeOK
  <2>5. DealInv(h)' /\ FreshInv(h)' /\ StageInv(h)'
    BY <1>1, <1>2, <1>3, <1>5, <2>1, <2>4 DEF HashInv, DealInv, FreshInv, StageInv
  <2>6. SaveInv(h)' /\ RowInv(h)' /\ PayInv(h)' /\ RecoverInv(h)'
    BY <1>1, <1>3, <1>5, <2>1, <2>4 DEF HashInv, FreshInv, SaveInv, StagedInv, CopyInv, RowInv, PayInv,
       RecoverInv
  <2> QED
    BY <2>2, <2>3, <2>5, <2>6, LocalStep DEF HashInv
<1>6. CASE MakerRecoveryFails(h)
  <2>1. secondPay[h] \in Unpaid
    BY <1>1, <1>6 DEF MakerRecoveryFails, HashInv, RecoverInv
  <2> QED
    BY <1>3, <1>5, <1>6, <2>1 DEF MakerRecoveryFails, mRemoveInvoice
<1>7. CASE MakerRecovers(h)
  BY <1>5, <1>7 DEF MakerRecovers
<1> QED
  BY <1>4, <1>6, <1>7

-----------------------------------------------------------------------------
(* A deal goes from phase to phase *)

\* addDeal: the hash was not used before, so nothing is known of it.
LEMMA AddsDeal ==
  ASSUME MakerIInv, NEW h \in Hashes, mUp, MakerAddsDeal(h)
  PROVE  MakerIInv'
<1> USE DEF MakerAddsDeal, netVars, legs
<1>1. HashInv(h) /\ MakerTypeOK
  BY DEF MakerIInv
<1>2. mDeal[h].phase = "None" /\ mRow[h].phase = "None"
  BY <1>1 DEF HashInv, FreshInv
<1>3. /\ mDeal' \in [Hashes -> MakerDeals]
      /\ mDeal'[h] = [phase |-> "SwapCreated", state |-> "Active"]
      /\ \A g \in Hashes \ {h} : mDeal'[g] = mDeal[g]
  BY <1>1 DEF MakerTypeOK, MakerDeals, Deals, Phases, States
<1>4. MakerTypeOK'
  BY <1>1, <1>3 DEF MakerTypeOK, NetTypeOK, AcceptStates
<1>5. \A g \in Hashes \ {h} : SameFor(g)
  BY <1>1, <1>3 DEF MakerTypeOK, SameFor
<1>6. DealInv(h)' /\ FreshInv(h)' /\ StageInv(h)'
  BY <1>1, <1>2, <1>3 DEF HashInv, DealInv, FreshInv, StageInv, RecoverInv, MakerTypeOK
<1>7. SaveInv(h)'
  <2>1. StagedInv(h)'
    BY <1>1, <1>2, <1>3 DEF HashInv, FreshInv, SaveInv, StagedInv, NoSaves, NoSave, SaveTags
  <2>2. CopyInv(h)'
    BY <1>1, <1>2, <1>3 DEF HashInv, FreshInv, SaveInv, StagedInv, CopyInv, NoSaves, NoSave, SaveTags
  <2> QED BY <2>1, <2>2 DEF SaveInv
<1>8. RowInv(h)' /\ PayInv(h)' /\ RecoverInv(h)'
  BY <1>1, <1>2, <1>3 DEF HashInv, FreshInv, RowInv, PayInv, RecoverInv, Sending, Resolved
<1> QED
  BY <1>4, <1>5, <1>6, <1>7, <1>8, LocalStep DEF HashInv

\* setDealPhase(SwapAccepted), or the invoice of a deal that failed meanwhile.
LEMMA Accepts ==
  ASSUME MakerIInv, NEW h \in Hashes, mUp, MakerAccepts(h)
  PROVE  MakerIInv'
<1> USE DEF netVars, legs
<1>1. HashInv(h) /\ MakerTypeOK
  BY DEF MakerIInv
<1>2. /\ mDeal[h].phase = "SwapCreated" /\ mRow[h].phase = "None" /\ secondPay[h] = "none"
      /\ mResolve[h] \in {"idle", "done"} /\ mRecover[h] = "none"
      /\ \A tag \in SaveTags : mSaves[h][tag].stage = "none"
  BY <1>1 DEF MakerAccepts, HashInv, StageInv, RowInv, PayInv, RecoverInv, SaveInv, StagedInv, Sending,
     Resolved,
     MakerTypeOK, ResolveStates, SaveTags
<1>3. CASE mDeal[h].state = "Active"
  <2>1. /\ mDeal' \in [Hashes -> MakerDeals]
        /\ mDeal'[h] = [phase |-> "SwapAccepted", state |-> "Active"]
        /\ \A g \in Hashes \ {h} : mDeal'[g] = mDeal[g]
    <3>1. mDeal' = [mDeal EXCEPT ![h].phase = "SwapAccepted"]
      BY <1>3 DEF MakerAccepts
    <3> QED
      BY <1>1, <1>3, <3>1, SetsPhase DEF MakerPhases, Phases
  <2>2. /\ mSaves' \in [Hashes -> [SaveTags -> Saves]]
        /\ mSaves'[h] = [mSaves[h] EXCEPT !["accepted"] = Issued]
        /\ \A g \in Hashes \ {h} : mSaves'[g] = mSaves[g]
    <3>1. mSaves' = [mSaves EXCEPT ![h]["accepted"] = Issued]
      BY <1>3 DEF MakerAccepts
    <3> QED
      BY <1>1, <3>1, IssuedIsSave, SetsSave DEF SaveTags
  <2>3. MakerTypeOK'
    <3>1. packets' \subseteq Packets
      BY <1>1 DEF MakerAccepts, MakerTypeOK, NetTypeOK, sendPacket, Packet, Packets, PacketTypes
    <3>2. firstInv' \in [Hashes -> InvStates] /\ mAccept' \in [Hashes -> AcceptStates]
      BY <1>1, <1>3 DEF MakerAccepts, MakerTypeOK, NetTypeOK, InvStates, AcceptStates
    <3> QED
      BY <1>1, <1>3, <2>1, <2>2, <3>1, <3>2 DEF MakerAccepts, MakerTypeOK, NetTypeOK
  <2>4. \A g \in Hashes \ {h} : SameFor(g)
    BY <1>1, <1>3, <2>1, <2>2 DEF MakerAccepts, MakerTypeOK, NetTypeOK, SameFor
  <2>5. DealInv(h)' /\ FreshInv(h)' /\ StageInv(h)'
    BY <1>1, <1>2, <1>3, <2>1, <2>2 DEF MakerAccepts, HashInv, DealInv, FreshInv, StageInv, MakerTypeOK
  <2>6. SaveInv(h)'
    <3>1. StagedInv(h)'
      BY <1>1, <1>2, <1>3, <2>1, <2>2 DEF MakerAccepts, HashInv, SaveInv, StagedInv, Issued, SaveTags,
         MakerTypeOK
    <3>2. CopyInv(h)'
      BY <1>1, <1>2, <1>3, <2>1, <2>2 DEF MakerAccepts, HashInv, SaveInv, StagedInv, CopyInv, Issued,
         SaveTags, MakerTypeOK
    <3> QED BY <3>1, <3>2 DEF SaveInv
  <2>7. RowInv(h)' /\ PayInv(h)' /\ RecoverInv(h)'
    BY <1>1, <1>2, <1>3, <2>1 DEF MakerAccepts, HashInv, RowInv, PayInv, RecoverInv, Sending, Resolved,
       MakerTypeOK, NetTypeOK
  <2> QED
    BY <2>3, <2>4, <2>5, <2>6, <2>7, LocalStep DEF HashInv
<1>4. CASE mDeal[h].state # "Active"
  <2>1. MakerTypeOK'
    <3>1. packets' \subseteq Packets
      BY <1>1, <1>4 DEF MakerAccepts, MakerTypeOK, NetTypeOK, sendPacket, Packet, Packets, PacketTypes
    <3>2. firstInv' \in [Hashes -> InvStates] /\ mAccept' \in [Hashes -> AcceptStates]
      BY <1>1, <1>4 DEF MakerAccepts, MakerTypeOK, NetTypeOK, InvStates, AcceptStates
    <3> QED
      BY <1>1, <1>4, <3>1, <3>2 DEF MakerAccepts, MakerTypeOK, NetTypeOK
  <2>2. \A g \in Hashes \ {h} : SameFor(g)
    BY <1>1, <1>4 DEF MakerAccepts, MakerTypeOK, NetTypeOK, SameFor
  <2>3. HashInv(h)'
    BY <1>1, <1>2, <1>4 DEF MakerAccepts, MakerTypeOK, NetTypeOK, HashInv, DealInv, FreshInv, StageInv,
       SaveInv, StagedInv, CopyInv, RowInv, PayInv, RecoverInv
  <2> QED
    BY <2>1, <2>2, <2>3, LocalStep
<1> QED
  BY <1>3, <1>4

\* setDealPhase(SendingPayment): the incoming HTLC is held, and no payment was made.
LEMMA StartsPayment ==
  ASSUME MakerIInv, NEW h \in Hashes, mUp, MakerStartsPayment(h)
  PROVE  MakerIInv'
<1> USE DEF MakerStartsPayment, netVars, legs
<1>1. HashInv(h) /\ MakerTypeOK
  BY DEF MakerIInv
<1>2. /\ mDeal' \in [Hashes -> MakerDeals]
      /\ mDeal'[h] = [phase |-> "SendingPayment", state |-> mDeal[h].state]
      /\ \A g \in Hashes \ {h} : mDeal'[g] = mDeal[g]
  BY <1>1, SetsPhase DEF MakerPhases, Phases
<1>3. /\ mSaves' \in [Hashes -> [SaveTags -> Saves]]
      /\ mSaves'[h] = [mSaves[h] EXCEPT !["sending"] = Issued]
      /\ \A g \in Hashes \ {h} : mSaves'[g] = mSaves[g]
  BY <1>1, IssuedIsSave, SetsSave DEF SaveTags
<1>4. MakerTypeOK'
  BY <1>1, <1>2, <1>3 DEF MakerTypeOK, NetTypeOK, ResolveStates
<1>5. \A g \in Hashes \ {h} : SameFor(g)
  BY <1>1, <1>2, <1>3 DEF MakerTypeOK, SameFor
<1>6. DealInv(h)' /\ FreshInv(h)'
  BY <1>1, <1>2 DEF HashInv, DealInv, FreshInv
<1>7. StageInv(h)'
  BY <1>1, <1>2 DEF HashInv, StageInv, MakerTypeOK, mHtlcReported
<1>8. SaveInv(h)'
  <2>1. StagedInv(h)'
    BY <1>1, <1>2, <1>3 DEF HashInv, SaveInv, StagedInv, MakerTypeOK, mHtlcReported, Sending, Resolved,
       SaveTags, Issued
  <2>2. CopyInv(h)'
    BY <1>1, <1>2, <1>3 DEF HashInv, SaveInv, StagedInv, CopyInv, MakerTypeOK, mHtlcReported, Sending,
       Resolved, SaveTags, Issued
  <2> QED BY <2>1, <2>2 DEF SaveInv
<1>9. RowInv(h)' /\ PayInv(h)' /\ RecoverInv(h)'
  BY <1>1, <1>2 DEF HashInv, RowInv, PayInv, RecoverInv, MakerTypeOK, mHtlcReported, Sending, Resolved
<1> QED
  BY <1>4, <1>5, <1>6, <1>7, <1>8, <1>9, LocalStep DEF HashInv

\* setDealPhase(PreimageResolved): the payment succeeded.
LEMMA ResolvesPreimage ==
  ASSUME MakerIInv, NEW h \in Hashes, mUp, MakerResolvesPreimage(h)
  PROVE  MakerIInv'
<1> USE DEF MakerResolvesPreimage, netVars, legs
<1>1. HashInv(h) /\ MakerTypeOK
  BY DEF MakerIInv
<1>2. mDeal[h] = [phase |-> "SendingPayment", state |-> "Active"] /\ secondPay[h] = "succeeded"
  BY <1>1 DEF HashInv, StageInv
<1>3. /\ mDeal' \in [Hashes -> MakerDeals]
      /\ mDeal'[h] = [phase |-> "PreimageResolved", state |-> "Active"]
      /\ \A g \in Hashes \ {h} : mDeal'[g] = mDeal[g]
  <2>1. mDeal' = [mDeal EXCEPT ![h].phase = "PreimageResolved"] /\ mDeal[h].state = "Active"
    BY <1>2
  <2> QED
    BY <1>1, <2>1, SetsPhase DEF MakerPhases, Phases
<1>4. /\ mSaves' \in [Hashes -> [SaveTags -> Saves]]
      /\ mSaves'[h] = [mSaves[h] EXCEPT !["resolved"] = Issued]
      /\ \A g \in Hashes \ {h} : mSaves'[g] = mSaves[g]
  <2>1. mSaves' = [mSaves EXCEPT ![h]["resolved"] = Issued]
    BY <1>2
  <2> QED
    BY <1>1, <2>1, IssuedIsSave, SetsSave DEF SaveTags
<1>5. MakerTypeOK'
  BY <1>1, <1>2, <1>3, <1>4 DEF MakerTypeOK, NetTypeOK, ResolveStates
<1>6. \A g \in Hashes \ {h} : SameFor(g)
  BY <1>1, <1>2, <1>3, <1>4 DEF MakerTypeOK, SameFor
<1>7. DealInv(h)' /\ FreshInv(h)'
  BY <1>1, <1>2, <1>3 DEF HashInv, DealInv, FreshInv
<1>8. StageInv(h)'
  BY <1>1, <1>2, <1>3 DEF HashInv, StageInv, MakerTypeOK
<1>9. SaveInv(h)'
  <2>1. StagedInv(h)'
    BY <1>1, <1>2, <1>3, <1>4 DEF HashInv, SaveInv, StagedInv, MakerTypeOK, Sending, Resolved, SaveTags, Issued
  <2>2. CopyInv(h)'
    BY <1>1, <1>2, <1>3, <1>4 DEF HashInv, SaveInv, StagedInv, CopyInv, MakerTypeOK, Sending, Resolved,
       SaveTags, Issued
  <2> QED BY <2>1, <2>2 DEF SaveInv
<1>10. RowInv(h)' /\ PayInv(h)' /\ RecoverInv(h)'
  BY <1>1, <1>2, <1>3 DEF HashInv, RowInv, PayInv, RecoverInv, MakerTypeOK, Sending, Resolved
<1> QED
  BY <1>5, <1>6, <1>7, <1>8, <1>9, <1>10, LocalStep DEF HashInv

\* setDealPhase(PaymentReceived): the invoice is settled.
LEMMA Completes ==
  ASSUME MakerIInv, NEW h \in Hashes, mUp, MakerCompletes(h)
  PROVE  MakerIInv'
<1> USE DEF netVars, legs
<1>1. HashInv(h) /\ MakerTypeOK
  BY DEF MakerIInv
<1>2. mDeal[h] = [phase |-> "PreimageResolved", state |-> "Active"] /\ firstInv[h] = "settled"
  BY <1>1 DEF MakerCompletes, HashInv, StageInv
<1>3. /\ mResolve[h] \in {"settling", "retry"}
      /\ mDeal' = [mDeal EXCEPT ![h] = [phase |-> "PaymentReceived", state |-> "Completed"]]
      /\ mSaves' = [mSaves EXCEPT ![h]["received"] = Issued]
      /\ mResolve' = [mResolve EXCEPT ![h] = "done"]
      /\ mSub' = mSub \ {h}
      /\ UNCHANGED <<netVars, mUp, mUsed, mDeals, mAccept, mTimers, mRow, mCancel, mRecover>>
  BY <1>2 DEF MakerCompletes
<1>4. /\ mDeal' \in [Hashes -> MakerDeals]
      /\ mDeal'[h] = [phase |-> "PaymentReceived", state |-> "Completed"]
      /\ \A g \in Hashes \ {h} : mDeal'[g] = mDeal[g]
  BY <1>1, <1>3 DEF MakerTypeOK, MakerDeals, Deals, Phases, States
<1>5. /\ mSaves' \in [Hashes -> [SaveTags -> Saves]]
      /\ mSaves'[h] = [mSaves[h] EXCEPT !["received"] = Issued]
      /\ \A g \in Hashes \ {h} : mSaves'[g] = mSaves[g]
  <2>1. mSaves' = [mSaves EXCEPT ![h]["received"] = Issued]
    BY <1>3
  <2> QED
    BY <1>1, <2>1, IssuedIsSave, SetsSave DEF SaveTags
<1>6. MakerTypeOK'
  BY <1>1, <1>2, <1>3, <1>4, <1>5 DEF MakerTypeOK, NetTypeOK, ResolveStates
<1>7. \A g \in Hashes \ {h} : SameFor(g)
  BY <1>1, <1>2, <1>3, <1>4, <1>5 DEF MakerTypeOK, SameFor
<1>8. DealInv(h)' /\ FreshInv(h)'
  BY <1>1, <1>2, <1>3, <1>4 DEF HashInv, DealInv, FreshInv
<1>9. StageInv(h)'
  BY <1>1, <1>2, <1>3, <1>4 DEF HashInv, StageInv, MakerTypeOK
<1>10. SaveInv(h)'
  <2>1. StagedInv(h)'
    BY <1>1, <1>2, <1>3, <1>4, <1>5 DEF HashInv, SaveInv, StagedInv, MakerTypeOK, Sending, Resolved,
       SaveTags, Issued
  <2>2. CopyInv(h)'
    BY <1>1, <1>2, <1>3, <1>4, <1>5 DEF HashInv, SaveInv, StagedInv, CopyInv, MakerTypeOK, Sending,
       Resolved, SaveTags, Issued
  <2> QED BY <2>1, <2>2 DEF SaveInv
<1>11. RowInv(h)' /\ PayInv(h)' /\ RecoverInv(h)'
  BY <1>1, <1>2, <1>3, <1>4 DEF HashInv, RowInv, PayInv, RecoverInv, MakerTypeOK, Sending, Resolved
<1> QED
  BY <1>6, <1>7, <1>8, <1>9, <1>10, <1>11, LocalStep DEF HashInv

-----------------------------------------------------------------------------
(* Saves *)

\* A save copies the deal as it is.
LEMMA CopiesDeal ==
  ASSUME MakerIInv, NEW h \in Hashes, mUp, MakerCopiesDeal(h)
  PROVE  MakerIInv'
<1> USE DEF netVars, legs
<1>1. HashInv(h) /\ MakerTypeOK
  BY DEF MakerIInv
<1>2. PICK tag \in SaveTags :
        /\ IsNextRead(mSaves[h], tag)
        /\ mSaves' = [mSaves EXCEPT ![h][tag] = Read(mDeal[h])]
  BY DEF MakerCopiesDeal
<1>3. UNCHANGED <<netVars, mUp, mUsed, mDeals, mDeal, mAccept, mResolve, mTimers, mRow, mSub,
                  mCancel, mRecover>>
  BY DEF MakerCopiesDeal
<1>4. /\ mSaves' \in [Hashes -> [SaveTags -> Saves]]
      /\ mSaves'[h] = [mSaves[h] EXCEPT ![tag] = Read(mDeal[h])]
      /\ \A g \in Hashes \ {h} : mSaves'[g] = mSaves[g]
  <2>1. Read(mDeal[h]) \in Saves
    BY <1>1 DEF Read, Saves, MakerTypeOK, MakerDeals
  <2> QED
    BY <1>1, <1>2, <2>1, SetsSave
<1>5. MakerTypeOK'
  BY <1>1, <1>3, <1>4 DEF MakerTypeOK, NetTypeOK
<1>6. \A g \in Hashes \ {h} : SameFor(g)
  BY <1>3, <1>4 DEF SameFor
<1>7. /\ mSaves[h][tag].stage = "issued"
      /\ mSaves'[h][tag].stage = "read" /\ mSaves'[h][tag].deal = mDeal[h]
      /\ \A t \in SaveTags \ {tag} : mSaves'[h][t] = mSaves[h][t]
  BY <1>1, <1>2, <1>4 DEF IsNextRead, Read, MakerTypeOK
<1>8. DealInv(h)' /\ StageInv(h)' /\ RowInv(h)' /\ PayInv(h)' /\ RecoverInv(h)'
  BY <1>1, <1>3 DEF HashInv, DealInv, StageInv, RowInv, PayInv, RecoverInv
<1>9. mDeal[h].phase \in {"SwapAccepted"} \cup Sending
  BY <1>1, <1>2, <1>7 DEF HashInv, SaveInv, StagedInv, StageInv, DealInv, SaveTags, Sending, Resolved
<1>10. FreshInv(h)'
  BY <1>1, <1>3, <1>9 DEF HashInv, FreshInv, Sending
<1>11. SaveInv(h)'
  <2>1. StagedInv(h)'
    BY <1>1, <1>3, <1>7, <1>9 DEF HashInv, DealInv, SaveInv, StagedInv, SaveTags, Sending, Resolved
  <2>2. CopyInv(h)'
    BY <1>1, <1>3, <1>7, <1>9 DEF HashInv, DealInv, SaveInv, StagedInv, CopyInv, SaveTags, Sending, Resolved
  <2> QED BY <2>1, <2>2 DEF SaveInv
<1> QED
  BY <1>5, <1>6, <1>8, <1>10, <1>11, LocalStep DEF HashInv

\* A save ends without having written anything.
LEMMA SaveRejected ==
  ASSUME MakerIInv, NEW h \in Hashes, mUp, MakerSaveSendingRejected(h) \/ MakerSaveLaterRejected(h)
  PROVE  MakerIInv'
<1> USE DEF netVars, legs
<1>1. HashInv(h) /\ MakerTypeOK
  BY DEF MakerIInv
<1>2. PICK tag \in SaveTags \ {"accepted"} :
        /\ IsRejected(mSaves[h], tag)
        /\ mSaves' = [mSaves EXCEPT ![h][tag] = NoSave]
        /\ \/ tag = "sending" /\ mResolve' = [mResolve EXCEPT ![h] = "done"]
           \/ tag # "sending" /\ mResolve' = mResolve
  BY DEF MakerSaveSendingRejected, MakerSaveLaterRejected, SaveTags
<1>3. UNCHANGED <<netVars, mUp, mUsed, mDeals, mDeal, mAccept, mTimers, mRow, mSub,
                  mCancel, mRecover>>
  BY DEF MakerSaveSendingRejected, MakerSaveLaterRejected
<1>4. /\ mSaves' \in [Hashes -> [SaveTags -> Saves]]
      /\ mSaves'[h] = [mSaves[h] EXCEPT ![tag] = NoSave]
      /\ \A g \in Hashes \ {h} : mSaves'[g] = mSaves[g]
  BY <1>1, <1>2, IssuedIsSave, SetsSave
<1>5. MakerTypeOK'
  BY <1>1, <1>2, <1>3, <1>4 DEF MakerTypeOK, NetTypeOK, ResolveStates
<1>6. \A g \in Hashes \ {h} : SameFor(g)
  BY <1>1, <1>2, <1>3, <1>4 DEF SameFor, MakerTypeOK
<1>7. /\ mSaves[h][tag].stage # "none" /\ mSaves'[h][tag].stage = "none"
      /\ \A t \in SaveTags \ {tag} : mSaves'[h][t] = mSaves[h][t]
      /\ IF tag = "sending" THEN mResolve[h] = "saving" /\ mResolve'[h] = "done"
                            ELSE mResolve'[h] = mResolve[h]
  BY <1>1, <1>2, <1>4 DEF IsRejected, IsNextRead, IsNextWrite, NoSave, MakerTypeOK, HashInv, SaveInv, StagedInv
<1>8. DealInv(h)' /\ RowInv(h)' /\ RecoverInv(h)'
  BY <1>1, <1>3 DEF HashInv, DealInv, RowInv, RecoverInv
<1>9. StageInv(h)' /\ PayInv(h)'
  BY <1>1, <1>3, <1>7 DEF HashInv, StageInv, PayInv
<1>10. FreshInv(h)'
  BY <1>1, <1>3, <1>7 DEF HashInv, FreshInv, NoSaves, NoSave
<1>11. SaveInv(h)'
  <2>1. StagedInv(h)'
    BY <1>1, <1>3, <1>7 DEF HashInv, SaveInv, StagedInv, SaveTags
  <2>2. CopyInv(h)'
    BY <1>1, <1>3, <1>7 DEF HashInv, SaveInv, StagedInv, CopyInv, SaveTags
  <2> QED BY <2>1, <2>2 DEF SaveInv
<1> QED
  BY <1>5, <1>6, <1>8, <1>9, <1>10, <1>11, LocalStep DEF HashInv

\* What writing the row leaves behind.
WriteEffect(h, tag) ==
  LET copy == mSaves[h][tag].deal IN
  /\ mSaves[h][tag].stage = "read"
  /\ \A t \in SaveTags : mSaves[h][t].stage # "none" => Rank[tag] <= Rank[t]
  /\ mRow' \in [Hashes -> MakerRows] /\ mDeals' \subseteq Hashes
  /\ mSaves' \in [Hashes -> [SaveTags -> Saves]]
  /\ \A g \in Hashes \ {h} :
       /\ mRow'[g] = mRow[g] /\ mSaves'[g] = mSaves[g]
       /\ g \in mDeals' <=> g \in mDeals
  /\ mRow'[h].phase = copy.phase /\ mRow'[h].state = copy.state
  /\ mRow'[h].preimage => copy.phase \in Resolved
  /\ h \in mDeals' => h \in mDeals
  /\ mDeal[h].state = "Active" => mDeals' = mDeals
  /\ mSaves'[h][tag] = NoSave
  /\ \A t \in SaveTags \ {tag} : mSaves'[h][t] = mSaves[h][t]

\* Writing the row does what WriteEffect says.
LEMMA WritesRow ==
  ASSUME MakerTypeOK, NEW h \in Hashes, HashInv(h), NEW tag \in SaveTags,
         IsNextWrite(mSaves[h], tag), mWriteRow(h, tag),
         mSaves' = [mSaves EXCEPT ![h][tag] = NoSave]
  PROVE  WriteEffect(h, tag)
<1> DEFINE copy == mSaves[h][tag].deal
<1>1. mSaves[h][tag].stage = "read" /\ copy \in Deals
  BY DEF IsNextWrite, MakerTypeOK, Saves
<1>2. copy.phase \in {"SwapAccepted"} \cup Sending
  BY <1>1 DEF HashInv, SaveInv, StagedInv, CopyInv
<1>3. mRowOf(copy) \in MakerRows
  BY <1>1, <1>2 DEF mRowOf, MakerRows, Rows, Deals, Sending
<1>4. mRowOf(copy).phase = copy.phase /\ mRowOf(copy).state = copy.state
  BY DEF mRowOf
<1>5. mRowOf(copy).preimage => copy.phase \in Resolved
  BY DEF mRowOf, Resolved
<1>6. /\ mRow' = [mRow EXCEPT ![h] = mRowOf(copy)]
      /\ mDeals' = mDeals \/ (mDeals' = mDeals \ {h} /\ mDeal[h].state # "Active")
  BY DEF mWriteRow
<1>7. /\ mRow' \in [Hashes -> MakerRows] /\ mRow'[h] = mRowOf(copy)
      /\ \A g \in Hashes \ {h} : mRow'[g] = mRow[g]
  BY <1>3, <1>6 DEF MakerTypeOK
<1>8. /\ mSaves' \in [Hashes -> [SaveTags -> Saves]]
      /\ mSaves'[h] = [mSaves[h] EXCEPT ![tag] = NoSave]
      /\ \A g \in Hashes \ {h} : mSaves'[g] = mSaves[g]
  BY IssuedIsSave, SetsSave
<1>9. /\ mSaves'[h][tag] = NoSave
      /\ \A t \in SaveTags \ {tag} : mSaves'[h][t] = mSaves[h][t]
  BY <1>8 DEF MakerTypeOK
<1>10. mDeals' \subseteq Hashes /\ \A g \in Hashes \ {h} : g \in mDeals' <=> g \in mDeals
  BY <1>6 DEF MakerTypeOK
<1> HIDE DEF copy
<1>11. /\ mRow'[h].phase = copy.phase /\ mRow'[h].state = copy.state
       /\ mRow'[h].preimage => copy.phase \in Resolved
  BY <1>4, <1>5, <1>7
<1>12. \A t \in SaveTags : mSaves[h][t].stage # "none" => Rank[tag] <= Rank[t]
  BY DEF IsNextWrite
<1> QED
  BY <1>1, <1>6, <1>7, <1>8, <1>9, <1>10, <1>11, <1>12 DEF WriteEffect, copy

\* What the step that writes the row may do besides.
WriteControl(h, tag) ==
  /\ tag = "sending" => mResolve'[h] \in {"sending", "done"}
  /\ mResolve'[h] = "sending" => mDeal[h].state = "Active" /\ tag = "sending"
  /\ tag # "sending" => mResolve'[h] = mResolve[h]
  /\ tag = "accepted" => mAccept'[h] = "idle"
  /\ tag # "accepted" => mAccept'[h] = mAccept[h]
  /\ \/ secondPay'[h] = secondPay[h]
     \/ tag = "sending" /\ mDeal[h].state = "Active" /\ secondPay'[h] = "inflight"
  /\ UNCHANGED <<firstInv, mUp, mUsed, mDeal, mTimers, mSub, mCancel, mRecover>>

\* The invariant holds of a hash whose row was just written.
LEMMA RowWritten ==
  ASSUME MakerTypeOK, NEW h \in Hashes, HashInv(h), NEW tag \in SaveTags,
         WriteEffect(h, tag), WriteControl(h, tag)
  PROVE  HashInv(h)'
<1> USE DEF WriteControl
<1> DEFINE copy == mSaves[h][tag].deal
<1>1. /\ copy.phase \in {"SwapAccepted"} \cup Sending
      /\ copy.state \in {"Active", mDeal[h].state}
      /\ copy.state = "Active" => copy.phase # "PaymentReceived"
      /\ copy.phase \in Sending => mDeal[h].phase \in Sending
      /\ copy.phase \in Resolved => mDeal[h].phase \in Resolved
      /\ copy.phase = "SwapAccepted" => tag = "accepted" \/ mDeal[h].phase = "SwapAccepted"
  BY DEF WriteEffect, HashInv, SaveInv, StagedInv, CopyInv
<1>2. mDeal[h].phase \in {"SwapAccepted"} \cup Sending
  BY <1>1 DEF WriteEffect, HashInv, SaveInv, StagedInv, StageInv, DealInv, SaveTags, Sending, Resolved
<1>3. /\ mRow'[h].phase = copy.phase /\ mRow'[h].state = copy.state
      /\ mRow'[h].preimage => copy.phase \in Resolved
  BY DEF WriteEffect
<1>4. \A t \in SaveTags : mSaves'[h][t].stage # "none" =>
        t # tag /\ mSaves'[h][t] = mSaves[h][t] /\ Rank[tag] <= Rank[t]
  BY DEF WriteEffect, NoSave
<1>5. tag # "accepted" => mSaves[h]["accepted"].stage = "none"
  BY DEF WriteEffect, Rank, SaveTags
<1>6. tag = "sending" => mResolve[h] = "saving" /\ mDeal[h].phase = "SendingPayment" /\ secondPay[h] = "none"
  BY DEF WriteEffect, HashInv, SaveInv, StagedInv, StageInv, PayInv
<1>7. tag # "sending" => mResolve[h] \notin {"sending", "lookup", "monitor"}
  BY DEF WriteEffect, HashInv, SaveInv, StagedInv, StageInv, SaveTags, Resolved
<1>8. DealInv(h)'
  BY <1>2 DEF WriteEffect, HashInv, DealInv, Sending
<1>9. FreshInv(h)'
  BY <1>2 DEF HashInv, FreshInv, Sending
<1>10. StageInv(h)'
  BY <1>1, <1>2, <1>3, <1>6, <1>7 DEF HashInv, StageInv, DealInv, Sending, Resolved, MakerTypeOK,
     MakerDeals, Deals
<1>11. SaveInv(h)'
  <2>1. StagedInv(h)'
    BY <1>4, <1>5, <1>6, <1>7 DEF WriteEffect, HashInv, SaveInv, StagedInv, SaveTags, NoSave
  <2>2. CopyInv(h)'
    BY <1>4, <1>5, <1>6, <1>7 DEF WriteEffect, HashInv, SaveInv, StagedInv, CopyInv, SaveTags, NoSave
  <2> QED BY <2>1, <2>2 DEF SaveInv
<1>12. RowInv(h)'
  BY <1>1, <1>2, <1>3, <1>6 DEF HashInv, DealInv, RowInv, PayInv, Sending, Resolved
<1>13. secondPay'[h] # "none" => copy.phase \in Sending
  BY <1>1, <1>6 DEF WriteEffect, HashInv, SaveInv, StagedInv, RowInv, PayInv, Sending
<1>14. PayInv(h)'
  BY <1>1, <1>3, <1>6, <1>7, <1>13 DEF HashInv, PayInv, StageInv, DealInv, Unpaid, Resolved
<1>15. RecoverInv(h)'
  BY <1>2 DEF HashInv, RecoverInv, Sending
<1> QED
  BY <1>8, <1>9, <1>10, <1>11, <1>12, <1>14, <1>15 DEF HashInv

\* The three kinds of saves, when they have written the row.
LEMMA SaveSteps ==
  ASSUME MakerIInv, NEW h \in Hashes, mUp,
         MakerSavedAccepted(h) \/ MakerSavedSending(h) \/ MakerSavedLater(h)
  PROVE  MakerIInv'
<1> USE DEF netVars, legs
<1>1. HashInv(h) /\ MakerTypeOK
  BY DEF MakerIInv
<1>2. CASE MakerSavedAccepted(h)
  <2>1. WriteEffect(h, "accepted")
    BY <1>1, <1>2, WritesRow DEF MakerSavedAccepted, SaveTags
  <2>2. MakerTypeOK'
    BY <1>1, <1>2, <2>1 DEF MakerSavedAccepted, MakerTypeOK, NetTypeOK, AcceptStates, WriteEffect
  <2>3. \A g \in Hashes \ {h} : SameFor(g)
    BY <1>1, <1>2, <2>1 DEF MakerSavedAccepted, MakerTypeOK, SameFor, WriteEffect
  <2>4. WriteControl(h, "accepted")
    <3>1. mResolve[h] # "sending"
      BY <1>1, <2>1 DEF WriteEffect, HashInv, SaveInv, StagedInv
    <3> QED
      BY <1>1, <1>2, <3>1 DEF MakerSavedAccepted, MakerTypeOK, WriteControl
  <2>5. HashInv(h)'
    BY <1>1, <2>1, <2>4, RowWritten DEF SaveTags
  <2> QED
    BY <2>2, <2>3, <2>5, LocalStep
<1>3. CASE MakerSavedSending(h)
  <2>1. WriteEffect(h, "sending")
    BY <1>1, <1>3, WritesRow DEF MakerSavedSending, SaveTags
  <2>2. mDeal[h].state \in {"Active", "Error"}
    BY <1>1, <2>1 DEF WriteEffect, HashInv, SaveInv, StagedInv, StageInv, DealInv, MakerTypeOK, MakerDeals,
       Deals, States
  <2>3. MakerTypeOK'
    <3>1. mResolve' \in [Hashes -> ResolveStates] /\ secondPay' \in [Hashes -> PayStates]
      BY <1>1, <1>3 DEF MakerSavedSending, MakerTypeOK, NetTypeOK, ResolveStates, PayStates
    <3> QED
      BY <1>1, <1>3, <2>1, <3>1 DEF MakerSavedSending, MakerTypeOK, NetTypeOK, WriteEffect
  <2>4. \A g \in Hashes \ {h} : SameFor(g)
    BY <1>1, <1>3, <2>1 DEF MakerSavedSending, MakerTypeOK, NetTypeOK, SameFor, WriteEffect
  <2>5. WriteControl(h, "sending")
    BY <1>1, <1>3, <2>2 DEF MakerSavedSending, MakerTypeOK, NetTypeOK, WriteControl
  <2>6. HashInv(h)'
    BY <1>1, <2>1, <2>5, RowWritten DEF SaveTags
  <2> QED
    BY <2>3, <2>4, <2>6, LocalStep
<1>4. CASE MakerSavedLater(h)
  <2>1. PICK tag \in SaveTags \ {"accepted", "sending"} :
          /\ IsNextWrite(mSaves[h], tag)
          /\ mWriteRow(h, tag)
          /\ mSaves' = [mSaves EXCEPT ![h][tag] = NoSave]
    BY <1>4 DEF MakerSavedLater, SaveTags
  <2>2. UNCHANGED <<netVars, mUp, mUsed, mDeal, mAccept, mResolve, mTimers, mSub, mCancel, mRecover>>
    BY <1>4 DEF MakerSavedLater
  <2>3. WriteEffect(h, tag)
    BY <1>1, <2>1, WritesRow
  <2>4. MakerTypeOK'
    BY <1>1, <2>2, <2>3 DEF MakerTypeOK, NetTypeOK, WriteEffect
  <2>5. \A g \in Hashes \ {h} : SameFor(g)
    BY <2>2, <2>3 DEF SameFor, WriteEffect
  <2>6. WriteControl(h, tag)
    <3>1. mResolve[h] # "sending"
      BY <1>1, <2>1, <2>3 DEF WriteEffect, HashInv, SaveInv, StagedInv, StageInv, SaveTags, Resolved
    <3> QED
      BY <2>1, <2>2, <3>1 DEF WriteControl
  <2>7. HashInv(h)'
    BY <1>1, <2>3, <2>6, RowWritten
  <2> QED
    BY <2>4, <2>5, <2>7, LocalStep
<1> QED
  BY <1>2, <1>3, <1>4

-----------------------------------------------------------------------------
(* A stop and a start of the process *)

\* A stop loses everything in memory, and keeps what the row and LND know.
LEMMA Stops ==
  ASSUME MakerIInv, mStops
  PROVE  MakerIInv'
<1> USE DEF mStops, netVars, legs
<1>1. MakerTypeOK'
  BY DEF MakerIInv, MakerTypeOK, NetTypeOK, NoDeal, MakerDeals, Deals, Phases, States,
     AcceptStates, ResolveStates, RecoverStates, NoSaves, NoSave, Saves
<1>2. ASSUME NEW h \in Hashes PROVE HashInv(h)'
  <2>1. HashInv(h)
    BY DEF MakerIInv
  <2>2. DealInv(h)' /\ FreshInv(h)' /\ StageInv(h)' /\ RecoverInv(h)'
    BY DEF DealInv, FreshInv, StageInv, RecoverInv, NoDeal
  <2>3. SaveInv(h)'
    <3>1. StagedInv(h)'
      BY DEF SaveInv, StagedInv, NoSaves, NoSave, SaveTags
    <3>2. CopyInv(h)'
      BY DEF SaveInv, StagedInv, CopyInv, NoSaves, NoSave, SaveTags
    <3> QED BY <3>1, <3>2 DEF SaveInv
  <2>4. RowInv(h)' /\ PayInv(h)'
    BY <2>1 DEF HashInv, RowInv, PayInv, NoDeal, Resolved
  <2> QED
    BY <2>2, <2>3, <2>4 DEF HashInv
<1> QED
  BY <1>1, <1>2 DEF MakerIInv

\* Swaps.init recovers from the row what the invariant needs to know.
LEMMA Restarts ==
  ASSUME MakerIInv, MakerRestarts
  PROVE  MakerIInv'
<1> USE DEF MakerRestarts, netVars, legs
<1>1. \A row \in Rows : mRecoverDeal(row) \in RecoverStates
  BY DEF mRecoverDeal, RecoverStates
<1>2. MakerTypeOK'
  BY <1>1 DEF MakerIInv, MakerTypeOK, NetTypeOK, MakerRows
<1>3. ASSUME NEW h \in Hashes PROVE HashInv(h)'
  <2>1. HashInv(h) /\ mDeal[h].phase = "None"
    BY DEF MakerIInv, HashInv, FreshInv
  <2>2. /\ mRecover'[h] \in {"none", "canceling", "pending", "known"}
        /\ mRecover'[h] # "none" => mRow[h].state = "Active" /\ mRow[h].phase # "None"
        /\ mRecover'[h] = "canceling" => mRow[h].phase = "SwapAccepted"
        /\ mRecover'[h] = "known" => mRow[h].preimage
    BY DEF mRecoverDeal
  <2>3. DealInv(h)' /\ StageInv(h)' /\ SaveInv(h)' /\ RowInv(h)' /\ PayInv(h)'
    BY <2>1 DEF HashInv, DealInv, StageInv, SaveInv, StagedInv, CopyInv, RowInv, PayInv
  <2>4. FreshInv(h)'
    BY <2>1 DEF HashInv, FreshInv
  <2>5. RecoverInv(h)'
    BY <2>1, <2>2 DEF HashInv, RecoverInv, RowInv, PayInv, Sending, Unpaid, MakerIInv, MakerTypeOK,
       NetTypeOK, PayStates
  <2> QED
    BY <2>1, <2>3, <2>4, <2>5 DEF HashInv
<1> QED
  BY <1>2, <1>3 DEF MakerIInv

-----------------------------------------------------------------------------
(* The invariant *)

\* The initial states satisfy the invariant.
LEMMA Starts ==
  ASSUME MakerWorldInit
  PROVE  MakerIInv
<1> USE DEF MakerWorldInit, NetInit, MakerInit
<1>1. MakerTypeOK
  BY DEF MakerTypeOK, NetTypeOK, Packets, InvStates, PayStates, NoDeal, MakerDeals, Deals, Phases, States,
     AcceptStates, ResolveStates, RecoverStates, NoSaves, NoSave, Saves, NoRow, MakerRows, Rows
<1>2. ASSUME NEW h \in Hashes PROVE HashInv(h)
  <2>1. DealInv(h) /\ FreshInv(h) /\ StageInv(h) /\ RowInv(h) /\ PayInv(h) /\ RecoverInv(h)
    BY DEF DealInv, FreshInv, StageInv, RowInv, PayInv, RecoverInv, NoDeal, NoRow, Resolved
  <2>2. SaveInv(h)
    BY DEF SaveInv, StagedInv, CopyInv, NoSaves, NoSave, SaveTags
  <2> QED
    BY <2>1, <2>2 DEF HashInv
<1> QED
  BY <1>1, <1>2 DEF MakerIInv

\* Every step preserves the invariant.
LEMMA Steps ==
  ASSUME MakerIInv, [MakerWorld]_MakerVars
  PROVE  MakerIInv'
<1>1. ASSUME NEW h \in Hashes, mUp, MakerSwaps(h) PROVE MakerIInv'
  BY <1>1, ControlSteps, FailSteps, InvoiceSteps, AddsDeal, Accepts, StartsPayment, ResolvesPreimage,
     Completes DEF MakerSwaps
<1>2. ASSUME NEW h \in Hashes, mUp, MakerSaves(h) PROVE MakerIInv'
  BY <1>2, CopiesDeal, SaveSteps, SaveRejected, FailSteps, Stops DEF MakerSaves, MakerAborts
<1>3. ASSUME NEW h \in Hashes, MakerRecovery(h) PROVE MakerIInv'
  BY <1>3, RecoverySteps, ControlSteps DEF MakerRecovery
<1>4. ASSUME NEW h \in Hashes, MakerEnv(h) \/ FirstHtlcExpires(h) PROVE MakerIInv'
  BY <1>4, AnyTakerSteps, NetworkSteps, InvoiceSteps DEF MakerEnv
<1>5. CASE UNCHANGED MakerVars
  <2>1. MakerTypeOK' /\ \A g \in Hashes : SameFor(g)
    BY <1>5 DEF MakerVars, mVars, netVars, legs, MakerIInv, MakerTypeOK, NetTypeOK, SameFor
  <2> QED
    BY <2>1, Frame DEF MakerIInv
<1> QED
  BY <1>1, <1>2, <1>3, <1>4, <1>5, Stops, Restarts DEF MakerWorld, MakerNext, MakerCrashes

\* MakerIInv is an invariant of the maker's side of a swap.
THEOREM MakerInvariance == MakerSpec => []MakerIInv
  BY Starts, Steps, PTL DEF MakerSpec

-----------------------------------------------------------------------------
(* Whoever pays follows the payment *)

\* The maker's payment may go through or has gone through, and is not covered yet.
AtRisk(h) == secondPay[h] \in {"inflight", "succeeded"} /\ firstInv[h] # "settled"
FollowInv == mUp => \A h \in Hashes : AtRisk(h) => Pursued(h)

\* The row of such a payment is active, and one that SwapRecovery finds.
LEMMA RowsAtRisk ==
  ASSUME MakerIInv, NEW h \in Hashes, AtRisk(h)
  PROVE  mRow[h].state = "Active" /\ mRow[h].phase \in {"SendingPayment", "PreimageResolved"}
<1>1. HashInv(h) /\ mRow[h].state \in States
  BY DEF MakerIInv, MakerTypeOK, MakerRows, Rows
<1>2. mRow[h].phase \in Sending /\ mRow[h].state # "None"
  BY <1>1 DEF HashInv, PayInv, RowInv, Sending, AtRisk
<1>3. mRow[h].state \notin {"Error", "Completed", "Recovered"}
  BY <1>1 DEF HashInv, PayInv, AtRisk, Unpaid
<1>4. mRow[h].state = "Active"
  BY <1>1, <1>2, <1>3 DEF States
<1> QED
  BY <1>1, <1>2, <1>4 DEF HashInv, RowInv, Sending

\* Steps that let nothing go.
LEMMA KeepsFollowing ==
  ASSUME FollowInv, mUp' => mUp, \A h \in Hashes : AtRisk(h)' => AtRisk(h) /\ (Pursued(h) => Pursued(h)')
  PROVE  FollowInv'
BY DEF FollowInv

\* Steps that move neither resolveHash nor SwapRecovery.
LEMMA OtherFollows ==
  ASSUME FollowInv, MakerTypeOK, UNCHANGED <<mUp, mResolve, mRecover, secondPay>>,
         \A h \in Hashes : firstInv[h] = "settled" => firstInv'[h] = "settled"
  PROVE  FollowInv'
BY KeepsFollowing DEF AtRisk, Pursued

LEMMA SwapsFollow ==
  ASSUME MakerIInv, FollowInv, NEW h \in Hashes, MakerSwaps(h), mUp'
  PROVE  FollowInv'
<1> USE DEF netVars, legs, mVars
<1>1. MakerTypeOK /\ HashInv(h)
  BY DEF MakerIInv
<1>2. CASE \/ MakerRejects(h) \/ MakerAddsDeal(h) \/ MakerFindsRoute(h) \/ MakerCannotAccept(h)
           \/ MakerTimesOut(h) \/ MakerHandlesSwapFailed(h) \/ MakerLosesSubscription(h)
  <2>1. UNCHANGED <<mUp, mResolve, mRecover, secondPay, firstInv>>
    BY <1>2 DEF MakerRejects, MakerAddsDeal, MakerFindsRoute, MakerCannotAccept, MakerTimesOut,
       MakerHandlesSwapFailed, MakerLosesSubscription
  <2> QED BY <1>1, <2>1, OtherFollows
<1>3. CASE MakerAccepts(h) \/ MakerInvoiceSettles(h) \/ MakerInvoiceCancels(h)
  <2>1. UNCHANGED <<mUp, mResolve, mRecover, secondPay>>
    BY <1>3 DEF MakerAccepts, MakerInvoiceSettles, MakerInvoiceCancels
  <2>2. \A g \in Hashes : firstInv[g] = "settled" => firstInv'[g] = "settled"
    BY <1>1, <1>3 DEF MakerAccepts, MakerInvoiceSettles, MakerInvoiceCancels, MakerTypeOK, NetTypeOK
  <2> QED BY <1>1, <2>1, <2>2, OtherFollows
<1>4. CASE \/ MakerIgnoresHtlc(h) \/ MakerStartsPayment(h) \/ MakerSendPaymentThrows(h)
           \/ MakerMonitorsPayment(h) \/ MakerSettleThrows(h) \/ MakerPaymentFailed(h)
           \/ MakerResolvesPreimage(h) \/ (MakerCompletes(h) /\ mDeal[h].state = "Active")
  <2>1. PICK next \in ResolveStates :
          /\ mResolve' = [mResolve EXCEPT ![h] = next]
          /\ \/ mResolve[h] = "idle"
             \/ next \in {"lookup", "monitor", "settling", "retry"}
             \/ secondPay[h] \in {"none", "failed"}
             \/ firstInv[h] = "settled"
             \/ mResolve[h] \in {"sending", "lookup", "monitor"} /\ mDeal[h].state # "Active"
    BY <1>4 DEF MakerIgnoresHtlc, MakerStartsPayment, MakerSendPaymentThrows, MakerMonitorsPayment,
       MakerSettleThrows, MakerPaymentFailed, MakerResolvesPreimage, MakerCompletes, mHtlcReported, ResolveStates
  <2>2. UNCHANGED <<mUp, mRecover, secondPay, firstInv>>
    BY <1>4 DEF MakerIgnoresHtlc, MakerStartsPayment, MakerSendPaymentThrows, MakerMonitorsPayment,
       MakerSettleThrows, MakerPaymentFailed, MakerResolvesPreimage, MakerCompletes, mHtlcReported
  <2>3. ~(mResolve[h] \in {"sending", "lookup", "monitor"} /\ mDeal[h].state # "Active")
    BY <1>1 DEF HashInv, StageInv
  <2>4. ASSUME NEW g \in Hashes, AtRisk(g)' PROVE AtRisk(g) /\ (Pursued(g) => Pursued(g)')
    <3>1. AtRisk(g)
      BY <2>2, <2>4 DEF AtRisk
    <3>2. CASE g # h
      BY <1>1, <2>1, <2>2, <3>1, <3>2 DEF Pursued, MakerTypeOK
    <3>3. CASE g = h
      BY <1>1, <2>1, <2>2, <2>3, <3>1, <3>3 DEF Pursued, AtRisk, MakerTypeOK
    <3> QED BY <3>2, <3>3
  <2> QED BY <2>2, <2>4, KeepsFollowing
<1>5. CASE MakerCompletes(h) /\ mDeal[h].state # "Active"
  BY <1>5 DEF MakerCompletes, mStops
<1> QED BY <1>2, <1>3, <1>4, <1>5 DEF MakerSwaps

LEMMA SavesFollow ==
  ASSUME MakerIInv, FollowInv, NEW h \in Hashes, MakerSaves(h), mUp'
  PROVE  FollowInv'
<1> USE DEF netVars, legs
<1>1. MakerTypeOK /\ HashInv(h)
  BY DEF MakerIInv
<1>2. CASE \/ MakerCopiesDeal(h) \/ MakerSavedAccepted(h) \/ MakerSaveAcceptedRejected(h)
           \/ MakerSavedLater(h) \/ MakerSaveLaterRejected(h)
  <2>1. UNCHANGED <<mUp, mResolve, mRecover, secondPay, firstInv>>
    BY <1>2 DEF MakerCopiesDeal, MakerSavedAccepted, MakerSaveAcceptedRejected, MakerSavedLater,
       MakerSaveLaterRejected
  <2> QED BY <1>1, <2>1, OtherFollows
<1>3. CASE MakerSavedSending(h) \/ MakerSaveSendingRejected(h)
  <2>1. mResolve[h] = "saving" /\ secondPay[h] = "none"
    <3>1. mSaves[h]["sending"].stage # "none"
      BY <1>3 DEF MakerSavedSending, MakerSaveSendingRejected, IsNextWrite, IsRejected, IsNextRead
    <3> QED BY <1>1, <3>1 DEF HashInv, SaveInv, StagedInv, PayInv
  <2>2. /\ UNCHANGED <<mUp, mRecover, firstInv>>
        /\ \/ secondPay' = secondPay /\ \E next \in ResolveStates : mResolve' = [mResolve EXCEPT ![h] = next]
           \/ /\ secondPay' = [secondPay EXCEPT ![h] = "inflight"]
              /\ mResolve' = [mResolve EXCEPT ![h] = "sending"]
    BY <1>3 DEF MakerSavedSending, MakerSaveSendingRejected, ResolveStates
  <2>3. ASSUME NEW g \in Hashes, AtRisk(g)' PROVE Pursued(g)'
    <3>1. CASE g # h
      <4>1. AtRisk(g) /\ mResolve'[g] = mResolve[g]
        BY <1>1, <2>2, <2>3, <3>1 DEF AtRisk, MakerTypeOK, NetTypeOK
      <4> QED BY <2>2, <4>1 DEF FollowInv, Pursued
    <3>2. CASE g = h
      <4>1. secondPay'[h] # "none"
        BY <2>3, <3>2 DEF AtRisk
      <4>2. mResolve'[h] = "sending"
        BY <1>1, <2>1, <2>2, <4>1 DEF MakerTypeOK, NetTypeOK
      <4> QED BY <3>2, <4>2 DEF Pursued
    <3> QED BY <3>1, <3>2
  <2> QED BY <2>3 DEF FollowInv
<1>4. CASE MakerAborts(h)
  BY <1>4 DEF MakerAborts, mStops
<1> QED BY <1>2, <1>3, <1>4 DEF MakerSaves

LEMMA RecoveryFollows ==
  ASSUME MakerIInv, FollowInv, NEW h \in Hashes, MakerRecovery(h)
  PROVE  FollowInv'
<1> USE DEF netVars, legs
<1>1. MakerTypeOK /\ HashInv(h)
  BY DEF MakerIInv
<1>2. UNCHANGED <<mUp, mResolve, secondPay, firstInv>>
  BY DEF MakerRecovery, MakerRecoveryLooksUp, MakerRecoveryFails, MakerRecoveryClaims, MakerRecovers,
     MakerClaimThrows
<1>3. PICK next \in RecoverStates :
        /\ mRecover' = [mRecover EXCEPT ![h] = next]
        /\ \/ next \in {"known", "claiming"}
           \/ secondPay[h] \in {"none", "failed"}
           \/ mRecover[h] = "canceling"
           \/ firstInv[h] = "settled"
  BY DEF MakerRecovery, MakerRecoveryLooksUp, MakerRecoveryFails, MakerRecoveryClaims, MakerRecovers,
     MakerClaimThrows, RecoverStates
<1>4. mRecover[h] = "canceling" => secondPay[h] \in Unpaid
  BY <1>1 DEF HashInv, RecoverInv
<1>5. ASSUME NEW g \in Hashes, AtRisk(g)' PROVE AtRisk(g) /\ (Pursued(g) => Pursued(g)')
  <2>1. AtRisk(g)
    BY <1>2, <1>5 DEF AtRisk
  <2>2. CASE g # h
    BY <1>1, <1>2, <1>3, <2>1, <2>2 DEF Pursued, MakerTypeOK
  <2>3. CASE g = h
    BY <1>1, <1>2, <1>3, <1>4, <2>1, <2>3 DEF Pursued, AtRisk, MakerTypeOK, Unpaid
  <2> QED BY <2>2, <2>3
<1> QED BY <1>2, <1>5, KeepsFollowing

LEMMA RestartsFollow ==
  ASSUME MakerIInv, MakerRestarts
  PROVE  FollowInv'
<1>1. ASSUME NEW h \in Hashes, AtRisk(h)' PROVE Pursued(h)'
  <2>1. AtRisk(h) /\ mRecover'[h] = mRecoverDeal(mRow[h])
    BY <1>1 DEF MakerRestarts, AtRisk, netVars, legs
  <2>2. mRecover'[h] \in {"pending", "known"}
    BY <2>1, RowsAtRisk DEF mRecoverDeal
  <2> QED BY <2>2 DEF Pursued
<1> QED BY <1>1 DEF FollowInv

LEMMA WorldFollows ==
  ASSUME MakerIInv, FollowInv, NEW h \in Hashes, MakerEnv(h) \/ FirstHtlcExpires(h)
  PROVE  FollowInv'
<1>1. MakerTypeOK
  BY DEF MakerIInv
<1>2. UNCHANGED <<mUp, mResolve, mRecover>>
  BY DEF MakerEnv, FirstHtlcExpires, mVars
<1>3. /\ \A g \in Hashes : secondPay'[g] \in {"inflight", "succeeded"} => secondPay[g] \in {"inflight", "succeeded"}
      /\ \A g \in Hashes : firstInv[g] = "settled" => firstInv'[g] = "settled"
  <2>1. CASE AnyTaker(h)
    BY <2>1 DEF AnyTaker
  <2>2. CASE Network(h)
    BY <1>1, <2>2 DEF Network, HtlcArrives, PaymentSucceeds, PaymentFails, SecondPaymentSucceeds,
       MakerTypeOK, NetTypeOK
  <2>3. CASE FirstHtlcExpires(h)
    BY <1>1, <2>3 DEF FirstHtlcExpires, MakerTypeOK, NetTypeOK
  <2> QED BY <2>1, <2>2, <2>3 DEF MakerEnv
<1>4. ASSUME NEW g \in Hashes, AtRisk(g)' PROVE AtRisk(g) /\ (Pursued(g) => Pursued(g)')
  BY <1>2, <1>3, <1>4 DEF AtRisk, Pursued
<1> QED BY <1>2, <1>4, KeepsFollowing

\* Every step keeps the maker after its payments.
LEMMA StepsFollow ==
  ASSUME MakerIInv, FollowInv, [MakerWorld]_MakerVars
  PROVE  FollowInv'
<1>1. ASSUME ~mUp' PROVE FollowInv'
  BY <1>1 DEF FollowInv
<1>2. CASE UNCHANGED MakerVars
  BY <1>2, OtherFollows DEF MakerVars, mVars, netVars, legs, MakerIInv
<1>3. ASSUME MakerCrashes PROVE ~mUp'
  BY <1>3 DEF MakerCrashes, mStops
<1> QED
  BY <1>1, <1>2, <1>3, SwapsFollow, SavesFollow, RecoveryFollows, RestartsFollow,
     WorldFollows DEF MakerWorld, MakerNext

-----------------------------------------------------------------------------
(* What follows from it *)

\* Every variable keeps its type: no deal of a maker is ever in SwapRequested, no
\* row is ever written by saveSwapDeal in SwapCreated.
THEOREM MakerTypeCorrect == MakerSpec => []MakerTypeOK
<1>1. MakerIInv => MakerTypeOK
  BY DEF MakerIInv
<1> QED
  BY <1>1, MakerInvariance, PTL

\* While the maker's payment may go through or has gone through, no failDeal, timeout,
\* rejected save, crash or recovery cancels the incoming HTLC.
THEOREM MakerFundsAreSafe == MakerSpec => []MakerFundsSafe
<1>1. MakerIInv => MakerFundsSafe
  BY DEF MakerIInv, HashInv, PayInv, MakerFundsSafe
<1> QED
  BY <1>1, MakerInvariance, PTL

\* A deal that failDeal or SwapRecovery called failed has no payment that is under way
\* or went through.
THEOREM MakerFailsForGood == MakerSpec => []MakerFailureIsFinal
<1>1. MakerIInv => MakerFailureIsFinal
  BY DEF MakerIInv, HashInv, PayInv, Unpaid, MakerFailureIsFinal
<1> QED
  BY <1>1, MakerInvariance, PTL

\* resolveHash only pays for a deal whose row says that it is paying; and until the
\* incoming HTLC is claimed, the row is active, and resolveHash, settleInvoice or, after
\* a restart, SwapRecovery is after the payment.
THEOREM MakerLosesNoPayment == MakerSpec => []MakerFollowsPayments
<1>1. MakerWorldInit => FollowInv
  BY DEF MakerWorldInit, NetInit, FollowInv, AtRisk
<1>2. MakerIInv /\ FollowInv /\ [MakerWorld]_MakerVars => FollowInv'
  BY StepsFollow
<1>3. MakerIInv /\ FollowInv => MakerFollowsPayments
  <2> SUFFICES ASSUME MakerIInv, FollowInv, NEW h \in Hashes
               PROVE  /\ secondPay[h] # "none" => mRow[h].phase \in Sending
                      /\ AtRisk(h) => mRow[h].state = "Active" /\ (mUp => Pursued(h))
    BY DEF MakerFollowsPayments, AtRisk, Sending
  <2>1. secondPay[h] # "none" => mRow[h].phase \in Sending
    BY DEF MakerIInv, HashInv, PayInv
  <2> QED
    BY <2>1, RowsAtRisk DEF FollowInv
<1> QED
  BY <1>1, <1>2, <1>3, MakerInvariance, PTL DEF MakerSpec

\* A deal is completed or recovered, and its invoice settled, only when the maker's
\* payment succeeded.
THEOREM MakerSucceedsForReal == MakerSpec => []MakerSuccessIsReal
<1>1. MakerIInv => MakerSuccessIsReal
  BY DEF MakerIInv, HashInv, PayInv, MakerSuccessIsReal
<1> QED
  BY <1>1, MakerInvariance, PTL

\* handleSwapTimeout finds an active deal for every timer that is running, and no active
\* deal waits for its taker without one.
THEOREM MakerTimersFindDeals == MakerSpec => []MakerTimersMatchDeals
<1>1. MakerIInv => MakerTimersMatchDeals
  <2> SUFFICES ASSUME MakerIInv, NEW h \in Hashes
               PROVE  /\ h \in mTimers => h \in mDeals /\ mDeal[h].state = "Active"
                      /\ mDeal[h] = [phase |-> "SwapCreated", state |-> "Active"] => mAccept[h] # "idle"
                      /\ mDeal[h] = [phase |-> "SwapAccepted", state |-> "Active"] => h \in mTimers
    BY DEF MakerTimersMatchDeals
  <2>1. DealInv(h) /\ StageInv(h)
    BY DEF MakerIInv, HashInv
  <2>2. ASSUME NEW phase, mDeal[h] = [phase |-> phase, state |-> "Active"]
        PROVE  mDeal[h].phase = phase /\ mDeal[h].state = "Active"
    BY <2>2
  <2> QED
    BY <2>1, <2>2 DEF DealInv, StageInv
<1> QED
  BY <1>1, MakerInvariance, PTL

\* resolveHash pays once, while the incoming HTLC is held and no cancelInvoice call is
\* under way, for a row that was saved as active.
THEOREM MakerIsCovered == MakerSpec => MakerPaysWhenCovered
<1> DEFINE Covered ==
      \A h \in Hashes :
        secondPay'[h] = "inflight" /\ secondPay[h] # "inflight" =>
          /\ secondPay[h] = "none"
          /\ firstInv[h] = "accepted" /\ h \notin mCancel
          /\ mRow'[h].state = "Active"
<1>1. ASSUME MakerIInv, NEW h \in Hashes, MakerSavedSending(h) PROVE Covered
  <2>1. HashInv(h) /\ MakerTypeOK
    BY <1>1 DEF MakerIInv
  <2>2. WriteEffect(h, "sending")
    BY <1>1, <2>1, WritesRow DEF MakerSavedSending, SaveTags
  <2>3. /\ mSaves[h]["sending"].stage = "read" /\ mRow'[h].state = mSaves[h]["sending"].deal.state
        /\ mResolve[h] = "saving"
    BY <2>1, <2>2 DEF WriteEffect, HashInv, SaveInv, StagedInv
  <2>4. secondPay[h] = "none"
    BY <2>1, <2>3 DEF HashInv, PayInv
  <2>5. CASE mDeal[h].state = "Error"
    BY <1>1, <2>5 DEF MakerSavedSending
  <2>6. CASE mDeal[h].state # "Error"
    <3>1. mDeal[h].state = "Active"
      BY <2>1, <2>3, <2>6 DEF HashInv, StageInv, DealInv, MakerTypeOK, MakerDeals, Deals, States
    <3>2. firstInv[h] = "accepted" /\ h \notin mCancel
      BY <2>1, <2>3, <3>1 DEF HashInv, StageInv, DealInv
    <3>3. mRow'[h].state = "Active"
      BY <2>1, <2>3, <3>1 DEF HashInv, SaveInv, StagedInv, CopyInv, SaveTags
    <3>4. \A g \in Hashes \ {h} : secondPay'[g] = secondPay[g]
      BY <1>1, <2>1 DEF MakerSavedSending, MakerTypeOK, NetTypeOK
    <3> QED
      BY <2>4, <3>2, <3>3, <3>4
  <2> QED
    BY <2>5, <2>6
<1>2. ASSUME MakerIInv, [MakerWorld]_MakerVars, \A h \in Hashes : ~MakerSavedSending(h) PROVE Covered
  <2> SUFFICES \A h \in Hashes : secondPay'[h] = "inflight" => secondPay[h] = "inflight"
    OBVIOUS
  <2>1. secondPay \in [Hashes -> PayStates]
    BY <1>2 DEF MakerIInv, MakerTypeOK, NetTypeOK
  <2>2. CASE UNCHANGED secondPay
    BY <2>2
  <2>3. CASE \E h \in Hashes : Network(h)
    BY <2>1, <2>3 DEF Network, HtlcArrives, PaymentSucceeds, PaymentFails, SecondPaymentSucceeds
  <2>4. ASSUME NEW h \in Hashes, MakerSwaps(h) PROVE UNCHANGED secondPay
    BY <2>4 DEF MakerSwaps, MakerRejects, MakerAddsDeal, MakerFindsRoute, MakerCannotAccept, MakerAccepts,
       MakerIgnoresHtlc, MakerStartsPayment, MakerSendPaymentThrows, MakerMonitorsPayment,
       MakerPaymentFailed, MakerResolvesPreimage, MakerInvoiceSettles, MakerCompletes, mStops,
       MakerSettleThrows, MakerTimesOut, MakerHandlesSwapFailed, MakerInvoiceCancels,
       MakerLosesSubscription, netVars, legs
  <2>5. ASSUME NEW h \in Hashes, MakerSaves(h) PROVE UNCHANGED secondPay
    BY <1>2, <2>5 DEF MakerSaves, MakerCopiesDeal, MakerSavedAccepted, MakerSaveAcceptedRejected,
       MakerSaveSendingRejected, MakerSavedLater, MakerSaveLaterRejected, MakerAborts, mStops,
       netVars, legs
  <2>6. ASSUME NEW h \in Hashes, MakerRecovery(h) PROVE UNCHANGED secondPay
    BY <2>6 DEF MakerRecovery, MakerRecoveryLooksUp, MakerRecoveryFails, MakerRecoveryClaims,
       MakerRecovers, MakerClaimThrows, netVars, legs
  <2>7. ASSUME NEW h \in Hashes, MakerEnv(h) \/ FirstHtlcExpires(h)
        PROVE  UNCHANGED secondPay \/ Network(h)
    BY <2>7 DEF MakerEnv, AnyTaker, FirstHtlcExpires
  <2>8. CASE MakerCrashes \/ MakerRestarts \/ UNCHANGED MakerVars
    BY <2>8 DEF MakerCrashes, mStops, MakerRestarts, MakerVars, netVars, legs
  <2> QED
    BY <1>2, <2>2, <2>3, <2>4, <2>5, <2>6, <2>7, <2>8 DEF MakerWorld, MakerNext
<1>3. MakerIInv /\ [MakerWorld]_MakerVars => [Covered]_MakerVars
  BY <1>1, <1>2
<1> QED
  BY <1>3, MakerInvariance, PTL DEF MakerSpec, MakerPaysWhenCovered

-----------------------------------------------------------------------------
(* The maker keeps deals as an order book takes them to be *)

\* What the order book sees of the deals, and what it has asked for.
seen == [h \in Hashes |-> MakerDealPhase(mDeal[h].phase)]
unsuccessful == {h \in Hashes : mDeal[h].state = "Error"}
asked == {h \in Hashes : mAccept[h] # "idle"}
seenVars == <<seen, unsuccessful, asked>>

\* A step of the order book's deals, in these terms.
DealStep(h) ==
  \/ /\ seen[h] = "none" /\ seen' = [seen EXCEPT ![h] = "created"]
     /\ asked' = asked \cup {h} /\ unsuccessful' = unsuccessful
  \/ /\ seen[h] \in {"created", "agreed"} /\ h \notin unsuccessful
     /\ unsuccessful' = unsuccessful \cup {h} /\ seen' = seen /\ asked' = asked
  \/ /\ h \in asked /\ asked' = asked \ {h} /\ seen[h] \in {"created", "agreed"}
     /\ unsuccessful' = unsuccessful \cup {h} /\ seen' = seen
  \/ /\ h \in asked /\ asked' = asked /\ unsuccessful' = unsuccessful
     /\ seen[h] = "created" /\ h \notin unsuccessful
     /\ seen' = [seen EXCEPT ![h] = "agreed"]
  \/ /\ h \in asked /\ asked' = asked \ {h} /\ unsuccessful' = unsuccessful
     /\ seen[h] = "agreed" /\ seen' = seen
  \/ /\ h \notin asked /\ asked' = asked /\ unsuccessful' = unsuccessful
     /\ seen[h] = "agreed" /\ h \notin unsuccessful
     /\ seen' = [seen EXCEPT ![h] = "paid"]

\* DealStep is what module Deal allows, and so is a step nobody sees.
LEMMA DealStepIsDeal ==
  ASSUME UNCHANGED seenVars \/ \E h \in Hashes : DealStep(h)
  PROVE  [MakerDeal!Next]_(MakerDeal!dealVars)
<1> USE DEF seen, unsuccessful, asked
<1>1. ASSUME UNCHANGED seenVars PROVE UNCHANGED MakerDeal!dealVars
  BY <1>1 DEF seenVars, MakerDeal!dealVars
<1>2. ASSUME NEW h \in Hashes, DealStep(h) PROVE MakerDeal!Next
  <2>1. \/ MakerDeal!Create(h) \/ MakerDeal!Fail(h) \/ MakerDeal!Refuse(h) \/ MakerDeal!Agree(h)
        \/ MakerDeal!Answer(h) \/ MakerDeal!Withdraw(h) \/ MakerDeal!Pay(h)
    BY <1>2, SMTT(30) DEF DealStep, MakerDeal!Create, MakerDeal!Fail, MakerDeal!canFail, MakerDeal!Refuse,
       MakerDeal!Agree, MakerDeal!Answer, MakerDeal!Withdraw, MakerDeal!Pay, MakerDeal!canPay
  <2> QED BY <2>1 DEF MakerDeal!Next
<1> QED
  BY <1>1, <1>2

\* One deal of a hash in a new phase or state, the others as they were.
LEMMA SeesDeal ==
  ASSUME NEW h \in Hashes, \A g \in Hashes \ {h} : mDeal'[g] = mDeal[g]
  PROVE  /\ seen[h] = MakerDealPhase(mDeal[h].phase)
         /\ seen' = [seen EXCEPT ![h] = MakerDealPhase(mDeal'[h].phase)]
         /\ h \in unsuccessful <=> mDeal[h].state = "Error"
         /\ unsuccessful' = IF mDeal'[h].state = "Error" THEN unsuccessful \cup {h}
                            ELSE unsuccessful \ {h}
<1>1. seen' = [g \in Hashes |-> MakerDealPhase(mDeal'[g].phase)]
  BY DEF seen, MakerDealPhase
<1>2. seen' = [seen EXCEPT ![h] = MakerDealPhase(mDeal'[h].phase)]
  BY <1>1 DEF seen
<1>3. unsuccessful' = {g \in Hashes : mDeal'[g].state = "Error"}
  BY DEF unsuccessful
<1> QED
  BY <1>2, <1>3 DEF seen, unsuccessful

\* The same of acceptDeal.
LEMMA SeesAccept ==
  ASSUME NEW h \in Hashes, NEW stage \in AcceptStates, MakerTypeOK,
         mAccept' = [mAccept EXCEPT ![h] = stage]
  PROVE  /\ h \in asked <=> mAccept[h] # "idle"
         /\ asked' = IF stage = "idle" THEN asked \ {h} ELSE asked \cup {h}
  BY DEF asked, MakerTypeOK

\* What is kept looks the same.
LEMMA SeesNothing ==
  ASSUME mDeal' = mDeal, mAccept' = mAccept
  PROVE  UNCHANGED seenVars
  BY DEF seenVars, seen, unsuccessful, asked, MakerDealPhase

\* What an active or failed deal of an unpaid swap is seen as.
LEMMA SeesPhases ==
  ASSUME MakerTypeOK, NEW h \in Hashes
  PROVE  /\ MakerDealPhase("None") = "none" /\ MakerDealPhase("SwapCreated") = "created"
         /\ MakerDealPhase("SwapAccepted") = "agreed" /\ MakerDealPhase("SendingPayment") = "agreed"
         /\ MakerDealPhase("PreimageResolved") = "paid" /\ MakerDealPhase("PaymentReceived") = "paid"
  BY DEF MakerDealPhase

\* failDeal is seen to fail the deal of an unpaid swap, once.
LEMMA SeesFailDeal ==
  ASSUME MakerIInv, NEW h \in Hashes, NEW pending \in [SaveTags -> Saves], NEW tellPeer \in BOOLEAN,
         mFailDeal(h, pending, tellPeer),
         mDeal[h].phase \in {"SwapCreated", "SwapAccepted", "SendingPayment"} \/ mDeal[h].state # "Active"
  PROVE  /\ seen' = seen
         /\ mDeal[h].state = "Active" =>
              /\ seen[h] \in {"created", "agreed"} /\ h \notin unsuccessful
              /\ unsuccessful' = unsuccessful \cup {h}
         /\ mDeal[h].state # "Active" => unsuccessful' = unsuccessful
<1>1. MakerTypeOK /\ FailEffect(h, pending)
  BY FailDealEffect DEF MakerIInv
<1>2. /\ \A g \in Hashes \ {h} : mDeal'[g] = mDeal[g]
      /\ mDeal'[h].phase = mDeal[h].phase
      /\ mDeal[h].state = "Active" => mDeal'[h].state = "Error"
      /\ mDeal[h].state # "Active" => mDeal'[h] = mDeal[h]
  BY <1>1 DEF FailEffect
<1>3. /\ seen[h] = MakerDealPhase(mDeal[h].phase)
      /\ seen' = [seen EXCEPT ![h] = seen[h]]
      /\ h \in unsuccessful <=> mDeal[h].state = "Error"
      /\ unsuccessful' = IF mDeal'[h].state = "Error" THEN unsuccessful \cup {h}
                         ELSE unsuccessful \ {h}
  BY <1>2, SeesDeal
<1>4. seen' = seen
  BY <1>3 DEF seen
<1>5. mDeal[h].state # "Active" => unsuccessful' = unsuccessful
  BY <1>2, <1>3
<1>6. ASSUME mDeal[h].state = "Active"
      PROVE  /\ seen[h] \in {"created", "agreed"} /\ h \notin unsuccessful
             /\ unsuccessful' = unsuccessful \cup {h}
  BY <1>1, <1>2, <1>3, <1>6, SeesPhases
<1> QED
  BY <1>4, <1>5, <1>6

\* acceptDeal as the order book sees it.
LEMMA SeesAcceptDeal ==
  ASSUME MakerIInv, NEW h \in Hashes,
         \/ MakerAddsDeal(h) \/ MakerFindsRoute(h) \/ MakerCannotAccept(h) \/ MakerAccepts(h)
         \/ MakerSavedAccepted(h) \/ MakerSaveAcceptedRejected(h), mUp
  PROVE  UNCHANGED seenVars \/ DealStep(h)
<1>1. HashInv(h) /\ MakerTypeOK
  BY DEF MakerIInv
<1>2. {"idle", "route", "invoice", "saving"} \subseteq AcceptStates
  BY DEF AcceptStates
<1>3. CASE MakerAddsDeal(h)
  <2>1. mDeal[h].phase = "None" /\ mDeal[h].state = "None"
    BY <1>1, <1>3 DEF MakerAddsDeal, HashInv, FreshInv, DealInv
  <2>2. /\ mDeal'[h] = [phase |-> "SwapCreated", state |-> "Active"]
        /\ \A g \in Hashes \ {h} : mDeal'[g] = mDeal[g]
    BY <1>1, <1>3 DEF MakerAddsDeal, MakerTypeOK
  <2>3. asked' = asked \cup {h}
    BY <1>1, <1>2, <1>3, SeesAccept DEF MakerAddsDeal
  <2>4. /\ seen[h] = "none" /\ seen' = [seen EXCEPT ![h] = "created"]
        /\ h \notin unsuccessful /\ unsuccessful' = unsuccessful \ {h}
    BY <1>1, <2>1, <2>2, SeesDeal, SeesPhases
  <2> QED
    BY <2>3, <2>4 DEF DealStep
<1>4. CASE MakerFindsRoute(h)
  <2>1. h \in asked /\ asked' = asked \cup {h}
    BY <1>1, <1>2, <1>4, SeesAccept DEF MakerFindsRoute
  <2>2. seen' = seen /\ unsuccessful' = unsuccessful
    BY <1>4 DEF MakerFindsRoute, seen, unsuccessful, MakerDealPhase
  <2> QED
    BY <2>1, <2>2 DEF seenVars
<1>5. CASE MakerCannotAccept(h)
  <2>1. mDeal[h].phase = "SwapCreated" /\ mDeal[h].state \in {"Active", "Error"}
    BY <1>1, <1>5 DEF MakerCannotAccept, HashInv, StageInv, DealInv, MakerTypeOK, MakerDeals, Deals, States
  <2>2. h \in asked /\ asked' = asked \ {h}
    BY <1>1, <1>2, <1>5, SeesAccept DEF MakerCannotAccept
  <2>3. mSaves[h] \in [SaveTags -> Saves]
    BY <1>1 DEF MakerTypeOK
  <2>4. seen[h] = "created" /\ seen' = seen /\ unsuccessful' = unsuccessful \cup {h}
    BY <1>1, <1>5, <2>1, <2>3, SeesFailDeal, SeesPhases DEF MakerCannotAccept, seen, unsuccessful
  <2> QED
    BY <2>2, <2>4 DEF DealStep
<1>6. CASE MakerAccepts(h)
  <2>1. mDeal[h].phase = "SwapCreated" /\ mDeal[h].state \in {"Active", "Error"} /\ h \in asked
    BY <1>1, <1>6 DEF MakerAccepts, HashInv, StageInv, DealInv, MakerTypeOK, MakerDeals, Deals, States, asked
  <2>2. seen[h] = "created" /\ (h \in unsuccessful <=> mDeal[h].state = "Error")
    BY <1>1, <2>1, SeesPhases DEF seen, unsuccessful
  <2>3. CASE mDeal[h].state = "Active"
    <3>1. /\ mDeal'[h] = [phase |-> "SwapAccepted", state |-> "Active"]
          /\ \A g \in Hashes \ {h} : mDeal'[g] = mDeal[g]
      BY <1>1, <1>6, <2>3, SetsPhase DEF MakerAccepts, MakerPhases, Phases
    <3>2. asked' = asked \cup {h}
      BY <1>1, <1>2, <1>6, <2>3, SeesAccept DEF MakerAccepts
    <3>3. seen' = [seen EXCEPT ![h] = "agreed"] /\ unsuccessful' = unsuccessful \ {h}
      BY <1>1, <3>1, SeesDeal, SeesPhases
    <3> QED
      BY <2>1, <2>2, <2>3, <3>2, <3>3 DEF DealStep
  <2>4. CASE mDeal[h].state = "Error"
    <3>1. asked' = asked \ {h}
      BY <1>1, <1>2, <1>6, <2>4, SeesAccept DEF MakerAccepts
    <3>2. seen' = seen /\ unsuccessful' = unsuccessful
      BY <1>6, <2>4 DEF MakerAccepts, seen, unsuccessful, MakerDealPhase
    <3> QED
      BY <2>1, <2>2, <2>4, <3>1, <3>2 DEF DealStep
  <2> QED
    BY <2>1, <2>3, <2>4
<1>7. CASE MakerSavedAccepted(h)
  <2>1. mSaves[h]["accepted"].stage # "none"
    BY <1>7 DEF MakerSavedAccepted, IsNextWrite
  <2>2. h \in asked /\ seen[h] = "agreed"
    BY <1>1, <2>1, SeesPhases DEF HashInv, SaveInv, StagedInv, asked, seen
  <2>3. asked' = asked \ {h}
    BY <1>1, <1>2, <1>7, SeesAccept DEF MakerSavedAccepted
  <2>4. seen' = seen /\ unsuccessful' = unsuccessful
    BY <1>7 DEF MakerSavedAccepted, seen, unsuccessful, MakerDealPhase
  <2> QED
    BY <2>2, <2>3, <2>4 DEF DealStep
<1>8. CASE MakerSaveAcceptedRejected(h)
  <2>1. mSaves[h]["accepted"].stage # "none"
    BY <1>8 DEF MakerSaveAcceptedRejected, IsRejected, IsNextRead, IsNextWrite
  <2>2. h \in asked /\ seen[h] = "agreed" /\ mDeal[h].phase \in {"SwapAccepted", "SendingPayment"}
        /\ mDeal[h].state \in {"Active", "Error"}
    BY <1>1, <2>1, SeesPhases DEF HashInv, SaveInv, StagedInv, DealInv, asked, seen, MakerTypeOK,
       MakerDeals, Deals, States
  <2>3. asked' = asked \ {h}
    BY <1>1, <1>2, <1>8, SeesAccept DEF MakerSaveAcceptedRejected
  <2>4. [mSaves[h] EXCEPT !["accepted"] = NoSave] \in [SaveTags -> Saves]
    BY <1>1, IssuedIsSave DEF MakerTypeOK
  <2>5. seen' = seen /\ unsuccessful' = unsuccessful \cup {h}
    BY <1>1, <1>8, <2>2, <2>4, SeesFailDeal DEF MakerSaveAcceptedRejected, unsuccessful
  <2> QED
    BY <2>2, <2>3, <2>5 DEF DealStep
<1> QED
  BY <1>3, <1>4, <1>5, <1>6, <1>7, <1>8

\* What fails an agreed deal as the order book sees it.
LEMMA SeesFailures ==
  ASSUME MakerIInv, NEW h \in Hashes,
         MakerPaymentFailed(h) \/ MakerHandlesSwapFailed(h) \/ MakerTimesOut(h)
  PROVE  UNCHANGED seenVars \/ DealStep(h)
<1>1. HashInv(h) /\ MakerTypeOK
  BY DEF MakerIInv
<1>2. mSaves[h] \in [SaveTags -> Saves] /\ asked' = asked
  BY <1>1 DEF MakerTypeOK, asked, MakerPaymentFailed, MakerHandlesSwapFailed, MakerTimesOut
<1>3. ASSUME NEW tellPeer \in BOOLEAN, mFailDeal(h, mSaves[h], tellPeer),
             \/ mDeal[h].phase \in {"SwapCreated", "SwapAccepted", "SendingPayment"}
             \/ mDeal[h].state # "Active"
      PROVE  UNCHANGED seenVars \/ DealStep(h)
  BY <1>2, <1>3, SeesFailDeal DEF seenVars, DealStep
<1>4. CASE MakerPaymentFailed(h)
  BY <1>1, <1>3, <1>4 DEF MakerPaymentFailed, HashInv, StageInv
<1>5. CASE MakerHandlesSwapFailed(h)
  <2>1. mDeal[h].phase \in {"SwapCreated", "SwapAccepted", "SendingPayment"} \/ mDeal[h].state # "Active"
    BY <1>1, <1>5 DEF MakerHandlesSwapFailed, HashInv, DealInv, MakerTypeOK, MakerDeals, Deals, Phases
  <2> QED
    BY <1>3, <1>5, <2>1 DEF MakerHandlesSwapFailed
<1>6. CASE MakerTimesOut(h)
  <2>1. CASE mDeal[h].phase = "SwapAccepted"
    BY <1>3, <1>6, <2>1 DEF MakerTimesOut
  <2>2. CASE mDeal[h].phase # "SwapAccepted"
    <3>1. mDeal[h].phase # "SwapRequested"
      BY <1>1 DEF MakerTypeOK, MakerDeals
    <3>2. mDeal' = mDeal /\ mAccept' = mAccept
      BY <1>6, <2>2, <3>1 DEF MakerTimesOut
    <3> QED
      BY <3>2, SeesNothing
  <2> QED
    BY <2>1, <2>2
<1> QED
  BY <1>4, <1>5, <1>6

\* The payment as the order book sees it: the deal is paid when the preimage is resolved.
LEMMA SeesPayment ==
  ASSUME MakerIInv, NEW h \in Hashes,
         MakerStartsPayment(h) \/ MakerResolvesPreimage(h)
  PROVE  UNCHANGED seenVars \/ DealStep(h)
<1>1. HashInv(h) /\ MakerTypeOK
  BY DEF MakerIInv
<1>2. asked' = asked
  BY DEF asked, MakerStartsPayment, MakerResolvesPreimage
<1>3. CASE MakerStartsPayment(h)
  <2>1. /\ mDeal'[h] = [phase |-> "SendingPayment", state |-> "Active"]
        /\ \A g \in Hashes \ {h} : mDeal'[g] = mDeal[g]
    <3>1. mDeal[h].state = "Active" /\ "SendingPayment" \in MakerPhases
      BY <1>3 DEF MakerStartsPayment, MakerPhases, Phases
    <3>2. mDeal' = [mDeal EXCEPT ![h].phase = "SendingPayment"]
      BY <1>3 DEF MakerStartsPayment
    <3> QED
      BY <1>1, <3>1, <3>2, SetsPhase
  <2>2. /\ seen[h] = "agreed" /\ seen' = [seen EXCEPT ![h] = "agreed"]
        /\ h \notin unsuccessful /\ unsuccessful' = unsuccessful \ {h}
    BY <1>1, <1>3, <2>1, SeesDeal, SeesPhases DEF MakerStartsPayment
  <2>3. seen' = seen
    BY <2>2 DEF seen
  <2> QED
    BY <1>2, <2>2, <2>3 DEF seenVars
<1>4. CASE MakerResolvesPreimage(h)
  <2>1. mDeal[h] = [phase |-> "SendingPayment", state |-> "Active"] /\ h \notin asked
    BY <1>1, <1>4 DEF MakerResolvesPreimage, HashInv, StageInv, SaveInv, StagedInv, asked, MakerTypeOK,
       AcceptStates
  <2>2. /\ mDeal'[h] = [phase |-> "PreimageResolved", state |-> "Active"]
        /\ \A g \in Hashes \ {h} : mDeal'[g] = mDeal[g]
    BY <1>1, <1>4, <2>1, SetsPhase DEF MakerResolvesPreimage, MakerPhases, Phases
  <2>3. /\ seen[h] = "agreed" /\ seen' = [seen EXCEPT ![h] = "paid"]
        /\ h \notin unsuccessful /\ unsuccessful' = unsuccessful \ {h}
    BY <1>1, <2>1, <2>2, SeesDeal, SeesPhases
  <2> QED
    BY <1>2, <2>1, <2>3 DEF DealStep
<1> QED
  BY <1>3, <1>4

\* The process stops.
LEMMA SeesStop ==
  ASSUME mStops
  PROVE  MakerDeal!Next
<1>1. MakerDealPhase("None") = "none"
  BY DEF MakerDealPhase
<1>2. \A h \in Hashes : mDeal'[h] = [phase |-> "None", state |-> "None"] /\ mAccept'[h] = "idle"
  BY DEF mStops, NoDeal
<1>3. /\ [h \in Hashes |-> MakerDealPhase(mDeal'[h].phase)] = [h \in Hashes |-> "none"]
      /\ {h \in Hashes : mDeal'[h].state = "Error"} = {}
      /\ {h \in Hashes : mAccept'[h] # "idle"} = {}
  BY <1>1, <1>2
<1>4. MakerDeal!Stop
  BY <1>3 DEF MakerDeal!Stop, MakerDealPhase
<1> QED
  BY <1>4 DEF MakerDeal!Next

\* Completion, which stops the process if the deal has failed meanwhile.
LEMMA SeesCompletion ==
  ASSUME MakerIInv, NEW h \in Hashes, MakerCompletes(h)
  PROVE  UNCHANGED seenVars \/ MakerDeal!Next
<1>1. HashInv(h) /\ MakerTypeOK
  BY DEF MakerIInv
<1>2. mDeal[h] = [phase |-> "PreimageResolved", state |-> "Active"]
  BY <1>1 DEF MakerCompletes, HashInv, StageInv
<1>3. /\ mDeal' = [mDeal EXCEPT ![h] = [phase |-> "PaymentReceived", state |-> "Completed"]]
      /\ mAccept' = mAccept
  BY <1>2 DEF MakerCompletes
<1>4. /\ mDeal'[h] = [phase |-> "PaymentReceived", state |-> "Completed"]
      /\ \A g \in Hashes \ {h} : mDeal'[g] = mDeal[g]
  BY <1>1, <1>3 DEF MakerTypeOK
<1>5. /\ seen[h] = "paid" /\ seen' = [seen EXCEPT ![h] = "paid"]
      /\ h \notin unsuccessful /\ unsuccessful' = unsuccessful \ {h}
  BY <1>1, <1>2, <1>4, SeesDeal, SeesPhases
<1>6. seen' = seen /\ asked' = asked
  BY <1>3, <1>5 DEF seen, asked
<1> QED
  BY <1>5, <1>6 DEF seenVars

\* Every step of the maker is one that an order book expects of its deals.
LEMMA DealSteps ==
  ASSUME MakerIInv, [MakerWorld]_MakerVars
  PROVE  [MakerDeal!Next]_(MakerDeal!dealVars)
<1>1. ASSUME mDeal' = mDeal, mAccept' = mAccept PROVE [MakerDeal!Next]_(MakerDeal!dealVars)
  BY <1>1, SeesNothing, DealStepIsDeal
<1>2. ASSUME NEW h \in Hashes, mUp, MakerSwaps(h) PROVE [MakerDeal!Next]_(MakerDeal!dealVars)
  <2>1. CASE MakerAddsDeal(h) \/ MakerFindsRoute(h) \/ MakerCannotAccept(h) \/ MakerAccepts(h)
    BY <1>2, <2>1, SeesAcceptDeal, DealStepIsDeal
  <2>2. CASE MakerPaymentFailed(h) \/ MakerHandlesSwapFailed(h) \/ MakerTimesOut(h)
    BY <2>2, SeesFailures, DealStepIsDeal
  <2>3. CASE MakerStartsPayment(h) \/ MakerResolvesPreimage(h)
    BY <2>3, SeesPayment, DealStepIsDeal
  <2>4. CASE MakerCompletes(h)
    BY <2>4, SeesCompletion, DealStepIsDeal
  <2>5. CASE \/ MakerRejects(h) \/ MakerIgnoresHtlc(h) \/ MakerSendPaymentThrows(h)
             \/ MakerMonitorsPayment(h) \/ MakerInvoiceSettles(h) \/ MakerSettleThrows(h)
             \/ MakerInvoiceCancels(h) \/ MakerLosesSubscription(h)
    BY <1>1, <2>5 DEF MakerRejects, MakerIgnoresHtlc, MakerSendPaymentThrows, MakerMonitorsPayment,
       MakerInvoiceSettles, MakerSettleThrows, MakerInvoiceCancels, MakerLosesSubscription, mVars
  <2> QED
    BY <1>2, <2>1, <2>2, <2>3, <2>4, <2>5 DEF MakerSwaps
<1>3. ASSUME NEW h \in Hashes, mUp, MakerSaves(h) PROVE [MakerDeal!Next]_(MakerDeal!dealVars)
  <2>1. CASE MakerSavedAccepted(h) \/ MakerSaveAcceptedRejected(h)
    BY <1>3, <2>1, SeesAcceptDeal, DealStepIsDeal
  <2>2. CASE MakerAborts(h)
    BY <2>2, SeesStop DEF MakerAborts
  <2>3. CASE \/ MakerCopiesDeal(h) \/ MakerSavedSending(h) \/ MakerSaveSendingRejected(h)
             \/ MakerSavedLater(h) \/ MakerSaveLaterRejected(h)
    BY <1>1, <2>3 DEF MakerCopiesDeal, MakerSavedSending, MakerSaveSendingRejected, MakerSavedLater,
       MakerSaveLaterRejected
  <2> QED
    BY <1>3, <2>1, <2>2, <2>3 DEF MakerSaves
<1>4. ASSUME NEW h \in Hashes, MakerRecovery(h) PROVE [MakerDeal!Next]_(MakerDeal!dealVars)
  BY <1>1, <1>4 DEF MakerRecovery, MakerRecoveryLooksUp, MakerRecoveryFails, MakerRecoveryClaims,
     MakerRecovers, MakerClaimThrows
<1>5. ASSUME NEW h \in Hashes, MakerEnv(h) \/ FirstHtlcExpires(h)
      PROVE  [MakerDeal!Next]_(MakerDeal!dealVars)
  BY <1>1, <1>5 DEF MakerEnv, FirstHtlcExpires, mVars
<1>6. CASE MakerCrashes
  BY <1>6, SeesStop DEF MakerCrashes
<1>7. CASE MakerRestarts \/ UNCHANGED MakerVars
  BY <1>1, <1>7 DEF MakerRestarts, MakerVars, mVars
<1> QED
  BY <1>2, <1>3, <1>4, <1>5, <1>6, <1>7 DEF MakerWorld, MakerNext

\* The maker keeps its deals as OwnOrders takes a deal to be: it fails once or is paid
\* once, never both, and is not paid before acceptDeal has answered.
THEOREM MakerKeepsItsDeals == MakerSpec => MakerKeepsDeals
<1>1. MakerWorldInit => MakerDeal!Init
  BY DEF MakerWorldInit, MakerInit, MakerDeal!Init, MakerDealPhase, NoDeal
<1> QED
  BY <1>1, DealSteps, MakerInvariance, PTL DEF MakerSpec, MakerKeepsDeals, MakerDeal!Spec
=============================================================================
