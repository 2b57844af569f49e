------------------------------- MODULE SwapNet -------------------------------
(***************************************************************************)
(* What lies between the two xud processes of a swap: the packets they     *)
(* exchange and, for each payment hash, the two hold invoices and the two  *)
(* payments, as the LND nodes of the two parties keep them.                *)
(*                                                                         *)
(*   first leg   the taker pays the maker in makerCurrency;                *)
(*   second leg  the maker pays the taker in takerCurrency.                *)
(*                                                                         *)
(* The preimage of a hash is the taker's.  An LND node learns it only by   *)
(* settling the second invoice with it, and a payer only by the success of *)
(* its payment.                                                            *)
(***************************************************************************)

EXTENDS Naturals

CONSTANTS
  Hashes,  \* payment hashes, each drawn at random by one taker for one swap
  Faults   \* the kinds of faults that may happen

FaultKinds ==
  { "crash",   \* an xud process stops and starts again
    "db",      \* a write to the database is rejected
    "client",  \* a call to a swap client fails, or its stream breaks
    "peer" }   \* the counterparty is not connected when it is looked up

ASSUME FaultsAssumption == Faults \subseteq FaultKinds

VARIABLES
  packets,   \* packets sent so far; delivery is optional, late and unordered
  firstInv,  \* the maker's hold invoice
  firstPay,  \* the taker's payment to it
  secondInv, \* the taker's hold invoice
  secondPay  \* the maker's payment to it

legs == <<firstInv, firstPay, secondInv, secondPay>>
netVars == <<packets, legs>>

InvStates == {"none", "open", "accepted", "settled", "canceled"}
PayStates == {"none", "inflight", "succeeded", "failed"}

\* SwapPhase and SwapState of lib/constants/enums.ts; "None" stands for no deal.
Phases == {"None", "SwapCreated", "SwapRequested", "SwapAccepted",
           "SendingPayment", "PreimageResolved", "PaymentReceived"}
States == {"None", "Active", "Error", "Completed", "Recovered"}

Deals == [phase : Phases, state : States]
NoDeal == [phase |-> "None", state |-> "None"]

Rows == [phase : Phases, state : States, preimage : BOOLEAN]
NoRow == [phase |-> "None", state |-> "None", preimage |-> FALSE]

\* "BadAcceptance" is a SwapAccepted packet with a quantity that is not
\* positive or exceeds the one proposed.
PacketTypes == {"SwapRequest", "SwapAccepted", "BadAcceptance", "SwapFailed"}
Packet(type, to, h) == [type |-> type, to |-> to, hash |-> h]
Packets == [type : PacketTypes, to : {"maker", "taker"}, hash : Hashes]

\* failDeal and setDealPhase save a deal in every phase but the first two.
\* Mutant: a deal is saved in every phase.
PersistedAlways(phase) == TRUE
Persisted(phase) == phase \notin {"SwapCreated", "SwapRequested"}

(***************************************************************************)
(* Peer.sendPacket: the packet is on its way, or is lost without the       *)
(* sender being told.  Packets are never taken out of the set, so one that *)
(* is never received stands for a lost one.                                *)
(***************************************************************************)
sendPacket(type, to, h) == packets' = packets \cup {Packet(type, to, h)}

(***************************************************************************)
(* SwapRepository.saveSwapDeal, one call for each phase that is saved and  *)
(* one for a failure.  A call first looks up the peer's node, then copies  *)
(* the deal as it is by then, and then writes the copy.  The database has  *)
(* one connection, so calls read and write in the order of being issued.   *)
(***************************************************************************)
SaveTags == {"accepted", "sending", "resolved", "received", "failed"}
Rank == [accepted |-> 1, sending |-> 2, resolved |-> 3, received |-> 4, failed |-> 5]

Saves == [stage : {"none", "issued", "read"}, deal : Deals]
NoSave == [stage |-> "none", deal |-> NoDeal]
Issued == [stage |-> "issued", deal |-> NoDeal]
Read(deal) == [stage |-> "read", deal |-> deal]
NoSaves == [tag \in SaveTags |-> NoSave]

IsNextRead(saves, tag) ==
  /\ saves[tag].stage = "issued"
  /\ \A t \in SaveTags : saves[t].stage = "issued" => Rank[tag] <= Rank[t]
IsNextWrite(saves, tag) ==
  /\ saves[tag].stage = "read"
  /\ \A t \in SaveTags : saves[t].stage # "none" => Rank[tag] <= Rank[t]

\* Either of the two queries of a call is rejected.
IsRejected(saves, tag) ==
  /\ "db" \in Faults
  /\ IsNextRead(saves, tag) \/ IsNextWrite(saves, tag)

-----------------------------------------------------------------------------
(* The lightning networks of the two currencies.                           *)

\* An HTLC of a payment in flight reaches a node that has an open invoice.
HtlcArrives(inv, pay, h) ==
  /\ inv[h] = "open" /\ pay[h] = "inflight"
  /\ inv' = [inv EXCEPT ![h] = "accepted"]

\* The payee settled its invoice: the preimage travels back to the payer.
PaymentSucceeds(inv, pay, h) ==
  /\ inv[h] = "settled" /\ pay[h] = "inflight"
  /\ pay' = [pay EXCEPT ![h] = "succeeded"]

\* No route, a rejected HTLC or one that was canceled: a final failure.
PaymentFails(inv, pay, h) ==
  /\ inv[h] \in {"none", "open", "canceled"} /\ pay[h] = "inflight"
  /\ pay' = [pay EXCEPT ![h] = "failed"]

\* The HTLC of the second leg times out.
SecondHtlcExpires(h) ==
  /\ secondInv[h] = "accepted"
  /\ secondInv' = [secondInv EXCEPT ![h] = "canceled"]
  /\ UNCHANGED <<packets, firstInv, firstPay, secondPay>>

\* The maker's LND node learns the preimage.
SecondPaymentSucceeds(h) ==
  /\ PaymentSucceeds(secondInv, secondPay, h)
  /\ UNCHANGED <<packets, firstInv, firstPay, secondInv>>

Network(h) ==
  \/ HtlcArrives(firstInv, firstPay, h)     /\ UNCHANGED <<packets, firstPay, secondInv, secondPay>>
  \/ HtlcArrives(secondInv, secondPay, h)   /\ UNCHANGED <<packets, firstInv, firstPay, secondPay>>
  \/ PaymentSucceeds(firstInv, firstPay, h) /\ UNCHANGED <<packets, firstInv, secondInv, secondPay>>
  \/ PaymentFails(firstInv, firstPay, h)    /\ UNCHANGED <<packets, firstInv, secondInv, secondPay>>
  \/ PaymentFails(secondInv, secondPay, h)  /\ UNCHANGED <<packets, firstInv, firstPay, secondInv>>
  \/ SecondPaymentSucceeds(h)

NetInit ==
  /\ packets = {}
  /\ firstInv = [h \in Hashes |-> "none"]  /\ firstPay = [h \in Hashes |-> "none"]
  /\ secondInv = [h \in Hashes |-> "none"] /\ secondPay = [h \in Hashes |-> "none"]

NetTypeOK ==
  /\ packets \subseteq Packets
  /\ firstInv \in [Hashes -> InvStates]  /\ firstPay \in [Hashes -> PayStates]
  /\ secondInv \in [Hashes -> InvStates] /\ secondPay \in [Hashes -> PayStates]
=============================================================================
