--------------------------------- MODULE Deal ---------------------------------
(***************************************************************************)
(* What an order book sees of a swap it is the maker of, whatever packets, *)
(* payments and saves are behind it: acceptDeal is asked for a deal and    *)
(* answers later; meanwhile and afterwards the deal may fail, once, or be  *)
(* paid, once, and never both.                                             *)
(***************************************************************************)
CONSTANT Hashes
VARIABLES
  deal,    \* phase of the deal of each hash
  failed,  \* the hashes whose deal has failed
  asking   \* the hashes for which acceptDeal has not returned yet

dealVars == <<deal, failed, asking>>

DealPhases == {"none", "created", "agreed", "paid"}

DealTypeOK ==
  /\ deal \in [Hashes -> DealPhases]
  /\ failed \subseteq Hashes /\ asking \subseteq Hashes

Init == deal = [h \in Hashes |-> "none"] /\ failed = {} /\ asking = {}

\* acceptDeal adds a deal.
Create(h) ==
  /\ deal[h] = "none"
  /\ deal' = [deal EXCEPT ![h] = "created"]
  /\ asking' = asking \cup {h}
  /\ UNCHANGED failed

\* The deal fails: by a packet of the peer, a timer, or its payment.
canFail(h) == deal[h] \in {"created", "agreed"} /\ h \notin failed
Fail(h) ==
  /\ canFail(h)
  /\ failed' = failed \cup {h}
  /\ UNCHANGED <<deal, asking>>

\* acceptDeal returns false: it fails the deal, or finds that it has failed.
Refuse(h) ==
  /\ h \in asking /\ deal[h] = "created"
  /\ failed' = failed \cup {h}
  /\ asking' = asking \ {h}
  /\ UNCHANGED deal

\* acceptDeal agrees, and saves the deal.
Agree(h) ==
  /\ h \in asking /\ deal[h] = "created" /\ h \notin failed
  /\ deal' = [deal EXCEPT ![h] = "agreed"]
  /\ UNCHANGED <<failed, asking>>

\* acceptDeal returns true.
Answer(h) ==
  /\ h \in asking /\ deal[h] = "agreed"
  /\ asking' = asking \ {h}
  /\ UNCHANGED <<deal, failed>>

\* acceptDeal returns false, for the agreed deal could not be saved.
Withdraw(h) ==
  /\ h \in asking /\ deal[h] = "agreed"
  /\ failed' = failed \cup {h}
  /\ asking' = asking \ {h}
  /\ UNCHANGED deal

\* The maker has learnt the preimage.
canPay(h) == h \notin asking /\ deal[h] = "agreed" /\ h \notin failed
Pay(h) ==
  /\ canPay(h)
  /\ deal' = [deal EXCEPT ![h] = "paid"]
  /\ UNCHANGED <<failed, asking>>

\* The process stops, and knows nothing of its deals when it starts again.
Stop == deal' = [h \in Hashes |-> "none"] /\ failed' = {} /\ asking' = {}

Next ==
  \/ \E h \in Hashes : \/ Create(h) \/ Fail(h) \/ Refuse(h) \/ Agree(h)
                       \/ Answer(h) \/ Withdraw(h) \/ Pay(h)
  \/ Stop

Spec == Init /\ [][Next]_dealVars
=============================================================================
