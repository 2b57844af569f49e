--------------------------------- MODULE Swap ---------------------------------
(***************************************************************************)
(* A maker and a taker that both run xud, the packets between them and the *)
(* lightning networks that carry their payments.                           *)
(***************************************************************************)
EXTENDS Maker, Taker

SwapVars == <<netVars, mVars, tVars>>

SwapInit == NetInit /\ MakerInit /\ TakerInit

SwapNext ==
  \/ MakerNext /\ UNCHANGED tVars
  \/ TakerNext /\ UNCHANGED mVars
  \/ \E h \in Hashes : /\ Network(h) \/ SecondHtlcExpires(h)
                       /\ UNCHANGED <<mVars, tVars>>
  \/ \E h \in Hashes : FirstHtlcExpires(h) /\ UNCHANGED tVars

SwapSpec == SwapInit /\ [][SwapNext]_SwapVars

(***************************************************************************)
(* The outcome of a swap, as the two invoices tell it.                     *)
(***************************************************************************)
outcome ==
  [h \in Hashes |->
     CASE firstInv[h] = "settled"                              -> "bothPaid"
       [] firstInv[h] # "settled" /\ secondInv[h] = "settled" -> "takerPaid"
       [] firstInv[h] = "canceled" /\ secondInv[h] # "settled" -> "calledOff"
       [] OTHER                                                -> "open"]

(***************************************************************************)
(* The protocol implements an atomic swap.                                 *)
(***************************************************************************)
AtomicSwap == INSTANCE AtomicSwap WITH Hashes <- Hashes, outcome <- outcome
SwapIsAtomic == AtomicSwap!Spec

(***************************************************************************)
(* Each party is one of the counterparties that the other allows for, so   *)
(* that what holds of a maker against any taker, and of a taker against    *)
(* any maker, holds of the two of them.                                    *)
(***************************************************************************)
MakerMeetsATaker == MakerSpec
TakerMeetsAMaker == TakerSpec

(***************************************************************************)
(* The two order books never disagree on a swap that the taker completed:  *)
(* the maker does not call it failed, in memory or after a restart.        *)
(***************************************************************************)
NoVerdictAgainstTaker ==
  \A h \in Hashes :
    tDeal[h].state = "Completed" \/ tRow[h].state = "Completed"
      => mDeal[h].state # "Error" /\ mRow[h].state # "Error"
=============================================================================
