------------------------------ MODULE AtomicSwap ------------------------------
(***************************************************************************)
(* What a swap promises, whatever the packets, failures, restarts and      *)
(* timeouts.  While it is open either party may call it off.  The taker is *)
(* the first to be paid; from then on it cannot be called off any more,    *)
(* and all that is left is for the maker to be paid as well.               *)
(***************************************************************************)
CONSTANT Hashes
VARIABLE outcome

Outcomes == {"open", "calledOff", "takerPaid", "bothPaid"}

Init == outcome = [h \in Hashes |-> "open"]

CallOff(h) ==
  /\ outcome[h] = "open"
  /\ outcome' = [outcome EXCEPT ![h] = "calledOff"]

PayTaker(h) ==
  /\ outcome[h] = "open"
  /\ outcome' = [outcome EXCEPT ![h] = "takerPaid"]

PayMaker(h) ==
  /\ outcome[h] = "takerPaid"
  /\ outcome' = [outcome EXCEPT ![h] = "bothPaid"]

Next == \E h \in Hashes : CallOff(h) \/ PayTaker(h) \/ PayMaker(h)

Spec == Init /\ [][Next]_outcome
=============================================================================
