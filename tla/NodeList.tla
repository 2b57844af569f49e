------------------------------- MODULE NodeList -------------------------------
(***************************************************************************)
(* NodeList: the reputation of a node that is known, its ban, and what of  *)
(* both is in the database.  An instance is one node in one list.          *)
(***************************************************************************)
EXTENDS Integers, Sequences, SequencesExt

CONSTANTS
  Instances,  \* nodes in lists
  Events,     \* the reputation events that happen
  MaxEvents   \* bound: events for an instance

ManualBan == "ManualBan"
ManualUnban == "ManualUnban"
ReputationEvent == {ManualBan, ManualUnban, "PacketTimeout", "WireProtocolErr", "InvalidAuth",
                    "SwapSuccess", "SwapFailure", "SwapTimeout", "SwapMisbehavior", "SwapAbuse", "SwapDelay"}

ASSUME EventsAssumption == Events \subseteq ReputationEvent /\ MaxEvents \in Nat

banThreshold == -50
maxReputationScore == 100

\* More than the events that are not infinite can take from a score.
Infinity == 25 * MaxEvents - banThreshold + 1

\* reputationEventWeight
weight(event) ==
  CASE event \in {ManualBan, "SwapAbuse"} -> -Infinity
    [] event = ManualUnban -> 0
    [] event = "PacketTimeout" -> -1
    [] event = "SwapSuccess" -> 1
    [] event = "WireProtocolErr" -> -5
    [] event = "SwapFailure" -> -10
    [] event = "SwapTimeout" -> -15
    [] event \in {"InvalidAuth", "SwapMisbehavior"} -> -20
    [] event = "SwapDelay" -> -25

VARIABLES
  reputationScore,  \* of each instance
  banned,           \* and whether it is banned
  banning,          \* addReputationEvent: events that wait for the older ones
  saved             \* the rows: whether it is banned, and the events, in order

nodeListVars == <<reputationScore, banned, banning, saved>>

NodeListTypeOK ==
  /\ reputationScore \in [Instances -> -Infinity .. maxReputationScore]
  /\ banned \in [Instances -> BOOLEAN]
  /\ banning \in [Instances -> Seq(Events)]
  /\ saved \in [Instances -> [banned : BOOLEAN, events : Seq(Events)]]

NodeListInit ==
  /\ reputationScore = [i \in Instances |-> 0]
  /\ banned = [i \in Instances |-> FALSE]
  /\ banning = [i \in Instances |-> <<>>]
  /\ saved = [i \in Instances |-> [banned |-> FALSE, events |-> <<>>]]

Lowest(a, b) == IF a <= b THEN a ELSE b

\* Mutant: an event counts twice.
updateReputationScoreTwice(score, event) ==
  IF event = ManualUnban THEN 0 ELSE Lowest(score + 2 * weight(event), maxReputationScore)

\* updateReputationScore; nothing adds up with minus infinity.
updateReputationScore(score, event) ==
  IF event = ManualUnban THEN 0
  ELSE IF -Infinity \in {score, weight(event)} THEN -Infinity
  ELSE Lowest(score + weight(event), maxReputationScore)

(* addReputationEvent, up to its first await: a score below the threshold  *)
(* bans the node, one at the threshold or above lifts a ban.               *)
addReputationEvent(i, event) ==
  LET score == updateReputationScore(reputationScore[i], event)
      bans == score < banThreshold /\ ~banned[i]
      lifts == score >= banThreshold /\ banned[i]
  IN
  /\ Len(saved[i].events) + Len(banning[i]) < MaxEvents
  /\ reputationScore' = [reputationScore EXCEPT ![i] = score]
  /\ banned' = [banned EXCEPT ![i] = (@ \/ bans) /\ ~lifts]
  /\ saved' = [saved EXCEPT ![i].banned = (@ \/ bans) /\ ~lifts,
                            ![i].events = IF bans THEN @ ELSE Append(@, event)]
  /\ banning' = IF bans THEN [banning EXCEPT ![i] = Append(@, event)] ELSE banning

\* The older events are there: node.ban is emitted, and the event is saved.
announceBan(i) ==
  /\ banning[i] # <<>>
  /\ saved' = [saved EXCEPT ![i].events = Append(@, Head(banning[i]))]
  /\ banning' = [banning EXCEPT ![i] = Tail(@)]
  /\ UNCHANGED <<reputationScore, banned>>

\* load, when the process starts again: the events come newest first.
load(i) ==
  /\ reputationScore' = [reputationScore EXCEPT
                           ![i] = FoldLeft(updateReputationScore, 0, Reverse(saved[i].events))]
  /\ banned' = [banned EXCEPT ![i] = saved[i].banned]
  /\ banning' = [banning EXCEPT ![i] = <<>>]
  /\ UNCHANGED saved
=============================================================================
