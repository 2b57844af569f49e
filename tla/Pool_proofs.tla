----------------------------- MODULE Pool_proofs -----------------------------
(***************************************************************************)
(* Proofs about two nodes that connect to each other: which connections    *)
(* are in use, and what a ban closes, for any number of sockets, faults    *)
(* and events.                                                             *)
(***************************************************************************)
EXTENDS Pool, FiniteSetTheorems, NaturalsInduction, WellFoundedInduction, TLAPS

-----------------------------------------------------------------------------
(* The inductive invariant, for one node *)

\* Sides that have passed validatePeer and may still open.
racing(n) == {c \in Conns : side(n, c) \in {"replying", "acking", "resolving"}}

NodeInv(n) ==
  /\ n \notin crowded => active(n) \subseteq {peers[n]}
  /\ banned[n] => racing(n) \subseteq banRaced[n]
  /\ n \notin crowded /\ banned[n] /\ banning[n] = <<>> => active(n) \subseteq banRaced[n]

\* The types of what these are about.
Typed ==
  /\ creator \in [Conns -> Nodes \cup {None}] /\ stage \in [Nodes -> [Conns -> Stages]]
  /\ closed \in [Nodes -> SUBSET Conns] /\ banRaced \in [Nodes -> SUBSET Conns]
  /\ peers \in [Nodes -> Conns \cup {None}] /\ pending \in [Nodes -> Conns \cup {None}]
  /\ banned \in [Nodes -> BOOLEAN] /\ banning \in [Nodes -> Seq(Events)]
  /\ crowded \subseteq Nodes

PoolIInv == Typed /\ \A n \in Nodes : NodeInv(n)

-----------------------------------------------------------------------------
(* Steps of the connections of one node *)

LEMMA NoneIsNoConn == None \notin Conns
BY DEF None, Conns

\* What a step of node n may do to its sides.
SidesStep(n) ==
  /\ n \notin crowded' => n \notin crowded
  /\ n \notin crowded /\ n \notin crowded' /\ active(n) \subseteq {peers[n]} => active(n)' \subseteq {peers'[n]}
  /\ active(n)' \subseteq active(n) \cup racing(n)
  /\ banned[n] => racing(n)' \subseteq racing(n)

LEMMA NodeStepInv ==
  ASSUME NEW n \in Nodes, NodeInv(n), SidesStep(n), UNCHANGED <<banned, banning, banRaced>>
  PROVE  NodeInv(n)'
BY DEF NodeInv, SidesStep

\* What becomes does.
Moved(n, s, p, gone) ==
  /\ stage'[n] = s /\ peers'[n] = p /\ closed'[n] = closed[n] \cup gone
  /\ crowded \subseteq crowded'
  /\ (\E c, d \in admitted(n, s) : c # d) => n \in crowded'
  /\ \A m \in Nodes \ {n} : /\ stage'[m] = stage[m] /\ peers'[m] = peers[m] /\ closed'[m] = closed[m]
                            /\ m \in crowded' => m \in crowded

LEMMA BecomesTyped ==
  ASSUME Typed, NEW n \in Nodes, NEW s \in [Conns -> Stages], NEW p \in Conns \cup {None},
         NEW gone \in SUBSET Conns, becomes(n, s, p, gone), UNCHANGED <<creator, banned, banRaced>>,
         banning' \in [Nodes -> Seq(Events)]
  PROVE  Typed' /\ Moved(n, s, p, gone)
<1>1. /\ creator' \in [Conns -> Nodes \cup {None}] /\ stage' \in [Nodes -> [Conns -> Stages]]
      /\ closed' \in [Nodes -> SUBSET Conns] /\ banRaced' \in [Nodes -> SUBSET Conns]
      /\ peers' \in [Nodes -> Conns \cup {None}] /\ pending' \in [Nodes -> Conns \cup {None}]
      /\ banned' \in [Nodes -> BOOLEAN]
  BY DEF Typed, becomes
<1>2. crowded' \subseteq Nodes /\ crowded \subseteq crowded' /\ \A m \in Nodes \ {n} : m \in crowded' => m \in crowded
  BY DEF Typed, becomes
<1>3. (\E c, d \in admitted(n, s) : c # d) => n \in crowded'
  BY DEF becomes, admitted
<1>4. stage'[n] = s /\ peers'[n] = p /\ closed'[n] = closed[n] \cup gone
  BY DEF Typed, becomes
<1>5. \A m \in Nodes \ {n} : stage'[m] = stage[m] /\ peers'[m] = peers[m] /\ closed'[m] = closed[m]
  BY DEF Typed, becomes
<1> QED BY <1>1, <1>2, <1>3, <1>4, <1>5 DEF Typed, Moved

\* The other node is not touched.
LEMMA OtherNode ==
  ASSUME NEW m \in Nodes, NodeInv(m), stage'[m] = stage[m], peers'[m] = peers[m], closed'[m] = closed[m],
         m \in crowded <=> m \in crowded',
         banned'[m] = banned[m], banning'[m] = banning[m], banRaced'[m] = banRaced[m]
  PROVE  NodeInv(m)'
BY DEF NodeInv, active, racing, side

LEMMA BecomesInv ==
  ASSUME PoolIInv, NEW n \in Nodes, NEW s \in [Conns -> Stages], NEW p \in Conns \cup {None},
         NEW gone \in SUBSET Conns, becomes(n, s, p, gone), UNCHANGED <<creator, banned, banning, banRaced>>,
         SidesStep(n)
  PROVE  PoolIInv'
<1>1. Typed' /\ Moved(n, s, p, gone) /\ crowded \subseteq crowded'
  <2>1. Typed /\ banning' \in [Nodes -> Seq(Events)]
    BY DEF PoolIInv, Typed
  <2> QED BY <2>1, BecomesTyped, SMTT(20) DEF Moved
<1>2. NodeInv(n)'
  BY NodeStepInv DEF PoolIInv
<1>3. ASSUME NEW m \in Nodes \ {n} PROVE NodeInv(m)'
  <2>1. /\ stage'[m] = stage[m] /\ peers'[m] = peers[m] /\ closed'[m] = closed[m]
        /\ m \in crowded' => m \in crowded
    BY <1>1 DEF Moved
  <2> QED BY <1>1, <2>1, OtherNode DEF PoolIInv
<1> QED BY <1>1, <1>2, <1>3 DEF PoolIInv

\* closes: s is where openPeer stands, but for sides that have failed.
LEMMA ClosesStep ==
  ASSUME Typed, NEW n \in Nodes, NEW cs \in SUBSET Conns, NEW s \in [Conns -> Stages],
         \A c \in Conns : s[c] \in {stage[n][c], "failed"},
         closes(n, cs, s), UNCHANGED <<creator, banned, banRaced>>,
         banning' \in [Nodes -> Seq(Events)]
  PROVE  /\ \E t \in [Conns -> Stages], p \in Conns \cup {None}, gone \in SUBSET Conns : becomes(n, t, p, gone)
         /\ SidesStep(n)
         /\ active(n) \subseteq cs => active(n)' \subseteq racing(n)
<1> DEFINE gone == cs \ closed[n]
          leaves == \E c \in gone : stage[n][c] = "open"
          resolved == IF leaves THEN {c \in Conns : s[c] = "resolving"} ELSE {}
          ends == [c \in Conns |-> IF c \in resolved THEN "open"
                                   ELSE IF c \in gone /\ s[c] \in awaited THEN "failed" ELSE s[c]]
<1>1. \/ resolved = {} /\ becomes(n, ends, IF leaves THEN None ELSE peers[n], gone)
      \/ \E c \in resolved : becomes(n, ends, c, gone)
  BY DEF closes
<1>2. ends \in [Conns -> Stages] /\ gone \in SUBSET Conns /\ stage[n] \in [Conns -> Stages]
  BY DEF Stages, Typed
<1>3. PICK p \in Conns \cup {None} : becomes(n, ends, p, gone) /\ (resolved = {} => p = IF leaves THEN None ELSE peers[n])
                                     /\ (resolved # {} => p \in resolved)
  BY <1>1 DEF Typed
<1>4. \A c \in Conns : /\ ends[c] = "open" => stage[n][c] = "open" \/ (c \in resolved /\ stage[n][c] = "resolving")
                       /\ ends[c] \in {"replying", "acking", "resolving"} => stage[n][c] = ends[c]
                       /\ c \in resolved => ends[c] = "open" /\ stage[n][c] = "resolving"
  <2> SUFFICES ASSUME NEW c \in Conns
               PROVE  /\ ends[c] = "open" => stage[n][c] = "open" \/ (c \in resolved /\ stage[n][c] = "resolving")
                      /\ ends[c] \in {"replying", "acking", "resolving"} => stage[n][c] = ends[c]
                      /\ c \in resolved => ends[c] = "open" /\ stage[n][c] = "resolving"
    OBVIOUS
  <2>1. s[c] = stage[n][c] \/ s[c] = "failed"
    OBVIOUS
  <2>2. ends[c] = IF c \in resolved THEN "open" ELSE IF c \in gone /\ s[c] \in awaited THEN "failed" ELSE s[c]
    OBVIOUS
  <2>3. c \in resolved => s[c] = "resolving"
    OBVIOUS
  <2> HIDE DEF ends, resolved, gone
  <2> QED BY <2>1, <2>2, <2>3
<1> HIDE DEF ends, resolved
<1>5. stage'[n] = ends /\ peers'[n] = p /\ closed'[n] = closed[n] \cup gone
      /\ crowded \subseteq crowded' /\ ((\E c, d \in admitted(n, ends) : c # d) => n \in crowded')
  <2> HIDE DEF gone
  <2>1. becomes(n, ends, p, gone)
    BY <1>3
  <2>2. Moved(n, ends, p, gone)
    BY <1>2, <2>1, BecomesTyped
  <2> QED BY <2>2 DEF Moved
<1>6. active(n)' = {c \in Conns : ends[c] = "open" /\ c \notin closed[n] /\ c \notin cs}
  BY <1>5 DEF active, side
<1>7. racing(n)' \subseteq racing(n)
  BY <1>4, <1>5 DEF racing, side
<1>8. active(n)' \subseteq active(n) \cup resolved /\ resolved \subseteq racing(n)
  BY <1>4, <1>6 DEF active, racing, side, resolved
<1>9. active(n) \subseteq cs => active(n)' \subseteq racing(n)
  BY <1>6, <1>8 DEF active
<1>10. ASSUME n \notin crowded, n \notin crowded', active(n) \subseteq {peers[n]}
      PROVE  active(n)' \subseteq {p}
  <2>1. CASE leaves
    <3>1. PICK c \in gone : stage[n][c] = "open"
      BY <2>1
    <3>2. c \in active(n)
      BY <3>1 DEF active, side
    <3>3. active(n)' \subseteq resolved
      BY <1>6, <1>8, <1>10, <3>1, <3>2
    <3>4. resolved \subseteq admitted(n, ends)
      BY <1>4 DEF admitted, side, resolved
    <3>5. \A d, e \in resolved : d = e
      BY <1>5, <1>10, <3>4
    <3> QED BY <1>3, <3>3, <3>5
  <2>2. CASE ~leaves
    <3>1. resolved = {} /\ p = peers[n]
      BY <1>3, <2>2 DEF resolved
    <3> QED BY <1>8, <1>10, <3>1
  <2> QED BY <2>1, <2>2
<1> QED BY <1>2, <1>3, <1>5, <1>7, <1>8, <1>9, <1>10 DEF SidesStep

LEMMA ClosesInv ==
  ASSUME PoolIInv, NEW n \in Nodes, NEW cs \in SUBSET Conns, NEW s \in [Conns -> Stages],
         \A c \in Conns : s[c] \in {stage[n][c], "failed"},
         closes(n, cs, s), UNCHANGED <<creator, banned, banning, banRaced>>
  PROVE  PoolIInv'
<1>1. Typed /\ banning' \in [Nodes -> Seq(Events)]
  BY DEF PoolIInv, Typed
<1> QED BY <1>1, ClosesStep, BecomesInv

-----------------------------------------------------------------------------
(* The steps *)

\* Steps that touch no connection in use.
LEMMA NotInUse ==
  ASSUME PoolIInv, NEW n \in Nodes, NEW c \in Conns, NEW to \in Stages, NEW p \in Conns \cup {None},
         becomes(n, at(n, c, to), p, {}), UNCHANGED <<creator, banned, banning, banRaced>>,
         p = peers[n],
         to # "open", to \in {"replying", "acking", "resolving"} => c \in racing(n) \/ ~banned[n]
  PROVE  PoolIInv'
<1>1. at(n, c, to) \in [Conns -> Stages]
  BY DEF at, PoolIInv, Typed
<1>2. /\ stage'[n] = at(n, c, to) /\ peers'[n] = p /\ closed'[n] = closed[n] /\ crowded \subseteq crowded'
  <2>1. Typed /\ banning' \in [Nodes -> Seq(Events)]
    BY DEF PoolIInv, Typed
  <2>2. Moved(n, at(n, c, to), p, {})
    BY <1>1, <2>1, BecomesTyped
  <2> QED BY <2>2 DEF Moved
<1>3. \A d \in Conns : stage'[n][d] = IF d = c THEN to ELSE stage[n][d]
  BY <1>2 DEF at, PoolIInv, Typed
<1>4. active(n)' \subseteq active(n) /\ (banned[n] => racing(n)' \subseteq racing(n))
  BY <1>2, <1>3 DEF active, racing, side
<1>5. SidesStep(n)
  BY <1>2, <1>4 DEF SidesStep
<1> QED BY <1>1, <1>5, BecomesInv

\* openPeer has its peer in the pool at the end, or waits, or closes it.
LEMMA OpensInv ==
  ASSUME PoolIInv, NEW n \in Nodes, NEW c \in Conns, NEW box, side(n, c) \in {"replying", "acking"},
         opens(n, c, box), UNCHANGED <<creator, banned, banning, banRaced>>
  PROVE  PoolIInv'
<1>1. c \in racing(n)
  BY DEF racing
<1>2. CASE peers[n] = None /\ becomes(n, at(n, c, "open"), c, {})
  <2>1. at(n, c, "open") \in [Conns -> Stages]
    BY DEF at, PoolIInv, Typed, Stages
  <2>2. /\ stage'[n] = at(n, c, "open") /\ peers'[n] = c /\ closed'[n] = closed[n] /\ crowded \subseteq crowded'
    <3>1. Typed /\ banning' \in [Nodes -> Seq(Events)]
      BY DEF PoolIInv, Typed
    <3>2. Moved(n, at(n, c, "open"), c, {})
      BY <1>2, <2>1, <3>1, BecomesTyped
    <3> QED BY <3>2 DEF Moved
  <2>3. \A d \in Conns : stage'[n][d] = IF d = c THEN "open" ELSE stage[n][d]
    BY <2>2 DEF at, PoolIInv, Typed
  <2>4. active(n)' \subseteq active(n) \cup {c} /\ racing(n)' \subseteq racing(n)
    BY <2>2, <2>3 DEF active, racing, side
  <2>5. SidesStep(n)
    BY <1>1, <1>2, <2>2, <2>4, NoneIsNoConn DEF SidesStep, active
  <2> QED BY <2>1, <2>5, <1>2, BecomesInv
<1>3. CASE closes(n, {c}, at(n, c, "failed"))
  <2>1. at(n, c, "failed") \in [Conns -> Stages] /\ \A d \in Conns : at(n, c, "failed")[d] \in {stage[n][d], "failed"}
    BY DEF at, PoolIInv, Typed, Stages
  <2> QED BY <1>3, <2>1, ClosesInv
<1>4. CASE becomes(n, at(n, c, "resolving"), peers[n], {})
  BY <1>1, <1>4, NotInUse DEF PoolIInv, Typed, Stages
<1> QED BY <1>2, <1>3, <1>4 DEF opens

LEMMA CloseInv ==
  ASSUME PoolIInv, NEW n \in Nodes, NEW c \in Conns,
         close(n, {c}, stage[n]) \/ close(n, {c}, at(n, c, "failed")),
         UNCHANGED <<creator, banned, banning, banRaced>>
  PROVE  PoolIInv'
<1>1. at(n, c, "failed") \in [Conns -> Stages] /\ \A d \in Conns : at(n, c, "failed")[d] \in {stage[n][d], "failed"}
  BY DEF at, PoolIInv, Typed, Stages
<1>2. stage[n] \in [Conns -> Stages]
  BY DEF PoolIInv, Typed
<1> QED BY <1>1, <1>2, ClosesInv DEF close

LEMMA HandshakeInv ==
  ASSUME PoolIInv, NEW n \in Nodes, NEW c \in Conns,
         \/ Greets(n, c) \/ Replies(n, c) \/ ReceivesSessionInit(n, c) \/ ReceivesSessionAck(n, c)
  PROVE  PoolIInv'
<1>1. UNCHANGED <<creator, banned, banning, banRaced>> /\ peers[n] \in Conns \cup {None}
  BY DEF Greets, Replies, ReceivesSessionInit, ReceivesSessionAck, nodeListVars, PoolIInv, Typed
<1>2. CASE Greets(n, c)
  BY <1>1, <1>2, NotInUse DEF Greets, Stages
<1>3. CASE Replies(n, c)
  <2>1. side(n, c) = "replying" /\ c \in racing(n)
    BY <1>3 DEF Replies, racing
  <2>2. CASE becomes(n, at(n, c, "acking"), peers[n], {})
    BY <1>1, <2>1, <2>2, NotInUse DEF Stages
  <2>3. CASE opens(n, c, sent(n, c, "ack", inbox))
    BY <1>1, <2>1, <2>3, OpensInv
  <2> QED BY <1>3, <2>2, <2>3 DEF Replies
<1>4. CASE ReceivesSessionInit(n, c)
  <2>1. CASE validates(n) /\ becomes(n, at(n, c, "replying"), peers[n], {})
    BY <1>1, <2>1, NotInUse DEF Stages, validates
  <2>2. CASE close(n, {c}, at(n, c, "failed"))
    BY <1>1, <2>2, CloseInv
  <2> QED BY <1>4, <2>1, <2>2 DEF ReceivesSessionInit
<1>5. CASE ReceivesSessionAck(n, c)
  BY <1>1, <1>5, OpensInv DEF ReceivesSessionAck
<1> QED BY <1>2, <1>3, <1>4, <1>5

LEMMA ClosingInv ==
  ASSUME PoolIInv, NEW n \in Nodes, NEW c \in Conns,
         ConnectFails(n, c) \/ Closes(n, c) \/ StillConnected(n, c) \/ Stalls(n, c)
  PROVE  PoolIInv'
BY CloseInv DEF ConnectFails, Closes, StillConnected, Stalls, nodeListVars

LEMMA DisconnectedInv ==
  ASSUME PoolIInv, NEW n \in Nodes, Disconnected(n)
  PROVE  PoolIInv'
<1>1. {peers[n], pending[n]} \ {None} \in SUBSET Conns /\ stage[n] \in [Conns -> Stages]
  BY DEF PoolIInv, Typed
<1> QED BY <1>1, ClosesInv DEF Disconnected, close, nodeListVars

\* A ban closes what is in use.
LEMMA BansInv ==
  ASSUME PoolIInv, NEW n \in Nodes, Bans(n)
  PROVE  PoolIInv'
<1> DEFINE cs == {peers[n]} \ {None}
<1>1. /\ cs \in SUBSET Conns /\ stage[n] \in [Conns -> Stages] /\ closes(n, cs, stage[n])
      /\ UNCHANGED <<creator, banned, banRaced>> /\ banning' = [banning EXCEPT ![n] = Tail(@)]
      /\ banning[n] # <<>> /\ Typed
  BY DEF PoolIInv, Typed, Bans, close, announceBan
<1>2. banning' \in [Nodes -> Seq(Events)]
  BY <1>1 DEF Typed
<1>3. \A c \in Conns : stage[n][c] \in {stage[n][c], "failed"}
  OBVIOUS
<1> HIDE DEF cs
<1>4. PICK t \in [Conns -> Stages], p \in Conns \cup {None}, gone \in SUBSET Conns : becomes(n, t, p, gone)
  BY <1>1, <1>2, <1>3, ClosesStep
<1>5. SidesStep(n) /\ (active(n) \subseteq cs => active(n)' \subseteq racing(n))
  BY <1>1, <1>2, <1>3, ClosesStep
<1>6. /\ Typed' /\ crowded \subseteq crowded'
      /\ \A m \in Nodes \ {n} : /\ stage'[m] = stage[m] /\ peers'[m] = peers[m] /\ closed'[m] = closed[m]
                                /\ m \in crowded' => m \in crowded
  <2>1. Typed' /\ Moved(n, t, p, gone)
    BY <1>1, <1>2, <1>4, BecomesTyped
  <2> QED BY <2>1 DEF Moved
<1>7. ASSUME NEW m \in Nodes \ {n} PROVE NodeInv(m)'
  <2>1. banning'[m] = banning[m]
    BY <1>1 DEF Typed
  <2> QED BY <1>1, <1>6, <2>1, OtherNode DEF PoolIInv
<1>8. NodeInv(n)'
  <2>1. n \notin crowded' => active(n) \subseteq {peers[n]} /\ active(n)' \subseteq {peers'[n]}
    BY <1>5 DEF PoolIInv, NodeInv, SidesStep
  <2>2. n \notin crowded' => active(n) \subseteq cs
    BY <2>1, NoneIsNoConn DEF cs, active
  <2>3. banned[n] => racing(n)' \subseteq racing(n) /\ racing(n) \subseteq banRaced[n]
    BY <1>5 DEF PoolIInv, NodeInv, SidesStep
  <2> QED BY <1>1, <1>5, <2>1, <2>2, <2>3 DEF NodeInv
<1> QED BY <1>6, <1>7, <1>8 DEF PoolIInv

LEMMA ReputationInv ==
  ASSUME PoolIInv, NEW n \in Nodes, NEW event \in Events, Reputation(n, event)
  PROVE  PoolIInv'
<1>1. UNCHANGED <<creator, stage, closed, inbox, peers, pending, running, faults, crowded>> /\ n \in Instances /\ Typed
  BY PoolAssumption DEF Reputation, PoolIInv
<1> DEFINE score == updateReputationScore(reputationScore[n], event)
          bans == score < banThreshold /\ ~banned[n]
          lifts == score >= banThreshold /\ banned[n]
<1>2. /\ banned' = [banned EXCEPT ![n] = (@ \/ bans) /\ ~lifts]
      /\ banning' = IF bans THEN [banning EXCEPT ![n] = Append(@, event)] ELSE banning
      /\ banRaced' = IF banned'[n] /\ ~banned[n] THEN [banRaced EXCEPT ![n] = racing(n)] ELSE banRaced
  BY DEF Reputation, addReputationEvent, racing
<1>3. \/ /\ banned'[n] /\ ~banned[n] /\ banning' = [banning EXCEPT ![n] = Append(@, event)]
         /\ banRaced' = [banRaced EXCEPT ![n] = racing(n)]
      \/ (banned'[n] => banned[n]) /\ banning' = banning /\ banRaced' = banRaced
  <2> HIDE DEF score
  <2>1. banned'[n] <=> (banned[n] \/ bans) /\ ~lifts
    BY <1>1, <1>2 DEF Typed
  <2>2. CASE bans
    <3>1. banned'[n] /\ ~banned[n]
      BY <2>1, <2>2
    <3> HIDE DEF bans, lifts
    <3> QED BY <1>2, <2>2, <3>1, Zenon
  <2>3. CASE ~bans
    <3>1. banned'[n] => banned[n]
      BY <2>1, <2>3
    <3> HIDE DEF bans, lifts
    <3> QED BY <1>2, <2>3, <3>1, Zenon
  <2> QED BY <2>2, <2>3
<1>4. banned' \in [Nodes -> BOOLEAN] /\ \A m \in Nodes \ {n} : banned'[m] = banned[m]
  BY <1>1, <1>2 DEF Typed
<1> HIDE DEF score, bans, lifts
<1>5. Typed'
  <2>1. banning' \in [Nodes -> Seq(Events)] /\ banRaced' \in [Nodes -> SUBSET Conns]
    <3>1. Append(banning[n], event) \in Seq(Events) /\ racing(n) \in SUBSET Conns
      BY <1>1 DEF Typed, racing
    <3> QED BY <1>1, <1>3, <3>1, ZenonT(40) DEF Typed
  <2> QED BY <1>1, <1>4, <2>1 DEF Typed
<1>6. ASSUME NEW m \in Nodes \ {n} PROVE NodeInv(m)'
  <2>1. banned'[m] = banned[m] /\ banning'[m] = banning[m] /\ banRaced'[m] = banRaced[m]
    BY <1>1, <1>3, <1>4 DEF Typed
  <2> QED BY <1>1, <2>1, OtherNode DEF PoolIInv
<1>7. active(n)' = active(n) /\ racing(n)' = racing(n) /\ crowded' = crowded /\ peers' = peers
  BY <1>1 DEF active, racing, side
<1>8. NodeInv(n)'
  <2>1. NodeInv(n) /\ banning[n] \in Seq(Events)
    BY <1>1 DEF PoolIInv, Typed
  <2>2. \/ banned'[n] /\ banning'[n] # <<>> /\ banRaced'[n] = racing(n)
        \/ (banned'[n] => banned[n]) /\ banning' = banning /\ banRaced' = banRaced
    BY <1>1, <1>3, <2>1 DEF Typed
  <2> QED BY <1>7, <2>1, <2>2 DEF NodeInv
<1> QED BY <1>5, <1>6, <1>8 DEF PoolIInv

\* The process starts again.
LEMMA RestartsInv ==
  ASSUME PoolIInv, NEW n \in Nodes, Restarts(n), saved[n].banned \in BOOLEAN
  PROVE  PoolIInv'
<1> DEFINE all == {c \in Conns : side(n, c) # "none"}
<1>1. /\ UNCHANGED <<creator, banRaced>> /\ Typed
      /\ banned' = [banned EXCEPT ![n] = saved[n].banned] /\ banning' = [banning EXCEPT ![n] = <<>>]
      /\ closed' = [closed EXCEPT ![n] = all]
      /\ stage' = [stage EXCEPT ![n] = [c \in Conns |-> IF c \in all THEN "failed" ELSE "none"]]
      /\ peers' = [peers EXCEPT ![n] = None] /\ pending' = [pending EXCEPT ![n] = None]
      /\ crowded' = crowded \ {n}
  BY DEF PoolIInv, Restarts, load
<1>2. Typed'
  <2>1. banned' \in [Nodes -> BOOLEAN] /\ banning' \in [Nodes -> Seq(Events)]
    BY <1>1 DEF Typed
  <2>2. stage' \in [Nodes -> [Conns -> Stages]]
    BY <1>1 DEF Typed, Stages
  <2> QED BY <1>1, <2>1, <2>2 DEF Typed
<1>3. \A c \in Conns : stage'[n][c] \in {"failed", "none"}
  BY <1>1 DEF Typed
<1>4. active(n)' = {} /\ racing(n)' = {}
  BY <1>3 DEF active, racing, side
<1>5. ASSUME NEW m \in Nodes \ {n} PROVE NodeInv(m)'
  <2>1. /\ stage'[m] = stage[m] /\ peers'[m] = peers[m] /\ closed'[m] = closed[m]
        /\ m \in crowded <=> m \in crowded'
        /\ banned'[m] = banned[m] /\ banning'[m] = banning[m] /\ banRaced'[m] = banRaced[m]
    BY <1>1 DEF Typed
  <2> QED BY <2>1, OtherNode DEF PoolIInv
<1> QED BY <1>2, <1>4, <1>5 DEF PoolIInv, NodeInv

\* Steps that touch no side that has passed validatePeer.
LEMMA QuietInv ==
  ASSUME PoolIInv, UNCHANGED <<closed, peers, banned, banning, banRaced, crowded>>,
         creator' \in [Conns -> Nodes \cup {None}], stage' \in [Nodes -> [Conns -> Stages]],
         pending' \in [Nodes -> Conns \cup {None}],
         \A n \in Nodes, c \in Conns :
           stage'[n][c] \in {"replying", "acking", "resolving", "open"} => stage[n][c] = stage'[n][c]
  PROVE  PoolIInv'
<1>1. Typed'
  BY DEF PoolIInv, Typed
<1>2. ASSUME NEW n \in Nodes PROVE active(n)' \subseteq active(n) /\ racing(n)' \subseteq racing(n)
  BY DEF active, racing, side
<1> QED BY <1>1, <1>2 DEF PoolIInv, NodeInv

LEMMA ConnectsInv ==
  ASSUME PoolIInv, NEW n \in Nodes, NEW revoke \in BOOLEAN, Connects(n, revoke)
  PROVE  PoolIInv'
<1>1. UNCHANGED <<nodeListVars, closed, inbox, peers, running, faults, banRaced, crowded>> /\ Typed
  BY DEF Connects, PoolIInv
<1>2. PICK c \in Conns : /\ creator' = [creator EXCEPT ![c] = n]
                         /\ stage' = [stage EXCEPT ![n] = at(n, c, "connecting")]
                         /\ pending' = [pending EXCEPT ![n] = c]
  BY DEF Connects
<1>3. creator' \in [Conns -> Nodes \cup {None}] /\ pending' \in [Nodes -> Conns \cup {None}]
  BY <1>1, <1>2 DEF Typed
<1>4. at(n, c, "connecting") \in [Conns -> Stages]
      /\ \A d \in Conns : at(n, c, "connecting")[d] = IF d = c THEN "connecting" ELSE stage[n][d]
  BY <1>1 DEF Typed, at, Stages
<1>5. stage' \in [Nodes -> [Conns -> Stages]]
      /\ \A m \in Nodes : stage'[m] = IF m = n THEN at(n, c, "connecting") ELSE stage[m]
  BY <1>1, <1>2, <1>4 DEF Typed
<1> QED BY <1>1, <1>3, <1>4, <1>5, QuietInv DEF nodeListVars

LEMMA AcceptsInv ==
  ASSUME PoolIInv, NEW n \in Nodes, NEW c \in Conns, Accepts(n, c)
  PROVE  PoolIInv'
<1> DEFINE o == other(n)
<1>1. /\ UNCHANGED <<nodeListVars, creator, closed, inbox, peers, pending, running, faults, banRaced, crowded>> /\ Typed
      /\ stage' = [stage EXCEPT ![n] = at(n, c, "greeting"), ![o] = at(o, c, "waiting")]
  BY DEF Accepts, PoolIInv
<1>2. o \in Nodes
  BY DEF other, Nodes
<1> HIDE DEF o
<1>3. ASSUME NEW m \in Nodes, NEW to \in Stages
      PROVE  at(m, c, to) \in [Conns -> Stages]
             /\ \A d \in Conns : at(m, c, to)[d] = IF d = c THEN to ELSE stage[m][d]
  BY <1>1 DEF Typed, at
<1>4. "greeting" \in Stages /\ "waiting" \in Stages
  BY DEF Stages
<1>5. stage' \in [Nodes -> [Conns -> Stages]]
      /\ \A m \in Nodes : stage'[m] = IF m = o THEN at(o, c, "waiting") ELSE IF m = n THEN at(n, c, "greeting") ELSE stage[m]
  BY <1>1, <1>2, <1>3, <1>4 DEF Typed
<1>6. \A m \in Nodes, d \in Conns : stage'[m][d] \in {"replying", "acking", "resolving", "open"} => stage[m][d] = stage'[m][d]
  <2> SUFFICES ASSUME NEW m \in Nodes, NEW d \in Conns,
                      stage'[m][d] \in {"replying", "acking", "resolving", "open"}
               PROVE  stage[m][d] = stage'[m][d]
    OBVIOUS
  <2>1. /\ at(o, c, "waiting")[d] = IF d = c THEN "waiting" ELSE stage[o][d]
        /\ at(n, c, "greeting")[d] = IF d = c THEN "greeting" ELSE stage[n][d]
    BY <1>2, <1>3, <1>4
  <2>2. stage'[m] = IF m = o THEN at(o, c, "waiting") ELSE IF m = n THEN at(n, c, "greeting") ELSE stage[m]
    BY <1>5
  <2> QED BY <2>1, <2>2
<1>7. creator' \in [Conns -> Nodes \cup {None}] /\ pending' \in [Nodes -> Conns \cup {None}]
  BY <1>1 DEF Typed
<1> QED BY <1>1, <1>5, <1>6, <1>7, QuietInv DEF nodeListVars

\* Steps that change nothing that the invariant is about.
LEMMA UnchangedInv ==
  ASSUME PoolIInv, UNCHANGED <<creator, stage, closed, peers, pending, banned, banning, banRaced, crowded>>
  PROVE  PoolIInv'
BY DEF PoolIInv, Typed, NodeInv, active, racing, side

-----------------------------------------------------------------------------
(* The invariant, and what it says *)

Rows == saved \in [Nodes -> [banned : BOOLEAN, events : Seq(Events)]]

LEMMA RowsInv == Rows /\ banning \in [Nodes -> Seq(Events)] /\ [PoolNext]_vars => Rows'
<1> SUFFICES ASSUME Rows, banning \in [Nodes -> Seq(Events)], [PoolNext]_vars PROVE Rows'
  OBVIOUS
<1>1. CASE UNCHANGED saved
  BY <1>1 DEF Rows
<1>2. ASSUME NEW n \in Nodes, Bans(n) PROVE Rows'
  <2>1. saved' = [saved EXCEPT ![n].events = Append(@, Head(banning[n]))] /\ banning[n] # <<>>
    BY <1>2 DEF Bans, announceBan
  <2>2. Append(saved[n].events, Head(banning[n])) \in Seq(Events)
    BY <2>1 DEF Rows
  <2> QED BY <2>1, <2>2 DEF Rows
<1>3. ASSUME NEW n \in Nodes, NEW event \in Events, Reputation(n, event) PROVE Rows'
  <2>1. PICK b \in BOOLEAN, e \in {saved[n].events, Append(saved[n].events, event)} :
          saved' = [saved EXCEPT ![n].banned = b, ![n].events = e]
    BY <1>3 DEF Reputation, addReputationEvent
  <2>2. e \in Seq(Events)
    BY <2>1 DEF Rows
  <2> QED BY <2>1, <2>2 DEF Rows
<1>4. ASSUME NEW n \in Nodes, NEW c \in Conns,
             \/ Accepts(n, c) \/ Greets(n, c) \/ Replies(n, c) \/ ReceivesSessionInit(n, c)
             \/ ReceivesSessionAck(n, c) \/ Closes(n, c) \/ StillConnected(n, c)
             \/ ConnectFails(n, c) \/ Stalls(n, c)
      PROVE  UNCHANGED saved
  BY <1>4 DEF Accepts, Greets, Replies, ReceivesSessionInit, ReceivesSessionAck, Closes, StillConnected,
     ConnectFails, Stalls, nodeListVars
<1>5. ASSUME NEW n \in Nodes, Disconnected(n) \/ Disconnects(n) \/ Restarts(n) \/ \E revoke \in BOOLEAN : Connects(n, revoke)
      PROVE  UNCHANGED saved
  BY <1>5 DEF Disconnected, Disconnects, Restarts, load, Connects, nodeListVars
<1>6. ASSUME NEW c \in Conns, Loses(c) PROVE UNCHANGED saved
  BY <1>6 DEF Loses, nodeListVars
<1>7. UNCHANGED vars => UNCHANGED saved
  BY DEF vars, nodeListVars
<1> QED BY <1>1, <1>2, <1>3, <1>4, <1>5, <1>6, <1>7 DEF PoolNext, Progress

(***************************************************************************)
(* The inductive invariant.                                                *)
(***************************************************************************)
THEOREM PoolInvariance == PoolSpec => [](PoolIInv /\ Rows)
<1>1. PoolInit => PoolIInv /\ Rows
  <2> SUFFICES ASSUME PoolInit PROVE PoolIInv /\ Rows
    OBVIOUS
  <2>1. Instances = Nodes
    BY PoolAssumption DEF Nodes
  <2>2. Typed /\ Rows
    BY <2>1 DEF PoolInit, NodeListInit, Typed, Rows, Stages
  <2>3. ASSUME NEW n \in Nodes PROVE active(n) = {} /\ racing(n) = {}
    BY DEF PoolInit, active, racing, side
  <2> QED BY <2>2, <2>3 DEF PoolIInv, NodeInv
<1>2. PoolIInv /\ Rows /\ [PoolNext]_vars => (PoolIInv /\ Rows)'
  <2> SUFFICES ASSUME PoolIInv, Rows, [PoolNext]_vars PROVE PoolIInv'
    BY RowsInv DEF PoolIInv, Typed
  <2>1. CASE UNCHANGED vars
    BY <2>1, UnchangedInv DEF vars, poolVars, nodeListVars
  <2>2. ASSUME NEW n \in Nodes, Bans(n) \/ Disconnected(n) PROVE PoolIInv'
    BY <2>2, BansInv, DisconnectedInv
  <2>3. ASSUME NEW n \in Nodes, NEW c \in Conns,
               \/ Accepts(n, c) \/ Greets(n, c) \/ Replies(n, c) \/ ReceivesSessionInit(n, c)
               \/ ReceivesSessionAck(n, c) \/ Closes(n, c) \/ StillConnected(n, c)
               \/ ConnectFails(n, c) \/ Stalls(n, c)
        PROVE  PoolIInv'
    BY <2>3, AcceptsInv, HandshakeInv, ClosingInv
  <2>4. ASSUME NEW n \in Nodes, Restarts(n) PROVE PoolIInv'
    BY <2>4, RestartsInv DEF Rows
  <2>5. ASSUME NEW n \in Nodes, Disconnects(n) PROVE PoolIInv'
    BY <2>5, UnchangedInv DEF Disconnects, nodeListVars
  <2>6. ASSUME NEW c \in Conns, Loses(c) PROVE PoolIInv'
    BY <2>6, UnchangedInv DEF Loses, nodeListVars
  <2> QED BY <2>1, <2>2, <2>3, <2>4, <2>5, <2>6, ConnectsInv, ReputationInv DEF PoolNext, Progress
<1> QED BY <1>1, <1>2, PTL DEF PoolSpec

(***************************************************************************)
(* A node has at most one active peer for another node, and it is the one  *)
(* in the pool, unless two sides have become the peer at once.             *)
(***************************************************************************)
THEOREM OneActivePeer == PoolSpec => []ActiveInPool
<1>1. PoolIInv => ActiveInPool
  BY DEF PoolIInv, NodeInv, ActiveInPool
<1> QED BY <1>1, PoolInvariance, PTL

(***************************************************************************)
(* A ban that has been announced leaves no active peer but one that had    *)
(* passed validatePeer before, or one of two that became the peer at once. *)
(***************************************************************************)
THEOREM BansClosePeers == PoolSpec => []BanCloses
<1>1. PoolIInv => BanCloses
  BY DEF PoolIInv, NodeInv, BanCloses
<1> QED BY <1>1, PoolInvariance, PTL

-----------------------------------------------------------------------------
(* The reputation score.  That the theorems of the library about induction *)
(* are over operators, which no prover here instantiates, is why some of   *)
(* it is done again, with the least element of a set of numbers.           *)

\* A set of numbers has a least element.
LEMMA LeastNumber ==
  ASSUME NEW N \in SUBSET Nat, N # {}
  PROVE  \E m \in N : \A k \in N : m <= k
<1>1. PICK m \in N : \A k \in N : ~ (<<k, m>> \in OpToRel(<, Nat))
  <2>1. IsWellFoundedOn(OpToRel(<, Nat), Nat)
    BY NatLessThanWellFounded
  <2> QED BY <2>1, WFMin, Zenon
<1>2. \A k \in N : ~(k < m)
  BY <1>1, Zenon DEF OpToRel
<1> QED BY <1>2

\* A set of indices has a greatest element.
LEMMA MaxIsThere ==
  ASSUME NEW n \in Nat, NEW s \in SUBSET (1 .. n), s # {}
  PROVE  Max(s) \in s
<1> DEFINE N == {n - x : x \in s}
<1>1. N \in SUBSET Nat /\ N # {}
  <2>1. \A x \in s : n - x \in Nat
    OBVIOUS
  <2> QED BY <2>1
<1>2. PICK m \in N : \A k \in N : m <= k
  <2> HIDE DEF N
  <2> QED BY <1>1, LeastNumber
<1>3. \E x \in s : \A y \in s : x >= y
  BY <1>2
<1> QED BY <1>3 DEF Max

\* What n events can make of a score that was 0.
Scores(n) == {-Infinity} \cup {x \in Int : -25 * n <= x /\ x <= maxReputationScore}

LEMMA ScoresInRange ==
  ASSUME NEW n \in Nat, n <= MaxEvents
  PROVE  Scores(n) \subseteq -Infinity .. maxReputationScore
BY EventsAssumption DEF Scores, Infinity, banThreshold, maxReputationScore

LEMMA WeightIs ==
  ASSUME NEW event \in Events, event # ManualUnban
  PROVE  weight(event) = -Infinity \/ weight(event) \in -25 .. 1
<1>1. event \in ReputationEvent
  BY EventsAssumption
<1> QED BY <1>1 DEF ReputationEvent, weight, ManualBan, ManualUnban

\* An event takes at most 25 from a score, or all.
LEMMA ScoreStep ==
  ASSUME NEW n \in Nat, NEW score \in Scores(n), NEW event \in Events
  PROVE  updateReputationScore(score, event) \in Scores(n + 1)
<1>1. CASE event = ManualUnban
  BY <1>1 DEF updateReputationScore, Scores, maxReputationScore
<1>2. CASE event # ManualUnban
  <2>1. CASE -Infinity \in {score, weight(event)}
    BY <1>2, <2>1 DEF updateReputationScore, Scores
  <2>2. CASE -Infinity \notin {score, weight(event)}
    <3>1. PICK x \in Int, w \in -25 .. 1 : /\ x = score /\ w = weight(event)
                                           /\ -25 * n <= x /\ x <= maxReputationScore
      BY <1>2, <2>2, WeightIs DEF Scores
    <3>2. updateReputationScore(score, event) = Lowest(x + w, maxReputationScore)
      BY <1>2, <2>2, <3>1 DEF updateReputationScore
    <3>3. Lowest(x + w, maxReputationScore) \in Int /\ -25 * (n + 1) <= Lowest(x + w, maxReputationScore)
          /\ Lowest(x + w, maxReputationScore) <= maxReputationScore
      BY <3>1 DEF Lowest, maxReputationScore
    <3> QED BY <3>2, <3>3 DEF Scores
  <2> QED BY <2>1, <2>2
<1> QED BY <1>1, <1>2

-----------------------------------------------------------------------------
(* What FoldLeft makes of the events *)

IsScore(g, q, D) ==
  g = [s \in D |-> IF s = {} THEN 0 ELSE updateReputationScore(g[s \ {Max(s)}], q[Max(s)])]

LEMMA FoldIsScore ==
  ASSUME NEW q
  PROVE  FoldLeft(updateReputationScore, 0, q) = (CHOOSE g : IsScore(g, q, SUBSET DOMAIN q))[DOMAIN q]
BY Zenon DEF FoldLeft, MapThenFoldSet, IsScore

\* The sets of indices up to a size.
Small(n, k) == {s \in SUBSET (1 .. n) : Cardinality(s) <= k}

LEMMA Indices ==
  ASSUME NEW n \in Nat, NEW s \in SUBSET (1 .. n)
  PROVE  /\ Cardinality(s) \in Nat /\ Cardinality(s) <= n
         /\ Cardinality(s) = 0 <=> s = {}
         /\ s # {} => /\ Max(s) \in s /\ s \ {Max(s)} \in SUBSET (1 .. n)
                      /\ Cardinality(s \ {Max(s)}) = Cardinality(s) - 1
<1>1. IsFiniteSet(1 .. n) /\ Cardinality(1 .. n) = n
  BY FS_Interval
<1>2. IsFiniteSet(s) /\ Cardinality(s) <= n
  BY <1>1, FS_Subset
<1>3. Cardinality(s) \in Nat
  BY <1>2, FS_CardinalityType
<1>4. Cardinality(s) = 0 <=> s = {}
  BY <1>2, FS_EmptySet
<1>5. ASSUME s # {}
      PROVE  Max(s) \in s /\ s \ {Max(s)} \in SUBSET (1 .. n) /\ Cardinality(s \ {Max(s)}) = Cardinality(s) - 1
  BY <1>2, <1>5, MaxIsThere, FS_RemoveElement
<1> QED BY <1>2, <1>3, <1>4, <1>5

\* There is such a function for the sets of each size, so there is one for all.
LEMMA ScoreExists ==
  ASSUME NEW n \in Nat, NEW q
  PROVE  \E g : IsScore(g, q, SUBSET (1 .. n))
<1> DEFINE N == {k \in Nat : ~ \E g : IsScore(g, q, Small(n, k))}
<1>1. ASSUME NEW m \in Nat, m \in N, \A k \in N : m <= k PROVE FALSE
  <2>1. CASE m = 0
    <3>1. ASSUME NEW s \in Small(n, 0) PROVE s = {}
      <4>1. s \in SUBSET (1 .. n) /\ Cardinality(s) <= 0
        BY <3>1 DEF Small
      <4>2. Cardinality(s) \in Nat /\ (Cardinality(s) = 0 => s = {})
        BY <4>1, Indices
      <4> QED BY <4>1, <4>2
    <3>2. IsScore([s \in Small(n, 0) |-> 0], q, Small(n, 0))
      BY <3>1 DEF IsScore
    <3> QED BY <1>1, <2>1, <3>2
  <2>2. CASE m # 0
    <3>1. m - 1 \in Nat /\ m - 1 \notin N
      BY <1>1, <2>2
    <3>2. PICK g : IsScore(g, q, Small(n, m - 1))
      BY <3>1
    <3> DEFINE h == [s \in Small(n, m) |-> IF s = {} THEN 0 ELSE updateReputationScore(g[s \ {Max(s)}], q[Max(s)])]
    <3>3. ASSUME NEW s \in Small(n, m), s # {} PROVE h[s \ {Max(s)}] = g[s \ {Max(s)}]
      <4>1. s \ {Max(s)} \in Small(n, m - 1) /\ s \ {Max(s)} \in Small(n, m)
        BY <3>3, Indices DEF Small
      <4> QED BY <3>2, <4>1, Zenon DEF IsScore
    <3>4. h = [s \in Small(n, m) |-> IF s = {} THEN 0 ELSE updateReputationScore(h[s \ {Max(s)}], q[Max(s)])]
      BY <3>3, Zenon
    <3>5. IsScore(h, q, Small(n, m))
      BY <3>4, Zenon DEF IsScore
    <3> QED BY <1>1, <3>5
  <2> QED BY <2>1, <2>2
<1>2. N = {}
  <2>1. N \in SUBSET Nat
    OBVIOUS
  <2> HIDE DEF N
  <2> QED BY <1>1, <2>1, LeastNumber
<1>3. Small(n, n) = SUBSET (1 .. n)
  BY Indices DEF Small
<1> QED BY <1>2, <1>3

\* The score that load computes is one that so many events can make.
LEMMA LoadedScore ==
  ASSUME NEW q \in Seq(Events)
  PROVE  FoldLeft(updateReputationScore, 0, q) \in Scores(Len(q))
<1> DEFINE n == Len(q)
          g == CHOOSE f : IsScore(f, q, SUBSET (1 .. n))
          N == {k \in Nat : \E s \in SUBSET (1 .. n) : Cardinality(s) = k /\ g[s] \notin Scores(k)}
<1>1. n \in Nat /\ DOMAIN q = 1 .. n /\ \A i \in 1 .. n : q[i] \in Events
  OBVIOUS
<1>2. FoldLeft(updateReputationScore, 0, q) = g[1 .. n]
  BY <1>1, FoldIsScore
<1>3. IsScore(g, q, SUBSET (1 .. n))
  BY <1>1, ScoreExists
<1>4. \A s \in SUBSET (1 .. n) : g[s] = IF s = {} THEN 0 ELSE updateReputationScore(g[s \ {Max(s)}], q[Max(s)])
  BY <1>3, Zenon DEF IsScore
<1> HIDE DEF g, n
<1>5. ASSUME NEW m \in Nat, m \in N, \A k \in N : m <= k PROVE FALSE
  <2>1. PICK s \in SUBSET (1 .. n) : Cardinality(s) = m /\ g[s] \notin Scores(m)
    BY <1>5
  <2>2. CASE s = {}
    <3>1. g[s] = 0 /\ m = 0
      BY <1>1, <1>4, <2>1, <2>2, Indices
    <3> QED BY <2>1, <3>1 DEF Scores, maxReputationScore
  <2>3. CASE s # {}
    <3>1. /\ Max(s) \in s /\ s \ {Max(s)} \in SUBSET (1 .. n)
          /\ Cardinality(s \ {Max(s)}) = m - 1 /\ m - 1 \in Nat
      BY <1>1, <2>1, <2>3, Indices
    <3>2. m - 1 \notin N
      BY <1>5, <3>1
    <3>3. g[s \ {Max(s)}] \in Scores(m - 1) /\ q[Max(s)] \in Events
      <4>1. ASSUME NEW r \in SUBSET (1 .. n), Cardinality(r) = m - 1 PROVE g[r] \in Scores(m - 1)
        <5> DEFINE k == m - 1
        <5>1. k \in Nat /\ k \notin N /\ Cardinality(r) = k
          BY <3>1, <3>2, <4>1
        <5> HIDE DEF k
        <5>2. g[r] \in Scores(k)
          BY <5>1
        <5> QED BY <5>2 DEF k
      <4>2. Max(s) \in 1 .. n
        BY <3>1
      <4> QED BY <1>1, <3>1, <4>1, <4>2
    <3>4. updateReputationScore(g[s \ {Max(s)}], q[Max(s)]) \in Scores(m)
      <4>1. updateReputationScore(g[s \ {Max(s)}], q[Max(s)]) \in Scores((m - 1) + 1)
        BY <3>1, <3>3, ScoreStep
      <4>2. (m - 1) + 1 = m
        OBVIOUS
      <4> QED BY <4>1, <4>2
    <3> QED BY <1>4, <2>1, <2>3, <3>4, Zenon
  <2> QED BY <2>2, <2>3
<1>6. N = {}
  <2>1. N \in SUBSET Nat
    OBVIOUS
  <2> HIDE DEF N
  <2> QED BY <1>5, <2>1, LeastNumber
<1>7. 1 .. n \in SUBSET (1 .. n) /\ Cardinality(1 .. n) = n
  BY <1>1, FS_Interval
<1>8. g[1 .. n] \in Scores(n)
  BY <1>1, <1>6, <1>7
<1> QED BY <1>2, <1>8 DEF n

-----------------------------------------------------------------------------
(* The scores, in every step *)

\* The events that count: the rows, and those that wait for the older ones.
known(n) == Len(saved[n].events) + Len(banning[n])

Scored == /\ reputationScore \in [Nodes -> Int]
          /\ \A n \in Nodes : known(n) <= MaxEvents /\ reputationScore[n] \in Scores(known(n))

\* What the lemmas below need of the other invariants.
Lists == Rows /\ banning \in [Nodes -> Seq(Events)] /\ Scored

LEMMA KnownIsNat ==
  ASSUME Rows, banning \in [Nodes -> Seq(Events)], NEW n \in Nodes
  PROVE  /\ Len(saved[n].events) \in Nat /\ Len(banning[n]) \in Nat /\ known(n) \in Nat
         /\ saved[n].events \in Seq(Events)
BY DEF Rows, known

LEMMA ScoresAreNumbers ==
  ASSUME NEW n \in Nat, NEW score \in Scores(n)
  PROVE  score \in Int
BY EventsAssumption DEF Scores, Infinity, banThreshold

\* A step changes the score of one node, and what is known of it.
LEMMA ScoredStep ==
  ASSUME Lists, NEW n \in Nodes, NEW score,
         reputationScore' = [reputationScore EXCEPT ![n] = score],
         known(n)' \in Nat, known(n)' <= MaxEvents, score \in Scores(known(n)'),
         \A m \in Nodes \ {n} : known(m)' = known(m)
  PROVE  Scored'
<1>1. score \in Int
  BY ScoresAreNumbers
<1>2. reputationScore' \in [Nodes -> Int] /\ reputationScore'[n] = score
      /\ \A m \in Nodes \ {n} : reputationScore'[m] = reputationScore[m]
  BY <1>1 DEF Lists, Scored
<1>3. ASSUME NEW m \in Nodes \ {n}
      PROVE  known(m)' <= MaxEvents /\ reputationScore'[m] \in Scores(known(m)')
  <2>1. known(m)' = known(m) /\ reputationScore'[m] = reputationScore[m]
    BY <1>2
  <2>2. known(m) <= MaxEvents /\ reputationScore[m] \in Scores(known(m))
    BY DEF Lists, Scored
  <2> QED BY <2>1, <2>2
<1>4. known(n)' <= MaxEvents /\ reputationScore'[n] \in Scores(known(n)')
  BY <1>2
<1>5. \A m \in Nodes : known(m)' <= MaxEvents /\ reputationScore'[m] \in Scores(known(m)')
  BY <1>3, <1>4
<1> QED BY <1>2, <1>5 DEF Scored, Scores, Infinity, banThreshold, maxReputationScore

LEMMA Lengths ==
  ASSUME NEW S, NEW s \in Seq(S)
  PROVE  /\ Len(s) \in Nat
         /\ \A x \in S : Append(s, x) \in Seq(S) /\ Len(Append(s, x)) = Len(s) + 1
         /\ s # <<>> => Head(s) \in S /\ Tail(s) \in Seq(S) /\ Len(Tail(s)) = Len(s) - 1
OBVIOUS

LEMMA BansScored ==
  ASSUME Lists, NEW n \in Nodes, Bans(n)
  PROVE  Scored'
<1>1. /\ banning[n] # <<>> /\ UNCHANGED reputationScore
      /\ saved' = [saved EXCEPT ![n].events = Append(@, Head(banning[n]))]
      /\ banning' = [banning EXCEPT ![n] = Tail(@)]
  BY DEF Bans, announceBan
<1>2. saved'[n].events = Append(saved[n].events, Head(banning[n])) /\ banning'[n] = Tail(banning[n])
  BY <1>1 DEF Lists, Rows
<1>3. \A m \in Nodes \ {n} : saved'[m] = saved[m] /\ banning'[m] = banning[m]
  BY <1>1 DEF Lists, Rows
<1>4. banning[n] \in Seq(Events) /\ saved[n].events \in Seq(Events)
  BY DEF Lists, Rows
<1>5. /\ Len(Append(saved[n].events, Head(banning[n]))) = Len(saved[n].events) + 1
      /\ Len(Tail(banning[n])) = Len(banning[n]) - 1
      /\ Tail(banning[n]) \in Seq(Events)
  BY <1>1, <1>4, Lengths
<1>6. known(n)' = known(n)
  <2>1. PICK a \in Nat, b \in Nat : a = Len(saved[n].events) /\ b = Len(banning[n])
    BY KnownIsNat DEF Lists
  <2>2. b - 1 \in Nat
    BY <1>5, <2>1, Lengths
  <2>3. Len(saved'[n].events) = a + 1 /\ Len(banning'[n]) = b - 1 /\ a + 1 \in Nat
    BY <1>2, <1>5, <2>1
  <2>5. known(n)' = (a + 1) + (b - 1)
    BY <2>3 DEF known
  <2>4. (a + 1) + (b - 1) = a + b
    OBVIOUS
  <2> QED BY <2>1, <2>4, <2>5 DEF known
<1>7. \A m \in Nodes : known(m)' = known(m)
  BY <1>3, <1>6 DEF known
<1> QED BY <1>1, <1>7 DEF Lists, Scored, Scores, Infinity, banThreshold, maxReputationScore

LEMMA ReputationScored ==
  ASSUME Lists, NEW n \in Nodes, NEW event \in Events, Reputation(n, event)
  PROVE  Scored'
<1> DEFINE score == updateReputationScore(reputationScore[n], event)
          bans == score < banThreshold /\ ~banned[n]
          lifts == score >= banThreshold /\ banned[n]
<1>1. /\ Len(saved[n].events) + Len(banning[n]) < MaxEvents
      /\ reputationScore' = [reputationScore EXCEPT ![n] = score]
      /\ saved' = [saved EXCEPT ![n].banned = (@ \/ bans) /\ ~lifts,
                                ![n].events = IF bans THEN @ ELSE Append(@, event)]
      /\ banning' = IF bans THEN [banning EXCEPT ![n] = Append(@, event)] ELSE banning
  BY DEF Reputation, addReputationEvent
<1>2. banning[n] \in Seq(Events) /\ saved[n].events \in Seq(Events) /\ known(n) \in Nat
      /\ Len(saved[n].events) \in Nat /\ Len(banning[n]) \in Nat
  BY KnownIsNat DEF Lists
<1>3. score \in Scores(known(n) + 1)
  <2>1. reputationScore[n] \in Scores(known(n))
    BY DEF Lists, Scored
  <2> QED BY <1>2, <2>1, ScoreStep
<1> HIDE DEF score
<1>4. saved'[n].events = (IF bans THEN saved[n].events ELSE Append(saved[n].events, event))
      /\ banning'[n] = (IF bans THEN Append(banning[n], event) ELSE banning[n])
  <2> HIDE DEF bans, lifts
  <2> QED BY <1>1 DEF Lists, Rows
<1>5. \A m \in Nodes \ {n} : saved'[m] = saved[m] /\ banning'[m] = banning[m]
  <2> HIDE DEF bans, lifts
  <2> QED BY <1>1 DEF Lists, Rows
<1> HIDE DEF bans, lifts
<1>6. known(n)' = known(n) + 1
  <2>1. PICK a \in Nat, b \in Nat : a = Len(saved[n].events) /\ b = Len(banning[n])
    BY <1>2
  <2>2. known(n) = a + b
    BY <2>1 DEF known
  <2>3. CASE bans
    <3>1. saved'[n].events = saved[n].events /\ banning'[n] = Append(banning[n], event)
      BY <1>4, <2>3
    <3>2. Len(banning'[n]) = b + 1
      BY <1>2, <2>1, <3>1, Lengths
    <3>3. known(n)' = a + (b + 1)
      BY <2>1, <3>1, <3>2 DEF known
    <3> QED BY <2>2, <3>3
  <2>4. CASE ~bans
    <3>1. saved'[n].events = Append(saved[n].events, event) /\ banning'[n] = banning[n]
      BY <1>4, <2>4
    <3>2. Len(saved'[n].events) = a + 1
      BY <1>2, <2>1, <3>1, Lengths
    <3>3. known(n)' = (a + 1) + b
      BY <2>1, <3>1, <3>2 DEF known
    <3> QED BY <2>2, <3>3
  <2> QED BY <2>3, <2>4
<1>7. \A m \in Nodes \ {n} : known(m)' = known(m)
  BY <1>5 DEF known
<1>8. known(n)' <= MaxEvents
  <2>1. PICK k \in Nat : k = known(n) /\ k < MaxEvents
    BY <1>1, <1>2 DEF known
  <2>2. k + 1 <= MaxEvents
    BY <2>1, EventsAssumption
  <2> QED BY <1>6, <2>1, <2>2
<1>9. score \in Scores(known(n)') /\ known(n)' \in Nat
  BY <1>2, <1>3, <1>6
<1> QED BY <1>1, <1>7, <1>8, <1>9, ScoredStep

LEMMA RestartsScored ==
  ASSUME Lists, NEW n \in Nodes, Restarts(n)
  PROVE  Scored'
<1> DEFINE q == Reverse(saved[n].events)
          score == FoldLeft(updateReputationScore, 0, q)
<1>1. /\ reputationScore' = [reputationScore EXCEPT ![n] = score]
      /\ banning' = [banning EXCEPT ![n] = <<>>] /\ saved' = saved
  BY DEF Restarts, load
<1>2. saved[n].events \in Seq(Events) /\ Len(saved[n].events) \in Nat /\ Len(banning[n]) \in Nat
      /\ known(n) \in Nat
  BY KnownIsNat DEF Lists
<1>3. q \in Seq(Events) /\ Len(q) = Len(saved[n].events)
  BY <1>2 DEF Reverse
<1>4. score \in Scores(Len(saved[n].events))
  BY <1>3, LoadedScore
<1>5. known(n)' = Len(saved[n].events) /\ \A m \in Nodes \ {n} : known(m)' = known(m)
  BY <1>1, <1>2 DEF known, Lists
<1> HIDE DEF score
<1>6. known(n)' <= MaxEvents
  <2>1. PICK a \in Nat, b \in Nat : a = Len(saved[n].events) /\ b = Len(banning[n])
    BY <1>2
  <2>2. a + b <= MaxEvents
    BY <2>1 DEF Lists, Scored, known
  <2>3. a <= MaxEvents
    BY <2>2, EventsAssumption
  <2> QED BY <1>5, <2>1, <2>3
<1> QED BY <1>1, <1>2, <1>4, <1>5, <1>6, ScoredStep

LEMMA ScoredInv ==
  ASSUME Lists, [PoolNext]_vars
  PROVE  Scored'
<1>1. UNCHANGED nodeListVars => Scored'
  BY DEF nodeListVars, Lists, Scored, known, Scores, Infinity, banThreshold, maxReputationScore
<1>2. ASSUME NEW n \in Nodes, NEW c \in Conns,
             \/ Accepts(n, c) \/ Greets(n, c) \/ Replies(n, c) \/ ReceivesSessionInit(n, c)
             \/ ReceivesSessionAck(n, c) \/ Closes(n, c) \/ StillConnected(n, c)
             \/ ConnectFails(n, c) \/ Stalls(n, c)
      PROVE  UNCHANGED nodeListVars
  BY <1>2 DEF Accepts, Greets, Replies, ReceivesSessionInit, ReceivesSessionAck, Closes, StillConnected,
     ConnectFails, Stalls
<1>3. ASSUME NEW n \in Nodes, Disconnected(n) \/ Disconnects(n) \/ \E revoke \in BOOLEAN : Connects(n, revoke)
      PROVE  UNCHANGED nodeListVars
  BY <1>3 DEF Disconnected, Disconnects, Connects
<1>4. ASSUME NEW c \in Conns, Loses(c) PROVE UNCHANGED nodeListVars
  BY <1>4 DEF Loses
<1>5. UNCHANGED vars => UNCHANGED nodeListVars
  BY DEF vars
<1> QED BY <1>1, <1>2, <1>3, <1>4, <1>5, BansScored, ReputationScored, RestartsScored DEF PoolNext, Progress

-----------------------------------------------------------------------------
(* What is on its way, and the rest of the type invariant *)

Packets == {"hello", "answer", "ack", "fin"}
Boxes == [Nodes -> [Conns -> Seq(Packets)]]

LEMMA OtherIsNode == \A n \in Nodes : other(n) \in Nodes
BY DEF other, Nodes

LEMMA HungUpTyped ==
  ASSUME inbox \in Boxes, NEW n \in Nodes, NEW cs
  PROVE  hungUp(n, cs) \in Boxes
<1>1. ASSUME NEW m \in Nodes, NEW c \in Conns
      PROVE  inbox[m][c] \in Seq(Packets) /\ Append(inbox[m][c], "fin") \in Seq(Packets)
  <2>1. inbox[m][c] \in Seq(Packets)
    BY DEF Boxes
  <2>2. "fin" \in Packets
    BY DEF Packets
  <2> QED BY <2>1, <2>2, Lengths
<1>2. <<>> \in Seq(Packets)
  OBVIOUS
<1> QED BY <1>1, <1>2, Zenon DEF hungUp, Boxes

LEMMA SentTyped ==
  ASSUME NEW box \in Boxes, NEW n \in Nodes, NEW c \in Conns, NEW packet \in Packets
  PROVE  sent(n, c, packet, box) \in Boxes
<1> DEFINE o == other(n)
<1>1. o \in Nodes
  BY OtherIsNode
<1> HIDE DEF o
<1>2. Append(box[o][c], packet) \in Seq(Packets)
  <2>1. box[o][c] \in Seq(Packets)
    BY <1>1 DEF Boxes
  <2> QED BY <2>1, Lengths
<1>3. [box EXCEPT ![o][c] = Append(@, packet)] \in Boxes
  BY <1>1, <1>2, SMT DEF Boxes
<1> QED BY <1>3 DEF sent, o

LEMMA ReadTyped ==
  ASSUME NEW box \in Boxes, NEW n \in Nodes, NEW c \in Conns, box[n][c] # <<>>
  PROVE  read(n, c, box) \in Boxes
<1>1. Tail(box[n][c]) \in Seq(Packets)
  <2>1. box[n][c] \in Seq(Packets)
    BY DEF Boxes
  <2> QED BY <2>1, Lengths
<1> QED BY <1>1, SMT DEF read, Boxes

LEMMA PacketsAre == {"hello", "answer", "ack", "fin"} = Packets
BY DEF Packets

LEMMA BoxesInv ==
  ASSUME inbox \in Boxes, Typed, [PoolNext]_vars
  PROVE  inbox' \in Boxes
<1>1. UNCHANGED inbox => inbox' \in Boxes
  BY DEF Boxes
<1>2. ASSUME NEW n \in Nodes, NEW c \in Conns, NEW box \in Boxes, opens(n, c, box) PROVE inbox' \in Boxes
  BY <1>2, HungUpTyped DEF opens
<1>3. ASSUME NEW n \in Nodes, NEW cs, NEW s, close(n, cs, s) PROVE inbox' \in Boxes
  BY <1>3, HungUpTyped DEF close
<1>4. ASSUME NEW n \in Nodes, Bans(n) \/ Disconnected(n) PROVE inbox' \in Boxes
  BY <1>3, <1>4 DEF Bans, Disconnected
<1>5. ASSUME NEW n \in Nodes, NEW c \in Conns,
             \/ Greets(n, c) \/ Replies(n, c) \/ ReceivesSessionInit(n, c) \/ ReceivesSessionAck(n, c)
      PROVE  inbox' \in Boxes
  <2>1. CASE Greets(n, c)
    BY <2>1, SentTyped DEF Greets, Packets
  <2>2. CASE Replies(n, c)
    <3>1. sent(n, c, "answer", inbox) \in Boxes /\ sent(n, c, "ack", inbox) \in Boxes
      BY SentTyped DEF Packets
    <3> QED BY <1>2, <2>2, <3>1 DEF Replies
  <2>3. CASE ReceivesSessionInit(n, c)
    <3>1. read(n, c, inbox) \in Boxes
      BY <2>3, ReadTyped DEF ReceivesSessionInit, arrives
    <3> QED BY <1>3, <2>3, <3>1 DEF ReceivesSessionInit
  <2>4. CASE ReceivesSessionAck(n, c)
    <3>1. read(n, c, inbox) \in Boxes
      BY <2>4, ReadTyped DEF ReceivesSessionAck, arrives
    <3> QED BY <1>2, <2>4, <3>1 DEF ReceivesSessionAck
  <2> QED BY <1>5, <2>1, <2>2, <2>3, <2>4
<1>6. ASSUME NEW n \in Nodes, NEW c \in Conns,
             Closes(n, c) \/ StillConnected(n, c) \/ ConnectFails(n, c) \/ Stalls(n, c)
      PROVE  inbox' \in Boxes
  BY <1>3, <1>6 DEF Closes, StillConnected, ConnectFails, Stalls
<1>7. ASSUME NEW n \in Nodes, Restarts(n) PROVE inbox' \in Boxes
  BY <1>7, HungUpTyped DEF Restarts
<1>8. ASSUME NEW c \in Conns, Loses(c) PROVE inbox' \in Boxes
  <2>1. inbox' = [n \in Nodes |-> [inbox[n] EXCEPT ![c] = IF established(n, c) THEN <<"fin">> ELSE @]]
    BY <1>8 DEF Loses
  <2>2. <<"fin">> \in Seq(Packets)
    BY DEF Packets
  <2> HIDE DEF Packets
  <2>3. ASSUME NEW n \in Nodes
        PROVE  [inbox[n] EXCEPT ![c] = IF established(n, c) THEN <<"fin">> ELSE @] \in [Conns -> Seq(Packets)]
    BY <2>2 DEF Boxes
  <2> QED BY <2>1, <2>3, Zenon DEF Boxes
<1>9. ASSUME NEW n \in Nodes, \/ \E revoke \in BOOLEAN : Connects(n, revoke)
                              \/ \E event \in Events : Reputation(n, event)
                              \/ Disconnects(n) \/ \E c \in Conns : Accepts(n, c)
      PROVE  UNCHANGED inbox
  BY <1>9 DEF Connects, Reputation, Disconnects, Accepts
<1>10. UNCHANGED vars => UNCHANGED inbox
  BY DEF vars, poolVars
<1> QED BY <1>1, <1>4, <1>5, <1>6, <1>7, <1>8, <1>9, <1>10 DEF PoolNext, Progress

RestTyped == running \in [Nodes -> {"on", "closing", "off"}] /\ faults \in Nat

LEMMA RestInv ==
  ASSUME RestTyped, [PoolNext]_vars
  PROVE  RestTyped'
<1>1. UNCHANGED <<running, faults>> => RestTyped'
  BY DEF RestTyped
<1>2. ASSUME NEW n \in Nodes, NEW c \in Conns,
             \/ Accepts(n, c) \/ Greets(n, c) \/ Replies(n, c) \/ ReceivesSessionInit(n, c)
             \/ ReceivesSessionAck(n, c) \/ Closes(n, c)
      PROVE  UNCHANGED <<running, faults>>
  BY <1>2 DEF Accepts, Greets, Replies, ReceivesSessionInit, ReceivesSessionAck, Closes
<1>3. ASSUME NEW n \in Nodes, NEW c \in Conns, StillConnected(n, c) \/ ConnectFails(n, c) \/ Stalls(n, c)
      PROVE  RestTyped'
  <2>1. running' = running /\ faults' \in {faults, faults + 1, MaxFaults}
    BY <1>3 DEF StillConnected, ConnectFails, Stalls, failing, Lowest
  <2> QED BY <2>1, PoolAssumption DEF RestTyped
<1>4. ASSUME NEW n \in Nodes, Disconnected(n) \/ Disconnects(n) \/ Restarts(n) PROVE RestTyped'
  <2>1. /\ running' \in {[running EXCEPT ![n] = "on"], [running EXCEPT ![n] = "closing"],
                         [running EXCEPT ![n] = "off"]}
        /\ faults' \in {faults, faults + 1}
    BY <1>4 DEF Disconnected, Disconnects, Restarts, failing
  <2> QED BY <2>1 DEF RestTyped
<1>5. ASSUME NEW n \in Nodes, \/ Bans(n) \/ \E revoke \in BOOLEAN : Connects(n, revoke)
                              \/ \E event \in Events : Reputation(n, event)
      PROVE  UNCHANGED <<running, faults>>
  BY <1>5 DEF Bans, Connects, Reputation
<1>6. ASSUME NEW c \in Conns, Loses(c) PROVE RestTyped'
  BY <1>6 DEF Loses, failing, RestTyped
<1>7. UNCHANGED vars => UNCHANGED <<running, faults>>
  BY DEF vars, poolVars
<1> QED BY <1>1, <1>2, <1>3, <1>4, <1>5, <1>6, <1>7 DEF PoolNext, Progress

(***************************************************************************)
(* The type invariant: whatever the events, and whenever the rows are      *)
(* loaded again, a score stays within what the events can add up to, and   *)
(* minus infinity (updateReputationScore) is not reached step by step.     *)
(***************************************************************************)
THEOREM PoolTypeCorrect == PoolSpec => []PoolTypeOK
<1> DEFINE Inv == Scored /\ inbox \in Boxes /\ RestTyped
           Others == Typed /\ Rows
<1>1. PoolInit => Inv
  <2> SUFFICES ASSUME PoolInit PROVE Inv
    OBVIOUS
  <2>1. Instances = Nodes
    BY PoolAssumption DEF Nodes
  <2>2. /\ reputationScore = [i \in Nodes |-> 0] /\ banning = [i \in Nodes |-> <<>>]
        /\ saved = [i \in Nodes |-> [banned |-> FALSE, events |-> <<>>]]
    BY <2>1 DEF PoolInit, NodeListInit
  <2>3. \A n \in Nodes : known(n) = 0
    BY <2>2 DEF known
  <2>4. 0 \in Scores(0)
    BY DEF Scores, maxReputationScore
  <2>5. Scored
    BY <2>2, <2>3, <2>4, EventsAssumption DEF Scored
  <2>6. inbox \in Boxes /\ RestTyped
    BY DEF PoolInit, Boxes, RestTyped
  <2> QED BY <2>5, <2>6
<1>2. Inv /\ Others /\ [PoolNext]_vars => Inv'
  <2>1. Others => Rows /\ banning \in [Nodes -> Seq(Events)] /\ Typed
    BY DEF Typed
  <2> HIDE DEF Others
  <2> QED BY <2>1, ScoredInv, BoxesInv, RestInv DEF Lists
<1>3. Inv /\ Others => PoolTypeOK
  <2> SUFFICES ASSUME Inv, Others PROVE PoolTypeOK
    OBVIOUS
  <2>1. Instances = Nodes
    BY PoolAssumption DEF Nodes
  <2>2. reputationScore \in [Nodes -> -Infinity .. maxReputationScore]
    <3>1. ASSUME NEW n \in Nodes PROVE reputationScore[n] \in -Infinity .. maxReputationScore
      <4>1. known(n) \in Nat /\ known(n) <= MaxEvents /\ reputationScore[n] \in Scores(known(n))
        BY KnownIsNat DEF Scored, Typed
      <4> QED BY <4>1, ScoresInRange
    <3> QED BY <3>1 DEF Scored
  <2>3. NodeListTypeOK
    BY <2>1, <2>2 DEF NodeListTypeOK, Typed, Rows
  <2> QED BY <2>3 DEF PoolTypeOK, Typed, Boxes, Packets, RestTyped
<1>4. PoolIInv => Typed
  BY DEF PoolIInv
<1> QED BY <1>1, <1>2, <1>3, <1>4, PoolInvariance, PTL DEF PoolSpec
===============================================================================
