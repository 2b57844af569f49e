--------------------------------- MODULE Pool ---------------------------------
(***************************************************************************)
(* Two nodes connect to each other: Pool and Peer on each side of each     *)
(* socket between them.  A handshake is SessionInit; SessionAck and the    *)
(* other SessionInit; SessionAck.  Both may connect at the same time, lose *)
(* a socket, ban the other, or shut down.  Each node's NodeList has one    *)
(* instance, for the other node, named for its owner.                      *)
(***************************************************************************)
EXTENDS NodeList, FiniteSets

CONSTANTS
  Low, High,  \* the nodes, by the order of their pub keys
  MaxConns,   \* bound: sockets
  MaxFaults,  \* bound: lost sockets, stalls and restarts
  Operated    \* the nodes that add reputation events and may shut down

ASSUME PoolAssumption ==
  /\ Low # High /\ Instances = {Low, High} /\ Operated \subseteq Instances
  /\ MaxConns \in Nat /\ MaxFaults \in Nat

Nodes == {Low, High}
Conns == 1 .. MaxConns
other(n) == IF n = Low THEN High ELSE Low

VARIABLES
  creator,  \* the node that opened the socket
  stage,    \* openPeer of each node, for its side of the socket
  closed,   \* the sides on which Peer.close has run
  inbox,    \* what is on its way to each side
  peers,    \* Pool.peers: the side that is the peer, if any
  pending,  \* Pool.pendingOutboundPeers
  running,  \* "on", "closing" while Pool.disconnect waits, or "off"
  faults,   \* history: how many there have been
  banRaced, \* history: sides in the handshake when their node banned the other
  crowded   \* history: nodes of which two sides have become the peer at once

poolVars == <<creator, stage, closed, inbox, peers, pending, running, faults, banRaced, crowded>>
vars == <<nodeListVars, poolVars>>

None == 0
Stages == {"none",        \* no Peer
           "connecting",  \* initConnection
           "greeting",    \* SessionInit is written
           "waiting",     \* for the first answer
           "replying",    \* validatePeer has passed; the answer is written
           "acking",      \* inbound: waits for the SessionAck
           "resolving",   \* there is a peer already: waits whether it closes
           "open",        \* openPeer has returned
           "failed"}      \* it has thrown

PoolTypeOK ==
  /\ NodeListTypeOK
  /\ creator \in [Conns -> Nodes \cup {None}]
  /\ stage \in [Nodes -> [Conns -> Stages]]
  /\ closed \in [Nodes -> SUBSET Conns] /\ banRaced \in [Nodes -> SUBSET Conns]
  /\ inbox \in [Nodes -> [Conns -> Seq({"hello", "answer", "ack", "fin"})]]
  /\ peers \in [Nodes -> Conns \cup {None}] /\ pending \in [Nodes -> Conns \cup {None}]
  /\ running \in [Nodes -> {"on", "closing", "off"}] /\ faults \in Nat /\ crowded \subseteq Nodes

PoolInit ==
  /\ NodeListInit
  /\ creator = [c \in Conns |-> None]
  /\ stage = [n \in Nodes |-> [c \in Conns |-> "none"]]
  /\ closed = [n \in Nodes |-> {}] /\ banRaced = [n \in Nodes |-> {}]
  /\ inbox = [n \in Nodes |-> [c \in Conns |-> <<>>]]
  /\ peers = [n \in Nodes |-> None] /\ pending = [n \in Nodes |-> None]
  /\ running = [n \in Nodes |-> "on"] /\ faults = 0 /\ crowded = {}

side(n, c) == stage[n][c]
awaited == {"waiting", "acking"}   \* with an entry in responseMap
settled == {"open", "failed"}      \* openPeer has ended
established(n, c) == stage[n][c] \notin {"none", "connecting"} /\ c \notin closed[n]

-----------------------------------------------------------------------------
(* What every step does to a node *)

\* The sides that have waited in resolving and go on.
admitted(n, s) == {c \in Conns : side(n, c) = "resolving" /\ s[c] = "open"}

\* openPeer stands at s, the peer is p, the sides gone are closed.  When an
\* outbound openPeer ends, its node is no longer in pendingOutboundPeers.
becomes(n, s, p, gone) ==
  /\ stage' = [stage EXCEPT ![n] = s]
  /\ peers' = [peers EXCEPT ![n] = p]
  /\ closed' = [closed EXCEPT ![n] = @ \cup gone]
  /\ pending' = [pending EXCEPT ![n] =
       IF \E c \in Conns : creator[c] = n /\ stage[n][c] \notin settled /\ s[c] \in settled
       THEN None ELSE @]
  /\ crowded' = IF \E c, d \in Conns : c # d /\ {c, d} \subseteq admitted(n, s) THEN crowded \cup {n} ELSE crowded

\* Peer.close of the sides cs, where openPeer stands at s: a handshake that
\* waits for a response fails.  handlePeerClose takes the peer out of the pool;
\* each side that has waited for that in resolving is the peer then.
closes(n, cs, s) ==
  LET gone == cs \ closed[n]
      leaves == \E c \in gone : stage[n][c] = "open"
      resolved == IF leaves THEN {c \in Conns : s[c] = "resolving"} ELSE {}
      ends == [c \in Conns |-> IF c \in resolved THEN "open"
                               ELSE IF c \in gone /\ s[c] \in awaited THEN "failed" ELSE s[c]]
  IN \/ resolved = {} /\ becomes(n, ends, IF leaves THEN None ELSE peers[n], gone)
     \/ \E c \in resolved : becomes(n, ends, c, gone)

\* What is still to arrive when the sides cs of n have been closed.
hungUp(n, cs) ==
  [m \in Nodes |-> [c \in Conns |->
     IF c \notin cs \ closed[n] THEN inbox[m][c]
     ELSE IF m = n THEN <<>>
     ELSE IF established(m, c) THEN Append(inbox[m][c], "fin") ELSE inbox[m][c]]]

close(n, cs, s) == closes(n, cs, s) /\ inbox' = hungUp(n, cs)

sent(n, c, packet, box) ==
  IF c \in closed[n] \/ ~established(other(n), c) THEN box
  ELSE [box EXCEPT ![other(n)][c] = Append(@, packet)]

at(n, c, s) == [stage[n] EXCEPT ![c] = s]

-----------------------------------------------------------------------------
(* addOutbound and the handshake *)

\* addOutbound; with revokeConnectionRetries also while another one is pending.
Connects(n, revoke) ==
  /\ running[n] = "on" /\ ~banned[n] /\ peers[n] = None
  /\ pending[n] = None \/ revoke
  /\ \E c \in Conns :
       /\ creator[c] = None /\ \A d \in 1 .. c - 1 : creator[d] # None
       /\ creator' = [creator EXCEPT ![c] = n]
       /\ stage' = [stage EXCEPT ![n] = at(n, c, "connecting")]
       /\ pending' = [pending EXCEPT ![n] = c]
  /\ UNCHANGED <<nodeListVars, closed, inbox, peers, running, faults, banRaced, crowded>>

\* The socket connects, and the server of the other node has a peer as well.
Accepts(n, c) ==
  /\ creator[c] = n /\ side(n, c) = "connecting" /\ c \notin closed[n]
  /\ running[other(n)] = "on"
  /\ stage' = [stage EXCEPT ![n] = at(n, c, "greeting"), ![other(n)] = at(other(n), c, "waiting")]
  /\ UNCHANGED <<nodeListVars, creator, closed, inbox, peers, pending, running, faults, banRaced, crowded>>

\* The socket does not connect.
ConnectFails(n, c) ==
  /\ creator[c] = n /\ side(n, c) = "connecting" /\ c \notin closed[n]
  /\ faults < MaxFaults \/ running[other(n)] # "on"
  /\ faults' = Lowest(faults + 1, MaxFaults)
  /\ close(n, {c}, at(n, c, "failed"))
  /\ UNCHANGED <<nodeListVars, creator, running, banRaced>>

\* initSession: SessionInit is written; wait does not look whether the peer is
\* closed.
Greets(n, c) ==
  /\ side(n, c) = "greeting"
  /\ becomes(n, at(n, c, "waiting"), peers[n], {})
  /\ inbox' = sent(n, c, "hello", inbox)
  /\ UNCHANGED <<nodeListVars, creator, running, faults, banRaced>>

\* validatePeer
validates(n) == running[n] # "off" /\ ~banned[n] /\ peers[n] = None

arrives(n, c, packet) ==
  /\ c \notin closed[n] /\ inbox[n][c] # <<>> /\ Head(inbox[n][c]) = packet
read(n, c, box) == [box EXCEPT ![n][c] = Tail(@)]

\* SessionInit is here: the peer passes, and is answered, or is closed.
ReceivesSessionInit(n, c) ==
  /\ arrives(n, c, IF creator[c] = n THEN "answer" ELSE "hello") /\ side(n, c) = "waiting"
  /\ \/ validates(n) /\ becomes(n, at(n, c, "replying"), peers[n], {}) /\ inbox' = read(n, c, inbox)
     \/ ~validates(n) /\ close(n, {c}, at(n, c, "failed"))
  /\ UNCHANGED <<nodeListVars, creator, running, faults, banRaced>>

\* Mutant: both nodes close what they find to be a duplicate.
opensBoth(n, c, box) ==
  \/ /\ peers[n] = None
     /\ becomes(n, at(n, c, "open"), c, {}) /\ inbox' = box
  \/ /\ peers[n] # None
     /\ closes(n, {c}, at(n, c, "failed")) /\ inbox' = hungUp(n, {c})

\* Mutant: no check for a duplicate after the handshake.
opensUnchecked(n, c, box) == becomes(n, at(n, c, "open"), c, {}) /\ inbox' = box

\* openPeer, when the handshake is complete: of two sockets the node with the
\* higher key closes the later one, the other one waits.
opens(n, c, box) ==
  \/ /\ peers[n] = None
     /\ becomes(n, at(n, c, "open"), c, {}) /\ inbox' = box
  \/ /\ peers[n] # None /\ n = High
     /\ closes(n, {c}, at(n, c, "failed")) /\ inbox' = hungUp(n, {c})
  \/ /\ peers[n] # None /\ n = Low
     /\ becomes(n, at(n, c, "resolving"), peers[n], {}) /\ inbox' = box

\* The answer is written: SessionAck, and SessionInit of an inbound peer.
Replies(n, c) ==
  /\ side(n, c) = "replying"
  /\ \/ /\ creator[c] # n
        /\ becomes(n, at(n, c, "acking"), peers[n], {})
        /\ inbox' = sent(n, c, "answer", inbox)
     \/ creator[c] = n /\ opens(n, c, sent(n, c, "ack", inbox))
  /\ UNCHANGED <<nodeListVars, creator, running, faults, banRaced>>

ReceivesSessionAck(n, c) ==
  /\ arrives(n, c, "ack") /\ side(n, c) = "acking"
  /\ opens(n, c, read(n, c, inbox))
  /\ UNCHANGED <<nodeListVars, creator, running, faults, banRaced>>

\* The socket has been closed by the other node.
Closes(n, c) ==
  /\ arrives(n, c, "fin")
  /\ close(n, {c}, stage[n])
  /\ UNCHANGED <<nodeListVars, creator, running, faults, banRaced>>

\* Nothing is under way: what still waits does so until its timer.
quiet == \A n \in Nodes, c \in Conns :
           c \notin closed[n] => inbox[n][c] = <<>> /\ side(n, c) \notin {"connecting", "greeting", "replying"}

\* Five seconds have passed and the old peer is still there.
StillConnected(n, c) ==
  /\ side(n, c) = "resolving"
  /\ \/ quiet /\ UNCHANGED faults
     \/ ~quiet /\ faults < MaxFaults /\ faults' = faults + 1
  /\ close(n, {c}, at(n, c, "failed"))
  /\ UNCHANGED <<nodeListVars, creator, running, banRaced>>

-----------------------------------------------------------------------------
(* Faults, bans and shutdown *)

failing == faults < MaxFaults /\ faults' = faults + 1

\* A socket is lost, with what was under way.
Loses(c) ==
  /\ failing /\ \E n \in Nodes : established(n, c)
  /\ inbox' = [n \in Nodes |-> [inbox[n] EXCEPT ![c] = IF established(n, c) THEN <<"fin">> ELSE @]]
  /\ UNCHANGED <<nodeListVars, creator, stage, closed, peers, pending, running, banRaced, crowded>>

\* checkTimeout: a response is missing.
Stalls(n, c) ==
  /\ failing /\ established(n, c) /\ side(n, c) \in awaited \cup {"open"}
  /\ close(n, {c}, stage[n])
  /\ UNCHANGED <<nodeListVars, creator, running, banRaced>>

\* The process ends, and starts again.
Restarts(n) ==
  /\ failing /\ load(n)
  /\ LET all == {c \in Conns : side(n, c) # "none"} IN
     /\ inbox' = hungUp(n, all)
     /\ closed' = [closed EXCEPT ![n] = all]
     /\ stage' = [stage EXCEPT ![n] = [c \in Conns |-> IF c \in all THEN "failed" ELSE "none"]]
  /\ peers' = [peers EXCEPT ![n] = None] /\ pending' = [pending EXCEPT ![n] = None]
  /\ running' = [running EXCEPT ![n] = "on"] /\ crowded' = crowded \ {n}
  /\ UNCHANGED <<creator, banRaced>>

\* An event, of the user or of a swap with the other node.
Reputation(n, event) ==
  /\ n \in Operated
  /\ event = ManualBan => ~banned[n]
  /\ event = ManualUnban => banned[n]
  /\ addReputationEvent(n, event)
  /\ banRaced' = IF banned'[n] /\ ~banned[n]
                 THEN [banRaced EXCEPT ![n] = {c \in Conns : side(n, c) \in {"replying", "acking", "resolving"}}]
                 ELSE banRaced
  /\ UNCHANGED <<creator, stage, closed, inbox, peers, pending, running, faults, crowded>>

\* Mutant: the peer stays.
BansQuietly(n) ==
  /\ announceBan(n)
  /\ UNCHANGED poolVars

\* node.ban: the peer is closed.
Bans(n) ==
  /\ announceBan(n)
  /\ close(n, {peers[n]} \ {None}, stage[n])
  /\ UNCHANGED <<creator, running, faults, banRaced>>

\* disconnect: unlisten waits until the server, and so every inbound socket, is
\* closed.
Disconnects(n) ==
  /\ n \in Operated /\ running[n] = "on"
  /\ running' = [running EXCEPT ![n] = "closing"]
  /\ UNCHANGED <<nodeListVars, creator, stage, closed, inbox, peers, pending, faults, banRaced, crowded>>

\* Then closePendingConnections and closePeers.
Disconnected(n) ==
  /\ running[n] = "closing" /\ \A c \in Conns : creator[c] = other(n) => ~established(n, c)
  /\ running' = [running EXCEPT ![n] = "off"]
  /\ close(n, {peers[n], pending[n]} \ {None}, stage[n])
  /\ UNCHANGED <<nodeListVars, creator, faults, banRaced>>

-----------------------------------------------------------------------------
Progress ==
  \E n \in Nodes : \/ Bans(n) \/ Disconnected(n)
                   \/ \E c \in Conns : \/ Accepts(n, c) \/ Greets(n, c) \/ Replies(n, c)
                                       \/ ReceivesSessionInit(n, c) \/ ReceivesSessionAck(n, c)
                                       \/ Closes(n, c) \/ StillConnected(n, c)

PoolNext ==
  \/ Progress
  \/ \E n \in Nodes : \/ \E revoke \in BOOLEAN : Connects(n, revoke)
                      \/ \E event \in Events : Reputation(n, event)
                      \/ Restarts(n) \/ Disconnects(n)
                      \/ \E c \in Conns : ConnectFails(n, c) \/ Stalls(n, c)
  \/ \E c \in Conns : Loses(c)

PoolSpec == PoolInit /\ [][PoolNext]_vars
PoolFairSpec == PoolSpec /\ WF_vars(Progress)

active(n) == {c \in Conns : side(n, c) = "open" /\ c \notin closed[n]}
disturbed == \/ faults > 0
             \/ \E n \in Nodes : running[n] # "on" \/ saved[n].events # <<>> \/ banning[n] # <<>>

(* However handshakes overlap, a node has at most one active peer for the   *)
(* other node, and it is the one in the pool: no connection is in use that  *)
(* closePeers, a ban or the order book cannot reach through the pool        *)
(* (openPeer, after its check for a duplicate and its wait).  The exception *)
(* is three sockets: when two more handshakes wait whether the peer closes, *)
(* and it does, both sides become active, and only the later is in the pool.*)
ActiveInPool == \A n \in Nodes \ crowded : active(n) \subseteq {peers[n]}

(* Once a ban has been announced, the node has no active peer for the other *)
(* node, whatever was under way, but one whose handshake had already passed *)
(* validatePeer when the ban came (that is the one check of it), or one of  *)
(* two that have become the peer at once.                                   *)
BanCloses ==
  \A n \in Nodes \ crowded : banned[n] /\ banning[n] = <<>> => active(n) \subseteq banRaced[n]

(* Nodes that connect to each other at the same time keep one of the two    *)
(* connections, the same on both sides: they do not each close the one that *)
(* the other keeps (the comment in openPeer before its check for a          *)
(* duplicate), unless a fault, a ban or a shutdown intervenes.              *)
KeepsOne ==
  (\E c \in Conns : creator[c] # None)
    ~> (peers[Low] = peers[High] /\ peers[Low] # None) \/ disturbed
=============================================================================
