------------------------------- MODULE LndClient -------------------------------
(***************************************************************************)
(* xud's connection with one lnd: whether lnd can be reached, is unlocked  *)
(* and in sync is found out by verifyConnection, of which several may run  *)
(* at once (by init, by the timer, and after a wallet was created), and by *)
(* the errors of other calls.  Every call to lnd is sent, is answered by   *)
(* lnd as it is then, and its answer is handled later.                     *)
(***************************************************************************)
EXTENDS SwapClient, Naturals

CONSTANT MaxChanges  \* bound: changes of lnd that are not by xud's calls

ASSUME LndAssumption == MaxChanges \in Nat

VARIABLES
  server,   \* lnd: down, locked, answering with errors, syncing or ready
  holds,    \* whether it has hold invoices
  wallet,   \* whether its wallet has been created
  files,    \* which of its tls.cert and admin.macaroon are there
  changes,  \* how often it has changed
  client,   \* the fields of the LndClient, and its calls to WalletUnlocker
  verif,    \* where each verifyConnection stands
  poll,     \* the call of updateCapacity by its timer
  limited   \* the timer of verifyConnectionWithTimeout is set

lndVars == <<server, holds, wallet, files, changes>>
vars == <<lndVars, client, verif, poll, limited>>

Servers == {"down", "locked", "refusing", "syncing", "ready"}
Verifiers == {"init", "timer", "wallet"}
NoClient == "none"
Answers == {"ok", "syncing", "refused", "unavailable", "unimplemented"}
Idle == [at |-> "idle", ans |-> "none"]
Sent(step) == [at |-> step, ans |-> "sent"]

\* initResolve, watch: whether initWalletResolve and watchMacaroonResolve are
\* set, "seen" when the latter has been called; waiter: where awaitWalletInit
\* waits; retry: initRetryTimeout is set.  invoices stands for router as well.
Clients ==
  [status : ClientStatus, lightning : Verifiers \cup {NoClient},
   invoices : BOOLEAN, walletUnlocker : BOOLEAN, macaroon : BOOLEAN,
   password : BOOLEAN, initResolve : BOOLEAN, retry : BOOLEAN,
   watch : {"no", "waiting", "seen"},
   waiter : {"no", "client", "wallet", "macaroon"},
   calls : [{"user", "auto"} ->
             [at : {"idle", "unlock", "init", "change", "watching"},
              ans : {"none", "sent", "wrong", "not_found"} \cup Answers]]]

LndTypeOK ==
  /\ server \in Servers /\ holds \in BOOLEAN /\ wallet \in BOOLEAN
  /\ files \subseteq {"cert", "macaroon"} /\ changes \in 0 .. MaxChanges
  /\ client \in Clients
  /\ verif \in [Verifiers -> [at : {"idle", "ready", "info", "add", "cancel", "capacity"},
                              ans : {"none", "sent"} \cup Answers]]
  /\ poll \in {"none", "sent"} \cup Answers /\ limited \in BOOLEAN
  /\ client.watch = "seen" => client.macaroon = FALSE

LndInit ==
  /\ server \in Servers /\ holds \in BOOLEAN /\ wallet \in BOOLEAN /\ changes = 0
  /\ ~wallet => server \in {"down", "locked"}
  /\ files \in SUBSET {"cert", "macaroon"}
  /\ "macaroon" \in files <=> wallet
  /\ server # "down" => "cert" \in files
  /\ client = [status |-> "NotInitialized", lightning |-> NoClient,
               invoices |-> FALSE, walletUnlocker |-> FALSE, macaroon |-> FALSE,
               password |-> FALSE, initResolve |-> FALSE, retry |-> FALSE,
               watch |-> "no", waiter |-> "no", calls |-> [who \in {"user", "auto"} |-> Idle]]
  /\ verif = [v \in Verifiers |-> Idle] /\ poll = "none" /\ limited = FALSE

-----------------------------------------------------------------------------
(* What the client does on the way, as a function of its fields *)

setUnlocked(c) == setStatus([c EXCEPT !.walletUnlocker = FALSE], "Unlocked")

\* lock; the listener of 'locked' unlocks the wallet if it knows the password.
lock(c) ==
  setStatus([c EXCEPT !.walletUnlocker = TRUE, !.lightning = NoClient,
                      !.calls["auto"] = IF c.password /\ @ = Idle THEN Sent("unlock") ELSE @],
            "WaitingUnlock")

\* disconnect; both promises that it resolves with false end what waits for
\* them, a changePassword with setUnlocked.
disconnect(c) ==
  LET changing == c.watch = "waiting" /\ c.calls["user"].at = "watching"
      gone == [setStatus(c, "Disconnected") EXCEPT
                 !.lightning = NoClient, !.invoices = FALSE, !.initResolve = FALSE, !.retry = FALSE,
                 !.watch = IF @ = "waiting" THEN "no" ELSE @,
                 !.waiter = IF @ = "wallet" \/ (@ = "macaroon" /\ c.watch = "waiting") THEN "no" ELSE @,
                 !.calls["user"] = IF changing THEN Idle ELSE @]
  IN IF changing THEN setUnlocked(gone) ELSE gone

\* Mutant: the loss of the connection is not seen to.
handledQuietly(c, ans) == IF ans = "unimplemented" THEN lock(c) ELSE c

\* unaryCall and unaryInvoiceCall: what an error does before it is thrown.
handled(c, ans) ==
  CASE ans = "unavailable" -> disconnect(c)
    [] ans = "unimplemented" -> lock(c)
    [] OTHER -> c

watchMacaroon(c) == [c EXCEPT !.watch = "waiting"]

\* awaitWalletInit; its assertion fails in all other statuses.
awaitWalletInit(c) ==
  CASE c.initResolve -> c
    [] ~c.initResolve /\ c.status = "Initialized" ->
         [c EXCEPT !.walletUnlocker = TRUE, !.waiter = "client"]
    [] ~c.initResolve /\ c.status = "Unlocked" -> watchMacaroon([c EXCEPT !.waiter = "macaroon"])
    [] OTHER -> c

\* unaryCall can be made
reachable(c) == c.status # "NoHoldInvoiceSupport" /\ isOperational(c) /\ c.lightning # NoClient

\* verifyConnection by v begins, when the client is c.
verifyConnection(v, c) ==
  IF c.status = "WaitingUnlock" THEN client' = c /\ UNCHANGED verif
  ELSE IF ~c.macaroon THEN client' = awaitWalletInit(c) /\ UNCHANGED verif
  ELSE /\ client' = [c EXCEPT !.lightning = v]
       /\ verif' = [verif EXCEPT ![v] = [at |-> "ready", ans |-> "none"]]

goes(v, c, step) == client' = c /\ verif' = [verif EXCEPT ![v] = Sent(step)]
ends(v, c) == client' = c /\ verif' = [verif EXCEPT ![v] = Idle]

-----------------------------------------------------------------------------
(* SwapClient *)

\* init: without tls.cert it is tried again.
InitClient ==
  /\ client.status = "NotInitialized"
  /\ IF "cert" \in files
     THEN /\ verifyConnection("init", setStatus([client EXCEPT !.macaroon = "macaroon" \in files], "Initialized"))
          /\ limited' = TRUE
     ELSE client' = [setStatus(client, "Misconfigured") EXCEPT !.retry = TRUE] /\ UNCHANGED <<verif, limited>>
  /\ UNCHANGED <<lndVars, poll>>

\* init again: it goes on from NotInitialized only.
RetryInit ==
  /\ client.retry /\ "cert" \in files
  /\ client' = [client EXCEPT !.retry = FALSE, !.macaroon = "macaroon" \in files]
  /\ UNCHANGED <<lndVars, verif, poll, limited>>

\* verifyConnectionWithTimeout: the time is up.
InitTimeout ==
  /\ limited /\ verif["init"] # Idle
  /\ limited' = FALSE /\ client' = setStatus(client, "Disconnected")
  /\ UNCHANGED <<lndVars, verif, poll>>

\* reconnectionTimerCallback; the timer is set again when it has ended.
Rechecks ==
  /\ client.status \in rechecked /\ verif["timer"] = Idle
  /\ verifyConnection("timer", client)
  /\ UNCHANGED <<lndVars, poll, limited>>

\* updateCapacityTimerCallback
Polls ==
  /\ client.status = "ConnectionVerified" /\ reachable(client) /\ poll = "none"
  /\ poll' = "sent"
  /\ UNCHANGED <<lndVars, client, verif, limited>>

PollAnswered ==
  /\ poll \in Answers
  /\ client' = handled(client, poll) /\ poll' = "none"
  /\ UNCHANGED <<lndVars, verif, limited>>

-----------------------------------------------------------------------------
(* The steps of verifyConnection *)

\* waitForClientReady: lnd is there, or the time is up; or the client of this
\* verification has been closed.  Then getInfo.
ClientReady(v) ==
  /\ verif[v].at = "ready"
  /\ \/ reachable(client) /\ goes(v, client, "info")
     \/ (~reachable(client) \/ client.lightning # v) /\ ends(v, client)
  /\ UNCHANGED <<lndVars, poll, limited>>

answered(v, step) == verif[v].at = step /\ verif[v].ans \in Answers

\* The chain may be another one than before.
InfoAnswered(v) ==
  /\ answered(v, "info")
  /\ \/ /\ verif[v].ans = "ok"
        /\ \E switched \in BOOLEAN :
             goes(v, [(IF switched THEN setStatus(client, "Misconfigured") ELSE client)
                        EXCEPT !.walletUnlocker = FALSE, !.invoices = TRUE], "add")
     \/ verif[v].ans = "syncing" /\ ends(v, setStatus(client, "OutOfSync"))
     \/ verif[v].ans \notin {"ok", "syncing"} /\ ends(v, handled(client, verif[v].ans))
  /\ UNCHANGED <<lndVars, poll, limited>>

\* Mutant: a failed check for hold invoices only ends the verification.
noInvoicesQuiet(c, ans) == handled(c, ans)

\* The check for hold invoices has failed: but for a grpc connectivity error.
noInvoices(c, ans) ==
  IF ans = "unavailable" THEN handled(c, ans) ELSE setStatus(handled(c, ans), "NoHoldInvoiceSupport")

AddAnswered(v) ==
  /\ answered(v, "add")
  /\ \/ verif[v].ans = "ok" /\ client.invoices /\ goes(v, client, "cancel")
     \/ verif[v].ans # "ok" /\ ends(v, noInvoices(client, verif[v].ans))
     \/ verif[v].ans = "ok" /\ ~client.invoices /\ ends(v, noInvoices(client, "ok"))
  /\ UNCHANGED <<lndVars, poll, limited>>

connected(c) == setStatus(c, "ConnectionVerified")

\* Then setConnected, whose updateCapacity is a unaryCall.
CancelAnswered(v) ==
  /\ answered(v, "cancel")
  /\ \/ verif[v].ans # "ok" /\ ends(v, noInvoices(client, verif[v].ans))
     \/ verif[v].ans = "ok" /\ reachable(client) /\ goes(v, client, "capacity")
     \/ verif[v].ans = "ok" /\ ~reachable(client) /\ ends(v, connected(client))
  /\ UNCHANGED <<lndVars, poll, limited>>

\* updateCapacity catches its errors.
CapacityAnswered(v) ==
  /\ answered(v, "capacity")
  /\ ends(v, connected(handled(client, verif[v].ans)))
  /\ UNCHANGED <<lndVars, poll, limited>>

\* setConnected has waited for long enough; the call goes on (bound: one such
\* call, or one of the timer, at a time).
CapacityTimeout(v) ==
  /\ verif[v] = Sent("capacity") /\ poll = "none"
  /\ poll' = "sent" /\ ends(v, connected(client))
  /\ UNCHANGED <<lndVars, limited>>

-----------------------------------------------------------------------------
(* Wallets *)

\* awaitWalletInit: the client of WalletUnlocker is ready.
UnlockerReady ==
  /\ client.waiter = "client"
  /\ client' = [lock(client) EXCEPT !.waiter = "wallet", !.initResolve = TRUE]
  /\ UNCHANGED <<lndVars, verif, poll, limited>>

\* unlockWallets or initWallets, for a client that waits for it.
UserCalls(op) ==
  /\ client.status = "WaitingUnlock" /\ client.calls["user"] = Idle
  /\ client' = [client EXCEPT !.password = TRUE,
                              !.calls["user"] = IF client.walletUnlocker THEN Sent(op) ELSE Idle]
  /\ UNCHANGED <<lndVars, verif, poll, limited>>

\* initWallet has succeeded: awaitWalletInit goes on.
initResolved(c) ==
  IF c.waiter = "wallet" THEN watchMacaroon([c EXCEPT !.waiter = "macaroon"]) ELSE c

\* An error UNIMPLEMENTED means that lnd is unlocked already.  unlockWallets
\* creates a wallet that is not found.
WalletAnswered(who) ==
  LET call == client.calls[who]
      c == [client EXCEPT !.calls[who] = Idle]
  IN /\ call.at \in {"unlock", "init", "change"} /\ call.ans \notin {"none", "sent"}
     /\ \/ call.ans = "unavailable" /\ client' = disconnect(c)
        \/ call.ans = "wrong" /\ client' = c
        \/ /\ call.ans = "not_found"
           /\ client' = IF who = "user" /\ c.walletUnlocker
                        THEN [c EXCEPT !.calls["user"] = Sent("init")] ELSE c
        \/ /\ call.ans \in {"ok", "unimplemented"}
           /\ client' = CASE call.at = "unlock" -> setUnlocked(c)
                          [] call.at = "init" -> setUnlocked(initResolved(c))
                          [] call.at = "change" ->
                               watchMacaroon([c EXCEPT !.macaroon = FALSE,
                                                       !.calls["user"] = [at |-> "watching", ans |-> "none"]])
     /\ UNCHANGED <<lndVars, verif, poll, limited>>

\* Mutant: watchMacaroonResolve is not reset.
loadedStillWatching(c) == [c EXCEPT !.macaroon = TRUE]

loaded(c) == [c EXCEPT !.macaroon = TRUE, !.watch = "no"]

\* watchThenLoadMacaroon ends, the macaroon can be read, and awaitWalletInit or
\* changePassword goes on.
MacaroonLoaded ==
  /\ client.watch = "seen"
  /\ LET c == loaded(client) IN
     \/ client.waiter = "macaroon" /\ verifyConnection("wallet", [c EXCEPT !.waiter = "no"])
     \/ /\ client.calls["user"].at = "watching"
        /\ client' = setUnlocked([c EXCEPT !.calls["user"] = Idle]) /\ UNCHANGED verif
  /\ UNCHANGED <<lndVars, poll, limited>>

-----------------------------------------------------------------------------
(* lnd *)

\* It starts, stops, is unlocked by others, or is in sync or no longer.
ServerChanges ==
  /\ changes < MaxChanges /\ changes' = changes + 1
  /\ server' \in (IF wallet THEN Servers ELSE {"down", "locked"}) \ {server}
  /\ files' = files \cup IF server' = "down" THEN {} ELSE {"cert"}
  /\ UNCHANGED <<holds, wallet, client, verif, poll, limited>>

\* It writes its macaroon, some time after it was unlocked.
MacaroonWritten ==
  /\ server \in {"syncing", "ready"} /\ "macaroon" \notin files
  /\ files' = files \cup {"macaroon"}
  /\ client' = [client EXCEPT !.watch = IF @ = "waiting" THEN "seen" ELSE @]
  /\ UNCHANGED <<server, holds, wallet, changes, verif, poll, limited>>

answers(step) ==
  CASE server = "down" -> {"unavailable"}
    [] server = "locked" -> {"unimplemented"}
    [] server = "refusing" -> {"refused"}
    [] server \in {"syncing", "ready"} /\ step \in {"add", "cancel"} /\ ~holds -> {"unimplemented"}
    [] server = "syncing" /\ step = "info" -> {"syncing"}
    [] OTHER -> {"ok"}

LndAnswers(v) ==
  /\ verif[v].ans = "sent"
  /\ \E ans \in answers(verif[v].at) : verif' = [verif EXCEPT ![v].ans = ans]
  /\ UNCHANGED <<lndVars, client, poll, limited>>

LndAnswersPoll ==
  /\ poll = "sent" /\ poll' \in answers("capacity")
  /\ UNCHANGED <<lndVars, client, verif, limited>>

\* What WalletUnlocker answers; it is there while lnd is locked.
walletAnswers(op) ==
  CASE server = "down" -> {"unavailable"}
    [] server \notin {"down", "locked"} -> {"unimplemented"}
    [] server = "locked" /\ op = "unlock" -> IF wallet THEN {"ok", "wrong"} ELSE {"not_found"}
    [] server = "locked" /\ op = "init" -> IF wallet THEN {"wrong"} ELSE {"ok"}
    [] server = "locked" /\ op = "change" -> IF wallet THEN {"ok", "wrong"} ELSE {"wrong"}

WalletAnswers(who) ==
  LET op == client.calls[who].at IN
  /\ client.calls[who].ans = "sent"
  /\ \E ans \in walletAnswers(op) :
       /\ client' = [client EXCEPT !.calls[who].ans = ans]
       /\ server' = IF ans = "ok" THEN "syncing" ELSE server
       /\ wallet' = (wallet \/ ans = "ok")
       /\ files' = IF ans = "ok" /\ op = "change" THEN files \ {"macaroon"} ELSE files
  /\ UNCHANGED <<holds, changes, verif, poll, limited>>

-----------------------------------------------------------------------------
Verifies(v) == \/ ClientReady(v) \/ InfoAnswered(v) \/ AddAnswered(v) \/ CancelAnswered(v)
               \/ CapacityAnswered(v) \/ LndAnswers(v)
WalletCall(who) == WalletAnswered(who) \/ WalletAnswers(who)
Polling == Polls \/ LndAnswersPoll \/ PollAnswered

LndNext ==
  \/ InitClient \/ RetryInit \/ InitTimeout \/ Rechecks \/ Polling
  \/ UnlockerReady \/ MacaroonLoaded \/ MacaroonWritten \/ ServerChanges
  \/ \E v \in Verifiers : Verifies(v) \/ CapacityTimeout(v)
  \/ \E who \in {"user", "auto"} : WalletCall(who)
  \/ \E op \in {"unlock", "init", "change"} : UserCalls(op)

LndSpec == LndInit /\ [][LndNext]_vars

\* The timers fire, lnd answers, and answers are handled.
LndFairSpec ==
  /\ LndSpec /\ WF_vars(InitClient \/ RetryInit) /\ WF_vars(Rechecks) /\ WF_vars(Polling)
  /\ WF_vars(UnlockerReady) /\ WF_vars(MacaroonLoaded) /\ WF_vars(MacaroonWritten)
  /\ \A v \in Verifiers : WF_vars(Verifies(v))
  /\ \A who \in {"user", "auto"} : WF_vars(WalletCall(who))

busy == {v \in Verifiers : verif[v] # Idle}

(* A client that waits to be unlocked can be: it has its client of          *)
(* WalletUnlocker, without which unlockWallet and initWallet reject and     *)
(* verifyConnection returns at once, so that it would wait for ever.  Only  *)
(* while a verification that has found lnd unlocked checks the invoices is  *)
(* there none; it takes the client to another status.                       *)
LockedCanUnlock ==
  client.status = "WaitingUnlock" /\ ~client.walletUnlocker
    => \E v \in busy : verif[v].at \in {"add", "cancel"}

(* A loss of lnd is noticed, by the calls of updateCapacity if by no other: *)
(* it does not stay ConnectionVerified, the status in which swaps are       *)
(* accepted.  The exception is a client that lost its connection while      *)
(* setConnected waited for the capacity: disconnect has closed the          *)
(* LightningClient, and then the status is set all the same.                *)
LossNoticed ==
  <>[](server = "down")
    => <>[](client.status = "ConnectionVerified" => client.lightning = NoClient)

\* Where a client stays although lnd is ready.
DeadEnd ==
  \/ client.status \in {"Misconfigured", "NoHoldInvoiceSupport", "WaitingUnlock"}
  \/ client.status = "Initialized" /\ busy = {}
  \/ ~client.macaroon

(* When lnd is ready for good, whatever it did before and in whichever      *)
(* order the calls under way are answered, the client becomes               *)
(* ConnectionVerified, or else ends in one of the statuses that nothing     *)
(* rechecks: no other way to stay disconnected, as the message of           *)
(* verifyConnection "retrying in 5000 ms" promises.                         *)
ComesBack ==
  <>[](server = "ready") => <>[](client.status = "ConnectionVerified" \/ DeadEnd)
=============================================================================
