------------------------------ MODULE Lnd_proofs ------------------------------
(***************************************************************************)
(* Proofs about xud's connection with one lnd: its type invariant, and     *)
(* that a client that waits to be unlocked can be, however lnd changes and *)
(* however often.                                                          *)
(***************************************************************************)
EXTENDS LndClient, TLAPS

-----------------------------------------------------------------------------
(* The inductive invariant.  Its parts are about a client c and whether the *)
(* wallet has been created, so that they can be stated of what a step makes *)
(* of the client.                                                          *)

Callers == {"user", "auto"}
Calls == [at : {"idle", "unlock", "init", "change", "watching"},
          ans : {"none", "sent", "wrong", "not_found"} \cup Answers]
Verifs == [at : {"idle", "ready", "info", "add", "cancel", "capacity"},
           ans : {"none", "sent"} \cup Answers]

\* Where awaitWalletInit waits for initWallet: no macaroon is watched for yet,
\* and the wallet is there only if the answer to initWallet is still to come.
WaitsForWallet(c, created) ==
  /\ c.waiter = "wallet" =>
       /\ c.watch = "no" /\ ~c.macaroon /\ c.initResolve
       /\ created => c.calls["user"] = [at |-> "init", ans |-> "ok"]
  /\ c.calls["user"].at = "change" /\ c.calls["user"].ans \in {"ok", "unimplemented"} => created

\* Only calls have answers, and only the wallet's owner creates one.
CallsInv(c) ==
  /\ \A who \in Callers : c.calls[who].ans = "sent" => c.calls[who].at \in {"unlock", "init", "change"}
  /\ c.calls["auto"].at \in {"idle", "unlock"}

\* Of a client at any time.
ClientInv(c, created) ==
  /\ c \in Clients
  /\ c.status = "WaitingUnlock" => c.lightning = NoClient
  /\ c.retry => c.status = "Misconfigured"
  /\ c.watch # "no" => ~c.macaroon
  /\ WaitsForWallet(c, created) /\ CallsInv(c)

\* It has been initialized, and does not wait for its client of WalletUnlocker.
Running(c) == isOperational(c) /\ c.waiter # "client"

Unlockable(c) == c.status = "WaitingUnlock" => c.walletUnlocker

\* Before that, nothing is under way.
Starting ==
  /\ verif = [v \in Verifiers |-> Idle] /\ poll = "none"
  /\ client.calls = [who \in Callers |-> Idle] /\ client.watch = "no"
  /\ \/ /\ client.status \in {"NotInitialized", "Misconfigured"}
        /\ client.waiter = "no" /\ ~client.initResolve
        /\ "macaroon" \in files <=> wallet
     \/ /\ client.status = "Initialized"
        /\ client.waiter = "client" /\ ~client.macaroon /\ ~wallet

ServerInv ==
  /\ server \in Servers /\ holds \in BOOLEAN /\ wallet \in BOOLEAN
  /\ files \subseteq {"cert", "macaroon"} /\ changes \in 0 .. MaxChanges
  /\ ~wallet => server \in {"down", "locked"}

checking == \E v \in Verifiers : verif[v].at \in {"add", "cancel"}

LndIInv ==
  /\ ServerInv
  /\ verif \in [Verifiers -> Verifs] /\ poll \in {"none", "sent"} \cup Answers /\ limited \in BOOLEAN
  /\ ClientInv(client, wallet)
  /\ Running(client) \/ Starting
  /\ Unlockable(client) \/ checking

-----------------------------------------------------------------------------
(* What the operations of the client keep *)

LEMMA SetStatus ==
  ASSUME NEW c \in Clients, NEW s \in ClientStatus
  PROVE  /\ setStatus(c, s) \in Clients
         /\ setStatus(c, s) = c \/ setStatus(c, s) = [c EXCEPT !.status = s]
BY DEF setStatus, Clients

LEMMA LockTyped ==
  ASSUME NEW c \in Clients
  PROVE  lock(c) \in Clients
BY DEF Clients, lock, setStatus, validStatusTransition, Sent, Answers, Idle, ClientStatus, isOperational

LEMMA GoneTyped ==
  ASSUME NEW c \in Clients, NEW watch \in {"no", "waiting", "seen"},
         NEW waiter \in {"no", "client", "wallet", "macaroon"}, NEW call \in Calls
  PROVE  [c EXCEPT !.lightning = NoClient, !.invoices = FALSE, !.initResolve = FALSE, !.retry = FALSE,
                   !.watch = watch, !.waiter = waiter, !.calls["user"] = call] \in Clients
BY DEF Clients, Calls

LEMMA AwaitTyped ==
  ASSUME NEW c \in Clients
  PROVE  awaitWalletInit(c) \in Clients
BY DEF Clients, awaitWalletInit, watchMacaroon

\* A client in use, before and after.
Good(c, created) == ClientInv(c, created) /\ Running(c)

LEMMA SetStatusGood ==
  ASSUME NEW c, NEW created \in BOOLEAN, Good(c, created),
         NEW s \in {"Disconnected", "ConnectionVerified", "OutOfSync", "NoHoldInvoiceSupport", "Unlocked", "Misconfigured"}
  PROVE  /\ Good(setStatus(c, s), created)
         /\ Unlockable(c) => Unlockable(setStatus(c, s))
         /\ s \notin {"Unlocked", "Misconfigured"} => setStatus(c, s).status = s
<1>1. setStatus(c, s) \in Clients
  BY SetStatus DEF Good, ClientInv, ClientStatus
<1>2. CASE setStatus(c, s) = c
  BY <1>2 DEF Good, Running, setStatus, validStatusTransition, isOperational
<1>3. CASE setStatus(c, s) = [c EXCEPT !.status = s] /\ validStatusTransition(c, s)
  BY <1>1, <1>3 DEF Good, ClientInv, CallsInv, WaitsForWallet, Running, Unlockable, isOperational, Clients, validStatusTransition
<1> QED BY <1>2, <1>3 DEF setStatus

LEMMA LockGood ==
  ASSUME NEW c, NEW created \in BOOLEAN, Good(c, created)
  PROVE  Good(lock(c), created) /\ Unlockable(lock(c))
<1>1. lock(c) \in Clients
  BY LockTyped DEF Good, ClientInv
<1>2. /\ lock(c).status = "WaitingUnlock" /\ lock(c).lightning = NoClient /\ lock(c).walletUnlocker
      /\ lock(c).retry = c.retry /\ lock(c).watch = c.watch /\ lock(c).macaroon = c.macaroon
      /\ lock(c).waiter = c.waiter /\ lock(c).initResolve = c.initResolve
      /\ lock(c).calls["user"] = c.calls["user"]
  BY DEF Good, ClientInv, Clients, Running, lock, setStatus, validStatusTransition, isOperational
<1>3. CallsInv(lock(c))
  <2>1. \/ lock(c).calls = c.calls
        \/ lock(c).calls = [c.calls EXCEPT !["auto"] = Sent("unlock")]
    BY DEF Good, ClientInv, Clients, lock, setStatus
  <2> QED BY <2>1 DEF Good, ClientInv, Clients, CallsInv, Callers, Sent
<1> QED BY <1>1, <1>2, <1>3 DEF Good, ClientInv, WaitsForWallet, Running, Unlockable, isOperational

LEMMA SetUnlockedGood ==
  ASSUME NEW c, NEW created \in BOOLEAN, Good(c, created)
  PROVE  Good(setUnlocked(c), created) /\ Unlockable(setUnlocked(c))
<1> DEFINE d == [c EXCEPT !.walletUnlocker = FALSE]
<1>1. Good(d, created) /\ d.status = c.status
  BY DEF Good, ClientInv, CallsInv, WaitsForWallet, Clients, Running, isOperational
<1>2. setUnlocked(c) = setStatus(d, "Unlocked")
  BY DEF setUnlocked
<1>3. setStatus(d, "Unlocked").status # "WaitingUnlock"
  BY <1>1 DEF Good, ClientInv, Clients, setStatus, validStatusTransition
<1> QED BY <1>1, <1>2, <1>3, SetStatusGood DEF Unlockable

LEMMA DisconnectGood ==
  ASSUME NEW c, NEW created \in BOOLEAN, Good(c, created)
  PROVE  Good(disconnect(c), created) /\ Unlockable(disconnect(c)) /\ disconnect(c).status = "Disconnected"
<1> DEFINE changing == c.watch = "waiting" /\ c.calls["user"].at = "watching"
          d == setStatus(c, "Disconnected")
          gone == [d EXCEPT
                 !.lightning = NoClient, !.invoices = FALSE, !.initResolve = FALSE, !.retry = FALSE,
                 !.watch = IF @ = "waiting" THEN "no" ELSE @,
                 !.waiter = IF @ = "wallet" \/ (@ = "macaroon" /\ c.watch = "waiting") THEN "no" ELSE @,
                 !.calls["user"] = IF changing THEN Idle ELSE @]
<1>1. Good(d, created) /\ d.status = "Disconnected"
  BY SetStatusGood
<1>2. Good(gone, created) /\ gone.status = "Disconnected"
  <2> HIDE DEF d
  <2> DEFINE watch == IF d.watch = "waiting" THEN "no" ELSE d.watch
             waiter == IF d.waiter = "wallet" \/ (d.waiter = "macaroon" /\ c.watch = "waiting") THEN "no" ELSE d.waiter
             call == IF changing THEN Idle ELSE d.calls["user"]
  <2>1. gone \in Clients
    <3>1. /\ watch \in {"no", "waiting", "seen"} /\ call \in Calls
          /\ waiter \in {"no", "client", "wallet", "macaroon"}
      BY <1>1, SMTT(30) DEF Good, ClientInv, Clients, Calls, Idle
    <3> HIDE DEF watch, waiter, call
    <3>2. [d EXCEPT !.lightning = NoClient, !.invoices = FALSE, !.initResolve = FALSE, !.retry = FALSE,
                    !.watch = watch, !.waiter = waiter, !.calls["user"] = call] \in Clients
      BY <1>1, <3>1, GoneTyped DEF Good, ClientInv
    <3> QED BY <3>2 DEF watch, waiter, call
  <2>2. /\ gone.status = "Disconnected" /\ gone.lightning = NoClient /\ gone.retry = FALSE
        /\ gone.macaroon = d.macaroon /\ gone.watch \in {"no", d.watch}
        /\ gone.waiter \in {"no", d.waiter} \ {"wallet"}
        /\ gone.calls["user"] \in {Idle, d.calls["user"]}
    BY <1>1 DEF Good, ClientInv, Clients
  <2> QED BY <1>1, <2>1, <2>2 DEF Good, ClientInv, CallsInv, WaitsForWallet, Running, isOperational, Idle
<1>3. Good(setUnlocked(gone), created) /\ setUnlocked(gone).status = "Disconnected"
  <2> HIDE DEF gone
  <2>1. [gone EXCEPT !.walletUnlocker = FALSE].status = "Disconnected"
    BY <1>2 DEF Good, ClientInv, Clients
  <2> QED BY <1>2, <2>1, SetUnlockedGood DEF setUnlocked, setStatus, validStatusTransition
<1>4. disconnect(c) = IF changing THEN setUnlocked(gone) ELSE gone
  BY DEF disconnect
<1> QED BY <1>2, <1>3, <1>4 DEF Unlockable

LEMMA HandledGood ==
  ASSUME NEW c, NEW created \in BOOLEAN, Good(c, created), NEW ans
  PROVE  /\ Good(handled(c, ans), created)
         /\ Unlockable(c) \/ ans = "unavailable" => Unlockable(handled(c, ans))
BY LockGood, DisconnectGood DEF handled

LEMMA NoInvoicesGood ==
  ASSUME NEW c, NEW created \in BOOLEAN, Good(c, created), NEW ans
  PROVE  Good(noInvoices(c, ans), created) /\ Unlockable(noInvoices(c, ans))
BY HandledGood, SetStatusGood DEF noInvoices, Unlockable

LEMMA ConnectedGood ==
  ASSUME NEW c, NEW created \in BOOLEAN, Good(c, created)
  PROVE  Good(connected(c), created) /\ Unlockable(connected(c))
BY SetStatusGood DEF connected, Unlockable

\* When awaitWalletInit has nothing but the wallet or the macaroon to wait for.
LEMMA AwaitGood ==
  ASSUME NEW c, NEW created \in BOOLEAN, Good(c, created), ~c.macaroon, c.status \in rechecked
  PROVE  /\ Good(awaitWalletInit(c), created)
         /\ Unlockable(c) => Unlockable(awaitWalletInit(c))
<1>1. awaitWalletInit(c) \in Clients
  BY AwaitTyped DEF Good, ClientInv
<1>2. CASE awaitWalletInit(c) = c
  BY <1>2
<1>3. CASE awaitWalletInit(c) # c
  <2>1. ~c.initResolve
    BY <1>3 DEF awaitWalletInit
  <2>2. awaitWalletInit(c) = watchMacaroon([c EXCEPT !.waiter = "macaroon"])
    BY <1>3 DEF awaitWalletInit, rechecked
  <2> QED BY <1>1, <2>1, <2>2 DEF Good, ClientInv, CallsInv, WaitsForWallet, Running, isOperational, Unlockable, Clients, watchMacaroon
<1> QED BY <1>2, <1>3

-----------------------------------------------------------------------------
(* The steps *)

LEMMA InUse ==
  ASSUME LndIInv,
         \/ \E v \in Verifiers : verif[v] # Idle
         \/ poll # "none" \/ client.watch # "no"
         \/ \E who \in Callers : client.calls[who] # Idle
         \/ client.status \notin {"NotInitialized", "Initialized", "Misconfigured"}
  PROVE  Good(client, wallet)
BY DEF LndIInv, Good, Starting

LEMMA Keeps ==
  ASSUME ServerInv', Good(client', wallet'), limited' \in BOOLEAN,
         verif' \in [Verifiers -> Verifs], poll' \in {"none", "sent"} \cup Answers,
         Unlockable(client') \/ checking'
  PROVE  LndIInv'
BY DEF LndIInv, Good

\* Steps of the client alone.
LEMMA ClientStepInv ==
  ASSUME LndIInv, Good(client', wallet), UNCHANGED lndVars, limited' \in BOOLEAN,
         verif' \in [Verifiers -> Verifs], poll' \in {"none", "sent"} \cup Answers,
         Unlockable(client') \/ checking'
  PROVE  LndIInv'
<1>1. ServerInv' /\ wallet' = wallet
  BY DEF LndIInv, ServerInv, lndVars
<1> QED BY <1>1, Keeps

LEMMA VerifyInv ==
  ASSUME LndIInv, NEW v \in Verifiers, NEW c, Good(c, wallet), Unlockable(c) \/ checking,
         c.macaroon \/ c.status \in rechecked,
         verifyConnection(v, c), UNCHANGED <<lndVars, poll, limited>>
  PROVE  LndIInv'
<1>1. verif \in [Verifiers -> Verifs] /\ poll \in {"none", "sent"} \cup Answers /\ limited \in BOOLEAN
  BY DEF LndIInv
<1>2. CASE c.status = "WaitingUnlock"
  <2>1. client' = c /\ UNCHANGED verif
    BY <1>2 DEF verifyConnection
  <2> QED BY <1>1, <2>1, ClientStepInv DEF checking
<1>3. CASE c.status # "WaitingUnlock" /\ ~c.macaroon
  <2>1. client' = awaitWalletInit(c) /\ UNCHANGED verif
    BY <1>3 DEF verifyConnection
  <2>2. wallet \in BOOLEAN
    BY DEF LndIInv, ServerInv
  <2>3. Unlockable(c) /\ c.status \in rechecked
    BY <1>3 DEF Unlockable
  <2>4. Good(client', wallet) /\ Unlockable(client')
    BY <1>3, <2>1, <2>2, <2>3, AwaitGood
  <2> QED BY <1>1, <2>1, <2>4, ClientStepInv
<1>4. CASE c.status # "WaitingUnlock" /\ c.macaroon
  <2>1. /\ client' = [c EXCEPT !.lightning = v]
        /\ verif' = [verif EXCEPT ![v] = [at |-> "ready", ans |-> "none"]]
    BY <1>4 DEF verifyConnection
  <2>2. client' \in Clients
    BY <2>1 DEF Good, ClientInv, Clients
  <2>3. Good(client', wallet) /\ Unlockable(client')
    BY <1>4, <2>1, <2>2 DEF Good, ClientInv, CallsInv, WaitsForWallet, Running, Unlockable, Clients, isOperational
  <2>4. verif' \in [Verifiers -> Verifs]
    BY <1>1, <2>1 DEF Verifs
  <2> QED BY <1>1, <2>3, <2>4, ClientStepInv
<1> QED BY <1>2, <1>3, <1>4

LEMMA InitClientInv == ASSUME LndIInv, InitClient PROVE LndIInv'
<1> DEFINE c == setStatus([client EXCEPT !.macaroon = "macaroon" \in files], "Initialized")
<1>1. client.status = "NotInitialized" /\ client \in Clients /\ ServerInv /\ ClientInv(client, wallet)
  BY DEF InitClient, LndIInv, ClientInv
<1>2. Starting /\ client.waiter = "no" /\ ~client.initResolve /\ ("macaroon" \in files <=> wallet) /\ ~client.retry
  BY <1>1 DEF LndIInv, Running, isOperational, Starting, ClientInv
<1>3. CASE "cert" \in files
  <2>1. c = [client EXCEPT !.macaroon = ("macaroon" \in files), !.status = "Initialized"]
    BY <1>1 DEF setStatus, validStatusTransition, Clients
  <2>2. c \in Clients
    <3>1. ("macaroon" \in files) \in BOOLEAN
      OBVIOUS
    <3> QED BY <1>1, <2>1, <3>1 DEF Clients, ClientStatus
  <2>3. CASE wallet
    <3>1. c.macaroon /\ c.status = "Initialized" /\ Good(c, wallet)
      <4>1. /\ c.macaroon /\ c.status = "Initialized" /\ c.calls = client.calls
            /\ c.retry = client.retry /\ c.watch = client.watch /\ c.waiter = client.waiter
        BY <1>1, <1>2, <2>1, <2>3 DEF Clients
      <4>2. CallsInv(c) /\ WaitsForWallet(c, wallet)
        BY <1>1, <1>2, <4>1 DEF ClientInv, CallsInv, WaitsForWallet
      <4> HIDE DEF c
      <4> QED BY <1>2, <2>2, <4>1, <4>2 DEF Starting, Good, ClientInv, Running, isOperational
    <3>2. /\ client' = [c EXCEPT !.lightning = "init"]
          /\ verif' = [verif EXCEPT !["init"] = [at |-> "ready", ans |-> "none"]] /\ limited' = TRUE
          /\ UNCHANGED <<lndVars, poll>>
      BY <1>3, <3>1 DEF InitClient, verifyConnection
    <3>3. client' \in Clients
      BY <2>2, <3>2 DEF Clients, Verifiers
    <3>4. Good(client', wallet) /\ Unlockable(client')
      BY <2>2, <3>1, <3>2, <3>3 DEF Good, ClientInv, CallsInv, WaitsForWallet, Running, Unlockable, Clients, isOperational
    <3>5. verif' \in [Verifiers -> Verifs] /\ poll' \in {"none", "sent"} \cup Answers
      BY <3>2 DEF LndIInv, Verifs, Verifiers
    <3> QED BY <3>2, <3>4, <3>5, ClientStepInv
  <2>4. CASE ~wallet
    <3>1. ~c.macaroon /\ c.status = "Initialized" /\ ~c.initResolve
      BY <1>1, <1>2, <2>1, <2>4 DEF Clients
    <3>2. /\ client' = [c EXCEPT !.walletUnlocker = TRUE, !.waiter = "client"]
          /\ UNCHANGED verif /\ limited' = TRUE /\ UNCHANGED <<lndVars, poll>>
      BY <1>3, <3>1 DEF InitClient, verifyConnection, awaitWalletInit
    <3>3. client' \in Clients
      BY <2>2, <3>2 DEF Clients
    <3>4. ClientInv(client', wallet) /\ Unlockable(client')
      <4>1. CallsInv(client') /\ WaitsForWallet(client', wallet)
        <5>1. client'.calls = client.calls /\ client'.waiter = "client"
          BY <1>1, <2>1, <2>2, <3>2 DEF Clients
        <5> QED BY <1>1, <5>1 DEF ClientInv, CallsInv, WaitsForWallet
      <4> QED BY <1>1, <1>2, <2>1, <2>2, <2>4, <3>1, <3>2, <3>3, <4>1 DEF Starting, ClientInv, Unlockable, Clients
    <3>5. Starting'
      BY <1>1, <1>2, <2>1, <2>4, <3>1, <3>2 DEF Starting, Clients, lndVars, Callers
    <3> QED BY <1>1, <3>2, <3>4, <3>5 DEF LndIInv, ServerInv, lndVars
  <2> QED BY <1>1, <2>3, <2>4 DEF ServerInv
<1>4. CASE "cert" \notin files
  <2>1. client' = [setStatus(client, "Misconfigured") EXCEPT !.retry = TRUE] /\ UNCHANGED <<verif, limited, lndVars, poll>>
    BY <1>4 DEF InitClient
  <2>2. client' = [client EXCEPT !.status = "Misconfigured", !.retry = TRUE]
    BY <1>1, <2>1 DEF setStatus, validStatusTransition, Clients
  <2>3. client' \in Clients
    BY <1>1, <2>2 DEF Clients, ClientStatus
  <2>4. ClientInv(client', wallet) /\ Unlockable(client')
    BY <1>1, <1>2, <2>2, <2>3 DEF Starting, ClientInv, CallsInv, WaitsForWallet, Unlockable, Clients
  <2>5. Starting'
    BY <1>1, <1>2, <2>1, <2>2 DEF Starting, Clients, lndVars
  <2> QED BY <1>1, <2>1, <2>4, <2>5 DEF LndIInv, ServerInv, lndVars
<1> QED BY <1>3, <1>4

LEMMA RetryInitInv == ASSUME LndIInv, RetryInit PROVE LndIInv'
<1>1. /\ client.status = "Misconfigured" /\ ClientInv(client, wallet) /\ ServerInv /\ client \in Clients
      /\ client' = [client EXCEPT !.retry = FALSE, !.macaroon = ("macaroon" \in files)]
      /\ UNCHANGED <<lndVars, verif, poll, limited>>
  BY DEF LndIInv, ClientInv, RetryInit
<1>2. Starting /\ client.waiter = "no" /\ ~client.initResolve /\ ("macaroon" \in files <=> wallet)
  BY <1>1 DEF LndIInv, Running, isOperational, Starting
<1>3. client' \in Clients
  <2>1. ("macaroon" \in files) \in BOOLEAN
    OBVIOUS
  <2> QED BY <1>1, <2>1 DEF Clients
<1>4. ClientInv(client', wallet) /\ Unlockable(client')
  BY <1>1, <1>2, <1>3 DEF Starting, ClientInv, CallsInv, WaitsForWallet, Unlockable, Clients
<1>5. Starting'
  BY <1>1, <1>2 DEF Starting, Clients, lndVars
<1> QED BY <1>1, <1>4, <1>5 DEF LndIInv, ServerInv, lndVars

LEMMA InitTimeoutInv == ASSUME LndIInv, InitTimeout PROVE LndIInv'
<1>1. Good(client, wallet) /\ wallet \in BOOLEAN /\ "init" \in Verifiers
  BY InUse DEF InitTimeout, Verifiers, LndIInv, ServerInv
<1>2. Good(client', wallet) /\ Unlockable(client')
  BY <1>1, SetStatusGood DEF InitTimeout, Unlockable
<1> QED BY <1>2, ClientStepInv DEF InitTimeout, LndIInv

LEMMA RechecksInv == ASSUME LndIInv, Rechecks PROVE LndIInv'
<1>1. Good(client, wallet)
  BY InUse DEF Rechecks, rechecked
<1> QED BY <1>1, VerifyInv DEF Rechecks, LndIInv, Verifiers

LEMMA PollingInv == ASSUME LndIInv, Polling PROVE LndIInv'
<1>1. wallet \in BOOLEAN /\ verif \in [Verifiers -> Verifs] /\ limited \in BOOLEAN
  BY DEF LndIInv, ServerInv
<1>2. CASE Polls
  <2>1. Good(client, wallet)
    BY <1>2, InUse DEF Polls
  <2> QED BY <1>1, <1>2, <2>1, ClientStepInv DEF Polls, LndIInv, checking
<1>3. CASE LndAnswersPoll
  <2>1. Good(client, wallet)
    BY <1>3, InUse DEF LndAnswersPoll
  <2>2. poll' \in Answers
    BY <1>3 DEF LndAnswersPoll, answers, Answers
  <2> QED BY <1>1, <1>3, <2>1, <2>2, ClientStepInv DEF LndAnswersPoll, LndIInv, checking
<1>4. CASE PollAnswered
  <2>1. Good(client, wallet)
    BY <1>4, InUse DEF PollAnswered, Answers
  <2>2. Good(client', wallet) /\ (Unlockable(client) => Unlockable(client'))
    BY <1>1, <1>4, <2>1, HandledGood DEF PollAnswered
  <2> QED BY <1>1, <1>4, <2>2, ClientStepInv DEF PollAnswered, LndIInv, checking
<1> QED BY <1>2, <1>3, <1>4 DEF Polling

LEMMA UnlockerReadyInv == ASSUME LndIInv, UnlockerReady PROVE LndIInv'
<1> DEFINE c == lock(client)
<1>1. /\ ClientInv(client, wallet) /\ client \in Clients /\ client.waiter = "client" /\ wallet \in BOOLEAN
      /\ Starting /\ client.status = "Initialized" /\ ~client.macaroon /\ ~wallet
  BY DEF UnlockerReady, LndIInv, ClientInv, ServerInv, Running, Starting
<1>2. c \in Clients
  BY <1>1, LockTyped
<1>3. /\ c.status = "WaitingUnlock" /\ c.lightning = NoClient /\ c.walletUnlocker
      /\ c.retry = client.retry /\ c.watch = "no" /\ ~c.macaroon /\ c.calls["user"] = Idle
  BY <1>1 DEF Clients, lock, setStatus, validStatusTransition, isOperational, Starting, Callers
<1>4. client' = [c EXCEPT !.waiter = "wallet", !.initResolve = TRUE] /\ UNCHANGED <<lndVars, verif, poll, limited>>
  BY DEF UnlockerReady
<1>5. client' \in Clients
  <2> HIDE DEF c
  <2> QED BY <1>2, <1>4 DEF Clients
<1>6. Good(client', wallet) /\ Unlockable(client')
  <2>1. CallsInv(c)
    <3>1. \/ c.calls = client.calls
          \/ c.calls = [client.calls EXCEPT !["auto"] = Sent("unlock")]
      BY <1>1 DEF Clients, lock, setStatus
    <3> QED BY <1>1, <3>1 DEF ClientInv, Clients, CallsInv, Callers, Sent
  <2> HIDE DEF c
  <2>2. CallsInv(client') /\ WaitsForWallet(client', wallet)
    BY <1>1, <1>2, <1>3, <1>4, <2>1 DEF CallsInv, WaitsForWallet, Clients, Idle
  <2> QED BY <1>1, <1>2, <1>3, <1>4, <1>5, <2>2 DEF ClientInv, Clients, Good, Running, Unlockable, isOperational
<1> QED BY <1>4, <1>6, ClientStepInv DEF LndIInv

\* The calls to WalletUnlocker, which change nothing else of the client.
LEMMA CallGood ==
  ASSUME NEW c, NEW created \in BOOLEAN, NEW later \in BOOLEAN, created => later, Good(c, created),
         NEW who \in Callers, NEW call \in Calls,
         call.ans = "sent" => call.at \in {"unlock", "init", "change"},
         who = "auto" => call.at \in {"idle", "unlock"},
         c.waiter = "wallet" /\ later => (IF who = "user" THEN call ELSE c.calls["user"]) = [at |-> "init", ans |-> "ok"],
         who = "user" => (call.at = "change" /\ call.ans \in {"ok", "unimplemented"} => later)
  PROVE  /\ Good([c EXCEPT !.calls[who] = call], later)
         /\ [c EXCEPT !.calls[who] = call].walletUnlocker = c.walletUnlocker
         /\ Unlockable(c) => Unlockable([c EXCEPT !.calls[who] = call])
<1> DEFINE d == [c EXCEPT !.calls[who] = call]
<1>1. d \in Clients
  BY DEF Good, ClientInv, Clients, Calls, Callers
<1>2. /\ d.status = c.status /\ d.lightning = c.lightning /\ d.walletUnlocker = c.walletUnlocker
      /\ d.retry = c.retry /\ d.watch = c.watch /\ d.macaroon = c.macaroon /\ d.waiter = c.waiter
      /\ d.initResolve = c.initResolve
      /\ \A any \in Callers : d.calls[any] = IF any = who THEN call ELSE c.calls[any]
  BY DEF Good, ClientInv, Clients, Callers
<1>3. "user" \in Callers /\ "auto" \in Callers
  BY DEF Callers
<1> HIDE DEF d
<1>4. CallsInv(d)
  BY <1>2, <1>3 DEF Good, ClientInv, CallsInv
<1>5. WaitsForWallet(d, later)
  BY <1>2, <1>3 DEF Good, ClientInv, WaitsForWallet
<1>6. Good(d, later) /\ (Unlockable(c) => Unlockable(d))
  BY <1>1, <1>2, <1>4, <1>5 DEF Good, ClientInv, Running, Unlockable, isOperational
<1> QED BY <1>2, <1>6 DEF d

LEMMA UserCallsInv ==
  ASSUME LndIInv, NEW op \in {"unlock", "init", "change"}, UserCalls(op)
  PROVE  LndIInv'
<1> DEFINE c == [client EXCEPT !.password = TRUE]
          call == IF client.walletUnlocker THEN Sent(op) ELSE Idle
<1>1. Good(client, wallet) /\ wallet \in BOOLEAN
  BY InUse DEF UserCalls, LndIInv, ServerInv
<1>2. client.calls["user"] = Idle /\ client.status = "WaitingUnlock"
  BY DEF UserCalls
<1>3. Good(c, wallet) /\ (Unlockable(client) => Unlockable(c)) /\ c.calls["user"] = Idle
  BY <1>1, <1>2 DEF Good, ClientInv, CallsInv, Clients, WaitsForWallet, Running, Unlockable, isOperational
<1>4. /\ call \in Calls /\ ~(call.ans \in {"ok", "unimplemented"})
      /\ call.ans = "sent" => call.at \in {"unlock", "init", "change"}
  BY DEF Calls, Sent, Idle
<1>5. ~(c.waiter = "wallet" /\ wallet)
  BY <1>3 DEF Good, ClientInv, CallsInv, WaitsForWallet, Idle
<1>6. client' = [c EXCEPT !.calls["user"] = call] /\ UNCHANGED <<lndVars, verif, poll, limited>>
  BY <1>1 DEF UserCalls, Good, ClientInv, Clients
<1> HIDE DEF c, call
<1>7. Good(client', wallet) /\ (Unlockable(client) => Unlockable(client'))
  BY <1>1, <1>3, <1>4, <1>5, <1>6, CallGood DEF Callers
<1> QED BY <1>6, <1>7, ClientStepInv DEF LndIInv, checking

LEMMA WalletAnswersInv ==
  ASSUME LndIInv, NEW who \in Callers, WalletAnswers(who)
  PROVE  LndIInv'
<1> DEFINE op == client.calls[who].at
<1>1. client.calls[who].ans = "sent" /\ Good(client, wallet)
  BY InUse DEF WalletAnswers, Idle
<1>2. PICK ans \in walletAnswers(op) :
        /\ client' = [client EXCEPT !.calls[who].ans = ans]
        /\ server' = IF ans = "ok" THEN "syncing" ELSE server
        /\ wallet' = (wallet \/ ans = "ok")
        /\ files' = IF ans = "ok" /\ op = "change" THEN files \ {"macaroon"} ELSE files
  BY DEF WalletAnswers
<1>3. UNCHANGED <<holds, changes, verif, poll, limited>>
  BY DEF WalletAnswers
<1>4. wallet \in BOOLEAN /\ wallet' \in BOOLEAN /\ (wallet => wallet') /\ ServerInv
  BY <1>2 DEF LndIInv, ServerInv
<1> DEFINE call == [at |-> op, ans |-> ans]
<1>5. client.calls[who] \in Calls /\ client \in Clients
  BY <1>1 DEF Good, ClientInv, Clients, Calls, Callers
<1>6. op \in {"unlock", "init", "change"} /\ (who = "auto" => op = "unlock")
  BY <1>1 DEF Good, ClientInv, CallsInv, Callers
<1>7. call \in Calls /\ call.ans # "sent" /\ (ans = "unimplemented" => wallet)
  BY <1>4, <1>6 DEF walletAnswers, Calls, Answers, ServerInv, Servers
<1>8. ~wallet /\ ans = "ok" => op = "init" /\ who = "user"
  BY <1>4, <1>6 DEF walletAnswers, ServerInv, Callers
<1>9. client' = [client EXCEPT !.calls[who] = call]
  BY <1>2, <1>5 DEF Clients, Callers, Calls
<1>10. client.waiter = "wallet" /\ wallet' =>
         (IF who = "user" THEN call ELSE client.calls["user"]) = [at |-> "init", ans |-> "ok"]
  <2>1. CASE wallet /\ client.waiter = "wallet"
    <3>1. client.calls["user"] = [at |-> "init", ans |-> "ok"]
      BY <1>1, <2>1 DEF Good, ClientInv, WaitsForWallet
    <3> QED BY <1>1, <3>1
  <2>2. CASE ~wallet /\ ans = "ok"
    BY <1>8, <2>2
  <2> QED BY <1>2, <2>1, <2>2
<1>11. Good(client', wallet') /\ (Unlockable(client) => Unlockable(client'))
  <2>1. call.at = op /\ call.ans = ans
    OBVIOUS
  <2>2. call.at = "change" /\ call.ans \in {"ok", "unimplemented"} => wallet'
    BY <1>2, <1>4, <1>7, <2>1
  <2> HIDE DEF call
  <2> QED BY <1>1, <1>4, <1>6, <1>7, <1>9, <1>10, <2>1, <2>2, CallGood
<1>12. ServerInv'
  BY <1>2, <1>3, <1>4 DEF ServerInv, Servers
<1> QED BY <1>3, <1>11, <1>12, Keeps DEF LndIInv, checking

LEMMA WalletAnsweredInv ==
  ASSUME LndIInv, NEW who \in Callers, WalletAnswered(who)
  PROVE  LndIInv'
<1> DEFINE call == client.calls[who]
          c == [client EXCEPT !.calls[who] = Idle]
<1>1. /\ call.at \in {"unlock", "init", "change"} /\ call.ans \notin {"none", "sent"}
      /\ UNCHANGED <<lndVars, verif, poll, limited>>
  BY DEF WalletAnswered
<1>2. Good(client, wallet) /\ wallet \in BOOLEAN
  BY <1>1, InUse DEF Idle, LndIInv, ServerInv
<1>3. Idle \in Calls /\ Idle.ans = "none" /\ Idle.at = "idle"
  BY DEF Idle, Calls
<1>4. SUFFICES Good(client', wallet) /\ (Unlockable(client) => Unlockable(client'))
  BY <1>1, ClientStepInv DEF LndIInv, checking
<1>5. c \in Clients /\ (c.waiter = "wallet" <=> client.waiter = "wallet") /\ c.calls[who] = Idle
  BY <1>2, <1>3 DEF Good, ClientInv, Clients, Calls, Callers
<1>6. ASSUME ~(who = "user" /\ client.waiter = "wallet" /\ wallet)
      PROVE  Good(c, wallet) /\ (Unlockable(client) => Unlockable(c))
  <2>1. client.waiter = "wallet" /\ wallet => who = "auto" /\ client.calls["user"] = [at |-> "init", ans |-> "ok"]
    BY <1>2, <1>6 DEF Good, ClientInv, WaitsForWallet, Callers
  <2> HIDE DEF c
  <2>2. "auto" # "user"
    OBVIOUS
  <2> QED BY <1>2, <1>3, <2>1, <2>2, CallGood DEF c
<1>7. client.waiter = "wallet" /\ wallet /\ who = "user" => call.at = "init" /\ call.ans = "ok"
  BY <1>2 DEF Good, ClientInv, WaitsForWallet
<1>8. CASE call.ans = "unavailable"
  <2>1. client' = disconnect(c)
    BY <1>8 DEF WalletAnswered
  <2> HIDE DEF c
  <2> QED BY <1>2, <1>6, <1>7, <1>8, <2>1, DisconnectGood
<1>9. CASE call.ans = "wrong"
  <2>1. client' = c
    BY <1>9 DEF WalletAnswered
  <2> HIDE DEF c
  <2> QED BY <1>6, <1>7, <1>9, <2>1
<1>10. CASE call.ans = "not_found"
  <2>1. client' = c \/ (who = "user" /\ client' = [c EXCEPT !.calls["user"] = Sent("init")])
    BY <1>10 DEF WalletAnswered
  <2>2. Good(c, wallet) /\ (Unlockable(client) => Unlockable(c))
    BY <1>6, <1>7, <1>10
  <2>3. Sent("init") \in Calls /\ Sent("init").at = "init"
    BY DEF Calls, Sent
  <2>4. who = "user" => ~(c.waiter = "wallet" /\ wallet)
    BY <1>5, <1>7, <1>10
  <2> HIDE DEF c
  <2> QED BY <1>2, <2>1, <2>2, <2>3, <2>4, CallGood DEF Callers
<1>11. CASE call.ans \in {"ok", "unimplemented"} /\ call.at = "unlock"
  <2>1. client' = setUnlocked(c)
    BY <1>11 DEF WalletAnswered
  <2> HIDE DEF c
  <2> QED BY <1>2, <1>6, <1>7, <1>11, <2>1, SetUnlockedGood
<1>12. CASE call.ans \in {"ok", "unimplemented"} /\ call.at = "init"
  <2>1. client' = setUnlocked(initResolved(c))
    BY <1>12 DEF WalletAnswered
  <2>2. CASE c.waiter # "wallet"
    <3>1. initResolved(c) = c
      BY <2>2 DEF initResolved
    <3> HIDE DEF c
    <3> QED BY <1>2, <1>5, <1>6, <2>1, <2>2, <3>1, SetUnlockedGood
  <2>3. CASE c.waiter = "wallet"
    <3> DEFINE d == [c EXCEPT !.waiter = "macaroon", !.watch = "waiting"]
    <3>1. initResolved(c) = d
      BY <1>5, <2>3 DEF initResolved, watchMacaroon, Clients
    <3>2. who = "user"
      BY <1>2, <1>12 DEF Good, ClientInv, CallsInv, Callers
    <3>3. /\ d \in Clients /\ d.status = client.status /\ d.lightning = client.lightning
          /\ d.retry = client.retry /\ ~d.macaroon /\ d.waiter = "macaroon" /\ d.watch = "waiting"
          /\ d.walletUnlocker = client.walletUnlocker
          /\ \A any \in Callers : d.calls[any] = IF any = who THEN Idle ELSE client.calls[any]
      BY <1>2, <1>5, <2>3 DEF Good, ClientInv, WaitsForWallet, Clients, Callers
    <3> HIDE DEF c, d
    <3>4. CallsInv(d) /\ WaitsForWallet(d, wallet)
      BY <1>2, <1>3, <3>2, <3>3 DEF Good, ClientInv, CallsInv, WaitsForWallet, Callers
    <3>5. Good(d, wallet)
      BY <1>2, <3>3, <3>4 DEF Good, ClientInv, Running, isOperational
    <3> QED BY <1>2, <2>1, <3>1, <3>5, SetUnlockedGood
  <2> QED BY <2>2, <2>3
<1>13. CASE call.ans \in {"ok", "unimplemented"} /\ call.at = "change"
  <2> DEFINE watching == [at |-> "watching", ans |-> "none"]
            d == [c EXCEPT !.macaroon = FALSE, !.calls["user"] = watching, !.watch = "waiting"]
  <2>1. client' = d
    BY <1>5, <1>13 DEF WalletAnswered, watchMacaroon, Clients
  <2>2. who = "user"
    BY <1>2, <1>13 DEF Good, ClientInv, CallsInv, Callers
  <2>3. client.waiter # "wallet"
    BY <1>2, <1>7, <1>13, <2>2 DEF Good, ClientInv, WaitsForWallet
  <2>4. watching \in Calls /\ watching.at = "watching" /\ watching.ans = "none"
    BY DEF Calls
  <2> HIDE DEF watching
  <2>5. /\ d \in Clients /\ d.status = client.status /\ d.lightning = client.lightning
        /\ d.retry = client.retry /\ ~d.macaroon /\ d.waiter = client.waiter /\ d.watch = "waiting"
        /\ d.walletUnlocker = client.walletUnlocker
        /\ \A any \in Callers : d.calls[any] = IF any = who THEN watching ELSE client.calls[any]
    <3> DEFINE e == [c EXCEPT !.calls["user"] = watching]
    <3>1. /\ e \in Clients /\ e.status = client.status /\ e.lightning = client.lightning
          /\ e.retry = client.retry /\ e.waiter = client.waiter /\ e.walletUnlocker = client.walletUnlocker
      BY <1>2, <1>5, <2>4 DEF Good, ClientInv, Clients, Callers, Calls
    <3>2. \A any \in Callers : e.calls[any] = IF any = who THEN watching ELSE client.calls[any]
      BY <1>2, <1>5, <2>2 DEF Good, ClientInv, Clients, Callers
    <3>3. d = [e EXCEPT !.macaroon = FALSE, !.watch = "waiting"]
      BY <1>5, <2>4 DEF Clients
    <3> HIDE DEF c, d, e
    <3> QED BY <3>1, <3>2, <3>3 DEF Clients
  <2> HIDE DEF c, d
  <2>6. CallsInv(d) /\ WaitsForWallet(d, wallet)
    BY <1>2, <2>2, <2>3, <2>4, <2>5 DEF Good, ClientInv, CallsInv, WaitsForWallet, Callers
  <2>7. Good(d, wallet)
    BY <1>2, <2>5, <2>6 DEF Good, ClientInv, Running, isOperational
  <2> QED BY <2>1, <2>5, <2>7 DEF Unlockable
<1> QED BY <1>1, <1>8, <1>9, <1>10, <1>11, <1>12, <1>13 DEF WalletAnswered

LEMMA MacaroonLoadedInv == ASSUME LndIInv, MacaroonLoaded PROVE LndIInv'
<1> DEFINE c == loaded(client)
<1>1. client.watch = "seen" /\ Good(client, wallet) /\ wallet \in BOOLEAN /\ UNCHANGED <<lndVars, poll, limited>>
  BY InUse DEF MacaroonLoaded, LndIInv, ServerInv
<1>2. c = [client EXCEPT !.macaroon = TRUE, !.watch = "no"]
  BY DEF loaded
<1>3. client.waiter # "wallet"
  BY <1>1 DEF Good, ClientInv, WaitsForWallet
<1>4. /\ c \in Clients /\ c.status = client.status /\ c.lightning = client.lightning
      /\ c.retry = client.retry /\ c.macaroon /\ c.waiter = client.waiter /\ c.watch = "no"
      /\ c.walletUnlocker = client.walletUnlocker /\ c.calls = client.calls
  BY <1>1, <1>2 DEF Good, ClientInv, Clients
<1> HIDE DEF c
<1>5. Good(c, wallet) /\ c.waiter # "wallet" /\ (Unlockable(client) => Unlockable(c))
  BY <1>1, <1>3, <1>4 DEF Good, ClientInv, CallsInv, WaitsForWallet, Running, isOperational, Unlockable
<1>6. CASE verifyConnection("wallet", [c EXCEPT !.waiter = "no"])
  <2> DEFINE d == [c EXCEPT !.waiter = "no"]
  <2>1. /\ d \in Clients /\ d.status = c.status /\ d.lightning = c.lightning
        /\ d.retry = c.retry /\ d.macaroon /\ d.waiter = "no" /\ d.watch = "no"
        /\ d.walletUnlocker = c.walletUnlocker /\ d.calls = c.calls
    BY <1>4 DEF Clients
  <2> HIDE DEF d
  <2>2. Good(d, wallet) /\ (Unlockable(client) => Unlockable(d))
    BY <1>5, <2>1 DEF Good, ClientInv, CallsInv, WaitsForWallet, Running, isOperational, Unlockable
  <2>3. verifyConnection("wallet", d)
    BY <1>6 DEF d
  <2> QED BY <1>1, <2>1, <2>2, <2>3, VerifyInv DEF LndIInv, Verifiers
<1>7. CASE client' = setUnlocked([c EXCEPT !.calls["user"] = Idle]) /\ UNCHANGED verif
  <2> DEFINE d == [c EXCEPT !.calls["user"] = Idle]
  <2>1. Idle \in Calls /\ Idle.ans = "none" /\ Idle.at = "idle"
    BY DEF Idle, Calls
  <2>2. Good(d, wallet)
    BY <1>1, <1>5, <2>1, CallGood DEF Callers
  <2> HIDE DEF d
  <2>3. client' = setUnlocked(d)
    BY <1>7 DEF d
  <2>4. Good(client', wallet) /\ Unlockable(client')
    BY <1>1, <2>2, <2>3, SetUnlockedGood
  <2> QED BY <1>1, <1>7, <2>4, ClientStepInv DEF LndIInv
<1> QED BY <1>6, <1>7 DEF MacaroonLoaded, c

LEMMA MacaroonWrittenInv == ASSUME LndIInv, MacaroonWritten PROVE LndIInv'
<1>1. ServerInv /\ wallet /\ "macaroon" \notin files /\ files' = files \cup {"macaroon"}
      /\ client' = [client EXCEPT !.watch = IF @ = "waiting" THEN "seen" ELSE @]
      /\ UNCHANGED <<server, holds, wallet, changes, verif, poll, limited>>
  BY DEF MacaroonWritten, LndIInv, ServerInv
<1>2. Good(client, wallet)
  BY <1>1 DEF Good, LndIInv, Starting
<1>3. /\ client' \in Clients /\ client'.status = client.status /\ client'.lightning = client.lightning
      /\ client'.retry = client.retry /\ client'.macaroon = client.macaroon /\ client'.waiter = client.waiter
      /\ client'.watch = (IF client.watch = "waiting" THEN "seen" ELSE client.watch)
      /\ client'.walletUnlocker = client.walletUnlocker /\ client'.initResolve = client.initResolve
      /\ client'.calls = client.calls
  BY <1>1, <1>2 DEF Good, ClientInv, Clients
<1>4. Good(client', wallet) /\ (Unlockable(client) => Unlockable(client'))
  BY <1>2, <1>3 DEF Good, ClientInv, CallsInv, WaitsForWallet, Running, isOperational, Unlockable
<1>5. ServerInv'
  BY <1>1 DEF ServerInv
<1> QED BY <1>1, <1>4, <1>5, Keeps DEF LndIInv, checking

LEMMA ServerChangesInv == ASSUME LndIInv, ServerChanges PROVE LndIInv'
<1>1. ServerInv /\ ServerInv' /\ UNCHANGED <<holds, wallet, client, verif, poll, limited>>
  <2>1. changes' \in 0 .. MaxChanges
    BY LndAssumption DEF ServerChanges, LndIInv, ServerInv
  <2> QED BY <2>1 DEF ServerChanges, LndIInv, ServerInv, Servers
<1>2. ("macaroon" \in files' <=> "macaroon" \in files)
  BY DEF ServerChanges
<1>3. Starting => Starting'
  BY <1>1, <1>2 DEF Starting
<1> QED BY <1>1, <1>3 DEF LndIInv, checking

-----------------------------------------------------------------------------
(* The steps of a verification *)

\* A verification that goes on, in another step or with an answer.
LEMMA GoesOnInv ==
  ASSUME LndIInv, NEW v \in Verifiers, NEW now \in Verifs, verif' = [verif EXCEPT ![v] = now],
         Good(client', wallet), Unlockable(client) => Unlockable(client'),
         \/ Unlockable(client') \/ now.at \in {"add", "cancel"}
         \/ verif[v].at \notin {"add", "cancel"},
         poll' \in {"none", "sent"} \cup Answers, limited' = limited, UNCHANGED lndVars
  PROVE  LndIInv'
<1>1. verif' \in [Verifiers -> Verifs] /\ limited' \in BOOLEAN
  BY DEF LndIInv
<1>2. Unlockable(client') \/ checking'
  BY <1>1 DEF LndIInv, checking
<1> QED BY <1>1, <1>2, ClientStepInv

LEMMA VerifiesInv ==
  ASSUME LndIInv, NEW v \in Verifiers, Verifies(v)
  PROVE  LndIInv'
<1>1. /\ verif \in [Verifiers -> Verifs] /\ poll \in {"none", "sent"} \cup Answers /\ wallet \in BOOLEAN
      /\ limited \in BOOLEAN /\ verif[v] \in Verifs
  BY DEF LndIInv, ServerInv
<1>2. Idle \in Verifs /\ \A step \in {"info", "add", "cancel", "capacity"} :
        Sent(step) \in Verifs /\ Sent(step).at = step
  BY DEF Idle, Sent, Verifs
<1>3. Good(client, wallet)
  <2>1. verif[v].at \in {"ready", "info", "add", "cancel", "capacity"} \/ verif[v].ans = "sent"
    BY DEF Verifies, ClientReady, InfoAnswered, AddAnswered, CancelAnswered, CapacityAnswered, answered, LndAnswers
  <2>2. verif[v] # Idle
    BY <2>1 DEF Idle
  <2> QED BY <2>2, InUse
<1>4. CASE ClientReady(v)
  <2>1. UNCHANGED <<lndVars, poll, limited, client>> /\ verif[v].at = "ready"
    BY <1>4 DEF ClientReady, goes, ends
  <2>2. verif' = [verif EXCEPT ![v] = Sent("info")] \/ verif' = [verif EXCEPT ![v] = Idle]
    BY <1>4 DEF ClientReady, goes, ends
  <2> QED BY <1>1, <1>2, <1>3, <2>1, <2>2, GoesOnInv
<1>5. CASE InfoAnswered(v)
  <2>1. UNCHANGED <<lndVars, poll, limited>> /\ verif[v].at = "info"
    BY <1>5 DEF InfoAnswered, answered
  <2>2. CASE verif[v].ans = "ok"
    <3>1. PICK switched \in BOOLEAN :
             goes(v, [(IF switched THEN setStatus(client, "Misconfigured") ELSE client)
                        EXCEPT !.walletUnlocker = FALSE, !.invoices = TRUE], "add")
      BY <1>5, <2>2 DEF InfoAnswered
    <3> DEFINE c == IF switched THEN setStatus(client, "Misconfigured") ELSE client
    <3>2. Good(c, wallet)
      BY <1>1, <1>3, SetStatusGood
    <3>3. client' = [c EXCEPT !.walletUnlocker = FALSE, !.invoices = TRUE] /\ verif' = [verif EXCEPT ![v] = Sent("add")]
      BY <3>1 DEF goes
    <3> HIDE DEF c
    <3>4. /\ client' \in Clients /\ client'.status = c.status /\ client'.lightning = c.lightning
          /\ client'.retry = c.retry /\ client'.macaroon = c.macaroon /\ client'.waiter = c.waiter
          /\ client'.watch = c.watch /\ client'.initResolve = c.initResolve /\ client'.calls = c.calls
      BY <3>2, <3>3 DEF Good, ClientInv, Clients
    <3>5. Good(client', wallet)
      BY <3>2, <3>4 DEF Good, ClientInv, CallsInv, WaitsForWallet, Running, isOperational
    <3>6. verif' \in [Verifiers -> Verifs] /\ checking'
      BY <1>1, <1>2, <3>3 DEF checking
    <3> QED BY <1>1, <2>1, <3>5, <3>6, ClientStepInv
  <2>3. CASE verif[v].ans = "syncing"
    <3>1. client' = setStatus(client, "OutOfSync") /\ verif' = [verif EXCEPT ![v] = Idle]
      BY <1>5, <2>3 DEF InfoAnswered, ends
    <3>2. Good(client', wallet) /\ (Unlockable(client) => Unlockable(client'))
      BY <1>1, <1>3, <3>1, SetStatusGood
    <3> QED BY <1>1, <1>2, <2>1, <3>1, <3>2, GoesOnInv
  <2>4. CASE verif[v].ans \notin {"ok", "syncing"}
    <3>1. client' = handled(client, verif[v].ans) /\ verif' = [verif EXCEPT ![v] = Idle]
      BY <1>5, <2>4 DEF InfoAnswered, ends
    <3>2. Good(client', wallet) /\ (Unlockable(client) => Unlockable(client'))
      BY <1>1, <1>3, <3>1, HandledGood
    <3> QED BY <1>1, <1>2, <2>1, <3>1, <3>2, GoesOnInv
  <2> QED BY <2>2, <2>3, <2>4
<1>6. CASE AddAnswered(v)
  <2>1. UNCHANGED <<lndVars, poll, limited>>
    BY <1>6 DEF AddAnswered
  <2>2. CASE client' = client /\ verif' = [verif EXCEPT ![v] = Sent("cancel")]
    BY <1>1, <1>2, <1>3, <2>1, <2>2, GoesOnInv
  <2>3. CASE \E ans : client' = noInvoices(client, ans) /\ verif' = [verif EXCEPT ![v] = Idle]
    <3>1. Good(client', wallet) /\ Unlockable(client')
      BY <1>1, <1>3, <2>3, NoInvoicesGood
    <3> QED BY <1>1, <1>2, <2>1, <2>3, <3>1, GoesOnInv
  <2> QED BY <1>6, <2>2, <2>3 DEF AddAnswered, goes, ends
<1>7. CASE CancelAnswered(v)
  <2>1. UNCHANGED <<lndVars, poll, limited>>
    BY <1>7 DEF CancelAnswered
  <2>2. CASE reachable(client) /\ client' = client /\ verif' = [verif EXCEPT ![v] = Sent("capacity")]
    <3>1. Unlockable(client)
      BY <1>3, <2>2 DEF Good, ClientInv, reachable, Unlockable
    <3> QED BY <1>1, <1>2, <1>3, <2>1, <2>2, <3>1, GoesOnInv
  <2>3. CASE \E ans : client' = noInvoices(client, ans) /\ verif' = [verif EXCEPT ![v] = Idle]
    <3>1. Good(client', wallet) /\ Unlockable(client')
      BY <1>1, <1>3, <2>3, NoInvoicesGood
    <3> QED BY <1>1, <1>2, <2>1, <2>3, <3>1, GoesOnInv
  <2>4. CASE client' = connected(client) /\ verif' = [verif EXCEPT ![v] = Idle]
    <3>1. Good(client', wallet) /\ Unlockable(client')
      BY <1>1, <1>3, <2>4, ConnectedGood
    <3> QED BY <1>1, <1>2, <2>1, <2>4, <3>1, GoesOnInv
  <2> QED BY <1>7, <2>2, <2>3, <2>4 DEF CancelAnswered, goes, ends
<1>8. CASE CapacityAnswered(v)
  <2>1. /\ UNCHANGED <<lndVars, poll, limited>> /\ verif' = [verif EXCEPT ![v] = Idle]
        /\ client' = connected(handled(client, verif[v].ans))
    BY <1>8 DEF CapacityAnswered, ends
  <2>2. Good(client', wallet) /\ Unlockable(client')
    BY <1>1, <1>3, <2>1, HandledGood, ConnectedGood
  <2> QED BY <1>1, <1>2, <2>1, <2>2, GoesOnInv
<1>9. CASE LndAnswers(v)
  <2>1. PICK ans \in answers(verif[v].at) : verif' = [verif EXCEPT ![v].ans = ans]
    BY <1>9 DEF LndAnswers
  <2>2. UNCHANGED <<lndVars, client, poll, limited>>
    BY <1>9 DEF LndAnswers
  <2> DEFINE now == [at |-> verif[v].at, ans |-> ans]
  <2>3. ans \in Answers
    BY <2>1 DEF answers, Answers
  <2>4. now \in Verifs /\ now.at = verif[v].at /\ verif' = [verif EXCEPT ![v] = now]
    <3>1. now \in Verifs /\ now = [verif[v] EXCEPT !.ans = ans] /\ now.at = verif[v].at
      BY <1>1, <2>3 DEF Verifs
    <3> HIDE DEF now
    <3> QED BY <2>1, <3>1
  <2> HIDE DEF now
  <2> QED BY <1>1, <1>3, <2>2, <2>4, GoesOnInv
<1> QED BY <1>4, <1>5, <1>6, <1>7, <1>8, <1>9 DEF Verifies

LEMMA CapacityTimeoutInv ==
  ASSUME LndIInv, NEW v \in Verifiers, CapacityTimeout(v)
  PROVE  LndIInv'
<1>1. /\ Good(client, wallet) /\ wallet \in BOOLEAN /\ limited \in BOOLEAN
      /\ verif \in [Verifiers -> Verifs] /\ Idle \in Verifs
  BY InUse DEF CapacityTimeout, Sent, Idle, LndIInv, ServerInv, Verifs
<1>2. /\ client' = connected(client) /\ verif' = [verif EXCEPT ![v] = Idle] /\ poll' = "sent"
      /\ UNCHANGED <<lndVars, limited>>
  BY DEF CapacityTimeout, ends
<1>3. Good(client', wallet) /\ Unlockable(client')
  BY <1>1, <1>2, ConnectedGood
<1> QED BY <1>1, <1>2, <1>3, GoesOnInv

-----------------------------------------------------------------------------
(* The invariant, and what it says *)

LEMMA LndInitInv == LndInit => LndIInv
<1> SUFFICES ASSUME LndInit PROVE LndIInv
  OBVIOUS
<1>1. ServerInv
  BY LndAssumption DEF LndInit, ServerInv
<1>2. client \in Clients
  BY DEF LndInit, Clients, ClientStatus, Idle
<1>3. ClientInv(client, wallet)
  BY <1>2 DEF LndInit, ClientInv, CallsInv, WaitsForWallet, Callers, Idle
<1>4. Starting /\ Unlockable(client)
  BY DEF LndInit, Starting, Unlockable, Callers
<1> QED BY <1>1, <1>3, <1>4 DEF LndInit, LndIInv, Verifs, Idle

(***************************************************************************)
(* The inductive invariant.                                                *)
(***************************************************************************)
THEOREM LndInvariance == LndSpec => []LndIInv
<1>1. LndIInv /\ [LndNext]_vars => LndIInv'
  <2> SUFFICES ASSUME LndIInv, [LndNext]_vars PROVE LndIInv'
    OBVIOUS
  <2>1. CASE UNCHANGED vars
    BY <2>1 DEF vars, lndVars, LndIInv, ServerInv, Starting, checking
  <2>2. CASE LndNext
    BY <2>2, InitClientInv, RetryInitInv, InitTimeoutInv, RechecksInv, PollingInv, UnlockerReadyInv,
       MacaroonLoadedInv, MacaroonWrittenInv, ServerChangesInv, VerifiesInv, CapacityTimeoutInv,
       WalletAnsweredInv, WalletAnswersInv, UserCallsInv DEF LndNext, WalletCall, Callers
  <2> QED BY <2>1, <2>2
<1> QED BY LndInitInv, <1>1, PTL DEF LndSpec

(***************************************************************************)
(* The types, and no macaroon while one is watched for.                    *)
(***************************************************************************)
THEOREM LndTypeCorrect == LndSpec => []LndTypeOK
<1>1. LndIInv => LndTypeOK
  BY DEF LndIInv, ServerInv, ClientInv, LndTypeOK, Verifs
<1> QED BY <1>1, LndInvariance, PTL

(***************************************************************************)
(* A client that waits to be unlocked has its client of WalletUnlocker,    *)
(* whatever lnd, its owner and the verifications under way do.             *)
(***************************************************************************)
THEOREM LockedClientsCanUnlock == LndSpec => []LockedCanUnlock
<1>1. LndIInv => LockedCanUnlock
  BY DEF LndIInv, Unlockable, checking, LockedCanUnlock, busy, Idle
<1> QED BY <1>1, LndInvariance, PTL
===============================================================================
