------------------------------ MODULE SwapClient ------------------------------
(***************************************************************************)
(* The status of a swap client, and the steps from one to another that     *)
(* setStatus allows.  A client is a record with a field status.            *)
(***************************************************************************)

ClientStatus == {"NotInitialized", "Initialized", "Disabled", "Disconnected",
                 "ConnectionVerified", "OutOfSync", "WaitingUnlock", "Unlocked",
                 "Misconfigured", "NoHoldInvoiceSupport"}

isOperational(c) == c.status \notin {"Disabled", "Misconfigured", "NotInitialized"}

validStatusTransition(c, newStatus) ==
  CASE newStatus \in {"Disabled", "Misconfigured", "Initialized"} -> c.status = "NotInitialized"
    [] newStatus = "Unlocked" -> c.status = "WaitingUnlock"
    [] newStatus = "NotInitialized" -> FALSE
    [] OTHER -> isOperational(c)

setStatus(c, newStatus) ==
  IF validStatusTransition(c, newStatus) THEN [c EXCEPT !.status = newStatus] ELSE c

\* Mutant: a client that is out of sync is left as it is.
recheckedInSync == {"Disconnected", "WaitingUnlock", "Unlocked"}

\* The statuses in which reconnectionTimerCallback verifies the connection.
rechecked == {"Disconnected", "OutOfSync", "WaitingUnlock", "Unlocked"}
=============================================================================
