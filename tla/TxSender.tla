------------------------------ MODULE TxSender ------------------------------
(***************************************************************************)
(* src/tx.rs: fire spawns a task per transaction, send_now runs the same   *)
(* build_and_send in the caller.  A task ends with the RPC node's answer,  *)
(* which updates the consecutive-failure counter of the shared state; the  *)
(* answers come in any order.                                              *)
(***************************************************************************)
EXTENDS ArcherProgram

VARIABLES
  tasks,     \* transactions whose build_and_send has not returned
  failures   \* state.consecutive_failures

txVars == <<tasks, failures>>

Fire(w) == tasks' = tasks \cup {w}

\* The RPC node took the transaction (preflight is skipped, max_retries 0).
SendAccepted(w) ==
  /\ w \in tasks
  /\ tasks' = tasks \ {w}
  /\ flight' = flight \cup {w}
  /\ failures' = 0

\* No blockhash, or the RPC call failed: it may have been forwarded even so.
SendFailed(w) ==
  /\ w \in tasks
  /\ tasks' = tasks \ {w}
  /\ flight' \in {flight, flight \cup {w}}
  /\ failures' = failures + 1

\* The caller of send_now gives up waiting; the counter is not touched.
SendAbandoned(w) ==
  /\ w \in tasks
  /\ tasks' = tasks \ {w}
  /\ flight' \in {flight, flight \cup {w}}
  /\ UNCHANGED failures
=============================================================================
