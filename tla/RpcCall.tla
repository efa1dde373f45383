------------------------------ MODULE RpcCall ------------------------------
(***************************************************************************)
(* What InterruptableRPC (cmd/crictl/util.go) promises to a crictl         *)
(* command: each call ends at most once, with a reply that the runtime     *)
(* really produced, with an error, or with "interrupted" once the user has *)
(* asked the program to stop.  The runtime may perform a call whose caller *)
(* was told "error" or "interrupted", and may do so later.                 *)
(***************************************************************************)
CONSTANT Calls

VARIABLES
  outcome,   \* what the caller of each call was told, "none" before that
  effect,    \* the calls the runtime has performed
  stopped    \* the user has interrupted the program

vars == <<outcome, effect, stopped>>

Outcomes == {"none", "reply", "error", "interrupted"}

Init ==
  /\ outcome = [c \in Calls |-> "none"]
  /\ effect = {}
  /\ stopped = FALSE

(* The runtime performs a call, at most once. *)
Perform(c) ==
  /\ c \notin effect
  /\ effect' = effect \cup {c}
  /\ UNCHANGED <<outcome, stopped>>

Finish(c, o) ==
  /\ outcome[c] = "none"
  /\ outcome' = [outcome EXCEPT ![c] = o]
  /\ UNCHANGED <<effect, stopped>>

Reply(c) == c \in effect /\ Finish(c, "reply")

Fail(c) == Finish(c, "error")

Interrupt(c) == stopped /\ Finish(c, "interrupted")

Stop ==
  /\ ~stopped
  /\ stopped' = TRUE
  /\ UNCHANGED <<outcome, effect>>

Next ==
  \/ Stop
  \/ \E c \in Calls : Perform(c) \/ Reply(c) \/ Fail(c) \/ Interrupt(c)

Spec == Init /\ [][Next]_vars
=============================================================================
