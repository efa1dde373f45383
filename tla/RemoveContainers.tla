-------------------------- MODULE RemoveContainers --------------------------
(***************************************************************************)
(* crictl rm (removeContainerCommand, cmd/crictl/container.go): collectIDs *)
(* picks the containers, then one goroutine per id asks for the status,    *)
(* stops the container when it runs and --force is given, removes it and   *)
(* deletes its logs, if it can; AggregateGoroutines joins the errors.  An  *)
(* id given twice has two goroutines.  crictl rmp (sandbox.go) has the     *)
(* same body without logs: it is the case keepLogs, a READY pod being      *)
(* running and a NOTREADY one exited.                                      *)
(*                                                                         *)
(* The runtime is external.  Other clients start containers and containers *)
(* exit while the command runs, and a request whose caller was told        *)
(* "error" or "interrupted" may still be performed (module RpcCall).  The  *)
(* runtime itself does not restart meanwhile: no container gets into or    *)
(* comes back from the state "unknown" by itself.                          *)
(***************************************************************************)
EXTENDS Naturals, FiniteSets

CONSTANTS
  Containers,   \* the containers of the runtime
  Jobs          \* the goroutines the command can start, at most one per id given

VARIABLES
  force, keepLogs, all,   \* the flags of the command
  target,      \* the container of each goroutine, None when there is no such one
  initially,   \* the state of each container when the command starts
  ctr,         \* its state in the runtime
  logs,        \* what has become of the log and its rotations of each container
  pc,          \* where each goroutine is
  request,     \* its last stop or remove request, in the hands of the runtime
  result,      \* what the command returned: "none", "nil" or "error"
  killed       \* containers that were running when a request ended them

flags == <<force, keepLogs, all>>
vars == <<flags, target, initially, ctr, logs, pc, request, result, killed>>

None == "none"

ASSUME ContainersAssumption == None \notin Containers

States == {"created", "running", "exited", "unknown"}

(* A container without a log path has "none"; a log is "reported" when some *)
(* file of it could not be deleted, which stderr says, and may be there.    *)
LogStates == {"none", "kept", "deleted", "reported"}
Ended == {"ok", "err"}
JobStates == {"idle", "status", "stop", "stopping", "remove", "removing",
              "deleteLogs"} \cup Ended

TypeOK ==
  /\ force \in BOOLEAN /\ keepLogs \in BOOLEAN /\ all \in BOOLEAN
  /\ target \in [Jobs -> Containers \cup {None}]
  /\ initially \in [Containers -> States]
  /\ ctr \in [Containers -> States \cup {"removed"}]
  /\ logs \in [Containers -> LogStates]
  /\ pc \in [Jobs -> JobStates]
  /\ request \in [Jobs -> {"none", "stop", "remove"}]
  /\ result \in {"none", "nil", "error"}
  /\ killed \subseteq Containers

Init ==
  /\ force \in BOOLEAN /\ keepLogs \in BOOLEAN /\ all \in BOOLEAN
  /\ initially \in [Containers -> States]
  /\ ctr = initially
  /\ logs \in [Containers -> {"none", "kept"}]
  /\ target = [j \in Jobs |-> None]
  /\ pc = [j \in Jobs |-> "idle"]
  /\ request = [j \in Jobs |-> "none"]
  /\ result = "none"
  /\ killed = {}

Named == {target[j] : j \in Jobs} \ {None}

Goto(j, l) == pc' = [pc EXCEPT ![j] = l]

-----------------------------------------------------------------------------
(* collectIDs, then AggregateGoroutines starts every function. *)

Spawn(t) ==
  /\ target' = t
  /\ pc' = [j \in Jobs |-> IF t[j] = None THEN "idle" ELSE "status"]

(* The ids of the command line, repeated ones included. *)
CollectArgs ==
  /\ result = "none" /\ Named = {}
  /\ ~all
  /\ \E t \in [Jobs -> Containers \cup {None}] :
       (\E j \in Jobs : t[j] # None) /\ Spawn(t)
  /\ UNCHANGED <<flags, initially, ctr, logs, request, result, killed>>

(* With --all the ids are those ListContainers returns, once each. *)
CollectAll ==
  /\ result = "none" /\ Named = {}
  /\ all
  /\ LET listed == {c \in Containers : ctr[c] # "removed"}
     IN  IF listed = {}
           THEN result' = "nil" /\ UNCHANGED <<target, pc>>
           ELSE /\ \E t \in [Jobs -> listed \cup {None}] :
                     /\ \A c \in listed : Cardinality({j \in Jobs : t[j] = c}) = 1
                     /\ Spawn(t)
                /\ UNCHANGED result
  /\ UNCHANGED <<flags, initially, ctr, logs, request, killed>>

CollectFails ==
  /\ result = "none" /\ Named = {}
  /\ all
  /\ result' = "error"
  /\ UNCHANGED <<flags, target, initially, ctr, logs, pc, request, killed>>

-----------------------------------------------------------------------------
(* One goroutine.  The status is read by the runtime; what is decided from  *)
(* it is carried out later.                                                 *)

\* Faulty variant: does not look at the state.
StatusIgnored(j) ==
  /\ pc[j] = "status"
  /\ Goto(j, IF ctr[target[j]] = "removed" THEN "err" ELSE "remove")
  /\ UNCHANGED <<flags, target, initially, ctr, logs, request, result, killed>>

\* Faulty variant: a running container is skipped without an error.
StatusSkips(j) ==
  /\ pc[j] = "status"
  /\ Goto(j, IF ctr[target[j]] = "running" /\ ~force THEN "ok" ELSE "remove")
  /\ UNCHANGED <<flags, target, initially, ctr, logs, request, result, killed>>

Status(j) ==
  /\ pc[j] = "status"
  /\ LET s == ctr[target[j]]
     IN  Goto(j, CASE s = "removed"            -> "err"
                   [] s = "running" /\ force   -> "stop"
                   [] s = "running" /\ ~force  -> "err"
                   [] OTHER                    -> "remove")
  /\ UNCHANGED <<flags, target, initially, ctr, logs, request, result, killed>>

Send(j, from, to, r) ==
  /\ pc[j] = from
  /\ Goto(j, to)
  /\ request' = [request EXCEPT ![j] = r]
  /\ UNCHANGED <<flags, target, initially, ctr, logs, result, killed>>

SendStop(j) == Send(j, "stop", "stopping", "stop")

SendRemove(j) == Send(j, "remove", "removing", "remove")

Stopped(j) ==
  /\ pc[j] = "stopping" /\ request[j] = "none"
  /\ Goto(j, "remove")
  /\ UNCHANGED <<flags, target, initially, ctr, logs, request, result, killed>>

Removed(j) ==
  /\ pc[j] = "removing" /\ request[j] = "none"
  /\ Goto(j, IF keepLogs THEN "ok" ELSE "deleteLogs")
  /\ UNCHANGED <<flags, target, initially, ctr, logs, request, result, killed>>

\* Faulty variant: the log is deleted although the removal failed.
FailDeletesLogs(j) ==
  /\ pc[j] \in {"status", "stopping", "removing"}
  /\ Goto(j, "err")
  /\ logs' = IF keepLogs \/ logs[target[j]] = "none"
               THEN logs ELSE [logs EXCEPT ![target[j]] = "deleted"]
  /\ UNCHANGED <<flags, target, initially, ctr, request, result, killed>>

(* The call ends in an error, a timeout or "interrupted": the goroutine     *)
(* returns, the request stays with the runtime.                             *)
Fail(j) ==
  /\ pc[j] \in {"status", "stopping", "removing"}
  /\ Goto(j, "err")
  /\ UNCHANGED <<flags, target, initially, ctr, logs, request, result, killed>>

LogsLeft(l) ==
  IF l \in {"none", "deleted"} THEN {l} ELSE {"deleted", "reported"}

(* The log and its rotations, at the path of the status read before, if it  *)
(* has one.  A failing os.Remove, of a file another goroutine has deleted   *)
(* too, is only logged, and the goroutine returns nil all the same.  Log    *)
(* paths hold no metacharacters of filepath.Glob.                           *)
DeleteLogs(j) ==
  /\ pc[j] = "deleteLogs"
  /\ Goto(j, "ok")
  /\ \E l \in LogsLeft(logs[target[j]]) : logs' = [logs EXCEPT ![target[j]] = l]
  /\ UNCHANGED <<flags, target, initially, ctr, request, result, killed>>

\* Faulty variant: waits for as many successes as there are functions.
ReturnOnSuccess ==
  /\ result = "none" /\ Named # {}
  /\ \A j \in Jobs : target[j] # None => pc[j] = "ok"
  /\ result' = "nil"
  /\ UNCHANGED <<flags, target, initially, ctr, logs, pc, request, killed>>

(* AggregateGoroutines receives one value per function and joins the errors. *)
Return ==
  /\ result = "none" /\ Named # {}
  /\ \A j \in Jobs : target[j] # None => pc[j] \in Ended
  /\ result' = IF \E j \in Jobs : pc[j] = "err" THEN "error" ELSE "nil"
  /\ UNCHANGED <<flags, target, initially, ctr, logs, pc, request, killed>>

-----------------------------------------------------------------------------
(* External: the runtime and its other clients. *)

(* StopContainer and RemoveContainer are idempotent; both end a running     *)
(* container, and one in an unknown state for safety's sake.                *)
Perform(j) ==
  /\ request[j] # "none"
  /\ request' = [request EXCEPT ![j] = "none"]
  /\ LET c == target[j]
     IN  /\ killed' = IF ctr[c] = "running" THEN killed \cup {c} ELSE killed
         /\ ctr' = IF request[j] = "remove"
                     THEN [ctr EXCEPT ![c] = "removed"]
                     ELSE [ctr EXCEPT ![c] = IF @ \in {"running", "unknown"} THEN "exited" ELSE @]
  /\ UNCHANGED <<flags, target, initially, logs, pc, result>>

(* A request whose caller has given up may be lost. *)
Lose(j) ==
  /\ request[j] # "none" /\ pc[j] = "err"
  /\ request' = [request EXCEPT ![j] = "none"]
  /\ UNCHANGED <<flags, target, initially, ctr, logs, pc, result, killed>>

Other(c, from, to) ==
  /\ ctr[c] = from
  /\ ctr' = [ctr EXCEPT ![c] = to]
  /\ UNCHANGED <<flags, target, initially, logs, pc, request, result, killed>>

OtherStarts(c) == Other(c, "created", "running")
Exits(c) == Other(c, "running", "exited") \/ Other(c, "unknown", "exited")
OtherRemoves(c) == Other(c, "exited", "removed")

-----------------------------------------------------------------------------
Next ==
  \/ CollectArgs \/ CollectAll \/ CollectFails \/ Return
  \/ \E j \in Jobs :
       \/ Status(j) \/ SendStop(j) \/ Stopped(j) \/ SendRemove(j) \/ Removed(j)
       \/ Fail(j) \/ DeleteLogs(j) \/ Perform(j) \/ Lose(j)
  \/ \E c \in Containers : OtherStarts(c) \/ Exits(c) \/ OtherRemoves(c)

Spec == Init /\ [][Next]_vars

(* Goroutines run; the CRI client gives every call a deadline, so a call the *)
(* runtime does not answer fails.                                            *)
Fairness ==
  /\ WF_vars(CollectArgs) /\ WF_vars(CollectAll \/ CollectFails)
  /\ WF_vars(Return)
  /\ \A j \in Jobs :
       /\ WF_vars(Status(j) \/ Fail(j) \/ Stopped(j) \/ Removed(j))
       /\ WF_vars(SendStop(j) \/ SendRemove(j) \/ DeleteLogs(j))

FairSpec == Spec /\ Fairness

-----------------------------------------------------------------------------
(* Success is real: when rm returns nil, every container it was to remove   *)
(* is gone from the runtime, and unless --keep-logs its log, if it had one, *)
(* is gone as well or stderr names the file that is left.                   *)
NilMeansRemoved ==
  result = "nil" => \A c \in Named : /\ ctr[c] = "removed"
                                     /\ ~keepLogs => logs[c] # "kept"

(* Without --force, rm never ends a container that was running, or had run, *)
(* when the command started: only one that another client starts after the  *)
(* status was read can be hit.                                              *)
RunningSpared ==
  ~force => \A c \in killed : initially[c] = "created"

(* No file of the log of a container is deleted before the container is     *)
(* gone, even when two goroutines work on it and one of them fails.         *)
LogsOutliveContainer ==
  \A c \in Containers : logs[c] \in {"deleted", "reported"} => ctr[c] = "removed" /\ ~keepLogs

(* The command always returns, whatever the runtime does. *)
RemoveReturns == <>(result # "none")
=============================================================================
