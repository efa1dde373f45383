------------------------- MODULE SequentialCommand -------------------------
(***************************************************************************)
(* crictl start, stop, update, checkpoint (cmd/crictl/container.go) and    *)
(* stopp (sandbox.go): one call to the runtime per id, in the order of the *)
(* command line, the first failure ending the command.  stop --all takes   *)
(* the ids from one list of the running containers.  An id is printed once *)
(* its call has succeeded.                                                 *)
(*                                                                         *)
(* The runtime is external: it may perform a call whose caller was told    *)
(* "error" or "interrupted", even after crictl has ended, and other        *)
(* clients start and stop containers at any time.                          *)
(***************************************************************************)
EXTENDS Naturals, Sequences, FiniteSets

CONSTANTS
  Containers,
  MaxIds        \* bound on the ids given

ASSUME ContainersAssumption == IsFiniteSet(Containers)
ASSUME MaxIdsAssumption == MaxIds \in Nat \ {0}

VARIABLES
  command,    \* "start", "stop" or "other" (update, checkpoint, stopp)
  all,        \* --all of stop
  ids,        \* the ids, once known
  pos,        \* the index of the id in hand
  phase,      \* "collect", "call", "wait" or "done"
  pending,    \* the calls the runtime still has, by index
  performed,  \* the calls it has performed
  printed,    \* the ids printed, in order
  ctr,        \* the state of each container
  startedLate,\* containers that others have started since the command began
  result      \* "none", "nil" or "error"

args == <<command, all>>
calls == <<pending, performed>>
world == <<ctr, startedLate>>
vars == <<args, ids, pos, phase, calls, printed, world, result>>

States == {"created", "running", "exited"}

ArgsTypeOK ==
  /\ command \in {"start", "stop", "other"}
  /\ all \in BOOLEAN /\ (all => command = "stop")

IdsTypeOK ==
  /\ ids \in Seq(Containers) /\ printed \in Seq(Containers)
  /\ pos \in 1..Len(ids) + 1
  /\ pending \subseteq 1..Len(ids) /\ performed \subseteq 1..Len(ids)

StateTypeOK ==
  /\ phase \in {"collect", "call", "wait", "done"}
  /\ ctr \in [Containers -> States] /\ startedLate \subseteq Containers
  /\ result \in {"none", "nil", "error"}

TypeOK == ArgsTypeOK /\ IdsTypeOK /\ StateTypeOK

Init ==
  /\ command \in {"start", "stop", "other"}
  /\ all \in BOOLEAN /\ (all => command = "stop")
  /\ ids = <<>> /\ pos = 1 /\ phase = "collect"
  /\ pending = {} /\ performed = {} /\ printed = <<>>
  /\ ctr \in [Containers -> States] /\ startedLate = {}
  /\ result = "none"

End(r) == phase' = "done" /\ result' = r

-----------------------------------------------------------------------------
Collected(list) ==
  /\ phase = "collect"
  /\ ids' = list
  /\ phase' = "call"
  /\ UNCHANGED <<args, pos, calls, printed, world, result>>

(* The ids of the command line, in its order and with its repetitions. *)
CollectArgs ==
  /\ ~all
  /\ \E n \in 1..MaxIds : \E given \in [1..n -> Containers] : Collected(given)

Running == {c \in Containers : ctr[c] = "running"}

\* Faulty variant: the ids of the list are read one short.
CollectAllShort ==
  /\ all /\ Cardinality(Running) > 1
  /\ \E list \in [1..(Cardinality(Running) - 1) -> Running] : Collected(list)

(* stop --all: the containers running when the list is read, once each. *)
CollectAll ==
  /\ all /\ Running # {}
  /\ \E list \in [1..Cardinality(Running) -> Running] :
       (\A c \in Running : \E i \in DOMAIN list : list[i] = c) /\ Collected(list)

CollectNothing ==
  /\ all /\ Running = {}
  /\ phase = "collect"
  /\ End("nil")
  /\ UNCHANGED <<args, ids, pos, calls, printed, world>>

(* No id, ids together with --all, or a list that fails. *)
CollectFails ==
  /\ phase = "collect"
  /\ End("error")
  /\ UNCHANGED <<args, ids, pos, calls, printed, world>>

-----------------------------------------------------------------------------
Call ==
  /\ phase = "call"
  /\ phase' = "wait"
  /\ pending' = pending \cup {pos}
  /\ UNCHANGED <<args, ids, pos, performed, printed, world, result>>

\* Faulty variant: a failed call is logged and the next id taken.
FailGoesOn ==
  /\ phase = "wait"
  /\ IF pos = Len(ids) THEN End("error") /\ UNCHANGED pos
                       ELSE phase' = "call" /\ pos' = pos + 1 /\ UNCHANGED result
  /\ UNCHANGED <<args, ids, calls, printed, world>>

(* The call fails, times out, or is interrupted. *)
Fail ==
  /\ phase = "wait"
  /\ End("error")
  /\ UNCHANGED <<args, ids, pos, calls, printed, world>>

Reply ==
  /\ phase = "wait" /\ pos \in performed
  /\ printed' = Append(printed, ids[pos])
  /\ pos' = pos + 1
  /\ IF pos = Len(ids) THEN End("nil") ELSE phase' = "call" /\ UNCHANGED result
  /\ UNCHANGED <<args, ids, calls, world>>

-----------------------------------------------------------------------------
(* External: the runtime and its other clients. *)

(* A container can be started once, and be stopped in any state. *)
Perform ==
  /\ \E i \in pending :
       /\ pending' = pending \ {i} /\ performed' = performed \cup {i}
       /\ LET c == ids[i]
          IN  \/ /\ command = "start" /\ ctr[c] = "created"
                 /\ ctr' = [ctr EXCEPT ![c] = "running"]
              \/ /\ command = "stop"
                 /\ ctr' = [ctr EXCEPT ![c] = IF @ = "running" THEN "exited" ELSE @]
              \/ command = "other" /\ UNCHANGED ctr
  /\ UNCHANGED <<args, ids, pos, phase, printed, startedLate, result>>

Drop ==
  /\ \E i \in pending : pending' = pending \ {i}
  /\ UNCHANGED <<args, ids, pos, phase, performed, printed, world, result>>

OtherStarts(c) ==
  /\ ctr[c] = "created"
  /\ ctr' = [ctr EXCEPT ![c] = "running"]
  /\ startedLate' = startedLate \cup {c}
  /\ UNCHANGED <<args, ids, pos, phase, calls, printed, result>>

Exits(c) ==
  /\ ctr[c] = "running"
  /\ ctr' = [ctr EXCEPT ![c] = "exited"]
  /\ UNCHANGED <<args, ids, pos, phase, calls, printed, startedLate, result>>

Next ==
  \/ CollectArgs \/ CollectAll \/ CollectNothing \/ CollectFails
  \/ Call \/ Fail \/ Reply \/ Perform \/ Drop
  \/ \E c \in Containers : OtherStarts(c) \/ Exits(c)

Spec == Init /\ [][Next]_vars

-----------------------------------------------------------------------------
(* The ids before the one in hand have been dealt with and those after it   *)
(* have not, whatever failed: the output tells the user where it stopped.   *)
DoneInOrder ==
  /\ performed \in {1..(pos - 1), 1..pos} /\ pending \subseteq {pos}
  /\ printed = SubSeq(ids, 1, pos - 1)
  /\ result = "nil" => printed = ids

(* A container whose id stop has printed is not running, unless another     *)
(* client has started it meanwhile.                                         *)
PrintedIsStopped ==
  command = "stop" =>
    \A i \in 1..Len(printed) : ctr[printed[i]] = "running" => printed[i] \in startedLate

(* When stop --all succeeds, no container runs that ran when it began: only *)
(* those another client started after the list was read are left.           *)
StopAllStopsAll ==
  all /\ result = "nil" => Running \subseteq startedLate
-----------------------------------------------------------------------------
(* The calls are made as RpcCall says: what the command was told of the     *)
(* i-th follows from its place among the ids.  An interrupt is one of the   *)
(* errors here.                                                             *)
MaxCalls == MaxIds + Cardinality(Containers)

Told(i) ==
  IF i < pos THEN "reply"
  ELSE IF i = pos /\ ids # <<>> /\ result = "error" THEN "error" ELSE "none"

Rpc == INSTANCE RpcCall WITH
  Calls   <- 1..MaxCalls,
  outcome <- [i \in 1..MaxCalls |-> Told(i)],
  effect  <- performed,
  stopped <- FALSE

ImplementsRpcCall == Rpc!Spec
=============================================================================
