---------------------------- MODULE RunContainer ----------------------------
(***************************************************************************)
(* crictl run and crictl create (cmd/crictl/container.go): a fixed         *)
(* sequence of calls to the runtime with files read in between.  run loads *)
(* the pod config, runs the sandbox, loads the container config and the    *)
(* pod config again, pulls the images, creates the container and starts    *)
(* it; create lacks the first two steps and the last.  The first failure   *)
(* ends the command and nothing is undone.                                 *)
(*                                                                         *)
(* Each call behaves as module RpcCall says.  The user may interrupt, and  *)
(* may edit the pod config while the command runs.                         *)
(***************************************************************************)
EXTENDS Naturals, Sequences

CONSTANT Images   \* how many: the container's own and one per image mount

ASSUME ImagesAssumption == Images \in Nat \ {0}

VARIABLES
  command,      \* "run" or "create"
  pullDefault,  \* what the config file says: PullImageOnCreate, not DisablePullOnRun
  noPull, withPullFlag, username,   \* flags
  podFile,      \* the pod config: its uid, "" when absent, and its revision
  loads,        \* how often it has been read: a generated uid is new each time
  phase,        \* where the command is
  k,            \* the call it is at
  last,         \* how that call ended
  performed,    \* the calls the runtime has performed
  pending,      \* the calls it may still perform
  stopped,      \* the user has interrupted
  ranWith, createdWith,   \* the sandbox configs of RunPodSandbox, CreateContainer
  result        \* what the command returned: "none", "nil" or "error"

flags == <<command, pullDefault, noPull, withPullFlag, username>>
runtime == <<performed, pending, stopped>>
configs == <<loads, ranWith, createdWith>>
runVars == <<flags, podFile, phase, k, last, runtime, configs, result>>

Files == [uid : {"", "given"}, rev : {1, 2}]
NoConfig == [uid |-> "none", rev |-> 0]
Generated(n) == IF n = 1 THEN "generated1" ELSE "generated2"
Configs == [uid : {"given", "generated1", "generated2"}, rev : {1, 2}]

(* --no-pull and --with-pull override the default of the config file. *)
withPull == (~noPull /\ pullDefault) \/ withPullFlag

(* The calls the command makes if all goes well: NumOps of them, the i-th of *)
(* kind Op(i).                                                              *)
Outer == IF command = "run" THEN 1 ELSE 0
Pulls == IF withPull THEN Images ELSE 0
NumOps == Outer + Pulls + 1 + Outer
MaxOps == Images + 3

Op(i) == CASE i <= Outer                     -> "RunPodSandbox"
           [] i \in Outer + 1..Outer + Pulls -> "PullImage"
           [] i = Outer + Pulls + 1          -> "CreateContainer"
           [] OTHER                          -> "StartContainer"

FlagsTypeOK ==
  /\ command \in {"run", "create"}
  /\ pullDefault \in BOOLEAN /\ username \in BOOLEAN /\ stopped \in BOOLEAN
  /\ noPull \in BOOLEAN /\ withPullFlag \in BOOLEAN

ConfigsTypeOK ==
  /\ podFile \in Files
  /\ loads \in 0..2
  /\ ranWith \in Configs \cup {NoConfig}
  /\ createdWith \in Configs \cup {NoConfig}

CallsTypeOK ==
  /\ phase \in {"parse", "loadPod", "loadContainer", "reloadPod", "auth",
                "send", "wait", "done"}
  /\ k \in 1..MaxOps + 1
  /\ last \in {"none", "error", "interrupted"}
  /\ performed \subseteq 1..MaxOps /\ pending \subseteq 1..MaxOps
  /\ result \in {"none", "nil", "error"}
  /\ result # "none" <=> phase = "done"

RunTypeOK == FlagsTypeOK /\ ConfigsTypeOK /\ CallsTypeOK

RunInit ==
  /\ command \in {"run", "create"}
  /\ pullDefault \in BOOLEAN /\ noPull \in BOOLEAN
  /\ withPullFlag \in BOOLEAN /\ username \in BOOLEAN
  /\ podFile \in [uid : {"", "given"}, rev : {1}]
  /\ loads = 0
  /\ phase = "parse" /\ k = 1 /\ last = "none"
  /\ performed = {} /\ pending = {} /\ stopped = FALSE
  /\ ranWith = NoConfig /\ createdWith = NoConfig
  /\ result = "none"

End(r) == phase' = "done" /\ result' = r

-----------------------------------------------------------------------------
Parse ==
  /\ phase = "parse"
  /\ IF noPull /\ withPullFlag
       THEN End("error")
       ELSE /\ phase' = IF command = "run" THEN "loadPod" ELSE "loadContainer"
            /\ UNCHANGED result
  /\ UNCHANGED <<flags, podFile, k, last, runtime, configs>>

(* loadPodSandboxConfig gives a config without a uid a new one. *)
Loaded == [uid |-> IF podFile.uid = "" THEN Generated(loads + 1) ELSE podFile.uid,
           rev |-> podFile.rev]

LoadPod ==
  /\ phase = "loadPod"
  /\ phase' = "send"
  /\ loads' = loads + 1
  /\ ranWith' = Loaded
  /\ UNCHANGED <<flags, podFile, k, last, runtime, createdWith, result>>

LoadContainer ==
  /\ phase = "loadContainer"
  /\ phase' = "reloadPod"
  /\ UNCHANGED <<flags, podFile, k, last, runtime, configs, result>>

(* The CRI has CreateContainer get the config that RunPodSandbox got; crictl *)
(* reads the file again, edited or with another uid generated.              *)
ReloadPod ==
  /\ phase = "reloadPod"
  /\ phase' = IF withPull THEN "auth" ELSE "send"
  /\ loads' = loads + 1
  /\ createdWith' = Loaded
  /\ UNCHANGED <<flags, podFile, k, last, runtime, ranWith, result>>

(* getAuth; with --username it waits for the user to type a password. *)
Auth ==
  /\ phase = "auth"
  /\ phase' = "send"
  /\ UNCHANGED <<flags, podFile, k, last, runtime, configs, result>>

(* A file that cannot be read or parsed, or has no metadata; bad flags. *)
LocalError ==
  /\ phase \in {"loadPod", "loadContainer", "reloadPod", "auth"}
  /\ End("error")
  /\ UNCHANGED <<flags, podFile, k, last, runtime, configs>>

-----------------------------------------------------------------------------
(* One call, as InterruptableRPC makes it. *)

Send ==
  /\ phase = "send"
  /\ phase' = "wait"
  /\ pending' = pending \cup {k}
  /\ UNCHANGED <<flags, podFile, k, last, performed, stopped, configs, result>>

Reply ==
  /\ phase = "wait" /\ k \in performed
  /\ k' = k + 1
  /\ CASE k = NumOps               -> End("nil")
       [] Op(k) = "RunPodSandbox"   -> phase' = "loadContainer" /\ UNCHANGED result
       [] OTHER                      -> phase' = "send" /\ UNCHANGED result
  /\ UNCHANGED <<flags, podFile, last, runtime, configs>>

\* Faulty variant: an image that cannot be pulled is skipped.
FailSkipsPull ==
  /\ phase = "wait"
  /\ IF Op(k) = "PullImage"
       THEN phase' = "send" /\ k' = k + 1 /\ UNCHANGED <<last, result>>
       ELSE last' = "error" /\ End("error") /\ UNCHANGED k
  /\ UNCHANGED <<flags, podFile, runtime, configs>>

(* Refused, timed out (--cancel-timeout, --pull-timeout) or broken off. *)
Fail ==
  /\ phase = "wait"
  /\ last' = "error"
  /\ End("error")
  /\ UNCHANGED <<flags, podFile, k, runtime, configs>>

\* Faulty variant: an interrupted call is sent again.
InterruptedRetries ==
  /\ phase = "wait" /\ stopped
  /\ phase' = "send"
  /\ UNCHANGED <<flags, podFile, k, last, runtime, configs, result>>

Interrupted ==
  /\ phase = "wait" /\ stopped
  /\ last' = "interrupted"
  /\ End("error")
  /\ UNCHANGED <<flags, podFile, k, runtime, configs>>

-----------------------------------------------------------------------------
(* External: the runtime and the user. *)

Perform ==
  /\ \E i \in pending : performed' = performed \cup {i} /\ pending' = pending \ {i}
  /\ UNCHANGED <<flags, podFile, phase, k, last, stopped, configs, result>>

(* A request is refused, or lost after its caller has given up. *)
Drop ==
  /\ \E i \in pending : pending' = pending \ {i}
  /\ UNCHANGED <<flags, podFile, phase, k, last, performed, stopped, configs, result>>

Stop ==
  /\ ~stopped /\ result = "none" /\ stopped' = TRUE
  /\ UNCHANGED <<flags, podFile, phase, k, last, performed, pending, configs, result>>

EditPodFile ==
  /\ podFile.rev = 1 /\ result = "none"
  /\ podFile' = [podFile EXCEPT !.rev = 2]
  /\ UNCHANGED <<flags, phase, k, last, runtime, configs, result>>

RunNext ==
  \/ Parse \/ LoadPod \/ LoadContainer \/ ReloadPod \/ Auth \/ LocalError
  \/ Send \/ Reply \/ Fail \/ Interrupted
  \/ Perform \/ Drop \/ Stop \/ EditPodFile

RunSpec == RunInit /\ [][RunNext]_runVars

(* The program runs; the runtime need not answer and the user need not type. *)
RunFairness ==
  /\ WF_runVars(Parse) /\ WF_runVars(LoadPod) /\ WF_runVars(LoadContainer)
  /\ WF_runVars(ReloadPod) /\ WF_runVars(Auth /\ ~username) /\ WF_runVars(Send)
  /\ WF_runVars(Interrupted)

RunFairSpec == RunSpec /\ RunFairness

-----------------------------------------------------------------------------
(* What the runtime has done is a prefix of the planned calls: when a call  *)
(* fails everything before it has been done, nothing after it ever is, and  *)
(* only that one call is in doubt.                                          *)
EffectsArePrefix ==
  /\ performed \in {1..(k - 1), 1..k}
  /\ pending \subseteq {k}

(* Success means that every call was performed, and every planned call made. *)
SuccessIsComplete ==
  result = "nil" => performed = 1..NumOps /\ pending = {}

(* Once the user has interrupted, the command ends, whatever the runtime    *)
(* does, unless it is waiting for a password.                               *)
InterruptEnds == stopped ~> (result # "none" \/ (phase = "auth" /\ username))

(* Each call keeps the contract of InterruptableRPC. *)
Rpc == INSTANCE RpcCall WITH
  Calls   <- 1..MaxOps,
  outcome <- [i \in 1..MaxOps |-> IF i < k THEN "reply"
                                  ELSE IF i = k THEN last ELSE "none"],
  effect  <- performed,
  stopped <- stopped

RunImplementsRpcCall == Rpc!Spec
=============================================================================
