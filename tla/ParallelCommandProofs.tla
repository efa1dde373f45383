----------------------- MODULE ParallelCommandProofs -----------------------
(***************************************************************************)
(* Proofs about what runs goroutines of its own.  crictl rm                *)
(* (RemoveContainers) and crictl exec (ExecCommand) give one function per  *)
(* id to AggregateGoroutines: for any number of containers, of goroutines  *)
(* that work on them and of exit codes.  A benchmark (BenchmarkResults)    *)
(* has its workers and the consumer of the results: for any number of      *)
(* samples, operations and workers.                                        *)
(***************************************************************************)
EXTENDS RemoveContainers, ExecCommand, BenchmarkResults, TLAPS

(* The goroutines that have come to the removal have a container; each      *)
(* request with the runtime is the one its goroutine made.                  *)
Aimed ==
  \A j \in Jobs :
    /\ pc[j] # "idle" \/ request[j] # "none" => target[j] \in Containers
    /\ target[j] \in Containers => pc[j] # "idle"
    /\ pc[j] \in {"status", "stop", "remove", "deleteLogs", "ok"} => request[j] = "none"
    /\ pc[j] = "stopping" => request[j] \in {"none", "stop"}
    /\ pc[j] = "removing" => request[j] \in {"none", "remove"}

(* The logs are deleted, and success is reported, after the removal.        *)
Gone ==
  \A j \in Jobs :
    /\ pc[j] \in {"deleteLogs", "ok"} \/ (pc[j] = "removing" /\ request[j] = "none")
         => ctr[target[j]] = "removed"
    /\ pc[j] = "deleteLogs" => ~keepLogs
    /\ pc[j] = "ok" /\ ~keepLogs => logs[target[j]] # "kept"

(* What a container may have become since the command started.              *)
History ==
  \A c \in Containers :
    /\ initially[c] = "exited" => ctr[c] \in {"exited", "removed"}
    /\ initially[c] = "running" => ctr[c] \in {"running", "exited", "removed"}
    /\ initially[c] = "unknown" => ctr[c] \in {"unknown", "exited", "removed"}

(* What only ends.                                                          *)
NotRunning == {"unknown", "exited", "removed"}

(* Without --force nothing is stopped, and what is to be removed was not    *)
(* running, nor had it run.                                                 *)
Gentle ==
  ~force =>
    \A j \in Jobs :
      /\ pc[j] \notin {"stop", "stopping"} /\ request[j] # "stop"
      /\ pc[j] \in {"remove", "removing"} \/ request[j] # "none" =>
           \/ initially[target[j]] = "created"
           \/ ctr[target[j]] \in NotRunning

(* nil is returned when every goroutine has ended well.                     *)
Joined == result = "nil" => \A j \in Jobs : target[j] = None \/ pc[j] = "ok"

Inv == TypeOK /\ Aimed /\ Gone /\ History /\ Gentle /\ RunningSpared
         /\ LogsOutliveContainer /\ Joined

-----------------------------------------------------------------------------
LEMMA InitInv == Init => Inv
<1> SUFFICES ASSUME Init PROVE Inv
  OBVIOUS
<1> USE DEF Init, None
<1>1. TypeOK
  BY DEF TypeOK, States, LogStates, JobStates, LogStates, Ended
<1>2. Aimed
  BY ContainersAssumption DEF Aimed
<1>3. Gone /\ Joined
  BY DEF Gone, Joined
<1>4. History /\ Gentle
  BY DEF History, Gentle
<1>5. RunningSpared /\ LogsOutliveContainer
  BY DEF RunningSpared, LogsOutliveContainer
<1> QED
  BY <1>1, <1>2, <1>3, <1>4, <1>5 DEF Inv

(* A step of the command that starts its goroutines, or ends it at once.    *)
LEMMA CollectStep ==
  ASSUME Inv, CollectArgs \/ CollectAll \/ CollectFails
  PROVE  Inv'
<1> USE DEF flags
<1>1. /\ result = "none" /\ Named = {}
      /\ UNCHANGED <<flags, initially, ctr, logs, request, killed>>
  BY DEF CollectArgs, CollectAll, CollectFails
<1>2. \A j \in Jobs : target[j] = None /\ pc[j] = "idle" /\ request[j] = "none"
  BY <1>1, ContainersAssumption DEF Inv, TypeOK, Aimed, Named
<1>3. \/ \E t \in [Jobs -> Containers \cup {None}] : Spawn(t) /\ result' = "none"
      \/ UNCHANGED <<target, pc>> /\ result' \in {"nil", "error"}
  <2>1. CASE CollectArgs
    BY <1>1, <2>1 DEF CollectArgs
  <2>2. CASE CollectAll
    <3> DEFINE listed == {c \in Containers : ctr[c] # "removed"}
    <3>1. CASE listed = {}
      BY <2>2, <3>1 DEF CollectAll
    <3>2. CASE listed # {}
      <4>1. PICK t \in [Jobs -> listed \cup {None}] : Spawn(t)
        BY <2>2, <3>2 DEF CollectAll
      <4>2. t \in [Jobs -> Containers \cup {None}]
        OBVIOUS
      <4>3. result' = "none"
        BY <1>1, <2>2, <3>2 DEF CollectAll
      <4> QED
        BY <4>1, <4>2, <4>3
    <3> QED
      BY <3>1, <3>2
  <2>3. CASE CollectFails
    BY <2>3 DEF CollectFails
  <2> QED
    BY <2>1, <2>2, <2>3
<1>4. CASE \E t \in [Jobs -> Containers \cup {None}] : Spawn(t) /\ result' = "none"
  <2>1. PICK t \in [Jobs -> Containers \cup {None}] : Spawn(t) /\ result' = "none"
    BY <1>4
  <2>2. \A j \in Jobs : /\ target'[j] = t[j]
                        /\ pc'[j] = IF t[j] = None THEN "idle" ELSE "status"
    BY <2>1 DEF Spawn
  <2>3. TypeOK'
    BY <1>1, <2>1 DEF Inv, TypeOK, Spawn, JobStates
  <2>4. Aimed'
    BY <1>1, <1>2, <2>2, ContainersAssumption DEF Aimed
  <2>5. Gone' /\ Joined' /\ Gentle'
    BY <1>1, <1>2, <2>1, <2>2 DEF Gone, Joined, Gentle
  <2>6. History' /\ RunningSpared' /\ LogsOutliveContainer'
    BY <1>1 DEF Inv, History, RunningSpared, LogsOutliveContainer
  <2> QED
    BY <2>3, <2>4, <2>5, <2>6 DEF Inv
<1>5. CASE UNCHANGED <<target, pc>> /\ result' \in {"nil", "error"}
  <2>1. TypeOK'
    BY <1>1, <1>5 DEF Inv, TypeOK
  <2>2. Joined'
    BY <1>2, <1>5 DEF Joined
  <2>3. Aimed' /\ Gone' /\ History' /\ Gentle' /\ RunningSpared' /\ LogsOutliveContainer'
    BY <1>1, <1>5 DEF Inv, Aimed, Gone, History, Gentle, RunningSpared, LogsOutliveContainer
  <2> QED
    BY <2>1, <2>2, <2>3 DEF Inv
<1> QED
  BY <1>3, <1>4, <1>5

(* A step of one goroutine, the runtime left alone.                         *)
LEMMA JobStep ==
  ASSUME Inv, NEW j \in Jobs,
         \/ Status(j) \/ SendStop(j) \/ Stopped(j) \/ SendRemove(j) \/ Removed(j)
         \/ Fail(j) \/ DeleteLogs(j)
  PROVE  Inv'
<1> USE DEF flags, Inv, Goto, Send
<1>1. /\ UNCHANGED <<flags, target, initially, ctr, result, killed>>
      /\ \E l \in JobStates : pc' = [pc EXCEPT ![j] = l]
      /\ pc[j] \notin {"idle", "ok", "err"}
  BY DEF Status, SendStop, Stopped, SendRemove, Removed, Fail, DeleteLogs, JobStates, Ended
<1>2. TypeOK'
  <2>1. request' \in [Jobs -> {"none", "stop", "remove"}]
    BY DEF TypeOK, Status, SendStop, Stopped, SendRemove, Removed, Fail, DeleteLogs
  <2>2. logs' \in [Containers -> LogStates]
    BY DEF TypeOK, Status, SendStop, Stopped, SendRemove, Removed, Fail, DeleteLogs,
           LogsLeft, LogStates
  <2> QED
    BY <1>1, <2>1, <2>2 DEF TypeOK
<1>3. target[j] \in Containers
  BY <1>1 DEF Aimed
<1>4. Joined'
  BY <1>1, <1>3, ContainersAssumption DEF Joined, TypeOK
<1>5. History' /\ RunningSpared'
  BY <1>1 DEF History, RunningSpared
<1>6. CASE Status(j)
  <2>1. ctr[target[j]] \in States \cup {"removed"} /\ initially[target[j]] \in States
    BY <1>3 DEF TypeOK
  <2>2. /\ UNCHANGED <<logs, request>>
        /\ pc[j] = "status"
        /\ pc'[j] \in {"err", "stop", "remove"}
        /\ \A k \in Jobs \ {j} : pc'[k] = pc[k]
        /\ pc'[j] = "stop" => force
        /\ pc'[j] = "remove" => ctr[target[j]] \in {"created", "exited", "unknown"}
    BY <1>6, <2>1 DEF Status, TypeOK, States
  <2>3. Aimed'
    BY <1>1, <1>3, <2>2 DEF Aimed
  <2>4. Gone'
    BY <1>1, <1>3, <2>2 DEF Gone
  <2>5. Gentle'
    <3>1. pc'[j] = "remove" => \/ initially[target[j]] = "created"
                               \/ ctr[target[j]] \in NotRunning
      BY <1>3, <2>1, <2>2 DEF History, States, NotRunning
    <3> QED
      BY <1>1, <2>2, <3>1 DEF Gentle, Aimed
  <2>6. LogsOutliveContainer'
    BY <1>1, <2>2 DEF LogsOutliveContainer
  <2> QED
    BY <1>2, <1>4, <1>5, <2>3, <2>4, <2>5, <2>6
<1>7. CASE SendStop(j) \/ Stopped(j) \/ SendRemove(j) \/ Removed(j) \/ Fail(j)
  <2>1. UNCHANGED logs
    BY <1>7 DEF SendStop, Stopped, SendRemove, Removed, Fail
  <2>2. LogsOutliveContainer'
    BY <1>1, <2>1 DEF LogsOutliveContainer
  <2>3. Aimed'
    BY <1>1, <1>3, <1>7 DEF Aimed, TypeOK, SendStop, Stopped, SendRemove, Removed, Fail
  <2>4. Gone'
    <3>1. CASE Removed(j)
      <4>1. ctr[target[j]] = "removed"
        BY <3>1 DEF Removed, Gone
      <4>2. keepLogs = FALSE \/ keepLogs = TRUE
        BY DEF TypeOK
      <4> QED
        BY <1>1, <2>1, <3>1, <4>1, <4>2 DEF Removed, Gone, TypeOK
    <3>2. CASE ~Removed(j)
      BY <1>1, <1>7, <2>1, <3>2 DEF Gone, TypeOK, SendStop, Stopped, SendRemove, Fail
    <3> QED
      BY <3>1, <3>2
  <2>5. Gentle'
    BY <1>1, <1>7 DEF Gentle, TypeOK, SendStop, Stopped, SendRemove, Removed, Fail
  <2> QED
    BY <1>2, <1>4, <1>5, <2>2, <2>3, <2>4, <2>5
<1>8. CASE DeleteLogs(j)
  <2>1. /\ pc[j] = "deleteLogs" /\ pc'[j] = "ok" /\ UNCHANGED request
        /\ \A k \in Jobs \ {j} : pc'[k] = pc[k]
    BY <1>8 DEF DeleteLogs, TypeOK
  <2>2. ctr[target[j]] = "removed" /\ ~keepLogs
    BY <2>1 DEF Gone
  <2>3. Aimed' /\ Gentle'
    BY <1>1, <1>3, <2>1 DEF Aimed, Gentle
  <2>6. /\ logs'[target[j]] # "kept"
        /\ \A c \in Containers \ {target[j]} : logs'[c] = logs[c]
    BY <1>3, <1>8 DEF DeleteLogs, LogsLeft, TypeOK
  <2>4. Gone'
    BY <1>1, <1>3, <2>1, <2>2, <2>6 DEF Gone, Aimed
  <2>5. LogsOutliveContainer'
    BY <1>1, <2>1, <2>2, <2>6 DEF LogsOutliveContainer
  <2> QED
    BY <1>2, <1>4, <1>5, <2>3, <2>4, <2>5
<1> QED
  BY <1>6, <1>7, <1>8

(* A container only goes on: created, running or unknown, exited, removed.  *)
Onward(c, s) ==
  /\ ctr' = [ctr EXCEPT ![c] = s]
  /\ \/ s = ctr[c]
     \/ s = "running" /\ ctr[c] = "created"
     \/ s = "exited" /\ ctr[c] \in {"running", "unknown"}
     \/ s = "removed"

LEMMA OnwardStep ==
  ASSUME Inv, NEW c \in Containers, NEW s \in States \cup {"removed"}, Onward(c, s),
         UNCHANGED <<flags, target, initially, logs, pc, result>>
  PROVE  /\ ctr' \in [Containers -> States \cup {"removed"}]
         /\ History' /\ LogsOutliveContainer' /\ Joined'
         /\ \A d \in Containers : ctr[d] = "removed" => ctr'[d] = "removed"
         /\ \A d \in Containers : ctr[d] \in NotRunning => ctr'[d] \in NotRunning
<1> USE DEF flags, Inv, Onward
<1>1. ctr' \in [Containers -> States \cup {"removed"}]
  BY DEF TypeOK
<1>2. \A d \in Containers : ctr[d] = "removed" => ctr'[d] = "removed"
  BY DEF TypeOK
<1>3. \A d \in Containers : ctr[d] \in NotRunning => ctr'[d] \in NotRunning
  BY DEF TypeOK, NotRunning
<1>4. History'
  BY DEF TypeOK, History
<1>5. LogsOutliveContainer'
  BY <1>2 DEF LogsOutliveContainer
<1>6. Joined'
  BY DEF Joined
<1> QED
  BY <1>1, <1>2, <1>3, <1>4, <1>5, <1>6

LEMMA PerformStep ==
  ASSUME Inv, NEW j \in Jobs, Perform(j)
  PROVE  Inv'
<1> USE DEF flags, Inv
<1> DEFINE c == target[j]
           s == IF request[j] = "remove" THEN "removed"
                ELSE IF ctr[c] \in {"running", "unknown"} THEN "exited" ELSE ctr[c]
<1>1. /\ request[j] # "none" /\ request' = [request EXCEPT ![j] = "none"]
      /\ UNCHANGED <<flags, target, initially, logs, pc, result>>
      /\ killed' = IF ctr[c] = "running" THEN killed \cup {c} ELSE killed
  BY DEF Perform
<1>2. c \in Containers
  BY <1>1 DEF Aimed
<1>3. request[j] \in {"none", "stop", "remove"} /\ ctr[c] \in States \cup {"removed"}
  BY <1>2 DEF TypeOK
<1>4. s \in States \cup {"removed"} /\ Onward(c, s)
  BY <1>2, <1>3 DEF Perform, Onward, States, TypeOK
<1>5. /\ ctr' \in [Containers -> States \cup {"removed"}]
      /\ History' /\ LogsOutliveContainer' /\ Joined'
      /\ \A d \in Containers : ctr[d] = "removed" => ctr'[d] = "removed"
      /\ \A d \in Containers : ctr[d] \in NotRunning => ctr'[d] \in NotRunning
  <2> HIDE DEF c, s
  <2> QED
    BY <1>1, <1>2, <1>4, OnwardStep
<1>6. TypeOK'
  BY <1>1, <1>2, <1>5 DEF TypeOK
<1>7. Aimed'
  BY <1>1 DEF Aimed, TypeOK
<1>8. Gone'
  <2>1. ASSUME NEW k \in Jobs,
               \/ pc[k] \in {"deleteLogs", "ok"}
               \/ pc[k] = "removing" /\ request'[k] = "none"
        PROVE  ctr'[target[k]] = "removed"
    <3>1. target[k] \in Containers
      BY <2>1 DEF Aimed
    <3>2. CASE k = j
      <4>1. pc[j] = "removing" /\ request[j] = "remove"
        BY <1>1, <2>1, <3>2 DEF Aimed
      <4> QED
        BY <1>2, <1>4, <3>2, <4>1 DEF Onward, TypeOK
    <3>3. CASE k # j
      BY <1>1, <1>5, <2>1, <3>1, <3>3 DEF Gone, TypeOK
    <3> QED
      BY <3>2, <3>3
  <2> QED
    BY <1>1, <2>1 DEF Gone
<1>9. Gentle'
  <2>1. ASSUME NEW k \in Jobs, ~force, pc[k] \in {"remove", "removing"} \/ request'[k] # "none"
        PROVE  \/ initially[target[k]] = "created"
               \/ ctr'[target[k]] \in NotRunning
    <3>1. pc[k] \in {"remove", "removing"} \/ request[k] # "none"
      BY <1>1, <2>1 DEF TypeOK
    <3>2. target[k] \in Containers
      BY <3>1 DEF Aimed
    <3> QED
      BY <1>5, <2>1, <3>1, <3>2 DEF Gentle
  <2>2. ~force => \A k \in Jobs : request'[k] # "stop" /\ pc[k] \notin {"stop", "stopping"}
    BY <1>1 DEF Gentle, TypeOK
  <2> QED
    BY <1>1, <2>1, <2>2 DEF Gentle
<1>10. RunningSpared'
  <2>1. ~force /\ ctr[c] = "running" => initially[c] = "created"
    BY <1>1 DEF Gentle, NotRunning
  <2> QED
    BY <1>1, <2>1 DEF RunningSpared
<1> QED
  BY <1>5, <1>6, <1>7, <1>8, <1>9, <1>10

LEMMA OtherStep ==
  ASSUME Inv, NEW c \in Containers, OtherStarts(c) \/ Exits(c) \/ OtherRemoves(c)
  PROVE  Inv'
<1> USE DEF flags, Inv
<1>1. PICK s \in States \cup {"removed"} : Onward(c, s)
  BY DEF OtherStarts, Exits, OtherRemoves, Other, Onward, States
<1>2. UNCHANGED <<flags, target, initially, logs, pc, request, result, killed>>
  BY DEF OtherStarts, Exits, OtherRemoves, Other
<1>3. /\ ctr' \in [Containers -> States \cup {"removed"}]
      /\ History' /\ LogsOutliveContainer' /\ Joined'
      /\ \A d \in Containers : ctr[d] = "removed" => ctr'[d] = "removed"
      /\ \A d \in Containers : ctr[d] \in NotRunning => ctr'[d] \in NotRunning
  BY <1>1, <1>2, OnwardStep
<1>4. TypeOK' /\ Aimed' /\ RunningSpared'
  BY <1>2, <1>3 DEF TypeOK, Aimed, RunningSpared
<1>5. Gone'
  BY <1>2, <1>3 DEF Gone, Aimed
<1>6. Gentle'
  BY <1>2, <1>3 DEF Gentle, Aimed
<1> QED
  BY <1>3, <1>4, <1>5, <1>6

LEMMA LoseStep ==
  ASSUME Inv, NEW j \in Jobs, Lose(j)
  PROVE  Inv'
<1> USE DEF flags, Inv
<1>1. /\ pc[j] = "err" /\ request' = [request EXCEPT ![j] = "none"]
      /\ UNCHANGED <<flags, target, initially, ctr, logs, pc, result, killed>>
  BY DEF Lose
<1>2. TypeOK' /\ History' /\ RunningSpared' /\ LogsOutliveContainer' /\ Joined'
  BY <1>1 DEF TypeOK, History, RunningSpared, LogsOutliveContainer, Joined
<1>3. Aimed' /\ Gone' /\ Gentle'
  BY <1>1 DEF Aimed, Gone, Gentle, TypeOK
<1> QED
  BY <1>2, <1>3

LEMMA ReturnStep ==
  ASSUME Inv, Return
  PROVE  Inv'
<1> USE DEF flags, Inv
<1>1. UNCHANGED <<flags, target, initially, ctr, logs, pc, request, killed>>
  BY DEF Return
<1>2. TypeOK' /\ Joined'
  BY ContainersAssumption DEF TypeOK, Joined, Return, Ended, JobStates
<1>3. Aimed' /\ Gone' /\ History' /\ Gentle' /\ RunningSpared' /\ LogsOutliveContainer'
  BY <1>1 DEF Aimed, Gone, History, Gentle, RunningSpared, LogsOutliveContainer
<1> QED
  BY <1>2, <1>3

LEMMA StepInv == Inv /\ [Next]_vars => Inv'
<1> SUFFICES ASSUME Inv, [Next]_vars PROVE Inv'
  OBVIOUS
<1>1. CASE CollectArgs \/ CollectAll \/ CollectFails
  BY <1>1, CollectStep
<1>2. CASE Return
  BY <1>2, ReturnStep
<1>3. CASE \E j \in Jobs : \/ Status(j) \/ SendStop(j) \/ Stopped(j) \/ SendRemove(j)
                           \/ Removed(j) \/ Fail(j) \/ DeleteLogs(j)
  BY <1>3, JobStep
<1>4. CASE \E j \in Jobs : Perform(j) \/ Lose(j)
  BY <1>4, PerformStep, LoseStep
<1>5. CASE \E c \in Containers : OtherStarts(c) \/ Exits(c) \/ OtherRemoves(c)
  BY <1>5, OtherStep
<1>6. CASE UNCHANGED vars
  BY <1>6 DEF vars, flags, Inv, TypeOK, Aimed, Gone, History, Gentle, RunningSpared,
              LogsOutliveContainer, Joined
<1> QED
  BY <1>1, <1>2, <1>3, <1>4, <1>5, <1>6 DEF Next

LEMMA Invariance == Spec => []Inv
  BY InitInv, StepInv, PTL DEF Spec

-----------------------------------------------------------------------------
(* Types of the variables of rm: flags, containers, goroutines, requests.   *)
THEOREM TypeCorrect == Spec => []TypeOK
<1>1. Inv => TypeOK
  BY DEF Inv
<1> QED
  BY <1>1, Invariance, PTL

(* When rm returns nil, every container it was to remove is gone, and its   *)
(* log too unless --keep-logs, or a file left of it is reported.            *)
THEOREM NilCorrect == Spec => []NilMeansRemoved
<1>1. Inv => NilMeansRemoved
  <2> SUFFICES ASSUME Inv, result = "nil", NEW c \in Named
               PROVE  ctr[c] = "removed" /\ (~keepLogs => logs[c] # "kept")
    BY DEF NilMeansRemoved
  <2>1. PICK j \in Jobs : target[j] = c /\ c # None
    BY DEF Named
  <2>2. pc[j] = "ok"
    BY <2>1 DEF Inv, Joined
  <2> QED
    BY <2>1, <2>2 DEF Inv, Gone
<1> QED
  BY <1>1, Invariance, PTL

(* Without --force, rm ends no container that ran before the command.       *)
THEOREM SparedCorrect == Spec => []RunningSpared
<1>1. Inv => RunningSpared
  BY DEF Inv
<1> QED
  BY <1>1, Invariance, PTL

(* The log of a container is deleted only once the container is gone,       *)
(* however many goroutines work on it and whichever of them fail.           *)
THEOREM LogsCorrect == Spec => []LogsOutliveContainer
<1>1. Inv => LogsOutliveContainer
  BY DEF Inv
<1> QED
  BY <1>1, Invariance, PTL

-----------------------------------------------------------------------------
(* crictl exec.                                                              *)
(* A function that has sent its result is at its end, and only such a       *)
(* result is received; crictl ends when it has received all.                *)
ExecBookkeeping ==
  /\ \A i \in Ids : sent[i] # "none" <=> place[i] = "sent"
  /\ \A i \in collected : sent[i] # "none"
  /\ exit # Running => collected = Ids
  /\ exit # Running /\ ~ignoreErrors =>
       (exit = 1 <=> \E i \in Ids : sent[i] = "err")
  /\ exit # Running /\ ignoreErrors => exit = 0

(* With --sync the result sent is the function's own. *)
SyncResults ==
  sync => \A i \in Ids : /\ place[i] \notin {"assign", "test"}
                         /\ sent[i] # "none" => sent[i] = ErrorOf(i)

(* If all commands succeed nobody ever writes an error. *)
AllSucceed ==
  (\A i \in Ids : Succeeds(i)) =>
    /\ shared = "nil"
    /\ \A i \in Ids : local[i] = "nil" /\ sent[i] # "err"

(* If all commands fail nobody ever writes nil; err is nil only before the  *)
(* first assignment, and nobody tests it before.                            *)
AllFail ==
  (\A i \in Ids : ~Succeeds(i)) =>
    \A i \in Ids : /\ place[i] = "assign" => local[i] = "err"
                   /\ place[i] = "test" => shared = "err"
                   /\ sent[i] # "nil"

ExecParts == ExecBookkeeping /\ SyncResults /\ AllSucceed /\ AllFail

ExecInv == ExecTypeOK /\ ExecParts

-----------------------------------------------------------------------------
(* Type correctness of crictl exec. *)
THEOREM ExecTypeCorrect == ExecSpec => []ExecTypeOK
<1> USE DEF ExecTypeOK, Errors, Running, NoCall
<1>1. ExecInit => ExecTypeOK
  BY DEF ExecInit
<1>2. ExecTypeOK /\ [ExecNext]_execVars => ExecTypeOK'
  <2> SUFFICES ASSUME ExecTypeOK, [ExecNext]_execVars PROVE ExecTypeOK'
    OBVIOUS
  <2> USE DEF execFlags
  <2>1. CASE ExecReturn
    BY <2>1 DEF ExecReturn
  <2>2. ASSUME NEW i \in Ids, Begin(i) PROVE ExecTypeOK'
    BY <2>2 DEF Begin
  <2>3. ASSUME NEW i \in Ids, SyncEnds(i) PROVE ExecTypeOK'
    BY <2>3 DEF SyncEnds, ErrorOf
  <2>4. ASSUME NEW i \in Ids, StreamEnds(i) PROVE ExecTypeOK'
    BY <2>4 DEF StreamEnds, ErrorOf
  <2>5. ASSUME NEW i \in Ids, Assign(i) PROVE ExecTypeOK'
    BY <2>5 DEF Assign
  <2>6. ASSUME NEW i \in Ids, Test(i) PROVE ExecTypeOK'
    BY <2>6 DEF Test
  <2>7. ASSUME NEW i \in Ids, Collect(i) PROVE ExecTypeOK'
    BY <2>7 DEF Collect
  <2>8. CASE UNCHANGED execVars
    BY <2>8 DEF execVars
  <2> QED
    BY <2>1, <2>2, <2>3, <2>4, <2>5, <2>6, <2>7, <2>8 DEF ExecNext
<1> QED
  BY <1>1, <1>2, PTL DEF ExecSpec

LEMMA ExecInductive == ExecSpec => []ExecInv
<1> USE DEF Errors, Running, NoCall
<1>1. ExecInit => ExecParts
  BY DEF ExecInit, ExecParts, ExecBookkeeping, SyncResults, AllSucceed, AllFail
<1>2. ExecInv /\ [ExecNext]_execVars => ExecParts'
  <2> SUFFICES ASSUME ExecTypeOK, ExecParts, [ExecNext]_execVars PROVE ExecParts'
    BY DEF ExecInv
  <2> USE DEF execFlags, Succeeds, ErrorOf, ExecTypeOK, ExecParts
  <2>1. ExecBookkeeping'
    <3> USE DEF ExecBookkeeping
    <3>1. CASE ExecReturn
      BY <3>1 DEF ExecReturn
    <3>2. ASSUME NEW i \in Ids, Begin(i) \/ StreamEnds(i) \/ Assign(i)
          PROVE  ExecBookkeeping'
      BY <3>2 DEF Begin, StreamEnds, Assign
    <3>3. ASSUME NEW i \in Ids, SyncEnds(i) \/ Test(i)
          PROVE  ExecBookkeeping'
      <4>1. exit = Running
        BY <3>3 DEF SyncEnds, Test
      <4> QED
        BY <3>3, <4>1 DEF SyncEnds, Test
    <3>4. ASSUME NEW i \in Ids, Collect(i) PROVE ExecBookkeeping'
      BY <3>4 DEF Collect
    <3>5. CASE UNCHANGED execVars
      BY <3>5 DEF execVars
    <3> QED
      BY <3>1, <3>2, <3>3, <3>4, <3>5 DEF ExecNext
  <2>2. SyncResults'
    <3> USE DEF SyncResults
    <3>1. CASE ExecReturn
      BY <3>1 DEF ExecReturn
    <3>2. ASSUME NEW i \in Ids, Begin(i) PROVE SyncResults'
      BY <3>2 DEF Begin
    <3>3. ASSUME NEW i \in Ids, SyncEnds(i) PROVE SyncResults'
      <4> SUFFICES ASSUME NEW j \in Ids
                   PROVE  /\ place'[j] \notin {"assign", "test"}
                          /\ sent'[j] # "none" => sent'[j] = ErrorOf(j)
        BY <3>3 DEF SyncEnds
      <4>1. CASE i = j
        BY <3>3, <4>1 DEF SyncEnds
      <4>2. CASE i # j
        BY <3>3, <4>2 DEF SyncEnds
      <4> QED
        BY <4>1, <4>2
    <3>4. ASSUME NEW i \in Ids, StreamEnds(i) \/ Assign(i) \/ Test(i)
          PROVE  SyncResults'
      BY <3>4 DEF StreamEnds, Assign, Test
    <3>5. ASSUME NEW i \in Ids, Collect(i) PROVE SyncResults'
      BY <3>5 DEF Collect
    <3>6. CASE UNCHANGED execVars
      BY <3>6 DEF execVars
    <3> QED
      BY <3>1, <3>2, <3>3, <3>4, <3>5, <3>6 DEF ExecNext
  <2>3. AllSucceed'
    BY DEF AllSucceed, ExecNext, execVars, ExecReturn, Begin, SyncEnds,
           StreamEnds, Assign, Test, Collect
  <2>4. AllFail'
    BY DEF AllFail, ExecNext, execVars, ExecReturn, Begin, SyncEnds,
           StreamEnds, Assign, Test, Collect
  <2> QED
    BY <2>1, <2>2, <2>3, <2>4
<1> QED
  BY <1>1, <1>2, ExecTypeCorrect, PTL DEF ExecSpec, ExecInv

(* With --sync the exit status of crictl tells whether every command        *)
(* succeeded, however many there are and in whatever order they end.        *)
THEOREM SyncCorrect == ExecSpec => []SyncExitStatus
<1>1. ExecInv => SyncExitStatus
  <2> SUFFICES ASSUME ExecInv, sync, exit # Running
               PROVE  exit = 0 <=> ignoreErrors \/ \A i \in Ids : Succeeds(i)
    BY DEF SyncExitStatus
  <2> USE DEF ExecInv, ExecParts, ExecBookkeeping, Running
  <2>1. \A i \in Ids : sent[i] = ErrorOf(i)
    BY DEF SyncResults
  <2>2. CASE ignoreErrors
    BY <2>2
  <2>3. CASE ~ignoreErrors
    <3>1. exit = 1 <=> \E i \in Ids : sent[i] = "err"
      BY <2>3
    <3>2. exit \in {0, 1}
      BY DEF ExecTypeOK
    <3> QED
      BY <2>1, <2>3, <3>1, <3>2 DEF ErrorOf
  <2> QED
    BY <2>2, <2>3
<1> QED
  BY <1>1, ExecInductive, PTL

(* Whatever the race on err does, a unanimous outcome is reported. *)
THEOREM UnanimousCorrect == ExecSpec => []UnanimousOutcome
<1>1. ExecInv => UnanimousOutcome
  <2> SUFFICES ASSUME ExecInv, exit # Running, ~ignoreErrors
               PROVE  /\ (\A i \in Ids : Succeeds(i)) => exit = 0
                      /\ (\A i \in Ids : ~Succeeds(i)) => exit = 1
    BY DEF UnanimousOutcome
  <2>1. /\ exit = 1 <=> \E i \in Ids : sent[i] = "err"
        /\ \A i \in Ids : sent[i] \in Errors
        /\ exit \in {0, 1}
    BY DEF ExecInv, ExecParts, ExecBookkeeping, ExecTypeOK, Running
  <2>2. ASSUME \A i \in Ids : Succeeds(i) PROVE exit = 0
    BY <2>1, <2>2 DEF ExecInv, ExecParts, AllSucceed
  <2>3. ASSUME \A i \in Ids : ~Succeeds(i) PROVE exit = 1
    BY <2>1, <2>3, IdsAssumption DEF ExecInv, ExecParts, AllFail, Errors
  <2> QED
    BY <2>2, <2>3
<1> QED
  BY <1>1, ExecInductive, PTL

(* crictl exec never exits before every command has ended. *)
THEOREM WaitsForAll == ExecSpec => []NoCommandAbandoned
<1>1. ExecInv => NoCommandAbandoned
  BY DEF ExecInv, ExecParts, ExecBookkeeping, NoCommandAbandoned
<1> QED
  BY <1>1, ExecInductive, PTL

-----------------------------------------------------------------------------
(* The benchmark and its results manager. *)

(* A sample handed out by gmeasure is registered, held by the consumer, or  *)
(* still a worker's task, unless the spec body has failed.                  *)
SamplesAccounted ==
  main # "failed" =>
    \A i \in Samples :
      i < nextIdx => \/ i \in datapoints
                     \/ i = held
                     \/ \E w \in Workers : task[w] = i

(* Outside of Sample every worker is idle; the body sends nil when every sample was handed out.     *)
AllHandedOut ==
  main \notin {"sampling", "failed"} =>
    /\ nextIdx = IF main = "start" THEN 0 ELSE NumSamples
    /\ \A w \in Workers : task[w] = NoSample

(* The consumer registers a datapoint of a sample. *)
HeldOK == consumer = "registering" => held # NoSample

(* The consumer ends when the body has sent nil, holds a datapoint only     *)
(* while it registers it, clears the flag when it ends, and has ended only  *)
(* when AwaitAllResults has heard of it.                                    *)
ConsumerInStep ==
  /\ consumer \in {"ending", "over", "ended"} <=>
       main \in {"checkFlag", "awaiting", "write", "done"}
  /\ held # NoSample => consumer = "registering"
  /\ consumer \in {"waiting", "registering", "ending"} => running = "yes"
  /\ main = "start" <=> consumer = "none"
  /\ consumer = "none" => running = "no"
  /\ consumer = "ended" => main \in {"write", "done"}

BenchInv ==
  /\ BenchTypeOK /\ HeldOK
  /\ SamplesAccounted /\ AllHandedOut /\ ConsumerInStep /\ ResultsComplete

-----------------------------------------------------------------------------
(* Type correctness of the benchmark and its results manager. *)
THEOREM BenchTypeCorrect == BenchSpec => [](BenchTypeOK /\ HeldOK)
<1> USE SamplesAssumption, OpsAssumption DEF BenchTypeOK, HeldOK, MainStates, ConsumerStates,
        Samples, NoSample
<1>1. BenchInit => BenchTypeOK /\ HeldOK
  BY DEF BenchInit
<1>2. BenchTypeOK /\ HeldOK /\ [BenchNext]_benchVars => BenchTypeOK' /\ HeldOK'
  <2> SUFFICES ASSUME BenchTypeOK, HeldOK, [BenchNext]_benchVars PROVE BenchTypeOK' /\ HeldOK'
    OBVIOUS
  <2> USE DEF workerVars, consumerVars
  <2>1. CASE StartResultsConsumer \/ SampleReturns
    BY <2>1 DEF StartResultsConsumer, SampleReturns
  <2>2. CASE ConsumerTimeout \/ SendNil \/ ClearRunning
    BY <2>2 DEF ConsumerTimeout, SendNil, ClearRunning
  <2>9. CASE Register
    <3>1. held \in Samples
      BY <2>9 DEF Register
    <3> QED
      BY <2>9, <3>1 DEF Register
  <2>3. CASE AwaitChecksFlag \/ ResultsOver \/ AwaitTimeout \/ WriteResultsFile
    BY <2>3 DEF AwaitChecksFlag, ResultsOver, AwaitTimeout, WriteResultsFile
  <2>4. ASSUME NEW w \in Workers, Dispatch(w) PROVE BenchTypeOK' /\ HeldOK'
    BY <2>4 DEF Dispatch
  <2>5. ASSUME NEW w \in Workers, Operate(w) PROVE BenchTypeOK' /\ HeldOK'
    BY <2>5 DEF Operate
  <2>6. ASSUME NEW w \in Workers, OperationFails(w) PROVE BenchTypeOK' /\ HeldOK'
    BY <2>6 DEF OperationFails
  <2>7. ASSUME NEW w \in Workers, SendResult(w) PROVE BenchTypeOK' /\ HeldOK'
    BY <2>7 DEF SendResult
  <2>8. CASE UNCHANGED benchVars
    BY <2>8 DEF benchVars
  <2> QED
    BY <2>1, <2>2, <2>3, <2>4, <2>5, <2>6, <2>7, <2>8, <2>9
    DEF BenchNext
<1> QED
  BY <1>1, <1>2, PTL DEF BenchSpec

LEMMA BenchInductive == BenchSpec => []BenchInv
<1> USE SamplesAssumption, OpsAssumption DEF Samples, NoSample
<1>1. BenchInit => BenchInv
  <2> SUFFICES ASSUME BenchInit PROVE BenchInv
    OBVIOUS
  <2> USE DEF BenchInit
  <2>1. BenchTypeOK /\ HeldOK
    BY DEF BenchTypeOK, HeldOK, MainStates, ConsumerStates
  <2>2. SamplesAccounted
    <3>1. \A i \in Samples : ~(i < nextIdx)
      OBVIOUS
    <3> QED
      BY <3>1 DEF SamplesAccounted
  <2>3. AllHandedOut
    BY DEF AllHandedOut
  <2>4. ConsumerInStep /\ ResultsComplete
    BY DEF ConsumerInStep, ResultsComplete
  <2> QED
    BY <2>1, <2>2, <2>3, <2>4 DEF BenchInv
<1>2. BenchInv /\ [BenchNext]_benchVars
        => SamplesAccounted' /\ AllHandedOut' /\ ConsumerInStep' /\ ResultsComplete'
  <2> SUFFICES ASSUME BenchTypeOK, SamplesAccounted, AllHandedOut, ConsumerInStep,
                      ResultsComplete, [BenchNext]_benchVars
               PROVE  /\ SamplesAccounted' /\ AllHandedOut'
                      /\ ConsumerInStep' /\ ResultsComplete'
    BY DEF BenchInv
  <2> USE DEF workerVars, consumerVars, BenchTypeOK, SamplesAccounted, AllHandedOut,
              ConsumerInStep, ResultsComplete
  <2>1. CASE StartResultsConsumer
    <3>1. nextIdx' = 0 /\ \A i \in Samples : ~(i < 0)
      BY <2>1 DEF StartResultsConsumer
    <3>2. SamplesAccounted'
      BY <3>1
    <3>3. AllHandedOut' /\ ConsumerInStep' /\ ResultsComplete'
      BY <2>1 DEF StartResultsConsumer
    <3> QED
      BY <3>2, <3>3
  <2>2. CASE SampleReturns
    BY <2>2 DEF SampleReturns
  <2>3. CASE Register
    BY <2>3 DEF Register
  <2>4. CASE ConsumerTimeout
    BY <2>4 DEF ConsumerTimeout
  <2>5. CASE SendNil
    <3>1. \A i \in Samples : i \in datapoints
      BY <2>5 DEF SendNil
    <3> QED
      BY <2>5, <3>1 DEF SendNil
  <2>6. CASE ClearRunning
    BY <2>6 DEF ClearRunning
  <2>7. CASE AwaitChecksFlag
    BY <2>7 DEF AwaitChecksFlag
  <2>8. CASE ResultsOver \/ AwaitTimeout
    BY <2>8 DEF ResultsOver, AwaitTimeout
  <2>9. CASE WriteResultsFile
    BY <2>9 DEF WriteResultsFile
  <2>10. ASSUME NEW w \in Workers, Dispatch(w)
         PROVE  /\ SamplesAccounted' /\ AllHandedOut'
                /\ ConsumerInStep' /\ ResultsComplete'
    BY <2>10 DEF Dispatch
  <2>11. ASSUME NEW w \in Workers, Operate(w)
         PROVE  /\ SamplesAccounted' /\ AllHandedOut'
                /\ ConsumerInStep' /\ ResultsComplete'
    BY <2>11 DEF Operate
  <2>12. ASSUME NEW w \in Workers, OperationFails(w)
         PROVE  /\ SamplesAccounted' /\ AllHandedOut'
                /\ ConsumerInStep' /\ ResultsComplete'
    <3>1. main \in {"sampling", "failed"} /\ main' \in {"sampling", "failed"}
      BY <2>12 DEF OperationFails
    <3> QED
      BY <2>12 DEF OperationFails
  <2>13. ASSUME NEW w \in Workers, SendResult(w)
         PROVE  /\ SamplesAccounted' /\ AllHandedOut'
                /\ ConsumerInStep' /\ ResultsComplete'
    BY <2>13 DEF SendResult
  <2>14. CASE UNCHANGED benchVars
    BY <2>14 DEF benchVars
  <2> QED
    BY <2>1, <2>2, <2>3, <2>4, <2>5, <2>6, <2>7, <2>8, <2>9, <2>10, <2>11,
       <2>12, <2>13, <2>14 DEF BenchNext
<1> QED
  BY <1>1, <1>2, BenchTypeCorrect, PTL DEF BenchSpec, BenchInv

(* A results file that a benchmark writes has every sample. *)
THEOREM ResultsCorrect == BenchSpec => []ResultsComplete
<1>1. BenchInv => ResultsComplete
  BY DEF BenchInv
<1> QED
  BY <1>1, BenchInductive, PTL

(* The file is written only after the consumer has declared its end. *)
THEOREM WriteCorrect == BenchSpec => WriteAfterEnd
<1>1. BenchInv /\ [BenchNext]_benchVars
        => [file' # file => consumer \in {"over", "ended"}]_benchVars
  <2> SUFFICES ASSUME BenchTypeOK, ConsumerInStep, BenchNext, file' # file
               PROVE  consumer \in {"over", "ended"}
    BY DEF BenchInv
  <2>1. WriteResultsFile
    BY DEF BenchNext, StartResultsConsumer, SampleReturns, Register,
           ConsumerTimeout, SendNil, ClearRunning, AwaitChecksFlag, ResultsOver,
           AwaitTimeout, Dispatch, Operate, OperationFails, SendResult
  <2> QED
    BY <2>1 DEF WriteResultsFile, ConsumerInStep, BenchTypeOK, ConsumerStates
<1> QED
  BY <1>1, BenchInductive, PTL DEF BenchSpec, WriteAfterEnd

(* No sender and no receiver is left waiting for a partner that has gone.    *)
THEOREM PartnersCorrect == BenchSpec => []PartnersRemain
<1>1. BenchInv => PartnersRemain
  BY DEF BenchInv, BenchTypeOK, ConsumerStates, ConsumerInStep, PartnersRemain
<1> QED
  BY <1>1, BenchInductive, PTL
=============================================================================
