---------------------- MODULE SequentialCommandProofs ----------------------
(* Proofs about SequentialCommand for any number of containers and ids.    *)
EXTENDS SequentialCommand, SequenceTheorems, FiniteSetTheorems, TLAPS

(* Where the command is among its ids. *)
Place ==
  /\ phase = "collect" => ids = <<>> /\ pos = 1
  /\ phase \in {"call", "wait"} => pos <= Len(ids)
  /\ result = "none" <=> phase # "done"
  /\ result = "nil" => phase = "done" /\ pos = Len(ids) + 1

(* The calls performed are those of the ids before the one in hand, and     *)
(* perhaps its own; nothing else is pending.                                *)
Effects ==
  /\ performed \in {1..(pos - 1), 1..pos}
  /\ pending \subseteq {pos} \ performed
  /\ phase \in {"collect", "call"} \/ result = "nil" =>
       performed = 1..(pos - 1) /\ pending = {}

(* The ids printed are those before the one in hand. *)
Output ==
  /\ Len(printed) = pos - 1
  /\ \A i \in 1..(pos - 1) : printed[i] = ids[i]

(* A container stop has been performed on runs only if it was started since. *)
StopsHold ==
  command = "stop" =>
    \A i \in performed : ctr[ids[i]] = "running" => ids[i] \in startedLate

(* The list of stop --all names every container that has run since it began. *)
ListComplete ==
  all /\ (ids # <<>> \/ result = "nil") =>
    \A c \in Running \ startedLate : \E i \in 1..Len(ids) : ids[i] = c

Sequence == IdsTypeOK /\ StateTypeOK /\ Place /\ Effects /\ Output

-----------------------------------------------------------------------------
(* A list of ids is a sequence, and not empty. *)
LEMMA ListIsSeq ==
  ASSUME NEW S \in SUBSET Containers, NEW n \in Nat \ {0}, NEW list \in [1..n -> S]
  PROVE  list \in Seq(Containers) /\ Len(list) = n
<1>1. list \in Seq(S) /\ list \in Seq(Containers)
  BY SeqDef
<1>2. Len(list) \in Nat /\ 1..Len(list) = 1..n
  BY <1>1, LenProperties
<1> QED
  BY <1>1, <1>2

LEMMA RunningCount == Running # {} => Cardinality(Running) \in Nat \ {0}
<1>1. IsFiniteSet(Running)
  BY ContainersAssumption, FS_Subset DEF Running
<1> QED
  BY <1>1, FS_CardinalityType, FS_EmptySet

LEMMA CollectedIsSeq ==
  ASSUME CollectArgs \/ CollectAll
  PROVE  /\ phase = "collect" /\ phase' = "call"
         /\ ids' \in Seq(Containers) /\ Len(ids') \in Nat \ {0}
         /\ UNCHANGED <<pos, pending, performed, printed, ctr, startedLate, result>>
<1>1. CASE CollectArgs
  <2>1. PICK n \in 1..MaxIds : \E given \in [1..n -> Containers] : Collected(given)
    BY <1>1 DEF CollectArgs
  <2>2. n \in Nat \ {0}
    BY MaxIdsAssumption
  <2> QED
    BY <2>1, <2>2, ListIsSeq DEF Collected, calls, world
<1>2. CASE CollectAll
  <2>1. PICK list \in [1..Cardinality(Running) -> Running] : Collected(list)
    BY <1>2 DEF CollectAll
  <2>2. Running \in SUBSET Containers
    BY DEF Running
  <2> QED
    BY <1>2, <2>1, <2>2, RunningCount, ListIsSeq DEF CollectAll, Collected, calls, world
<1> QED
  BY <1>1, <1>2

LEMMA SequenceStep == Sequence /\ [Next]_vars => Sequence'
<1> SUFFICES ASSUME Sequence, [Next]_vars PROVE Sequence'
  OBVIOUS
<1> USE DEF Sequence, IdsTypeOK, StateTypeOK, Place, Effects, Output, End
<1>1. Len(ids) \in Nat /\ Len(printed) \in Nat /\ Len(<<>>) = 0
  BY LenProperties, EmptySeq
<1>2. CASE CollectArgs \/ CollectAll
  <2>1. /\ phase = "collect" /\ phase' = "call"
        /\ ids' \in Seq(Containers) /\ Len(ids') \in Nat \ {0}
        /\ UNCHANGED <<pos, pending, performed, printed, ctr, startedLate, result>>
    BY <1>2, CollectedIsSeq
  <2>2. pos' = 1 /\ performed' = {} /\ pending' = {} /\ Len(printed') = 0
        /\ result = "none"
    BY <2>1
  <2>3. IdsTypeOK' /\ StateTypeOK'
    BY <2>1, <2>2
  <2>4. Place' /\ Effects' /\ Output'
    BY <2>1, <2>2
  <2> QED
    BY <2>3, <2>4
<1>3. CASE CollectNothing \/ CollectFails
  <2>1. /\ phase = "collect" /\ phase' = "done" /\ result' \in {"nil", "error"}
        /\ UNCHANGED <<ids, pos, pending, performed, printed, ctr, startedLate>>
    BY <1>3 DEF CollectNothing, CollectFails, calls, world
  <2>2. ids = <<>> /\ Len(ids) = 0 /\ pos = 1 /\ performed = {} /\ pending = {}
    BY <1>1, <2>1
  <2>3. IdsTypeOK' /\ StateTypeOK'
    BY <2>1
  <2>4. Place' /\ Effects' /\ Output'
    BY <2>1, <2>2
  <2> QED
    BY <2>3, <2>4
<1>4. CASE Call
  BY <1>1, <1>4 DEF Call, world
<1>5. CASE Fail
  BY <1>1, <1>5 DEF Fail, calls, world
<1>6. CASE Reply
  <2>1. /\ phase = "wait" /\ pos \in performed /\ pos' = pos + 1
        /\ printed' = Append(printed, ids[pos])
        /\ UNCHANGED <<ids, pending, performed, ctr, startedLate>>
    BY <1>6 DEF Reply, calls, world
  <2>2. performed = 1..pos /\ pending = {} /\ pos \in 1..Len(ids)
    BY <2>1
  <2>3. /\ printed' \in Seq(Containers) /\ Len(printed') = pos
        /\ \A i \in 1..pos : printed'[i] = ids[i]
    BY <1>1, <2>1, <2>2
  <2>4. IF pos = Len(ids) THEN phase' = "done" /\ result' = "nil"
                          ELSE phase' = "call" /\ result' = "none"
    BY <1>6 DEF Reply
  <2>5. IdsTypeOK' /\ StateTypeOK'
    BY <1>1, <2>1, <2>2, <2>3, <2>4
  <2>6. Place'
    BY <1>1, <2>1, <2>2, <2>4
  <2>7. Effects' /\ Output'
    BY <1>1, <2>1, <2>2, <2>3, <2>4
  <2> QED
    BY <2>5, <2>6, <2>7
<1>7. CASE Perform
  <2>1. PICK i \in pending :
          /\ pending' = pending \ {i} /\ performed' = performed \cup {i}
          /\ ctr' = ctr \/ ctr' = [ctr EXCEPT ![ids[i]] = "running"]
               \/ ctr' = [ctr EXCEPT ![ids[i]] = IF @ = "running" THEN "exited" ELSE @]
    BY <1>7 DEF Perform
  <2>2. i = pos /\ performed = 1..(pos - 1) /\ pos <= Len(ids)
    BY <2>1
  <2>3. performed' = 1..pos /\ pending' = {}
    BY <2>1, <2>2
  <2>4. ctr' \in [Containers -> States]
    BY <2>1 DEF States
  <2> QED
    BY <1>7, <2>2, <2>3, <2>4 DEF Perform
<1>8. CASE Drop
  BY <1>8 DEF Drop, world
<1>9. ASSUME NEW c \in Containers, OtherStarts(c) \/ Exits(c) PROVE Sequence'
  BY <1>9 DEF OtherStarts, Exits, calls, States
<1>10. CASE UNCHANGED vars
  BY <1>10 DEF vars, calls, world
<1> QED
  BY <1>2, <1>3, <1>4, <1>5, <1>6, <1>7, <1>8, <1>9, <1>10 DEF Next

-----------------------------------------------------------------------------
LEMMA StopsStep == Sequence /\ StopsHold /\ [Next]_vars => StopsHold'
<1> SUFFICES ASSUME Sequence, StopsHold, [Next]_vars,
                    command' = "stop", NEW i \in performed', ctr'[ids'[i]] = "running"
             PROVE  ids'[i] \in startedLate'
  BY DEF StopsHold
<1>1. command = "stop"
  BY DEF vars, args, Next, CollectArgs, CollectAll, Collected, CollectNothing,
         CollectFails, Call, Fail, Reply, Perform, Drop, OtherStarts, Exits
<1>2. \A j \in performed : ctr[ids[j]] = "running" => ids[j] \in startedLate
  BY <1>1 DEF StopsHold
<1>3. performed \subseteq 1..Len(ids) /\ ids \in Seq(Containers)
      /\ ctr \in [Containers -> States] /\ pending \subseteq 1..Len(ids)
  BY DEF Sequence, IdsTypeOK, StateTypeOK
<1>4. CASE CollectArgs \/ CollectAll
  <2>1. performed' = {}
    BY <1>4, CollectedIsSeq DEF Sequence, Place, Effects
  <2> QED
    BY <2>1
<1>5. CASE \/ CollectNothing \/ CollectFails \/ Call \/ Fail \/ Reply \/ Drop
           \/ UNCHANGED vars
  <2>1. UNCHANGED <<ids, performed, ctr, startedLate>>
    BY <1>5 DEF CollectNothing, CollectFails, Call, Fail, Reply, Drop, vars,
                calls, world
  <2> QED
    BY <1>2, <2>1
<1>6. CASE Perform
  <2>1. PICK j \in pending :
          /\ performed' = performed \cup {j}
          /\ ctr' = [ctr EXCEPT ![ids[j]] = IF @ = "running" THEN "exited" ELSE @]
    BY <1>1, <1>6 DEF Perform
  <2>2. UNCHANGED <<ids, startedLate>>
    BY <1>6 DEF Perform
  <2>3. ids[j] \in Containers /\ ids[i] \in Containers
    BY <1>3, <2>1
  <2>4. ids[i] # ids[j] /\ ctr[ids[i]] = "running"
    BY <1>3, <2>1, <2>2, <2>3
  <2> QED
    BY <1>2, <2>1, <2>2, <2>4
<1>7. ASSUME NEW c \in Containers, OtherStarts(c) PROVE ids'[i] \in startedLate'
  <2>1. UNCHANGED <<ids, performed>> /\ ids[i] \in Containers
    BY <1>3, <1>7 DEF OtherStarts, calls
  <2> QED
    BY <1>2, <1>3, <1>7, <2>1 DEF OtherStarts
<1>8. ASSUME NEW c \in Containers, Exits(c) PROVE ids'[i] \in startedLate'
  <2>1. UNCHANGED <<ids, performed>> /\ ids[i] \in Containers
    BY <1>3, <1>8 DEF Exits, calls
  <2> QED
    BY <1>2, <1>3, <1>8, <2>1 DEF Exits
<1> QED
  BY <1>4, <1>5, <1>6, <1>7, <1>8 DEF Next

LEMMA ListStep ==
  ArgsTypeOK /\ Sequence /\ ListComplete /\ [Next]_vars => ListComplete'
<1> SUFFICES ASSUME ArgsTypeOK, Sequence, ListComplete, [Next]_vars,
                    all', ids' # <<>> \/ result' = "nil",
                    NEW c \in Running' \ startedLate'
             PROVE  \E i \in 1..Len(ids') : ids'[i] = c
  BY DEF ListComplete
<1>1. all
  BY DEF vars, args, Next, CollectArgs, CollectAll, Collected, CollectNothing,
         CollectFails, Call, Fail, Reply, Perform, Drop, OtherStarts, Exits
<1>2. ctr \in [Containers -> States] /\ c \in Containers /\ ctr'[c] = "running"
  BY DEF Sequence, StateTypeOK, Running
<1>3. ASSUME ids # <<>> \/ result = "nil", ids' = ids, c \in Running \ startedLate
      PROVE  \E i \in 1..Len(ids') : ids'[i] = c
  BY <1>1, <1>3 DEF ListComplete
<1>4. CASE CollectArgs \/ CollectAll
  <2>1. CollectAll
    BY <1>1, <1>4 DEF CollectArgs
  <2>2. PICK list \in [1..Cardinality(Running) -> Running] :
          /\ \A d \in Running : \E i \in DOMAIN list : list[i] = d
          /\ Collected(list)
    BY <2>1 DEF CollectAll
  <2>3. ids' = list /\ c \in Running
    BY <1>2, <2>2 DEF Collected, world, Running
  <2>4. ids' \in Seq(Containers)
    BY <1>4, CollectedIsSeq
  <2> QED
    BY <2>2, <2>3, <2>4, LenProperties
<1>5. CASE CollectNothing
  BY <1>2, <1>5 DEF CollectNothing, world, Running
<1>6. CASE CollectFails
  BY <1>6 DEF CollectFails, End, Sequence, Place
<1>7. CASE Call \/ Fail \/ Reply \/ Perform \/ Drop \/ UNCHANGED vars
           \/ \E d \in Containers : OtherStarts(d) \/ Exits(d)
  <2>1. ids' = ids /\ (ids = <<>> => result' = result)
    <3>1. phase \in {"call", "wait"} => ids # <<>>
      BY EmptySeq DEF Sequence, Place, IdsTypeOK
    <3> QED
      BY <1>7, <3>1 DEF Call, Fail, Reply, Perform, Drop, vars, OtherStarts, Exits
  <2>2. c \in Running \ startedLate
    <3>1. CASE Call \/ Fail \/ Reply \/ Drop \/ UNCHANGED vars
      BY <1>2, <3>1 DEF Call, Fail, Reply, Drop, vars, world, Running
    <3>2. CASE Perform
      <4>1. PICK i \in pending :
              \/ /\ command = "start"
                 /\ ctr' = [ctr EXCEPT ![ids[i]] = "running"]
              \/ ctr' = [ctr EXCEPT ![ids[i]] = IF @ = "running" THEN "exited" ELSE @]
              \/ ctr' = ctr
        BY <3>2 DEF Perform
      <4>2. command # "start"
        BY <1>1 DEF ArgsTypeOK
      <4> QED
        BY <1>2, <3>2, <4>1, <4>2 DEF Perform, Running
    <3>3. ASSUME NEW d \in Containers, OtherStarts(d) \/ Exits(d)
          PROVE  c \in Running \ startedLate
      BY <1>2, <3>3 DEF OtherStarts, Exits, Running
    <3> QED
      BY <1>7, <3>1, <3>2, <3>3
  <2> QED
    BY <1>3, <2>1, <2>2
<1> QED
  BY <1>4, <1>5, <1>6, <1>7 DEF Next

-----------------------------------------------------------------------------
LEMMA InitInv ==
  Init => ArgsTypeOK /\ Sequence /\ StopsHold /\ ListComplete
<1> SUFFICES ASSUME Init
             PROVE  ArgsTypeOK /\ Sequence /\ StopsHold /\ ListComplete
  OBVIOUS
<1>1. ArgsTypeOK
  BY DEF Init, ArgsTypeOK
<1>2. /\ ids = <<>> /\ pos = 1 /\ phase = "collect" /\ pending = {}
      /\ performed = {} /\ printed = <<>> /\ result = "none" /\ startedLate = {}
      /\ ctr \in [Containers -> States]
  BY Zenon DEF Init
<1>3. Len(ids) = 0 /\ Len(printed) = 0 /\ <<>> \in Seq(Containers)
  BY <1>2, EmptySeq
<1>4. Sequence
  BY <1>2, <1>3 DEF Sequence, IdsTypeOK, StateTypeOK, Place, Effects, Output
<1>5. StopsHold /\ ListComplete
  BY <1>2 DEF StopsHold, ListComplete
<1> QED
  BY <1>1, <1>4, <1>5

LEMMA ArgsStep == ArgsTypeOK /\ [Next]_vars => ArgsTypeOK'
<1> SUFFICES ASSUME ArgsTypeOK, [Next]_vars PROVE ArgsTypeOK'
  OBVIOUS
<1>1. UNCHANGED args
  BY DEF vars, Next, CollectArgs, CollectAll, Collected, CollectNothing,
         CollectFails, Call, Fail, Reply, Perform, Drop, OtherStarts, Exits
<1> QED
  BY <1>1 DEF args, ArgsTypeOK

LEMMA Inductive == Spec => [](ArgsTypeOK /\ Sequence /\ StopsHold /\ ListComplete)
  BY InitInv, ArgsStep, SequenceStep, StopsStep, ListStep, PTL DEF Spec

(* Type correctness of the sequential commands. *)
THEOREM TypeCorrect == Spec => []TypeOK
<1>1. ArgsTypeOK /\ Sequence => TypeOK
  BY DEF Sequence, TypeOK
<1> QED
  BY <1>1, Inductive, PTL

(* However many ids there are and whatever fails, the effects and the       *)
(* output are those of a prefix of the ids, and one call at most is in doubt. *)
THEOREM OrderCorrect == Spec => []DoneInOrder
<1>1. Sequence => DoneInOrder
  <2> SUFFICES ASSUME Sequence PROVE DoneInOrder
    OBVIOUS
  <2> USE DEF Sequence, IdsTypeOK, Place, Effects, Output
  <2>1. Len(ids) \in Nat /\ Len(printed) = pos - 1 /\ pos \in 1..Len(ids) + 1
        /\ ids \in Seq(Containers) /\ printed \in Seq(Containers)
    BY LenProperties
  <2>2. printed = SubSeq(ids, 1, pos - 1)
    <3> DEFINE prefix == SubSeq(ids, 1, pos - 1)
    <3>1. prefix \in Seq(Containers) /\ Len(prefix) = Len(printed)
          /\ \A i \in 1..Len(printed) : prefix[i] = ids[i]
      BY <2>1
    <3>2. \A i \in 1..Len(printed) : printed[i] = prefix[i]
      BY <2>1, <3>1
    <3> QED
      BY <2>1, <3>1, <3>2, SeqEqual
  <2>3. result = "nil" => printed = ids
    BY <2>1, <2>2, SubSeqFull
  <2> QED
    BY <2>2, <2>3 DEF DoneInOrder
<1> QED
  BY <1>1, Inductive, PTL

(* A container that stop has reported runs only if it was started again by  *)
(* another client.                                                          *)
THEOREM StoppedCorrect == Spec => []PrintedIsStopped
<1>1. Sequence /\ StopsHold => PrintedIsStopped
  <2> SUFFICES ASSUME Sequence, StopsHold, command = "stop",
                      NEW i \in 1..Len(printed), ctr[printed[i]] = "running"
               PROVE  printed[i] \in startedLate
    BY DEF PrintedIsStopped
  <2>1. i \in performed /\ printed[i] = ids[i]
    BY DEF Sequence, IdsTypeOK, Effects, Output
  <2> QED
    BY <2>1 DEF StopsHold
<1> QED
  BY <1>1, Inductive, PTL

(* stop --all that succeeds leaves running only what others have started.   *)
THEOREM StopAllCorrect == Spec => []StopAllStopsAll
<1>1. ArgsTypeOK /\ Sequence /\ StopsHold /\ ListComplete => StopAllStopsAll
  <2> SUFFICES ASSUME ArgsTypeOK, Sequence, StopsHold, ListComplete,
                      all, result = "nil", NEW c \in Running, c \notin startedLate
               PROVE  FALSE
    BY DEF StopAllStopsAll
  <2>1. PICK i \in 1..Len(ids) : ids[i] = c
    BY DEF ListComplete
  <2>2. i \in performed
    BY DEF Sequence, IdsTypeOK, Place, Effects
  <2> QED
    BY <2>1, <2>2 DEF StopsHold, ArgsTypeOK, Running
<1> QED
  BY <1>1, Inductive, PTL
-----------------------------------------------------------------------------
(* Refinement of RpcCall. *)

(* No list of ids is longer than the calls of RpcCall are many. *)
Bounded == Len(ids) <= MaxCalls

LEMMA CallsCounted ==
  /\ MaxCalls \in Nat
  /\ MaxIds <= MaxCalls /\ Cardinality(Running) <= MaxCalls
<1>1. Running \subseteq Containers
  BY DEF Running
<1>2. Cardinality(Containers) \in Nat /\ Cardinality(Running) \in Nat
      /\ Cardinality(Running) <= Cardinality(Containers)
  BY <1>1, ContainersAssumption, FS_Subset, FS_CardinalityType
<1> QED
  BY <1>2, MaxIdsAssumption DEF MaxCalls

LEMMA BoundedStep == Sequence /\ Bounded /\ [Next]_vars => Bounded'
<1> SUFFICES ASSUME Sequence, Bounded, [Next]_vars PROVE Bounded'
  OBVIOUS
<1>1. MaxCalls' = MaxCalls
  BY DEF MaxCalls
<1>2. CASE CollectArgs
  <2>1. PICK n \in 1..MaxIds : \E given \in [1..n -> Containers] : Collected(given)
    BY <1>2 DEF CollectArgs
  <2>2. Len(ids') = n
    BY <2>1, MaxIdsAssumption, ListIsSeq DEF Collected
  <2> QED
    BY <1>1, <2>1, <2>2, CallsCounted, MaxIdsAssumption DEF Bounded
<1>3. CASE CollectAll
  <2>1. PICK list \in [1..Cardinality(Running) -> Running] : Collected(list)
    BY <1>3 DEF CollectAll
  <2>2. Len(ids') = Cardinality(Running)
    <3>1. Running \in SUBSET Containers
      BY DEF Running
    <3> QED
      BY <1>3, <2>1, <3>1, RunningCount, ListIsSeq DEF Collected, CollectAll
  <2> QED
    BY <1>1, <2>2, CallsCounted DEF Bounded
<1>4. CASE ids' = ids
  BY <1>1, <1>4 DEF Bounded
<1> QED
  BY <1>2, <1>3, <1>4 DEF Next, vars, CollectNothing, CollectFails, Call, Fail, Reply,
     Perform, Drop, OtherStarts, Exits

(* What the command is told of a call changes the outcome of that call only. *)
LEMMA ToldOnce ==
  ASSUME NEW o, pos \in 1..MaxCalls, ids # <<>>, result = "none", UNCHANGED ids,
         \/ pos' = pos + 1 /\ result' # "error" /\ o = "reply"
         \/ pos' = pos /\ result' = "error" /\ o = "error",
         UNCHANGED performed
  PROVE  Rpc!Finish(pos, o)
<1> DEFINE out == [i \in 1..MaxCalls |-> Told(i)]
<1>1. out[pos] = "none"
  BY DEF Told
<1>2. MaxCalls \in Nat
  BY CallsCounted
<1>3. \A i \in 1..MaxCalls : Told(i)' = IF i = pos THEN o ELSE Told(i)
  BY <1>2 DEF Told
<1>4. out' = [out EXCEPT ![pos] = o]
  BY <1>3 DEF MaxCalls
<1> QED
  BY <1>1, <1>4 DEF Rpc!Finish

LEMMA RpcStep == Sequence /\ Bounded /\ [Next]_vars => [Rpc!Next]_(Rpc!vars)
<1> SUFFICES ASSUME Sequence, Bounded, [Next]_vars
             PROVE  Rpc!Next \/ UNCHANGED Rpc!vars
  OBVIOUS
<1>1. Len(ids) \in Nat /\ pos \in 1..Len(ids) + 1 /\ MaxCalls \in Nat
  BY CallsCounted, LenProperties DEF Sequence, IdsTypeOK
<1>2. phase \in {"call", "wait"}
        => pos \in 1..MaxCalls /\ ids # <<>> /\ result = "none"
  BY <1>1, EmptySeq DEF Sequence, Place, Bounded
<1>3. ASSUME UNCHANGED performed, \A i \in 1..MaxCalls : Told(i)' = Told(i)
      PROVE  UNCHANGED Rpc!vars
  BY <1>3 DEF Rpc!vars, MaxCalls
<1>4. ASSUME CollectArgs \/ CollectAll PROVE UNCHANGED Rpc!vars
  <2>1. UNCHANGED <<pos, performed, result>> /\ result = "none"
    BY <1>4, CollectedIsSeq DEF Sequence, Place
  <2> QED
    BY <1>3, <2>1 DEF Told
<1>5. ASSUME CollectNothing \/ CollectFails PROVE UNCHANGED Rpc!vars
  <2>1. UNCHANGED <<ids, pos, performed>> /\ ids = <<>>
    BY <1>5 DEF CollectNothing, CollectFails, calls, Sequence, Place
  <2> QED
    BY <1>3, <2>1 DEF Told
<1>6. ASSUME Call \/ Drop \/ UNCHANGED vars \/ \E c \in Containers : OtherStarts(c) \/ Exits(c)
      PROVE  UNCHANGED Rpc!vars
  <2>1. UNCHANGED <<ids, pos, performed, result>>
    BY <1>6 DEF Call, Drop, vars, OtherStarts, Exits, calls
  <2> QED
    BY <1>3, <2>1 DEF Told
<1>7. ASSUME Fail PROVE Rpc!Next
  <2>1. phase = "wait" /\ result' = "error" /\ UNCHANGED <<ids, pos, performed>>
    BY <1>7 DEF Fail, End, calls
  <2>2. Rpc!Finish(pos, "error") /\ pos \in 1..MaxCalls
    BY <1>2, <2>1, ToldOnce
  <2> QED
    BY <2>2 DEF Rpc!Fail, Rpc!Next
<1>8. ASSUME Reply PROVE Rpc!Next
  <2>1. /\ phase = "wait" /\ pos \in performed /\ pos' = pos + 1
        /\ UNCHANGED <<ids, performed>>
    BY <1>8 DEF Reply, calls
  <2>2. result' # "error"
    BY <1>2, <1>8 DEF Reply, End
  <2>3. Rpc!Finish(pos, "reply") /\ pos \in 1..MaxCalls
    BY <1>2, <2>1, <2>2, ToldOnce
  <2> QED
    BY <2>1, <2>3 DEF Rpc!Reply, Rpc!Next
<1>9. ASSUME Perform PROVE Rpc!Next
  <2>1. PICK i \in pending : performed' = performed \cup {i}
    BY <1>9 DEF Perform
  <2>2. i \notin performed /\ i \in 1..MaxCalls
    BY <1>1, <2>1 DEF Sequence, IdsTypeOK, Effects, Bounded
  <2>3. UNCHANGED <<ids, pos, result>>
    BY <1>9 DEF Perform
  <2>4. [j \in 1..MaxCalls |-> Told(j)]' = [j \in 1..MaxCalls |-> Told(j)]
    BY <2>3 DEF Told, MaxCalls
  <2>5. Rpc!Perform(i)
    BY <2>1, <2>2, <2>4 DEF Rpc!Perform
  <2> QED
    BY <2>2, <2>5 DEF Rpc!Next
<1> QED
  BY <1>4, <1>5, <1>6, <1>7, <1>8, <1>9 DEF Next

(* Every call of start, stop, stopp, update and checkpoint keeps the        *)
(* contract of RpcCall: a reply that the loop goes on after is of a call    *)
(* the runtime performed, no call is answered or performed twice.           *)
THEOREM Refinement == Spec => ImplementsRpcCall
<1>1. Init => Rpc!Init /\ Bounded
  <2> SUFFICES ASSUME Init PROVE Rpc!Init /\ Bounded
    OBVIOUS
  <2>1. pos = 1 /\ performed = {} /\ ids = <<>>
    BY Zenon DEF Init
  <2>2. \A i \in 1..MaxCalls : Told(i) = "none"
    BY <2>1, CallsCounted DEF Told
  <2>3. Bounded
    BY <2>1, EmptySeq, CallsCounted DEF Bounded
  <2> QED
    BY <2>1, <2>2, <2>3 DEF Rpc!Init
<1> QED
  BY <1>1, BoundedStep, RpcStep, Inductive, PTL DEF Spec, ImplementsRpcCall, Rpc!Spec
=============================================================================
