----------------------- MODULE InterruptableRPCProofs -----------------------
(* Proofs about InterruptableRPC, for every set of calls and every bound on *)
(* the signals, and about RunContainer, the command that makes the longest  *)
(* sequence of such calls, for any number of images to pull.                *)
EXTENDS InterruptableRPC, RunContainer, TLAPS

(* An answer on its way to the caller is an answer the runtime produced. *)
RepliesAreReal ==
  \A c \in Calls :
    stub[c] = "sendRes" \/ resCh[c] = "full" \/ outcome[c] = "reply"
      => server[c] = "performed"

(* A caller has an outcome exactly when it has returned. *)
OutcomeOnReturn == \A c \in Calls : outcome[c] = "none" <=> caller[c] # "returned"

(* Every signal sent since the handler was installed is in the channel, or *)
(* was taken by the handler, or found the channel full.                     *)
SignalsAccounted ==
  /\ handler = "off" => sigChan = 0
  /\ handler = "first" => proc = "running" /\ sigChan <= signals
  /\ handler = "second" /\ proc = "running" => sigChan + 1 <= signals
  /\ handler = "second" /\ proc = "exited" => sigChan + 2 <= signals

IInv == TypeOK /\ RepliesAreReal /\ OutcomeOnReturn /\ SignalsAccounted

-----------------------------------------------------------------------------
(* Type correctness of the calls and of the signal handling. *)
THEOREM TypeCorrect == Spec => []TypeOK
<1>1. Init => TypeOK
  <2>1. Init => SigTypeOK
    BY MaxSignalsAssumption DEF Init, SigTypeOK, SigCap
  <2>2. Init => CallTypeOK
    BY DEF Init, CallTypeOK
  <2> QED
    BY <2>1, <2>2 DEF TypeOK
<1>2. TypeOK /\ [Next]_vars => SigTypeOK'
  <2> SUFFICES ASSUME SigTypeOK, [Next]_vars PROVE SigTypeOK'
    BY DEF TypeOK
  <2> USE DEF SigTypeOK
  <2>1. CASE Signal \/ HandleFirst \/ HandleSecond
    BY <2>1, MaxSignalsAssumption DEF Signal, HandleFirst, HandleSecond, SigCap
  <2>2. ASSUME NEW c \in Calls, EnterSelect(c) PROVE SigTypeOK'
    BY <2>2 DEF EnterSelect
  <2>3. CASE UNCHANGED sigVars
    BY <2>3 DEF sigVars
  <2> QED
    BY <2>1, <2>2, <2>3 DEF Next, vars, Spawn, SelectStop, SelectErr, SelectRes,
       SendErr, SendRes, Deliver, Serve, RpcReplies, RpcFails
<1>3. TypeOK /\ [Next]_vars => CallTypeOK'
  <2> SUFFICES ASSUME CallTypeOK, [Next]_vars PROVE CallTypeOK'
    BY DEF TypeOK
  <2> USE DEF CallTypeOK, callVars
  <2>1. CASE Signal \/ HandleFirst \/ HandleSecond
    BY <2>1 DEF Signal, HandleFirst, HandleSecond
  <2>2. ASSUME NEW c \in Calls, Spawn(c) \/ EnterSelect(c)
        PROVE  CallTypeOK'
    BY <2>2 DEF Spawn, EnterSelect
  <2>3. ASSUME NEW c \in Calls, SelectStop(c) \/ SelectErr(c) \/ SelectRes(c)
        PROVE  CallTypeOK'
    <3>1. CASE SelectStop(c)
      BY <3>1 DEF SelectStop, Return
    <3>2. CASE SelectErr(c)
      BY <3>2 DEF SelectErr, Return
    <3>3. CASE SelectRes(c)
      BY <3>3 DEF SelectRes, Return
    <3> QED
      BY <2>3, <3>1, <3>2, <3>3
  <2>4. ASSUME NEW c \in Calls, SendErr(c) \/ SendRes(c)
        PROVE  CallTypeOK'
    BY <2>4 DEF SendErr, SendRes
  <2>5. ASSUME NEW c \in Calls,
               Deliver(c) \/ Serve(c, "performed") \/ Serve(c, "refused")
        PROVE  CallTypeOK'
    BY <2>5 DEF Deliver, Serve
  <2>6. ASSUME NEW c \in Calls, RpcReplies(c) \/ RpcFails(c)
        PROVE  CallTypeOK'
    BY <2>6 DEF RpcReplies, RpcFails
  <2>7. CASE UNCHANGED vars
    BY <2>7 DEF vars
  <2> QED
    BY <2>1, <2>2, <2>3, <2>4, <2>5, <2>6, <2>7 DEF Next
<1> QED
  BY <1>1, <1>2, <1>3, PTL DEF Spec, TypeOK

(* A call disturbs the count of signals only by installing the handler. *)
LEMMA SignalsStep ==
  ASSUME SigTypeOK, SignalsAccounted,
         \/ Signal \/ HandleFirst \/ HandleSecond
         \/ /\ proc = "running" /\ UNCHANGED <<proc, signals, sigChan>>
            /\ handler' = IF handler = "off" THEN "first" ELSE handler
         \/ UNCHANGED sigVars
  PROVE  SignalsAccounted'
<1> USE MaxSignalsAssumption DEF SigTypeOK, SignalsAccounted, SigCap
<1>1. CASE Signal
  BY <1>1 DEF Signal
<1>2. CASE HandleFirst
  BY <1>2 DEF HandleFirst
<1>3. CASE HandleSecond
  BY <1>3 DEF HandleSecond
<1>4. CASE /\ proc = "running" /\ UNCHANGED <<proc, signals, sigChan>>
           /\ handler' = IF handler = "off" THEN "first" ELSE handler
  BY <1>4
<1>5. CASE UNCHANGED sigVars
  BY <1>5 DEF sigVars
<1> QED
  BY <1>1, <1>2, <1>3, <1>4, <1>5

(* The strengthening of the properties below is inductive. *)
LEMMA Inductive == Spec => []IInv
<1>1. Init => RepliesAreReal /\ OutcomeOnReturn /\ SignalsAccounted
  BY DEF Init, RepliesAreReal, OutcomeOnReturn, SignalsAccounted
<1>2. IInv /\ [Next]_vars
        => RepliesAreReal' /\ OutcomeOnReturn' /\ SignalsAccounted'
  <2> SUFFICES ASSUME IInv, [Next]_vars
               PROVE  RepliesAreReal' /\ OutcomeOnReturn' /\ SignalsAccounted'
    BY DEF IInv
  <2> USE DEF sigVars, callVars
  <2>0. /\ SigTypeOK /\ CallTypeOK
        /\ RepliesAreReal /\ OutcomeOnReturn /\ SignalsAccounted
    BY DEF IInv, TypeOK
  <2>1. CASE Signal \/ HandleFirst \/ HandleSecond
    <3>1. RepliesAreReal' /\ OutcomeOnReturn'
      BY <2>0, <2>1 DEF Signal, HandleFirst, HandleSecond, RepliesAreReal,
                        OutcomeOnReturn
    <3>2. SignalsAccounted'
      BY <2>0, <2>1, SignalsStep
    <3> QED
      BY <3>1, <3>2
  <2>2. ASSUME NEW c \in Calls,
               \/ Spawn(c) \/ EnterSelect(c)
               \/ SelectStop(c) \/ SelectErr(c) \/ SelectRes(c)
               \/ SendErr(c) \/ SendRes(c)
               \/ Deliver(c) \/ Serve(c, "performed") \/ Serve(c, "refused")
               \/ RpcReplies(c) \/ RpcFails(c)
        PROVE  RepliesAreReal' /\ OutcomeOnReturn' /\ SignalsAccounted'
    <3> USE DEF Spawn, EnterSelect, SelectStop, SelectErr, SelectRes, Return,
                SendErr, SendRes, Deliver, Serve, RpcReplies, RpcFails
    <3>1. RepliesAreReal'
      BY <2>0, <2>2 DEF RepliesAreReal, CallTypeOK
    <3>2. OutcomeOnReturn'
      BY <2>0, <2>2 DEF OutcomeOnReturn, CallTypeOK
    <3>3. \/ UNCHANGED sigVars
          \/ /\ proc = "running" /\ UNCHANGED <<proc, signals, sigChan>>
             /\ handler' = IF handler = "off" THEN "first" ELSE handler
      BY <2>2
    <3>4. SignalsAccounted'
      BY <2>0, <3>3, SignalsStep
    <3> QED
      BY <3>1, <3>2, <3>4
  <2>3. CASE UNCHANGED vars
    <3>1. RepliesAreReal' /\ OutcomeOnReturn'
      BY <2>0, <2>3 DEF vars, RepliesAreReal, OutcomeOnReturn
    <3>2. SignalsAccounted'
      BY <2>0, <2>3, SignalsStep DEF vars
    <3> QED
      BY <3>1, <3>2
  <2> QED
    BY <2>1, <2>2, <2>3 DEF Next
<1> QED
  BY <1>1, <1>2, TypeCorrect, PTL DEF Spec, IInv

(* InterruptableRPC never hands a caller a reply of a call that the runtime *)
(* did not perform.                                                         *)
THEOREM RepliesCorrect == Spec => []ReplyMeansPerformed
<1>1. IInv => ReplyMeansPerformed
  BY DEF IInv, RepliesAreReal, ReplyMeansPerformed
<1> QED
  BY <1>1, Inductive, PTL

(* Once a call has reached its select, it takes two signals to end crictl. *)
THEOREM ExitCorrect == Spec => []ExitNeedsTwoSignals
<1>1. IInv => ExitNeedsTwoSignals
  BY MaxSignalsAssumption
  DEF IInv, SignalsAccounted, ExitNeedsTwoSignals, stopClosed, TypeOK, SigTypeOK, SigCap
<1> QED
  BY <1>1, Inductive, PTL

(* The calls implement the contract of RpcCall: every step of the program   *)
(* is a step of the contract or leaves it unchanged.                        *)
THEOREM Refinement == Spec => ImplementsRpcCall
<1>1. Init => Contract!Init
  BY DEF Init, Contract!Init, stopClosed
<1>2. IInv /\ [Next]_vars => [Contract!Next]_(Contract!vars)
  <2> SUFFICES ASSUME IInv, [Next]_vars
               PROVE  Contract!Next \/ UNCHANGED Contract!vars
    OBVIOUS
  <2> USE DEF IInv, sigVars, callVars, Contract!vars, stopClosed
  <2>1. CASE Signal \/ HandleSecond
    BY <2>1 DEF Signal, HandleSecond
  <2>2. CASE HandleFirst
    BY <2>2 DEF HandleFirst, SignalsAccounted, Contract!Stop, Contract!Next
  <2>3. ASSUME NEW c \in Calls,
               \/ Spawn(c) \/ EnterSelect(c) \/ SendErr(c) \/ SendRes(c)
               \/ RpcReplies(c) \/ RpcFails(c)
        PROVE  UNCHANGED Contract!vars
    BY <2>3 DEF Spawn, EnterSelect, SendErr, SendRes, RpcReplies, RpcFails
  <2>4. ASSUME NEW c \in Calls,
               SelectStop(c) \/ SelectErr(c) \/ SelectRes(c)
        PROVE  Contract!Next
    <3>1. outcome[c] = "none" /\ UNCHANGED <<server, handler>>
      BY <2>4 DEF SelectStop, SelectErr, SelectRes, OutcomeOnReturn
    <3>2. CASE SelectStop(c)
      BY <3>1, <3>2 DEF SelectStop, Return, Contract!Interrupt, Contract!Finish,
                  Contract!Next
    <3>3. CASE SelectErr(c)
      BY <3>1, <3>3 DEF SelectErr, Return, Contract!Fail, Contract!Finish,
                  Contract!Next
    <3>4. CASE SelectRes(c)
      BY <3>1, <3>4 DEF SelectRes, Return, RepliesAreReal, Contract!Reply,
                  Contract!Finish, Contract!Next
    <3> QED
      BY <2>4, <3>2, <3>3, <3>4
  <2>5. ASSUME NEW c \in Calls,
               Deliver(c) \/ Serve(c, "refused")
        PROVE  UNCHANGED Contract!vars
    <3>1. /\ UNCHANGED <<outcome, handler>>
          /\ \A d \in Calls : server'[d] = "performed" <=> server[d] = "performed"
      BY <2>5 DEF Deliver, Serve, TypeOK, CallTypeOK
    <3> QED
      BY <3>1
  <2>6. ASSUME NEW c \in Calls, Serve(c, "performed")
        PROVE  Contract!Next
    <3>1. /\ UNCHANGED <<outcome, handler>>
          /\ server[c] # "performed"
          /\ \A d \in Calls : server'[d] = IF d = c THEN "performed" ELSE server[d]
      BY <2>6 DEF Serve, TypeOK, CallTypeOK
    <3>2. {d \in Calls : server'[d] = "performed"}
            = {d \in Calls : server[d] = "performed"} \cup {c}
      BY <3>1
    <3> QED
      BY <3>1, <3>2 DEF Contract!Perform, Contract!Next
  <2>7. CASE UNCHANGED vars
    BY <2>7 DEF vars
  <2> QED
    BY <2>1, <2>2, <2>3, <2>4, <2>5, <2>6, <2>7 DEF Next
<1> QED
  BY <1>1, <1>2, Inductive, PTL DEF Spec, ImplementsRpcCall, Contract!Spec
-----------------------------------------------------------------------------
(* What the liveness of the calls rests on.                                  *)

(* An answer is sent once, and into a channel of its own.                    *)
SentOnce ==
  \A c \in Calls :
    /\ caller[c] = "idle" => stub[c] = "none"
    /\ stub[c] # "done" => resCh[c] = "empty" /\ errCh[c] = "empty"
    /\ caller[c] = "returned" => cancelled[c]

(* Signals are dropped only when two are waiting.                            *)
SignalsKept ==
  proc = "running" =>
    /\ handler = "off" => signals = 0
    /\ handler = "first" => sigChan >= 2 \/ sigChan >= signals
    /\ handler = "second" => sigChan >= 1 \/ signals <= 1

LEMMA SentOnceStep == CallTypeOK /\ SentOnce /\ [Next]_vars => SentOnce'
<1> SUFFICES ASSUME CallTypeOK, SentOnce, [Next]_vars PROVE SentOnce'
  OBVIOUS
<1> USE DEF CallTypeOK, SentOnce
<1>1. CASE Signal \/ HandleFirst \/ HandleSecond \/ UNCHANGED vars
  BY <1>1 DEF Signal, HandleFirst, HandleSecond, vars, callVars
<1>2. ASSUME NEW c \in Calls, Spawn(c) \/ EnterSelect(c) PROVE SentOnce'
  BY <1>2 DEF Spawn, EnterSelect
<1>3. ASSUME NEW c \in Calls, SelectStop(c) \/ SelectErr(c) \/ SelectRes(c) PROVE SentOnce'
  BY <1>3 DEF SelectStop, SelectErr, SelectRes, Return
<1>4. ASSUME NEW c \in Calls, SendErr(c) \/ SendRes(c) PROVE SentOnce'
  BY <1>4 DEF SendErr, SendRes
<1>5. ASSUME NEW c \in Calls,
             \/ Deliver(c) \/ Serve(c, "performed") \/ Serve(c, "refused")
             \/ RpcReplies(c) \/ RpcFails(c)
      PROVE  SentOnce'
  BY <1>5 DEF Deliver, Serve, RpcReplies, RpcFails, callVars
<1> QED
  BY <1>1, <1>2, <1>3, <1>4, <1>5 DEF Next

LEMMA SignalsKeptStep == SigTypeOK /\ SignalsKept /\ [Next]_vars => SignalsKept'
<1> SUFFICES ASSUME SigTypeOK, SignalsKept, [Next]_vars PROVE SignalsKept'
  OBVIOUS
<1> USE MaxSignalsAssumption DEF SigTypeOK, SignalsKept, SigCap
<1>1. CASE Signal
  BY <1>1 DEF Signal
<1>2. CASE HandleFirst \/ HandleSecond
  BY <1>2 DEF HandleFirst, HandleSecond
<1>3. ASSUME NEW c \in Calls, EnterSelect(c) PROVE SignalsKept'
  BY <1>3 DEF EnterSelect
<1>4. CASE UNCHANGED sigVars
  BY <1>4 DEF sigVars
<1> QED
  BY <1>1, <1>2, <1>3, <1>4 DEF Next, vars, Spawn, SelectStop, SelectErr, SelectRes, SendErr,
     SendRes, Deliver, Serve, RpcReplies, RpcFails

(* However the answers, the signals and the callers interleave, no goroutine *)
(* is left at a send without room, no call without its cancellation, and no  *)
(* second signal is lost: the channels of InterruptableRPC are large enough. *)
THEOREM NothingBlocksEver == Spec => []NothingBlocks
<1>1. Init => SentOnce /\ SignalsKept
  BY DEF Init, SentOnce, SignalsKept
<1>2. TypeOK /\ SentOnce /\ SignalsKept => NothingBlocks
  BY MaxSignalsAssumption
  DEF TypeOK, SigTypeOK, SigCap, SentOnce, SignalsKept, NothingBlocks
<1>3. TypeOK => SigTypeOK /\ CallTypeOK
  BY DEF TypeOK
<1> QED
  BY <1>1, <1>2, <1>3, SentOnceStep, SignalsKeptStep, TypeCorrect, PTL DEF Spec

-----------------------------------------------------------------------------
(* crictl run and create.                                                   *)

(* How often the pod config has been read at each point. *)
Loads ==
  /\ phase \in {"parse", "loadPod"} => loads = 0
  /\ phase \in {"loadContainer", "reloadPod"} => loads <= 1
  /\ phase \in {"loadContainer", "reloadPod", "auth"} => k > Outer
  /\ phase \in {"send", "wait"} /\ k <= Outer => loads <= 1

(* Where the command is among its calls. *)
Place ==
  /\ k \in 1..NumOps + 1
  /\ phase # "done" => k <= NumOps /\ last = "none"
  /\ result = "nil" <=> k = NumOps + 1

(* Before a call is made all earlier ones have been performed and nothing   *)
(* is pending; the call itself is pending, performed, or neither.           *)
Effects ==
  /\ performed \in {1..(k - 1), 1..k}
  /\ pending \subseteq {k} /\ pending \cap performed = {}
  /\ phase \notin {"wait", "done"} => performed = 1..(k - 1) /\ pending = {}
  /\ result = "nil" => performed = 1..(k - 1) /\ pending = {}

-----------------------------------------------------------------------------
(* A command makes at least one call, and no more than MaxOps. *)
LEMMA NumOpsBounds == NumOps \in 1..MaxOps /\ Outer \in {0, 1}
  BY ImagesAssumption DEF NumOps, Outer, Pulls, MaxOps

(* Only the first call of run is RunPodSandbox. *)
LEMMA SandboxIsFirst ==
  ASSUME k \in 1..NumOps, Op(k) = "RunPodSandbox"
  PROVE  k = 1 /\ Outer = 1 /\ k # NumOps
<1>1. k <= Outer
  BY DEF Op
<1>2. k = 1 /\ Outer = 1
  BY <1>1, NumOpsBounds
<1> QED
  BY <1>2, ImagesAssumption DEF NumOps, Pulls

(* The numbers of the calls do not change while the command runs. *)
LEMMA FlagsFixed ==
  ASSUME [RunNext]_runVars
  PROVE  UNCHANGED <<flags, Outer, NumOps>>
<1>1. UNCHANGED flags
  BY DEF runVars, RunNext, Parse, LoadPod, LoadContainer, ReloadPod, Auth, LocalError,
         Send, Reply, Fail, Interrupted, Perform, Drop, Stop, EditPodFile
<1>2. UNCHANGED <<command, pullDefault, noPull, withPullFlag>>
  BY <1>1 DEF flags
<1>3. UNCHANGED withPull
  BY <1>2 DEF withPull
<1>4. UNCHANGED <<Outer, Pulls>>
  BY <1>2, <1>3 DEF Outer, Pulls
<1> QED
  BY <1>1, <1>4 DEF NumOps

-----------------------------------------------------------------------------
CallsInv == CallsTypeOK /\ Place /\ Effects

LEMMA CallsInvStep == CallsInv /\ [RunNext]_runVars => CallsInv'
<1> SUFFICES ASSUME CallsInv, [RunNext]_runVars PROVE CallsInv'
  OBVIOUS
<1>0. Outer' = Outer /\ NumOps' = NumOps /\ MaxOps' = MaxOps
  BY FlagsFixed DEF MaxOps
<1>1. MaxOps \in Nat
  BY ImagesAssumption DEF MaxOps
<1> USE <1>0, <1>1, NumOpsBounds DEF CallsInv, CallsTypeOK, Place, Effects, End
<1>2. ASSUME Parse \/ LoadPod \/ LoadContainer \/ ReloadPod \/ Auth \/ LocalError
      PROVE  CallsInv'
  BY <1>2 DEF Parse, LoadPod, LoadContainer, ReloadPod, Auth, LocalError, runtime
<1>3. CASE Send
  BY <1>3 DEF Send
<1>4. CASE Reply
  <2>1. phase = "wait" /\ k \in performed /\ k' = k + 1
        /\ UNCHANGED <<last, performed, pending>>
    BY <1>4 DEF Reply, runtime
  <2>2. performed = 1..k /\ pending = {}
    BY <2>1
  <2>3. CASE k = NumOps
    <3>1. phase' = "done" /\ result' = "nil"
      BY <1>4, <2>3, SandboxIsFirst DEF Reply
    <3> QED
      BY <2>1, <2>2, <2>3, <3>1
  <2>4. CASE k # NumOps
    <3>1. phase' \in {"loadContainer", "send"} /\ UNCHANGED result
      BY <1>4, <2>4 DEF Reply
    <3> QED
      BY <2>1, <2>2, <2>4, <3>1
  <2> QED
    BY <2>3, <2>4
<1>5. CASE Fail \/ Interrupted
  BY <1>5 DEF Fail, Interrupted, runtime
<1>6. CASE Perform
  <2>1. PICK i \in pending : performed' = performed \cup {i} /\ pending' = pending \ {i}
    BY <1>6 DEF Perform
  <2>2. i = k /\ k \notin performed /\ performed = 1..(k - 1)
    BY <2>1
  <2>3. performed' = 1..k /\ pending' = {}
    BY <2>1, <2>2
  <2>4. UNCHANGED <<phase, k, last, result>> /\ k <= MaxOps
    BY <1>6, <2>2 DEF Perform
  <2> QED
    BY <2>2, <2>3, <2>4
<1>7. CASE Drop
  BY <1>7 DEF Drop
<1>8. CASE Stop \/ EditPodFile
  BY <1>8 DEF Stop, EditPodFile, runtime
<1>9. CASE UNCHANGED runVars
  BY <1>9 DEF runVars, runtime
<1> QED
  BY <1>2, <1>3, <1>4, <1>5, <1>6, <1>7, <1>8, <1>9 DEF RunNext

-----------------------------------------------------------------------------
LEMMA FlagsTypeStep == FlagsTypeOK /\ [RunNext]_runVars => FlagsTypeOK'
<1> SUFFICES ASSUME FlagsTypeOK, [RunNext]_runVars PROVE FlagsTypeOK'
  OBVIOUS
<1>1. UNCHANGED <<command, pullDefault, noPull, withPullFlag, username>>
  BY FlagsFixed DEF flags
<1>2. stopped' \in {stopped, TRUE}
  BY DEF runVars, runtime, RunNext, Parse, LoadPod, LoadContainer, ReloadPod, Auth,
         LocalError, Send, Reply, Fail, Interrupted, Perform, Drop, Stop,
         EditPodFile
<1> QED
  BY <1>1, <1>2 DEF FlagsTypeOK

ConfigsInv == ConfigsTypeOK /\ Loads

LEMMA LoadedType ==
  ASSUME podFile \in Files, loads \in 0..1
  PROVE  Loaded \in Configs
  BY DEF Loaded, Files, Configs, Generated

LEMMA ConfigsInvStep == ConfigsInv /\ CallsInv /\ [RunNext]_runVars => ConfigsInv'
<1> SUFFICES ASSUME ConfigsInv, CallsInv, [RunNext]_runVars PROVE ConfigsInv'
  OBVIOUS
<1>1. Outer' = Outer /\ Outer \in {0, 1} /\ NumOps \in Nat
  BY FlagsFixed, NumOpsBounds
<1>2. k \in Nat /\ podFile \in Files /\ loads \in 0..2
  BY ImagesAssumption DEF ConfigsInv, ConfigsTypeOK, CallsInv, CallsTypeOK, MaxOps
<1> USE <1>1, <1>2 DEF Loads, configs, End
<1>3. Loads /\ ConfigsTypeOK
  BY DEF ConfigsInv
<1>4. ASSUME UNCHANGED <<loads, ranWith, createdWith>>, podFile' \in Files, Loads'
      PROVE  ConfigsInv'
  BY <1>3, <1>4 DEF ConfigsInv, ConfigsTypeOK
<1>5. CASE LoadPod
  <2>1. loads = 0 /\ Loaded \in Configs
    BY <1>3, <1>5, LoadedType DEF LoadPod
  <2>2. loads' = 1 /\ Loads'
    BY <1>5, <2>1 DEF LoadPod
  <2> QED
    BY <1>3, <1>5, <2>1, <2>2 DEF LoadPod, ConfigsInv, ConfigsTypeOK
<1>6. CASE ReloadPod
  <2>1. loads \in 0..1 /\ k > Outer /\ Loaded \in Configs
    BY <1>3, <1>6, LoadedType DEF ReloadPod
  <2>2. loads' \in 1..2 /\ phase' \in {"auth", "send"} /\ k' = k
    BY <1>6, <2>1 DEF ReloadPod
  <2>3. Loads'
    BY <2>1, <2>2
  <2> QED
    BY <1>3, <1>6, <2>1, <2>2, <2>3 DEF ReloadPod, ConfigsInv, ConfigsTypeOK
<1>7. CASE Parse
  <2>1. k' = k /\ loads' = loads /\ phase' \in {"done", "loadPod", "loadContainer"}
        /\ (phase' = "loadContainer" => Outer = 0)
    BY <1>7 DEF Parse, Outer
  <2>2. k >= 1
    BY DEF CallsInv, CallsTypeOK
  <2>3. Loads'
    BY <1>3, <1>7, <2>1, <2>2 DEF Parse
  <2> QED
    BY <1>4, <1>7, <2>3 DEF Parse
<1>8. CASE Reply
  <2>1. k' = k + 1 /\ loads' = loads /\ k \in 1..NumOps
    BY <1>8 DEF Reply, CallsInv, CallsTypeOK, Place
  <2>2. CASE Op(k) = "RunPodSandbox"
    <3>1. k = 1 /\ Outer = 1 /\ k # NumOps
      BY <2>1, <2>2, SandboxIsFirst
    <3>2. phase' = "loadContainer"
      BY <1>8, <2>2, <3>1 DEF Reply
    <3>3. Loads'
      BY <1>3, <1>8, <2>1, <3>1, <3>2 DEF Reply
    <3> QED
      BY <1>4, <1>8, <3>3 DEF Reply
  <2>3. CASE Op(k) # "RunPodSandbox"
    <3>1. phase' \in {"done", "send"}
      BY <1>8, <2>3 DEF Reply
    <3>2. Loads'
      BY <1>3, <1>8, <2>1, <3>1 DEF Reply
    <3> QED
      BY <1>4, <1>8, <3>2 DEF Reply
  <2> QED
    BY <2>2, <2>3
<1>9. CASE LoadContainer \/ Auth \/ LocalError \/ Send \/ Fail \/ Interrupted
  <2>1. Loads'
    BY <1>3, <1>9 DEF LoadContainer, Auth, LocalError, Send, Fail, Interrupted
  <2> QED
    BY <1>4, <1>9, <2>1 DEF LoadContainer, Auth, LocalError, Send, Fail, Interrupted
<1>10. CASE Perform \/ Drop \/ Stop \/ UNCHANGED runVars
  <2>1. UNCHANGED <<phase, k, loads, ranWith, createdWith, podFile>>
    BY <1>10 DEF Perform, Drop, Stop, runVars
  <2> QED
    BY <1>3, <1>4, <2>1
<1>11. CASE EditPodFile
  <2>1. podFile' \in Files /\ UNCHANGED <<phase, k, loads, ranWith, createdWith>>
    BY <1>11 DEF EditPodFile, Files
  <2> QED
    BY <1>3, <1>4, <2>1
<1> QED
  BY <1>5, <1>6, <1>7, <1>8, <1>9, <1>10, <1>11 DEF RunNext

LEMMA InitInv == RunInit => FlagsTypeOK /\ CallsInv /\ ConfigsInv
<1> SUFFICES ASSUME RunInit PROVE FlagsTypeOK /\ CallsInv /\ ConfigsInv
  OBVIOUS
<1>1. FlagsTypeOK
  BY DEF RunInit, FlagsTypeOK
<1>2. /\ phase = "parse" /\ k = 1 /\ last = "none" /\ result = "none"
      /\ performed = {} /\ pending = {}
  BY Zenon DEF RunInit
<1>3. CallsInv
  <2>1. MaxOps \in Nat
    BY ImagesAssumption DEF MaxOps
  <2> QED
    BY <1>2, <2>1, NumOpsBounds DEF CallsInv, CallsTypeOK, Place, Effects
<1>4. ConfigsInv
  <2>1. loads = 0 /\ ranWith = NoConfig /\ createdWith = NoConfig
        /\ podFile \in [uid : {"", "given"}, rev : {1}]
    BY Zenon DEF RunInit
  <2>2. podFile \in Files
    BY <2>1 DEF Files
  <2>3. ConfigsTypeOK
    <3>1. 0 \in 0..2
      OBVIOUS
    <3> QED
      BY <2>1, <2>2, <3>1, Zenon DEF ConfigsTypeOK
  <2>4. Loads
    BY <1>2, <2>1, NumOpsBounds DEF Loads
  <2> QED
    BY <2>3, <2>4 DEF ConfigsInv
<1> QED
  BY <1>1, <1>3, <1>4

LEMMA RunInductive == RunSpec => [](FlagsTypeOK /\ CallsInv /\ ConfigsInv)
  BY InitInv, FlagsTypeStep, CallsInvStep, ConfigsInvStep, PTL DEF RunSpec

-----------------------------------------------------------------------------
(* Type correctness of crictl run and create. *)
THEOREM RunTypeCorrect == RunSpec => []RunTypeOK
  BY RunInductive, PTL DEF RunTypeOK, CallsInv, ConfigsInv

(* Whatever fails, and whenever the user interrupts, the runtime has done a *)
(* prefix of the planned calls, and at most the last one made is in doubt.  *)
THEOREM EffectsCorrect == RunSpec => []EffectsArePrefix
<1>1. CallsInv => EffectsArePrefix
  BY DEF CallsInv, Effects, EffectsArePrefix
<1> QED
  BY <1>1, RunInductive, PTL

(* A command that reports success has done all it was asked to do. *)
THEOREM SuccessCorrect == RunSpec => []SuccessIsComplete
<1>1. CallsInv => SuccessIsComplete
  BY NumOpsBounds DEF CallsInv, Place, Effects, SuccessIsComplete
<1> QED
  BY <1>1, RunInductive, PTL

-----------------------------------------------------------------------------
(* RunRefinement of RpcCall. *)

LEMMA RpcInit == RunInit => Rpc!Init
<1> SUFFICES ASSUME RunInit PROVE Rpc!Init
  OBVIOUS
<1>1. k = 1 /\ last = "none" /\ performed = {} /\ stopped = FALSE
  BY Zenon DEF RunInit
<1>2. [i \in 1..MaxOps |-> IF i < k THEN "reply" ELSE IF i = k THEN last ELSE "none"]
        = [i \in 1..MaxOps |-> "none"]
  BY <1>1
<1> QED
  BY <1>1, <1>2, Zenon DEF Rpc!Init

(* Ending call k changes the outcome of that call only. *)
LEMMA Outcomes ==
  ASSUME k \in 1..MaxOps, MaxOps \in Nat, last = "none",
         MaxOps' = MaxOps,
         NEW o, \/ k' = k + 1 /\ last' = "none" /\ o = "reply"
                \/ k' = k /\ last' = o,
         UNCHANGED <<performed, stopped>>
  PROVE  Rpc!Finish(k, o)
<1> DEFINE out(n, l) ==
      [i \in 1..MaxOps |-> IF i < n THEN "reply" ELSE IF i = n THEN l ELSE "none"]
<1>1. out(k, last)[k] = "none"
  OBVIOUS
<1>2. \A i \in 1..MaxOps :
        out(k', last')[i] = IF i = k THEN o ELSE out(k, last)[i]
  OBVIOUS
<1>3. out(k', last') = [out(k, last) EXCEPT ![k] = o]
  BY <1>2
<1> QED
  BY <1>1, <1>3 DEF Rpc!Finish

LEMMA RpcStep ==
  FlagsTypeOK /\ CallsInv /\ [RunNext]_runVars => [Rpc!Next]_(Rpc!vars)
<1> SUFFICES ASSUME FlagsTypeOK, CallsInv, [RunNext]_runVars
             PROVE  Rpc!Next \/ UNCHANGED Rpc!vars
  OBVIOUS
<1>1. MaxOps' = MaxOps /\ MaxOps \in Nat /\ k \in 1..MaxOps + 1
      /\ NumOps \in 1..MaxOps
  BY ImagesAssumption, NumOpsBounds DEF CallsInv, CallsTypeOK, MaxOps
<1>2. phase = "wait" => k \in 1..MaxOps /\ last = "none"
  BY <1>1 DEF CallsInv, Place
<1>3. ASSUME Parse \/ LoadPod \/ LoadContainer \/ ReloadPod \/ Auth \/ LocalError
               \/ Send \/ Drop \/ EditPodFile \/ UNCHANGED runVars
      PROVE  UNCHANGED Rpc!vars
  <2>1. UNCHANGED <<k, last, performed, stopped>>
    BY <1>3 DEF Parse, LoadPod, LoadContainer, ReloadPod, Auth, LocalError, Send,
                Drop, EditPodFile, runVars, runtime
  <2> QED
    BY <1>1, <2>1 DEF Rpc!vars
<1>4. ASSUME Reply PROVE Rpc!Next
  <2>1. k' = k + 1 /\ last' = last /\ k \in performed /\ phase = "wait"
        /\ UNCHANGED <<performed, stopped>>
    BY <1>4 DEF Reply, runtime
  <2>2. Rpc!Finish(k, "reply") /\ k \in 1..MaxOps
    BY <1>1, <1>2, <2>1, Outcomes
  <2> QED
    BY <2>1, <2>2 DEF Rpc!Reply, Rpc!Next
<1>5. ASSUME Fail PROVE Rpc!Next
  <2>1. k' = k /\ last' = "error" /\ phase = "wait" /\ UNCHANGED <<performed, stopped>>
    BY <1>5 DEF Fail, runtime
  <2>2. Rpc!Finish(k, "error") /\ k \in 1..MaxOps
    BY <1>1, <1>2, <2>1, Outcomes
  <2> QED
    BY <2>2 DEF Rpc!Fail, Rpc!Next
<1>6. ASSUME Interrupted PROVE Rpc!Next
  <2>1. k' = k /\ last' = "interrupted" /\ phase = "wait" /\ stopped
        /\ UNCHANGED <<performed, stopped>>
    BY <1>6 DEF Interrupted, runtime
  <2>2. Rpc!Finish(k, "interrupted") /\ k \in 1..MaxOps
    BY <1>1, <1>2, <2>1, Outcomes
  <2> QED
    BY <2>1, <2>2 DEF Rpc!Interrupt, Rpc!Next
<1>7. ASSUME Perform PROVE Rpc!Next
  <2>1. PICK i \in pending : performed' = performed \cup {i}
    BY <1>7 DEF Perform
  <2>2. i = k /\ k \notin performed /\ k \in 1..MaxOps
    BY <2>1 DEF CallsInv, Effects, CallsTypeOK
  <2>3. UNCHANGED <<k, last, stopped>>
    BY <1>7 DEF Perform
  <2>4. Rpc!Perform(k)
    BY <1>1, <2>1, <2>2, <2>3 DEF Rpc!Perform
  <2> QED
    BY <2>2, <2>4 DEF Rpc!Next
<1>8. ASSUME Stop PROVE Rpc!Next
  <2>1. ~stopped /\ stopped' = TRUE /\ UNCHANGED <<k, last, performed>>
    BY <1>8 DEF Stop
  <2> QED
    BY <1>1, <2>1 DEF Rpc!Stop, Rpc!Next
<1> QED
  BY <1>3, <1>4, <1>5, <1>6, <1>7, <1>8 DEF RunNext

(* Every call of crictl run and create keeps the contract of RpcCall. *)
THEOREM RunRefinement == RunSpec => RunImplementsRpcCall
  BY RpcInit, RpcStep, RunInductive, PTL DEF RunSpec, RunImplementsRpcCall, Rpc!Spec
=============================================================================
