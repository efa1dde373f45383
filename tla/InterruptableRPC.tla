-------------------------- MODULE InterruptableRPC --------------------------
(***************************************************************************)
(* SetupInterruptSignalHandler and InterruptableRPC of cmd/crictl/util.go: *)
(* every unary call crictl makes to the container runtime.  A call spawns  *)
(* a goroutine that runs the gRPC stub and puts the answer into a channel  *)
(* of capacity one; the caller selects between those channels and stopCh,  *)
(* which the signal goroutine closes on the first SIGINT/SIGTERM.  The     *)
(* second signal ends the process.  The handler is installed by the first  *)
(* call that reaches its select, so a signal before that kills crictl.     *)
(*                                                                         *)
(* The gRPC stub and the runtime are external: a request may be lost,      *)
(* refused, performed late or never answered, but is performed at most     *)
(* once, and the stub returns an error once its context is cancelled.      *)
(***************************************************************************)
EXTENDS Naturals

CONSTANTS
  Calls,       \* the InterruptableRPC calls the command makes
  MaxSignals   \* bound on the signals the user sends

ASSUME MaxSignalsAssumption == MaxSignals \in Nat

VARIABLES
  proc,        \* "running" or "exited" (os.Exit(1) or the default action)
  signals,     \* signals the user has sent
  sigChan,     \* number of signals in the channel c (capacity 2)
  handler,     \* the signal goroutine: not started, or at its first or second <-c
  caller,      \* the goroutine in InterruptableRPC
  stub,        \* the goroutine that runs rpcFunc
  cancelled,   \* the derived context is cancelled
  resCh,       \* the channel resCh, of capacity one
  errCh,       \* the channel errCh, of capacity one
  outcome,     \* what InterruptableRPC returned
  server       \* the runtime's side of the call

sigVars == <<proc, signals, sigChan, handler>>
callVars == <<caller, stub, cancelled, resCh, errCh, outcome>>
vars == <<sigVars, callVars, server>>

\* Faulty variant: room for one signal only.
SigCapOne == 1

SigCap == 2

(* signalIntStopCh is closed between the two receives of the goroutine. *)
stopClosed == handler = "second"

SigTypeOK ==
  /\ proc \in {"running", "exited"}
  /\ signals \in 0..MaxSignals
  /\ sigChan \in 0..SigCap
  /\ handler \in {"off", "first", "second"}

CallTypeOK ==
  /\ caller \in [Calls -> {"idle", "spawned", "selecting", "returned"}]
  /\ stub \in [Calls -> {"none", "running", "sendRes", "sendErr", "done"}]
  /\ cancelled \in [Calls -> BOOLEAN]
  /\ resCh \in [Calls -> {"empty", "full"}]
  /\ errCh \in [Calls -> {"empty", "full"}]
  /\ outcome \in [Calls -> {"none", "reply", "error", "interrupted"}]
  /\ server \in [Calls -> {"none", "received", "performed", "refused"}]

TypeOK == SigTypeOK /\ CallTypeOK

Init ==
  /\ proc = "running" /\ signals = 0 /\ sigChan = 0
  /\ handler = "off"
  /\ caller = [c \in Calls |-> "idle"]
  /\ stub = [c \in Calls |-> "none"]
  /\ cancelled = [c \in Calls |-> FALSE]
  /\ resCh = [c \in Calls |-> "empty"]
  /\ errCh = [c \in Calls |-> "empty"]
  /\ outcome = [c \in Calls |-> "none"]
  /\ server = [c \in Calls |-> "none"]

-----------------------------------------------------------------------------
(* The user and the signal goroutine. *)

(* signal.Notify never blocks: a signal that finds c full is dropped.  With *)
(* no handler installed the default action ends the process.                *)
Signal ==
  /\ proc = "running" /\ signals < MaxSignals
  /\ signals' = signals + 1
  /\ IF handler = "off"
       THEN proc' = "exited" /\ UNCHANGED sigChan
       ELSE /\ sigChan' = IF sigChan < SigCap THEN sigChan + 1 ELSE sigChan
            /\ UNCHANGED proc
  /\ UNCHANGED <<handler, callVars, server>>

HandleFirst ==
  /\ proc = "running" /\ handler = "first" /\ sigChan > 0
  /\ sigChan' = sigChan - 1
  /\ handler' = "second"
  /\ UNCHANGED <<proc, signals, callVars, server>>

\* Faulty variant: exits without waiting for the second signal.
HandleSecondAtOnce ==
  /\ proc = "running" /\ handler = "second"
  /\ proc' = "exited"
  /\ UNCHANGED <<signals, sigChan, handler, callVars, server>>

HandleSecond ==
  /\ proc = "running" /\ handler = "second" /\ sigChan > 0
  /\ sigChan' = sigChan - 1
  /\ proc' = "exited"
  /\ UNCHANGED <<signals, handler, callVars, server>>

-----------------------------------------------------------------------------
(* The caller. *)

(* context.WithCancel, the two channels, and the go statement. *)
Spawn(c) ==
  /\ proc = "running" /\ caller[c] = "idle"
  /\ caller' = [caller EXCEPT ![c] = "spawned"]
  /\ stub' = [stub EXCEPT ![c] = "running"]
  /\ UNCHANGED <<sigVars, cancelled, resCh, errCh, outcome, server>>

(* Evaluating the select's first case installs the handler, once. *)
EnterSelect(c) ==
  /\ proc = "running" /\ caller[c] = "spawned"
  /\ caller' = [caller EXCEPT ![c] = "selecting"]
  /\ handler' = IF handler = "off" THEN "first" ELSE handler
  /\ UNCHANGED <<proc, signals, sigChan, stub, cancelled,
                 resCh, errCh, outcome, server>>

\* Faulty variant: the deferred cancel is missing.
ReturnNoCancel(c, o) ==
  /\ caller' = [caller EXCEPT ![c] = "returned"]
  /\ outcome' = [outcome EXCEPT ![c] = o]
  /\ UNCHANGED cancelled

(* Every return runs the deferred cancel. *)
Return(c, o) ==
  /\ caller' = [caller EXCEPT ![c] = "returned"]
  /\ outcome' = [outcome EXCEPT ![c] = o]
  /\ cancelled' = [cancelled EXCEPT ![c] = TRUE]

\* Faulty variant: a select with a default case.
SelectStopAnyTime(c) ==
  /\ proc = "running" /\ caller[c] = "selecting"
  /\ Return(c, "interrupted")
  /\ UNCHANGED <<sigVars, stub, resCh, errCh, server>>

\* Faulty variant: joins the goroutine before it returns.
SelectStopJoins(c) ==
  /\ proc = "running" /\ caller[c] = "selecting"
  /\ stopClosed /\ stub[c] = "done"
  /\ Return(c, "interrupted")
  /\ UNCHANGED <<sigVars, stub, resCh, errCh, server>>

SelectStop(c) ==
  /\ proc = "running" /\ caller[c] = "selecting"
  /\ stopClosed
  /\ Return(c, "interrupted")
  /\ UNCHANGED <<sigVars, stub, resCh, errCh, server>>

SelectErr(c) ==
  /\ proc = "running" /\ caller[c] = "selecting"
  /\ errCh[c] = "full"
  /\ errCh' = [errCh EXCEPT ![c] = "empty"]
  /\ Return(c, "error")
  /\ UNCHANGED <<sigVars, stub, resCh, server>>

SelectRes(c) ==
  /\ proc = "running" /\ caller[c] = "selecting"
  /\ resCh[c] = "full"
  /\ resCh' = [resCh EXCEPT ![c] = "empty"]
  /\ Return(c, "reply")
  /\ UNCHANGED <<sigVars, stub, errCh, server>>

-----------------------------------------------------------------------------
(* The goroutine that runs rpcFunc. *)

SendErr(c) ==
  /\ proc = "running" /\ stub[c] = "sendErr"
  /\ errCh[c] = "empty"
  /\ errCh' = [errCh EXCEPT ![c] = "full"]
  /\ stub' = [stub EXCEPT ![c] = "done"]
  /\ UNCHANGED <<sigVars, caller, cancelled, resCh, outcome, server>>

SendRes(c) ==
  /\ proc = "running" /\ stub[c] = "sendRes"
  /\ resCh[c] = "empty"
  /\ resCh' = [resCh EXCEPT ![c] = "full"]
  /\ stub' = [stub EXCEPT ![c] = "done"]
  /\ UNCHANGED <<sigVars, caller, cancelled, errCh, outcome, server>>

-----------------------------------------------------------------------------
(* External: the gRPC stub inside rpcFunc and the runtime behind it. *)

Deliver(c) ==
  /\ proc = "running" /\ stub[c] = "running" /\ server[c] = "none"
  /\ server' = [server EXCEPT ![c] = "received"]
  /\ UNCHANGED <<sigVars, callVars>>

Serve(c, s) ==
  /\ server[c] = "received"
  /\ server' = [server EXCEPT ![c] = s]
  /\ UNCHANGED <<sigVars, callVars>>

RpcReplies(c) ==
  /\ proc = "running" /\ stub[c] = "running" /\ server[c] = "performed"
  /\ stub' = [stub EXCEPT ![c] = "sendRes"]
  /\ UNCHANGED <<sigVars, caller, cancelled, resCh, errCh, outcome, server>>

(* A refusal, a transport error, a deadline, or the cancelled context. *)
RpcFails(c) ==
  /\ proc = "running" /\ stub[c] = "running"
  /\ stub' = [stub EXCEPT ![c] = "sendErr"]
  /\ UNCHANGED <<sigVars, caller, cancelled, resCh, errCh, outcome, server>>

-----------------------------------------------------------------------------
Next ==
  \/ Signal \/ HandleFirst \/ HandleSecond
  \/ \E c \in Calls :
       \/ Spawn(c) \/ EnterSelect(c)
       \/ SelectStop(c) \/ SelectErr(c) \/ SelectRes(c)
       \/ SendErr(c) \/ SendRes(c)
       \/ Deliver(c) \/ Serve(c, "performed") \/ Serve(c, "refused")
       \/ RpcReplies(c) \/ RpcFails(c)

Spec == Init /\ [][Next]_vars

(* The Go scheduler runs every runnable goroutine; a select with a ready    *)
(* case returns, whichever it picks.  Nothing is assumed of the user or of  *)
(* the runtime, except that a stub whose context is cancelled returns.      *)
Fairness ==
  /\ WF_vars(HandleFirst) /\ WF_vars(HandleSecond)
  /\ \A c \in Calls :
       /\ WF_vars(EnterSelect(c))
       /\ WF_vars(SelectStop(c) \/ SelectErr(c) \/ SelectRes(c))
       /\ WF_vars(SendErr(c) \/ SendRes(c))
       /\ WF_vars(cancelled[c] /\ RpcFails(c))

FairSpec == Spec /\ Fairness

-----------------------------------------------------------------------------
(* A reply is reported only for a call the runtime performed: the zero      *)
(* value of a failed stub never reaches the caller as a result.             *)
ReplyMeansPerformed ==
  \A c \in Calls : outcome[c] = "reply" => server[c] = "performed"

(* One signal never ends a crictl that has reached a select: the process    *)
(* then exits only when a second signal follows the one that closed stopCh. *)
ExitNeedsTwoSignals ==
  proc = "exited" /\ handler # "off" => signals >= 2 /\ stopClosed

(* The calls implement the contract of RpcCall. *)
Contract == INSTANCE RpcCall WITH
  outcome <- outcome,
  effect <- {c \in Calls : server[c] = "performed"},
  stopped <- stopClosed

ImplementsRpcCall == Contract!Spec

(* After the first signal every call in flight returns, even when the       *)
(* runtime never answers (or the process ends).                             *)
InterruptReleasesCallers ==
  \A c \in Calls :
    stopClosed /\ caller[c] \in {"spawned", "selecting"}
      ~> caller[c] = "returned" \/ proc = "exited"

(* A call that returned leaves no goroutine behind: its channel has room    *)
(* for the answer nobody reads, and its context is cancelled.               *)
NoGoroutineLeak ==
  \A c \in Calls :
    caller[c] = "returned" ~> stub[c] = "done" \/ proc = "exited"

(* Two signals end the process whatever the calls are doing, even when both *)
(* arrive before the signal goroutine runs: c has room for two.             *)
SecondSignalExits == signals >= 2 ~> proc = "exited"
(* Nobody waits for what cannot come: a goroutine that has an answer finds  *)
(* room for it, though its caller may be gone; a caller that is gone has    *)
(* cancelled the context; and of two signals sent to a crictl that handles  *)
(* them one is always left for the receive that the handler is at.          *)
NothingBlocks ==
  /\ \A c \in Calls :
       /\ stub[c] = "sendRes" => resCh[c] = "empty"
       /\ stub[c] = "sendErr" => errCh[c] = "empty"
       /\ caller[c] = "returned" /\ stub[c] = "running" => cancelled[c]
  /\ proc = "running" /\ signals >= 2 => handler # "off" /\ sigChan > 0
=============================================================================
