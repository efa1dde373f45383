-------------------------- MODULE BenchmarkResults --------------------------
(***************************************************************************)
(* A critest lifecycle benchmark (pkg/benchmark): the spec body starts the *)
(* results consumer of a LifecycleBenchmarksResultsManager, lets gmeasure  *)
(* run NumSamples callbacks on its workers, sends nil, awaits the consumer *)
(* and writes the results file.  Both channels of the manager are          *)
(* unbuffered, so a send and its receive are one step here.  The flag      *)
(* resultsConsumerRunning is shared by both goroutines without a lock.     *)
(*                                                                         *)
(* A timeout may fire whenever its select is waiting.  A failed operation  *)
(* panics: in the spec's own goroutine (NumParallel <= 1) Ginkgo recovers  *)
(* it, in a worker goroutine nothing does.                                 *)
(***************************************************************************)
EXTENDS Naturals

CONSTANTS
  NumSamples,   \* SamplingConfig.N, a spec with N <= 0 is skipped
  NumOps,       \* operations of one lifecycle: 4 for a pod, 5 for a container
  Workers       \* gmeasure's workers; one stands for the spec's goroutine

ASSUME SamplesAssumption == NumSamples \in Nat \ {0}
ASSUME OpsAssumption == NumOps \in Nat \ {0}

Samples == 0..(NumSamples - 1)
NoSample == NumSamples
Sequential == \E w \in Workers : Workers = {w}

VARIABLES
  proc,        \* critest is "running" or has "crashed" on a panic
  main,        \* the goroutine of the spec body
  nextIdx,     \* the index of the next callback of Experiment.Sample
  task,        \* the sample a worker's callback works on, or NoSample
  step,        \* lifecycle operations that callback has finished
  consumer,    \* the goroutine of awaitResult
  held,        \* the datapoint it has received and not yet registered
  running,     \* resultsConsumerRunning
  datapoints,  \* resultsSet.Datapoints, the samples registered
  file         \* the samples in the results file

benchVars == <<proc, main, nextIdx, task, step, consumer, held, running,
          datapoints, file>>
workerVars == <<nextIdx, task, step>>
consumerVars == <<consumer, held, datapoints>>

MainStates == {"start", "sampling", "sendNil", "checkFlag", "awaiting",
               "write", "done", "failed"}
ConsumerStates == {"none", "waiting", "registering", "ending", "over", "ended"}

BenchTypeOK ==
  /\ proc \in {"running", "crashed"}
  /\ main \in MainStates
  /\ nextIdx \in 0..NumSamples
  /\ task \in [Workers -> 0..NumSamples]
  /\ step \in [Workers -> 0..NumOps]
  /\ consumer \in ConsumerStates
  /\ held \in 0..NumSamples
  /\ running \in {"yes", "no"}
  /\ datapoints \subseteq Samples
  /\ file \subseteq Samples

BenchInit ==
  /\ proc = "running" /\ main = "start"
  /\ nextIdx = 0
  /\ task = [w \in Workers |-> NoSample]
  /\ step = [w \in Workers |-> 0]
  /\ consumer = "none" /\ held = NoSample
  /\ running = "no"
  /\ datapoints = {} /\ file = {}

-----------------------------------------------------------------------------
(* The spec body, and Experiment.Sample. *)

StartResultsConsumer ==
  /\ proc = "running" /\ main = "start"
  /\ main' = "sampling"
  /\ running' = "yes"
  /\ consumer' = IF running = "no" THEN "waiting" ELSE consumer
  /\ UNCHANGED <<proc, workerVars, held, datapoints, file>>

(* work <- idx, or the direct call when there is one worker. *)
Dispatch(w) ==
  /\ proc = "running" /\ main = "sampling" /\ nextIdx < NumSamples
  /\ task[w] = NoSample
  /\ task' = [task EXCEPT ![w] = nextIdx]
  /\ step' = [step EXCEPT ![w] = 0]
  /\ nextIdx' = nextIdx + 1
  /\ UNCHANGED <<proc, main, consumerVars, running, file>>

\* Faulty variant: does not wait for the workers.
SampleReturnsEarly ==
  /\ proc = "running" /\ main = "sampling" /\ nextIdx = NumSamples
  /\ main' = "sendNil"
  /\ UNCHANGED <<proc, workerVars, consumerVars, running, file>>

(* Sample returns after close(work) and wg.Wait(). *)
SampleReturns ==
  /\ proc = "running" /\ main = "sampling" /\ nextIdx = NumSamples
  /\ \A w \in Workers : task[w] = NoSample
  /\ main' = "sendNil"
  /\ UNCHANGED <<proc, workerVars, consumerVars, running, file>>

-----------------------------------------------------------------------------
(* The callback of one sample. *)

Operate(w) ==
  /\ proc = "running" /\ task[w] # NoSample /\ step[w] < NumOps
  /\ step' = [step EXCEPT ![w] = @ + 1]
  /\ UNCHANGED <<proc, main, nextIdx, task, consumerVars, running, file>>

(* framework.ExpectNoError fails: see the head of the module. *)
OperationFails(w) ==
  /\ proc = "running" /\ task[w] # NoSample /\ step[w] < NumOps
  /\ IF Sequential
       THEN /\ main' = "failed"
            /\ task' = [task EXCEPT ![w] = NoSample]
            /\ UNCHANGED proc
       ELSE proc' = "crashed" /\ UNCHANGED <<main, task>>
  /\ UNCHANGED <<nextIdx, step, consumerVars, running, file>>

(* resultsChannel <- &res meets the consumer's receive. *)
SendResult(w) ==
  /\ proc = "running" /\ task[w] # NoSample /\ step[w] = NumOps
  /\ consumer = "waiting"
  /\ held' = task[w]
  /\ consumer' = "registering"
  /\ task' = [task EXCEPT ![w] = NoSample]
  /\ UNCHANGED <<proc, main, nextIdx, step, running, datapoints, file>>

-----------------------------------------------------------------------------
(* awaitResult, the consumer. *)

Register ==
  /\ proc = "running" /\ consumer = "registering"
  /\ datapoints' = datapoints \cup {held}
  /\ held' = NoSample
  /\ consumer' = "waiting"
  /\ UNCHANGED <<proc, main, workerVars, running, file>>

\* Faulty variant: gives up without a panic.
ConsumerTimeoutReturns ==
  /\ proc = "running" /\ consumer = "waiting"
  /\ consumer' = "ended"
  /\ UNCHANGED <<proc, main, workerVars, held, datapoints, running, file>>

ConsumerTimeout ==
  /\ proc = "running" /\ consumer = "waiting"
  /\ proc' = "crashed"
  /\ UNCHANGED <<main, workerVars, consumerVars, running, file>>

(* resultsChannel <- nil meets the consumer's receive. *)
SendNil ==
  /\ proc = "running" /\ main = "sendNil" /\ consumer = "waiting"
  /\ main' = "checkFlag"
  /\ consumer' = "ending"
  /\ UNCHANGED <<proc, workerVars, held, datapoints, running, file>>

ClearRunning ==
  /\ proc = "running" /\ consumer = "ending"
  /\ running' = "no"
  /\ consumer' = "over"
  /\ UNCHANGED <<proc, main, workerVars, held, datapoints, file>>

-----------------------------------------------------------------------------
(* AwaitAllResults and WriteResultsFile. *)

AwaitChecksFlag ==
  /\ proc = "running" /\ main = "checkFlag"
  /\ main' = IF running = "no" THEN "write" ELSE "awaiting"
  /\ UNCHANGED <<proc, workerVars, consumerVars, running, file>>

(* resultsOverChannel <- true meets AwaitAllResults' receive. *)
ResultsOver ==
  /\ proc = "running" /\ main = "awaiting" /\ consumer = "over"
  /\ consumer' = "ended"
  /\ main' = "write"
  /\ running' = "no"
  /\ UNCHANGED <<proc, workerVars, held, datapoints, file>>

(* The body logs the error and goes on. *)
AwaitTimeout ==
  /\ proc = "running" /\ main = "awaiting"
  /\ main' = "write"
  /\ UNCHANGED <<proc, workerVars, consumerVars, running, file>>

WriteResultsFile ==
  /\ proc = "running" /\ main = "write"
  /\ main' = "done"
  /\ file' = IF running = "yes" THEN file ELSE datapoints
  /\ UNCHANGED <<proc, workerVars, consumerVars, running>>

-----------------------------------------------------------------------------
BenchNext ==
  \/ StartResultsConsumer \/ SampleReturns
  \/ Register \/ ConsumerTimeout \/ SendNil \/ ClearRunning
  \/ AwaitChecksFlag \/ ResultsOver \/ AwaitTimeout \/ WriteResultsFile
  \/ \E w \in Workers :
       Dispatch(w) \/ Operate(w) \/ OperationFails(w) \/ SendResult(w)

BenchSpec == BenchInit /\ [][BenchNext]_benchVars

(* Goroutines run, an operation of the runtime ends one way or the other    *)
(* (the CRI client bounds every call), time passes for a waiting select, and  *)
(* Go serves the senders blocked on a channel in their order.                 *)
BenchFairness ==
  /\ WF_benchVars(StartResultsConsumer \/ SampleReturns)
  /\ WF_benchVars(AwaitChecksFlag \/ WriteResultsFile)
  /\ WF_benchVars(ResultsOver \/ AwaitTimeout)
  /\ WF_benchVars(Register \/ ClearRunning)
  /\ WF_benchVars(SendNil)
  /\ WF_benchVars(ConsumerTimeout)
  /\ \A w \in Workers :
       /\ WF_benchVars(Operate(w) \/ OperationFails(w))
       /\ SF_benchVars(SendResult(w))
  /\ WF_benchVars(\E w \in Workers : Dispatch(w))

BenchFairSpec == BenchSpec /\ BenchFairness

-----------------------------------------------------------------------------
(* A results file is complete: once the consumer has seen the end of the    *)
(* stream every sample is registered, so a file, if written, has them all.  *)
ResultsComplete ==
  /\ consumer \in {"ending", "over", "ended"} => datapoints = Samples
  /\ file # {} => file = Samples

(* The results set is read without a lock, so the file is written only once *)
(* the consumer has declared its end, even when AwaitAllResults timed out.  *)
WriteAfterEnd ==
  [][file' # file => consumer \in {"over", "ended"}]_benchVars

(* Nobody waits for ever: the spec body ends or critest is brought down by  *)
(* a panic, although every channel is unbuffered and a consumer that has    *)
(* given up would leave the workers and the body blocked in their sends.    *)
BenchmarkEnds == <>(main \in {"done", "failed"} \/ proc = "crashed")

(* Whoever waits at an unbuffered channel waits for somebody who has yet to *)
(* come to its other end: the workers and the body, when they send, for a   *)
(* consumer that has not ended; AwaitAllResults for a consumer that has not *)
(* reported its end.  A timeout, of either side, is all that can interfere. *)
PartnersRemain ==
  /\ main \in {"sampling", "sendNil"} => consumer \in {"waiting", "registering"}
  /\ main = "awaiting" => consumer \in {"ending", "over"}
=============================================================================
