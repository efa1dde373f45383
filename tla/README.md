# A TLA+ model of cri-tools

cri-tools has two programs: `crictl`, a command line client of container
runtimes that speak the CRI (Container Runtime Interface), and `critest`, a
suite of conformance tests and benchmarks for them. Neither keeps state of its
own for long, but both drive a concurrent system they do not control: calls are
made by goroutines, may be interrupted while they are on their way, fail halfway
through a list, or are performed by the runtime after the user was told that
they failed. The modules here say what a user may rely on all the same.

Paths of source files are relative to the root of the repository.

## Inventory

| Part | Source | State and operations | What is hard | What makes it correct |
|---|---|---|---|---|
| Interruptible RPCs | `cmd/crictl/util.go` | the stop channel and its signal goroutine; per call a goroutine, two channels, a context | an answer races the signal; the handler is installed by the first select | a reply was really produced; one signal releases all callers, two end the process; no goroutine is left |
| rm, rmp | `cmd/crictl/container.go`, `sandbox.go`, `util.go` | one goroutine per id: status, stop, remove, logs | the state read is stale when used; one container in two goroutines; late effects | success is real; running containers are spared without `--force`; logs outlive their container |
| start, stop, stopp, update, checkpoint | the same | a loop over ids, one call each; `stop --all` reads a list first | fails in the middle; others start and stop containers | effects and output are those of a prefix of the ids |
| run, create | `container.go`, `image.go`, `util.go` | a fixed sequence of calls, with files read in between | partial failure without undo; the pod file is read twice; a password prompt | what was done is a prefix of the plan, one call at most in doubt |
| exec | `exec.go`, `util.go` | one goroutine per container and an `err` they share | a data race on `err`; results in any order | the exit status tells whether all commands succeeded |
| rmi | `image.go` | a map of names to remove, a goroutine per name | images, containers and their images are read one after the other | pinned images and images in use are spared by `--prune` |
| Client configuration | `pkg/common/file.go`, `config.go`, `cmd/crictl/config.go`, `crictl_config.go`, `main.go` | a YAML file that every process reads and `crictl config` rewrites | processes overlap without a lock; truncation before the write; crashes | no invented values; a set is all or nothing |
| Benchmarks | `pkg/benchmark` | spec body, gmeasure workers, results consumer, two unbuffered channels, an unprotected flag | timeouts against sends, panics in goroutines | a results file is complete, nobody blocks for ever |
| Connection | `cmd/crictl/crictl_config.go` | default endpoints in turn, retries with growing delays | limits 0 and below, a shared configuration that is changed, runtimes that start in between | each service is connected where the user asked; the number of attempts and waits is the one asked for |
| Watching: stats, statsp, metricsp | `util.go`, `container_stats.go`, `pod_stats.go`, `pod_metrics.go` | a ticker and a goroutine that displays; two samples of unsigned counters | an interrupt during a sample; a counter that restarts; objects that come and go | ends on an interrupt or an error; a share is that of the two samples shown |
| events | `events.go` | a producer and a printer over an unbuffered channel | the end races the last events | ends on an interrupt, prints all events in order |
| ps, pods, images | `container.go`, `sandbox.go`, `image.go` | filters, `--latest`, `--last`, sorting | counts at their limits, order of filter and cut | the newest n of what matches |
| pull, runp, inspect and others | several | one call and its printing | | those of the call |
| Streaming: attach, port-forward, logs | several | streams of client-go and the kubelet | | outside this repository |
| critest: specs | `pkg/validate`, `pkg/framework` | variables shared by the specs of a context, BeforeEach, AfterEach and deferred calls; pods, images, ports, mounts and directories of the host | specs that fail half-way; several processes with one runtime; specs that pull and remove images | no false alarm, no spec that passes or skips wrongly, nothing left on the host |
| critest: NRI | `pkg/validate/nri_linux.go`, `nri_util_linux.go` | plugins with goroutines and timeouts, hooks that hold calls of the runtime, containers created in goroutines | a registration that is given up and succeeds; containers made while a plugin synchronizes; goroutines that outlive their spec | the same, for every runtime that breaks one promise of NRI; no call of the runtime is held for ever |
| critest: suite | `cmd/critest`, `pkg/framework` | nodes of `-parallel`, Serial specs | order and overlap of specs | as above |
| Tracing, templates, completion, time parsing | several | no lasting state | | |

How they interact: every command of crictl gets its configuration from the file
(once, at the start), makes each call to the runtime by InterruptableRPC, and,
where it works on several objects at once, collects the results of its
goroutines by AggregateGoroutines. The runtime is shared with other clients
(the kubelet, other crictl processes), which act at any time. PROJECT.json lists
the parts with their status, and the hazards with the line where each bites.

## Modules

| Module | Models | Proofs |
|---|---|---|
| RpcCall | abstract: what a caller may expect of a call | |
| InterruptableRPC | the call, its goroutine and the signal goroutine | InterruptableRPCProofs |
| RemoveContainers | rm and rmp | ParallelCommandProofs |
| SequentialCommand | start, stop, stopp, update, checkpoint | SequentialCommandProofs |
| RunContainer | run and create | InterruptableRPCProofs |
| ExecCommand | exec | ParallelCommandProofs |
| RemoveImages (MCRemoveImages) | rmi | RemoveImagesProofs |
| ConfigFile (MCConfigFile) | the configuration file and its processes | ConfigFileProofs |
| BenchmarkResults | a benchmark and its results manager | ParallelCommandProofs |
| Connect | the connections of a command | WatchingProofs |
| Watching (MCWatching), extends Connect | stats, statsp, metricsp and events, from their connection to their end | WatchingProofs |
| CriRuntime | the container runtime and the host, as critest uses them | |
| CritestSteps | the helpers of pkg/framework and pkg/validate, as sequences of steps | |
| CritestPod, CritestContainer, CritestNetwork, CritestSecurity, CritestImage | the specs of pkg/validate | |
| Critest (MCCritest) | Ginkgo's nodes performing those specs with one runtime | CritestProofs |
| CritestClaims | what can be read off the text of a suite, as assumptions | |
| NriStub | a plugin: its stub, its hooks, its timeouts | |
| NriScenarios | the NRI specs | |
| Nri (MCNri) | their performance, with a runtime that keeps or breaks its promises | NriProofs |
| NriClaims | what can be read off the text of the NRI specs, as assumptions | |

RpcCall is the joint. InterruptableRPC is shown to implement it, with all its
goroutines and channels; the commands are modelled on top of it, so that a call
is one step of the caller, one of the runtime and one that reports the outcome.
RunContainer, the command with the longest sequence of calls, and SequentialCommand are in turn shown
to use their calls as RpcCall says. What RpcCall leaves open matters most: the
runtime may perform a call whose caller was told "error" or "interrupted", and
may do so later, even when crictl has ended.

### InterruptableRPC

A call is `caller` (the goroutine in InterruptableRPC: spawned, at its select,
returned), `stub` (the goroutine that runs rpcFunc, between the answer and its
send), `resCh` and `errCh` (capacity one, so "empty" or "full"), `cancelled`
(the context) and `server` (the runtime's side). The signal goroutine is
`handler`, named after the receive it is at; `stopClosed` follows from it, since
the channel is closed between the two. `sigChan` is the number of signals in the
channel of signal.Notify, which drops what does not fit. sync.Once is the guard
`handler = "off"` of EnterSelect: the handler is installed when the first select
evaluates its cases, so a signal that comes earlier has its default action. gRPC and the
runtime are external: a request is delivered or not, performed or refused, and
the stub may return an error at any time but a reply only for a call performed.

### RemoveContainers

`target` gives each goroutine its container; two goroutines may have the same,
as when an id is given twice. Status reads the state and decides on it in the
same step, because the decision uses only what was read; stop and remove follow
in steps of their own. `request` is the last request of a goroutine with the
runtime; Perform does it and Fail and Lose end the caller's or the runtime's
interest in it, in either order. `killed` records which running containers were
ended by a request. `logs` is what has become of the log of a container: it may have
had no path ("none"), and a file that os.Remove fails to delete is "reported" on stderr
while the goroutine returns nil all the same, as is one that another goroutine has deleted. A pod
with `rmp` is the same with READY for running, and has no logs, which is the case `keepLogs`.

### SequentialCommand

`ids`, `pos`, `phase` are the loop, `pending` and `performed` the calls with the
runtime by index, `printed` the output. `startedLate` collects the containers
other clients start; they are the ones a command cannot answer for.

### RunContainer

The calls are numbered: RunPodSandbox (run only), one PullImage per image (with
pulls on: the flags override the configuration), CreateContainer, StartContainer
(run only). `Op(i)` names the i-th call, `k` the one in hand, `last` how it
ended. LoadPod, LoadContainer and ReloadPod are the reading of the files: the pod
config is read again by CreateContainer, and a missing uid is generated each
time. Auth is getAuth with its password prompt, which no signal interrupts.

### ExecCommand

`local` is the result of Exec in a goroutine before it is assigned, `shared` the
variable `err` of the enclosing Action. Assign and Test are two steps, as they
are two accesses of a variable without synchronisation. The exit code of a
command is lost in ExecSync because the client library turns a non-zero one into
an error; only success and failure are told apart.

### RemoveImages

`ids` is the map of the code: a name with TRUE is to be removed, with FALSE to be
kept. An image has an id and a tag. List and ListContainers are the two lists,
Exclude handles one container of the second and ExcludeFails is the request that
fails and is only logged. Spawn starts a goroutine per name with TRUE.

### ConfigFile

A file that parses is a function from options to values or Absent. Each process
runs one command: Start is Before in main.go, which every command goes through
(what the other commands do with the configuration is not part of this module);
Stat, Open and Write create a missing file; Read, SetValue (one setting), Reject
and AllApplied are the command; Open and Write are os.WriteFile, which truncates
first. Overwritten says what may be in a file that two processes have written at
once: the text of the later one, lines left of a longer one, or something that
does not parse; it allows more than one pair of writes can produce. Kill ends a
process at any step, and Open and Write may fail. `base`, `solo` and `initial`
are history.

### BenchmarkResults

`main` is the spec body, `task` and `step` the workers, `consumer` the goroutine of
awaitResult with the datapoint it holds, `running` the flag both sides use
without a lock. Sends on unbuffered channels and their receives are one step.
A failed operation panics: in the goroutine of the spec Ginkgo recovers, in a
worker nothing does.

### Connect and Watching

`command` is what was typed and what the file says, `config` the two endpoints of
the shared configuration and whether each is `set`. Get is GetRuntimeService or
GetImageService up to its first attempt; the latter writes to `config` when the
image endpoint is empty. Dial, DefaultFails and DialFails are the ways out of an attempt,
TimePasses the wait between two. The context of a command is the one of
app.Run, which is never done, so that only a signal ends the waits; no select of
InterruptableRPC was evaluated by then, and a signal kills crictl.

Watching goes on where Connect ends. `main` is the select of handleDisplay or of
Events, `worker` the goroutine with the ticker, or the producer of events, and
`errCh` the channel between them. First, Wake and Second take the two samples, MakeRows
compares them, Flush shows the rows: a round begun before an interrupt is finished, and its
screen may appear late. The counters are kept modulo Width and `really` is what
they should say; a container restarted under its id between the samples has a
smaller counter, and the difference wraps around (container_stats.go computes
it in unsigned integers), which SharesAreTrue excepts. `stub` is the loop of
GetContainerEvents in the client library, with `hand` the event it offers.

### The specs of critest

A spec is a record of the sequences of steps of its BeforeEach, body and
AfterEach, and of what its title `claims` (CritestSteps!It). A step is a call of the runtime, an assertion, an
assignment to a variable AfterEach looks at, the registration of a deferred
call, or an operation on the host. The operators that build the sequences have
the names of the Go functions they stand for, so that `testStopContainer(c)` is
the steps of testStopContainer. CriRuntime holds pods, containers, images, ports
of the host, mounts and directories. An option given to a container or a pod is
a token; it has its effect unless the runtime ignores it. 

Critest performs the specs. `node[n].units` are the parts of the spec still to be performed,
`todo` the steps of the one in hand; a failed step ends the part, its deferred
calls are performed, and then AfterEach. `env` holds the variables, which belong
to the context and are not reset between its specs. Serial specs run alone, the others on
all nodes at once. A plan chooses the specs, the nodes, and one thing that is
wrong: a call that fails (Fault, at any step), an option that is ignored, or a
feature that is lacking. 

What the model shows of the code, and the properties except by name: podPID and
podNetwork look for what should not be there a fixed time after the start, or
not at all; addAllCapabilities and versionInfo assert what is true of every
runtime (Blind). Helpers that fail before they return leave the pod and the
directory they made (MayLeave); the segment of shared memory is always left.
skipIfImageVolumeUnsupported takes some errors of the creation for a missing feature
and skips the spec for them, also where an error is what the spec wants; any other
error then passes for the refusal, whatever caused it (Misled). A look that fails may
skip a spec as well, and the user namespace specs of a process share one status through a Once, so
that all of them are skipped after the first one that failed (Mistaken). In the plans a
runtime without image volumes refuses them in the words the specs know, or passes over
them, and one that has them refuses in other words.

### NRI

NriStub is one plugin, as pure operators on its record: `start` is
StartNRITestStub, which gives up after its timers, `run` the stub's Run, `conn`
its connection, `reaper` the goroutine that closes what was given up, `events`
what was recorded. NriScenarios has one operator per spec, a tree of steps
with the goroutines it starts. Nri performs them one after the other, since
they are Serial; `go` are the goroutines, `ret` how their calls ended, `held` the calls of
the runtime that a hook holds. A plan is the order of the specs, how the runtime treats events of
a plugin that is synchronizing (it queues them, the caller waits for it, or it loses
them), the promise it breaks, whether timers may expire, and the faults.

What is excepted: podID of the failure specs is not reset, so that one that
fails early cleans up the pod of the spec before it and not its own; AfterEach of the spec that
holds RunPodSandbox does not wait for it to return (MayLeave).

## Runs

| Run | Instance | Shows |
|---|---|---|
| rpc | 2 calls, 3 signals | one signal never ends a crictl that is at a select (ExitNeedsTwoSignals), RpcCall is implemented, the first signal releases every caller, no goroutine is left, the second signal ends the process |
| rm | 2 containers, 2 goroutines, all flags and states | NilMeansRemoved, RunningSpared, LogsOutliveContainer, and rm returns |
| sequential | 2 containers, up to 3 ids | DoneInOrder, StopAllStopsAll |
| run_container | 2 images, all flags, both commands | EffectsArePrefix, InterruptEnds |
| exec_status | 3 containers, codes 0 and 3 or no call | SyncExitStatus, ExitsWhenAllEnd |
| rmi | 2 images, a tag each, 1 container | InUseSpared, SuccessMeansGone |
| config | 2 processes, 2 options, 5 requests, 4 first files | NoInventedValue, SetIsAllOrNothing |
| benchmark | 3 samples, 2 operations, 2 workers | ResultsComplete, BenchmarkEnds |
| watch | 2 endpoints, retries -1, 0, 1 and 6, 1 object, counters modulo 8, 3 things that happen to it, 2 events | ConnectsAsAsked, PatienceAsAsked, SharesAreTrue, OneLateScreen, EventsComplete, WatchEnds |
| critest | every spec alone with each single fault, ignored option and missing feature, those that want an error with a fault and an ignored option; chosen pairs one after the other and on two nodes | NoFalseAlarm, NothingLeftBehind, PassMeansConforming, SkippedMeansMissing, EverySpecEnds |
| nri | every spec with a runtime that conforms, each promise it can break, faults, expired timers; pairs of specs | NoFalseAlarm, PassMeansPromiseKept, NoContainerLost, NoPodLeftBehind, FailuresAreOwn, EverySpecEnds, RuntimeLetGo |

One more run shows a disagreement between the code and what is said of it:

- `exec_shared_err`: FailureReported. Without `--sync` a command that fails is
  lost when another goroutine assigns its nil to the shared `err` between the
  assignment and the test; crictl exits 0.

Some of what the models allow is known and not stated as a property. When the
status request for the image of a container fails, `rmi --prune` logs the error
and the image stays selected (InUseSpared excepts it). The CRI says of CreateContainer that its
sandbox config is the one RunPodSandbox was given (api.proto:1372); `crictl run` reads the pod file
again instead, so that without a uid in the file the two calls get two generated ones, and
the file may have been edited in between (`ranWith` and `createdWith` of RunContainer). A configuration file without `max-retries`, and the one `crictl
config` creates, turn retries off, where the flag's default is 3. With the default endpoints, a
command may talk to two runtimes when one starts between its two connections
(ConnectsAsAsked). After an interrupt, `--watch` may report "interrupted" or nothing.

### Bounds

Two goroutines, containers, images or processes are enough for what two of them can do to
each other: the same container in two goroutines, the flag of one read by the
other, two writers of the file. A third adds an actor in exec, where the race
needs an assignment between two accesses of another and the count of results is
checked. Three signals exceed the capacity of the signal channel by one. Three ids over two containers
include an id given twice. Two images give run a pull before and after the one
that fails. Three samples keep two workers busy while one is registered.
Six retries reach the delay that is capped and one more; with two default endpoints
either is the first that serves, and one flip lets a runtime start or stop between any two
attempts. Three events in the life of one object give a restart, or an end and a new
beginning, on either side of a sample. In critest and nri, one thing that is wrong is
enough for what a spec does about it; the pairs are of specs that share a
variable, an image, a port or a plugin. MaxSignals, MaxIds, MaxDials (which caps
a count), MaxFlips, MaxClock, MaxEvents and the faults of a plan are the only
bounds in guards. The proofs lift the bounds for what they cover.

Deadlock is not checked, because commands end: every run says so.

### Fairness

Weak fairness stands for the Go scheduler: a goroutine that can go on does, and
a select with a ready case returns. Sends of benchmark workers have strong
fairness, since the workers compete for the one receiver and Go's channels serve
waiting senders in order. In RemoveContainers a call ends, because the CRI client
gives every call a deadline; in InterruptableRPC nothing is assumed of the runtime, except that a stub returns once
its context is cancelled. Nothing is assumed of the user, of other clients, or of
commands run in a container. RunContainer assumes only what crictl does itself;
the password prompt, shown when a user name is given, may be waited for without end.
In Watching each goroutine has its own fairness, timers fire and calls end; nothing is
assumed of what happens to objects, of events, or of runtimes that start. In Critest the nodes,
the goroutines of the concurrent removal and the containers (a command that can end
does) go on; in Nri the same, each goroutine for itself, the runtime answers, and
a timer that runs expires. Nothing is assumed of faults.

## Proofs

The proofs hold for every value of the constants: any number of calls and
signals, containers, ids, images, samples, workers, processes and options. They
assume what the modules assume of their constants (numbers are natural numbers,
tokens differ, sets of ids are finite), all checked by TLC on each instance.

- InterruptableRPCProofs: TypeCorrect, RepliesCorrect, ExitCorrect, and
  Refinement: `Spec => Contract!Spec`, and NothingBlocksEver. The invariant adds to the types that a
  full resCh, or a stub about to fill it, belongs to a call performed
  (RepliesAreReal), that there is an outcome exactly when the caller has returned, and
  an account of the signals: those in the channel and those received are no
  more than those sent (SignalsAccounted), from which two are needed to exit.
  Each action of the detailed module maps to one action of RpcCall or to a
  stutter, SelectRes to Reply by RepliesAreReal. NothingBlocks is what the
  liveness properties rest on: an answer is sent once and into channels of its
  own (SentOnce), and a signal is dropped only when two are waiting
  (SignalsKept), so that every send has room and a second signal is always
  received.
- Of run and create, in the same module: EffectsCorrect, SuccessCorrect, and
  RunRefinement to RpcCall under the mapping in RunContainer. The invariant has the
  shape of SequentialCommand's, with the numbers of the calls fixed by the flags (FlagsFixed).
- SequentialCommandProofs: OrderCorrect, StoppedCorrect, StopAllCorrect, and
  Refinement to RpcCall, where the place among the ids tells how each call has ended (Told). The
  inductive invariant places the command among its ids (Place), relates the calls with the
  runtime to that place (Effects: all before it are performed, only its own may be pending),
  and the output to both. StopsHold then follows action by action, since a
  container whose stop was performed runs only if it was started since.
- ConfigFileProofs: InventedCorrect, InvalidCorrect, AloneCorrect. What a process
  holds in memory must be of the same kind as what is in the file (Inventory),
  for it is what will be written; and a process that meets an invalid file never
  gets to where files are opened (Barred). SetIsAllOrNothing speaks of the
  command that had the file to itself, and of every step at which it may be
  killed. AloneInv follows it: no other process is at work (Solitude), its
  memory is blank until it has read the file (Blank), which is as it was until it is
  created (Creating), the process then holds the first text with its settings up to the one in hand
  (Applying, where Upto is that text), and it opens the file
  with all of them (Writing).
- ParallelCommandProofs, for what works with a goroutine per item: the two commands
  that run one function per id by AggregateGoroutines, and the benchmarks. Of rm: NilCorrect (nil means that the container is gone, and that its
  log is gone too or stderr names what is left), SparedCorrect, LogsCorrect. A container
  whose removal was answered stays removed (Gone), whoever asked for it; without
  --force a goroutine that has come to the removal has a container that was
  created only, or has ended, and a container only goes on (History, Gentle).
  Of exec: SyncCorrect, UnanimousCorrect, WaitsForAll. AllSucceed and AllFail
  strengthen UnanimousOutcome: when all results are the same, so is every copy
  of one, in a goroutine, in `err` or in the channel.
  Of the benchmarks: ResultsCorrect, WriteCorrect. Every sample handed out
  is with a worker, with the consumer, or registered (SamplesAccounted), so none
  is missing when the body has sent nil; ConsumerInStep ties the consumer and
  the flag to the place of the body. From it follows PartnersCorrect too:
  nobody waits at an unbuffered channel for a goroutine that has ended, which is
  the safety half of BenchmarkEnds.
- RemoveImagesProofs: SparedCorrect, SuccessCorrect. The selection is followed
  from the lists to the goroutines: an image in use that is still selected was
  named, or its container is still to be looked up or could not be (Selection);
  without --prune nothing is left out, and a goroutine that ends well leaves no
  image of its name (Complete).
- WatchingProofs, for any endpoints, any list of default endpoints, any number
  of retries, any set of objects, any clock and any events. Connections and
  Patient rest on ConnInv: the configuration a service is dialled with is the
  one asked for, though GetImageService writes to the one both services share
  (Configured); as long as no runtime started or stopped, the defaults that were
  tried served none (Connected); and the time waited is the sum of the delays so
  far, up to the current one (Waiting, with DelaysAddUp), where a loop that has
  no limit is kept apart. Shares rests on Shows: what is taken in a sample is what the
  clock says (Measured), the clock stays below Width, so that a difference modulo
  Width of two samples of one life is their real difference, and so rows and
  screen tell the truth wherever they are on their way (Truthful). LateScreens
  and AllEvents rest on Ends: after the interrupt a round that is in progress ends, and
  has asked for no other (Lateness); every event received is printed or is the one
  in hand (Streamed).
- CritestProofs, for any suite, any number of processes, any plan with any number
  of faults, ignored options and missing features. PassMeansConforming is not
  inductive: it speaks of specs that have ended, and what makes them honest is
  what their steps saw on the way. Its invariant, Passing, follows a spec from the step in
  hand to its verdict. The steps behind a spec that has passed so far have not
  looked at what the runtime ignores (Told), nor have those of one that has ended
  and passed (Believed); what is still to do is the end of its body (Course), so that
  no step is left out. Most looks speak for themselves, since nothing in the runtime has an
  option that it ignores (SoundWorld). Steps that want an error do not: a refused
  container may have been refused because its pod or its image is gone, and a
  command that should be refused, because its container is not running. There
  what the spec has prepared must stand (Laid), though other processes use the same
  runtime. Two theorems of their own carry this: TurnsCorrect, no spec runs in two
  processes and a Serial one, which alone takes the images of others away, runs alone; and
  ProcessesLeftAlone, a step of one process leaves every pod that the spec of another
  has run, and its containers there, as they are, since a process knows only
  of its own things and of those of ended specs (Owned), though its variables outlive
  the specs that set them. What is assumed of the suite is in CritestClaims and can be read off
  the text of the specs: of whatever a spec claims some step of its body looks whether it is so
  (ClaimsAssumption); the steps before one that wants an error only
  prepare (Attests, Prepares); specs that remove images others fetch are Serial
  (RemovalAssumption). TLC evaluates these assumptions for the 142 specs in the run
  critest. The specs in Blind are those of which ClaimsAssumption is false.

  A step that wants an error is deceived by one of another cause, and only by that
  (Misled, which PassMeansConforming grants).

  SkippedMeansMissing has two halves, and Skipping is what they add to Passing. That with a
  runtime that has everything only a fault skips a spec is Meant, for the specs that are
  running and those that have ended: a step that asks for a feature, or takes an error
  for the answer, succeeds when nothing is missing (AskedGoes), unless it is asked of a container that
  is not running or not there, or in a variable that was never set. So the spec must be followed to that
  step: what it has made before is there and has been looked at (Stands, Phased, Answered),
  and a status shared by Once was got by the first spec or lost by a fault that is on
  record (Remembered). Of the text AskingAssumption says that only bodies of specs ask, after
  steps that have made and answered what they ask about, and that nothing overwrites what a Once has
  found (Tidy carries it through the cleaning up). That a spec whose feature is missing neither
  passes nor fails has to be followed from its first step too (Graceful): with a runtime that
  is right otherwise no step before the one that asks may fail, that one does not
  succeed (Told), so it skips the spec, and the ids for cleaning up are there by then. A step does
  not fail when what it needs stands: its pod is ready and its image there (Laid), its
  container has not been started yet, or is there to be listed (Phased). LacksAssumption says
  that the specs about a feature are written so: up to the step that declines, each step is
  one of the kinds that cannot fail, given the steps before it (CannotFail), and where a step
  may skip, all that is pending for cleaning up has been made or is looked for first (Fit).
- NriProofs, for any specs, in any order, with any plan: FailuresAreOwnCorrect, a
  goroutine that a spec has left behind never fails another one unless plugins are slow.
  GinkgoRecover fails whichever spec runs, so the invariant has to say that a goroutine that
  may still fail its spec belongs to the spec that runs, and that this one waits for it before it does
  anything that could end it (Owned). Until then it takes steps of five kinds. Four cannot
  fail. The fifth is waitReady, which fails when the plugin was given up, and this is
  where the proof needs the plugins: one that is not slow is given up only when it was
  stopped or never gets synchronized (Steady); in its body a spec has stopped none of its
  plugins (Alive), and the plugins it looks at are those it has started itself, not what others
  have left (Keyed, and Turn, since each spec runs once); with a runtime that never synchronizes a plugin nothing is
  heard of it (Mute), so that a spec does not come to a goroutine that takes the risk.
  What is left of a spec, wherever it is and whatever its conditions have put in front of
  the rest, is written as the whole of it is (Orderly). CallingCorrect ties the
  goroutines to the calls that hooks hold: a goroutine has one at most, and waits for it.
  NriClaims assumes of the specs that whoever starts a goroutine that may fail waits for it (Joins), has
  seen a plugin at work before (Sees), and waits for plugins only that it has started (Starts);
  TLC evaluates this for the 13 specs in the run nri.

Each of these invariants was first checked by TLC, as an invariant of the run of its
module, and then proved.

Several theorems state invariants no run checks: TypeOK of each module with proofs
(the types of Connect among those of Watching, WatchTypes),
RepliesCorrect, WriteCorrect, UnanimousCorrect, WaitsForAll, SuccessCorrect,
StoppedCorrect, InvalidCorrect, NothingBlocksEver, PartnersCorrect, SuiteTypes, TurnsCorrect,
ProcessesLeftAlone, CallingCorrect, Inductive of NriProofs, and the refinements of
RunContainer and SequentialCommand hold for all values of the constants and need no instance.

Only model-checked:

- NoFalseAlarm and NothingLeftBehind of Critest. That no call of a spec fails with a
  runtime that conforms, and what is left when a spec was ended at
  any of its steps, are facts about the 142 specs one by one: a proof would perform
  each of them symbolically, to its end. What does not depend on the table of specs is
  proved (TurnsCorrect, ProcessesLeftAlone), and for the specs about a feature that is missing,
  that no step fails up to the one that skips them;
- NoFalseAlarm, PassMeansPromiseKept, NoPodLeftBehind and NoContainerLost of Nri, for the
  same reason: each scenario is a tree of steps, and its promises are kept by the course of
  that scenario;
- all liveness properties (rm, run, exec, benchmark, watch and the specs end, the signal
  releases every caller, the runtime is let go), because fairness and ENABLED are beyond the prover;
- FailureReported, which does not hold.

## Not modelled

What calls carry and how it is printed; the command line parser; the streams of
exec, attach and port-forward, which belong to client-go; the effect of flags
that override options of the file, other than endpoints and retries; the
consoles, logs and kernel effects that critest inspects, which are options that have
their effect or not; the flags and reports of critest. Each module's header
names what it abstracts.

Left out within the parts that are modelled:

- a configuration file that parses to null or to a scalar, with which `crictl config --set`
  succeeds and changes nothing: files are missing, invalid or maps of options;
- of the benchmarks, stopping and removing the pod after a sample was sent, a results file that cannot
  be written, and the case without a directory for results;
- of the NRI stub, a runtime that hangs up while it synchronizes the plugin (it does so only
  when it serves), and a stub that ends before it has registered, so that "NRI stub exited early"
  is never seen;
- in NRI specs, List and Status calls that fail, the repeated looks of Consistently (one is
  made), and the id of a container that a spec in error has leaked. NoContainerLost is about containers that
  exist before the plugin and those that are created while it synchronizes, in the plans that are run: the spec
  itself looks for the latter only;
- a runtime without image volumes whose refusal the specs do not recognise, and one with them whose
  refusal of a bad volume they take for a missing feature.

ps, pods and images make one call and filter, sort and cut the reply in memory.
Nothing is concurrent there and no state remains, so a model would repeat the
function; the unit tests reach its cases. pull, runp, the inspect commands, info
and version are one InterruptableRPC call each and its printing. The parts
of PROJECT.json that are "not_modelled" say why.

## Plan

1. Done: RpcCall, InterruptableRPC; the commands with several calls or goroutines;
   the results manager of the benchmarks; the configuration file; first proofs.
2. Done: Connect and Watching; CriRuntime and the specs of critest; NRI.
3. Done: proofs of the invariants of RemoveContainers and RemoveImages.
4. Done: proofs of SetIsAllOrNothing, and of all invariants of
   Connect and Watching; of the refinement of RpcCall by SequentialCommand; of what
   the liveness of calls and benchmarks rests on.
5. Done: proofs about the engine of Critest for every suite, and of PassMeansConforming
   and SkippedMeansMissing from assumptions about the text of the specs that TLC
   evaluates; of FailuresAreOwn in the same way.
6. What proofs may add: the selection of RemoveImages step by step against an
   abstract choice of images.

## Running it

`tlc -config rpc.cfg InterruptableRPC.tla`, and so on: PROJECT.json gives the
module and the configuration of each run. `tlapm InterruptableRPCProofs.tla`
checks the proofs of a module. The definitions marked "Faulty variant" are no
part of any specification; each puts a plausible mistake into the action below
it, and is there to see that a property notices it.
