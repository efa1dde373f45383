----------------------------- MODULE CritestSteps -----------------------------
(***************************************************************************)
(* The vocabulary of critest's specs: a Ginkgo It is a sequence of steps,  *)
(* each one call of the runtime, one assertion or one thing done to the    *)
(* host.  A step names variables of the spec, bound to the ids the runtime *)
(* returns as the spec goes on; module Critest performs the steps.  Below  *)
(* the vocabulary are the helpers of src/pkg/framework/util.go and those   *)
(* of src/pkg/validate that several contexts share.                        *)
(***************************************************************************)
EXTENDS CriRuntime

Do(what, x, y, o) ==
  <<[do |-> what, x |-> x, y |-> y, o |-> o, image |-> "", then |-> <<>>]>>

(* Calls that change what the runtime keeps. *)
RunPodSandbox(p, o)      == Do("RunPod", p, "", o)
RunPodSandboxError(p, o) == Do("RunPodFails", p, "", o)
StopPodSandbox(p)        == Do("StopPod", p, "", {})
RemovePodSandbox(p)      == Do("RemovePod", p, "", {})
startContainer(c)        == Do("Start", c, "", {})
removeContainer(c)       == Do("RemoveCtr", c, "", {})
(* stopContainer: a goroutine calls StopContainer, the spec waits for it.  *)
stopContainer(c)         == Do("StopCtr", c, "", {})
Configures(c, o)         == Do("Configure", c, "", o)

(* Creating a container of an image that is there already: the result has  *)
(* to be a container ("Create"), an error ("CreateFails"), a container or  *)
(* an answer that the feature is missing, which skips the spec             *)
(* ("CreateOrSkip"), or any error but this answer ("CreateRejected").      *)
CreateWith(what, c, p, image, o) ==
  <<[do |-> what, x |-> c, y |-> p, o |-> o, image |-> image, then |-> <<>>]>>

(* Assertions.  Expect looks once, Eventually until it holds.              *)
Expect(x, state)     == Do("Expect", x, state, {})
Eventually(x, state) == Do("Eventually", x, state, {})
(* The output of a command in the running container shows these options.   *)
Exec(c, o)           == Do("Exec", c, "", o)
ExecOrSkip(c, o)     == Do("ExecOrSkip", c, "", o)
(* The command is refused because of them; any error will do.              *)
ExecRefused(c, o)    == Do("ExecRefused", c, "", o)
(* It should be refused because of them; when it is not, the spec skips.   *)
RefusedOrSkip(c, o)  == Do("RefusedOrSkip", c, "", o)
(* The status or a list shows them, the container running or not.          *)
Shows(x, o)          == Do("Shows", x, "", o)
(* The output the container wrote itself shows them; there is none of it   *)
(* before the container got to write.                                      *)
LogShows(c, o)       == Do("LogShows", c, "", o)
(* Nothing is seen of what should not be there, and the container may not  *)
(* have come to show anything yet: true too early as well.                 *)
LacksYet(c, o)       == Do("LacksYet", c, "", o)
(* A behaviour asked of every runtime, whatever was configured.            *)
Honors(o)            == Do("Honors", "", "", o)
HasImage(i)          == Do("HasImage", "", i, {})
NoImage(i)           == Do("NoImage", "", i, {})

(* Bookkeeping: a variable of the context gets the value of a local one or *)
(* none, a function is deferred, the rest of the spec is skipped.          *)
Assign(y, x)    == Do("Assign", x, y, {})
Clear(y)        == Do("Clear", "", y, {})
NewUUID(x)      == Do("NewUUID", x, "", {})
SkipUnless(f)   == Do("Skip", "", f, {})
With(what, x, steps) ==
  <<[do |-> what, x |-> x, y |-> "", o |-> {}, image |-> "", then |-> steps]>>
Defer(steps)    == With("Defer", "", steps)
IfSet(x, steps) == With("IfSet", x, steps)

(* The host: make a directory, mount inside one, unmount, remove.          *)
MkdirTemp(r)     == Do("Make", r, "", {})
MountIn(r, dir)  == Do("Make", r, dir, {})
UnmountDir(r)    == Do("Unmount", r, "", {})
RemoveAll(r)     == Do("RemoveAll", r, "", {})
(* os.RemoveAll with nobody looking at its error.                          *)
Discard(r)       == Do("Discard", r, "", {})

-------------------------------------------------------------------------------
(* src/pkg/framework/util.go *)
Busybox == "busybox"

(* Faulty variant: the pod is stopped and stays. *)
CleanupPodSandboxStopped(p) == StopPodSandbox(p)

CleanupPodSandbox(p) == StopPodSandbox(p) \o RemovePodSandbox(p)

CleanupPodSandboxAndLogDir(p, dir) == CleanupPodSandbox(p) \o RemoveAll(dir)

RunDefaultPodSandbox(p) == RunPodSandbox(p, {})

CreatePodSandboxForContainer(p) == RunPodSandbox(p, {})

PullPublicImage(i) == Do("Pull", "", i, {})

(* The image is pulled when its status says that it is not there (the step *)
(* "Ensure"); between the status and the creation it may go.               *)
CreateContainerWithError(what, c, p, image, o) ==
  Do("Ensure", "", image, {}) \o CreateWith(what, c, p, image, o)

CreateContainer(c, p, o) == CreateContainerWithError("Create", c, p, Busybox, o)

CreateFails(c, p, o) == CreateContainerWithError("CreateFails", c, p, Busybox, o)

CreateDefaultContainer(c, p) == CreateContainer(c, p, {})

CreateDefaultContainerWithLabels(c, p, labels) == CreateContainer(c, p, labels)

CreatePauseContainer(c, p) == CreateContainer(c, p, {})

-------------------------------------------------------------------------------
(* Helpers of src/pkg/validate/container.go *)
testStartContainer(c) == startContainer(c) \o Eventually(c, "RUNNING")

testStopContainer(c) == stopContainer(c) \o Eventually(c, "EXITED")

execSyncContainer(c, o) == Exec(c, o)

verifyExecSyncOutput(c, o) == execSyncContainer(c, o)

(* A container that writes its log and ends, one that goes on writing, and *)
(* one that waits for its input.                                           *)
createLogContainer(c, p, o)         == CreateContainer(c, p, {"log", "ends"} \cup o)
createKeepLoggingContainer(c, p, o) == CreateContainer(c, p, {"log"} \cup o)
createShellContainer(c, p)          == CreateContainer(c, p, {"stdin"})

verifyLogContents(c, o) == LogShows(c, o)

(* src/pkg/validate/pod.go: the directory first, then the pod; the caller  *)
(* has both when it returns, or neither.                                   *)
createPodSandboxWithLogDirectory(p, dir) ==
  MkdirTemp("newDir") \o RunPodSandbox("newPod", {"log"})
    \o Assign(p, "newPod") \o Assign(dir, "newDir")

-------------------------------------------------------------------------------
(* A Ginkgo context: what runs before and after each of its specs, whether *)
(* its specs are Serial.  The units of after run one by one, each to its   *)
(* first failure.                                                          *)
Context(name, before, after) ==
  [name |-> name, before |-> before, after |-> after, serial |-> FALSE]

Serial(context) == [context EXCEPT !.serial = TRUE]

(* A spec of a context.  claims: the options a runtime must not ignore for *)
(* the spec to pass, which is what its title says.                         *)
It(context, body, claims) ==
  [in |-> context, body |-> context.before \o body, claims |-> claims]
===============================================================================
