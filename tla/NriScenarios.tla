------------------------------ MODULE NriScenarios ------------------------------
(***************************************************************************)
(* critest's NRI specs (src/pkg/validate/nri_linux.go) as sequences of     *)
(* steps, which module Nri performs.  A step names variables: x is the one *)
(* it is about or binds, y the pod of a new container, the plugin or the   *)
(* goroutine.  want says what is wanted of a call: "ok", "error" or "any". *)
(* A variable of a pod or container that is not set yet stands for the id  *)
(* it is going to have, which the plugin is told before the caller.        *)
(***************************************************************************)
EXTENDS Integers, Sequences, TLC

S(do, x, y, want, o, then) ==
  <<[do |-> do, x |-> x, y |-> y, want |-> want, o |-> o, then |-> then]>>

Do(do, x, y)    == S(do, x, y, "ok", <<>>, <<>>)
Try(do, x, y)   == S(do, x, y, "any", <<>>, <<>>)
Error(do, x, y) == S(do, x, y, "error", <<>>, <<>>)

(* Assertions: one look, a look until it holds or the time is up, a look   *)
(* that skips the spec.  o holds the types of the events it is about.      *)
Expect(what, x, y, o)     == S("Expect", x, y, what, o, <<>>)
Eventually(what, x, y, o) == S("Until", x, y, what, o, <<>>)
SkipUnless(what, x, y)    == S("SkipUnless", x, y, what, <<>>, <<>>)

Clear(x)       == Do("Clear", x, "")
Assign(y, x)   == Do("Assign", x, y)
IfSet(x, then) == S("IfSet", x, "", "ok", <<>>, then)
Defer(then)    == S("Defer", "", "", "ok", <<>>, then)

(* A goroutine of the spec; with GinkgoRecover it may fail the spec.       *)
Go(g, then) == S("Go", "", g, "ok", <<>>, then)
Join(g)     == Do("Join", "", g)

StartNRITestStub(s, hook) == S("Start", s, "", hook, <<>>, <<>>) \o Do("Started", s, "")
Hook(s, hook) == S("Hook", s, "", hook, <<>>, <<>>)
Reached(s)    == Do("Reached", s, "")
Release(s)    == Do("Release", s, "")
ResetEvents(s) == Do("Reset", s, "")
Cleanup(s)    == Do("Cancel", s, "") \o Do("Stopped", s, "") \o ResetEvents(s)

-------------------------------------------------------------------------------
(* The clean-up functions.  Errors of their calls are only logged.         *)
CleanupPod(p) == IfSet(p, Try("StopPod", p, "") \o Try("RemovePod", p, ""))
CleanupCtr(c) == IfSet(c, Try("StopCtr", c, "") \o Try("RemoveCtr", c, ""))
CleanupStub   == IfSet("testStub", Cleanup("testStub"))

Context(name, before, after) == [name |-> name, before |-> before, after |-> after]

It(context, body, claims) ==
  [context |-> context.name, body |-> context.before \o body,
   after |-> context.after, claims |-> claims \cup {"never syncs"}]

CreateStart(c, p) == Do("Create", c, p) \o Do("StartCtr", c, "")

-------------------------------------------------------------------------------
(* Context "pod sandbox lifecycle".                                        *)
PodSandboxLifecycle ==
  Context("pod sandbox lifecycle", StartNRITestStub("testStub", "none"),
          CleanupPod("podID") \o CleanupStub)

PodLifecycle ==
  It(PodSandboxLifecycle,
     Do("RunPod", "podID", "") \o Do("StopPod", "podID", "")
       \o Do("RemovePod", "podID", "")
       \o Eventually("count", "", "testStub", <<"RunPod", "StopPod", "RemovePod">>)
       \o Expect("ordered", "podID", "testStub", <<"RunPod", "StopPod", "RemovePod">>)
       \o Clear("podID"),
     {"out of order", "no remove event"})

(* Context "container lifecycle".                                          *)
ContainerContext(name) ==
  Context(name, StartNRITestStub("testStub", "none") \o Do("Pull", "", ""),
          CleanupCtr("containerID") \o CleanupPod("podID") \o CleanupStub)

CreateToRemove == <<"Create", "Start", "Stop", "Remove">>

ContainerLifecycle ==
  It(ContainerContext("container lifecycle"),
     Do("RunPod", "podID", "") \o ResetEvents("testStub")
       \o CreateStart("containerID", "podID")
       \o Do("StopCtr", "containerID", "") \o Do("RemoveCtr", "containerID", "")
       \o Eventually("count", "", "testStub", CreateToRemove)
       \o Expect("ordered", "containerID", "testStub", CreateToRemove)
       \o Clear("containerID") \o SkipUnless("named", "", ""),
     {"out of order", "no remove event", "no name"})

(* Context "container lifecycle (failed container)": the events up to Stop *)
(* are there before the container is removed.                              *)
FailedContainerUpToStop ==
  Do("RunPod", "podID", "") \o ResetEvents("testStub")
    \o S("Create", "containerID", "podID", "ok", <<"ends">>, <<>>)
    \o Do("StartCtr", "containerID", "") \o Eventually("exited", "containerID", "", <<>>)

(* Faulty variant: the container is removed first. *)
FailedContainerRemovedFirst ==
  It(ContainerContext("failed container"),
     FailedContainerUpToStop
       \o Do("RemoveCtr", "containerID", "")
       \o Eventually("ordered", "containerID", "testStub", CreateToRemove)
       \o Clear("containerID") \o SkipUnless("named", "", ""),
     {"out of order", "no remove event", "no name", "no exit event"})

FailedContainer ==
  It(ContainerContext("failed container"),
     FailedContainerUpToStop
       \o Eventually("seen", "containerID", "testStub", <<"Create", "Start", "Stop">>)
       \o Expect("ordered", "containerID", "testStub", <<"Create", "Start", "Stop">>)
       \o Do("RemoveCtr", "containerID", "")
       \o Eventually("seen", "containerID", "testStub", <<"Remove">>)
       \o Expect("ordered", "containerID", "testStub", <<"Stop", "Remove">>)
       \o Clear("containerID") \o SkipUnless("named", "", ""),
     {"out of order", "no remove event", "no name", "no exit event"})

-------------------------------------------------------------------------------
(* Context "RunPodSandbox contract": the pod to clean up is the one of the *)
(* variable, or else the last one the plugin was told of.                  *)
RunPodSandboxContract ==
  Context("RunPodSandbox contract", <<>>,
          Do("Fallback", "podID", "cleanupID") \o CleanupStub \o CleanupPod("cleanupID"))

RunPodBlocked == Go("run", Try("RunPod", "runPodID", "")) \o Reached("testStub")

RunPodReleased ==
  Release("testStub") \o Join("run") \o Expect("set", "runPodID", "", <<>>)
    \o Assign("podID", "runPodID")

BlockRun ==
  It(RunPodSandboxContract,
     StartNRITestStub("testStub", "none") \o Hook("testStub", "blocks RunPod")
       \o RunPodBlocked \o Expect("hidden", "runPodID", "", <<>>)
       \o RunPodReleased \o Expect("ready", "podID", "", <<>>),
     {"listed early"})

BlockContainer ==
  It(RunPodSandboxContract,
     StartNRITestStub("testStub", "none") \o Hook("testStub", "blocks RunPod")
       \o Do("Pull", "", "") \o RunPodBlocked
       \o Error("Create", "blockedContainerID", "runPodID") \o RunPodReleased
       \o Do("Create", "containerID", "podID")
       \o Try("StopCtr", "containerID", "") \o Try("RemoveCtr", "containerID", ""),
     {"creates early"})

RunError ==
  It(RunPodSandboxContract,
     StartNRITestStub("testStub", "none") \o Hook("testStub", "fails RunPod")
       \o Error("RunPod", "failedPodID", "")
       \o Expect("told", "", "testStub", <<>>)
       \o Expect("gone", "failedPodID", "", <<>>)
       \o Do("RunPod", "podID", "") \o Expect("ready", "podID", "", <<>>),
     {"keeps failed", "ignores errors"})

-------------------------------------------------------------------------------
(* Context "StopPodSandbox contract".                                      *)
(* Faulty variant: AfterEach does not remove the pod. *)
StopPodSandboxContractKeeps ==
  Context("StopPodSandbox contract", <<>>,
          CleanupStub \o CleanupCtr("containerID") \o IfSet("podID", Try("StopPod", "podID", "")))

StopPodSandboxContract ==
  Context("StopPodSandbox contract", <<>>,
          CleanupStub \o CleanupCtr("containerID") \o CleanupPod("podID"))

StopState ==
  It(StopPodSandboxContract,
     StartNRITestStub("testStub", "none") \o Hook("testStub", "blocks StopPod")
       \o Do("RunPod", "podID", "") \o Do("Pull", "", "")
       \o CreateStart("containerID", "podID")
       \o Go("stop", Try("StopPod", "podID", "stopped")) \o Reached("testStub")
       \o Expect("all exited", "podID", "", <<>>)
       \o Release("testStub") \o Join("stop") \o Expect("set", "stopped", "", <<>>)
       \o Clear("containerID") \o Do("RemovePod", "podID", "") \o Clear("podID"),
     {"stops late"})

StopIdempotent ==
  It(StopPodSandboxContract,
     StartNRITestStub("testStub", "none") \o Do("RunPod", "podID", "")
       \o Do("StopPod", "podID", "")
       \o Eventually("seen", "podID", "testStub", <<"StopPod">>)
       \o Expect("once", "podID", "testStub", <<"StopPod">>)
       \o Do("StopPod", "podID", "")
       \o Expect("once", "podID", "testStub", <<"StopPod">>)
       \o Do("Pull", "", "") \o Try("Create", "ctrID", "podID")
       \o IfSet("ctrID", Assign("containerID", "ctrID") \o Do("Skip", "", ""))
       \o Expect("never", "podID", "testStub", <<"Create">>),
     {"stops twice", "reuses"})

-------------------------------------------------------------------------------
(* Context "CreateContainer contract".                                     *)
CreateContainerContract ==
  Context("CreateContainer contract",
          StartNRITestStub("testStub", "none") \o Do("Pull", "", "")
            \o Do("RunPod", "podID", ""),
          CleanupStub \o CleanupCtr("containerID") \o CleanupPod("podID"))

BlockCreate ==
  It(CreateContainerContract,
     Hook("testStub", "blocks Create")
       \o Go("create", Try("Create", "createdID", "podID")) \o Reached("testStub")
       \o Expect("hidden", "createdID", "", <<>>)
       \o Release("testStub") \o Join("create") \o Expect("set", "createdID", "", <<>>)
       \o Assign("containerID", "createdID") \o Expect("created", "containerID", "", <<>>),
     {"listed early"})

CreateError ==
  It(CreateContainerContract,
     Hook("testStub", "fails Create") \o ResetEvents("testStub")
       \o Error("Create", "failedContainerID", "podID")
       \o Eventually("seen", "failedContainerID", "testStub", <<"Create">>)
       \o Expect("gone", "failedContainerID", "", <<>>)
       \o Expect("never", "podID", "testStub", <<"Start">>)
       \o CreateStart("containerID", "podID")
       \o Do("StopCtr", "containerID", "") \o Do("RemoveCtr", "containerID", "")
       \o Clear("containerID"),
     {"keeps failed", "ignores errors"})

-------------------------------------------------------------------------------
(* Context "plugin synchronization": AfterEach removes the containers of a *)
(* copy of createdContainers.  recordContainer adds to it.                 *)
PluginSynchronization ==
  Context("plugin synchronization",
          StartNRITestStub("testStub", "none") \o Do("Forget", "", "")
            \o Do("Pull", "", ""),
          Do("Snapshot", "", "") \o Do("RemoveEach", "each", "")
            \o CleanupPod("podID") \o CleanupStub)

createAndStart(c) ==
  Do("Create", c, "podID") \o Do("recordContainer", c, "") \o Do("StartCtr", c, "")

(* startBlockingSyncPlugin; waitReady, which is Started, comes later.      *)
startBlockingSyncPlugin ==
  S("Start", "secondStub", "", "blocks Synchronize", <<>>, <<>>)
    \o Reached("secondStub")
waitReady == Do("Started", "secondStub", "") \o Defer(Cleanup("secondStub"))

SyncExisting ==
  It(PluginSynchronization,
     Do("RunPod", "podID", "") \o createAndStart("before")
       \o StartNRITestStub("secondStub", "none") \o Defer(Cleanup("secondStub"))
       \o Expect("synced", "podID", "secondStub", <<>>)
       \o Expect("synced", "before", "secondStub", <<>>)
       \o createAndStart("after")
       \o Eventually("seen", "after", "secondStub", <<"Create">>),
     {"sync empty"})

(* Faulty variant: the container is created by the spec itself. *)
SyncDuringInline ==
  It(PluginSynchronization,
     Do("RunPod", "podID", "") \o createAndStart("before")
       \o startBlockingSyncPlugin \o createAndStart("during")
       \o Release("secondStub") \o waitReady
       \o SkipUnless("known", "during", "secondStub"),
     {})

SyncDuring ==
  It(PluginSynchronization,
     Do("RunPod", "podID", "") \o createAndStart("before")
       \o startBlockingSyncPlugin \o Go("during", createAndStart("during"))
       \o Release("secondStub") \o waitReady
       \o Join("during") \o Expect("set", "during", "", <<>>)
       \o SkipUnless("known", "during", "secondStub"),
     {})

(* Faulty variant: the containers of the goroutines are not looked for. *)
SyncRaceForgets ==
  It(PluginSynchronization,
     Do("RunPod", "podID", "") \o createAndStart("before")
       \o startBlockingSyncPlugin
       \o Go("during2", createAndStart("during2")) \o Go("during3", createAndStart("during3"))
       \o Release("secondStub") \o waitReady \o Join("during2") \o Join("during3")
       \o createAndStart("after")
       \o Expect("set", "during2", "", <<>>) \o Expect("set", "during3", "", <<>>)
       \o SkipUnless("known", "before", "secondStub")
       \o SkipUnless("known", "after", "secondStub"),
     {"sync empty"})

(* One container before and one after stand for beforeCount and afterCount *)
(* of them, two goroutines for duringCount.                                *)
SyncRace ==
  It(PluginSynchronization,
     Do("RunPod", "podID", "") \o createAndStart("before")
       \o startBlockingSyncPlugin
       \o Go("during2", createAndStart("during2")) \o Go("during3", createAndStart("during3"))
       \o Release("secondStub") \o waitReady \o Join("during2") \o Join("during3")
       \o createAndStart("after")
       \o Expect("set", "during2", "", <<>>) \o Expect("set", "during3", "", <<>>)
       \o SkipUnless("known", "before", "secondStub")
       \o SkipUnless("known", "during2", "secondStub")
       \o SkipUnless("known", "during3", "secondStub")
       \o SkipUnless("known", "after", "secondStub"),
     {"sync empty"})

NriSuite ==
  ( "podLifecycle" :> PodLifecycle @@ "containerLifecycle" :> ContainerLifecycle
  @@ "failedContainer" :> FailedContainer
  @@ "blockRun" :> BlockRun @@ "blockContainer" :> BlockContainer
  @@ "runError" :> RunError
  @@ "stopState" :> StopState @@ "stopIdempotent" :> StopIdempotent
  @@ "blockCreate" :> BlockCreate @@ "createError" :> CreateError
  @@ "syncExisting" :> SyncExisting @@ "syncDuring" :> SyncDuring
  @@ "syncRace" :> SyncRace )
===============================================================================
