--------------------------- MODULE CritestContainer ---------------------------
(***************************************************************************)
(* The specs of src/pkg/validate/container.go and container_linux.go:      *)
(* basic operations, volumes, logs, mount propagation, OOM kills and       *)
(* read-only mounts.  A group of specs is a record with a field per It.    *)
(***************************************************************************)
EXTENDS CritestSteps

BasicContainerOps ==
  Context("basic container operations", CreatePodSandboxForContainer("podID"),
          <<CleanupPodSandbox("podID")>>)

Running(c) == CreateDefaultContainer(c, "podID") \o startContainer(c)

containerFound(c) == Expect(c, "LISTED")

containerGone(c) == removeContainer(c) \o Expect(c, "GONE")

ContainerLifecycle ==
  LET In(body, claims) == It(BasicContainerOps, body, claims)
      Attributes == {"name", "labels", "annotations"}
  IN [ creatingContainer |->
         In(CreateDefaultContainer("c", "podID") \o containerFound("c"), {}),
       containerAttributes |->
         In(CreateContainer("c", "podID", Attributes) \o Shows("c", Attributes)
              \o containerFound("c") \o Shows("c", Attributes), Attributes),
       startingContainer |->
         In(CreateDefaultContainer("c", "podID") \o testStartContainer("c"), {}),
       stoppingContainer |-> In(Running("c") \o testStopContainer("c"), {}),
       removingCreated |->
         In(CreatePauseContainer("c", "podID") \o containerGone("c"), {}),
       removingRunning |->
         In(CreatePauseContainer("c", "podID") \o startContainer("c")
              \o containerGone("c"), {}),
       removingStopped |->
         In(CreatePauseContainer("c", "podID") \o startContainer("c")
              \o testStopContainer("c") \o containerGone("c"), {}) ]

ContainerExec ==
  [ execSync |->
      It(BasicContainerOps, Running("c") \o verifyExecSyncOutput("c", {}), {}),
    execSyncTimeout |->
      It(BasicContainerOps,
         Running("c") \o Exec("c", {}) \o Honors({"exec timeout"})
           \o Exec("c", {}) \o Honors({"exec is killed"}),
         {"exec timeout", "exec is killed"}) ]

listContainerStats(c) == Expect(c, "RUNNING") \o Honors({"stats"})

ContainerStatistics ==
  LET In(body, claims) == It(BasicContainerOps, body, claims)
      Create(c) == CreateDefaultContainer(c, "podID")
  IN [ statsOfContainer |-> In(Running("c") \o listContainerStats("c"), {"stats"}),
       statsFiltered    |-> In(Running("c") \o listContainerStats("c"), {"stats"}),
       statsNilFilter   |-> In(Running("c") \o listContainerStats("c"), {"stats"}),
       statsOfThree |->
         In(Create("c1") \o Create("c2") \o Create("c3")
              \o startContainer("c1") \o startContainer("c2") \o startContainer("c3")
              \o listContainerStats("c1") \o listContainerStats("c2")
              \o listContainerStats("c3"), {"stats"}),
       statsByLabel |->
         In(CreateDefaultContainerWithLabels("c", "podID", {"labels"})
              \o startContainer("c") \o listContainerStats("c")
              \o Shows("c", {"labels"}) \o Honors({"stats filter"}),
            {"stats", "labels", "stats filter"}) ]

-------------------------------------------------------------------------------
(* Volumes: the directory of the host is removed by a deferred call, which *)
(* runs before the pod that may still mount it is cleaned up.              *)
createHostPath(dir) == MkdirTemp(dir)

createSymlink(link) == MkdirTemp(link)

createVolumeContainer(c, p) == CreateContainer(c, p, {"volume"})

ContainerVolumes ==
  LET Volume == Context("volumes", CreatePodSandboxForContainer("podID"),
                        <<CleanupPodSandbox("podID")>>)
      Check  == createVolumeContainer("c", "podID") \o testStartContainer("c")
                  \o execSyncContainer("c", {"volume"})
  IN [ volume |->
         It(Volume, createHostPath("hostPath") \o Defer(RemoveAll("hostPath"))
              \o Check, {"volume"}),
       symlinkVolume |->
         It(Volume, createHostPath("hostPath") \o Defer(RemoveAll("hostPath"))
              \o createSymlink("symlink") \o Defer(RemoveAll("symlink"))
              \o Check, {"volume"}) ]

(* Logs: one container writes and ends; the log of the other is renamed,   *)
(* reopened and has to grow again, the old file no longer.                 *)
ContainerLogs ==
  LET Log == Context("container log",
                     createPodSandboxWithLogDirectory("podID", "hostPath"),
                     <<CleanupPodSandboxAndLogDir("podID", "hostPath")>>)
  IN [ containerLog |->
         It(Log, createLogContainer("c", "podID", {}) \o startContainer("c")
              \o Eventually("c", "EXITED") \o verifyLogContents("c", {"log"}),
            {"log"}),
       reopenLog |->
         It(Log, createKeepLoggingContainer("c", "podID", {}) \o startContainer("c")
              \o Eventually("c", "WROTE") \o Configures("c", {"reopened log"})
              \o Shows("c", {"reopened log"}) \o Eventually("c", "WROTE"),
            {"reopened log"}) ]

-------------------------------------------------------------------------------
(* container_linux.go.  Below a bind mount of mntSource onto itself, the   *)
(* host mounts a directory and the container mounts /etc; whether each is  *)
(* seen from the other side is the propagation.                            *)
createPrivilegedPodSandbox(p, o) == RunPodSandbox(p, o)

clearHostPath ==
  UnmountDir("propagationMnt") \o UnmountDir("mntSource") \o RemoveAll("hostPath")

createHostPathForMountPropagation ==
  MkdirTemp("hostPath") \o MountIn("mntSource", "hostPath")

createMountPropagationContainer(propagation) ==
  CreateContainer("c", "podID", {"privileged"} \cup propagation)
    \o Shows("c", propagation)

createPropagationMountPoint == MountIn("propagationMnt", "mntSource")

(* The steps of the spec in the case of one propagation: what the option   *)
(* shows of the host's mount, and of the container's.                      *)
testMountPropagation(propagation, onHost) ==
  createHostPathForMountPropagation \o Defer(clearHostPath)
    \o createMountPropagationContainer(propagation)
    \o testStartContainer("c") \o createPropagationMountPoint
    \o execSyncContainer("c", propagation)
    \o Exec("c", {}) \o Do("ExecMount", "c", "etc", {"mntSource"})
    \o Do(onHost, "etc", "", {})

MountPropagation ==
  LET Propagation ==
        Context("mount propagation", createPrivilegedPodSandbox("podID", {"privileged"}),
                <<CleanupPodSandbox("podID")>>)
  IN [ rprivate |-> It(Propagation, testMountPropagation({"rprivate"}, "HostLacks"),
                       {"rprivate"}),
       rshared  |-> It(Propagation, testMountPropagation({"rshared"}, "HostHas"),
                       {"rshared"}),
       rslave   |-> It(Propagation, testMountPropagation({"rslave"}, "HostLacks"),
                       {"rslave"}) ]

createOOMKilledContainer(c) ==
  CreateContainer(c, "podID", {"memory limit", "ends"}) \o Expect(c, "LISTED")

ContainerOOM ==
  [ OOMKilled |->
      It(Context("OOM", createPrivilegedPodSandbox("podID", {"privileged"}),
                 <<CleanupPodSandbox("podID")>>),
         createOOMKilledContainer("c") \o startContainer("c")
           \o Eventually("c", "EXITED") \o Shows("c", {"memory limit"}),
         {"memory limit"}) ]

-------------------------------------------------------------------------------
(* Read-only mounts of a directory with a tmpfs in it.                     *)
runtimeSupportsRRO == SkipUnless("recursive read-only")

createHostPathForRROMount == MkdirTemp("hostPath") \o MountIn("tmpfs", "hostPath")

clearRROHostPath == UnmountDir("tmpfs") \o RemoveAll("hostPath")

createMountContainer(o) == CreateContainer("c", "podID", o) \o Shows("c", {})

createMountContainerError(o) == CreateFails("c", "podID", o)

testRRO(o) ==
  createHostPathForRROMount \o Defer(clearRROHostPath) \o createMountContainer(o)
    \o testStartContainer("c") \o execSyncContainer("c", o)

testRROInvalidPropagation(o) ==
  runtimeSupportsRRO \o createHostPathForRROMount \o Defer(clearRROHostPath)
    \o createMountContainerError(o)

ReadonlyMounts ==
  LET Readonly ==
        Context("read-only mounts", createPrivilegedPodSandbox("podID", {"privileged"}),
                <<CleanupPodSandbox("podID")>>)
      Propagated == {"recursive read-only with propagation"}
      Writable   == {"recursive read-only but writable"}
  IN [ readonlyMount  |-> It(Readonly, testRRO({"read-only top"}), {}),
       recursiveRO    |-> It(Readonly,
                             runtimeSupportsRRO \o testRRO({"recursive read-only"}),
                             {"recursive read-only"}),
       ROHostToContainer |-> It(Readonly, testRROInvalidPropagation(Propagated),
                                Propagated),
       ROBidirectional   |-> It(Readonly, testRROInvalidPropagation(Propagated),
                                Propagated),
       ROWritable        |-> It(Readonly, testRROInvalidPropagation(Writable),
                                Writable) ]
===============================================================================
