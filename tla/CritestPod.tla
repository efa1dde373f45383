------------------------------ MODULE CritestPod ------------------------------
(***************************************************************************)
(* The specs of src/pkg/validate/pod.go, pod_linux.go, idempotence.go,     *)
(* runtime_info.go and multi_container_linux.go.                           *)
(***************************************************************************)
EXTENDS CritestSteps

verifyPodSandboxStatus(p, state) == Expect(p, state)

(* The caller has the pod only when it was found to be ready. *)
testRunDefaultPodSandbox(p) ==
  RunDefaultPodSandbox("newPod") \o verifyPodSandboxStatus("newPod", "READY")
    \o Assign(p, "newPod")

testStopPodSandbox(p) ==
  StopPodSandbox(p) \o verifyPodSandboxStatus(p, "NOTREADY")

podSandboxFound(p) == Expect(p, "LISTED")

testRemovePodSandbox(p) == RemovePodSandbox(p) \o Expect(p, "GONE")

PodLifecycle ==
  LET Basic == Context("basic pod operations", <<>>,
                       <<IfSet("podID", CleanupPodSandbox("podID"))>>)
      Attributes == {"metadata", "labels", "annotations"}
  IN [ runningPod |->
         It(Basic, testRunDefaultPodSandbox("podID") \o podSandboxFound("podID"), {}),
       stoppingPod |->
         It(Basic, RunDefaultPodSandbox("podID") \o testStopPodSandbox("podID"), {}),
       removingPod |->
         It(Basic, RunDefaultPodSandbox("podID") \o StopPodSandbox("podID")
              \o testRemovePodSandbox("podID") \o Clear("podID"), {}),
       podAttributes |->
         It(Basic, RunPodSandbox("podID", Attributes) \o Shows("podID", Attributes)
              \o podSandboxFound("podID") \o Shows("podID", Attributes),
            Attributes) ]

(* Metrics: skipped when the runtime does not implement the call.          *)
listMetricDescriptors == Honors({})

testMetricDescriptors == Honors({"metric descriptors"})

testPodSandboxMetrics(p) == Expect(p, "LISTED") \o Honors({"pod metrics"})

createContainerForMetrics(c, p) == CreateContainer(c, p, {"resources"})

PodMetrics ==
  LET Metrics == Context("pod metrics", SkipUnless("metrics"),
                         <<IfSet("podID", CleanupPodSandbox("podID"))>>)
  IN [ metricDescriptors |->
         It(Metrics, listMetricDescriptors \o testMetricDescriptors,
            {"metric descriptors"}),
       podMetrics |->
         It(Metrics, CreatePodSandboxForContainer("podID")
              \o createContainerForMetrics("c", "podID") \o startContainer("c")
              \o Exec("c", {}) \o listMetricDescriptors
              \o testPodSandboxMetrics("podID"), {"pod metrics"}) ]

(* pod_linux.go *)
createSandboxWithSysctls(p, o) == RunPodSandbox(p, o)

checkSetSysctls(c, o) == Exec(c, o)

PodSysctls ==
  LET Sysctls == Context("sysctls", <<>>, <<CleanupPodSandbox("podID")>>)
      Body(o) == createSandboxWithSysctls("podID", o)
                   \o CreateDefaultContainer("c", "podID") \o startContainer("c")
                   \o checkSetSysctls("c", o)
  IN [ safeSysctls   |-> It(Sysctls, Body({"safe sysctl"}), {"safe sysctl"}),
       unsafeSysctls |-> It(Sysctls, Body({"unsafe sysctl"}), {"unsafe sysctl"}) ]

-------------------------------------------------------------------------------
(* idempotence.go: no BeforeEach, and each spec cleans up at its own end.  *)
Idempotence ==
  LET In(body) == It(Context("idempotence", <<>>, <<>>), body, {})
  IN [ stopMissingPod   |-> In(NewUUID("x") \o StopPodSandbox("x")),
       stopStoppedPod   |->
         In(RunDefaultPodSandbox("podID") \o testStopPodSandbox("podID")
              \o testStopPodSandbox("podID") \o RemovePodSandbox("podID")),
       removeMissingPod |-> In(NewUUID("x") \o RemovePodSandbox("x")),
       stopMissingContainer |-> In(NewUUID("x") \o Do("StopCtr", "x", "", {})),
       stopStoppedContainer |->
         In(CreatePodSandboxForContainer("podID") \o CreatePauseContainer("c", "podID")
              \o startContainer("c") \o testStopContainer("c")
              \o removeContainer("c") \o removeContainer("c")
              \o CleanupPodSandbox("podID")),
       removeMissingContainer |-> In(NewUUID("x") \o Do("RemoveCtr", "x", "", {})),
       removeMissingImage     |-> In(Do("RemoveImage", "", "none such", {})
                                       \o Do("RemoveImage", "", "none such", {})) ]

-------------------------------------------------------------------------------
(* runtime_info.go: that a string is not nil is true of every answer.      *)
TestGetVersion == Honors({})

TestGetRuntimeStatus == Honors({"conditions"})

RuntimeInfo ==
  LET In(body, claims) == It(Context("runtime info", <<>>, <<>>), body, claims)
  IN [ versionInfo       |-> In(TestGetVersion, {"version"}),
       runtimeConditions |-> In(TestGetRuntimeStatus, {"conditions"}) ]

-------------------------------------------------------------------------------
(* multi_container_linux.go: the directory and the pod reach the variables *)
(* of the context together, when the helper returns.                       *)
createMultiContainerTestPodSandbox ==
  createPodSandboxWithLogDirectory("podID", "logDir")

createMultiContainerTestHttpdContainer(c) ==
  CreateContainerWithError("Create", c, "podID", "httpd", {"main page", "log"})

createMultiContainerTestBusyboxContainer(c) == CreateContainer(c, "podID", {"log"})

MultipleContainers ==
  LET Pair == Context("multiple containers",
                createMultiContainerTestPodSandbox
                  \o createMultiContainerTestHttpdContainer("httpd")
                  \o testStartContainer("httpd")
                  \o createMultiContainerTestBusyboxContainer("busybox")
                  \o testStartContainer("busybox"),
                <<CleanupPodSandboxAndLogDir("podID", "logDir")>>)
  IN [ multiNetwork |-> It(Pair, Expect("httpd", "RUNNING")
                                   \o Shows("httpd", {"main page"}), {"main page"}),
       multiLog     |-> It(Pair, Eventually("httpd", "WROTE")
                                   \o LogShows("httpd", {"log"})
                                   \o Eventually("busybox", "WROTE")
                                   \o LogShows("busybox", {"log"}), {"log"}),
       multiExec    |-> It(Pair, execSyncContainer("httpd", {})
                                   \o execSyncContainer("busybox", {}), {}) ]
===============================================================================
