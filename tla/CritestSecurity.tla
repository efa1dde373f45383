---------------------------- MODULE CritestSecurity ----------------------------
(***************************************************************************)
(* The specs of src/pkg/validate/security_context_linux.go,                *)
(* apparmor_linux.go and selinux_linux.go.                                 *)
(*                                                                         *)
(* The contexts of the first file share podID, podLogDir and the list of   *)
(* directories to clean up, in variables of the enclosing container that   *)
(* no spec resets: what a spec leaves in them its successors find.         *)
(***************************************************************************)
EXTENDS CritestSteps, TLC

SecurityAfterEach ==
  <<IfSet("podID", CleanupPodSandbox("podID"))
      \o IfSet("podLogDir", Discard("podLogDir")) \o Discard("profileDir")>>

Security(before) == Context("security context", before, SecurityAfterEach)

RunningCtr(c) == startContainer(c) \o Eventually(c, "RUNNING")

ExitedCtr(c) == startContainer(c) \o Eventually(c, "EXITED")

createNamespacePodSandbox(p, o) == RunPodSandbox(p, o)

createNamespaceContainer(c, p, image, o) ==
  CreateContainerWithError("Create", c, p, image, o)

(* The pod and its directory are the caller's only when all of it passed.  *)
createAndCheckHostNetwork(o, check) ==
  MkdirTemp("newDir") \o createNamespacePodSandbox("newPod", {"log"} \cup o)
    \o createNamespaceContainer("c", "newPod", Busybox, {"log", "ends"})
    \o startContainer("c") \o check
    \o Assign("podID", "newPod") \o Assign("podLogDir", "newDir")

(* A segment of shared memory is made on the host and stays there.         *)
testHostIPC(o) ==
  MkdirTemp("shared memory") \o createNamespacePodSandbox("podID", o)
    \o createNamespaceContainer("c", "podID", Busybox, {}) \o RunningCtr("c")
    \o execSyncContainer("c", o)

NginxInPod(o) ==
  createNamespacePodSandbox("podID", o)
    \o createNamespaceContainer("c", "podID", "nginx", {}) \o RunningCtr("c")

(* The process of the first container is seen in the second one. *)
testHostPID ==
  NginxInPod({"host PID"}) \o execSyncContainer("c", {})
    \o createNamespaceContainer("c2", "podID", Busybox, {}) \o RunningCtr("c2")
    \o execSyncContainer("c2", {"host PID"})

NamespaceOption ==
  LET In(body, claims) == It(Security(<<>>), body, claims)
  IN [ hostPID  |-> In(testHostPID, {"host PID"}),
       hostIPC  |-> In(testHostIPC({"host IPC"}), {"host IPC"}),
       podIPC   |-> In(testHostIPC({"pod IPC"}), {"pod IPC"}),
       podPID   |-> In(NginxInPod({"pod PID"}) \o LacksYet("c", {"pod PID"}),
                       {"pod PID"}),
       containerPID |-> In(NginxInPod({"container PID"}) \o Exec("c", {"container PID"}),
                           {"container PID"}),
       hostNetwork  |->
         In(createAndCheckHostNetwork({"host network"},
              Eventually("c", "WROTE") \o LogShows("c", {"host network"})),
            {"host network"}),
       podNetwork   |->
         In(createAndCheckHostNetwork({"pod network"}, LacksYet("c", {"pod network"})),
            {"pod network"}) ]

-------------------------------------------------------------------------------
createRunAsUserContainer(c, p)     == CreateContainer(c, p, {"user"})
createRunAsUserNameContainer(c, p) == CreateContainer(c, p, {"user name"})
createRunAsGroupContainer(c, p)    == CreateContainer(c, p, {"log", "ends", "group"})
createInvalidRunAsGroupContainer(c, p) == CreateFails(c, p, {"group without user"})
createReadOnlyRootfsContainer(c, p, o) == CreateContainer(c, p, {"log", "ends"} \cup o)
createPrivilegedContainer(c, p, o) == CreateContainer(c, p, o)
createCapabilityContainer(c, p, o) == CreateContainer(c, p, o)
checkNetworkManagement(c, o)       == Exec(c, o)
checkNoNetworkManagement(c, o)     == ExecRefused(c, o)
checkRootfs(c, o)                  == verifyLogContents(c, o)
matchContainerOutput(c, o)         == verifyLogContents(c, o)

(* CapBnd is not zero in a container without any capability added either.  *)
checkAllCapabilities(c) == Exec(c, {})

InBucket(body, claims) == It(Security(<<>>), body, claims)

BucketPod    == CreatePodSandboxForContainer("podID")
BucketLogPod == createPodSandboxWithLogDirectory("podID", "podLogDir")

SecurityUsers ==
  [ supplementalGroups |->
      InBucket(BucketPod \o CreateContainer("c", "podID", {"groups"}) \o RunningCtr("c")
                 \o execSyncContainer("c", {"groups"}), {"groups"}),
    runAsUser     |-> InBucket(BucketPod \o createRunAsUserContainer("c", "podID")
                                 \o RunningCtr("c")
                                 \o verifyExecSyncOutput("c", {"user"}), {"user"}),
    runAsUserName |-> InBucket(BucketPod \o createRunAsUserNameContainer("c", "podID")
                                 \o RunningCtr("c")
                                 \o verifyExecSyncOutput("c", {"user name"}),
                               {"user name"}),
    runAsGroup    |-> InBucket(BucketLogPod \o createRunAsGroupContainer("c", "podID")
                                 \o ExitedCtr("c")
                                 \o matchContainerOutput("c", {"group"}), {"group"}),
    groupWithoutUser |->
      InBucket(BucketPod \o createInvalidRunAsGroupContainer("c", "podID"),
               {"group without user"}) ]

SecurityPrivileges ==
  LET Rootfs(o) ==
        InBucket(BucketLogPod \o createReadOnlyRootfsContainer("c", "podID", o)
                   \o ExitedCtr("c") \o checkRootfs("c", o), o)
      Privileged(o, check(_, _)) ==
        InBucket(RunPodSandbox("podID", o)
                   \o createPrivilegedContainer("c", "podID", o) \o RunningCtr("c")
                   \o check("c", o), o)
  IN [ writableRootfs |-> Rootfs({"writable rootfs"}),
       readOnlyRootfs |-> Rootfs({"read-only rootfs"}),
       privileged     |-> Privileged({"privileged"}, checkNetworkManagement),
       unprivileged   |-> Privileged({"unprivileged"}, checkNoNetworkManagement) ]

SecurityCapabilities ==
  LET Capable(o) == BucketPod \o createCapabilityContainer("c", "podID", o)
                      \o RunningCtr("c")
      Refused(o) == InBucket(Capable(o) \o Exec("c", o), o)
  IN [ addCapability |->
         InBucket(Capable({"NET_ADMIN"}) \o checkNetworkManagement("c", {"NET_ADMIN"})
                    \o CreateContainer("c2", "podID", {"no NET_ADMIN"})
                    \o RunningCtr("c2")
                    \o checkNoNetworkManagement("c2", {"no NET_ADMIN"}),
                  {"NET_ADMIN", "no NET_ADMIN"}),
       addAllCapabilities  |->
         InBucket(Capable({"add ALL"}) \o checkAllCapabilities("c"), {"add ALL"}),
       dropCapability      |-> Refused({"drop NET_RAW"}),
       dropAllCapabilities |-> Refused({"drop ALL"}),
       maskedPaths         |-> Refused({"masked paths"}),
       readonlyPaths       |-> Refused({"read-only paths"}) ]

(* The groups of the container's user in the image are merged in or not.   *)
SupplementalGroupsPolicy ==
  LET Groups(o) ==
        It(Security(SkipUnless("supplemental groups policy")),
           createPodSandboxWithLogDirectory("podID", "podLogDir")
             \o CreateContainerWithError("Create", "c", "podID", "predefined group",
                                         {"log"} \cup o)
             \o startContainer("c") \o Eventually("c", "RUNNING") \o Shows("c", o)
             \o Eventually("c", "WROTE") \o verifyLogContents("c", o)
             \o execSyncContainer("c", o),
           o)
  IN [ mergeGroups  |-> Groups({"merge groups"}),
       strictGroups |-> Groups({"strict groups"}) ]

-------------------------------------------------------------------------------
createSeccompProfileDir == MkdirTemp("profileDir")

(* The files are in the directory, and go with it. *)
createSeccompProfile == Honors({})

seccompProfiles ==
  createSeccompProfileDir \o createSeccompProfile \o createSeccompProfile

(* Pod and container with the profile, both the caller's at the end.       *)
seccompTestContainer(o) ==
  RunPodSandbox("newPod", o) \o CreateContainer("c", "newPod", o)
    \o RunningCtr("c") \o Assign("podID", "newPod")

verifySeccomp(c, o) == Exec(c, o)

createContainerWithExpectation(c, p, o) ==
  CreateContainerWithError("Create", c, p, Busybox, o)

createSeccompContainer(c, p, o) == createContainerWithExpectation(c, p, o)

checkSetHostname(c, o) == Exec(c, o)

checkHostnameBlocked(c, o) == ExecRefused(c, o)

SeccompProfilePath ==
  LET In(body, claims) == It(Security(seccompProfiles), body, claims)
      Profile(o) == In(seccompTestContainer(o) \o verifySeccomp("c", o), o)
      Hostname(pod, o, check(_, _), shown) ==
        In(RunPodSandbox("podID", pod) \o createSeccompContainer("c", "podID", o)
             \o RunningCtr("c") \o check("c", shown), shown)
  IN [ seccompUnconfined |-> Profile({"seccomp unconfined"}),
       seccompLocalhost  |-> Profile({"seccomp blocks chmod"}),
       seccompDefault    |-> Profile({"seccomp default"}),
       seccompNil        |-> Profile({"seccomp nil"}),
       seccompSysAdmin   |-> Hostname({}, {"SYS_ADMIN", "seccomp unconfined"},
                                  checkSetHostname, {"SYS_ADMIN", "seccomp unconfined"}),
       seccompBlocksHostname |-> Hostname({}, {"SYS_ADMIN", "seccomp blocks hostname"},
                                  checkHostnameBlocked, {"seccomp blocks hostname"}),
       seccompPrivileged |-> Hostname({"privileged"}, {"privileged", "seccomp blocks hostname"},
                                  checkSetHostname, {"privileged"}) ]

NoNewPrivs ==
  LET NNP(o) ==
        It(Security(createPodSandboxWithLogDirectory("podID", "podLogDir")),
           CreateContainerWithError("Create", "c", "podID", "nonewprivs",
                                    {"log", "ends"} \cup o)
             \o ExitedCtr("c") \o matchContainerOutput("c", o), o)
  IN [ noNewPrivs  |-> NNP({"no new privileges"}),
       newPrivs    |-> NNP({"new privileges"}) ]

-------------------------------------------------------------------------------
(* The status of the runtime is asked for once for all specs of a process; *)
(* when that fails statusResp stays nil, which reads as "not supported".   *)
searchRuntimeHandler ==
  Do("Once", "statusResp", "", {}) \o SkipUnless("user namespaces")
    \o Do("SkipUnset", "statusResp", "", {})

supportsIDMap == SkipUnless("idmap mounts")

runUserNamespaceContainer(c, p) ==
  createContainerWithExpectation(c, p, {"log", "ends"}) \o ExitedCtr(c)

runUserNamespacePodWithError(o) == RunPodSandboxError("podID", o)

UserNamespaces ==
  LET Mode(before, o) ==
        It(Security(searchRuntimeHandler \o before),
           MkdirTemp("hostLogPath") \o Defer(Discard("hostLogPath"))
             \o createNamespacePodSandbox("podID", {"log"} \cup o)
             \o runUserNamespaceContainer("c", "podID")
             \o matchContainerOutput("c", o), o)
      Refused(o) ==
        It(Security(searchRuntimeHandler),
           runUserNamespacePodWithError(o) \o Clear("podID"), o)
  IN [ usernsPod  |-> Mode(supportsIDMap, {"userns pod"}),
       usernsNode |-> Mode(<<>>, {"userns node"}),
       usernsTwoMappings |-> Refused({"unusable mapping"}),
       usernsNoRoot      |-> Refused({"unusable mapping"}),
       usernsContainer   |-> Refused({"unusable mapping"}),
       usernsTarget      |-> Refused({"unusable mapping"}) ]

-------------------------------------------------------------------------------
(* apparmor_linux.go *)
loadTestProfiles == SkipUnless("AppArmor") \o Honors({})

createContainerWithAppArmor(c, o) ==
  CreateContainer(c, "sandboxID", {"ends"} \cup o) \o ExitedCtr(c)

checkContainerApparmor(c, o) == Shows(c, o)

(* The inner AfterEach is reached when the outer BeforeEach has passed.     *)
apparmorTests(name, denying) ==
  LET In(body, claims) ==
        It(Context(name,
             loadTestProfiles \o Defer(CleanupPodSandbox("sandboxID"))
               \o CreatePodSandboxForContainer("sandboxID"), <<>>), body, claims)
  IN [ Unloaded   |-> In(CreateFails("c", "sandboxID", {"missing AppArmor profile"}),
                         {"missing AppArmor profile"}),
       DenyWrite  |-> In(createContainerWithAppArmor("c", {denying})
                           \o checkContainerApparmor("c", {denying}), {denying}),
       Permissive |-> In(createContainerWithAppArmor("c", {"audit write"})
                           \o checkContainerApparmor("c", {}), {}) ]

(* The specs of a group under longer names: three contexts have them.      *)
Named(prefix, group) ==
  [name \in {prefix \o n : n \in DOMAIN group} |->
     group[CHOOSE n \in DOMAIN group : name = prefix \o n]]

AppArmor ==
  Named("apparmorOld", apparmorTests("AppArmor old field", "old deny write"))
    @@ Named("apparmorNew", apparmorTests("AppArmor field", "deny write"))
    @@ Named("apparmorBoth", apparmorTests("AppArmor fields", "new deny write"))

-------------------------------------------------------------------------------
(* selinux_linux.go: there are no specs on a host without it.  Those that  *)
(* set options only run a command.                                         *)
createContainerWithSelinux(c, p, o) == CreateContainer(c, p, o) \o RunningCtr(c)

checkContainerSelinux(c)     == Shows(c, {}) \o Exec(c, {})
checkMountLabelRoleType(c)   == Exec(c, {}) \o Honors({"mount label type"})
checkMountLabelMCS(c)        == Exec(c, {}) \o Honors({"mount label category"})
checkProcessLabelRoleType(c) == Exec(c, {}) \o Honors({"process label type"})
checkProcessLabelMCS(c)      == Exec(c, {}) \o Honors({"process label category"})

sandboxTests(name, o) ==
  LET In(body, claims) ==
        It(Context(name, RunPodSandbox("sandboxID", o),
                   <<CleanupPodSandbox("sandboxID")>>), body, claims)
      Create(c) == createContainerWithSelinux(c, "sandboxID", o)
      Label(check, claims) == In(Create("c") \o check, claims)
  IN [ Level   |-> In(createContainerWithSelinux("c", "sandboxID", {"level"} \cup o)
                        \o checkContainerSelinux("c"), {}),
       Options |-> In(createContainerWithSelinux("c", "sandboxID", {"label"} \cup o)
                        \o checkContainerSelinux("c"), {}),
       Wrong   |-> In(CreateFails("c", "sandboxID", {"wrong SELinux level"} \cup o),
                      {"wrong SELinux level"}),
       MountType   |-> Label(checkMountLabelRoleType("c"), {"mount label type"}),
       MountMCS    |-> Label(checkMountLabelMCS("c"), {"mount label category"}),
       ProcessType |-> Label(checkProcessLabelRoleType("c"), {"process label type"}),
       ProcessMCS  |-> Label(checkProcessLabelMCS("c"), {"process label category"}),
       SameLabel   |-> In(Create("c") \o Create("c2") \o checkProcessLabelMCS("c")
                            \o checkProcessLabelMCS("c2") \o Honors({"same label"}),
                          {"process label category", "same label"}) ]

(* Two pods, cleaned up in one go: the second only if the first went well. *)
SELinux ==
  Named("selinux", sandboxTests("SELinux", {}))
    @@ Named("selinuxPrivileged", sandboxTests("SELinux privileged", {"privileged"}))
    @@ [ selinuxTwoPods |->
           It(Context("SELinux pods",
                CreatePodSandboxForContainer("sandboxID")
                  \o CreatePodSandboxForContainer("sandboxID2"),
                <<CleanupPodSandbox("sandboxID") \o CleanupPodSandbox("sandboxID2")>>),
              createContainerWithSelinux("c", "sandboxID", {})
                \o createContainerWithSelinux("c2", "sandboxID2", {})
                \o checkProcessLabelMCS("c") \o checkProcessLabelMCS("c2")
                \o Honors({"other label"}),
              {"process label category", "other label"}) ]
===============================================================================
