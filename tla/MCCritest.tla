------------------------------- MODULE MCCritest -------------------------------
(* The plans of the run critest. *)
EXTENDS CritestClaims, CritestContainer, CritestPod, CritestNetwork, CritestSecurity, TLC

MCSuite ==
  ContainerLifecycle @@ ContainerExec @@ ContainerStatistics @@ ContainerVolumes
    @@ ContainerLogs @@ MountPropagation @@ ContainerOOM @@ ReadonlyMounts
    @@ PodLifecycle @@ PodMetrics @@ PodSysctls @@ Idempotence @@ RuntimeInfo
    @@ MultipleContainers @@ PullingImages @@ ImageUsers @@ ListingImages
    @@ RemovingTags @@ ImageConsistency @@ ImageIdentifiers
    @@ ImageVolumeDigest @@ ImageVolumeAccess @@ ImageVolumeSubPath
    @@ Networking @@ Streaming @@ StreamingLinux
    @@ NamespaceOption @@ SecurityUsers @@ SecurityPrivileges @@ SecurityCapabilities
    @@ SupplementalGroupsPolicy
    @@ SeccompProfilePath @@ NoNewPrivs @@ UserNamespaces @@ AppArmor @@ SELinux

Plan(nodes, specs, faults, ignores, lacks) ==
  [nodes |-> nodes, specs |-> specs, faults |-> faults, ignores |-> ignores,
   lacks |-> lacks]

(* Each spec alone, with a fault or without.                               *)
OneFault == {Plan({1}, {s}, 1, {}, {}) : s \in DOMAIN MCSuite}

(* Each spec alone, with a runtime that ignores an option it is about.     *)
OneIgnored ==
  UNION {{Plan({1}, {s}, 0, {o}, {}) : o \in MCSuite[s].claims} : s \in DOMAIN MCSuite}

(* Those that want an error, with such a runtime and a fault as well.      *)
IgnoredAndFault ==
  UNION {{Plan({1}, {s}, 1, {o}, {}) : o \in MCSuite[s].claims} :
         s \in {t \in DOMAIN MCSuite : \E i \in DOMAIN MCSuite[t].body :
                                       MCSuite[t].body[i].do \in Wanting}}

(* Each spec alone, with a runtime without a feature it is about.          *)
OneLacking ==
  UNION {{Plan({1}, {s}, 0, {}, {f}) :
            f \in {g \in Features : Needing(g) \cap MCSuite[s].claims # {}}} :
         s \in DOMAIN MCSuite}

(* Two specs that find each other's variables, in either order; a fault.   *)
Neighbours == {"hostPID", "podNetwork", "mergeGroups", "seccompDefault",
               "usernsNode", "usernsTwoMappings"}
Successive == {Plan({1}, {s, t}, 1, {}, {}) : s, t \in Neighbours}

(* Two processes and specs that share images, ports of the host or ids.    *)
Sharers == {"hostPort", "portForward", "portForwardHostNet", "volumeReadOnly",
            "imageWithTag", "simultaneousRemoval", "removeByOneTag", "listThreeTags",
            "rshared", "stopStoppedPod", "multiLog"}
Parallel == {Plan(1..2, {s, t}, 0, {}, {}) : s, t \in Sharers}

(* The same with a fault in one of them. *)
Together == {Plan(1..2, {s, t}, 1, {}, {}) :
               s, t \in {"hostPort", "portForward", "simultaneousRemoval", "imageWithTag"}}

MCPlans == OneFault \cup OneIgnored \cup IgnoredAndFault \cup OneLacking
             \cup Successive \cup Parallel \cup Together
MCRemovers == 1..2
===============================================================================
