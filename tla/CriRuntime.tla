------------------------------ MODULE CriRuntime ------------------------------
(***************************************************************************)
(* The container runtime that critest talks to, as the specs under         *)
(* src/pkg/validate use it through rc and ic: what a conforming runtime    *)
(* does with a call.  It is a service outside the repository.  A world is  *)
(* a record: the pod sandboxes, the containers and the images the runtime  *)
(* keeps, and what the specs put on the host (directories, and mounts      *)
(* inside of them), which outlives the runtime.                            *)
(*                                                                         *)
(* What a pod or a container was configured with is a set of names, its    *)
(* options; a runtime with a defect ignores one of them.                   *)
(***************************************************************************)
EXTENDS Integers, Sequences, FiniteSets

Without(f, S) == [x \in DOMAIN f \ S |-> f[x]]

Updated(f, x, v) == [y \in DOMAIN f \cup {x} |-> IF y = x THEN v ELSE f[y]]

EmptyWorld == [pods |-> <<>>, ctrs |-> <<>>, images |-> {}, host |-> <<>>,
               erased |-> FALSE]

(* Options that name a port of the host: one ready pod at a time has it.   *)
HostPorts == {"host port 12000", "host port 12001", "host port 12002",
              "host port 12003"}

(* Configurations a runtime has to refuse.                                 *)
Invalid ==
  { "missing AppArmor profile", "wrong SELinux level", "group without user"
  , "unusable mapping", "writable image volume"
  , "missing subPath", "recursive read-only with propagation"
  , "recursive read-only but writable" }

(* The options that are nothing to a runtime without a feature.  Without   *)
(* image volumes it may refuse them ("image volume") or pass over them.    *)
ImageVolumes == {"image volume", "volume digest", "read-only volume", "subPath",
                 "writable image volume", "missing subPath"}

Needing(feature) ==
  CASE feature = "metrics" -> {"metric descriptors", "pod metrics"}
    [] feature = "recursive read-only" ->
         {"recursive read-only", "recursive read-only with propagation",
          "recursive read-only but writable"}
    [] feature = "image id of containers" -> {"container image id"}
    [] feature = "supplemental groups policy" -> {"merge groups", "strict groups"}
    [] feature = "user namespaces" -> {"userns pod", "userns node", "unusable mapping"}
    [] feature = "idmap mounts" -> {"userns pod"}
    [] feature = "AppArmor" ->
         {"old deny write", "deny write", "new deny write", "missing AppArmor profile"}
    [] feature \in {"image volume", "image volume fields"} -> ImageVolumes

Features == {"metrics", "recursive read-only", "image id of containers",
             "supplemental groups policy", "user namespaces", "idmap mounts",
             "AppArmor", "image volume", "image volume fields"}

StateOf(w, x) ==
  IF x \in DOMAIN w.pods THEN w.pods[x].st
  ELSE IF x \in DOMAIN w.ctrs THEN w.ctrs[x].st ELSE "GONE"

(* What one sees from inside a container: its own options and its pod's.   *)
Effective(w, c) ==
  w.ctrs[c].o \cup (IF w.ctrs[c].pod \in DOMAIN w.pods
                    THEN w.pods[w.ctrs[c].pod].o ELSE {})

CanRunPod(w, o) ==
  /\ o \cap Invalid = {}
  /\ \A p \in DOMAIN w.pods :
        w.pods[p].st = "READY" => w.pods[p].o \cap o \cap HostPorts = {}

RunPod(w, p, o) == [w EXCEPT !.pods = Updated(@, p, [st |-> "READY", o |-> o])]

(* To stop a pod stops its containers; a pod that is gone is no error.     *)
StopPod(w, p) ==
  [w EXCEPT
     !.pods = [q \in DOMAIN @ |->
                 IF q = p THEN [@[q] EXCEPT !.st = "NOTREADY"] ELSE @[q]],
     !.ctrs = [c \in DOMAIN @ |->
                 IF @[c].pod = p /\ @[c].st = "RUNNING"
                 THEN [@[c] EXCEPT !.st = "EXITED"] ELSE @[c]]]

RemovePod(w, p) ==
  [w EXCEPT !.pods = Without(@, {p}),
            !.ctrs = Without(@, {c \in DOMAIN @ : @[c].pod = p})]

CanCreate(w, p, image, o) ==
  /\ StateOf(w, p) = "READY"
  /\ image \in w.images
  /\ o \cap Invalid = {}

CreateCtr(w, c, p, o) ==
  [w EXCEPT !.ctrs =
     Updated(@, c, [pod |-> p, st |-> "CREATED", o |-> o, wrote |-> FALSE])]

StartCtr(w, c) == [w EXCEPT !.ctrs[c].st = "RUNNING"]

StopCtr(w, c) ==
  IF StateOf(w, c) = "RUNNING" THEN [w EXCEPT !.ctrs[c].st = "EXITED"] ELSE w

RemoveCtr(w, c) == [w EXCEPT !.ctrs = Without(@, {c})]

(* The container goes on writing, to the log as it is configured now.      *)
Configure(w, c, o) == [w EXCEPT !.ctrs[c].o = @ \cup o, !.ctrs[c].wrote = FALSE]

(* The names of one image: to remove it by any of them removes it by all.  *)
Names(i) ==
  CASE i \in {"multi:1", "multi:2", "multi:3"} -> {"multi:1", "multi:2", "multi:3"}
    [] i \in {"one.registry", "other.registry"} -> {"one.registry", "other.registry"}
    [] OTHER -> {i}

PullImg(w, i) == [w EXCEPT !.images = @ \cup {i}]

RemoveImg(w, i) == [w EXCEPT !.images = @ \ Names(i)]

(* What happens by itself: a running container writes its output, and one  *)
(* whose command ends exits once it has.                                   *)
CanWrite(w, c) == w.ctrs[c].st = "RUNNING" /\ ~w.ctrs[c].wrote
CanExit(w, c)  == /\ w.ctrs[c].st = "RUNNING" /\ w.ctrs[c].wrote
                  /\ "ends" \in w.ctrs[c].o

(* The host.  A thing is in another one, its parent; an unmounted mount    *)
(* takes the mounts below it along (MNT_DETACH).                           *)
Put(w, r, parent) == [w EXCEPT !.host = Updated(@, r, parent)]

Below(w, r) ==
  LET Kids(S) == {x \in DOMAIN w.host : w.host[x] \in S}
  IN  Kids({r}) \cup Kids(Kids({r}))

Unmount(w, r) == [w EXCEPT !.host = Without(@, {r} \cup Below(w, r))]

(* RemoveAll deletes what it sees: below a mount that is still there, the  *)
(* files of the directory that is mounted.                                 *)
Erase(w, r) ==
  [w EXCEPT !.host = Without(@, {r}), !.erased = @ \/ Below(w, r) # {}]
===============================================================================
