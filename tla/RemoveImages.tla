---------------------------- MODULE RemoveImages ----------------------------
(***************************************************************************)
(* crictl rmi (removeImageCommand, cmd/crictl/image.go).  A map says of    *)
(* each name whether to remove it: the names of the command line, with     *)
(* --all or --prune the ids of the listed images (pinned ones excepted on  *)
(* --prune), and on --prune the ids of the images of all containers set to *)
(* false.  Then one goroutine per name asks for the image and removes it.  *)
(*                                                                         *)
(* An image has one id and one tag.  The image service and the runtime are *)
(* external; another client creates containers while the command runs.     *)
(***************************************************************************)
EXTENDS FiniteSets, Functions

CONSTANTS
  Images,     \* images, each standing for its id
  Tag,        \* the tag of each image, a name that is no id
  Containers  \* the containers of the runtime

ASSUME ImagesAssumption == IsFiniteSet(Images) /\ IsFiniteSet(Containers)
ASSUME TagAssumption ==
  /\ Tag \in [Images -> Range(Tag)] /\ IsInjective(Tag)
  /\ Range(Tag) \cap Images = {}

VARIABLES
  all, prune,   \* flags
  args,         \* the names given
  pinned,       \* the pinned images
  present,      \* the images of the image service
  uses,         \* the image of each container, NoImage when it does not exist
  phase,        \* where the command is
  ids,          \* the map: the names seen, with TRUE to remove and FALSE to keep
  todo,         \* containers whose image has still to be excluded
  unknown,      \* containers whose image could not be determined
  job,          \* the goroutine of each name
  inUse,        \* the images in use when the containers were listed
  removed,      \* the images the command has removed
  result        \* what it returned

flags == <<all, prune, args>>
service == <<pinned, present, uses>>
vars == <<flags, service, phase, ids, todo, unknown, job, inUse, removed, result>>

NoImage == "none"
Names == Images \cup Range(Tag)

ASSUME NoImageAssumption == NoImage \notin Names

(* What ImageStatus finds under a name. *)
Lookup(name) == {i \in present : name = i \/ name = Tag[i]}

TypeOK ==
  /\ all \in BOOLEAN /\ prune \in BOOLEAN /\ args \subseteq Names
  /\ pinned \subseteq Images /\ present \subseteq Images
  /\ uses \in [Containers -> Images \cup {NoImage}]
  /\ phase \in {"list", "listContainers", "exclude", "spawn", "remove", "done"}
  /\ DOMAIN ids \subseteq Names \cup {NoImage} /\ Range(ids) \subseteq BOOLEAN
  /\ todo \subseteq Containers /\ unknown \subseteq Containers
  /\ DOMAIN job \subseteq Names
  /\ Range(job) \subseteq {"status", "remove", "ok", "err"}
  /\ inUse \subseteq Images /\ removed \subseteq Images
  /\ result \in {"none", "nil", "error", "help"}

Init ==
  /\ all \in BOOLEAN /\ prune \in BOOLEAN /\ args \in SUBSET Names
  /\ pinned \in SUBSET Images /\ present \in SUBSET Images
  /\ uses \in [Containers -> Images \cup {NoImage}]
  /\ phase = "list"
  /\ ids = [n \in args |-> TRUE]
  /\ todo = {} /\ unknown = {} /\ job = [n \in {} |-> "ok"]
  /\ inUse = {} /\ removed = {}
  /\ result = "none"

End(r) == phase' = "done" /\ result' = r

(* ids[n] = v for every n of a set. *)
Mark(names, v) ==
  ids' = [n \in DOMAIN ids \cup names |-> IF n \in names THEN v ELSE ids[n]]

-----------------------------------------------------------------------------
(* The selection. *)

SkipList ==
  /\ phase = "list" /\ ~all /\ ~prune
  /\ phase' = "spawn"
  /\ UNCHANGED <<flags, service, ids, todo, unknown, job, inUse, removed, result>>

List ==
  /\ phase = "list" /\ (all \/ prune)
  /\ phase' = IF prune THEN "listContainers" ELSE "spawn"
  /\ Mark(IF prune THEN present \ pinned ELSE present, TRUE)
  /\ UNCHANGED <<flags, service, todo, unknown, job, inUse, removed, result>>

Existing == {c \in Containers : uses[c] # NoImage}

ListContainers ==
  /\ phase = "listContainers"
  /\ phase' = "exclude"
  /\ todo' = Existing
  /\ inUse' = {uses[c] : c \in Existing}
  /\ UNCHANGED <<flags, service, ids, unknown, job, removed, result>>

(* ListImages or ListContainers fails, or the runtime cannot be reached. *)
ListFails ==
  /\ \/ phase = "list" /\ (all \/ prune)
     \/ phase = "listContainers"
  /\ End("error")
  /\ UNCHANGED <<flags, service, ids, todo, unknown, job, inUse, removed>>

\* Faulty variant: the image is excluded by its tag.
ExcludeTag(c) ==
  /\ phase = "exclude" /\ c \in todo
  /\ todo' = todo \ {c}
  /\ Mark({Tag[i] : i \in Lookup(uses[c])}, FALSE)
  /\ UNCHANGED <<flags, service, phase, unknown, job, inUse, removed, result>>

(* An image that has gone is looked up without an error and has no id, so   *)
(* the map gets an entry for the empty one.                                 *)
Exclude(c) ==
  /\ phase = "exclude" /\ c \in todo
  /\ todo' = todo \ {c}
  /\ Mark(IF Lookup(uses[c]) = {} THEN {NoImage} ELSE Lookup(uses[c]), FALSE)
  /\ UNCHANGED <<flags, service, phase, unknown, job, inUse, removed, result>>

(* A lookup that fails is logged, and the loop goes on. *)
ExcludeFails(c) ==
  /\ phase = "exclude" /\ c \in todo
  /\ todo' = todo \ {c}
  /\ unknown' = unknown \cup {c}
  /\ UNCHANGED <<flags, service, phase, ids, job, inUse, removed, result>>

Excluded ==
  /\ phase = "exclude" /\ todo = {}
  /\ phase' = "spawn"
  /\ UNCHANGED <<flags, service, ids, todo, unknown, job, inUse, removed, result>>

(* An empty map ends the command; else one goroutine per name to remove. *)
Spawn ==
  /\ phase = "spawn"
  /\ IF DOMAIN ids = {}
       THEN End(IF all \/ prune THEN "nil" ELSE "help") /\ UNCHANGED job
       ELSE /\ phase' = "remove"
            /\ job' = [n \in {m \in DOMAIN ids : ids[m]} |-> "status"]
            /\ UNCHANGED result
  /\ UNCHANGED <<flags, service, ids, todo, unknown, inUse, removed>>

-----------------------------------------------------------------------------
(* One goroutine. *)

Goto(n, l) == job' = [job EXCEPT ![n] = l]

(* No such image is an error, also on --prune. *)
Status(n) ==
  /\ phase = "remove" /\ n \in DOMAIN job /\ job[n] = "status"
  /\ Goto(n, IF Lookup(n) = {} THEN "err" ELSE "remove")
  /\ UNCHANGED <<flags, service, phase, ids, todo, unknown, inUse, removed, result>>

StatusFails(n) ==
  /\ phase = "remove" /\ n \in DOMAIN job /\ job[n] = "status"
  /\ Goto(n, "err")
  /\ UNCHANGED <<flags, service, phase, ids, todo, unknown, inUse, removed, result>>

(* RemoveImage removes the image with all its names, pinned or not.  What a *)
(* name stands for is looked up again, and removing nothing is no error.    *)
Remove(n) ==
  /\ phase = "remove" /\ n \in DOMAIN job /\ job[n] = "remove"
  /\ Goto(n, "ok")
  /\ present' = present \ Lookup(n)
  /\ removed' = removed \cup Lookup(n)
  /\ UNCHANGED <<flags, pinned, uses, phase, ids, todo, unknown, inUse, result>>

\* Faulty variant: errors are ignored without --prune, too.
RemoveFailsQuiet(n) ==
  /\ phase = "remove" /\ n \in DOMAIN job /\ job[n] = "remove"
  /\ Goto(n, "ok")
  /\ UNCHANGED <<flags, service, phase, ids, todo, unknown, inUse, removed, result>>

RemoveFails(n) ==
  /\ phase = "remove" /\ n \in DOMAIN job /\ job[n] = "remove"
  /\ Goto(n, IF prune THEN "ok" ELSE "err")
  /\ UNCHANGED <<flags, service, phase, ids, todo, unknown, inUse, removed, result>>

Return ==
  /\ phase = "remove" /\ Range(job) \subseteq {"ok", "err"}
  /\ End(IF "err" \in Range(job) THEN "error" ELSE "nil")
  /\ UNCHANGED <<flags, service, ids, todo, unknown, job, inUse, removed>>

-----------------------------------------------------------------------------
(* External: another client creates a container from an image. *)
OtherCreates(c) ==
  /\ uses[c] = NoImage /\ phase # "done"
  /\ \E i \in present : uses' = [uses EXCEPT ![c] = i]
  /\ UNCHANGED <<flags, pinned, present, phase, ids, todo, unknown, job, inUse,
                 removed, result>>

Next ==
  \/ SkipList \/ List \/ ListContainers \/ ListFails \/ Excluded \/ Spawn \/ Return
  \/ \E c \in Containers : Exclude(c) \/ ExcludeFails(c) \/ OtherCreates(c)
  \/ \E n \in Names : Status(n) \/ StatusFails(n) \/ Remove(n) \/ RemoveFails(n)

Spec == Init /\ [][Next]_vars

-----------------------------------------------------------------------------
Given == {i \in Images : i \in args \/ Tag[i] \in args}

(* --prune removes no pinned image and none that was in use when it listed  *)
(* the containers, unless it is named on the command line or, for one in    *)
(* use, its lookup failed.                                                  *)
InUseSpared ==
  prune => /\ removed \cap pinned \subseteq Given
           /\ removed \cap inUse \subseteq Given \cup {uses[c] : c \in unknown}

(* Without --prune, success means that every image asked for is gone.       *)
SuccessMeansGone ==
  result = "nil" /\ ~prune => present \cap (IF all THEN Images ELSE Given) = {}
=============================================================================
