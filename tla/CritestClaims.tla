----------------------------- MODULE CritestClaims -----------------------------
(***************************************************************************)
(* What can be read off the text of a suite: which step of a spec looks at *)
(* the option that its title is about, and what the steps before it have   *)
(* prepared for the look to mean something.  The assumptions say that the  *)
(* suite is written that way, whatever specs it has; that its specs then   *)
(* cannot pass without having looked is proved in CritestProofs.           *)
(***************************************************************************)
EXTENDS Critest

Elements(seq) == {seq[i] : i \in DOMAIN seq}

(* The steps of a spec, with those that clean up and those of functions.   *)
Written(s) ==
  Elements(Suite[s].body) \cup UNION {Elements(u) : u \in Elements(Suite[s].in.after)}

Steps(s) == Written(s) \cup UNION {Elements(t.then) : t \in Written(s)}

StepsOf(s, what) == {t \in Steps(s) : t.do \in what}

PodNames(s) == {t.x : t \in StepsOf(s, {"RunPod", "RunPodFails"})}

(* The steps that clean up, and those that a function does.                *)
After(s) == (UNION {Elements(u) : u \in Elements(Suite[s].in.after)})
              \cup (UNION {Elements(t.then) : t \in Steps(s)})

OnceNames == UNION {{t.x : t \in StepsOf(s, {"Once"})} : s \in DOMAIN Suite}

-------------------------------------------------------------------------------
(* The steps that set something up and take nothing away, and succeed if   *)
(* the spec goes on.                                                       *)
Making == {"Create", "CreateOrSkip"}

Preparing == {"RunPod", "Ensure", "Pull", "Start", "Make", "Defer", "Once"}
               \cup {"Eventually", "Expect", "HasImage", "Exec", "Shows", "Honors"}
               \cup Making \cup (Skips \ Wanting)

(* The first k steps of the spec do what is said of the step at j.         *)
Runs(s, k, p) ==
  \E j \in 1..k : Suite[s].body[j].do = "RunPod" /\ Suite[s].body[j].x = p

Fetches(s, k, i) ==
  \E j \in 1..k : Suite[s].body[j].do \in {"Ensure", "Pull"} /\ Suite[s].body[j].y = i

Creates(s, k, c) ==
  \E j \in 1..k : Suite[s].body[j].do \in Making /\ Suite[s].body[j].x = c

Awaits(s, k, c) ==
  \E j \in 1..k : /\ Suite[s].body[j].do = "Eventually"
                  /\ Suite[s].body[j].x = c /\ Suite[s].body[j].y = "RUNNING"
                  /\ Creates(s, j - 1, c)

(* They only prepare: each container is made once, in a pod of the spec,   *)
(* and its command does not end.                                           *)
Prepares(s, k) ==
  /\ s # "simultaneousRemoval"
  /\ \A j \in 1..k :
       LET t == Suite[s].body[j]
       IN  /\ t.do \in Preparing
           /\ t.do \in Making => /\ "ends" \notin t.o
                                 /\ t.x \notin PodNames(s)
                                 /\ Runs(s, j - 1, t.y)
                                 /\ ~Creates(s, j - 1, t.x)

(* The step cannot succeed when the runtime ignores option o.              *)
Looks == {"Exec", "ExecOrSkip", "Shows", "ShowsOrSkip", "LogShows", "Honors"}

Attests(s, i, o) ==
  LET t == Suite[s].body[i]
  IN  /\ o \in t.o
      /\ \/ t.do \in Looks
         \/ t.do = "RunPodFails" /\ t.o \cap Invalid = {o} /\ t.o \cap HostPorts = {}
         \/ /\ t.do \in {"CreateFails", "CreateRejected"} /\ t.o \cap Invalid = {o}
            /\ Prepares(s, i - 1) /\ Runs(s, i - 1, t.y) /\ Fetches(s, i - 1, t.image)
         \/ /\ t.do = "ExecRefused"
            /\ Prepares(s, i - 1) /\ Awaits(s, i - 1, t.x)

-------------------------------------------------------------------------------
(* The step skips the spec when the runtime lacks feature f.               *)
Declines(s, i, f) ==
  LET t == Suite[s].body[i]
  IN  \/ t.do = "Skip" /\ t.y = f
      \/ t.do \in {"CreateOrSkip", "CreateRejected"} /\ f = "image volume"
      \/ /\ t.do = "CreateRejected" /\ t.o \cap Invalid \subseteq Needing(f)
         /\ Prepares(s, i - 1) /\ Runs(s, i - 1, t.y) /\ Fetches(s, i - 1, t.image)
      \/ t.do \in {"ShowsOrSkip", "ExecOrSkip"} /\ t.o \cap Needing(f) # {}

Started(s, k, c) ==
  \E j \in 1..k : Suite[s].body[j].do = "Start" /\ Suite[s].body[j].x = c

(* The container made at place j has been started by the steps up to k.    *)
Begun(s, j, k, c) ==
  \E i \in (j + 1)..k : Suite[s].body[i].do = "Start" /\ Suite[s].body[i].x = c

(* With a runtime that lacks and ignores nothing the step does not skip,   *)
(* given that what the steps before it have prepared stands (SkipUnset,    *)
(* if the status it asks about could be had).                              *)
Asks(s, i) ==
  LET t == Suite[s].body[i]
  IN  /\ t.do = "SkipUnset" =>
           /\ Prepares(s, i - 1)
           /\ \E j \in 1..(i - 1) :
                Suite[s].body[j].do = "Once" /\ Suite[s].body[j].x = t.x
      /\ t.do = "CreateRejected" => t.o \cap Invalid # {}
      /\ t.do \in {"ShowsOrSkip", "ExecOrSkip", "RefusedOrSkip"} =>
           /\ Prepares(s, i - 1)
           /\ \E j \in 1..(i - 1) :
                /\ Suite[s].body[j].do \in Making /\ Suite[s].body[j].x = t.x
                /\ t.o \subseteq Suite[s].body[j].o
                /\ t.do = "ExecOrSkip" => Begun(s, j, i - 1, t.x)

(* With a runtime that ignores nothing the step at place k + 1 does not    *)
(* fail, given that what the first k have prepared stands.                 *)
CannotFail(s, k) ==
  LET t == Suite[s].body[k + 1]
  IN  \/ t.do \in {"Ensure", "Pull", "Defer", "Once"} \cup (Skips \ {"CreateOrSkip"})
      \/ t.do = "Honors" /\ \A f \in Features : t.o \cap Needing(f) = {}
      \/ t.do = "RunPod" /\ t.o \cap Invalid = {} /\ t.o \cap HostPorts = {}
      \/ t.do = "HasImage" /\ Fetches(s, k, t.y)
      \/ t.do \in Making /\ t.o \cap Invalid = {}
                         /\ Runs(s, k, t.y) /\ Fetches(s, k, t.image)
      \/ t.do = "Start" /\ Creates(s, k, t.x) /\ ~Started(s, k, t.x)
      \/ t.do = "Expect" /\ t.y = "LISTED" /\ Creates(s, k, t.x)
      \/ t.do = "Shows" /\ t.o = {} /\ Creates(s, k, t.x)

(* The steps that clean up when the spec is skipped there.                 *)
Pending(s, k) ==
  LET Deferred == {j \in 1..k : Suite[s].body[j].do = "Defer"}
  IN  (UNION {Elements(u) : u \in Elements(Suite[s].in.after)})
        \cup (UNION {Elements(Suite[s].body[j].then) : j \in Deferred})

(* Such a step has the id it needs, or looks whether it has it.            *)
Lenient == {"RemoveImage", "Discard"}

Fit(s, k, t) ==
  \/ t.do \in Lenient
  \/ t.do \in {"StopPod", "RemovePod"} /\ Runs(s, k, t.x)
  \/ t.do = "RemoveCtr" /\ Creates(s, k, t.x)
  \/ t.do = "IfSet" /\ \A u \in Elements(t.then) :
                         \/ u.do \in Lenient
                         \/ u.do \in {"StopPod", "RemovePod"} /\ u.x = t.x

-------------------------------------------------------------------------------
(* The specs are sequences of steps; what a deferred or conditional        *)
(* function does are steps too, and the body itself has no conditions.     *)
ASSUME SuiteAssumption ==
  \A s \in DOMAIN Suite :
    /\ s # "" /\ Suite[s].in.serial \in BOOLEAN
    /\ Suite[s].body \in Seq(Steps(s))
    /\ Suite[s].in.after \in Seq(Seq(Steps(s)))
    /\ \A t \in Steps(s) : t.then \in Seq(Steps(s))
    /\ \A i \in DOMAIN Suite[s].body : Suite[s].body[i].do # "IfSet"

(* A spec that takes an image away that some spec fetches is Serial.       *)
Fetched == UNION {{t.y : t \in StepsOf(s, {"Ensure", "Pull"})} : s \in DOMAIN Suite}

ASSUME RemovalAssumption ==
  \A s \in DOMAIN Suite : ~Suite[s].in.serial =>
    /\ s # "simultaneousRemoval"
    /\ \A t \in StepsOf(s, {"RemoveImage"}) : Names(t.y) \cap Fetched = {}

(* Of whatever a spec claims some step looks whether it is so.             *)
ASSUME ClaimsAssumption ==
  \A s \in DOMAIN Suite \ Blind : \A o \in Suite[s].claims :
    \E i \in DOMAIN Suite[s].body : Attests(s, i, o)

(* Only the body of a spec asks whether there is a feature, and what a     *)
(* "Once" has found out nobody overwrites.                                 *)
ASSUME AskingAssumption ==
  \A s \in DOMAIN Suite :
    /\ \A i \in DOMAIN Suite[s].body : Asks(s, i)
    /\ \A t \in After(s) : t.do \notin Skips
    /\ \A t \in StepsOf(s, {"Assign"}) : t.y \notin OnceNames

(* A spec about a feature has a step that skips it when there is none; up  *)
(* to that step none fails, and cleaning up does not when one has skipped. *)
ASSUME LacksAssumption ==
  \A s \in DOMAIN Suite, f \in Features :
    Needing(f) \cap Suite[s].claims # {} =>
      \E i \in DOMAIN Suite[s].body :
        /\ Declines(s, i, f) /\ Prepares(s, i - 1)
        /\ \A k \in 0..(i - 1) :
             /\ CannotFail(s, k)
             /\ Suite[s].body[k + 1].do \in Skips => \A t \in Pending(s, k) : Fit(s, k, t)

(* Only specs of the suite are chosen, and what a runtime ignores is       *)
(* nothing that it lacks the feature for.                                  *)
ASSUME PlansAssumption ==
  \A p \in Plans :
    /\ p.specs \subseteq DOMAIN Suite
    /\ p.lacks \subseteq Features
    /\ \A f \in p.lacks : p.ignores \cap Needing(f) = {}
===============================================================================
