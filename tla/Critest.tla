-------------------------------- MODULE Critest --------------------------------
(***************************************************************************)
(* critest: the processes of the suite (nodes) take specs and perform      *)
(* their steps against one runtime.  A spec is a body and, after it, the   *)
(* units that clean up, the deferred ones first; a failed step ends the    *)
(* body or its unit, never the units after it.                             *)
(*                                                                         *)
(* A plan says what happens in a behaviour: the specs that were chosen     *)
(* (-ginkgo.focus), the nodes (-parallel), how many calls or assertions    *)
(* fail for reasons of their own, the options the runtime ignores and the  *)
(* features it lacks.                                                      *)
(***************************************************************************)
EXTENDS CritestImage

CONSTANTS Suite,    \* the specs by name
          Plans,    \* the plans
          Removers  \* goroutines that remove one image at once

VARIABLES
  plan,    \* the plan of this behaviour
  w,       \* what the runtime keeps, and the host (CriRuntime)
  node,    \* what each process is at
  env,     \* the variables of its contexts, by context and name
  done,    \* the verdicts of the specs that ended
  spent,   \* the faults so far: the spec, the step, whether it was cleaning up
  kids     \* the goroutines of simultaneousRemoval by their next call

vars == <<plan, w, node, env, done, spent, kids>>

Idle == [spec |-> "", context |-> "", todo |-> <<>>, units |-> <<>>,
         cleaning |-> FALSE, verdict |-> "passed"]

Init ==
  /\ plan \in Plans
  /\ w = EmptyWorld
  /\ node = [n \in plan.nodes |-> Idle]
  /\ env = [n \in plan.nodes |-> <<>>]
  /\ done = <<>>
  /\ spent = <<>>
  /\ kids = [k \in Removers |-> "none"]

Busy(n) == node[n].spec # ""

-------------------------------------------------------------------------------
(* The step in hand and what it needs: ids are named after the spec and    *)
(* the variable that got them, a variable without one holds NoId.          *)
NoId == <<"", "">>

Step(n) == Head(node[n].todo)

Var(n, x) == <<node[n].context, x>>

Val(n, x) == IF Var(n, x) \in DOMAIN env[n] THEN env[n][Var(n, x)] ELSE NoId

New(n, x) == <<node[n].spec, x>>

(* What options come to with the runtime of the plan.                      *)
Absent == plan.ignores \cup UNION {Needing(f) : f \in plan.lacks}

Effect(o) == o \ Absent

Holds(x, state) ==
  CASE state = "LISTED" -> StateOf(w, x) # "GONE"
    [] state = "WROTE"  -> x \in DOMAIN w.ctrs /\ w.ctrs[x].wrote
    [] OTHER -> StateOf(w, x) = state

Options(x) == IF x \in DOMAIN w.pods THEN w.pods[x].o
              ELSE IF x \in DOMAIN w.ctrs THEN Effective(w, x) ELSE {"gone"}

Seen(x, o) == StateOf(w, x) # "GONE" /\ o \subseteq Options(x)

Taken(port) ==
  \/ \E p \in DOMAIN w.pods : w.pods[p].st = "READY" /\ port \in w.pods[p].o
  \/ \E h \in DOMAIN w.host : h[2] = port

(* The steps that want the runtime to refuse; and those that ask whether   *)
(* there is a feature, or take an error for the answer, and else skip.     *)
Refusals == {"RunPodFails", "CreateFails"}

Skips == {"Skip", "SkipUnset", "CreateOrSkip", "CreateRejected", "ExecOrSkip",
          "ShowsOrSkip", "RefusedOrSkip"}

(* Whether the call of the step succeeds, its assertion holds; for the     *)
(* steps that want an error, whether there is one, and for CreateRejected  *)
(* one that does not read as "unsupported".                                *)
Succeeds(n) ==
  LET s == Step(n)
      x == Val(n, s.x)
      y == Val(n, s.y)
  IN CASE s.do = "RunPod" -> CanRunPod(w, Effect(s.o))
       [] s.do = "RunPodFails" -> ~CanRunPod(w, Effect(s.o))
       [] s.do \in {"StopPod", "RemovePod", "StopCtr", "RemoveCtr"} -> x # NoId
       [] s.do = "Start" -> StateOf(w, x) = "CREATED"
       [] s.do = "Configure" -> StateOf(w, x) = "RUNNING"
       [] s.do = "Create" -> CanCreate(w, y, s.image, Effect(s.o))
       [] s.do = "CreateOrSkip" ->
            /\ "image volume" \notin plan.lacks
            /\ CanCreate(w, y, s.image, Effect(s.o))
       [] s.do = "CreateFails" -> ~CanCreate(w, y, s.image, Effect(s.o))
       [] s.do = "CreateRejected" ->
            /\ "image volume" \notin plan.lacks
            /\ ~CanCreate(w, y, s.image, Effect(s.o))
       [] s.do \in {"Expect", "Eventually"} -> Holds(x, s.y)
       [] s.do \in {"Exec", "ExecOrSkip"} ->
            Holds(x, "RUNNING") /\ Seen(x, s.o)
       [] s.do \in {"ExecRefused", "RefusedOrSkip"} ->
            Holds(x, "RUNNING") => Seen(x, s.o)
       [] s.do \in {"Shows", "ShowsOrSkip"} -> Seen(x, s.o)
       [] s.do = "LogShows" -> Holds(x, "WROTE") /\ Seen(x, s.o)
       [] s.do = "LacksYet" -> Seen(x, {}) /\ (Holds(x, "WROTE") => Seen(x, s.o))
       [] s.do = "Honors" -> Effect(s.o) = s.o
       [] s.do = "HasImage" -> s.y \in w.images
       [] s.do = "NoImage" -> s.y \notin w.images
       [] s.do = "Skip" -> s.y \notin plan.lacks
       [] s.do = "SkipUnset" -> x # NoId
       [] s.do = "Make" -> s.y = "" \/ y \in DOMAIN w.host
       [] s.do = "Unmount" -> x \in DOMAIN w.host
       [] s.do = "ExecMount" -> Holds(x, "RUNNING")
       [] s.do = "HostHas" -> x \in DOMAIN w.host
       [] s.do = "HostLacks" -> x \notin DOMAIN w.host
       [] s.do = "Listen" -> ~Taken(s.y)
       [] s.do = "Wait" -> \A k \in Removers : kids[k] = "none"
       [] OTHER -> TRUE

(* The world when it did. *)
World(n) ==
  LET s == Step(n)
      x == Val(n, s.x)
      y == Val(n, s.y)
  IN CASE s.do = "RunPod" -> RunPod(w, New(n, s.x), Effect(s.o))
       [] s.do = "StopPod" -> StopPod(w, x)
       [] s.do = "RemovePod" -> RemovePod(w, x)
       [] s.do = "Start" -> StartCtr(w, x)
       [] s.do = "StopCtr" -> StopCtr(w, x)
       [] s.do = "RemoveCtr" -> RemoveCtr(w, x)
       [] s.do = "Configure" -> Configure(w, x, Effect(s.o))
       [] s.do \in {"Create", "CreateOrSkip"} ->
            CreateCtr(w, New(n, s.x), y, Effect(s.o))
       [] s.do \in {"Pull", "Ensure"} -> PullImg(w, s.y)
       [] s.do = "RemoveImage" -> RemoveImg(w, s.y)
       [] s.do = "Make" -> Put(w, New(n, s.x), y)
       [] s.do = "Unmount" -> Unmount(w, x)
       [] s.do \in {"RemoveAll", "Discard"} /\ x \in DOMAIN w.host -> Erase(w, x)
       [] s.do = "ExecMount" /\ Seen(x, {"rshared"}) ->
            Put(w, New(n, s.y), Val(n, "mntSource"))
       [] s.do = "Listen" -> Put(w, New(n, s.y), NoId)
       [] s.do = "Unlisten" -> Unmount(w, New(n, s.y))
       [] OTHER -> w

(* The variables: a "Once" is done by the first spec of the process.       *)
Binds(n) ==
  LET s == Step(n)
  IN CASE s.do \in {"RunPod", "Create", "CreateOrSkip", "Make", "NewUUID"} ->
            Updated(env[n], Var(n, s.x), New(n, s.x))
       [] s.do = "ExecMount" -> Updated(env[n], Var(n, s.y), New(n, s.y))
       [] s.do = "Assign" -> Updated(env[n], Var(n, s.y), Val(n, s.x))
       [] s.do = "Clear" -> Without(env[n], {Var(n, s.y)})
       [] s.do = "Once" /\ Var(n, s.x) \notin DOMAIN env[n] ->
            Updated(env[n], Var(n, s.x), New(n, s.x))
       [] OTHER -> env[n]

Rest(n) ==
  LET s == Step(n)
  IN  IF s.do = "IfSet" /\ Val(n, s.x) # NoId THEN s.then \o Tail(node[n].todo)
      ELSE Tail(node[n].todo)

Units(n) == IF Step(n).do = "Defer" THEN <<Step(n).then>> \o node[n].units
            ELSE node[n].units

-------------------------------------------------------------------------------
(* Ginkgo gives an idle process one of the specs that are left; a Serial   *)
(* one waits for all others and runs alone, in the first process.          *)
Left == {s \in plan.specs \ DOMAIN done : \A n \in plan.nodes : node[n].spec # s}

Take(n, s) ==
  /\ ~Busy(n) /\ node[n].verdict # "crashed"
  /\ s \in Left
  /\ Suite[s].in.serial =>
       /\ n = 1
       /\ \A m \in plan.nodes : ~Busy(m)
       /\ \A t \in Left : Suite[t].in.serial
  /\ node' = [node EXCEPT ![n] = [Idle EXCEPT !.spec = s,
                                              !.context = Suite[s].in.name,
                                              !.todo = Suite[s].body,
                                              !.units = Suite[s].in.after]]
  /\ UNCHANGED <<plan, w, env, done, spent, kids>>

Perform(n) ==
  /\ node[n].todo # <<>>
  /\ Succeeds(n)
  /\ w' = World(n)
  /\ env' = [env EXCEPT ![n] = Binds(n)]
  /\ node' = [node EXCEPT ![n].todo = Rest(n), ![n].units = Units(n)]
  /\ kids' = IF Step(n).do = "Spawn" THEN [k \in Removers |-> "remove"] ELSE kids
  /\ UNCHANGED <<plan, done, spent>>

(* The spec skips for what it found: with CreateOrSkip it takes only some  *)
(* errors for a missing feature, those the runtime answers that lacks it.  *)
Unsupported(n) ==
  /\ Step(n).do \in Skips
  /\ Step(n).do = "CreateOrSkip" => "image volume" \in plan.lacks

(* The step in hand ends the body, or the unit.                            *)
Stops(n, verdict) ==
  node' = [node EXCEPT
    ![n].todo = <<>>,
    ![n].verdict = IF @ = "failed" \/ verdict = "failed" THEN "failed" ELSE verdict]

(* Faulty variant: what is missing is logged, and the body goes on. *)
SkipLogged(n) ==
  /\ node[n].todo # <<>>
  /\ ~Succeeds(n) /\ Unsupported(n)
  /\ node' = [node EXCEPT ![n].todo = Tail(@)]
  /\ UNCHANGED <<plan, w, env, done, spent, kids>>

(* What CreateRejected created nevertheless is removed again.              *)
SkipSpec(n) ==
  /\ node[n].todo # <<>>
  /\ ~Succeeds(n) /\ Unsupported(n)
  /\ Stops(n, "skipped")
  /\ UNCHANGED <<plan, w, env, done, spent, kids>>

(* Faulty variant: the error is logged, and the body goes on to its end. *)
FailLogged(n) ==
  /\ node[n].todo # <<>>
  /\ ~Succeeds(n) /\ ~Unsupported(n)
  /\ Step(n).do \notin Refusals \cup {"Eventually", "Wait"}
  /\ node' = [node EXCEPT ![n].todo = Tail(@)]
  /\ UNCHANGED <<plan, w, env, done, spent, kids>>

Fail(n) ==
  /\ node[n].todo # <<>>
  /\ ~Succeeds(n) /\ ~Unsupported(n)
  /\ Step(n).do \notin Refusals \cup {"Eventually", "Wait"}
  /\ Stops(n, "failed")
  /\ UNCHANGED <<plan, w, env, done, spent, kids>>

(* What the runtime should have refused it did: nobody has the id.         *)
Accept(n) ==
  LET s == Step(n)
  IN
  /\ node[n].todo # <<>>
  /\ s.do \in Refusals /\ ~Succeeds(n)
  /\ w' = IF s.do = "RunPodFails" THEN RunPod(w, New(n, s.x), Effect(s.o))
          ELSE CreateCtr(w, New(n, s.x), Val(n, s.y), Effect(s.o))
  /\ Stops(n, "failed")
  /\ UNCHANGED <<plan, env, done, spent, kids>>

(* A call fails, without an effect, or an assertion is lost to something   *)
(* else: a timeout, a full disk.  A step that wants an error takes this    *)
(* one for it, and one that takes errors for a missing feature may skip    *)
(* the spec.                                                               *)
NoFault == {"Assign", "Clear", "NewUUID", "Skip", "SkipUnset", "Defer", "IfSet",
            "Spawn", "Unlisten"}

Wanting == Refusals \cup {"CreateRejected", "ExecRefused", "RefusedOrSkip"}

Fault(n) ==
  LET s == Step(n)
  IN
  /\ node[n].todo # <<>>
  /\ Len(spent) < plan.faults
  /\ s.do \notin NoFault
  /\ s.do = "Once" => Var(n, s.x) \notin DOMAIN env[n]
  /\ spent' = Append(spent, [spec |-> node[n].spec, at |-> s.do,
                             cleaning |-> node[n].cleaning])
  /\ env' = IF s.do = "Once" THEN [env EXCEPT ![n] = Updated(@, Var(n, s.x), NoId)]
            ELSE env
  /\ \/ s.do \in Wanting \cup {"Discard"} /\ node' = [node EXCEPT ![n].todo = Tail(@)]
     \/ s.do \in Skips \ {"RefusedOrSkip"} /\ Stops(n, "skipped")
     \/ /\ s.do \notin (Skips \ {"CreateOrSkip"}) \cup Wanting \cup {"Discard"}
        /\ Stops(n, "failed")
  /\ UNCHANGED <<plan, w, done, kids>>

NextUnit(n) ==
  /\ Busy(n) /\ node[n].todo = <<>> /\ node[n].units # <<>>
  /\ node' = [node EXCEPT ![n].todo = Head(node[n].units),
                          ![n].units = Tail(@), ![n].cleaning = TRUE]
  /\ UNCHANGED <<plan, w, env, done, spent, kids>>

End(n) ==
  /\ Busy(n) /\ node[n].todo = <<>> /\ node[n].units = <<>>
  /\ done' = Updated(done, node[n].spec, node[n].verdict)
  /\ node' = [node EXCEPT ![n] = Idle]
  /\ UNCHANGED <<plan, w, env, spent, kids>>

(* Faulty variant: the goroutine waits until the image is back. *)
RemoverWaits(n, k) ==
  /\ node[n].spec = "simultaneousRemoval"
  /\ \/ kids[k] = "remove" /\ w' = RemoveImg(w, TestImage)
          /\ kids' = [kids EXCEPT ![k] = "status"]
     \/ kids[k] = "status" /\ TestImage \in w.images
          /\ kids' = [kids EXCEPT ![k] = "none"] /\ w' = w
  /\ UNCHANGED <<plan, node, env, done, spent>>

(* A goroutine of simultaneousRemoval: it removes the image and looks at   *)
(* its status.  An error of the removal is for the spec to see, one of the *)
(* status panics where nothing recovers, and ends the process.             *)
Remover(n, k) ==
  /\ node[n].spec = "simultaneousRemoval"
  /\ \/ kids[k] = "remove" /\ w' = RemoveImg(w, TestImage)
          /\ kids' = [kids EXCEPT ![k] = "status"]
     \/ kids[k] = "status" /\ TestImage \notin w.images
          /\ kids' = [kids EXCEPT ![k] = "none"] /\ w' = w
  /\ UNCHANGED <<plan, node, env, done, spent>>

RemoverPanics(n, k) ==
  /\ node[n].spec = "simultaneousRemoval" /\ kids[k] = "status"
  /\ Len(spent) < plan.faults
  /\ spent' = Append(spent, [spec |-> node[n].spec, at |-> "Remover",
                             cleaning |-> FALSE])
  /\ done' = Updated(done, node[n].spec, "crashed")
  /\ node' = [node EXCEPT ![n] = [Idle EXCEPT !.verdict = "crashed"]]
  /\ kids' = [j \in Removers |-> "none"]
  /\ UNCHANGED <<plan, w, env>>

(* The containers. *)
Writes(c) ==
  /\ CanWrite(w, c)
  /\ w' = [w EXCEPT !.ctrs[c].wrote = TRUE]
  /\ UNCHANGED <<plan, node, env, done, spent, kids>>

Exits(c) ==
  /\ CanExit(w, c)
  /\ w' = StopCtr(w, c)
  /\ UNCHANGED <<plan, node, env, done, spent, kids>>

Process(n) ==
  \/ \E s \in Left : Take(n, s)
  \/ Perform(n) \/ SkipSpec(n) \/ Fail(n) \/ Accept(n) \/ NextUnit(n) \/ End(n)

Next ==
  \/ \E n \in plan.nodes :
       Process(n) \/ Fault(n) \/ \E k \in Removers : Remover(n, k) \/ RemoverPanics(n, k)
  \/ \E c \in DOMAIN w.ctrs : Writes(c) \/ Exits(c)

Goroutines == \E n \in plan.nodes, k \in Removers : Remover(n, k)
Containers == \E c \in DOMAIN w.ctrs : Writes(c) \/ Exits(c)
Nodes      == \E n \in plan.nodes : Process(n)

(* The Go scheduler runs processes and goroutines, the kernel containers;  *)
(* nothing is assumed of faults.                                           *)
Spec == /\ Init /\ [][Next]_vars
        /\ WF_vars(Nodes) /\ WF_vars(Goroutines) /\ WF_vars(Containers)

-------------------------------------------------------------------------------
(* No false alarm: with a runtime that conforms and nothing else failing,  *)
(* every spec passes, in whatever order and next to whatever others the    *)
(* processes run it.                                                       *)
NoFalseAlarm ==
  plan.faults = 0 /\ plan.ignores = {} /\ plan.lacks = {}
    => \A s \in DOMAIN done : done[s] = "passed"

Has(s, what) == \E i \in DOMAIN Suite[s].body : Suite[s].body[i].do = what

Residue(s) == {x \in DOMAIN w.pods \cup DOMAIN w.host : x[1] = s}

CleanupFailed == \E i \in DOMAIN spent : spent[i].cleaning

(* What a helper made and had not returned yet when it failed; the pods of *)
(* specs that clean up at the end of their bodies or expect no pod at all; *)
(* the directory of a mount that could not be made, and what is below it,  *)
(* since clearHostPath stops at a mount that is not there.                 *)
MayLeave(s) ==
  {"newPod", "newDir"}
    \cup (IF Suite[s].in.name = "idempotence" \/ Has(s, "RunPodFails")
          THEN {"podID"} ELSE {})
    \cup (IF Suite[s].in.name \in {"mount propagation", "read-only mounts"}
          THEN {"hostPath", "mntSource"} ELSE {})

(* Nothing is left behind: of the pods that a spec ran and of what it put  *)
(* on the host nothing remains when it has ended, however it ended, unless *)
(* its cleaning up failed or it is one of those that MayLeave names; nor   *)
(* is a file of the host deleted through a mount that is still there.      *)
NothingLeftBehind ==
  /\ ~w.erased
  /\ \A s \in DOMAIN done : \A x \in Residue(s) :
       \/ CleanupFailed
       \/ x[2] = "shared memory"
       \/ done[s] # "passed" /\ x[2] \in MayLeave(s)

(* Blind are the specs that look too early for what should not be there,   *)
(* or at something that is so of every runtime.                            *)
Blind == {"podPID", "podNetwork", "addAllCapabilities", "versionInfo"}

(* It wanted an error and got one that had another cause.                  *)
Misled(s) == \E i \in DOMAIN spent : spent[i].spec = s /\ spent[i].at \in Wanting

(* A spec that passes has seen what its title says: it does not pass when  *)
(* the runtime ignores one of the options it is about, whatever else has   *)
(* failed, unless a call failed of which it wanted an error: any is taken  *)
(* for the one that is wanted.                                             *)
PassMeansConforming ==
  \A s \in DOMAIN done \ Blind :
    done[s] = "passed" => plan.ignores \cap Suite[s].claims = {} \/ Misled(s)

(* A fault that reads as a missing feature: of a call whose errors the     *)
(* spec takes for that, or of the one status all specs of a process share. *)
Mistaken(f, s) == \/ f.spec = s /\ f.at \in Skips
                  \/ f.at = "Once" /\ Has(s, "Once")

(* A spec is skipped when the runtime lacks the feature it is about, and   *)
(* then only: with one that lacks nothing and ignores nothing some fault   *)
(* must have read as a missing feature, and with one that lacks it, and is *)
(* right otherwise, the spec neither fails nor passes.                     *)
SkippedMeansMissing ==
  /\ plan.lacks = {} /\ plan.ignores = {} =>
       \A s \in DOMAIN done :
         done[s] = "skipped" => \E i \in DOMAIN spent : Mistaken(spent[i], s)
  /\ plan.faults = 0 /\ plan.ignores = {} =>
       \A s \in DOMAIN done, f \in plan.lacks :
         Needing(f) \cap Suite[s].claims # {} => done[s] = "skipped"

(* Every spec that was chosen ends, unless a process did before.           *)
EverySpecEnds ==
  <>(plan.specs \subseteq DOMAIN done \/ \E s \in DOMAIN done : done[s] = "crashed")
===============================================================================
