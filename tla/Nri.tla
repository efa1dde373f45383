---------------------------------- MODULE Nri ----------------------------------
(***************************************************************************)
(* critest's NRI specs at work: the goroutine of the spec and those it     *)
(* starts call the runtime, the runtime tells its plugins, whose hooks may *)
(* hold a call or make it fail, and timers run.  The specs are Serial:     *)
(* they run in one process, one after the other.                           *)
(*                                                                         *)
(* A plan says what happens in a behaviour: the specs in their order, the  *)
(* promise the runtime breaks, what it does with events for a plugin that  *)
(* is synchronizing, whether anything is slow, and how many calls fail for *)
(* reasons of their own.                                                   *)
(***************************************************************************)
EXTENDS NriStub, NriScenarios, Functions

CONSTANTS Suite,  \* the specs by name
          Plans   \* the plans

VARIABLES
  plan,     \* the plan of this behaviour
  test,     \* the spec that runs: what is left of it and what it came to
  go,       \* the goroutines of the specs
  ret,      \* the call each goroutine waits for
  held,     \* the calls the runtime holds because of a hook
  stub,     \* the plugins by the spec and the variable they were started for
  w,        \* what the runtime keeps
  env,      \* the variables that are set
  created,  \* createdContainers
  done,     \* the verdicts of the specs that ended
  spent,    \* the faults so far: the spec, and whether it was cleaning up
  blamed    \* specs failed by a goroutine of another one

vars == <<plan, test, go, ret, held, stub, w, env, created, done, spent, blamed>>

Kids == {"run", "stop", "create", "during", "during2", "during3"}
Threads == {"it"} \cup Kids

NoSpec == [spec |-> "", context |-> "", todo |-> <<>>, units |-> <<>>,
           ids |-> {}, cleaning |-> FALSE, verdict |-> "passed"]

Init ==
  /\ plan \in Plans
  /\ test = NoSpec
  /\ go = [k \in Kids |-> [spec |-> "", todo |-> <<>>]]
  /\ ret = [t \in Threads |-> "none"]
  /\ held = {}
  /\ stub = <<>> /\ w = EmptyWorld /\ env = <<>>
  /\ created = {} /\ done = <<>> /\ spent = <<>> /\ blamed = {}

-------------------------------------------------------------------------------
Todo(t) == IF t = "it" THEN test.todo ELSE go[t].todo
Owner(t) == IF t = "it" THEN test.spec ELSE go[t].spec
Step(t) == Head(Todo(t))
At(t, what) == Todo(t) # <<>> /\ Step(t).do = what

NoId == <<"", "">>
New(t, x) == <<Owner(t), x>>
Bound(x)  == x \in DOMAIN env
Id(t, x)  == IF Bound(x) /\ Owner(t) = test.spec THEN env[x] ELSE New(t, x)
Key(x)    == <<test.spec, x>>
Stub(x)   == stub[Key(x)]

(* The spec goes on with its next step, or fails; a goroutine likewise.    *)
Goes(t) ==
  IF t = "it" THEN test' = [test EXCEPT !.todo = Tail(@)] /\ go' = go
  ELSE go' = [go EXCEPT ![t].todo = Tail(@)] /\ test' = test

Ends(verdict) ==
  test' = [test EXCEPT !.todo = <<>>,
                       !.verdict = IF @ = "passed" THEN verdict ELSE @]

(* GinkgoRecover: the failure of a goroutine is one of the spec that runs. *)
Dies(t) ==
  IF t = "it" THEN Ends("failed") /\ UNCHANGED <<go, blamed>>
  ELSE /\ go' = [go EXCEPT ![t].todo = <<>>]
       /\ test' = IF test.spec = "" THEN test ELSE [test EXCEPT !.verdict = "failed"]
       /\ blamed' = IF test.spec \in {"", go[t].spec} THEN blamed
                    ELSE blamed \cup {test.spec}

(* Who waits does not run out of time when everything is as it should be.  *)
MayTimeOut == plan.slow \/ plan.breaks # "none" \/ spent # <<>>

-------------------------------------------------------------------------------
(* The runtime.                                                            *)
Calls == {"RunPod", "StopPod", "RemovePod", "Create", "StartCtr", "StopCtr",
          "RemoveCtr", "Pull"}

Breaks(b) == plan.breaks = b

(* The types of the events it sends for what happens. *)
Sent(type) ==
  IF Breaks("out of order")
  THEN CASE type = "Create" -> "Start" [] type = "Start" -> "Create"
         [] type = "StopPod" -> "RemovePod" [] type = "RemovePod" -> "StopPod"
         [] OTHER -> type
  ELSE type

Event(type, id, pod) ==
  IF Breaks("no remove event") /\ type \in {"Remove", "RemovePod"} THEN <<>>
  ELSE <<[type |-> Sent(type), id |-> id, pod |-> pod]>>

(* One event for each of the containers. *)
ForEach(type, C) ==
  LET f[D \in SUBSET C] ==
        IF D = {} THEN <<>>
        ELSE LET c == CHOOSE d \in D : TRUE
             IN  Event(type, c, w.ctrs[c].pod) \o f[D \ {c}]
  IN  f[C]

In(pod, states) == {c \in DOMAIN w.ctrs : w.ctrs[c].pod = pod /\ w.ctrs[c].st \in states}

(* What a call on x, of pod y, tells the plugins. *)
Events(do, x, y) ==
  CASE do = "RunPod" -> Event("RunPod", x, x)
    [] do = "StopPod" ->
         ForEach("Stop", In(x, {"RUNNING"}))
           \o (IF \/ StateOf(w, x) = "READY"
                  \/ Breaks("stops twice") /\ StateOf(w, x) = "NOTREADY"
               THEN Event("StopPod", x, x) ELSE <<>>)
    [] do = "RemovePod" ->
         IF StateOf(w, x) \in {"GONE", "HOOK"} THEN <<>>
         ELSE ForEach("Remove", In(x, {"CREATED", "EXITED", "RUNNING"}))
                \o Event("RemovePod", x, x)
    [] do = "Create" -> Event("Create", x, y)
    [] do = "StartCtr" -> Event("Start", x, w.ctrs[x].pod)
    [] do = "StopCtr" ->
         IF StateOf(w, x) = "RUNNING" THEN Event("Stop", x, w.ctrs[x].pod) ELSE <<>>
    [] do = "RemoveCtr" ->
         IF StateOf(w, x) \in {"GONE", "HOOK"} THEN <<>>
         ELSE (IF Breaks("no exit event") THEN Event("Stop", x, w.ctrs[x].pod) ELSE <<>>)
                \o Event("Remove", x, w.ctrs[x].pod)
    [] OTHER -> <<>>

Allowed(do, x, y) ==
  CASE do = "Create" ->
         \/ CanCreate(w, y, "test image", {})
         \/ Breaks("creates early") /\ StateOf(w, y) = "HOOK"
         \/ Breaks("reuses") /\ StateOf(w, y) = "NOTREADY"
    [] do = "StartCtr" -> StateOf(w, x) = "CREATED"
    [] OTHER -> TRUE

(* The world while a hook holds the call, and when the call is through.    *)
Begun(do, x, y, o) ==
  CASE do = "RunPod" -> [RunPod(w, x, {}) EXCEPT !.pods[x].st = "HOOK"]
    [] do = "StopPod" /\ ~Breaks("stops late") ->
         [StopPod(w, x) EXCEPT !.pods[x].st = "READY"]
    [] do = "Create" -> [CreateCtr(w, x, y, o) EXCEPT !.ctrs[x].st = "HOOK"]
    [] OTHER -> w

Through(do, x, y, o) ==
  CASE do = "RunPod" -> IF x \in DOMAIN w.pods THEN [w EXCEPT !.pods[x].st = "READY"]
                        ELSE RunPod(w, x, {})
    [] do = "StopPod" -> IF StateOf(w, x) = "HOOK" THEN w ELSE StopPod(w, x)
    [] do = "RemovePod" -> IF StateOf(w, x) = "HOOK" THEN w ELSE RemovePod(w, x)
    [] do = "Create" ->
         IF x \in DOMAIN w.ctrs THEN [w EXCEPT !.ctrs[x].st = "CREATED"]
         ELSE IF y \in DOMAIN w.pods THEN CreateCtr(w, x, y, o) ELSE w
    [] do = "StartCtr" -> StartCtr(w, x)
    [] do = "StopCtr" -> StopCtr(w, x)
    [] do = "RemoveCtr" -> IF StateOf(w, x) = "HOOK" THEN w ELSE RemoveCtr(w, x)
    [] do = "Pull" -> PullImg(w, "test image")

(* Undone: a hook failed or the caller is gone. *)
Undone(do, x) ==
  CASE do = "RunPod" -> [w EXCEPT !.pods = Without(@, {x})]
    [] do = "Create" -> [w EXCEPT !.ctrs = Without(@, {x})]
    [] OTHER -> w

(* Every plugin that is connected is told; of one that is synchronizing    *)
(* the events wait, or the caller does, or they are lost.                  *)
Tell(es) ==
  [k \in DOMAIN stub |->
     IF Connected(stub[k]) THEN Recorded(stub[k], es)
     ELSE IF Syncing(stub[k]) /\ plan.runtime = "queues"
          THEN [stub[k] EXCEPT !.pending = @ \o es]
     ELSE stub[k]]

-------------------------------------------------------------------------------
(* A goroutine calls the runtime, which answers at once or holds the call. *)
Serve(t) ==
  LET s  == Step(t)
      x  == IF s.do \in {"RunPod", "Create"} THEN New(t, s.x) ELSE Id(t, s.x)
      y  == Id(t, s.y)
      es == Events(s.do, x, y)
      told     == Tell(es)
      hooking  == {k \in DOMAIN stub : Connected(stub[k])}
      blocking == {k \in hooking : \E i \in DOMAIN es : Blocks(stub[k], es[i].type)}
      failing  == {k \in hooking : \E i \in DOMAIN es : Fails(stub[k], es[i].type)}
  IN
  /\ Todo(t) # <<>> /\ s.do \in Calls /\ ret[t] = "none"
  /\ Allowed(s.do, x, y)
  /\ plan.runtime = "waits" /\ es # <<>> => \A k \in DOMAIN stub : ~Syncing(stub[k])
  /\ stub' = [k \in DOMAIN stub |->
                IF k \in blocking THEN Entered(told[k])
                ELSE IF k \in failing THEN [told[k] EXCEPT !.used = TRUE] ELSE told[k]]
  /\ IF blocking # {}
     THEN /\ ret' = [ret EXCEPT ![t] = "waiting"]
          /\ w' = Begun(s.do, x, y, Range(s.o))
          /\ held' = held \cup {[thread |-> t, do |-> s.do, x |-> x, y |-> y,
                                 o |-> Range(s.o), by |-> blocking]}
     ELSE /\ held' = held
          /\ IF failing # {} /\ ~Breaks("ignores errors")
             THEN /\ ret' = [ret EXCEPT ![t] = "error"]
                  /\ w' = IF Breaks("keeps failed") THEN Through(s.do, x, y, Range(s.o)) ELSE w
             ELSE /\ ret' = [ret EXCEPT ![t] = "ok"]
                  /\ w' = Through(s.do, x, y, Range(s.o))
  /\ UNCHANGED <<plan, test, go, env, created, done, spent, blamed>>

Refuse(t) ==
  /\ Todo(t) # <<>> /\ Step(t).do \in Calls /\ ret[t] = "none"
  /\ ~Allowed(Step(t).do, Id(t, Step(t).x), Id(t, Step(t).y))
  /\ ret' = [ret EXCEPT ![t] = "error"]
  /\ UNCHANGED <<plan, test, go, held, stub, w, env, created, done, spent, blamed>>

(* The hook has returned, or the plugin that held the call is gone.  A     *)
(* call nobody waits for any more may come to nothing.                     *)
Finish(h) ==
  /\ h \in held
  /\ \A k \in h.by : HookReturns(stub[k])
  /\ held' = held \ {h}
  /\ \/ w' = Through(h.do, h.x, h.y, h.o)
     \/ h.thread = "" /\ w' = Undone(h.do, h.x)
  /\ ret' = IF h.thread = "" THEN ret ELSE [ret EXCEPT ![h.thread] = "ok"]
  /\ UNCHANGED <<plan, test, go, stub, env, created, done, spent, blamed>>

(* A call fails, without an effect.                                        *)
Fault(t) ==
  /\ Todo(t) # <<>> /\ Step(t).do \in Calls /\ ret[t] = "none"
  /\ Len(spent) < plan.faults
  /\ spent' = Append(spent, [spec |-> test.spec, cleaning |-> test.cleaning])
  /\ ret' = [ret EXCEPT ![t] = "error"]
  /\ UNCHANGED <<plan, test, go, held, stub, w, env, created, done, blamed>>

(* Ginkgo cancels the context of the spec at the end of its It: the call   *)
(* of a goroutine it left behind fails, whatever the runtime makes of it.  *)
Abandon(t) ==
  /\ t # "it" /\ Todo(t) # <<>> /\ Step(t).do \in Calls
  /\ ret[t] \in {"none", "waiting"}
  /\ test.spec # go[t].spec \/ test.cleaning
  /\ held' = {IF h.thread = t THEN [h EXCEPT !.thread = ""] ELSE h : h \in held}
  /\ ret' = [ret EXCEPT ![t] = "error"]
  /\ UNCHANGED <<plan, test, go, stub, w, env, created, done, spent, blamed>>

(* The goroutine goes on with what the call returned.                      *)
Return(t) ==
  LET s == Step(t)
      x == IF s.do \in {"RunPod", "Create"} THEN s.x
           ELSE IF s.do = "StopPod" THEN s.y ELSE ""
      binds == x # "" /\ ret[t] = "ok" /\ Owner(t) = test.spec
  IN
  /\ ret[t] \in {"ok", "error"}
  /\ ret' = [ret EXCEPT ![t] = "none"]
  /\ IF s.want \in {"any", ret[t]}
     THEN /\ Goes(t) /\ blamed' = blamed
          /\ env' = IF binds THEN Updated(env, x, New(t, x)) ELSE env
     ELSE Dies(t) /\ env' = env
  /\ UNCHANGED <<plan, held, stub, w, created, done, spent>>

(* recordContainer, of the spec or of a goroutine.                         *)
Record(t) ==
  /\ At(t, "recordContainer")
  /\ created' = created \cup {New(t, Step(t).x)}
  /\ Goes(t)
  /\ UNCHANGED <<plan, ret, held, stub, w, env, done, spent, blamed>>

-------------------------------------------------------------------------------
(* Assertions.                                                             *)
Listed(x) == StateOf(w, x) # "GONE" /\ (StateOf(w, x) = "HOOK" => Breaks("listed early"))

AllExited(p) ==
  /\ StateOf(w, p) # "GONE"
  /\ In(p, {"CREATED", "RUNNING", "HOOK"}) = {} /\ In(p, {"EXITED"}) # {}

Holds(s) ==
  LET x == Id("it", s.x)
      p == Stub(s.y)
  IN CASE s.want = "count"  -> Len(p.events) >= Len(s.o)
       [] s.want = "seen"   -> \A i \in DOMAIN s.o : Place(p, s.o[i], x) # 0
       [] s.want = "ordered" ->
            /\ \A i \in DOMAIN s.o : Place(p, s.o[i], x) # 0
            /\ \A i, j \in DOMAIN s.o : i < j => Place(p, s.o[i], x) < Place(p, s.o[j], x)
       [] s.want = "once"   -> Count(p, s.o[1], x) = 1
       [] s.want = "never"  -> Count(p, s.o[1], x) = 0
       [] s.want = "told"   -> LastRunPodSandboxID(p, NoId) # NoId
       [] s.want = "synced" -> x \in p.synced
       [] s.want = "known"  -> pluginSeesContainer(p, x)
       [] s.want = "named"  -> ~Breaks("no name")
       [] s.want = "set"    -> Bound(s.x)
       [] s.want = "hidden" -> ~Listed(x)
       [] s.want = "gone"   -> StateOf(w, x) = "GONE"
       [] s.want = "ready"  -> StateOf(w, x) = "READY"
       [] s.want = "created" -> StateOf(w, x) = "CREATED"
       [] s.want = "exited" -> StateOf(w, x) = "EXITED"
       [] s.want = "all exited" -> AllExited(x)

Asserts ==
  /\ At("it", "Expect") \/ At("it", "Until") \/ At("it", "SkipUnless")
  /\ IF Holds(Step("it")) THEN Goes("it")
     ELSE /\ go' = go
          /\ \/ Step("it").do = "Expect" /\ Ends("failed")
             \/ Step("it").do = "Until" /\ MayTimeOut /\ Ends("failed")
             \/ Step("it").do = "SkipUnless" /\ Ends("skipped")
  /\ UNCHANGED <<plan, ret, held, stub, w, env, created, done, spent, blamed>>

-------------------------------------------------------------------------------
(* The plugins of the spec.                                                *)
Start ==
  /\ At("it", "Start")
  /\ stub' = Updated(stub, Key(Step("it").x), Connecting(Step("it").want))
  /\ Goes("it")
  /\ UNCHANGED <<plan, ret, held, w, env, created, done, spent, blamed>>

Started ==
  /\ At("it", "Started") /\ Stub(Step("it").x).start \in {"ready", "failed"}
  /\ IF Stub(Step("it").x).start = "ready"
     THEN Goes("it") /\ env' = Updated(env, Step("it").x, Key(Step("it").x))
     ELSE Ends("failed") /\ go' = go /\ env' = Without(env, {Step("it").x})
  /\ UNCHANGED <<plan, ret, held, stub, w, created, done, spent, blamed>>

(* The channels: hookReached or 30 s, in which StartNRITestStub has        *)
(* returned as well; then the hook is released before the spec fails.      *)
Wait ==
  /\ At("it", "Reached") /\ Stub(Step("it").x).reached
  /\ Goes("it")
  /\ UNCHANGED <<plan, ret, held, stub, w, env, created, done, spent, blamed>>

WaitTimesOut ==
  /\ At("it", "Reached") /\ ~Stub(Step("it").x).reached /\ MayTimeOut
  /\ Stub(Step("it").x).start \in {"ready", "failed"}
  /\ stub' = [stub EXCEPT ![Key(Step("it").x)].released = TRUE]
  /\ Ends("failed") /\ go' = go
  /\ UNCHANGED <<plan, ret, held, w, env, created, done, spent, blamed>>

Command ==
  LET s == Step("it")
      k == Key(s.x)
  IN
  /\ \/ At("it", "Hook") /\ stub' = [stub EXCEPT ![k].hook = s.want]
     \/ At("it", "Release") /\ stub' = [stub EXCEPT ![k].released = TRUE]
     \/ At("it", "Cancel") /\ stub' = [stub EXCEPT ![k] = Cancelled(@)]
     \/ /\ At("it", "Stopped") /\ (stub[k].run = "exited" \/ plan.slow)
        /\ stub' = stub
     \/ At("it", "Reset") /\ stub' = [stub EXCEPT ![k] = Reset(@)]
  /\ Goes("it")
  /\ UNCHANGED <<plan, ret, held, w, env, created, done, spent, blamed>>

-------------------------------------------------------------------------------
(* The variables and goroutines of the spec.                               *)
Bookkeeping ==
  LET s == Step("it")
  IN
  /\ \/ At("it", "Clear") /\ env' = Without(env, {s.x}) /\ created' = created
     \/ At("it", "Assign") /\ env' = Updated(env, s.y, env[s.x]) /\ created' = created
     \/ /\ At("it", "Fallback")
        /\ LET last == IF Bound("testStub") THEN LastRunPodSandboxID(Stub("testStub"), NoId)
                       ELSE NoId
               id   == IF Bound(s.x) THEN env[s.x] ELSE last
           IN  env' = IF id = NoId THEN Without(env, {s.y}) ELSE Updated(env, s.y, id)
        /\ created' = created
     \/ At("it", "Forget") /\ created' = {} /\ env' = env
  /\ Goes("it")
  /\ UNCHANGED <<plan, ret, held, stub, w, done, spent, blamed>>

\* Faulty variant: the goroutine says it is done before its last step.
JoinedEarly(g) == Len(go[g].todo) <= 1

(* Wait of the WaitGroup that a goroutine belongs to. *)
Joined(g) == go[g].todo = <<>>

Structure ==
  LET s == Step("it")
      rest == Tail(test.todo)
  IN
  /\ \/ At("it", "IfSet") /\ test' =
          [test EXCEPT !.todo = IF Bound(s.x) THEN s.then \o rest ELSE rest]
     \/ At("it", "Defer") /\ test' =
          [test EXCEPT !.todo = rest, !.units = <<s.then>> \o @]
     \/ At("it", "Skip") /\ Ends("skipped")
     \/ At("it", "Snapshot") /\ test' = [test EXCEPT !.todo = rest, !.ids = created]
     \/ At("it", "RemoveEach") /\ test.ids = {} /\ test' = [test EXCEPT !.todo = rest]
     \/ At("it", "Join") /\ Joined(s.y) /\ test' = [test EXCEPT !.todo = rest]
  /\ UNCHANGED <<plan, go, ret, held, stub, w, env, created, done, spent, blamed>>

RemoveNext ==
  /\ At("it", "RemoveEach") /\ test.ids # {}
  /\ LET id == CHOOSE i \in test.ids : TRUE
     IN  /\ env' = Updated(env, "each", id)
         /\ test' = [test EXCEPT !.ids = @ \ {id},
                                 !.todo = Try("StopCtr", "each", "")
                                            \o Try("RemoveCtr", "each", "") \o @]
  /\ UNCHANGED <<plan, go, ret, held, stub, w, created, done, spent, blamed>>

Spawn ==
  /\ At("it", "Go")
  /\ go' = [go EXCEPT ![Step("it").y] = [spec |-> test.spec, todo |-> Step("it").then]]
  /\ test' = [test EXCEPT !.todo = Tail(@)]
  /\ UNCHANGED <<plan, ret, held, stub, w, env, created, done, spent, blamed>>

(* Ginkgo takes the next spec.  The variables of a context keep their      *)
(* values from spec to spec of it.                                         *)
ContextVariables == {"podID", "containerID", "testStub"}

Take ==
  /\ test.spec = "" /\ Cardinality(DOMAIN done) < Len(plan.order)
  /\ LET s == plan.order[Cardinality(DOMAIN done) + 1]
         old == IF done = <<>> THEN "" ELSE
                  Suite[plan.order[Cardinality(DOMAIN done)]].context
     IN  /\ test' = [NoSpec EXCEPT !.spec = s, !.context = Suite[s].context,
                                   !.todo = Suite[s].body, !.units = <<Suite[s].after>>]
         /\ env' = IF old = Suite[s].context
                   THEN Without(env, DOMAIN env \ ContextVariables) ELSE <<>>
  /\ UNCHANGED <<plan, go, ret, held, stub, w, created, done, spent, blamed>>

NextUnit ==
  /\ test.spec # "" /\ test.todo = <<>> /\ ret["it"] = "none" /\ test.units # <<>>
  /\ test' = [test EXCEPT !.todo = Head(test.units), !.units = Tail(@),
                          !.cleaning = Len(test.units) = 1]
  /\ UNCHANGED <<plan, go, ret, held, stub, w, env, created, done, spent, blamed>>

End ==
  /\ test.spec # "" /\ test.todo = <<>> /\ test.units = <<>>
  /\ done' = Updated(done, test.spec, test.verdict)
  /\ test' = NoSpec
  /\ UNCHANGED <<plan, go, ret, held, stub, w, env, created, spent, blamed>>

-------------------------------------------------------------------------------
(* What goes on around a plugin: the runtime and the goroutine of Run.     *)
Becomes(k, s) == /\ stub' = [stub EXCEPT ![k] = s]
                 /\ UNCHANGED <<plan, test, go, ret, held, w, env, created, done,
                                spent, blamed>>

Existing == {x \in DOMAIN w.pods \cup DOMAIN w.ctrs : StateOf(w, x) # "HOOK"}

Synchronize(k) ==
  /\ stub[k].run = "connecting" /\ stub[k].conn /\ ~Breaks("never syncs")
  /\ Becomes(k, Synchronized(stub[k], IF Breaks("sync empty") THEN {} ELSE Existing))

Plugin(k) ==
  \/ Synchronize(k)
  \/ CanServe(stub[k]) /\ Becomes(k, Serving(stub[k]))
  \/ CanDisconnect(stub[k]) /\ Becomes(k, Disconnected(stub[k]))
  \/ /\ CanEnd(stub[k]) /\ \A h \in held : k \notin h.by
     /\ Becomes(k, Ended(stub[k]))
  \/ stub[k].start \in {"waiting", "stopping"} /\ CanReturn(stub[k])
       /\ Becomes(k, StartReturns(stub[k]))

(* The 10 s and 5 s of StartNRITestStub, the 30 s of its last goroutine.   *)
Timer(k) ==
  /\ plan.slow \/ Breaks("never syncs")
  /\ \/ stub[k].start = "waiting" /\ stub[k].run \in {"connecting", "syncing"}
          /\ Becomes(k, GivesUp(stub[k]))
     \/ stub[k].start = "stopping" /\ stub[k].run # "exited"
          /\ Becomes(k, ForceClosed(stub[k]))
     \/ stub[k].reaper = "waiting" /\ Becomes(k, Reaped(stub[k]))

(* A container whose command ends.                                         *)
Exits(c) ==
  /\ w.ctrs[c].st = "RUNNING" /\ "ends" \in w.ctrs[c].o
  /\ w' = StopCtr(w, c)
  /\ stub' = Tell(IF Breaks("no exit event") THEN <<>> ELSE Event("Stop", c, w.ctrs[c].pod))
  /\ UNCHANGED <<plan, test, go, ret, held, env, created, done, spent, blamed>>

SpecStep ==
  \/ Asserts \/ Start \/ Started \/ Wait \/ WaitTimesOut \/ Command
  \/ Bookkeeping \/ Structure \/ RemoveNext \/ Spawn \/ Take \/ NextUnit \/ End

Call(t) == Serve(t) \/ Refuse(t) \/ Abandon(t) \/ Return(t) \/ Record(t)

Next ==
  \/ SpecStep
  \/ \E t \in Threads : Call(t) \/ Fault(t)
  \/ \E h \in held : Finish(h)
  \/ \E k \in DOMAIN stub : Plugin(k) \/ Timer(k)
  \/ \E c \in DOMAIN w.ctrs : Exits(c)

Runtime == \/ \E h \in held : Finish(h)
           \/ \E c \in DOMAIN w.ctrs : Exits(c)
Plugins == \E k \in DOMAIN stub : Plugin(k)
Timers  == \E k \in DOMAIN stub : Timer(k)

(* The scheduler runs the goroutines, the runtime answers, plugins that    *)
(* can do something do it and timers expire; nothing is assumed of faults. *)
Spec == /\ Init /\ [][Next]_vars
        /\ WF_vars(SpecStep) /\ \A t \in Threads : WF_vars(Call(t))
        /\ WF_vars(Runtime) /\ WF_vars(Plugins) /\ WF_vars(Timers)

-------------------------------------------------------------------------------
(* No false alarm: with a runtime that keeps its promises, whether it lets *)
(* events or calls wait for a plugin that is synchronizing, and nothing    *)
(* slow or failing, every spec passes, in spite of what others have left.  *)
NoFalseAlarm ==
  plan.breaks = "none" /\ ~plan.slow /\ plan.faults = 0 /\ plan.runtime # "loses"
    => \A s \in DOMAIN done : done[s] = "passed"

(* A spec that passes has seen the runtime keep the promise that its title *)
(* states: not with a runtime that breaks it, whatever the interleaving.   *)
PassMeansPromiseKept ==
  \A s \in DOMAIN done : done[s] = "passed" => plan.breaks \notin Suite[s].claims

(* No container is lost: when the body of a spec with a second plugin ends *)
(* and it has not failed nor been skipped, that plugin has learnt of every *)
(* container, those made while it was synchronizing too.                   *)
NoContainerLost ==
  [][test.verdict = "passed" /\ test.todo = <<>> /\ Len(test.units) = 2
       /\ Len(test'.units) = 1
       => \A c \in DOMAIN w.ctrs : pluginSeesContainer(Stub("secondStub"), c)]_vars

(* No pod is left behind by a spec that ended, unless its cleaning up      *)
(* failed.  A spec that fails while its RunPodSandbox is held does not     *)
(* wait for the call, and the pod may come after it was removed; one that  *)
(* fails after another of its context takes the id of that one's pod.      *)
CleanupFailed == \E i \in DOMAIN spent : spent[i].cleaning

After(s) == \E i, j \in DOMAIN plan.order :
  /\ i < j /\ plan.order[j] = s
  /\ Suite[plan.order[i]].context = Suite[s].context

MayLeave(s) == {"runPodID"} \cup (IF After(s) THEN {"failedPodID"} ELSE {})

NoPodLeftBehind ==
  \A s \in DOMAIN done : \A p \in DOMAIN w.pods :
    p[1] = s => \/ CleanupFailed
                \/ done[s] = "failed" /\ p[2] \in MayLeave(s)

(* A spec is not failed by a goroutine that another one has left behind,   *)
(* unless that one's plugin took too long to become ready.                 *)
FailuresAreOwn == plan.slow \/ blamed = {}

(* Every spec that was chosen ends, whatever is slow, fails or is broken.  *)
EverySpecEnds == <>(test.spec = "" /\ Cardinality(DOMAIN done) = Len(plan.order))

(* A call of the runtime that a hook holds is let go, whether the spec     *)
(* releases it or fails before; and in the end no plugin is connected,     *)
(* those included that StartNRITestStub gave up.                           *)
RuntimeLetGo ==
  /\ [](held # {} => <>(held = {}))
  /\ <>[](\A k \in DOMAIN stub : ~stub[k].conn)
===============================================================================
