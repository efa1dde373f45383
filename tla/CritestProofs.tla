----------------------------- MODULE CritestProofs -----------------------------
(***************************************************************************)
(* Proofs about critest, for every suite, plan, number of processes and of *)
(* faults.  The module ends with PassMeansConforming and                   *)
(* SkippedMeansMissing.  The inductive invariant of the first is Passing:  *)
(*                                                                         *)
(*   Grounds   Types, Turns (who runs when), Owned (whose things a process *)
(*             knows of) and SoundWorld (what is in the runtime);          *)
(*   Course    where in its body a spec is;                                *)
(*   Laid      what it has prepared so far stands, though the processes    *)
(*             share one runtime;                                          *)
(*   Told      its steps behind it have not looked at what is ignored, nor *)
(*             asked for a feature that is lacking, unless some other      *)
(*             error was taken for the one that a step wants;              *)
(*   Believed  nor have those of any spec that has passed;                 *)
(*                                                                         *)
(* and that of the second is Passing and Skipping:                         *)
(*                                                                         *)
(*   Phased    the containers a spec has prepared are in the state that    *)
(*             its steps so far have brought them to, with their options;  *)
(*   Tidy      what a process cleans up is what the suite says;            *)
(*   Remembered  a status all specs of a process share is unknown only     *)
(*             when it could not be had;                                   *)
(*   Graceful  a spec without its feature has not come to a step that      *)
(*             fails, in its body or in cleaning up;                       *)
(*   Meant     with a runtime that lacks nothing no spec is skipped        *)
(*             without a fault that reads as a missing feature.            *)
(*                                                                         *)
(* Neither property is inductive: they speak of specs that have ended, and *)
(* what makes them honest is what their steps saw on the way.  Of the      *)
(* suite nothing is used but the assumptions of CritestClaims.             *)
(***************************************************************************)
EXTENDS CritestClaims, SequenceTheorems, TLAPS

(* The types of what a process holds.                                      *)
AllSteps == UNION {Steps(s) : s \in DOMAIN Suite}

Verdicts == {"passed", "skipped", "failed", "crashed"}

Contexts == {Suite[s].in.name : s \in DOMAIN Suite} \cup {""}

NodeType ==
  [spec : DOMAIN Suite \cup {""}, context : Contexts, todo : Seq(AllSteps), units : Seq(Seq(AllSteps)),
   cleaning : BOOLEAN, verdict : Verdicts]

NodesOK ==
  /\ plan \in Plans
  /\ node \in [plan.nodes -> NodeType]
  /\ DOMAIN env = plan.nodes

(* A process that is idle has nothing to do; one with a spec does what the *)
(* suite says of it.                                                       *)
Vocabulary == \A n \in plan.nodes :
  /\ ~Busy(n) => node[n].todo = <<>>
  /\ Busy(n) => /\ node[n].spec \in plan.specs
                /\ node[n].todo \in Seq(Steps(node[n].spec))
                /\ node[n].units \in Seq(Seq(Steps(node[n].spec)))

(* The runtime keeps of a pod and of a container what CriRuntime says.     *)
Shaped(u) ==
  /\ DOMAIN u = {"pods", "ctrs", "images", "host", "erased"}
  /\ \A p \in DOMAIN u.pods : DOMAIN u.pods[p] = {"st", "o"}
  /\ \A c \in DOMAIN u.ctrs : DOMAIN u.ctrs[c] = {"pod", "st", "o", "wrote"}

(* No two processes have one spec, and none runs again.                    *)
Apart == \A n \in plan.nodes : Busy(n) =>
  /\ node[n].spec \notin DOMAIN done
  /\ \A m \in plan.nodes : node[m].spec = node[n].spec => m = n

(* A Serial spec runs alone, when nothing but Serial ones is left.         *)
SerialAlone == \A n \in plan.nodes : Busy(n) /\ Suite[node[n].spec].in.serial =>
  \A m \in plan.nodes : Busy(m) => m = n

SerialLast == \A n \in plan.nodes : Busy(n) /\ Suite[node[n].spec].in.serial =>
  \A s \in Left : Suite[s].in.serial

(* What a process knows of are its own things, or those of specs that have *)
(* ended.                                                                  *)
Owned == \A n \in plan.nodes : \A v \in DOMAIN env[n] :
  env[n][v][1] \in DOMAIN done \cup {"", node[n].spec}

(* The pods have the names that the suite gives them.                      *)
WellNamed(u) == \A p \in DOMAIN u.pods : p[2] \in PodNames(p[1])

(* Nothing has an option that comes to nothing with this runtime.          *)
Faithful(u) ==
  /\ \A p \in DOMAIN u.pods : u.pods[p].o \cap Absent = {}
  /\ \A c \in DOMAIN u.ctrs : u.ctrs[c].o \cap Absent = {}

Sound(u) == Shaped(u) /\ WellNamed(u) /\ Faithful(u)

-------------------------------------------------------------------------------
(* Where a process is in the body of its spec, as long as all went well.   *)
InBody(n) == Busy(n) /\ node[n].verdict = "passed" /\ ~node[n].cleaning

Place(n) == Len(Suite[node[n].spec].body) - Len(node[n].todo)

(* What a process has still to do is the end of the body of its spec: a    *)
(* body has no conditional steps.                                          *)
Course == \A n \in plan.nodes : InBody(n) =>
  /\ Len(node[n].todo) <= Len(Suite[node[n].spec].body)
  /\ \A i \in 1..Len(node[n].todo) :
       node[n].todo[i] = Suite[node[n].spec].body[Place(n) + i]

(* What a step that prepares has left, at place j of the body of spec s:   *)
(* e holds the variables of the process, u is the world.                   *)
Standing(s, j, context, e, u) ==
  LET t == Suite[s].body[j]
      x == <<s, t.x>>
      Bound == <<context, t.x>> \in DOMAIN e /\ e[<<context, t.x>>] = x
      Sure == x \in DOMAIN u.ctrs /\ u.ctrs[x].pod[1] = s /\ "ends" \notin u.ctrs[x].o
  IN  /\ t.do = "RunPod" => Bound /\ x \in DOMAIN u.pods /\ u.pods[x].st = "READY"
      /\ t.do \in {"Ensure", "Pull"} => t.y \in u.images
      /\ t.do \in Making => Bound /\ Sure
      /\ t.do = "Eventually" /\ t.y = "RUNNING" /\ Creates(s, j - 1, t.x) =>
           Bound /\ Sure /\ x \notin DOMAIN u.pods /\ u.ctrs[x].st = "RUNNING"

(* For a process and a place in the body of its spec.                      *)
Stands(n, j) == Standing(node[n].spec, j, node[n].context, env[n], w)

(* As long as a spec only prepares, all that it has prepared still stands: *)
(* this is why the later step that expects a refusal, or a running         *)
(* container, can tell a runtime that ignores an option from one that      *)
(* conforms.                                                               *)
Laid == \A n \in plan.nodes : InBody(n) /\ Prepares(node[n].spec, Place(n)) =>
  \A j \in 1..Place(n) : Stands(n, j)

(* The step cannot have succeeded with this runtime.                       *)
Refuted(p, s, i) ==
  \/ \E o \in p.ignores : Attests(s, i, o)
  \/ \E f \in p.lacks : Declines(s, i, f)

(* The steps behind a spec that has passed so far did not look at anything *)
(* that the runtime ignores, nor ask for a feature that it lacks, unless   *)
(* some other error was taken for the one that a step wants.               *)
Behind(n) == IF node[n].cleaning THEN Len(Suite[node[n].spec].body) ELSE Place(n)

Told == \A n \in plan.nodes :
  Busy(n) /\ node[n].verdict = "passed" /\ ~Misled(node[n].spec) =>
    \A i \in 1..Behind(n) : ~Refuted(plan, node[n].spec, i)

(* Nor did any step of a spec that has ended and passed.                   *)
Believed == \A s \in DOMAIN done :
  /\ s \in plan.specs
  /\ done[s] = "passed" /\ ~Misled(s) =>
       \A i \in DOMAIN Suite[s].body : ~Refuted(plan, s, i)

-------------------------------------------------------------------------------
(* Types. *)

(* Type correctness: the processes, and the steps that they may come to.   *)
Types == NodesOK /\ Vocabulary

(* The steps of a spec are among those of the suite.                       *)
LEMMA StepsTyped ==
  ASSUME NEW s \in DOMAIN Suite
  PROVE  /\ Steps(s) \subseteq AllSteps /\ s # "" /\ Suite[s].in.name \in Contexts
         /\ Suite[s].in.serial \in BOOLEAN
         /\ Suite[s].body \in Seq(Steps(s)) /\ Suite[s].in.after \in Seq(Seq(Steps(s)))
         /\ \A t \in Steps(s) : t.then \in Seq(Steps(s))
  BY SuiteAssumption DEF AllSteps, Contexts

(* What the plans promise, of the plan of the behaviour.                   *)
LEMMA Chosen ==
  ASSUME NodesOK
  PROVE  /\ plan.specs \subseteq DOMAIN Suite
         /\ \A f \in plan.lacks : plan.ignores \cap Needing(f) = {}
  BY PlansAssumption DEF NodesOK

(* The step in hand is one of the spec's. *)
LEMMA InHand ==
  ASSUME Types, NEW n \in plan.nodes, node[n].todo # <<>>
  PROVE  /\ Busy(n) /\ node[n].spec \in DOMAIN Suite
         /\ node[n].todo \in Seq(Steps(node[n].spec))
         /\ node[n].units \in Seq(Seq(Steps(node[n].spec)))
         /\ Step(n) \in Steps(node[n].spec)
         /\ Step(n).then \in Seq(Steps(node[n].spec))
         /\ Tail(node[n].todo) \in Seq(Steps(node[n].spec))
         /\ Steps(node[n].spec) \subseteq AllSteps
<1>1. /\ Busy(n) /\ node[n].spec \in plan.specs
      /\ node[n].todo \in Seq(Steps(node[n].spec))
      /\ node[n].units \in Seq(Seq(Steps(node[n].spec)))
  BY DEF Types, Vocabulary
<1>2. node[n].spec \in DOMAIN Suite
  BY <1>1, Chosen DEF Types
<1>3. Step(n) \in Steps(node[n].spec) /\ Tail(node[n].todo) \in Seq(Steps(node[n].spec))
  BY <1>1, HeadTailProperties DEF Step
<1> QED
  BY <1>1, <1>2, <1>3, StepsTyped

(* What a step that does not take a spec makes of a process. *)
Going(n) ==
  /\ node' \in [plan.nodes -> NodeType]
  /\ \A m \in plan.nodes : m # n => node'[m] = node[m]
  /\ \/ /\ node'[n].spec = node[n].spec /\ node'[n].context = node[n].context
        /\ node'[n].todo \in Seq(Steps(node[n].spec))
        /\ node'[n].units \in Seq(Seq(Steps(node[n].spec)))
     \/ node'[n].spec = "" /\ node'[n].todo = <<>>

(* Sequences are sequences over more, too.                                 *)
LEMMA SeqsGrow ==
  ASSUME NEW S, NEW T, S \subseteq T
  PROVE  Seq(S) \subseteq Seq(T) /\ Seq(Seq(S)) \subseteq Seq(Seq(T))
<1>1. Seq(S) \subseteq Seq(T)
  BY SeqMonotonic
<1> QED
  BY <1>1, SeqMonotonic

LEMMA StepsGrow ==
  ASSUME NEW s \in DOMAIN Suite
  PROVE  /\ Seq(Steps(s)) \subseteq Seq(AllSteps)
         /\ Seq(Seq(Steps(s))) \subseteq Seq(Seq(AllSteps))
<1>1. Steps(s) \subseteq AllSteps
  BY StepsTyped
<1> QED
  BY <1>1, SeqsGrow

(* A process whose record is another one of its type has gone on.          *)
LEMMA Retyped ==
  ASSUME NEW r \in NodeType, NEW a \in Seq(AllSteps), NEW b \in Seq(Seq(AllSteps)),
         NEW c \in BOOLEAN, NEW v \in Verdicts
  PROVE  [r EXCEPT !.todo = a, !.units = b, !.cleaning = c, !.verdict = v] \in NodeType
  BY DEF NodeType

LEMMA GoesOn ==
  ASSUME Types, NEW n \in plan.nodes, NEW r \in NodeType, node' = [node EXCEPT ![n] = r],
         r.spec = node[n].spec, r.context = node[n].context,
         r.todo \in Seq(Steps(node[n].spec)), r.units \in Seq(Seq(Steps(node[n].spec)))
  PROVE  Going(n) /\ node'[n] = r
<1>1. node \in [plan.nodes -> NodeType]
  BY DEF Types, NodesOK
<1>2. /\ node' \in [plan.nodes -> NodeType] /\ node'[n] = r
      /\ \A m \in plan.nodes : m # n => node'[m] = node[m]
  BY <1>1
<1> QED
  BY <1>2 DEF Going

(* Its steps, the units behind them, and how far it is may be others.      *)
LEMMA Rewrites ==
  ASSUME Types, NEW n \in plan.nodes, Busy(n),
         NEW a \in Seq(AllSteps), a \in Seq(Steps(node[n].spec)),
         NEW b \in Seq(Seq(AllSteps)), b \in Seq(Seq(Steps(node[n].spec))),
         NEW c \in BOOLEAN, NEW v \in Verdicts,
         node' = [node EXCEPT ![n] = [@ EXCEPT !.todo = a, !.units = b, !.cleaning = c,
                                               !.verdict = v]]
  PROVE  Going(n) /\ node'[n].cleaning = c /\ node'[n].verdict = v
<1> DEFINE r == [node[n] EXCEPT !.todo = a, !.units = b, !.cleaning = c, !.verdict = v]
<1>1. node[n] \in NodeType
  BY DEF Types, NodesOK
<1>2. r \in NodeType
  BY <1>1, Retyped
<1>3. /\ r.spec = node[n].spec /\ r.context = node[n].context /\ r.todo = a /\ r.units = b
      /\ r.cleaning = c /\ r.verdict = v
  BY <1>1 DEF NodeType
<1>4. node' = [node EXCEPT ![n] = r]
  OBVIOUS
<1> HIDE DEF r
<1> QED
  BY <1>2, <1>3, <1>4, GoesOn

(* What a step leaves alone keeps its type.                                *)
LEMMA FieldsTyped ==
  ASSUME Types, NEW n \in plan.nodes
  PROVE  /\ node \in [plan.nodes -> NodeType] /\ node[n] \in NodeType
         /\ node[n].todo \in Seq(AllSteps) /\ node[n].units \in Seq(Seq(AllSteps))
         /\ node[n].cleaning \in BOOLEAN /\ node[n].verdict \in Verdicts
  BY DEF Types, NodesOK, NodeType

(* One lemma for each kind of step of a process: it goes on.               *)
LEMMA PerformGoes ==
  ASSUME Types, NEW n \in plan.nodes, Perform(n)
  PROVE  Going(n) /\ Busy(n)
<1>1. node[n].todo # <<>>
  BY DEF Perform
<1> DEFINE s == node[n].spec
<1>0. /\ Step(n).then \in Seq(Steps(s)) /\ Tail(node[n].todo) \in Seq(Steps(s))
      /\ node[n].units \in Seq(Seq(Steps(s)))
  BY <1>1, InHand
<1>2. Rest(n) \in Seq(Steps(s))
  BY <1>0, ConcatProperties DEF Rest
<1>3. Units(n) \in Seq(Seq(Steps(s)))
  <2>1. <<Step(n).then>> \in Seq(Seq(Steps(s)))
    BY <1>0
  <2> QED
    BY <1>0, <2>1, ConcatProperties DEF Units
<1>4. Rest(n) \in Seq(AllSteps) /\ Units(n) \in Seq(Seq(AllSteps))
  BY <1>1, <1>2, <1>3, InHand, SeqsGrow
<1>5. node' = [node EXCEPT ![n].todo = Rest(n), ![n].units = Units(n)]
  BY DEF Perform
<1>6. node' = [node EXCEPT ![n] = [@ EXCEPT !.todo = Rest(n), !.units = Units(n),
                      !.cleaning = node[n].cleaning, !.verdict = node[n].verdict]]
  BY <1>5, FieldsTyped DEF NodeType
<1>7. Busy(n)
  BY <1>1, InHand
<1> QED
  BY <1>2, <1>3, <1>4, <1>6, <1>7, FieldsTyped, Rewrites

LEMMA StopsGoes ==
  ASSUME Types, NEW n \in plan.nodes, node[n].todo # <<>>,
         NEW v \in {"skipped", "failed"}, Stops(n, v)
  PROVE  /\ Going(n) /\ Busy(n) /\ node'[n].verdict # "passed"
         /\ node'[n].spec = node[n].spec
<1> DEFINE e == IF node[n].verdict = "failed" \/ v = "failed" THEN "failed" ELSE v
           a == <<>>
           r == [node[n] EXCEPT !.todo = a, !.units = node[n].units,
                                !.cleaning = node[n].cleaning, !.verdict = e]
<1>1. node[n] \in NodeType
  BY FieldsTyped
<1>2. e \in Verdicts /\ e # "passed"
  BY DEF Verdicts
<1>3. a \in Seq(AllSteps) /\ a \in Seq(Steps(node[n].spec))
  BY EmptySeq
<1>4. Busy(n) /\ node[n].units \in Seq(Seq(Steps(node[n].spec)))
  BY InHand
<1>5. node' = [node EXCEPT ![n] = r]
  BY <1>1, FieldsTyped DEF Stops, NodeType
<1> HIDE DEF a, e
<1>6. r \in NodeType
  BY <1>1, <1>2, <1>3, FieldsTyped, Retyped
<1>7. /\ r.spec = node[n].spec /\ r.context = node[n].context
      /\ r.todo = a /\ r.units = node[n].units /\ r.verdict = e
  BY <1>1 DEF NodeType
<1> HIDE DEF r
<1>8. Going(n) /\ node'[n] = r
  BY <1>3, <1>4, <1>5, <1>6, <1>7, GoesOn
<1> QED
  BY <1>2, <1>4, <1>7, <1>8

LEMMA IdleTyped == Idle \in NodeType /\ [Idle EXCEPT !.verdict = "crashed"] \in NodeType
<1>1. /\ <<>> \in Seq(AllSteps) /\ <<>> \in Seq(Seq(AllSteps))
      /\ "" \in Contexts /\ "passed" \in Verdicts /\ "crashed" \in Verdicts
  BY EmptySeq DEF Contexts, Verdicts
<1>2. ASSUME NEW e \in Seq(AllSteps), NEW f \in Seq(Seq(AllSteps)), NEW v \in Verdicts
      PROVE  [spec |-> "", context |-> "", todo |-> e, units |-> f,
              cleaning |-> FALSE, verdict |-> v] \in NodeType
  BY <1>1 DEF NodeType
<1>3. Idle \in NodeType
  BY <1>1, <1>2, Zenon DEF Idle
<1> QED
  BY <1>1, <1>3 DEF NodeType

LEMMA NextUnitGoes ==
  ASSUME Types, NEW n \in plan.nodes, NextUnit(n)
  PROVE  Going(n) /\ node'[n].cleaning
<1> DEFINE s == node[n].spec
           u == node[n].units
<1>1. Busy(n) /\ u # <<>> /\ u \in Seq(Seq(Steps(s)))
  BY DEF NextUnit, Types, Vocabulary
<1>2. Head(u) \in Seq(Steps(s)) /\ Tail(u) \in Seq(Seq(Steps(s)))
  BY <1>1, HeadTailProperties
<1>3. s \in DOMAIN Suite
  BY <1>1, Chosen DEF Types, Vocabulary
<1>4. Head(u) \in Seq(AllSteps) /\ Tail(u) \in Seq(Seq(AllSteps))
  BY <1>2, <1>3, StepsGrow
<1>5. node' = [node EXCEPT ![n].todo = Head(u), ![n].units = Tail(@), ![n].cleaning = TRUE]
  BY DEF NextUnit
<1> HIDE DEF s
<1>6. node' = [node EXCEPT ![n] = [@ EXCEPT !.todo = Head(u), !.units = Tail(u),
                      !.cleaning = TRUE, !.verdict = node[n].verdict]]
  BY <1>5, FieldsTyped DEF NodeType
<1> HIDE DEF u
<1>7. Head(u) \in Seq(Steps(node[n].spec)) /\ Tail(u) \in Seq(Seq(Steps(node[n].spec)))
  BY <1>2 DEF s
<1> QED
  BY <1>1, <1>4, <1>6, <1>7, FieldsTyped, Rewrites

LEMMA FaultGoes ==
  ASSUME Types, NEW n \in plan.nodes, Fault(n)
  PROVE  /\ Going(n) /\ Busy(n) /\ DOMAIN env' = DOMAIN env
         /\ \/ node'[n].verdict # "passed"
            \/ Step(n).do \in Wanting \cup {"Discard"} /\ env' = env
                 /\ node' = [node EXCEPT ![n].todo = Tail(@)]
         /\ \A m \in plan.nodes : m # n => env'[m] = env[m]
<1>1. node[n].todo # <<>>
  BY DEF Fault
<1>2. DOMAIN env = plan.nodes
  BY DEF Types, NodesOK
<1>3. DOMAIN env' = DOMAIN env /\ \A m \in plan.nodes : m # n => env'[m] = env[m]
  BY <1>2 DEF Fault
<1>4. CASE Step(n).do \in Wanting \cup {"Discard"} /\ node' = [node EXCEPT ![n].todo = Tail(@)]
  <2>1. node' = [node EXCEPT ![n].todo = Tail(@)] /\ env' = env
    BY <1>4 DEF Fault, Wanting, Refusals
  <2>2. Tail(node[n].todo) \in Seq(AllSteps)
    BY <1>1, InHand, SeqsGrow
  <2>3. node' = [node EXCEPT ![n] = [@ EXCEPT !.todo = Tail(node[n].todo),
                        !.units = node[n].units, !.cleaning = node[n].cleaning,
                        !.verdict = node[n].verdict]]
    BY <2>1, FieldsTyped DEF NodeType
  <2>4. /\ Busy(n) /\ Tail(node[n].todo) \in Seq(Steps(node[n].spec))
        /\ node[n].units \in Seq(Seq(Steps(node[n].spec)))
    BY <1>1, InHand
  <2>5. Going(n)
    BY <2>2, <2>3, <2>4, FieldsTyped, Rewrites
  <2> QED
    BY <1>3, <1>4, <2>1, <2>4, <2>5
<1>5. CASE \E v \in {"skipped", "failed"} : Stops(n, v)
  BY <1>1, <1>3, <1>5, StopsGoes
<1> QED
  BY <1>4, <1>5 DEF Fault

LEMMA EndGoes ==
  ASSUME Types, NEW n \in plan.nodes,
         End(n) \/ \E k \in Removers : RemoverPanics(n, k)
  PROVE  Going(n) /\ node'[n].spec = ""
<1>1. node' = [node EXCEPT ![n] = Idle] \/ node' = [node EXCEPT ![n] = [Idle EXCEPT !.verdict = "crashed"]]
  BY DEF End, RemoverPanics
<1>2. node \in [plan.nodes -> NodeType]
  BY DEF Types, NodesOK
<1>3. Idle.spec = "" /\ Idle.todo = <<>>
      /\ [Idle EXCEPT !.verdict = "crashed"].spec = ""
      /\ [Idle EXCEPT !.verdict = "crashed"].todo = <<>>
  BY DEF Idle
<1> HIDE DEF Idle
<1> QED
  BY <1>1, <1>2, <1>3, IdleTyped DEF Going

(* A spec is taken that nobody has and that has not run.                   *)
LEMMA TakeTyped ==
  ASSUME Types, NEW n \in plan.nodes, NEW s \in Left, Take(n, s)
  PROVE  /\ s \in DOMAIN Suite /\ s \in plan.specs /\ s # "" /\ s \notin DOMAIN done
         /\ \A m \in plan.nodes : node[m].spec # s
         /\ node' \in [plan.nodes -> NodeType]
         /\ \A m \in plan.nodes : m # n => node'[m] = node[m]
         /\ node'[n].spec = s /\ node'[n].context = Suite[s].in.name
         /\ node'[n].todo = Suite[s].body /\ node'[n].units = Suite[s].in.after
         /\ node'[n].cleaning = FALSE /\ node'[n].verdict = "passed"
<1>1. s \in plan.specs /\ s \notin DOMAIN done /\ \A m \in plan.nodes : node[m].spec # s
  BY DEF Left
<1>2. s \in DOMAIN Suite
  BY <1>1, Chosen DEF Types
<1>3. Suite[s].body \in Seq(AllSteps) /\ Suite[s].in.after \in Seq(Seq(AllSteps))
  BY <1>2, StepsTyped, StepsGrow
<1> DEFINE e == [Idle EXCEPT !.spec = s, !.context = Suite[s].in.name,
                             !.todo = Suite[s].body, !.units = Suite[s].in.after]
<1>4. e \in NodeType
  BY <1>2, <1>3, StepsTyped, IdleTyped DEF NodeType
<1>5. /\ e.spec = s /\ e.context = Suite[s].in.name /\ e.todo = Suite[s].body
      /\ e.units = Suite[s].in.after /\ e.cleaning = FALSE /\ e.verdict = "passed"
  BY DEF Idle
<1>6. node' = [node EXCEPT ![n] = e]
  BY DEF Take
<1>7. node \in [plan.nodes -> NodeType]
  BY DEF Types, NodesOK
<1> HIDE DEF e
<1> QED
  BY <1>1, <1>2, <1>4, <1>5, <1>6, <1>7, StepsTyped

(* The steps of the suite by what they do to a process and its variables. *)
Works(n) ==
  Perform(n) \/ SkipSpec(n) \/ Fail(n) \/ Accept(n) \/ Fault(n) \/ NextUnit(n)

(* The steps with which a process is done with its spec.                   *)
Leaves(n) == End(n) \/ \E k \in Removers : RemoverPanics(n, k)

(* The steps of goroutines and containers.                                 *)
Aside == (\E n \in plan.nodes, k \in Removers : Remover(n, k))
           \/ \E c \in DOMAIN w.ctrs : Writes(c) \/ Exits(c)

(* The next-state relation by these four kinds.                            *)
LEMMA NextCases ==
  ASSUME Next
  PROVE  \/ \E n \in plan.nodes : \E s \in Left : Take(n, s)
         \/ \E n \in plan.nodes : Works(n)
         \/ \E n \in plan.nodes : Leaves(n)
         \/ Aside
  BY DEF Next, Process, Works, Leaves, Aside

(* What they do to the processes and their variables.                      *)
LEMMA WorksGoes ==
  ASSUME Types, NEW n \in plan.nodes, Works(n)
  PROVE  /\ Going(n) /\ Busy(n) /\ UNCHANGED <<plan, done>>
         /\ node'[n].spec = node[n].spec
         /\ DOMAIN env' = DOMAIN env
         /\ \A m \in plan.nodes : m # n => env'[m] = env[m]
<1>0. DOMAIN env = plan.nodes
  BY DEF Types, NodesOK
<1>1. CASE Perform(n)
  <2>1. env' = [env EXCEPT ![n] = Binds(n)] /\ UNCHANGED <<plan, done>>
        /\ node' = [node EXCEPT ![n].todo = Rest(n), ![n].units = Units(n)]
    BY <1>1 DEF Perform
  <2>2. node'[n].spec = node[n].spec
    BY <2>1 DEF Types, NodesOK, NodeType
  <2> QED
    BY <1>0, <1>1, <2>1, <2>2, PerformGoes
<1>2. CASE SkipSpec(n) \/ Fail(n) \/ Accept(n)
  <2>1. /\ node[n].todo # <<>> /\ \E v \in {"skipped", "failed"} : Stops(n, v)
        /\ UNCHANGED <<plan, env, done>>
    BY <1>2 DEF SkipSpec, Fail, Accept, Refusals
  <2>2. Going(n) /\ Busy(n) /\ node'[n].spec = node[n].spec
    BY <2>1, StopsGoes
  <2> QED
    BY <1>0, <2>1, <2>2
<1>3. CASE Fault(n)
  <2>1. UNCHANGED <<plan, done>>
    BY <1>3 DEF Fault
  <2>2. node'[n].spec = node[n].spec
    <3>1. \/ node' = [node EXCEPT ![n].todo = Tail(@)]
          \/ \E v : Stops(n, v)
      BY <1>3 DEF Fault
    <3>0. node \in [plan.nodes -> NodeType] /\ "spec" \in DOMAIN node[n]
      BY FieldsTyped DEF NodeType
    <3>2. CASE node' = [node EXCEPT ![n].todo = Tail(@)]
      BY <3>0, <3>2
    <3>3. CASE \E v : Stops(n, v)
      <4>1. PICK e : node' = [node EXCEPT ![n].todo = <<>>, ![n].verdict = e]
        BY <3>0, <3>3 DEF Stops, NodeType
      <4> QED
        BY <3>0, <4>1
    <3> QED
      BY <3>1, <3>2, <3>3
  <2> QED
    BY <1>3, <2>1, <2>2, FaultGoes
<1>4. CASE NextUnit(n)
  <2>1. Busy(n) /\ UNCHANGED <<plan, env, done>>
    BY <1>4 DEF NextUnit
  <2>2. node'[n].spec = node[n].spec
    BY <1>4 DEF NextUnit, Types, NodesOK, NodeType
  <2> QED
    BY <1>0, <1>4, <2>1, <2>2, NextUnitGoes
<1> QED
  BY <1>1, <1>2, <1>3, <1>4 DEF Works

LEMMA AsideKeeps ==
  ASSUME Aside
  PROVE  UNCHANGED <<plan, node, env, done>>
  BY DEF Aside, Remover, Writes, Exits

LEMMA LeavesKeeps ==
  ASSUME Types, NEW n \in plan.nodes, Leaves(n)
  PROVE  /\ Going(n) /\ UNCHANGED <<plan, env, w>> /\ node'[n].spec = "" /\ Busy(n)
         /\ \E v : done' = Updated(done, node[n].spec, v)
<1>1. UNCHANGED <<plan, env, w>> /\ \E v : done' = Updated(done, node[n].spec, v)
  BY DEF Leaves, End, RemoverPanics
<1>2. Going(n) /\ node'[n].spec = ""
  BY EndGoes DEF Leaves
<1>3. Busy(n)
  BY DEF Leaves, End, RemoverPanics, Busy
<1> QED
  BY <1>1, <1>2, <1>3

(* Types is inductive.                                                     *)
LEMMA TypesStep ==
  ASSUME Types, [Next]_vars
  PROVE  Types'
<1>1. CASE \E n \in plan.nodes : \E s \in Left : Take(n, s)
  <2> PICK n \in plan.nodes, s \in Left : Take(n, s)
    BY <1>1
  <2>1. UNCHANGED <<plan, env>>
    BY DEF Take
  <2>2. NodesOK'
    BY <2>1, TakeTyped DEF Types, NodesOK
  <2>3. Suite[s].body \in Seq(Steps(s)) /\ Suite[s].in.after \in Seq(Seq(Steps(s)))
    BY TakeTyped, StepsTyped
  <2>4. Vocabulary'
    <3> SUFFICES ASSUME NEW m \in plan.nodes
                 PROVE  /\ ~Busy(m)' => node'[m].todo = <<>>
                        /\ Busy(m)' => /\ node'[m].spec \in plan.specs
                                       /\ node'[m].todo \in Seq(Steps(node'[m].spec))
                                       /\ node'[m].units \in Seq(Seq(Steps(node'[m].spec)))
      BY <2>1 DEF Vocabulary
    <3>1. CASE m # n
      <4>1. node'[m] = node[m]
        BY <3>1, TakeTyped
      <4>2. /\ ~Busy(m) => node[m].todo = <<>>
            /\ Busy(m) => /\ node[m].spec \in plan.specs
                          /\ node[m].todo \in Seq(Steps(node[m].spec))
                          /\ node[m].units \in Seq(Seq(Steps(node[m].spec)))
        BY DEF Types, Vocabulary
      <4> QED
        BY <4>1, <4>2 DEF Busy
    <3>2. CASE m = n
      <4>0. node'[n].spec = s /\ node'[n].todo = Suite[s].body /\ node'[n].units = Suite[s].in.after
        BY TakeTyped, Zenon
      <4>1. node'[m].spec = s /\ node'[m].todo = Suite[s].body /\ node'[m].units = Suite[s].in.after
        BY <3>2, <4>0
      <4>2. s \in plan.specs /\ s # ""
        BY TakeTyped, StepsTyped DEF Left
      <4> QED
        BY <2>3, <4>1, <4>2 DEF Busy
    <3> QED
      BY <3>1, <3>2
  <2> QED
    BY <2>2, <2>4 DEF Types
<1>2. ASSUME NEW n \in plan.nodes, Going(n), UNCHANGED plan, DOMAIN env' = DOMAIN env, Busy(n)
      PROVE  Types'
  <2>1. NodesOK'
    BY <1>2 DEF Types, NodesOK, Going
  <2>2. Vocabulary'
    <3> SUFFICES ASSUME NEW m \in plan.nodes
                 PROVE  /\ ~Busy(m)' => node'[m].todo = <<>>
                        /\ Busy(m)' => /\ node'[m].spec \in plan.specs
                                       /\ node'[m].todo \in Seq(Steps(node'[m].spec))
                                       /\ node'[m].units \in Seq(Seq(Steps(node'[m].spec)))
      BY <1>2 DEF Vocabulary
    <3>1. CASE m # n
      BY <1>2, <3>1 DEF Types, Vocabulary, Going, Busy
    <3>2. CASE m = n
      BY <1>2, <3>2 DEF Types, Vocabulary, Going, Busy
    <3> QED
      BY <3>1, <3>2
  <2> QED
    BY <2>1, <2>2 DEF Types
<1>3. CASE \E n \in plan.nodes : Works(n)
  BY <1>2, <1>3, WorksGoes
<1>4. CASE \E n \in plan.nodes : Leaves(n)
  BY <1>2, <1>4, LeavesKeeps
<1>5. CASE Aside \/ UNCHANGED vars
  <2>1. UNCHANGED <<plan, node, env>>
    BY <1>5, AsideKeeps DEF vars
  <2> QED
    BY <2>1 DEF Types, NodesOK, Vocabulary, Busy
<1> QED
  BY <1>1, <1>3, <1>4, <1>5, NextCases

LEMMA TypesInit ==
  ASSUME Init
  PROVE  Types
<1>1. Idle.spec = "" /\ Idle.todo = <<>>
  BY DEF Idle
<1> HIDE DEF Idle
<1>2. NodesOK
  BY IdleTyped DEF Init, NodesOK
<1>3. Vocabulary
  BY <1>1 DEF Init, Vocabulary, Busy
<1> QED
  BY <1>2, <1>3 DEF Types

(* For every suite, every plan and any number of processes: a process has  *)
(* a spec that was chosen, or none and then nothing to do; its steps are   *)
(* steps of that spec, in its body and its cleaning up.                    *)
THEOREM SuiteTypes == Spec => []Types
  BY TypesInit, TypesStep, PTL DEF Spec


-------------------------------------------------------------------------------
(* Which specs run at once. *)

(* How the processes take turns.                                           *)
Turns == Apart /\ SerialAlone /\ SerialLast

(* A function with one more, or one other, value.                          *)
LEMMA UpdatedIs ==
  ASSUME NEW f, NEW x, NEW v
  PROVE  /\ DOMAIN Updated(f, x, v) = DOMAIN f \cup {x}
         /\ Updated(f, x, v)[x] = v
         /\ \A y \in DOMAIN f : y # x => Updated(f, x, v)[y] = f[y]
  BY DEF Updated

(* The specs of the processes, and those that are done, after a step. *)
LEMMA SpecsStep ==
  ASSUME Types, [Next]_vars
  PROVE  /\ plan' = plan
         /\ \/ \E n \in plan.nodes, s \in Left :
                 /\ Take(n, s) /\ node'[n].spec = s /\ done' = done /\ ~Busy(n)
                 /\ \A m \in plan.nodes : m # n => node'[m] = node[m]
            \/ /\ \A m \in plan.nodes : node'[m].spec = node[m].spec
               /\ done' = done
            \/ \E n \in plan.nodes :
                 /\ node'[n].spec = "" /\ Busy(n)
                 /\ \E v : done' = Updated(done, node[n].spec, v)
                 /\ \A m \in plan.nodes : m # n => node'[m] = node[m]
<1>1. CASE \E n \in plan.nodes : \E s \in Left : Take(n, s)
  <2> PICK n \in plan.nodes, s \in Left : Take(n, s)
    BY <1>1
  <2>1. UNCHANGED <<plan, done>> /\ ~Busy(n)
    BY DEF Take
  <2>2. node'[n].spec = s /\ \A m \in plan.nodes : m # n => node'[m] = node[m]
    BY TakeTyped
  <2>3. \E k \in plan.nodes, t \in Left :
          /\ Take(k, t) /\ node'[k].spec = t /\ done' = done /\ ~Busy(k)
          /\ \A m \in plan.nodes : m # k => node'[m] = node[m]
    BY <2>1, <2>2, Zenon
  <2> QED
    BY <2>1, <2>3, Zenon
<1>2. CASE \E n \in plan.nodes : Works(n)
  BY <1>2, WorksGoes DEF Going
<1>3. CASE \E n \in plan.nodes : Leaves(n)
  BY <1>3, LeavesKeeps DEF Going
<1>4. CASE Aside \/ UNCHANGED vars
  BY <1>4, AsideKeeps DEF vars
<1> QED
  BY <1>1, <1>2, <1>3, <1>4, NextCases

(* The specs that are left only get fewer.                                 *)
LEMMA LeftShrinks ==
  ASSUME Types, [Next]_vars
  PROVE  Left' \subseteq Left
<1>1. plan' = plan
  BY SpecsStep
<1>2. CASE \E n \in plan.nodes, s \in Left :
             /\ node'[n].spec = s /\ done' = done /\ ~Busy(n)
             /\ \A m \in plan.nodes : m # n => node'[m] = node[m]
  <2> PICK n \in plan.nodes, s \in Left :
             /\ node'[n].spec = s /\ done' = done /\ ~Busy(n)
             /\ \A m \in plan.nodes : m # n => node'[m] = node[m]
    BY <1>2
  <2>1. \A t \in plan.specs : t # ""
    BY Chosen, StepsTyped DEF Types
  <2> SUFFICES ASSUME NEW t \in Left'
               PROVE  t \in Left
    OBVIOUS
  <2>2. /\ t \in plan.specs /\ t \notin DOMAIN done
        /\ \A m \in plan.nodes : node'[m].spec # t
    BY <1>1 DEF Left
  <2>3. ASSUME NEW m \in plan.nodes
        PROVE  node[m].spec # t
    <3>1. CASE m = n
      BY <2>1, <2>2, <3>1 DEF Busy
    <3>2. CASE m # n
      BY <2>2, <3>2
    <3> QED
      BY <3>1, <3>2
  <2> QED
    BY <2>2, <2>3 DEF Left
<1>3. CASE /\ \A m \in plan.nodes : node'[m].spec = node[m].spec
           /\ done' = done
  BY <1>1, <1>3 DEF Left
<1>4. CASE \E n \in plan.nodes :
             /\ \E v : done' = Updated(done, node[n].spec, v)
             /\ \A m \in plan.nodes : m # n => node'[m] = node[m]
  <2> PICK n \in plan.nodes : /\ \E v : done' = Updated(done, node[n].spec, v)
                              /\ \A m \in plan.nodes : m # n => node'[m] = node[m]
    BY <1>4
  <2>1. DOMAIN done' = DOMAIN done \cup {node[n].spec}
    BY DEF Updated
  <2> QED
    BY <1>1, <2>1 DEF Left
<1> QED
  BY <1>2, <1>3, <1>4, SpecsStep

(* A spec is taken when nobody has it, and ends for good.                  *)
LEMMA ApartStep ==
  ASSUME Types, Apart, [Next]_vars
  PROVE  Apart'
<1>1. plan' = plan
  BY SpecsStep
<1>2. CASE \E n \in plan.nodes, s \in Left :
             /\ node'[n].spec = s /\ done' = done
             /\ \A m \in plan.nodes : m # n => node'[m] = node[m]
  <2> PICK n \in plan.nodes, s \in Left :
             /\ node'[n].spec = s /\ done' = done
             /\ \A m \in plan.nodes : m # n => node'[m] = node[m]
    BY <1>2
  <2>1. s \notin DOMAIN done /\ \A m \in plan.nodes : node[m].spec # s
    BY DEF Left
  <2>2. \A m \in plan.nodes : Busy(m)' /\ m # n => Busy(m) /\ node'[m].spec = node[m].spec
    BY DEF Busy
  <2> SUFFICES ASSUME NEW j \in plan.nodes, Busy(j)'
               PROVE  /\ node'[j].spec \notin DOMAIN done
                      /\ \A m \in plan.nodes : node'[m].spec = node'[j].spec => m = j
    BY <1>1 DEF Apart
  <2>3. CASE j = n
    BY <2>1, <2>3
  <2>4. CASE j # n
    <3>1. Busy(j) /\ node'[j].spec = node[j].spec
      BY <2>2, <2>4
    <3>2. /\ node[j].spec \notin DOMAIN done
          /\ \A m \in plan.nodes : node[m].spec = node[j].spec => m = j
      BY <3>1 DEF Apart
    <3> QED
      BY <2>1, <3>1, <3>2
  <2> QED
    BY <2>3, <2>4
<1>3. CASE /\ \A m \in plan.nodes : node'[m].spec = node[m].spec
           /\ done' = done
  BY <1>1, <1>3 DEF Apart, Busy
<1>4. CASE \E n \in plan.nodes :
             /\ node'[n].spec = "" /\ Busy(n)
             /\ \E v : done' = Updated(done, node[n].spec, v)
             /\ \A m \in plan.nodes : m # n => node'[m] = node[m]
  <2> PICK n \in plan.nodes :
             /\ node'[n].spec = "" /\ Busy(n)
             /\ \E v : done' = Updated(done, node[n].spec, v)
             /\ \A m \in plan.nodes : m # n => node'[m] = node[m]
    BY <1>4
  <2>1. DOMAIN done' = DOMAIN done \cup {node[n].spec}
    BY DEF Updated
  <2> SUFFICES ASSUME NEW j \in plan.nodes, node'[j].spec # ""
               PROVE  /\ node'[j].spec \notin DOMAIN done'
                      /\ \A m \in plan.nodes : node'[m].spec = node'[j].spec => m = j
    BY <1>1 DEF Apart, Busy
  <2>2. j # n /\ node'[j] = node[j] /\ node[j].spec # ""
    OBVIOUS
  <2>3. /\ node[j].spec \notin DOMAIN done
        /\ \A m \in plan.nodes : node[m].spec = node[j].spec => m = j
    BY <2>2 DEF Apart, Busy
  <2>4. node'[j].spec \notin DOMAIN done'
    BY <2>1, <2>2, <2>3
  <2>5. ASSUME NEW m \in plan.nodes, node'[m].spec = node'[j].spec
        PROVE  m = j
    <3>1. m # n
      BY <2>2, <2>5
    <3> QED
      BY <2>2, <2>3, <2>5, <3>1
  <2> QED
    BY <2>4, <2>5
<1> QED
  BY <1>2, <1>3, <1>4, SpecsStep

(* A Serial spec waits for the others, and no other starts before it ends, *)
(* since only Serial ones are left for the first process.                  *)
LEMMA SerialStep ==
  ASSUME Types, SerialAlone, SerialLast, [Next]_vars
  PROVE  SerialAlone' /\ SerialLast'
<1>1. plan' = plan /\ Left' \subseteq Left
  BY SpecsStep, LeftShrinks
<1>2. CASE \E n \in plan.nodes, s \in Left :
             /\ Take(n, s) /\ node'[n].spec = s /\ ~Busy(n)
             /\ \A m \in plan.nodes : m # n => node'[m] = node[m]
  <2> PICK n \in plan.nodes, s \in Left :
             /\ Take(n, s) /\ node'[n].spec = s /\ ~Busy(n)
             /\ \A m \in plan.nodes : m # n => node'[m] = node[m]
    BY <1>2
  <2>1. Suite[s].in.serial => /\ \A m \in plan.nodes : ~Busy(m)
                              /\ \A t \in Left : Suite[t].in.serial
    BY DEF Take
  <2>2. SerialAlone'
    <3> SUFFICES ASSUME NEW m1 \in plan.nodes, node'[m1].spec # "",
                        Suite[node'[m1].spec].in.serial,
                        NEW m2 \in plan.nodes, node'[m2].spec # ""
                 PROVE  m2 = m1
      BY <1>1 DEF SerialAlone, Busy
    <3>1. CASE m1 = n
      BY <2>1, <3>1 DEF Busy
    <3>2. CASE m1 # n
      <4>1. node[m1].spec # "" /\ Suite[node[m1].spec].in.serial
        BY <3>2
      <4>2. Suite[s].in.serial
        BY <4>1 DEF SerialLast, Busy
      <4> QED
        BY <2>1, <4>1, <4>2 DEF Busy
    <3> QED
      BY <3>1, <3>2
  <2>3. SerialLast'
    <3> SUFFICES ASSUME NEW m1 \in plan.nodes, node'[m1].spec # "",
                        Suite[node'[m1].spec].in.serial, NEW t \in Left
                 PROVE  Suite[t].in.serial
      BY <1>1 DEF SerialLast, Busy
    <3>1. CASE m1 = n
      BY <2>1, <3>1
    <3>2. CASE m1 # n
      BY <3>2 DEF SerialLast, Busy
    <3> QED
      BY <3>1, <3>2
  <2> QED
    BY <2>2, <2>3
<1>3. CASE \A m \in plan.nodes : node'[m].spec \in {"", node[m].spec}
  BY <1>1, <1>3 DEF SerialAlone, SerialLast, Busy
<1>4. CASE \E n \in plan.nodes :
             /\ node'[n].spec = ""
             /\ \A m \in plan.nodes : m # n => node'[m] = node[m]
  BY <1>3, <1>4
<1>5. \/ \E n \in plan.nodes, s \in Left :
           /\ Take(n, s) /\ node'[n].spec = s /\ ~Busy(n)
           /\ \A m \in plan.nodes : m # n => node'[m] = node[m]
      \/ \A m \in plan.nodes : node'[m].spec = node[m].spec
      \/ \E n \in plan.nodes :
           /\ node'[n].spec = ""
           /\ \A m \in plan.nodes : m # n => node'[m] = node[m]
  BY SpecsStep, Zenon
<1> QED
  BY <1>2, <1>3, <1>4, <1>5

LEMMA TurnsInit ==
  ASSUME Init
  PROVE  Turns
<1>1. \A n \in plan.nodes : ~Busy(n)
  BY DEF Init, Busy, Idle
<1> QED
  BY <1>1 DEF Turns, Apart, SerialAlone, SerialLast

(* No spec runs twice or in two processes; a Serial one (ginkgo.Serial)    *)
(* runs alone, after all that are not. The specs that remove the images of *)
(* others rely on it.                                                      *)
THEOREM TurnsCorrect == Spec => []Turns
<1>1. Types /\ Turns /\ [Next]_vars => Turns'
  BY ApartStep, SerialStep DEF Turns
<1> QED
  BY <1>1, TurnsInit, SuiteTypes, PTL DEF Spec


-------------------------------------------------------------------------------
(* Whose things a process knows of. *)

(* A step assigns what it has made, or the value of another variable.      *)
LEMMA BindsIs ==
  ASSUME NEW n
  PROVE  \/ Binds(n) = env[n]
         \/ \E x : Binds(n) = Updated(env[n], Var(n, x), New(n, x))
         \/ /\ Step(n).do = "Assign"
            /\ Binds(n) = Updated(env[n], Var(n, Step(n).y), Val(n, Step(n).x))
         \/ \E y : Binds(n) = Without(env[n], {Var(n, y)})
<1>1. CASE Step(n).do \in {"RunPod", "Create", "CreateOrSkip", "Make", "NewUUID"}
  <2>1. Binds(n) = Updated(env[n], Var(n, Step(n).x), New(n, Step(n).x))
    BY <1>1 DEF Binds
  <2> QED
    BY <2>1
<1>2. CASE Step(n).do = "ExecMount"
  <2>1. Binds(n) = Updated(env[n], Var(n, Step(n).y), New(n, Step(n).y))
    BY <1>2 DEF Binds
  <2> QED
    BY <2>1
<1>3. CASE Step(n).do = "Assign"
  <2>1. Binds(n) = Updated(env[n], Var(n, Step(n).y), Val(n, Step(n).x))
    BY <1>3 DEF Binds
  <2> QED
    BY <1>3, <2>1
<1>4. CASE Step(n).do = "Clear"
  <2>1. Binds(n) = Without(env[n], {Var(n, Step(n).y)})
    BY <1>4 DEF Binds
  <2> QED
    BY <2>1
<1>5. CASE Step(n).do = "Once" /\ Var(n, Step(n).x) \notin DOMAIN env[n]
  <2>1. Binds(n) = Updated(env[n], Var(n, Step(n).x), New(n, Step(n).x))
    BY <1>5 DEF Binds
  <2> QED
    BY <2>1
<1>6. CASE /\ Step(n).do \notin {"RunPod", "Create", "CreateOrSkip", "Make", "NewUUID",
                                 "ExecMount", "Assign", "Clear"}
           /\ ~(Step(n).do = "Once" /\ Var(n, Step(n).x) \notin DOMAIN env[n])
  BY <1>6 DEF Binds
<1> QED
  BY <1>1, <1>2, <1>3, <1>4, <1>5, <1>6

(* The first components of the values of a function are in T. *)
Within(f, T) == \A v \in DOMAIN f : f[v][1] \in T

LEMMA WithinUpdated ==
  ASSUME NEW f, NEW x, NEW v, NEW T, Within(f, T), v[1] \in T
  PROVE  Within(Updated(f, x, v), T)
  BY DEF Within, Updated

LEMMA WithinLess ==
  ASSUME NEW f, NEW S, NEW T, Within(f, T)
  PROVE  Within(Without(f, S), T)
  BY DEF Within, Without

LEMMA ValWithin ==
  ASSUME NEW n, NEW x, NEW T, Within(env[n], T), "" \in T
  PROVE  Val(n, x)[1] \in T
  BY DEF Within, Val, NoId

LEMMA NewOwn ==
  ASSUME NEW n, NEW x
  PROVE  New(n, x)[1] = node[n].spec /\ New(n, x)[2] = x
  BY DEF New

LEMMA BindsWithin ==
  ASSUME NEW n, NEW T, Within(env[n], T), "" \in T, node[n].spec \in T
  PROVE  Within(Binds(n), T)
<1>0. \A x : New(n, x)[1] \in T
  BY NewOwn
<1>1. CASE \E x : Binds(n) = Updated(env[n], Var(n, x), New(n, x))
  <2> PICK x : Binds(n) = Updated(env[n], Var(n, x), New(n, x))
    BY <1>1
  <2> QED
    BY <1>0, WithinUpdated
<1>2. CASE Binds(n) = Updated(env[n], Var(n, Step(n).y), Val(n, Step(n).x))
  BY <1>2, ValWithin, WithinUpdated
<1>3. CASE \E y : Binds(n) = Without(env[n], {Var(n, y)})
  BY <1>3, WithinLess
<1> QED
  BY <1>1, <1>2, <1>3, BindsIs

(* A process keeps to its own things, though its variables outlive specs.  *)
LEMMA OwnedStep ==
  ASSUME Types, Owned, [Next]_vars
  PROVE  Owned'
<1> DEFINE Known(n) == DOMAIN done \cup {"", node[n].spec}
<1>1. plan' = plan /\ \A n \in plan.nodes : Within(env[n], Known(n))
  BY SpecsStep DEF Owned, Within
<1>2. SUFFICES ASSUME NEW m \in plan.nodes
               PROVE  Within(env'[m], DOMAIN done' \cup {"", node'[m].spec})
  BY <1>1 DEF Owned, Within
<1>3. CASE \E n \in plan.nodes : Works(n)
  <2> PICK n \in plan.nodes : Works(n)
    BY <1>3
  <2>1. /\ done' = done /\ node'[m].spec = node[m].spec
        /\ DOMAIN env' = DOMAIN env /\ DOMAIN env = plan.nodes
        /\ m # n => env'[m] = env[m]
    BY WorksGoes DEF Going, Types, NodesOK
  <2>2. CASE m # n
    BY <1>1, <2>1, <2>2
  <2>3. CASE m = n
    <3> DEFINE T == Known(n)
    <3>0. "" \in T /\ node[n].spec \in T /\ Within(env[n], T)
      BY <1>1
    <3>4. T = DOMAIN done' \cup {"", node'[m].spec}
      BY <2>1, <2>3
    <3> HIDE DEF T
    <3>1. CASE Perform(n)
      <4>1. env'[n] = Binds(n)
        BY <2>1, <3>1 DEF Perform
      <4>2. Within(Binds(n), T)
        BY <3>0, BindsWithin
      <4> QED
        BY <2>3, <3>4, <4>1, <4>2
    <3>2. CASE Fault(n)
      <4>1. env'[n] = env[n] \/ env'[n] = Updated(env[n], Var(n, Step(n).x), NoId)
        BY <2>1, <3>2 DEF Fault
      <4>2. NoId[1] \in T
        BY <3>0 DEF NoId
      <4>3. Within(Updated(env[n], Var(n, Step(n).x), NoId), T)
        BY <3>0, <4>2, WithinUpdated
      <4> QED
        BY <2>3, <3>0, <3>4, <4>1, <4>3
    <3>3. CASE SkipSpec(n) \/ Fail(n) \/ Accept(n) \/ NextUnit(n)
      <4>1. env' = env
        BY <3>3 DEF SkipSpec, Fail, Accept, NextUnit
      <4> QED
        BY <1>1, <2>1, <4>1
    <3> QED
      BY <3>1, <3>2, <3>3 DEF Works
  <2> QED
    BY <2>2, <2>3
<1>4. CASE \E n \in plan.nodes : Leaves(n)
  <2> PICK n \in plan.nodes : Leaves(n)
    BY <1>4
  <2>1. env' = env /\ \E v : done' = Updated(done, node[n].spec, v)
    BY LeavesKeeps
  <2>2. DOMAIN done' = DOMAIN done \cup {node[n].spec}
    BY <2>1 DEF Updated
  <2>3. m # n => node'[m] = node[m]
    BY LeavesKeeps DEF Going
  <2> QED
    BY <1>1, <2>1, <2>2, <2>3 DEF Within
<1>5. CASE \E n \in plan.nodes : \E s \in Left : Take(n, s)
  <2> PICK n \in plan.nodes, s \in Left : Take(n, s)
    BY <1>5
  <2>1. UNCHANGED <<env, done>> /\ node[n].spec = ""
    BY DEF Take, Busy
  <2>0. \A k \in plan.nodes : k # n => node'[k] = node[k]
    BY TakeTyped, Zenon
  <2>2. m # n => node'[m] = node[m]
    BY <2>0
  <2> QED
    BY <1>1, <2>1, <2>2 DEF Within
<1>6. CASE Aside \/ UNCHANGED vars
  <2>1. UNCHANGED <<node, env, done>>
    BY <1>6, AsideKeeps DEF vars
  <2> QED
    BY <1>1, <2>1
<1> QED
  BY <1>3, <1>4, <1>5, <1>6, NextCases

LEMMA OwnedInit ==
  ASSUME Init
  PROVE  Owned
<1>1. \A n \in plan.nodes : env[n] = <<>>
  BY DEF Init
<1>2. \A f : f = <<>> => DOMAIN f = {}
  OBVIOUS
<1> QED
  BY <1>1, <1>2 DEF Owned


-------------------------------------------------------------------------------
(* What the steps do to the runtime. *)

(* The pods of spec r, and its containers in them, are left alone. *)
Keeps(u, v, r) ==
  /\ \A p : p[1] = r => /\ p \in DOMAIN u.pods <=> p \in DOMAIN v.pods
                        /\ p \in DOMAIN u.pods => v.pods[p] = u.pods[p]
  /\ \A c \in DOMAIN u.ctrs : c[1] = r /\ u.ctrs[c].pod[1] = r =>
       c \in DOMAIN v.ctrs /\ v.ctrs[c] = u.ctrs[c]

(* A step of spec s, whose process knows of the things of K. *)
Minds(u, v, s, K) ==
  /\ Sound(v)
  /\ \A r \in DOMAIN Suite \ K : Keeps(u, v, r)
  /\ ~Suite[s].in.serial => u.images \cap Fetched \subseteq v.images

(* One lemma for each operation of the runtime: asked for by spec s about  *)
(* something of the specs K, it minds the rest.                            *)
LEMMA HostMinds ==
  ASSUME NEW u, Sound(u), NEW v, NEW s, NEW K, DOMAIN v = DOMAIN u,
         v.pods = u.pods, v.ctrs = u.ctrs, v.images = u.images
  PROVE  Minds(u, v, s, K)
  BY DEF Minds, Sound, Shaped, WellNamed, Faithful, Keeps

LEMMA RunPodMinds ==
  ASSUME NEW u, Sound(u), NEW s, NEW K, s \in K, NEW x \in PodNames(s), NEW o
  PROVE  Minds(u, RunPod(u, <<s, x>>, Effect(o)), s, K)
<1> DEFINE p == <<s, x>>
           e == [st |-> "READY", o |-> Effect(o)]
           v == RunPod(u, p, Effect(o))
<1>1. /\ DOMAIN v = DOMAIN u /\ v.pods = Updated(u.pods, p, e)
      /\ v.ctrs = u.ctrs /\ v.images = u.images
  BY DEF RunPod, Sound, Shaped
<1>3. DOMAIN e = {"st", "o"} /\ e.o \cap Absent = {}
  BY DEF Effect
<1>4. p[1] = s /\ p[2] = x
  OBVIOUS
<1> HIDE DEF p, e, v
<1>2. /\ DOMAIN v.pods = DOMAIN u.pods \cup {p} /\ v.pods[p] = e
      /\ \A q \in DOMAIN u.pods : q # p => v.pods[q] = u.pods[q]
  BY <1>1 DEF Updated
<1>5. Sound(v)
  BY <1>1, <1>2, <1>3, <1>4 DEF Sound, Shaped, WellNamed, Faithful
<1>6. \A r \in DOMAIN Suite \ K : Keeps(u, v, r)
  BY <1>1, <1>2, <1>4 DEF Keeps
<1> QED
  BY <1>1, <1>5, <1>6 DEF Minds, v, p

LEMMA CreateMinds ==
  ASSUME NEW u, Sound(u), NEW s, NEW K, s \in K, NEW x, NEW p, NEW o
  PROVE  Minds(u, CreateCtr(u, <<s, x>>, p, Effect(o)), s, K)
<1> DEFINE c == <<s, x>>
           e == [pod |-> p, st |-> "CREATED", o |-> Effect(o), wrote |-> FALSE]
           v == CreateCtr(u, c, p, Effect(o))
<1>1. /\ DOMAIN v = DOMAIN u /\ v.ctrs = Updated(u.ctrs, c, e)
      /\ v.pods = u.pods /\ v.images = u.images
  BY DEF CreateCtr, Sound, Shaped
<1>3. DOMAIN e = {"pod", "st", "o", "wrote"} /\ e.o \cap Absent = {}
  BY DEF Effect
<1>4. c[1] = s
  OBVIOUS
<1> HIDE DEF c, e, v
<1>2. /\ DOMAIN v.ctrs = DOMAIN u.ctrs \cup {c} /\ v.ctrs[c] = e
      /\ \A q \in DOMAIN u.ctrs : q # c => v.ctrs[q] = u.ctrs[q]
  BY <1>1 DEF Updated
<1>5. Sound(v)
  BY <1>1, <1>2, <1>3 DEF Sound, Shaped, WellNamed, Faithful
<1>6. \A r \in DOMAIN Suite \ K : Keeps(u, v, r)
  BY <1>1, <1>2, <1>4 DEF Keeps
<1> QED
  BY <1>1, <1>5, <1>6 DEF Minds, v, c

(* One container is given another state, or other options. *)
LEMMA ChangeMinds ==
  ASSUME NEW u, Sound(u), NEW s, NEW K, NEW c, c[1] \in K, NEW v,
         DOMAIN v = DOMAIN u, v.pods = u.pods, v.images = u.images,
         DOMAIN v.ctrs = DOMAIN u.ctrs,
         \A q \in DOMAIN u.ctrs : q # c => v.ctrs[q] = u.ctrs[q],
         c \in DOMAIN u.ctrs => /\ DOMAIN v.ctrs[c] = DOMAIN u.ctrs[c]
                                /\ v.ctrs[c].o \cap Absent = {}
  PROVE  Minds(u, v, s, K)
<1>1. Sound(v)
  BY DEF Sound, Shaped, WellNamed, Faithful
<1>2. \A r \in DOMAIN Suite \ K : Keeps(u, v, r)
  BY DEF Keeps
<1> QED
  BY <1>1, <1>2 DEF Minds

LEMMA StartMinds ==
  ASSUME NEW u, Sound(u), NEW s, NEW K, NEW c, c[1] \in K
  PROVE  Minds(u, StartCtr(u, c), s, K) /\ Minds(u, StopCtr(u, c), s, K)
<1>1. ASSUME NEW st
      PROVE  Minds(u, [u EXCEPT !.ctrs[c].st = st], s, K)
  <2> DEFINE v == [u EXCEPT !.ctrs[c].st = st]
  <2>1. /\ DOMAIN v = DOMAIN u /\ v.pods = u.pods /\ v.images = u.images
        /\ DOMAIN v.ctrs = DOMAIN u.ctrs
        /\ \A q \in DOMAIN u.ctrs : q # c => v.ctrs[q] = u.ctrs[q]
        /\ c \in DOMAIN u.ctrs => v.ctrs[c] = [u.ctrs[c] EXCEPT !.st = st]
    BY DEF Sound, Shaped
  <2>2. c \in DOMAIN u.ctrs => /\ DOMAIN v.ctrs[c] = DOMAIN u.ctrs[c]
                               /\ v.ctrs[c].o \cap Absent = {}
    BY <2>1 DEF Sound, Shaped, Faithful
  <2> HIDE DEF v
  <2>3. Minds(u, v, s, K)
    BY <2>1, <2>2, ChangeMinds
  <2> QED
    BY <2>3 DEF v
<1>2. Minds(u, u, s, K)
  BY HostMinds
<1> QED
  BY <1>1, <1>2 DEF StartCtr, StopCtr

LEMMA ConfigureMinds ==
  ASSUME NEW u, Sound(u), NEW s, NEW K, NEW c, c[1] \in K, NEW o
  PROVE  Minds(u, Configure(u, c, Effect(o)), s, K)
<1> DEFINE v == Configure(u, c, Effect(o))
<1>1. /\ DOMAIN v = DOMAIN u /\ v.pods = u.pods /\ v.images = u.images
      /\ DOMAIN v.ctrs = DOMAIN u.ctrs
      /\ \A q \in DOMAIN u.ctrs : q # c => v.ctrs[q] = u.ctrs[q]
      /\ c \in DOMAIN u.ctrs => /\ DOMAIN v.ctrs[c] = DOMAIN u.ctrs[c]
                                /\ v.ctrs[c].o = u.ctrs[c].o \cup Effect(o)
  BY DEF Configure, Sound, Shaped
<1>2. c \in DOMAIN u.ctrs => v.ctrs[c].o \cap Absent = {}
  BY <1>1 DEF Sound, Faithful, Effect
<1> HIDE DEF v
<1>3. Minds(u, v, s, K)
  BY <1>1, <1>2, ChangeMinds
<1> QED
  BY <1>3 DEF v

LEMMA RemoveCtrMinds ==
  ASSUME NEW u, Sound(u), NEW s, NEW K, NEW c, c[1] \in K
  PROVE  Minds(u, RemoveCtr(u, c), s, K)
<1> DEFINE v == RemoveCtr(u, c)
<1>1. /\ DOMAIN v = DOMAIN u /\ v.pods = u.pods /\ v.images = u.images
      /\ DOMAIN v.ctrs = DOMAIN u.ctrs \ {c}
      /\ \A q \in DOMAIN v.ctrs : v.ctrs[q] = u.ctrs[q]
  BY DEF RemoveCtr, Without, Sound, Shaped
<1> HIDE DEF v
<1>2. Sound(v)
  BY <1>1 DEF Sound, Shaped, WellNamed, Faithful
<1>3. \A r \in DOMAIN Suite \ K : Keeps(u, v, r)
  BY <1>1 DEF Keeps
<1>4. Minds(u, v, s, K)
  BY <1>1, <1>2, <1>3 DEF Minds
<1> QED
  BY <1>4 DEF v

LEMMA StopPodMinds ==
  ASSUME NEW u, Sound(u), NEW s, NEW K, NEW p, p[1] \in K
  PROVE  Minds(u, StopPod(u, p), s, K)
<1> DEFINE v == StopPod(u, p)
<1>1. /\ DOMAIN v = DOMAIN u /\ v.images = u.images
      /\ DOMAIN v.pods = DOMAIN u.pods /\ DOMAIN v.ctrs = DOMAIN u.ctrs
      /\ \A q \in DOMAIN u.pods :
           v.pods[q] = IF q = p THEN [u.pods[q] EXCEPT !.st = "NOTREADY"] ELSE u.pods[q]
      /\ \A c \in DOMAIN u.ctrs :
           v.ctrs[c] = IF u.ctrs[c].pod = p /\ u.ctrs[c].st = "RUNNING"
                       THEN [u.ctrs[c] EXCEPT !.st = "EXITED"] ELSE u.ctrs[c]
  BY DEF StopPod, Sound, Shaped
<1> HIDE DEF v
<1>2. \A q \in DOMAIN u.pods : /\ DOMAIN v.pods[q] = DOMAIN u.pods[q]
                               /\ v.pods[q].o = u.pods[q].o
                               /\ q # p => v.pods[q] = u.pods[q]
  BY <1>1 DEF Sound, Shaped
<1>3. \A c \in DOMAIN u.ctrs : /\ DOMAIN v.ctrs[c] = DOMAIN u.ctrs[c]
                               /\ v.ctrs[c].o = u.ctrs[c].o
                               /\ u.ctrs[c].pod # p => v.ctrs[c] = u.ctrs[c]
  BY <1>1 DEF Sound, Shaped
<1>4. Sound(v)
  <2>1. Shaped(v)
    BY <1>1, <1>2, <1>3 DEF Sound, Shaped
  <2>2. WellNamed(v)
    BY <1>1 DEF Sound, WellNamed
  <2>3. Faithful(v)
    BY <1>1, <1>2, <1>3 DEF Sound, Faithful
  <2> QED
    BY <2>1, <2>2, <2>3 DEF Sound
<1>5. \A r \in DOMAIN Suite \ K : Keeps(u, v, r)
  <2>1. DOMAIN v.pods = DOMAIN u.pods /\ DOMAIN v.ctrs = DOMAIN u.ctrs
    BY <1>1
  <2> QED
    BY <1>2, <1>3, <2>1 DEF Keeps
<1>6. v.images = u.images
  BY <1>1
<1>7. Minds(u, v, s, K)
  BY <1>4, <1>5, <1>6 DEF Minds
<1> QED
  BY <1>7 DEF v

LEMMA RemovePodMinds ==
  ASSUME NEW u, Sound(u), NEW s, NEW K, NEW p, p[1] \in K
  PROVE  Minds(u, RemovePod(u, p), s, K)
<1> DEFINE v == RemovePod(u, p)
<1>1. /\ DOMAIN v = DOMAIN u /\ v.images = u.images
      /\ DOMAIN v.pods = DOMAIN u.pods \ {p}
      /\ DOMAIN v.ctrs = {c \in DOMAIN u.ctrs : u.ctrs[c].pod # p}
      /\ \A q \in DOMAIN v.pods : v.pods[q] = u.pods[q]
      /\ \A c \in DOMAIN v.ctrs : v.ctrs[c] = u.ctrs[c]
  BY DEF RemovePod, Without, Sound, Shaped
<1> HIDE DEF v
<1>2. Sound(v)
  BY <1>1 DEF Sound, Shaped, WellNamed, Faithful
<1>3. \A r \in DOMAIN Suite \ K : Keeps(u, v, r)
  BY <1>1 DEF Keeps
<1>4. Minds(u, v, s, K)
  BY <1>1, <1>2, <1>3 DEF Minds
<1> QED
  BY <1>4 DEF v

LEMMA ImageMinds ==
  ASSUME NEW u, Sound(u), NEW s, NEW K, NEW v, DOMAIN v = DOMAIN u,
         v.pods = u.pods, v.ctrs = u.ctrs,
         ~Suite[s].in.serial => u.images \cap Fetched \subseteq v.images
  PROVE  Minds(u, v, s, K)
  BY DEF Minds, Sound, Shaped, WellNamed, Faithful, Keeps

(* The specs whose things a process may know of.                           *)
Known(n) == DOMAIN done \cup {"", node[n].spec}

LEMMA KnownIs ==
  ASSUME Types, Owned, NEW n \in plan.nodes
  PROVE  /\ "" \in Known(n) /\ node[n].spec \in Known(n) /\ Within(env[n], Known(n))
         /\ \A x : Val(n, x)[1] \in Known(n)
<1>1. "" \in Known(n) /\ node[n].spec \in Known(n) /\ Within(env[n], Known(n))
  BY DEF Owned, Within, Known
<1> QED
  BY <1>1, ValWithin

(* Hence every step of a process does, by its id or by a name.             *)
LEMMA WorldMinds ==
  ASSUME Types, Owned, Sound(w), NEW n \in plan.nodes, node[n].todo # <<>>
  PROVE  Minds(w, World(n), node[n].spec, Known(n))
<1> DEFINE s == Step(n)
           t == node[n].spec
           K == Known(n)
           x == Val(n, s.x)
           y == Val(n, s.y)
<1>1. s \in Steps(t) /\ t \in DOMAIN Suite
  BY InHand
<1>2. t \in K /\ x[1] \in K /\ y[1] \in K
  BY KnownIs
<1>3. \A z : New(n, z) = <<t, z>>
  BY DEF New
<1> HIDE DEF s, t, K, x, y
<1>4. CASE s.do = "RunPod"
  <2>1. World(n) = RunPod(w, <<t, s.x>>, Effect(s.o))
    BY <1>3, <1>4 DEF World, s
  <2>2. s.x \in PodNames(t)
    BY <1>1, <1>4 DEF PodNames, StepsOf
  <2> QED
    BY <1>2, <2>1, <2>2, RunPodMinds DEF t, K
<1>5. CASE s.do = "StopPod"
  <2>1. World(n) = StopPod(w, x)
    BY <1>5 DEF World, s, x
  <2> QED
    BY <1>2, <2>1, StopPodMinds DEF t, K
<1>6. CASE s.do = "RemovePod"
  <2>1. World(n) = RemovePod(w, x)
    BY <1>6 DEF World, s, x
  <2> QED
    BY <1>2, <2>1, RemovePodMinds DEF t, K
<1>7. CASE s.do \in {"Start", "StopCtr"}
  <2>1. World(n) = StartCtr(w, x) \/ World(n) = StopCtr(w, x)
    BY <1>7 DEF World, s, x
  <2> QED
    BY <1>2, <2>1, StartMinds DEF t, K
<1>8. CASE s.do = "RemoveCtr"
  <2>1. World(n) = RemoveCtr(w, x)
    BY <1>8 DEF World, s, x
  <2> QED
    BY <1>2, <2>1, RemoveCtrMinds DEF t, K
<1>9. CASE s.do = "Configure"
  <2>1. World(n) = Configure(w, x, Effect(s.o))
    BY <1>9 DEF World, s, x
  <2> QED
    BY <1>2, <2>1, ConfigureMinds DEF t, K
<1>10. CASE s.do \in {"Create", "CreateOrSkip"}
  <2>1. World(n) = CreateCtr(w, <<t, s.x>>, y, Effect(s.o))
    BY <1>3, <1>10 DEF World, s, y
  <2> QED
    BY <1>2, <2>1, CreateMinds DEF t, K
<1>11. CASE s.do \in {"Pull", "Ensure"}
  <2> DEFINE v == World(n)
  <2>1. v = PullImg(w, s.y)
    BY <1>11 DEF World, s
  <2>2. /\ DOMAIN v = DOMAIN w /\ v.pods = w.pods /\ v.ctrs = w.ctrs
        /\ v.images = w.images \cup {s.y}
    BY <2>1 DEF PullImg, Sound, Shaped
  <2> HIDE DEF v
  <2>3. Minds(w, v, t, K)
    BY <2>2, ImageMinds
  <2> QED
    BY <2>3 DEF v, t, K
<1>12. CASE s.do = "RemoveImage"
  <2> DEFINE v == World(n)
  <2>1. v = RemoveImg(w, s.y)
    BY <1>12 DEF World, s
  <2>2. /\ DOMAIN v = DOMAIN w /\ v.pods = w.pods /\ v.ctrs = w.ctrs
        /\ v.images = w.images \ Names(s.y)
    BY <2>1 DEF RemoveImg, Sound, Shaped
  <2>3. ~Suite[t].in.serial => Names(s.y) \cap Fetched = {}
    BY <1>1, <1>12, RemovalAssumption DEF StepsOf
  <2> HIDE DEF v
  <2>4. Minds(w, v, t, K)
    BY <2>2, <2>3, ImageMinds
  <2> QED
    BY <2>4 DEF v, t, K
<1>13. CASE s.do \notin {"RunPod", "StopPod", "RemovePod", "Start", "StopCtr", "RemoveCtr",
                         "Configure", "Create", "CreateOrSkip", "Pull", "Ensure",
                         "RemoveImage"}
  <2> DEFINE v == World(n)
  <2>1. ASSUME NEW u, u = w \/ \E h, e : u = [w EXCEPT !.host = h, !.erased = e]
        PROVE  /\ DOMAIN u = DOMAIN w /\ u.pods = w.pods /\ u.ctrs = w.ctrs
               /\ u.images = w.images
    BY <2>1 DEF Sound, Shaped
  <2>2. DOMAIN v = DOMAIN w /\ v.pods = w.pods /\ v.ctrs = w.ctrs /\ v.images = w.images
    <3>1. \A r, p : \E h, e : Put(w, r, p) = [w EXCEPT !.host = h, !.erased = e]
      <4> TAKE r, p
      <4>1. Put(w, r, p) = [w EXCEPT !.host = Updated(w.host, r, p), !.erased = w.erased]
        BY DEF Put, Sound, Shaped
      <4> QED
        BY <4>1
    <3>2. \A r : \E h, e : Unmount(w, r) = [w EXCEPT !.host = h, !.erased = e]
      <4> TAKE r
      <4>1. Unmount(w, r) = [w EXCEPT !.host = Without(w.host, {r} \cup Below(w, r)),
                                      !.erased = w.erased]
        BY DEF Unmount, Sound, Shaped
      <4> QED
        BY <4>1
    <3>3. \A r : \E h, e : Erase(w, r) = [w EXCEPT !.host = h, !.erased = e]
      <4> TAKE r
      <4>1. Erase(w, r) = [w EXCEPT !.host = Without(w.host, {r}),
                                    !.erased = w.erased \/ Below(w, r) # {}]
        BY DEF Erase, Sound, Shaped
      <4> QED
        BY <4>1
    <3>4. \/ v = w \/ \E r, p : v = Put(w, r, p)
          \/ \E r : v = Unmount(w, r) \/ v = Erase(w, r)
      BY <1>13 DEF World, s
    <3> HIDE DEF v
    <3>5. v = w \/ \E h, e : v = [w EXCEPT !.host = h, !.erased = e]
      <4>1. CASE \E r, p : v = Put(w, r, p)
        <5> PICK r, p : v = Put(w, r, p)
          BY <4>1
        <5> PICK h, e : Put(w, r, p) = [w EXCEPT !.host = h, !.erased = e]
          BY <3>1
        <5> QED
          OBVIOUS
      <4>2. CASE \E r : v = Unmount(w, r) \/ v = Erase(w, r)
        <5> PICK r : v = Unmount(w, r) \/ v = Erase(w, r)
          BY <4>2
        <5> PICK h1, e1 : Unmount(w, r) = [w EXCEPT !.host = h1, !.erased = e1]
          BY <3>2
        <5> PICK h2, e2 : Erase(w, r) = [w EXCEPT !.host = h2, !.erased = e2]
          BY <3>3
        <5> QED
          OBVIOUS
      <4> QED
        BY <3>4, <4>1, <4>2
    <3> QED
      BY <2>1, <3>5
  <2> HIDE DEF v
  <2>3. Minds(w, v, t, K)
    BY <2>2, HostMinds
  <2> QED
    BY <2>3 DEF v, t, K
<1> QED
  BY <1>4, <1>5, <1>6, <1>7, <1>8, <1>9, <1>10, <1>11, <1>12, <1>13

LEMMA AcceptMinds ==
  ASSUME Types, Owned, Sound(w), NEW n \in plan.nodes, Accept(n)
  PROVE  Minds(w, w', node[n].spec, Known(n))
<1> DEFINE s == Step(n)
           t == node[n].spec
           K == Known(n)
<1>0. node[n].todo # <<>>
  BY DEF Accept
<1>1. s \in Steps(t) /\ t \in DOMAIN Suite
  BY <1>0, InHand
<1>2. t \in K
  BY KnownIs
<1>3. \A z : New(n, z) = <<t, z>>
  BY DEF New
<1> HIDE DEF s, t, K
<1>4. CASE s.do = "RunPodFails"
  <2>1. w' = RunPod(w, <<t, s.x>>, Effect(s.o))
    BY <1>3, <1>4 DEF Accept, s
  <2>2. s.x \in PodNames(t)
    BY <1>1, <1>4 DEF PodNames, StepsOf
  <2> QED
    BY <1>2, <2>1, <2>2, RunPodMinds DEF t, K
<1>5. CASE s.do = "CreateFails"
  <2>1. w' = CreateCtr(w, <<t, s.x>>, Val(n, s.y), Effect(s.o))
    BY <1>3, <1>5 DEF Accept, s
  <2> QED
    BY <1>2, <2>1, CreateMinds DEF t, K
<1> QED
  BY <1>4, <1>5 DEF Accept, Refusals, s

LEMMA StepMinds ==
  ASSUME Types, Owned, Sound(w), NEW n \in plan.nodes,
         Works(n) \/ \E k \in Removers : Remover(n, k)
  PROVE  Minds(w, w', node[n].spec, Known(n))
<1>1. CASE Perform(n)
  <2>1. w' = World(n) /\ node[n].todo # <<>>
    BY <1>1 DEF Perform
  <2> QED
    BY <2>1, WorldMinds
<1>2. CASE Accept(n)
  BY <1>2, AcceptMinds
<1>3. CASE SkipSpec(n) \/ Fail(n) \/ Fault(n) \/ NextUnit(n)
  <2>1. w' = w
    BY <1>3 DEF SkipSpec, Fail, Fault, NextUnit
  <2> QED
    BY <2>1, HostMinds
<1>4. CASE \E k \in Removers : Remover(n, k)
  <2>1. node[n].spec = "simultaneousRemoval" /\ (w' = w \/ w' = RemoveImg(w, TestImage))
    BY <1>4 DEF Remover
  <2>2. Busy(n)
    BY <2>1 DEF Busy
  <2>3. node[n].spec \in DOMAIN Suite
    BY <2>2, Chosen DEF Types, Vocabulary
  <2>4. Suite[node[n].spec].in.serial
    BY <2>1, <2>3, RemovalAssumption
  <2>5. DOMAIN w' = DOMAIN w /\ w'.pods = w.pods /\ w'.ctrs = w.ctrs
    BY <2>1 DEF RemoveImg, Sound, Shaped
  <2> QED
    BY <2>4, <2>5, ImageMinds
<1> QED
  BY <1>1, <1>2, <1>3, <1>4 DEF Works

(* What containers do by themselves. *)
Drifts(u, v) ==
  /\ Sound(v) /\ v.pods = u.pods /\ v.images = u.images /\ DOMAIN v.ctrs = DOMAIN u.ctrs
  /\ \A c \in DOMAIN u.ctrs : /\ v.ctrs[c].pod = u.ctrs[c].pod
                              /\ v.ctrs[c].o = u.ctrs[c].o
                              /\ "ends" \notin u.ctrs[c].o => v.ctrs[c].st = u.ctrs[c].st

(* A container on its own writes its log or, if its command ends, exits.   *)
LEMMA ContainersDrift ==
  ASSUME Sound(w), NEW c \in DOMAIN w.ctrs, Writes(c) \/ Exits(c)
  PROVE  Drifts(w, w')
<1>1. DOMAIN w.ctrs[c] = {"pod", "st", "o", "wrote"}
  BY DEF Sound, Shaped
<1>2. /\ DOMAIN w' = DOMAIN w /\ w'.pods = w.pods /\ w'.images = w.images
      /\ DOMAIN w'.ctrs = DOMAIN w.ctrs
      /\ \A d \in DOMAIN w.ctrs : d # c => w'.ctrs[d] = w.ctrs[d]
      /\ DOMAIN w'.ctrs[c] = DOMAIN w.ctrs[c]
      /\ w'.ctrs[c].pod = w.ctrs[c].pod /\ w'.ctrs[c].o = w.ctrs[c].o
      /\ "ends" \notin w.ctrs[c].o => w'.ctrs[c].st = w.ctrs[c].st
  <2>1. CASE Writes(c)
    <3>1. w' = [w EXCEPT !.ctrs[c].wrote = TRUE]
      BY <2>1 DEF Writes
    <3> QED
      BY <1>1, <3>1 DEF Sound, Shaped
  <2>2. CASE Exits(c)
    <3>1. "ends" \in w.ctrs[c].o /\ (w' = w \/ w' = [w EXCEPT !.ctrs[c].st = "EXITED"])
      BY <2>2 DEF Exits, CanExit, StopCtr
    <3> QED
      BY <1>1, <3>1 DEF Sound, Shaped
  <2> QED
    BY <2>1, <2>2
<1>3. Sound(w')
  <2>1. Shaped(w')
    BY <1>2 DEF Sound, Shaped
  <2>2. WellNamed(w')
    BY <1>2 DEF Sound, WellNamed
  <2>3. \A d \in DOMAIN w'.ctrs : w'.ctrs[d].o \cap Absent = {}
    BY <1>2 DEF Sound, Faithful
  <2>4. Faithful(w')
    BY <1>2, <2>3 DEF Sound, Faithful
  <2> QED
    BY <2>1, <2>2, <2>4 DEF Sound
<1>4. \A d \in DOMAIN w.ctrs : /\ w'.ctrs[d].pod = w.ctrs[d].pod
                               /\ w'.ctrs[d].o = w.ctrs[d].o
                               /\ "ends" \notin w.ctrs[d].o => w'.ctrs[d].st = w.ctrs[d].st
  BY <1>2
<1> QED
  BY <1>2, <1>3, <1>4 DEF Drifts

(* The world as the runtime keeps it.                                      *)
SoundWorld == Sound(w)

(* No step gives a pod or a container an option that is ignored.           *)
LEMMA SoundStep ==
  ASSUME Types, Owned, SoundWorld, [Next]_vars
  PROVE  SoundWorld'
<1>0. plan' = plan
  BY SpecsStep
<1>1. Absent' = Absent
  BY <1>0 DEF Absent
<1> SUFFICES Sound(w')
  BY <1>1 DEF SoundWorld, Sound, Shaped, WellNamed, Faithful, PodNames, StepsOf, Steps, Written,
              Elements
<1>2. CASE \E n \in plan.nodes : Works(n) \/ \E k \in Removers : Remover(n, k)
  BY <1>2, StepMinds DEF Minds, SoundWorld
<1>3. CASE \E c \in DOMAIN w.ctrs : Writes(c) \/ Exits(c)
  BY <1>3, ContainersDrift DEF Drifts, SoundWorld
<1>4. CASE \/ \E n \in plan.nodes : Leaves(n) \/ \E s \in Left : Take(n, s)
           \/ UNCHANGED vars
  <2>1. w' = w
    BY <1>4, LeavesKeeps DEF Take, vars
  <2> QED
    BY <2>1 DEF SoundWorld
<1> QED
  BY <1>2, <1>3, <1>4, NextCases DEF Aside

LEMMA SoundInit ==
  ASSUME Init
  PROVE  SoundWorld
<1>1. w = EmptyWorld
  BY DEF Init
<1>2. /\ DOMAIN w = {"pods", "ctrs", "images", "host", "erased"}
      /\ w.pods = <<>> /\ w.ctrs = <<>>
  BY <1>1 DEF EmptyWorld
<1>3. \A f : f = <<>> => DOMAIN f = {}
  OBVIOUS
<1> QED
  BY <1>2, <1>3 DEF SoundWorld, Sound, Shaped, WellNamed, Faithful

(* Processes do not touch each other's things. *)
Acts(n) ==
  Process(n) \/ Fault(n) \/ \E k \in Removers : Remover(n, k) \/ RemoverPanics(n, k)

(* A step of one process leaves the pods of the specs that the others are  *)
(* at, and their containers in them, as they are.                          *)
LeftAlone ==
  \A n, m \in plan.nodes : Acts(n) /\ m # n /\ Busy(m) => Keeps(w, w', node[m].spec)

(* Of each fault is known to which step of which spec it happened.         *)
FaultType ==
  [spec : DOMAIN Suite, at : {t.do : t \in AllSteps} \cup {"Remover"}, cleaning : BOOLEAN]

Recorded == spent \in Seq(FaultType)

(* A fault at the step in hand of a process, or of one of its goroutines.  *)
Strikes(n, e) ==
  /\ spent' = Append(spent, e)
  /\ e \in FaultType /\ e.spec = node[n].spec
  /\ Fault(n) => e.at = Step(n).do

LEMMA FaultStrikes ==
  ASSUME Types, NEW n \in plan.nodes, Fault(n) \/ \E k \in Removers : RemoverPanics(n, k)
  PROVE  \E e : Strikes(n, e)
<1>1. CASE Fault(n)
  <2> DEFINE e == [spec |-> node[n].spec, at |-> Step(n).do, cleaning |-> node[n].cleaning]
  <2>1. spent' = Append(spent, e) /\ node[n].todo # <<>>
    BY <1>1 DEF Fault
  <2>2. node[n].spec \in DOMAIN Suite /\ Step(n) \in AllSteps /\ node[n].cleaning \in BOOLEAN
    BY <2>1, InHand, FieldsTyped
  <2>3. e \in FaultType
    BY <2>2 DEF FaultType
  <2>4. e.spec = node[n].spec /\ e.at = Step(n).do
    OBVIOUS
  <2> HIDE DEF e
  <2> QED
    BY <2>1, <2>3, <2>4 DEF Strikes
<1>2. CASE ~Fault(n) /\ \E k \in Removers : RemoverPanics(n, k)
  <2> DEFINE e == [spec |-> node[n].spec, at |-> "Remover", cleaning |-> FALSE]
  <2>1. spent' = Append(spent, e) /\ node[n].spec = "simultaneousRemoval"
    BY <1>2 DEF RemoverPanics
  <2>2. Busy(n)
    BY <2>1 DEF Busy
  <2>3. node[n].spec \in DOMAIN Suite
    BY <2>2, Chosen DEF Types, Vocabulary
  <2>4. e \in FaultType
    BY <2>3 DEF FaultType
  <2>5. e.spec = node[n].spec
    OBVIOUS
  <2> HIDE DEF e
  <2> QED
    BY <1>2, <2>1, <2>4, <2>5 DEF Strikes
<1> QED
  BY <1>1, <1>2

(* The other steps add none.                                               *)
LEMMA SpentIs ==
  ASSUME Types, [Next]_vars
  PROVE  spent' = spent \/ \E n \in plan.nodes, e \in FaultType : Strikes(n, e)
<1>1. CASE \E n \in plan.nodes : Fault(n) \/ \E k \in Removers : RemoverPanics(n, k)
  BY <1>1, FaultStrikes DEF Strikes
<1>2. CASE ~\E n \in plan.nodes : Fault(n) \/ \E k \in Removers : RemoverPanics(n, k)
  BY <1>2 DEF Next, Process, Take, Perform, SkipSpec, Fail, Accept, NextUnit, End, Remover,
              Writes, Exits, vars
<1> QED
  BY <1>1, <1>2

LEMMA RecordedStep ==
  ASSUME Types, Recorded, [Next]_vars
  PROVE  Recorded'
<1>1. CASE spent' = spent
  BY <1>1 DEF Recorded
<1>2. CASE \E n \in plan.nodes, e \in FaultType : Strikes(n, e)
  <2> PICK e \in FaultType : spent' = Append(spent, e)
    BY <1>2 DEF Strikes
  <2>1. \A S, q, x : q \in Seq(S) /\ x \in S => Append(q, x) \in Seq(S)
    OBVIOUS
  <2> QED
    BY <2>1 DEF Recorded
<1> QED
  BY <1>1, <1>2, SpentIs

(* What the rest is built on.                                              *)
Grounds == Types /\ Turns /\ Owned /\ SoundWorld /\ Recorded

(* No fault is forgotten. *)
LEMMA SpentGrows ==
  ASSUME Grounds, [Next]_vars
  PROVE  \A i \in DOMAIN spent : i \in DOMAIN spent' /\ spent'[i] = spent[i]
<1>1. CASE spent' = spent
  BY <1>1
<1>2. CASE \E n \in plan.nodes, e \in FaultType : Strikes(n, e)
  <2> PICK e \in FaultType : spent' = Append(spent, e)
    BY <1>2 DEF Strikes
  <2>1. \A S, q, x : q \in Seq(S) /\ x \in S =>
          \A i \in DOMAIN q : i \in DOMAIN Append(q, x) /\ Append(q, x)[i] = q[i]
    OBVIOUS
  <2> QED
    BY <2>1 DEF Grounds, Recorded
<1> QED
  BY <1>1, <1>2, SpentIs DEF Grounds

(* The fault at the step in hand is the last one.                          *)
LEMMA FaultSpent ==
  ASSUME Grounds, NEW n \in plan.nodes, Fault(n)
  PROVE  \E i \in DOMAIN spent' : spent'[i].spec = node[n].spec /\ spent'[i].at = Step(n).do
<1>1. PICK e : Strikes(n, e)
  BY FaultStrikes DEF Grounds
<1>2. \A S, q, x : q \in Seq(S) /\ x \in S =>
          Len(q) + 1 \in DOMAIN Append(q, x) /\ Append(q, x)[Len(q) + 1] = x
  OBVIOUS
<1>3. spent' = Append(spent, e) /\ e \in FaultType /\ spent \in Seq(FaultType)
  BY <1>1 DEF Strikes, Grounds, Recorded
<1>4. Len(spent) + 1 \in DOMAIN spent' /\ spent'[Len(spent) + 1] = e
  BY <1>2, <1>3
<1> QED
  BY <1>1, <1>4 DEF Strikes

(* Whom an error has misled it goes on misleading.                         *)
LEMMA MisledStays ==
  ASSUME Grounds, [Next]_vars, NEW s, Misled(s)
  PROVE  Misled(s)'
  BY SpentGrows DEF Misled

(* The five invariants together: the types, the turns, that a process      *)
(* knows of its own things and of those of ended specs, that nothing in    *)
(* the runtime has an option that it ignores, and what is known of faults. *)
THEOREM GroundsCorrect == Spec => []Grounds
<1>1. Init => Grounds
  BY TypesInit, TurnsInit, OwnedInit, SoundInit, EmptySeq DEF Grounds, Recorded, Init
<1>2. Grounds /\ [Next]_vars => Grounds'
  BY TypesStep, ApartStep, SerialStep, OwnedStep, SoundStep, RecordedStep DEF Grounds, Turns
<1> QED
  BY <1>1, <1>2, PTL DEF Spec

(* What a process knows of is not of the spec of another process.          *)
LEMMA OthersKept ==
  ASSUME Grounds, NEW n \in plan.nodes, Acts(n), NEW m \in plan.nodes, m # n, Busy(m)
  PROVE  Keeps(w, w', node[m].spec)
<1>1. node[m].spec \in DOMAIN Suite
  BY Chosen DEF Grounds, Types, Vocabulary
<1>2. node[m].spec \notin Known(n)
  BY DEF Grounds, Turns, Apart, Busy, Known
<1>3. CASE Works(n) \/ \E k \in Removers : Remover(n, k)
  BY <1>1, <1>2, <1>3, StepMinds DEF Minds, Grounds, SoundWorld
<1>4. CASE Leaves(n) \/ \E s \in Left : Take(n, s)
  <2>1. w' = w
    BY <1>4, LeavesKeeps DEF Take, Grounds
  <2> QED
    BY <2>1 DEF Keeps
<1> QED
  BY <1>3, <1>4 DEF Acts, Process, Works, Leaves

(* With -parallel the specs of two processes do not meddle: a step that    *)
(* one takes, its cleaning up included, leaves every pod that the spec of  *)
(* another has run as it is, and every container that this spec has        *)
(* created there. What they share are images, ports and the host.          *)
THEOREM ProcessesLeftAlone == Spec => [][LeftAlone]_vars
<1>1. Grounds /\ [Next]_vars => [LeftAlone]_vars
  BY OthersKept DEF LeftAlone
<1> QED
  BY <1>1, GroundsCorrect, PTL DEF Spec

-------------------------------------------------------------------------------
(* How a process goes through the body of its spec. *)

(* The body of a spec as a sequence of its steps.                          *)
LEMMA BodyIs ==
  ASSUME NEW s \in DOMAIN Suite
  PROVE  /\ Len(Suite[s].body) \in Nat /\ DOMAIN Suite[s].body = 1..Len(Suite[s].body)
         /\ \A i \in 1..Len(Suite[s].body) : /\ Suite[s].body[i] \in Steps(s)
                                             /\ Suite[s].body[i].do # "IfSet"
<1>1. Suite[s].body \in Seq(Steps(s))
  BY StepsTyped
<1>2. Len(Suite[s].body) \in Nat /\ DOMAIN Suite[s].body = 1..Len(Suite[s].body)
      /\ \A i \in 1..Len(Suite[s].body) : Suite[s].body[i] \in Steps(s)
  BY <1>1
<1> QED
  BY <1>2, SuiteAssumption

(* The next step of the body. *)
LEMMA AtPlace ==
  ASSUME Types, Course, NEW n \in plan.nodes, InBody(n)
  PROVE  /\ node[n].spec \in DOMAIN Suite
         /\ Place(n) \in Nat /\ Place(n) <= Len(Suite[node[n].spec].body)
         /\ node[n].todo = <<>> => Place(n) = Len(Suite[node[n].spec].body)
         /\ node[n].todo # <<>> =>
              /\ Place(n) + 1 \in 1..Len(Suite[node[n].spec].body)
              /\ Step(n) = Suite[node[n].spec].body[Place(n) + 1]
<1> DEFINE s == node[n].spec
           q == node[n].todo
<1>1. s \in DOMAIN Suite /\ q \in Seq(Steps(s))
  BY Chosen DEF Types, Vocabulary, InBody
<1>2. Len(q) \in Nat /\ (q = <<>> <=> Len(q) = 0) /\ (q # <<>> => Head(q) = q[1])
  BY <1>1, EmptySeq, HeadTailProperties
<1>3. Len(Suite[s].body) \in Nat /\ Len(q) <= Len(Suite[s].body)
  BY <1>1, BodyIs DEF Course
<1>4. \A i \in 1..Len(q) : q[i] = Suite[s].body[Place(n) + i]
  BY DEF Course
<1>5. Place(n) = Len(Suite[s].body) - Len(q) /\ Step(n) = Head(q)
  BY DEF Place, Step
<1>7. s = node[n].spec /\ q = node[n].todo
  OBVIOUS
<1> HIDE DEF s, q
<1>8. Place(n) \in Nat /\ Place(n) <= Len(Suite[s].body)
      /\ (q = <<>> => Place(n) = Len(Suite[s].body))
  BY <1>2, <1>3, <1>5
<1>6. ASSUME q # <<>>
      PROVE  /\ Place(n) + 1 \in 1..Len(Suite[s].body)
             /\ Step(n) = Suite[s].body[Place(n) + 1]
  <2>1. 1 \in 1..Len(q) /\ Step(n) = q[1]
    BY <1>2, <1>5, <1>6
  <2>2. Place(n) + 1 \in 1..Len(Suite[s].body)
    BY <1>2, <1>3, <1>5, <1>6
  <2> QED
    BY <1>4, <2>1, <2>2
<1> QED
  BY <1>1, <1>6, <1>7, <1>8

(* The ways to be in the body, or to have passed so far, after a step. *)
Starts(n) ==
  /\ \E s \in Left : Take(n, s)
  /\ node'[n].spec \in DOMAIN Suite
  /\ node'[n].todo = Suite[node'[n].spec].body /\ ~node'[n].cleaning

(* It goes on to the next step, of the body or of a unit.                  *)
Moves(n) ==
  /\ \/ Perform(n) /\ node'[n].todo = Rest(n)
     \/ /\ Fault(n) /\ Step(n).do \in Wanting \cup {"Discard"} /\ UNCHANGED <<w, env>>
        /\ node'[n].todo = Tail(node[n].todo)
  /\ node[n].todo # <<>>
  /\ node'[n].spec = node[n].spec /\ node'[n].context = node[n].context
  /\ node'[n].cleaning = node[n].cleaning /\ node'[n].verdict = node[n].verdict

(* It goes on to clean up.                                                 *)
Cleans(n) ==
  /\ node[n].todo = <<>> /\ node'[n].cleaning
  /\ node'[n].spec = node[n].spec /\ node'[n].verdict = node[n].verdict

(* Something else happens.                                                 *)
Stays(n) ==
  /\ node'[n] = node[n] /\ env'[n] = env[n]
  /\ \/ \E m \in plan.nodes : m # n /\ Acts(m)
     \/ Aside \/ UNCHANGED vars

(* A process whose spec has not failed has come there in one of these      *)
(* ways.                                                                   *)
LEMMA WaysOn ==
  ASSUME Types, [Next]_vars, NEW n \in plan.nodes, Busy(n)', node'[n].verdict = "passed"
  PROVE  Starts(n) \/ Moves(n) \/ Cleans(n) \/ Stays(n)
<1>0. node \in [plan.nodes -> NodeType] /\ DOMAIN env = plan.nodes
  BY DEF Types, NodesOK
<1>6. ASSUME NEW s \in Left, Take(n, s)
      PROVE  Starts(n)
  <2>1. /\ s \in DOMAIN Suite /\ node'[n].spec = s /\ node'[n].todo = Suite[s].body
        /\ ~node'[n].cleaning
    BY <1>6, TakeTyped
  <2> QED
    BY <1>6, <2>1 DEF Starts
<1>1. ASSUME NEW m \in plan.nodes, m # n, NEW s \in Left, Take(m, s)
      PROVE  Stays(n)
  <2>1. env' = env
    BY <1>1 DEF Take
  <2>2. node'[n] = node[n]
    BY <1>1, TakeTyped
  <2>3. Acts(m)
    BY <1>1 DEF Acts, Process
  <2> QED
    BY <1>1, <2>1, <2>2, <2>3 DEF Stays
<1>2. ASSUME NEW m \in plan.nodes, Works(m), m # n
      PROVE  Stays(n)
  <2>1. node'[n] = node[n] /\ env'[n] = env[n]
    BY <1>2, WorksGoes DEF Going
  <2> QED
    BY <1>2, <2>1 DEF Stays, Acts, Process, Works
<1>3. CASE Works(n)
  <2>1. CASE Perform(n)
    <3>1. node' = [node EXCEPT ![n].todo = Rest(n), ![n].units = Units(n)] /\ node[n].todo # <<>>
      BY <2>1 DEF Perform
    <3>2. /\ node'[n].spec = node[n].spec /\ node'[n].context = node[n].context
          /\ node'[n].cleaning = node[n].cleaning /\ node'[n].verdict = node[n].verdict
          /\ node'[n].todo = Rest(n)
      BY <1>0, <3>1 DEF NodeType
    <3> QED
      BY <2>1, <3>1, <3>2 DEF Moves
  <2>2. CASE SkipSpec(n) \/ Fail(n) \/ Accept(n)
    <3>1. node[n].todo # <<>> /\ \E v \in {"skipped", "failed"} : Stops(n, v)
      BY <2>2 DEF SkipSpec, Fail, Accept, Refusals
    <3> QED
      BY <3>1, StopsGoes
  <2>3. CASE Fault(n)
    <3>1. /\ Step(n).do \in Wanting \cup {"Discard"} /\ env' = env
          /\ node' = [node EXCEPT ![n].todo = Tail(@)]
      BY <2>3, FaultGoes
    <3>2. node[n].todo # <<>> /\ w' = w
      BY <2>3 DEF Fault
    <3>3. /\ node'[n].spec = node[n].spec /\ node'[n].context = node[n].context
          /\ node'[n].cleaning = node[n].cleaning /\ node'[n].verdict = node[n].verdict
          /\ node'[n].todo = Tail(node[n].todo)
      BY <1>0, <3>1 DEF NodeType
    <3> QED
      BY <2>3, <3>1, <3>2, <3>3 DEF Moves
  <2>4. CASE NextUnit(n)
    <3>1. /\ node[n].todo = <<>>
          /\ node' = [node EXCEPT ![n].todo = Head(node[n].units),
                                  ![n].units = Tail(@), ![n].cleaning = TRUE]
      BY <2>4 DEF NextUnit
    <3>2. /\ node'[n].spec = node[n].spec /\ node'[n].verdict = node[n].verdict
          /\ node'[n].cleaning
      BY <1>0, <3>1 DEF NodeType
    <3> QED
      BY <3>1, <3>2 DEF Cleans
  <2> QED
    BY <1>3, <2>1, <2>2, <2>3, <2>4 DEF Works
<1>4. ASSUME NEW m \in plan.nodes, Leaves(m)
      PROVE  Stays(n)
  <2>1. m # n /\ node'[n] = node[n] /\ env' = env
    BY <1>4, LeavesKeeps DEF Going, Busy
  <2> QED
    BY <1>4, <2>1 DEF Stays, Acts, Process, Leaves
<1>5. CASE Aside \/ UNCHANGED vars
  BY <1>5, AsideKeeps DEF Stays, vars
<1> QED
  BY <1>1, <1>2, <1>3, <1>4, <1>5, <1>6, NextCases

(* A step of the body goes on to the one after it. *)
LEMMA BodyMoves ==
  ASSUME Types, Course, NEW n \in plan.nodes, InBody(n), Moves(n)
  PROVE  /\ node'[n].todo = Tail(node[n].todo)
         /\ Place(n)' = Place(n) + 1
         /\ Step(n) = Suite[node[n].spec].body[Place(n) + 1]
<1> DEFINE s == node[n].spec
           q == node[n].todo
<1>1. /\ s \in DOMAIN Suite /\ q # <<>> /\ q \in Seq(Steps(s))
      /\ Place(n) + 1 \in 1..Len(Suite[s].body)
      /\ Step(n) = Suite[s].body[Place(n) + 1]
  BY AtPlace, InHand DEF Moves
<1>2. Step(n).do # "IfSet"
  BY <1>1, BodyIs
<1>3. node'[n].todo = Tail(q)
  BY <1>2 DEF Moves, Rest
<1>4. Len(Tail(q)) = Len(q) - 1 /\ Len(q) \in Nat
  BY <1>1, HeadTailProperties
<1>5. Len(Suite[s].body) \in Nat
  BY <1>1, BodyIs
<1>7. /\ Place(n) = Len(Suite[s].body) - Len(q)
      /\ Place(n)' = Len(Suite[s].body) - Len(Tail(q))
  BY <1>3 DEF Place, Moves
<1>8. ASSUME NEW a \in Nat, NEW b \in Nat, NEW c, c = b - 1
      PROVE  a - c = (a - b) + 1
  BY <1>8
<1> HIDE DEF s, q
<1>6. Place(n)' = Place(n) + 1
  <2>1. Len(Suite[s].body) - Len(Tail(q)) = (Len(Suite[s].body) - Len(q)) + 1
    BY <1>4, <1>5, <1>8
  <2> QED
    BY <1>7, <2>1
<1> QED
  BY <1>1, <1>3, <1>6 DEF s, q

(* Course is inductive.                                                    *)
LEMMA CourseStep ==
  ASSUME Types, Course, [Next]_vars
  PROVE  Course'
<1>0. plan' = plan
  BY SpecsStep
<1> SUFFICES ASSUME NEW n \in plan.nodes, InBody(n)'
             PROVE  /\ Len(node'[n].todo) <= Len(Suite[node'[n].spec].body)
                    /\ \A i \in 1..Len(node'[n].todo) :
                         node'[n].todo[i] = Suite[node'[n].spec].body[Place(n)' + i]
  BY <1>0 DEF Course
<1>1. Busy(n)' /\ node'[n].verdict = "passed" /\ ~node'[n].cleaning
  BY DEF InBody
<1>2. CASE Starts(n)
  <2>1. node'[n].spec \in DOMAIN Suite /\ node'[n].todo = Suite[node'[n].spec].body
    BY <1>2 DEF Starts
  <2>2. Len(Suite[node'[n].spec].body) \in Nat
    BY <2>1, BodyIs
  <2>3. Place(n)' = 0
    BY <2>1, <2>2 DEF Place
  <2> QED
    BY <2>1, <2>2, <2>3
<1>3. CASE Moves(n)
  <2> DEFINE s == node[n].spec
             q == node[n].todo
  <2>1. InBody(n) /\ node'[n].spec = s /\ q # <<>>
    BY <1>1, <1>3 DEF Moves, InBody, Busy
  <2>2. node'[n].todo = Tail(q) /\ Place(n)' = Place(n) + 1 /\ Place(n) \in Nat
    BY <1>3, <2>1, BodyMoves, AtPlace
  <2>3. q \in Seq(Steps(s))
    BY <2>1, InHand
  <2>4. /\ Len(q) \in Nat /\ Len(q) # 0 /\ Len(Tail(q)) = Len(q) - 1
        /\ \A i \in 1..Len(Tail(q)) : Tail(q)[i] = q[i + 1]
    BY <2>1, <2>3, HeadTailProperties, EmptySeq
  <2>5. Len(q) <= Len(Suite[s].body)
        /\ \A i \in 1..Len(q) : q[i] = Suite[s].body[Place(n) + i]
    BY <2>1 DEF Course
  <2>6. Len(Suite[s].body) \in Nat
    BY <2>1, AtPlace, BodyIs
  <2> HIDE DEF s, q
  <2>7. Len(Tail(q)) <= Len(Suite[s].body)
    BY <2>4, <2>5, <2>6
  <2>8. ASSUME NEW i \in 1..Len(Tail(q))
        PROVE  Tail(q)[i] = Suite[s].body[Place(n) + 1 + i]
    <3>1. i + 1 \in 1..Len(q) /\ Place(n) + (i + 1) = Place(n) + 1 + i
      BY <2>2, <2>4
    <3> QED
      BY <2>4, <2>5, <3>1
  <2> QED
    BY <2>1, <2>2, <2>7, <2>8
<1>4. CASE Cleans(n)
  BY <1>1, <1>4 DEF Cleans
<1>5. CASE Stays(n)
  <2>0. node'[n] = node[n]
    BY <1>5 DEF Stays
  <2>2. InBody(n)
    <3>1. node[n].spec # "" /\ node[n].verdict = "passed"
      BY <1>1, <2>0 DEF Busy
    <3>2. ~node[n].cleaning
      BY <1>1, <2>0, Zenon
    <3> QED
      BY <3>1, <3>2, Zenon DEF InBody, Busy
  <2>3. Place(n)' = Place(n)
    BY <2>0 DEF Place
  <2>1. node'[n] = node[n] /\ InBody(n) /\ Place(n)' = Place(n)
    BY <2>0, <2>2, <2>3
  <2> QED
    BY <2>1 DEF Course
<1> QED
  BY <1>1, <1>2, <1>3, <1>4, <1>5, WaysOn

-------------------------------------------------------------------------------
(* What the steps that prepare have left still stands. *)

(* What a prepared spec s relies on is in world v as in world u: its pods, *)
(* its containers that do not end, and the images that specs fetch.        *)
Spares(u, v, s) ==
  /\ \A p : p[1] = s => /\ p \in DOMAIN u.pods <=> p \in DOMAIN v.pods
                        /\ p \in DOMAIN u.pods => v.pods[p] = u.pods[p]
  /\ \A c \in DOMAIN u.ctrs :
       c[1] = s /\ u.ctrs[c].pod[1] = s /\ "ends" \notin u.ctrs[c].o =>
         /\ c \in DOMAIN v.ctrs /\ v.ctrs[c].pod = u.ctrs[c].pod
         /\ v.ctrs[c].o = u.ctrs[c].o /\ v.ctrs[c].st = u.ctrs[c].st
  /\ u.images \cap Fetched \subseteq v.images

(* Other processes, goroutines and containers spare it: the others have no *)
(* ids of it, and who removes such images is Serial and alone.             *)
LEMMA StaysSpares ==
  ASSUME Grounds, NEW n \in plan.nodes, Busy(n), Stays(n),
         node[n].spec # "simultaneousRemoval"
  PROVE  Spares(w, w', node[n].spec)
<1> DEFINE s == node[n].spec
<1>1. ASSUME NEW m \in plan.nodes, m # n, Acts(m)
      PROVE  Spares(w, w', s)
  <2>1. Keeps(w, w', s)
    BY <1>1, OthersKept
  <2>2. w.images \cap Fetched \subseteq w'.images
    <3>1. CASE w' = w
      BY <3>1
    <3>2. CASE Works(m) \/ \E k \in Removers : Remover(m, k)
      <4>1. ~Suite[node[m].spec].in.serial => w.images \cap Fetched \subseteq w'.images
        BY <3>2, StepMinds DEF Grounds, SoundWorld, Minds
      <4>2. Busy(m)
        BY <3>2, WorksGoes DEF Grounds, Remover, Busy
      <4>3. ~Suite[node[m].spec].in.serial
        BY <1>1, <4>2 DEF Grounds, Turns, SerialAlone
      <4> QED
        BY <4>1, <4>3
    <3>3. CASE Leaves(m) \/ \E t \in Left : Take(m, t)
      <4>1. w' = w
        BY <3>3, LeavesKeeps DEF Take, Grounds
      <4> QED
        BY <4>1
    <3> QED
      BY <1>1, <3>2, <3>3 DEF Acts, Process, Works, Leaves
  <2> QED
    BY <2>1, <2>2 DEF Keeps, Spares
<1>2. ASSUME NEW m \in plan.nodes, NEW k \in Removers, Remover(m, k)
      PROVE  m # n /\ Acts(m)
  BY <1>2 DEF Remover, Acts
<1>3. ASSUME NEW c \in DOMAIN w.ctrs, Writes(c) \/ Exits(c)
      PROVE  Spares(w, w', s)
  BY <1>3, ContainersDrift DEF Drifts, Spares, Grounds, SoundWorld
<1>4. CASE UNCHANGED vars
  BY <1>4 DEF vars, Spares
<1> QED
  BY <1>1, <1>2, <1>3, <1>4 DEF Stays, Aside

LEMMA FetchedIs ==
  ASSUME NEW s \in DOMAIN Suite, NEW t \in Steps(s), t.do \in {"Ensure", "Pull"}
  PROVE  t.y \in Fetched
  BY DEF Fetched, StepsOf

(* Then what it has prepared goes on standing.                             *)
LEMMA StandsKept ==
  ASSUME NEW s \in DOMAIN Suite, NEW j, Suite[s].body[j] \in Steps(s),
         NEW context, NEW e, NEW u, NEW v, Spares(u, v, s), Standing(s, j, context, e, u)
  PROVE  Standing(s, j, context, e, v)
<1> DEFINE t == Suite[s].body[j]
           x == <<s, t.x>>
           Bound == <<context, t.x>> \in DOMAIN e /\ e[<<context, t.x>>] = x
<1>1. x[1] = s
  OBVIOUS
<1>2. t.do \in {"Ensure", "Pull"} => t.y \in Fetched
  BY FetchedIs
<1>3. t.do = "RunPod" => Bound /\ x \in DOMAIN v.pods /\ v.pods[x].st = "READY"
  BY <1>1 DEF Standing, Spares
<1>4. t.do \in {"Ensure", "Pull"} => t.y \in v.images
  BY <1>2 DEF Standing, Spares
<1>5. t.do \in Making => /\ Bound /\ x \in DOMAIN v.ctrs /\ v.ctrs[x].pod[1] = s
                         /\ "ends" \notin v.ctrs[x].o
  BY <1>1 DEF Standing, Spares
<1>6. t.do = "Eventually" /\ t.y = "RUNNING" /\ Creates(s, j - 1, t.x) =>
           /\ Bound /\ x \in DOMAIN v.ctrs /\ v.ctrs[x].pod[1] = s
           /\ "ends" \notin v.ctrs[x].o /\ x \notin DOMAIN v.pods
           /\ v.ctrs[x].st = "RUNNING"
  BY <1>1 DEF Standing, Spares
<1> QED
  BY <1>3, <1>4, <1>5, <1>6 DEF Standing

(* A prefix of what prepares does so too, and its steps are the suite's. *)
LEMMA PreparesLess ==
  ASSUME NEW s, NEW k \in Nat, NEW i \in 0..k, Prepares(s, k)
  PROVE  Prepares(s, i)
  BY DEF Prepares

(* What Prepares says of one step.                                         *)
LEMMA PreparesIs ==
  ASSUME NEW s, NEW k \in Nat, Prepares(s, k), NEW i \in 1..k
  PROVE  /\ s # "simultaneousRemoval" /\ Suite[s].body[i].do \in Preparing
         /\ Suite[s].body[i].do \in Making =>
              /\ "ends" \notin Suite[s].body[i].o
              /\ Suite[s].body[i].x \notin PodNames(s)
              /\ \E j \in 1..(i - 1) : /\ Suite[s].body[j].do = "RunPod"
                                       /\ Suite[s].body[j].x = Suite[s].body[i].y
              /\ \A j \in 1..(i - 1) : Suite[s].body[j].do \in Making =>
                                         Suite[s].body[j].x # Suite[s].body[i].x
  BY DEF Prepares, Runs, Creates

(* What the steps before a place have left is there to be used. *)
LEMMA PodStands ==
  ASSUME NEW n, NEW k \in Nat, \A j \in 1..k : Stands(n, j), NEW p,
         Runs(node[n].spec, k, p)
  PROVE  /\ Val(n, p) = New(n, p) /\ New(n, p) \in DOMAIN w.pods
         /\ StateOf(w, New(n, p)) = "READY"
<1>1. PICK j \in 1..k : /\ Suite[node[n].spec].body[j].do = "RunPod"
                        /\ Suite[node[n].spec].body[j].x = p
  BY DEF Runs
<1>2. Stands(n, j)
  OBVIOUS
<1>3. Val(n, p) = New(n, p) /\ New(n, p) \in DOMAIN w.pods
      /\ w.pods[New(n, p)].st = "READY"
  BY <1>1, <1>2 DEF Stands, Standing, Val, Var, New
<1> QED
  BY <1>3 DEF StateOf

(* What stands is what the call that tests a refusal needs.                *)
LEMMA ImageStands ==
  ASSUME NEW n, NEW k \in Nat, \A j \in 1..k : Stands(n, j), NEW i,
         Fetches(node[n].spec, k, i)
  PROVE  i \in w.images
<1>1. PICK j \in 1..k : /\ Suite[node[n].spec].body[j].do \in {"Ensure", "Pull"}
                        /\ Suite[node[n].spec].body[j].y = i
  BY DEF Fetches
<1>2. Stands(n, j)
  OBVIOUS
<1> QED
  BY <1>1, <1>2 DEF Stands, Standing

LEMMA CtrStands ==
  ASSUME SoundWorld, NEW n, NEW k \in Nat, Prepares(node[n].spec, k),
         \A j \in 1..k : Stands(n, j), NEW c, Creates(node[n].spec, k, c)
  PROVE  /\ Val(n, c) = New(n, c) /\ New(n, c) \notin DOMAIN w.pods
         /\ New(n, c) \in DOMAIN w.ctrs /\ w.ctrs[New(n, c)].pod[1] = node[n].spec
         /\ "ends" \notin w.ctrs[New(n, c)].o
<1>1. PICK j \in 1..k : /\ Suite[node[n].spec].body[j].do \in Making
                        /\ Suite[node[n].spec].body[j].x = c
  BY DEF Creates
<1>2. Stands(n, j)
  OBVIOUS
<1>3. c \notin PodNames(node[n].spec)
  BY <1>1, PreparesIs
<1>4. New(n, c) \notin DOMAIN w.pods
  BY <1>3, NewOwn DEF SoundWorld, Sound, WellNamed
<1> QED
  BY <1>1, <1>2, <1>4 DEF Stands, Standing, Val, Var, New

LEMMA CtrRuns ==
  ASSUME NEW n, NEW k \in Nat, \A j \in 1..k : Stands(n, j), NEW c,
         Awaits(node[n].spec, k, c)
  PROVE  Val(n, c) = New(n, c) /\ StateOf(w, New(n, c)) = "RUNNING"
<1>1. PICK j \in 1..k : /\ Suite[node[n].spec].body[j].do = "Eventually"
                        /\ Suite[node[n].spec].body[j].x = c
                        /\ Suite[node[n].spec].body[j].y = "RUNNING"
                        /\ Creates(node[n].spec, j - 1, c)
  BY DEF Awaits
<1>2. Stands(n, j)
  OBVIOUS
<1>3. /\ Val(n, c) = New(n, c) /\ New(n, c) \notin DOMAIN w.pods
      /\ New(n, c) \in DOMAIN w.ctrs /\ w.ctrs[New(n, c)].st = "RUNNING"
  BY <1>1, <1>2 DEF Stands, Standing, Val, Var, New
<1> QED
  BY <1>3 DEF StateOf

(* What a step that prepares leaves as it is, and what it adds. *)
LEMMA PreparingKeeps ==
  ASSUME SoundWorld, NEW n, Step(n).do \in Preparing
  PROVE  /\ \A p \in DOMAIN w.pods :
              /\ p \in DOMAIN World(n).pods
              /\ w.pods[p].st = "READY" => World(n).pods[p].st = "READY"
         /\ w.images \subseteq World(n).images
         /\ \A c \in DOMAIN w.ctrs :
              \/ Step(n).do \in Making /\ c = New(n, Step(n).x)
              \/ /\ c \in DOMAIN World(n).ctrs
                 /\ World(n).ctrs[c].pod = w.ctrs[c].pod /\ World(n).ctrs[c].o = w.ctrs[c].o
                 /\ World(n).ctrs[c].st =
                      IF Step(n).do = "Start" /\ c = Val(n, Step(n).x) THEN "RUNNING"
                      ELSE w.ctrs[c].st
<1> DEFINE t == Step(n)
           z == New(n, t.x)
           v == World(n)
<1>1. CASE t.do = "RunPod"
  <2>1. v = RunPod(w, z, Effect(t.o))
    BY <1>1 DEF World
  <2> HIDE DEF t, z, v
  <2>2. /\ v.pods = Updated(w.pods, z, [st |-> "READY", o |-> Effect(t.o)])
        /\ v.ctrs = w.ctrs /\ v.images = w.images
    BY <2>1 DEF RunPod, SoundWorld, Sound, Shaped
  <2>3. \A p \in DOMAIN w.pods :
              /\ p \in DOMAIN v.pods
              /\ w.pods[p].st = "READY" => v.pods[p].st = "READY"
    BY <2>2 DEF Updated
  <2> QED
    BY <1>1, <2>2, <2>3 DEF v, t
<1>2. CASE t.do \in Making
  <2>1. v = CreateCtr(w, z, Val(n, t.y), Effect(t.o))
    BY <1>2 DEF World, Making
  <2> HIDE DEF t, z, v
  <2>2. /\ v.ctrs = Updated(w.ctrs, z, [pod |-> Val(n, t.y), st |-> "CREATED",
                                        o |-> Effect(t.o), wrote |-> FALSE])
        /\ v.pods = w.pods /\ v.images = w.images
    BY <2>1 DEF CreateCtr, SoundWorld, Sound, Shaped
  <2>3. \A c \in DOMAIN w.ctrs : c # z => c \in DOMAIN v.ctrs /\ v.ctrs[c] = w.ctrs[c]
    BY <2>2 DEF Updated
  <2> QED
    BY <1>2, <2>2, <2>3 DEF v, t, z, Making
<1>3. CASE t.do = "Start"
  <2>1. v = StartCtr(w, Val(n, t.x))
    BY <1>3 DEF World
  <2> HIDE DEF t, z, v
  <2>2. /\ v.ctrs = [w.ctrs EXCEPT ![Val(n, t.x)].st = "RUNNING"]
        /\ v.pods = w.pods /\ v.images = w.images
    BY <2>1 DEF StartCtr, SoundWorld, Sound, Shaped
  <2>3. \A c \in DOMAIN w.ctrs :
              /\ c \in DOMAIN v.ctrs /\ v.ctrs[c].pod = w.ctrs[c].pod
              /\ v.ctrs[c].o = w.ctrs[c].o
              /\ v.ctrs[c].st = IF c = Val(n, t.x) THEN "RUNNING" ELSE w.ctrs[c].st
    BY <2>2 DEF SoundWorld, Sound, Shaped
  <2> QED
    BY <1>3, <2>2, <2>3 DEF v, t
<1>4. CASE t.do \in {"Pull", "Ensure"}
  <2>1. v = PullImg(w, t.y)
    BY <1>4 DEF World
  <2> HIDE DEF t, z, v
  <2>2. v.images = w.images \cup {t.y} /\ v.pods = w.pods /\ v.ctrs = w.ctrs
    BY <2>1 DEF PullImg, SoundWorld, Sound, Shaped
  <2> QED
    BY <1>4, <2>2 DEF v, t
<1>5. CASE t.do = "Make"
  <2>1. v = Put(w, z, Val(n, t.y))
    BY <1>5 DEF World
  <2> HIDE DEF t, z, v
  <2>2. v.images = w.images /\ v.pods = w.pods /\ v.ctrs = w.ctrs
    BY <2>1 DEF Put, SoundWorld, Sound, Shaped
  <2> QED
    BY <1>5, <2>2 DEF v, t
<1>6. CASE t.do \in Preparing \ ({"RunPod", "Start", "Pull", "Ensure", "Make"} \cup Making)
  <2>1. v = w
    BY <1>6 DEF World, Preparing, Making, Skips
  <2> HIDE DEF t, z, v
  <2> QED
    BY <1>6, <2>1 DEF v, t
<1> HIDE DEF z, v
<1> QED
  BY <1>1, <1>2, <1>3, <1>4, <1>5, <1>6

(* A step that prepares assigns to a variable what is named after it.      *)
LEMMA PreparingBinds ==
  ASSUME NEW n, Step(n).do \in Preparing
  PROVE  /\ DOMAIN env[n] \subseteq DOMAIN Binds(n)
         /\ \A v \in DOMAIN Binds(n) :
              \/ v \in DOMAIN env[n] /\ Binds(n)[v] = env[n][v]
              \/ Binds(n)[v] = <<node[n].spec, v[2]>>
         /\ Step(n).do \in {"RunPod"} \cup Making =>
              Binds(n) = Updated(env[n], Var(n, Step(n).x), New(n, Step(n).x))
         /\ Step(n).do = "Once" => Var(n, Step(n).x) \in DOMAIN Binds(n)
<1> DEFINE Ties(f, g) == /\ DOMAIN f \subseteq DOMAIN g
                          /\ \A v \in DOMAIN g : \/ v \in DOMAIN f /\ g[v] = f[v]
                                                 \/ g[v] = <<node[n].spec, v[2]>>
<1>1. ASSUME NEW f, NEW x
      PROVE  Ties(f, Updated(f, Var(n, x), New(n, x)))
  <2>1. New(n, x) = <<node[n].spec, Var(n, x)[2]>>
    BY DEF New, Var
  <2> QED
    BY <2>1 DEF Updated
<1>2. \A f : Ties(f, f)
  OBVIOUS
<1>3. CASE Step(n).do \in {"RunPod", "Make"} \cup Making
  <2>1. Binds(n) = Updated(env[n], Var(n, Step(n).x), New(n, Step(n).x))
    BY <1>3 DEF Binds, Making
  <2>2. Ties(env[n], Binds(n))
    BY <1>1, <2>1
  <2>3. Step(n).do # "Once"
    BY <1>3 DEF Making
  <2> QED
    BY <2>1, <2>2, <2>3
<1>4. CASE Step(n).do = "Once"
  <2>1. CASE Var(n, Step(n).x) \notin DOMAIN env[n]
    <3>1. Binds(n) = Updated(env[n], Var(n, Step(n).x), New(n, Step(n).x))
      BY <1>4, <2>1 DEF Binds
    <3>2. Ties(env[n], Binds(n))
      BY <1>1, <3>1
    <3>3. Var(n, Step(n).x) \in DOMAIN Binds(n)
      BY <3>1 DEF Updated
    <3> QED
      BY <1>4, <3>2, <3>3 DEF Making
  <2>2. CASE Var(n, Step(n).x) \in DOMAIN env[n]
    <3>1. Binds(n) = env[n]
      BY <1>4, <2>2 DEF Binds
    <3> QED
      BY <1>2, <1>4, <2>2, <3>1 DEF Making
  <2> QED
    BY <2>1, <2>2
<1>5. CASE Step(n).do \notin {"RunPod", "Make", "Once"} \cup Making
  <2>1. Binds(n) = env[n]
    BY <1>5 DEF Binds, Preparing, Making, Skips
  <2> QED
    BY <1>2, <1>5, <2>1
<1> QED
  BY <1>3, <1>4, <1>5

(* What stood goes on standing, whatever the next step prepares. *)
LEMMA StandsOn ==
  ASSUME SoundWorld, NEW n, Step(n).do \in Preparing, Sound(World(n)),
         NEW s, s = node[n].spec, NEW j, Stands(n, j),
         Step(n).do \in Making =>
           ~Creates(s, j - 1, Step(n).x) /\
           ~(Suite[s].body[j].do \in Making /\ Suite[s].body[j].x = Step(n).x),
         \A c : Creates(s, j - 1, c) => c \notin PodNames(s)
  PROVE  Standing(s, j, node[n].context, Binds(n), World(n))
<1> DEFINE t == Suite[s].body[j]
           x == <<s, t.x>>
           a == <<node[n].context, t.x>>
           e == Binds(n)
           v == World(n)
           Bound == a \in DOMAIN e /\ e[a] = x
           Sure == x \in DOMAIN v.ctrs /\ v.ctrs[x].pod[1] = s /\ "ends" \notin v.ctrs[x].o
<1>1. /\ t.do = "RunPod" => /\ a \in DOMAIN env[n] /\ env[n][a] = x
                            /\ x \in DOMAIN w.pods /\ w.pods[x].st = "READY"
      /\ t.do \in {"Ensure", "Pull"} => t.y \in w.images
      /\ t.do \in Making => /\ a \in DOMAIN env[n] /\ env[n][a] = x
                            /\ x \in DOMAIN w.ctrs /\ w.ctrs[x].pod[1] = s
                            /\ "ends" \notin w.ctrs[x].o
      /\ t.do = "Eventually" /\ t.y = "RUNNING" /\ Creates(s, j - 1, t.x) =>
           /\ a \in DOMAIN env[n] /\ env[n][a] = x
           /\ x \in DOMAIN w.ctrs /\ w.ctrs[x].pod[1] = s /\ "ends" \notin w.ctrs[x].o
           /\ x \notin DOMAIN w.pods /\ w.ctrs[x].st = "RUNNING"
  BY DEF Stands, Standing
<1>2. a \in DOMAIN env[n] /\ env[n][a] = x => Bound
  <2>1. x = <<node[n].spec, a[2]>>
    OBVIOUS
  <2>2. /\ DOMAIN env[n] \subseteq DOMAIN e
        /\ \A z \in DOMAIN e : \/ z \in DOMAIN env[n] /\ e[z] = env[n][z]
                              \/ e[z] = <<node[n].spec, z[2]>>
    BY PreparingBinds
  <2> HIDE DEF a, x, e
  <2> QED
    BY <2>1, <2>2
<1>3. x[1] = s /\ x[2] = t.x
  OBVIOUS
<1>4. Step(n).do \in Making /\ x = New(n, Step(n).x) => t.x = Step(n).x
  BY DEF New
<1>9. /\ \A p \in DOMAIN w.pods :
              /\ p \in DOMAIN v.pods
              /\ w.pods[p].st = "READY" => v.pods[p].st = "READY"
      /\ w.images \subseteq v.images
      /\ \A c \in DOMAIN w.ctrs :
           \/ Step(n).do \in Making /\ c = New(n, Step(n).x)
           \/ /\ c \in DOMAIN v.ctrs
              /\ v.ctrs[c].pod = w.ctrs[c].pod /\ v.ctrs[c].o = w.ctrs[c].o
              /\ v.ctrs[c].st = IF Step(n).do = "Start" /\ c = Val(n, Step(n).x) THEN "RUNNING"
                                ELSE w.ctrs[c].st
  BY PreparingKeeps
<1>10. /\ t.do \in Making => x # New(n, Step(n).x) \/ Step(n).do \notin Making
       /\ Creates(s, j - 1, t.x) => x # New(n, Step(n).x) \/ Step(n).do \notin Making
  BY <1>4
<1>11. Sound(v) /\ t = Suite[s].body[j]
  OBVIOUS
<1>12. Creates(s, j - 1, t.x) => t.x \notin PodNames(s)
  OBVIOUS
<1> HIDE DEF Bound, a, e, v, t, x
<1>5. t.do = "RunPod" => Bound /\ x \in DOMAIN v.pods /\ v.pods[x].st = "READY"
  BY <1>1, <1>2, <1>9
<1>6. t.do \in {"Ensure", "Pull"} => t.y \in v.images
  BY <1>1, <1>9
<1>7. t.do \in Making => Bound /\ Sure
  BY <1>1, <1>2, <1>9, <1>10
<1>8. ASSUME t.do = "Eventually", t.y = "RUNNING", Creates(s, j - 1, t.x)
      PROVE  Bound /\ Sure /\ x \notin DOMAIN v.pods /\ v.ctrs[x].st = "RUNNING"
  <2>1. Bound /\ Sure /\ v.ctrs[x].st = "RUNNING"
    BY <1>1, <1>2, <1>8, <1>9, <1>10
  <2>2. x \notin DOMAIN v.pods
    BY <1>3, <1>8, <1>11, <1>12 DEF Sound, WellNamed
  <2> QED
    BY <2>1, <2>2
<1> QED
  BY <1>5, <1>6, <1>7, <1>8 DEF Standing, Bound, a, e, v, t, x

(* A step that prepares leaves what is said of it. *)
LEMMA StandsNew ==
  ASSUME SoundWorld, NEW n, NEW s \in DOMAIN Suite, s = node[n].spec, NEW k \in Nat,
         Prepares(s, k + 1), \A j \in 1..k : Stands(n, j),
         Step(n) = Suite[s].body[k + 1], Succeeds(n)
  PROVE  Standing(s, k + 1, node[n].context, Binds(n), World(n))
<1> DEFINE t == Step(n)
           x == <<s, t.x>>
           a == <<node[n].context, t.x>>
           e == Binds(n)
           v == World(n)
<1>0. s # "" /\ New(n, t.x) = x /\ Var(n, t.x) = a /\ x[1] = s /\ (k + 1) - 1 = k
  <2>1. s # ""
    BY StepsTyped
  <2>2. New(n, t.x) = x /\ Var(n, t.x) = a
    BY DEF New, Var
  <2>3. x[1] = s
    OBVIOUS
  <2>4. (k + 1) - 1 = k
    OBVIOUS
  <2> QED
    BY <2>1, <2>2, <2>3, <2>4
<1>1. /\ t.do \in Preparing
      /\ t.do \in Making => "ends" \notin t.o /\ Runs(s, k, t.y)
  BY DEF Prepares
<1>2. t.do \in {"RunPod"} \cup Making => a \in DOMAIN e /\ e[a] = x
  <2>1. t.do \in {"RunPod"} \cup Making => e = Updated(env[n], a, x)
    BY <1>0, <1>1, PreparingBinds
  <2> HIDE DEF t, x, a, e
  <2> QED
    BY <2>1 DEF Updated
<1>3. ASSUME t.do = "RunPod"
      PROVE  x \in DOMAIN v.pods /\ v.pods[x].st = "READY"
  <2>1. v = RunPod(w, x, Effect(t.o))
    BY <1>0, <1>3 DEF World
  <2> HIDE DEF t, x, v
  <2>2. v.pods = Updated(w.pods, x, [st |-> "READY", o |-> Effect(t.o)])
    BY <2>1 DEF RunPod, SoundWorld, Sound, Shaped
  <2> QED
    BY <2>2 DEF Updated
<1>4. ASSUME t.do \in {"Ensure", "Pull"}
      PROVE  t.y \in v.images
  <2>1. v = PullImg(w, t.y)
    BY <1>4 DEF World
  <2> HIDE DEF t, v
  <2> QED
    BY <2>1 DEF PullImg, SoundWorld, Sound, Shaped
<1>5. ASSUME t.do \in Making
      PROVE  x \in DOMAIN v.ctrs /\ v.ctrs[x].pod[1] = s /\ "ends" \notin v.ctrs[x].o
  <2> DEFINE y == Val(n, t.y)
  <2>1. v = CreateCtr(w, x, y, Effect(t.o))
    BY <1>0, <1>5 DEF World, Making
  <2>2. y[1] = s
    <3>1. Val(n, t.y) = New(n, t.y)
      BY <1>1, <1>5, PodStands
    <3> QED
      BY <3>1 DEF New
  <2>3. "ends" \notin Effect(t.o)
    BY <1>1, <1>5 DEF Effect
  <2> HIDE DEF t, x, v, y
  <2>4. v.ctrs = Updated(w.ctrs, x, [pod |-> y, st |-> "CREATED", o |-> Effect(t.o),
                                     wrote |-> FALSE])
    BY <2>1 DEF CreateCtr, SoundWorld, Sound, Shaped
  <2>5. x \in DOMAIN v.ctrs /\ v.ctrs[x].pod = y /\ v.ctrs[x].o = Effect(t.o)
    BY <2>4 DEF Updated
  <2> QED
    BY <2>2, <2>3, <2>5
<1>6. ASSUME t.do = "Eventually", t.y = "RUNNING", Creates(s, k, t.x)
      PROVE  /\ a \in DOMAIN e /\ e[a] = x
             /\ x \in DOMAIN v.ctrs /\ v.ctrs[x].pod[1] = s /\ "ends" \notin v.ctrs[x].o
             /\ x \notin DOMAIN v.pods /\ v.ctrs[x].st = "RUNNING"
  <2>1. v = w /\ e = env[n]
    BY <1>6 DEF World, Binds
  <2>2. Prepares(node[n].spec, k) /\ Creates(node[n].spec, k, t.x)
    BY <1>6, PreparesLess
  <2> DEFINE c == t.x
  <2>6. x = New(n, c) /\ Creates(node[n].spec, k, c)
    BY <1>0, <2>2
  <2>3. /\ Val(n, t.x) = x /\ x \notin DOMAIN w.pods
        /\ x \in DOMAIN w.ctrs /\ w.ctrs[x].pod[1] = s /\ "ends" \notin w.ctrs[x].o
    <3> HIDE DEF c, x
    <3>1. /\ Val(n, c) = x /\ x \notin DOMAIN w.pods
          /\ x \in DOMAIN w.ctrs /\ w.ctrs[x].pod[1] = s /\ "ends" \notin w.ctrs[x].o
      BY <2>2, <2>6, CtrStands
    <3> QED
      BY <3>1 DEF c
  <2>4. a \in DOMAIN e /\ e[a] = x
    <3>1. x # NoId
      BY <1>0 DEF NoId
    <3> QED
      BY <1>0, <2>1, <2>3, <3>1 DEF Val
  <2>5. StateOf(w, x) = "RUNNING"
    <3>1. Holds(Val(n, t.x), t.y)
      BY <1>6 DEF Succeeds
    <3> QED
      BY <1>6, <2>3, <3>1 DEF Holds
  <2> QED
    BY <2>1, <2>3, <2>4, <2>5 DEF StateOf
<1>7. t = Suite[s].body[k + 1]
  OBVIOUS
<1> HIDE DEF e, v
<1> QED
  BY <1>0, <1>2, <1>3, <1>4, <1>5, <1>6, <1>7 DEF Standing, e, v

(* Laid is inductive.                                                      *)
LEMMA LaidStep ==
  ASSUME Grounds, Course, Laid, [Next]_vars
  PROVE  Laid'
<1>0. plan' = plan /\ Types
  BY SpecsStep DEF Grounds
<1> SUFFICES ASSUME NEW n \in plan.nodes, InBody(n)', Prepares(node'[n].spec, Place(n)'),
                    NEW j \in 1..Place(n)'
             PROVE  Standing(node'[n].spec, j, node'[n].context, env'[n], w')
  BY <1>0 DEF Laid, Stands
<1> DEFINE s == node[n].spec
<1>1. Busy(n)' /\ node'[n].verdict = "passed" /\ ~node'[n].cleaning
  BY DEF InBody
<1>2. CASE Starts(n)
  <2>1. node'[n].spec \in DOMAIN Suite /\ node'[n].todo = Suite[node'[n].spec].body
    BY <1>2 DEF Starts
  <2>2. Len(Suite[node'[n].spec].body) \in Nat
    BY <2>1, BodyIs
  <2>3. Place(n)' = 0
    BY <2>1, <2>2 DEF Place
  <2> QED
    BY <2>3
<1>3. CASE Moves(n)
  <2> DEFINE k == Place(n)
  <2>1. InBody(n) /\ node'[n].spec = s /\ node'[n].context = node[n].context
    BY <1>1, <1>3 DEF Moves, InBody, Busy
  <2>2. /\ Place(n)' = k + 1 /\ k \in Nat /\ Step(n) = Suite[s].body[k + 1]
        /\ s \in DOMAIN Suite
    BY <1>0, <1>3, <2>1, BodyMoves, AtPlace
  <2>3. Prepares(s, k + 1)
    BY <2>1, <2>2
  <2>4. Prepares(s, k)
    BY <2>2, <2>3, PreparesLess
  <2>5. \A i \in 1..k : Stands(n, i)
    BY <2>1, <2>4 DEF Laid
  <2>6. Step(n).do \in Preparing
    <3>1. k + 1 \in 1..(k + 1)
      BY <2>2
    <3> QED
      BY <2>2, <2>3, <3>1 DEF Prepares
  <2>7. Perform(n)
    BY <1>3, <2>6 DEF Moves, Preparing, Making, Skips, Wanting, Refusals
  <2>8. w' = World(n) /\ env'[n] = Binds(n) /\ Succeeds(n) /\ node[n].todo # <<>>
    BY <1>0, <2>7 DEF Perform, Types, NodesOK
  <2>9. Sound(World(n)) /\ SoundWorld
    BY <2>8, WorldMinds DEF Grounds, SoundWorld, Minds
  <2> HIDE DEF k, s
  <2>10. CASE j = k + 1
    <3>1. Standing(s, k + 1, node[n].context, Binds(n), World(n))
      BY <2>2, <2>3, <2>5, <2>8, <2>9, StandsNew DEF s
    <3> QED
      BY <2>1, <2>8, <2>10, <3>1
  <2>11. CASE j \in 1..k
    <3>1. Stands(n, j)
      BY <2>5, <2>11
    <3>2. \A c : Creates(s, j - 1, c) => c \notin PodNames(s)
      <4> SUFFICES ASSUME NEW c, Creates(s, j - 1, c) PROVE c \notin PodNames(s)
        OBVIOUS
      <4>1. PICK i \in 1..(j - 1) : Suite[s].body[i].do \in Making /\ Suite[s].body[i].x = c
        BY DEF Creates
      <4>2. i \in 1..k
        BY <2>2, <2>11
      <4> QED
        BY <2>2, <2>4, <4>1, <4>2, PreparesIs
    <3>3. Step(n).do \in Making =>
            ~Creates(s, j - 1, Step(n).x) /\
            ~(Suite[s].body[j].do \in Making /\ Suite[s].body[j].x = Step(n).x)
      <4>1. k + 1 \in 1..(k + 1) /\ (k + 1) - 1 = k
        BY <2>2
      <4>2. Step(n).do \in Making => \A i \in 1..k :
              Suite[s].body[i].do \in Making => Suite[s].body[i].x # Step(n).x
        BY <2>2, <2>3, <4>1 DEF Prepares, Creates
      <4>3. \A i \in 1..(j - 1) : i \in 1..k
        BY <2>2, <2>11
      <4> QED
        BY <2>11, <4>2, <4>3 DEF Creates
    <3>4. Standing(s, j, node[n].context, Binds(n), World(n))
      BY <2>6, <2>9, <3>1, <3>2, <3>3, StandsOn DEF s
    <3> QED
      BY <2>1, <2>8, <3>4
  <2>12. j \in 1..k \/ j = k + 1
    BY <2>2
  <2> QED
    BY <2>10, <2>11, <2>12
<1>4. CASE Cleans(n)
  BY <1>1, <1>4 DEF Cleans
<1>5. CASE Stays(n)
  <2>1. node'[n] = node[n] /\ env'[n] = env[n]
    BY <1>5 DEF Stays
  <2>2. InBody(n) /\ Busy(n)
    <3>1. node[n].spec # "" /\ node[n].verdict = "passed"
      BY <1>1, <2>1 DEF Busy
    <3>2. ~node[n].cleaning
      BY <1>1, <2>1, Zenon
    <3> QED
      BY <3>1, <3>2, Zenon DEF InBody, Busy
  <2>3. Place(n)' = Place(n)
    BY <2>1 DEF Place
  <2>4. Prepares(s, Place(n)) /\ j \in 1..Place(n)
    BY <2>1, <2>3
  <2>5. Stands(n, j)
    BY <2>2, <2>4 DEF Laid
  <2>6. Spares(w, w', s)
    BY <1>5, <2>2, <2>4, StaysSpares DEF Prepares
  <2>7. s \in DOMAIN Suite /\ Suite[s].body[j] \in Steps(s)
    <3>1. /\ s \in DOMAIN Suite /\ Place(n) \in Nat
          /\ Place(n) <= Len(Suite[s].body)
      BY <1>0, <2>2, AtPlace
    <3>2. j \in 1..Len(Suite[s].body)
      BY <2>4, <3>1, BodyIs
    <3> QED
      BY <3>1, <3>2, BodyIs
  <2>8. Standing(s, j, node[n].context, env[n], w')
    BY <2>5, <2>6, <2>7, StandsKept DEF Stands
  <2> QED
    BY <2>1, <2>8
<1> QED
  BY <1>0, <1>1, <1>2, <1>3, <1>4, <1>5, WaysOn

-------------------------------------------------------------------------------
(* A step that looks does not succeed when the runtime ignores the option. *)

(* Nobody sees an option that the runtime ignores.                         *)
LEMMA Unseen ==
  ASSUME SoundWorld, NEW x, NEW S, NEW o \in S, o \in Absent
  PROVE  ~Seen(x, S)
<1>1. CASE x \in DOMAIN w.pods
  BY <1>1 DEF Seen, Options, SoundWorld, Sound, Faithful
<1>2. CASE x \notin DOMAIN w.pods /\ x \in DOMAIN w.ctrs
  <2>1. o \notin Effective(w, x)
    BY <1>2 DEF Effective, SoundWorld, Sound, Faithful
  <2> QED
    BY <1>2, <2>1 DEF Seen, Options
<1>3. CASE x \notin DOMAIN w.pods /\ x \notin DOMAIN w.ctrs
  BY <1>3 DEF Seen, StateOf
<1> QED
  BY <1>1, <1>2, <1>3

(* The heart of the matter: a step that succeeds does not attest an option *)
(* that the runtime ignores, given that its preparations stand.            *)
LEMMA NoneAttests ==
  ASSUME Types, SoundWorld, NEW n \in plan.nodes, NEW s \in DOMAIN Suite,
         s = node[n].spec, NEW k \in Nat, Step(n) = Suite[s].body[k + 1], Succeeds(n),
         Prepares(s, k) => \A j \in 1..k : Stands(n, j),
         NEW o \in plan.ignores
  PROVE  ~Attests(s, k + 1, o)
<1> SUFFICES ASSUME Attests(s, k + 1, o) PROVE FALSE
  OBVIOUS
<1> DEFINE t == Step(n)
<1>0. (k + 1) - 1 = k
  OBVIOUS
<1>1. o \in t.o /\ o \notin Effect(t.o) /\ Effect(t.o) \subseteq t.o
  BY DEF Attests, Effect, Absent
<1>2. CASE t.do \in Looks
  <2>1. ~Seen(Val(n, t.x), t.o)
    BY <1>1, Unseen DEF Absent
  <2>2. t.do \in {"Exec", "ExecOrSkip", "Shows", "ShowsOrSkip", "LogShows"} =>
          Seen(Val(n, t.x), t.o)
    BY DEF Succeeds
  <2>3. t.do = "Honors" => Effect(t.o) = t.o
    BY DEF Succeeds
  <2> QED
    BY <1>1, <1>2, <2>1, <2>2, <2>3 DEF Looks
<1>3. CASE t.do = "RunPodFails" /\ t.o \cap Invalid = {o} /\ t.o \cap HostPorts = {}
  <2>1. ~CanRunPod(w, Effect(t.o))
    BY <1>3 DEF Succeeds
  <2>2. Effect(t.o) \cap Invalid = {} /\ Effect(t.o) \cap HostPorts = {}
    BY <1>1, <1>3
  <2> QED
    BY <2>1, <2>2 DEF CanRunPod
<1>4. CASE /\ t.do \in {"CreateFails", "CreateRejected"} /\ t.o \cap Invalid = {o}
           /\ Prepares(s, k) /\ Runs(s, k, t.y) /\ Fetches(s, k, t.image)
  <2>1. \A j \in 1..k : Stands(n, j)
    BY <1>4
  <2>2. Val(n, t.y) = New(n, t.y) /\ StateOf(w, New(n, t.y)) = "READY" /\ t.image \in w.images
    BY <1>4, <2>1, PodStands, ImageStands
  <2>3. Effect(t.o) \cap Invalid = {}
    BY <1>1, <1>4
  <2>4. CanCreate(w, Val(n, t.y), t.image, Effect(t.o))
    BY <2>2, <2>3 DEF CanCreate
  <2> QED
    BY <1>4, <2>4 DEF Succeeds
<1>5. CASE t.do = "ExecRefused" /\ Prepares(s, k) /\ Awaits(s, k, t.x)
  <2>1. \A j \in 1..k : Stands(n, j)
    BY <1>5
  <2>2. Val(n, t.x) = New(n, t.x) /\ StateOf(w, New(n, t.x)) = "RUNNING"
    BY <1>5, <2>1, CtrRuns
  <2>3. Holds(Val(n, t.x), "RUNNING") => Seen(Val(n, t.x), t.o)
    BY <1>5 DEF Succeeds
  <2>4. Seen(Val(n, t.x), t.o)
    BY <2>2, <2>3 DEF Holds
  <2> QED
    BY <1>1, <2>4, Unseen DEF Absent
<1> QED
  BY <1>0, <1>2, <1>3, <1>4, <1>5 DEF Attests

(* Nor does a step succeed that asks for a feature that the runtime lacks. *)
LEMMA NoneDeclines ==
  ASSUME SoundWorld, NEW n \in plan.nodes, NEW s \in DOMAIN Suite,
         s = node[n].spec, NEW k \in Nat, Step(n) = Suite[s].body[k + 1], Succeeds(n),
         Prepares(s, k) => \A j \in 1..k : Stands(n, j),
         NEW f \in plan.lacks
  PROVE  ~Declines(s, k + 1, f)
<1> SUFFICES ASSUME Declines(s, k + 1, f) PROVE FALSE
  OBVIOUS
<1> DEFINE t == Step(n)
<1>0. (k + 1) - 1 = k
  OBVIOUS
<1>1. CASE t.do = "Skip" /\ t.y = f
  BY <1>1 DEF Succeeds
<1>2. CASE t.do \in {"CreateOrSkip", "CreateRejected"} /\ f = "image volume"
  BY <1>2 DEF Succeeds
<1>3. CASE t.do \in {"ShowsOrSkip", "ExecOrSkip"} /\ t.o \cap Needing(f) # {}
  <2>1. PICK o \in t.o : o \in Absent
    BY <1>3 DEF Absent
  <2>2. Seen(Val(n, t.x), t.o)
    BY <1>3 DEF Succeeds
  <2> QED
    BY <2>1, <2>2, Unseen
<1>4. CASE /\ t.do = "CreateRejected" /\ t.o \cap Invalid \subseteq Needing(f)
           /\ Prepares(s, k) /\ Runs(s, k, t.y) /\ Fetches(s, k, t.image)
  <2>1. \A j \in 1..k : Stands(n, j)
    BY <1>4
  <2>2. StateOf(w, Val(n, t.y)) = "READY" /\ t.image \in w.images
    BY <1>4, <2>1, PodStands, ImageStands
  <2>3. Needing(f) \subseteq Absent
    BY DEF Absent
  <2>4. Effect(t.o) \cap Invalid = {}
    BY <1>4, <2>3 DEF Effect
  <2>5. CanCreate(w, Val(n, t.y), t.image, Effect(t.o))
    BY <2>2, <2>4 DEF CanCreate
  <2> QED
    BY <1>4, <2>5 DEF Succeeds
<1> HIDE DEF t
<1> QED
  BY <1>0, <1>1, <1>2, <1>3, <1>4 DEF Declines, t

(* Told is inductive.                                                      *)
LEMMA ToldStep ==
  ASSUME Grounds, Course, Laid, Told, [Next]_vars
  PROVE  Told'
<1>0. plan' = plan /\ Types /\ SoundWorld
  BY SpecsStep DEF Grounds
<1> SUFFICES ASSUME NEW n \in plan.nodes, Busy(n)', node'[n].verdict = "passed",
                    ~Misled(node[n].spec)', NEW i \in 1..Behind(n)'
             PROVE  ~Refuted(plan, node'[n].spec, i)
  BY <1>0 DEF Told
<1> DEFINE s == node[n].spec
<1>9. node'[n].spec = s => ~Misled(s)
  BY MisledStays DEF Misled
<1>1. CASE Starts(n)
  <2>1. node'[n].spec \in DOMAIN Suite /\ node'[n].todo = Suite[node'[n].spec].body
        /\ ~node'[n].cleaning
    BY <1>1 DEF Starts
  <2>2. Len(Suite[node'[n].spec].body) \in Nat
    BY <2>1, BodyIs
  <2>3. Behind(n)' = 0
    BY <2>1, <2>2 DEF Behind, Place
  <2> QED
    BY <2>3
<1>2. CASE Moves(n)
  <2>1. /\ node'[n].spec = s /\ node'[n].cleaning = node[n].cleaning /\ Busy(n)
        /\ node[n].verdict = "passed" /\ node[n].todo # <<>>
    BY <1>2 DEF Moves, Busy
  <2>2. CASE node[n].cleaning
    <3>1. Behind(n)' = Behind(n)
      BY <2>1, <2>2 DEF Behind
    <3> QED
      BY <1>9, <2>1, <3>1 DEF Told
  <2>3. CASE ~node[n].cleaning
    <3> DEFINE k == Place(n)
    <3>1. InBody(n)
      BY <2>1, <2>3 DEF InBody
    <3>2. /\ Place(n)' = k + 1 /\ k \in Nat /\ Step(n) = Suite[s].body[k + 1]
          /\ s \in DOMAIN Suite
      BY <1>0, <1>2, <3>1, BodyMoves, AtPlace
    <3>3. Behind(n) = k /\ Behind(n)' = k + 1
      BY <2>1, <2>3, <3>2 DEF Behind
    <3>4. Prepares(s, k) => \A j \in 1..k : Stands(n, j)
      BY <3>1 DEF Laid
    <3> HIDE DEF k
    <3>5. CASE i \in 1..k
      BY <1>9, <2>1, <3>3, <3>5 DEF Told
    <3>6. CASE i = k + 1
      <4>1. CASE Perform(n)
        <5>1. Succeeds(n)
          BY <4>1 DEF Perform
        <5> QED
          BY <1>0, <2>1, <3>2, <3>4, <3>6, <5>1, NoneAttests, NoneDeclines DEF Refuted
      <4>2. CASE Step(n).do = "Discard"
        BY <2>1, <3>2, <3>6, <4>2 DEF Refuted, Attests, Declines, Looks
      <4>3. CASE Fault(n) /\ Step(n).do \in Wanting
        BY <2>1, <4>3, FaultSpent DEF Misled
      <4> QED
        BY <1>2, <4>1, <4>2, <4>3 DEF Moves
    <3>7. i \in 1..k \/ i = k + 1
      BY <3>2, <3>3
    <3> QED
      BY <3>5, <3>6, <3>7
  <2> QED
    BY <2>2, <2>3
<1>3. CASE Cleans(n)
  <2>1. /\ node[n].todo = <<>> /\ node'[n].spec = s /\ node'[n].cleaning /\ Busy(n)
        /\ node[n].verdict = "passed"
    BY <1>3 DEF Cleans, Busy
  <2>2. Behind(n)' = Len(Suite[s].body)
    BY <2>1 DEF Behind
  <2>3. Behind(n) = Len(Suite[s].body)
    <3>1. CASE node[n].cleaning
      BY <3>1 DEF Behind
    <3>2. CASE ~node[n].cleaning
      <4>1. InBody(n)
        BY <2>1, <3>2 DEF InBody
      <4> QED
        BY <1>0, <2>1, <3>2, <4>1, AtPlace DEF Behind
    <3> QED
      BY <3>1, <3>2
  <2> QED
    BY <1>9, <2>1, <2>2, <2>3 DEF Told
<1>4. CASE Stays(n)
  <2>1. node'[n] = node[n]
    BY <1>4 DEF Stays
  <2>2. Behind(n)' = Behind(n) /\ Busy(n) /\ node[n].verdict = "passed"
    BY <2>1 DEF Behind, Place, Busy
  <2> QED
    BY <1>9, <2>1, <2>2 DEF Told
<1> QED
  BY <1>0, <1>1, <1>2, <1>3, <1>4, WaysOn

(* Believed is inductive: a spec passes at its end only, when its whole    *)
(* body is behind it.                                                      *)
LEMMA BelievedStep ==
  ASSUME Grounds, Course, Told, Believed, [Next]_vars
  PROVE  Believed'
<1>0. plan' = plan /\ Types
  BY SpecsStep DEF Grounds
<1>9. \A t : Misled(t) => \E i \in DOMAIN spent' : spent'[i].spec = t /\ spent'[i].at \in Wanting
  BY SpentGrows DEF Misled
<1>1. CASE done' = done
  BY <1>0, <1>1, <1>9 DEF Believed, Misled
<1>2. ASSUME NEW n \in plan.nodes, Busy(n), NEW v,
             done' = Updated(done, node[n].spec, v),
             v = "passed" => node[n].verdict = "passed" /\ node[n].todo = <<>>
      PROVE  Believed'
  <2> DEFINE s == node[n].spec
  <2>1. s \in plan.specs /\ s \in DOMAIN Suite
    BY <1>0, <1>2, Chosen DEF Types, Vocabulary
  <2>2. ASSUME v = "passed", ~Misled(s), NEW i \in DOMAIN Suite[s].body
        PROVE  ~Refuted(plan, s, i)
    <3>1. node[n].verdict = "passed" /\ node[n].todo = <<>>
      BY <1>2, <2>2
    <3>2. Behind(n) = Len(Suite[s].body)
      <4>1. CASE node[n].cleaning
        BY <4>1 DEF Behind
      <4>2. CASE ~node[n].cleaning
        <5>1. InBody(n)
          BY <1>2, <3>1, <4>2 DEF InBody
        <5> QED
          BY <1>0, <3>1, <4>2, <5>1, AtPlace DEF Behind
      <4> QED
        BY <4>1, <4>2
    <3>3. i \in 1..Behind(n)
      BY <2>1, <3>2, BodyIs
    <3> QED
      BY <1>2, <2>2, <3>1, <3>3 DEF Told
  <2> HIDE DEF s
  <2>3. DOMAIN done' = DOMAIN done \cup {s} /\ done'[s] = v
        /\ \A t \in DOMAIN done : t # s => done'[t] = done[t]
    BY <1>2 DEF Updated, s
  <2> SUFFICES ASSUME NEW t \in DOMAIN done'
               PROVE  /\ t \in plan.specs
                      /\ done'[t] = "passed" /\ ~Misled(t) =>
                           \A i \in DOMAIN Suite[t].body : ~Refuted(plan, t, i)
    BY <1>0, <1>9 DEF Believed, Misled
  <2>4. CASE t = s
    BY <2>1, <2>2, <2>3, <2>4
  <2>5. CASE t # s
    BY <2>3, <2>5 DEF Believed
  <2> QED
    BY <2>4, <2>5
<1>3. CASE \E n \in plan.nodes : Leaves(n)
  <2> PICK n \in plan.nodes : Leaves(n)
    BY <1>3
  <2>1. Busy(n)
    BY <1>0, LeavesKeeps
  <2>2. CASE End(n)
    <3>1. done' = Updated(done, node[n].spec, node[n].verdict) /\ node[n].todo = <<>>
      BY <2>2 DEF End
    <3> QED
      BY <1>2, <2>1, <3>1
  <2>3. CASE \E k \in Removers : RemoverPanics(n, k)
    <3>1. done' = Updated(done, node[n].spec, "crashed")
      BY <2>3 DEF RemoverPanics
    <3> QED
      BY <1>2, <2>1, <3>1
  <2> QED
    BY <2>2, <2>3 DEF Leaves
<1>4. CASE \E n \in plan.nodes : Works(n) \/ \E s \in Left : Take(n, s)
  BY <1>0, <1>1, <1>4, WorksGoes DEF Take
<1>5. CASE Aside \/ UNCHANGED vars
  BY <1>1, <1>5, AsideKeeps DEF vars
<1> QED
  BY <1>3, <1>4, <1>5, NextCases

(* The inductive invariant for PassMeansConforming.                        *)
Passing == Grounds /\ Course /\ Laid /\ Told /\ Believed

LEMMA PassingInit ==
  ASSUME Init
  PROVE  Passing
<1>1. Grounds
  BY TypesInit, TurnsInit, OwnedInit, SoundInit, EmptySeq DEF Grounds, Recorded, Init
<1>2. \A n \in plan.nodes : ~Busy(n)
  BY DEF Init, Busy, Idle
<1>3. DOMAIN done = {}
  <2>1. done = <<>>
    BY DEF Init
  <2>2. \A f : f = <<>> => DOMAIN f = {}
    OBVIOUS
  <2> QED
    BY <2>1, <2>2
<1> QED
  BY <1>1, <1>2, <1>3 DEF Passing, Course, Laid, Told, Believed, InBody

(* A claim of a spec that is not Blind is attested by some step of it.     *)
LEMMA PassingConforms ==
  ASSUME Passing
  PROVE  PassMeansConforming
<1> SUFFICES ASSUME NEW s \in DOMAIN done \ Blind, done[s] = "passed", ~Misled(s),
                    NEW o \in plan.ignores, o \in Suite[s].claims
             PROVE  FALSE
  BY DEF PassMeansConforming
<1>1. s \in DOMAIN Suite
  BY Chosen DEF Passing, Grounds, Types, Believed
<1>2. PICK i \in DOMAIN Suite[s].body : Attests(s, i, o)
  BY <1>1, ClaimsAssumption
<1> QED
  BY <1>2 DEF Passing, Believed, Refuted

(* A spec of critest that passes has seen what its title says: no runtime  *)
(* that ignores an option the spec is about gets it to pass, whatever      *)
(* calls fail on the way, unless it is one of which the spec wants an      *)
(* error and that has another, whatever else the processes run, and for    *)
(* every suite that is written as CritestClaims says.                      *)
THEOREM PassMeansConformingCorrect == Spec => []PassMeansConforming
<1>1. Grounds' /\ Passing /\ [Next]_vars => Passing'
  BY CourseStep, LaidStep, ToldStep, BelievedStep DEF Passing, Grounds
<1>2. Passing => PassMeansConforming
  BY PassingConforms
<1> QED
  BY <1>1, <1>2, PassingInit, GroundsCorrect, PTL DEF Spec
-------------------------------------------------------------------------------
(* Specs that ask for a feature: what SkippedMeansMissing adds to Passing. *)

(* The ids that a process has of its own spec are named as its variables.  *)
OwnNames(s, e) == \A v \in DOMAIN e : e[v][1] = s => e[v] = <<s, v[2]>>

(* The container that the step at place j has made has been started by the *)
(* steps up to place k, or not yet; it has its options, but those absent   *)
(* from the runtime.                                                       *)
Phase(s, j, k, u, absent) ==
  LET t == Suite[s].body[j]
      c == u.ctrs[<<s, t.x>>]
  IN  t.do \in Making =>
        /\ c.st = IF Begun(s, j, k, t.x) THEN "RUNNING" ELSE "CREATED"
        /\ t.o \ absent \subseteq c.o

(* What is asked for once is known, or known to be unknown.                *)
Answered(s, j, context, e) ==
  Suite[s].body[j].do = "Once" => <<context, Suite[s].body[j].x>> \in DOMAIN e

Phased == \A n \in plan.nodes : InBody(n) /\ Prepares(node[n].spec, Place(n)) =>
  /\ OwnNames(node[n].spec, env[n])
  /\ \A j \in 1..Place(n) : /\ Phase(node[n].spec, j, Place(n), w, Absent)
                            /\ Answered(node[n].spec, j, node[n].context, env[n])

(* A step that prepares names what it makes after its variable.            *)
LEMMA NamesOn ==
  ASSUME NEW n, Step(n).do \in Preparing, OwnNames(node[n].spec, env[n])
  PROVE  OwnNames(node[n].spec, Binds(n))
<1>1. \A v \in DOMAIN Binds(n) :
        \/ v \in DOMAIN env[n] /\ Binds(n)[v] = env[n][v]
        \/ Binds(n)[v] = <<node[n].spec, v[2]>>
  BY PreparingBinds
<1> SUFFICES ASSUME NEW v \in DOMAIN Binds(n), Binds(n)[v][1] = node[n].spec
             PROVE  Binds(n)[v] = <<node[n].spec, v[2]>>
  BY DEF OwnNames
<1> QED
  BY <1>1 DEF OwnNames

(* Its variables of other things are not taken for one of its own.         *)
LEMMA ValOwn ==
  ASSUME NEW n, node[n].spec # "", OwnNames(node[n].spec, env[n]), NEW x,
         NEW c, c[1] = node[n].spec, Val(n, x) = c
  PROVE  c = New(n, x)
<1>1. CASE Var(n, x) \in DOMAIN env[n]
  <2>1. env[n][Var(n, x)] = c /\ Var(n, x)[2] = x
    BY <1>1 DEF Val, Var
  <2>2. env[n][Var(n, x)] = <<node[n].spec, Var(n, x)[2]>>
    BY <1>1, <2>1 DEF OwnNames
  <2> QED
    BY <2>1, <2>2 DEF New
<1>2. CASE Var(n, x) \notin DOMAIN env[n]
  <2>1. c = NoId
    BY <1>2 DEF Val
  <2>2. NoId[1] = ""
    BY DEF NoId
  <2> QED
    BY <2>1, <2>2
<1> QED
  BY <1>1, <1>2

(* The container that a step has just made is not running yet.             *)
LEMMA PhaseNew ==
  ASSUME SoundWorld, NEW n, NEW s, s = node[n].spec, NEW k \in Nat,
         Step(n) = Suite[s].body[k + 1]
  PROVE  Phase(s, k + 1, k + 1, World(n), Absent)
<1> DEFINE t == Step(n)
           x == <<s, t.x>>
           v == World(n)
<1> SUFFICES ASSUME t.do \in Making
             PROVE  /\ v.ctrs[x].st = IF Begun(s, k + 1, k + 1, t.x) THEN "RUNNING" ELSE "CREATED"
                    /\ t.o \ Absent \subseteq v.ctrs[x].o
  BY DEF Phase
<1>1. ~Begun(s, k + 1, k + 1, t.x)
  BY DEF Begun
<1>2. v = CreateCtr(w, x, Val(n, t.y), Effect(t.o))
  BY DEF World, Making, New
<1> HIDE DEF t, x, v
<1>3. v.ctrs = Updated(w.ctrs, x, [pod |-> Val(n, t.y), st |-> "CREATED",
                                   o |-> Effect(t.o), wrote |-> FALSE])
  BY <1>2 DEF CreateCtr, SoundWorld, Sound, Shaped
<1>4. v.ctrs[x].st = "CREATED" /\ v.ctrs[x].o = Effect(t.o)
  BY <1>3 DEF Updated
<1> QED
  BY <1>1, <1>4 DEF Effect

LEMMA OneMore ==
  ASSUME NEW k \in Nat, NEW j \in 1..k
  PROVE  \A i : i \in (j + 1)..(k + 1) <=> i \in (j + 1)..k \/ i = k + 1
<1>1. j \in Int /\ j <= k
  OBVIOUS
<1> QED
  BY <1>1

(* One more step starts the container, or leaves it as it is.              *)
LEMMA PhaseOn ==
  ASSUME SoundWorld, NEW n, NEW s, s = node[n].spec, s # "", NEW k \in Nat, NEW j \in 1..k,
         Step(n) = Suite[s].body[k + 1], Step(n).do \in Preparing,
         OwnNames(s, env[n]), Stands(n, j), Phase(s, j, k, w, Absent),
         Step(n).do \in Making =>
           ~(Suite[s].body[j].do \in Making /\ Suite[s].body[j].x = Step(n).x)
  PROVE  Phase(s, j, k + 1, World(n), Absent)
<1> DEFINE q == Step(n)
           t == Suite[s].body[j]
           x == <<s, t.x>>
           v == World(n)
<1> SUFFICES ASSUME t.do \in Making
             PROVE  /\ v.ctrs[x].st = IF Begun(s, j, k + 1, t.x) THEN "RUNNING" ELSE "CREATED"
                    /\ t.o \ Absent \subseteq v.ctrs[x].o
  BY DEF Phase
<1>1. /\ x \in DOMAIN w.ctrs /\ Var(n, t.x) \in DOMAIN env[n] /\ env[n][Var(n, t.x)] = x
      /\ w.ctrs[x].st = IF Begun(s, j, k, t.x) THEN "RUNNING" ELSE "CREATED"
      /\ t.o \ Absent \subseteq w.ctrs[x].o
  BY DEF Stands, Standing, Phase, Var
<1>2. ~(q.do \in Making /\ x = New(n, q.x))
  BY DEF New
<1>3. /\ v.ctrs[x].st = IF q.do = "Start" /\ x = Val(n, q.x) THEN "RUNNING" ELSE w.ctrs[x].st
      /\ v.ctrs[x].o = w.ctrs[x].o
  <2>1. \/ q.do \in Making /\ x = New(n, q.x)
        \/ /\ v.ctrs[x].st = IF q.do = "Start" /\ x = Val(n, q.x) THEN "RUNNING"
                             ELSE w.ctrs[x].st
           /\ v.ctrs[x].o = w.ctrs[x].o
    <3>1. \A c \in DOMAIN w.ctrs :
            \/ q.do \in Making /\ c = New(n, q.x)
            \/ /\ v.ctrs[c].st = IF q.do = "Start" /\ c = Val(n, q.x) THEN "RUNNING"
                                 ELSE w.ctrs[c].st
               /\ v.ctrs[c].o = w.ctrs[c].o
      BY PreparingKeeps
    <3> HIDE DEF q, x, v
    <3> QED
      BY <1>1, <3>1
  <2> HIDE DEF q, x, v
  <2> QED
    BY <1>2, <2>1
<1>4. x = Val(n, q.x) <=> q.x = t.x
  <2>1. CASE q.x = t.x
    BY <1>1, <2>1 DEF Val
  <2>2. CASE q.x # t.x
    <3>1. x[1] = s /\ x # New(n, q.x)
      BY <2>2 DEF New
    <3> QED
      BY <2>2, <3>1, ValOwn
  <2> QED
    BY <2>1, <2>2
<1>5. Begun(s, j, k + 1, t.x) <=> Begun(s, j, k, t.x) \/ (q.do = "Start" /\ q.x = t.x)
  <2>1. \A i : i \in (j + 1)..(k + 1) <=> i \in (j + 1)..k \/ i = k + 1
    BY OneMore
  <2>2. q = Suite[s].body[k + 1]
    OBVIOUS
  <2> HIDE DEF q, t
  <2> QED
    BY <2>1, <2>2 DEF Begun
<1> HIDE DEF q, t, x, v
<1> QED
  BY <1>1, <1>3, <1>4, <1>5

(* A step leaves what was asked for known, and one that asks makes it so.  *)
LEMMA AnsweredOn ==
  ASSUME NEW n, NEW s, NEW k \in Nat, Step(n) = Suite[s].body[k + 1],
         Step(n).do \in Preparing,
         \A j \in 1..k : Answered(s, j, node[n].context, env[n])
  PROVE  \A j \in 1..(k + 1) : Answered(s, j, node[n].context, Binds(n))
<1>1. /\ DOMAIN env[n] \subseteq DOMAIN Binds(n)
      /\ Step(n).do = "Once" => Var(n, Step(n).x) \in DOMAIN Binds(n)
  BY PreparingBinds
<1> SUFFICES ASSUME NEW j \in 1..(k + 1)
             PROVE  Answered(s, j, node[n].context, Binds(n))
  OBVIOUS
<1>2. CASE j = k + 1
  BY <1>1, <1>2 DEF Answered, Var
<1>3. CASE j \in 1..k
  BY <1>1, <1>3 DEF Answered
<1> QED
  BY <1>2, <1>3

(* Phased is inductive.                                                    *)
LEMMA PhasedStep ==
  ASSUME Grounds, Course, Laid, Phased, [Next]_vars
  PROVE  Phased'
<1>0. plan' = plan /\ Types /\ SoundWorld /\ Absent' = Absent
  BY SpecsStep DEF Grounds, Absent
<1> SUFFICES ASSUME NEW n \in plan.nodes, InBody(n)', Prepares(node'[n].spec, Place(n)')
             PROVE  /\ OwnNames(node'[n].spec, env'[n])
                    /\ \A j \in 1..Place(n)' :
                         /\ Phase(node'[n].spec, j, Place(n)', w', Absent)
                         /\ Answered(node'[n].spec, j, node'[n].context, env'[n])
  BY <1>0 DEF Phased
<1> DEFINE s == node[n].spec
<1>1. Busy(n)' /\ node'[n].verdict = "passed" /\ ~node'[n].cleaning
  BY DEF InBody
<1>2. CASE Starts(n)
  <2>1. node'[n].spec \in DOMAIN Suite /\ node'[n].todo = Suite[node'[n].spec].body
    BY <1>2 DEF Starts
  <2>2. Len(Suite[node'[n].spec].body) \in Nat
    BY <2>1, BodyIs
  <2>3. Place(n)' = 0
    BY <2>1, <2>2 DEF Place
  <2>4. PICK t \in Left : Take(n, t)
    BY <1>2 DEF Starts
  <2>5. node'[n].spec = t /\ t \notin DOMAIN done /\ t # "" /\ env' = env /\ node[n].spec = ""
    <3>1. t # "" /\ t \notin DOMAIN done /\ node'[n].spec = t
      BY <1>0, <2>4, TakeTyped
    <3>2. env' = env /\ node[n].spec = ""
      BY <2>4 DEF Take, Busy
    <3> QED
      BY <3>1, <3>2
  <2>6. \A v \in DOMAIN env[n] : env[n][v][1] # t
    BY <2>5 DEF Grounds, Owned
  <2>7. OwnNames(t, env[n])
    BY <2>6 DEF OwnNames
  <2>8. OwnNames(node'[n].spec, env'[n])
    BY <2>5, <2>7
  <2>9. 1..Place(n)' = {}
    BY <2>3
  <2> QED
    BY <2>8, <2>9
<1>3. CASE Moves(n)
  <2> DEFINE k == Place(n)
  <2>1. InBody(n) /\ node'[n].spec = s /\ node'[n].context = node[n].context
    BY <1>1, <1>3 DEF Moves, InBody, Busy
  <2>2. /\ Place(n)' = k + 1 /\ k \in Nat /\ Step(n) = Suite[s].body[k + 1]
        /\ s \in DOMAIN Suite
    BY <1>0, <1>3, <2>1, BodyMoves, AtPlace
  <2>3. Prepares(s, k + 1)
    BY <2>1, <2>2
  <2>4. Prepares(s, k)
    BY <2>2, <2>3, PreparesLess
  <2>5. \A i \in 1..k : Stands(n, i)
    BY <2>1, <2>4 DEF Laid
  <2>6. /\ OwnNames(s, env[n])
        /\ \A i \in 1..k : /\ Phase(s, i, k, w, Absent)
                           /\ Answered(s, i, node[n].context, env[n])
    BY <2>1, <2>4 DEF Phased
  <2>7. k + 1 \in 1..(k + 1) /\ (k + 1) - 1 = k
    BY <2>2
  <2>8. Step(n).do \in Preparing
    BY <2>2, <2>3, <2>7 DEF Prepares
  <2>9. Perform(n)
    BY <1>3, <2>8 DEF Moves, Preparing, Making, Skips, Wanting, Refusals
  <2>10. w' = World(n) /\ env'[n] = Binds(n)
    BY <1>0, <2>9 DEF Perform, Types, NodesOK
  <2>11. Step(n).do \in Making => \A i \in 1..k :
           Suite[s].body[i].do \in Making => Suite[s].body[i].x # Step(n).x
    BY <2>2, <2>3, <2>7 DEF Prepares, Creates
  <2>12. s # ""
    BY <2>2, StepsTyped
  <2>13. OwnNames(s, Binds(n))
    BY <2>6, <2>8, NamesOn
  <2>14. s = node[n].spec
    OBVIOUS
  <2> HIDE DEF k, s
  <2>16. \A j \in 1..(k + 1) : Answered(s, j, node[n].context, Binds(n))
    BY <2>2, <2>6, <2>8, AnsweredOn
  <2>15. ASSUME NEW j \in 1..(k + 1)
         PROVE  Phase(s, j, k + 1, World(n), Absent)
    <3>1. CASE j = k + 1
      BY <1>0, <2>2, <2>14, <3>1, PhaseNew
    <3>2. CASE j \in 1..k
      BY <1>0, <2>2, <2>5, <2>6, <2>8, <2>11, <2>12, <2>14, <3>2, PhaseOn
    <3> QED
      BY <2>2, <3>1, <3>2
  <2> QED
    BY <2>1, <2>2, <2>10, <2>13, <2>15, <2>16
<1>4. CASE Cleans(n)
  BY <1>1, <1>4 DEF Cleans
<1>5. CASE Stays(n)
  <2>1. node'[n] = node[n] /\ env'[n] = env[n]
    BY <1>5 DEF Stays
  <2>2. InBody(n) /\ Busy(n)
    <3>1. node[n].spec # "" /\ node[n].verdict = "passed"
      BY <1>1, <2>1 DEF Busy
    <3>2. ~node[n].cleaning
      BY <1>1, <2>1, Zenon
    <3> QED
      BY <3>1, <3>2, Zenon DEF InBody, Busy
  <2>3. Place(n)' = Place(n)
    BY <2>1 DEF Place
  <2>4. Prepares(s, Place(n))
    BY <2>1, <2>3
  <2>5. /\ OwnNames(s, env[n])
        /\ \A j \in 1..Place(n) : /\ Phase(s, j, Place(n), w, Absent) /\ Stands(n, j)
                                  /\ Answered(s, j, node[n].context, env[n])
    BY <2>2, <2>4 DEF Phased, Laid
  <2>6. Spares(w, w', s)
    BY <1>5, <2>2, <2>4, StaysSpares DEF Prepares
  <2>7. ASSUME NEW j \in 1..Place(n)
        PROVE  Phase(s, j, Place(n), w', Absent)
    <3>1. Phase(s, j, Place(n), w, Absent) /\ Standing(s, j, node[n].context, env[n], w)
      BY <2>5 DEF Stands
    <3>2. <<s, Suite[s].body[j].x>>[1] = s
      OBVIOUS
    <3> HIDE DEF s
    <3> QED
      BY <2>6, <3>1, <3>2 DEF Phase, Standing, Spares
  <2> QED
    BY <2>1, <2>3, <2>5, <2>7
<1> QED
  BY <1>0, <1>1, <1>2, <1>3, <1>4, <1>5, WaysOn

-------------------------------------------------------------------------------
(* A spec without its feature is skipped, and cleans up. *)

(* The spec is about a feature that the runtime of plan p lacks.           *)
Declining(p, s) == \E f \in p.lacks : Needing(f) \cap Suite[s].claims # {}

(* A step that cleans up has the id it needs, in the variables e.          *)
Ready(t, context, e) ==
  \/ t.do \in Lenient
  \/ /\ t.do \in {"StopPod", "RemovePod", "RemoveCtr"}
     /\ <<context, t.x>> \in DOMAIN e /\ e[<<context, t.x>>] # NoId
  \/ t.do = "IfSet" /\ \A u \in Elements(t.then) :
                         \/ u.do \in Lenient
                         \/ u.do \in {"StopPod", "RemovePod"} /\ u.x = t.x

All(units) == UNION {Elements(u) : u \in Elements(units)}

(* A process with a spec without its feature is in the body, before the    *)
(* step that declines, or has skipped the spec and cleans up; no step of   *)
(* it fails.                                                               *)
Patient(n) == InBody(n) /\ All(node[n].units) \subseteq Pending(node[n].spec, Place(n))

Declined(v, e) ==
  /\ v.verdict = "skipped"
  /\ \A t \in Elements(v.todo) \cup All(v.units) : Ready(t, v.context, e)

Graceful == plan.faults = 0 /\ plan.ignores = {} =>
  /\ spent = <<>>
  /\ \A n \in plan.nodes : Busy(n) /\ Declining(plan, node[n].spec) =>
       Patient(n) \/ Declined(node[n], env[n])
  /\ \A s \in DOMAIN done : Declining(plan, s) => done[s] = "skipped"

(* The elements of sequences.                                              *)
LEMMA ElementsIs ==
  ASSUME NEW S, NEW f \in Seq(S)
  PROVE  \A t : t \in Elements(f) <=> \E i \in 1..Len(f) : t = f[i]
  BY DEF Elements

LEMMA ConcatOf ==
  ASSUME NEW S, NEW f \in Seq(S), NEW g \in Seq(S)
  PROVE  Elements(f \o g) = Elements(f) \cup Elements(g)
<1>1. /\ f \o g \in Seq(S) /\ Len(f \o g) = Len(f) + Len(g)
      /\ Len(f) \in Nat /\ Len(g) \in Nat
      /\ \A i \in 1..(Len(f) + Len(g)) :
           (f \o g)[i] = IF i <= Len(f) THEN f[i] ELSE g[i - Len(f)]
  BY ConcatProperties
<1> DEFINE h == f \o g
<1>2. \A t : t \in Elements(h) <=> \E i \in 1..Len(h) : t = h[i]
  BY <1>1, ElementsIs
<1> HIDE DEF h
<1>3. \A t : t \in Elements(f) <=> \E i \in 1..Len(f) : t = f[i]
  BY ElementsIs
<1>4. \A t : t \in Elements(g) <=> \E i \in 1..Len(g) : t = g[i]
  BY ElementsIs
<1>5. ASSUME NEW t \in Elements(h)
      PROVE  t \in Elements(f) \cup Elements(g)
  <2> PICK i \in 1..Len(h) : t = h[i]
    BY <1>2
  <2>1. CASE i <= Len(f)
    BY <1>1, <1>3, <2>1 DEF h
  <2>2. CASE ~(i <= Len(f))
    <3>1. i - Len(f) \in 1..Len(g) /\ t = g[i - Len(f)]
      BY <1>1, <2>2 DEF h
    <3> QED
      BY <1>4, <3>1
  <2> QED
    BY <2>1, <2>2
<1>6. ASSUME NEW t \in Elements(f)
      PROVE  t \in Elements(h)
  <2> PICK i \in 1..Len(f) : t = f[i]
    BY <1>3
  <2>1. i \in 1..Len(h) /\ t = h[i]
    BY <1>1 DEF h
  <2> QED
    BY <1>2, <2>1
<1>7. ASSUME NEW t \in Elements(g)
      PROVE  t \in Elements(h)
  <2> PICK i \in 1..Len(g) : t = g[i]
    BY <1>4
  <2>1. /\ i + Len(f) \in 1..Len(h) /\ ~(i + Len(f) <= Len(f))
        /\ (i + Len(f)) - Len(f) = i
    BY <1>1 DEF h
  <2>2. t = h[i + Len(f)]
    BY <1>1, <2>1 DEF h
  <2> QED
    BY <1>2, <2>1, <2>2
<1> QED
  BY <1>5, <1>6, <1>7 DEF h

LEMMA ConsOf ==
  ASSUME NEW S, NEW u \in Seq(S), NEW f \in Seq(Seq(S))
  PROVE  Elements(<<u>> \o f) = {u} \cup Elements(f)
<1> DEFINE T == Seq(S)
<1>1. <<u>> \in Seq(T) /\ f \in Seq(T)
  OBVIOUS
<1>2. Elements(<<u>>) = {u}
  BY DEF Elements
<1> HIDE DEF T
<1>3. ASSUME NEW e \in Seq(T)
      PROVE  Elements(e \o f) = Elements(e) \cup Elements(f)
  BY <1>1, ConcatOf
<1>4. Elements(<<u>> \o f) = Elements(<<u>>) \cup Elements(f)
  BY <1>1, <1>3
<1> QED
  BY <1>2, <1>4

LEMMA DeferIn ==
  ASSUME NEW s, NEW k, NEW j \in 1..k, Suite[s].body[j].do = "Defer"
  PROVE  Elements(Suite[s].body[j].then) \subseteq Pending(s, k)
<1> DEFINE D == {i \in 1..k : Suite[s].body[i].do = "Defer"}
<1>1. j \in D
  OBVIOUS
<1> HIDE DEF D
<1>2. Elements(Suite[s].body[j].then) \in {Elements(Suite[s].body[i].then) : i \in D}
  BY <1>1
<1>3. UNION {Elements(Suite[s].body[i].then) : i \in D} \subseteq Pending(s, k)
  BY DEF Pending, D
<1> QED
  BY <1>2, <1>3

LEMMA TailIn ==
  ASSUME NEW S, NEW f \in Seq(S), f # <<>>
  PROVE  Head(f) \in Elements(f) /\ Elements(Tail(f)) \subseteq Elements(f)
<1>1. /\ Len(f) \in Nat /\ Len(f) # 0 /\ Head(f) = f[1] /\ Tail(f) \in Seq(S)
      /\ Len(Tail(f)) = Len(f) - 1
      /\ \A i \in 1..Len(Tail(f)) : Tail(f)[i] = f[i + 1]
  BY HeadTailProperties, EmptySeq
<1>2. \A t : t \in Elements(Tail(f)) <=> \E i \in 1..Len(Tail(f)) : t = Tail(f)[i]
  BY <1>1, ElementsIs
<1>3. \A t : t \in Elements(f) <=> \E i \in 1..Len(f) : t = f[i]
  BY ElementsIs
<1>4. 1 \in 1..Len(f) /\ \A i \in 1..Len(Tail(f)) : i + 1 \in 1..Len(f)
  BY <1>1
<1> QED
  BY <1>1, <1>2, <1>3, <1>4

(* In the body of such a spec the step that declines is still to come.     *)
LEMMA NotYet ==
  ASSUME Types, Course, Told, spent = <<>>, NEW n \in plan.nodes, InBody(n),
         Declining(plan, node[n].spec)
  PROVE  /\ node[n].todo # <<>> /\ Place(n) \in Nat /\ node[n].spec \in DOMAIN Suite
         /\ Step(n) = Suite[node[n].spec].body[Place(n) + 1]
         /\ Prepares(node[n].spec, Place(n)) /\ CannotFail(node[n].spec, Place(n))
         /\ Step(n).do \in Skips =>
              \A t \in Pending(node[n].spec, Place(n)) : Fit(node[n].spec, Place(n), t)
<1> DEFINE s == node[n].spec
           k == Place(n)
<1>1. /\ s \in DOMAIN Suite /\ k \in Nat
      /\ node[n].todo = <<>> => k = Len(Suite[s].body)
      /\ node[n].todo # <<>> => Step(n) = Suite[s].body[k + 1]
  BY AtPlace
<1>2. PICK f \in plan.lacks : Needing(f) \cap Suite[s].claims # {}
  BY DEF Declining
<1>3. f \in Features
  BY PlansAssumption DEF Types, NodesOK
<1>4. PICK i \in DOMAIN Suite[s].body :
        /\ Declines(s, i, f) /\ Prepares(s, i - 1)
        /\ \A j \in 0..(i - 1) :
             /\ CannotFail(s, j)
             /\ Suite[s].body[j + 1].do \in Skips => \A t \in Pending(s, j) : Fit(s, j, t)
  BY <1>1, <1>2, <1>3, LacksAssumption
<1>5. i \in Nat /\ i >= 1 /\ i <= Len(Suite[s].body) /\ Len(Suite[s].body) \in Nat
  BY <1>1, BodyIs
<1>6. ~(i <= k)
  <2> SUFFICES ASSUME i <= k PROVE FALSE
    OBVIOUS
  <2>1. Behind(n) = k /\ Busy(n) /\ node[n].verdict = "passed"
    BY DEF Behind, InBody
  <2>2. i \in 1..Behind(n)
    BY <1>1, <1>5, <2>1
  <2>3. ~Misled(s)
    <3>1. \A e : e = <<>> => DOMAIN e = {}
      OBVIOUS
    <3> QED
      BY <3>1 DEF Misled
  <2> QED
    BY <1>2, <1>4, <2>1, <2>2, <2>3 DEF Told, Refuted
<1>7. k \in 0..(i - 1) /\ i - 1 \in Nat
  BY <1>1, <1>5, <1>6
<1>8. Prepares(s, k)
  BY <1>4, <1>7, PreparesLess
<1>9. node[n].todo # <<>>
  BY <1>1, <1>5, <1>6
<1> QED
  BY <1>1, <1>4, <1>7, <1>8, <1>9

(* Up to there every step succeeds or skips.                               *)
LEMMA NoneFails ==
  ASSUME Types, SoundWorld, NEW n \in plan.nodes, NEW s, s = node[n].spec, NEW k \in Nat,
         Step(n) = Suite[s].body[k + 1], CannotFail(s, k), Prepares(s, k),
         \A j \in 1..k : Stands(n, j) /\ Phase(s, j, k, w, Absent), plan.ignores = {}
  PROVE  Succeeds(n) \/ Unsupported(n)
<1> DEFINE t == Step(n)
           x == Val(n, t.x)
<1>1. t = Suite[s].body[k + 1] /\ Effect(t.o) \subseteq t.o
  BY DEF Effect
<1>2. ASSUME NEW c, Creates(s, k, c)
      PROVE  /\ Val(n, c) = New(n, c)
             /\ StateOf(w, New(n, c)) \in {"CREATED", "RUNNING"}
             /\ ~Started(s, k, c) => StateOf(w, New(n, c)) = "CREATED"
  <2>1. PICK j \in 1..k : Suite[s].body[j].do \in Making /\ Suite[s].body[j].x = c
    BY <1>2 DEF Creates
  <2>2. w.ctrs[<<s, c>>].st = IF Begun(s, j, k, c) THEN "RUNNING" ELSE "CREATED"
    BY <2>1 DEF Phase
  <2>3. Begun(s, j, k, c) => Started(s, k, c)
    <3>1. \A i \in (j + 1)..k : i \in 1..k
      OBVIOUS
    <3> QED
      BY <3>1 DEF Begun, Started
  <2>4. New(n, c) = <<s, c>>
    BY DEF New
  <2>5. StateOf(w, New(n, c)) = w.ctrs[New(n, c)].st /\ Val(n, c) = New(n, c)
    BY <1>2, CtrStands DEF StateOf
  <2> QED
    BY <2>2, <2>3, <2>4, <2>5
<1>3. CASE t.do \in {"Ensure", "Pull", "Defer", "Once"}
  BY <1>3 DEF Succeeds
<1>4. CASE t.do = "Honors" /\ \A f \in Features : t.o \cap Needing(f) = {}
  <2>1. plan.lacks \subseteq Features
    BY PlansAssumption DEF Types, NodesOK
  <2>2. Effect(t.o) = t.o
    BY <1>4, <2>1 DEF Effect, Absent
  <2> QED
    BY <1>4, <2>2 DEF Succeeds
<1>5. CASE t.do = "RunPod" /\ t.o \cap Invalid = {} /\ t.o \cap HostPorts = {}
  <2>1. Effect(t.o) \cap Invalid = {} /\ Effect(t.o) \cap HostPorts = {}
    BY <1>1, <1>5
  <2>2. CanRunPod(w, Effect(t.o))
    BY <2>1 DEF CanRunPod
  <2> QED
    BY <1>5, <2>2 DEF Succeeds
<1>6. CASE t.do = "HasImage" /\ Fetches(s, k, t.y)
  <2>1. t.y \in w.images
    BY <1>6, ImageStands
  <2> QED
    BY <1>6, <2>1 DEF Succeeds
<1>7. CASE t.do \in Making /\ t.o \cap Invalid = {} /\ Runs(s, k, t.y) /\ Fetches(s, k, t.image)
  <2>1. StateOf(w, Val(n, t.y)) = "READY" /\ t.image \in w.images
    BY <1>7, PodStands, ImageStands
  <2>2. CanCreate(w, Val(n, t.y), t.image, Effect(t.o))
    BY <1>1, <1>7, <2>1 DEF CanCreate
  <2>3. CASE t.do = "Create"
    BY <2>2, <2>3 DEF Succeeds
  <2>4. CASE t.do = "CreateOrSkip"
    BY <2>2, <2>4 DEF Succeeds, Unsupported, Skips
  <2> QED
    BY <1>7, <2>3, <2>4 DEF Making
<1>11. CASE t.do \in Skips \ {"CreateOrSkip"}
  BY <1>11 DEF Unsupported
<1>8. CASE t.do = "Start" /\ Creates(s, k, t.x) /\ ~Started(s, k, t.x)
  <2>1. StateOf(w, x) = "CREATED"
    BY <1>2, <1>8
  <2> QED
    BY <1>8, <2>1 DEF Succeeds
<1>9. CASE t.do = "Expect" /\ t.y = "LISTED" /\ Creates(s, k, t.x)
  <2>1. StateOf(w, x) # "GONE"
    BY <1>2, <1>9
  <2> QED
    BY <1>9, <2>1 DEF Succeeds, Holds
<1>10. CASE t.do = "Shows" /\ t.o = {} /\ Creates(s, k, t.x)
  <2>1. StateOf(w, x) # "GONE"
    BY <1>2, <1>10
  <2> QED
    BY <1>10, <2>1 DEF Succeeds, Seen
<1> HIDE DEF t, x
<1> QED
  BY <1>1, <1>3, <1>4, <1>5, <1>6, <1>7, <1>8, <1>9, <1>10, <1>11 DEF CannotFail, t

(* Where it skips it has the ids for cleaning up.                          *)
LEMMA FitReady ==
  ASSUME SoundWorld, NEW n, node[n].spec # "", NEW k \in Nat, Prepares(node[n].spec, k),
         \A j \in 1..k : Stands(n, j), NEW t, Fit(node[n].spec, k, t)
  PROVE  Ready(t, node[n].context, env[n])
<1>1. ASSUME NEW x, Val(n, x) = New(n, x)
      PROVE  <<node[n].context, x>> \in DOMAIN env[n] /\ env[n][<<node[n].context, x>>] # NoId
  <2>1. New(n, x)[1] = node[n].spec /\ NoId[1] = ""
    BY DEF New, NoId
  <2>2. Val(n, x) # NoId
    BY <1>1, <2>1
  <2> QED
    BY <2>2 DEF Val, Var
<1>2. CASE t.do \in {"StopPod", "RemovePod"} /\ Runs(node[n].spec, k, t.x)
  BY <1>1, <1>2, PodStands DEF Ready
<1>3. CASE t.do = "RemoveCtr" /\ Creates(node[n].spec, k, t.x)
  BY <1>1, <1>3, CtrStands DEF Ready
<1> QED
  BY <1>2, <1>3 DEF Fit, Ready

(* Such a step succeeds, and what it leads to is of the kind.              *)
LEMMA ReadyGoes ==
  ASSUME Types, NEW n \in plan.nodes, node[n].todo # <<>>,
         Ready(Step(n), node[n].context, env[n])
  PROVE  /\ Succeeds(n) /\ Binds(n) = env[n] /\ Units(n) = node[n].units
         /\ \A t \in Elements(Rest(n)) :
              t \in Elements(node[n].todo) \/ Ready(t, node[n].context, env[n])
<1> DEFINE q == Step(n)
           Bound == <<node[n].context, q.x>> \in DOMAIN env[n]
                      /\ env[n][<<node[n].context, q.x>>] # NoId
<1>1. q.do \in {"StopPod", "RemovePod", "RemoveCtr", "IfSet"} \cup Lenient
  BY DEF Ready
<1>2. Bound <=> Val(n, q.x) # NoId
  BY DEF Val, Var
<1>3. q.do \in {"StopPod", "RemovePod", "RemoveCtr"} => Bound
  BY DEF Ready, Lenient
<1>4. Succeeds(n) /\ Binds(n) = env[n] /\ Units(n) = node[n].units
  BY <1>1, <1>2, <1>3 DEF Succeeds, Binds, Units, Lenient
<1>5. /\ node[n].todo \in Seq(Steps(node[n].spec)) /\ q.then \in Seq(Steps(node[n].spec))
      /\ Tail(node[n].todo) \in Seq(Steps(node[n].spec))
  BY InHand
<1>6. \A t \in Elements(Tail(node[n].todo)) : t \in Elements(node[n].todo)
  BY <1>5, TailIn
<1>7. ASSUME q.do = "IfSet", Bound, NEW t \in Elements(q.then)
      PROVE  Ready(t, node[n].context, env[n])
  BY <1>7 DEF Ready, Lenient
<1>8. CASE q.do = "IfSet" /\ Val(n, q.x) # NoId
  <2>1. Rest(n) = q.then \o Tail(node[n].todo)
    BY <1>8 DEF Rest
  <2>2. Elements(Rest(n)) = Elements(q.then) \cup Elements(Tail(node[n].todo))
    BY <1>5, <2>1, ConcatOf
  <2> QED
    BY <1>2, <1>4, <1>6, <1>7, <1>8, <2>2
<1>9. CASE ~(q.do = "IfSet" /\ Val(n, q.x) # NoId)
  <2>1. Rest(n) = Tail(node[n].todo)
    BY <1>9 DEF Rest
  <2> QED
    BY <1>4, <1>6, <2>1
<1> QED
  BY <1>8, <1>9

(* No fault happens in a plan of none.                                     *)
LEMMA NoneSpent ==
  ASSUME plan.faults = 0, spent = <<>>, NEW n
  PROVE  ~Fault(n) /\ \A k \in Removers : ~RemoverPanics(n, k)
<1>1. ~(Len(spent) < plan.faults)
  OBVIOUS
<1> QED
  BY <1>1 DEF Fault, RemoverPanics

(* What a step that succeeds makes of a process.                           *)
LEMMA PerformMakes ==
  ASSUME Types, NEW n \in plan.nodes, Perform(n)
  PROVE  /\ Moves(n) /\ node'[n].units = Units(n) /\ env'[n] = Binds(n)
         /\ node'[n].todo = Rest(n)
<1>1. node \in [plan.nodes -> NodeType] /\ DOMAIN env = plan.nodes
  BY DEF Types, NodesOK
<1>2. /\ node' = [node EXCEPT ![n].todo = Rest(n), ![n].units = Units(n)]
      /\ node[n].todo # <<>> /\ env' = [env EXCEPT ![n] = Binds(n)]
  BY DEF Perform
<1>3. /\ node'[n].spec = node[n].spec /\ node'[n].context = node[n].context
      /\ node'[n].cleaning = node[n].cleaning /\ node'[n].verdict = node[n].verdict
      /\ node'[n].todo = Rest(n) /\ node'[n].units = Units(n)
  BY <1>1, <1>2 DEF NodeType
<1> QED
  BY <1>1, <1>2, <1>3 DEF Moves

(* In the body such a spec goes on to its next step, or skips.             *)
LEMMA PatientGoes ==
  ASSUME Grounds, Course, Laid, Told, Phased, plan.faults = 0, plan.ignores = {},
         spent = <<>>, NEW n \in plan.nodes, Declining(plan, node[n].spec), Patient(n),
         Works(n)
  PROVE  Patient(n)' \/ Declined(node'[n], env'[n])
<1> DEFINE s == node[n].spec
           k == Place(n)
<1>0. Types /\ SoundWorld /\ InBody(n) /\ Busy(n)
  BY DEF Grounds, Patient, InBody
<1>1. /\ node[n].todo # <<>> /\ k \in Nat /\ s \in DOMAIN Suite
      /\ Step(n) = Suite[s].body[k + 1]
      /\ Prepares(s, k) /\ CannotFail(s, k)
      /\ Step(n).do \in Skips => \A t \in Pending(s, k) : Fit(s, k, t)
  BY <1>0, NotYet
<1>2. /\ \A j \in 1..k : Stands(n, j) /\ Phase(s, j, k, w, Absent)
      /\ All(node[n].units) \subseteq Pending(s, k)
  BY <1>0, <1>1 DEF Laid, Phased, Patient
<1>3. Succeeds(n) \/ Unsupported(n)
  BY <1>0, <1>1, <1>2, NoneFails
<1>4. CASE Perform(n)
  <2>1. Moves(n) /\ node'[n].units = Units(n)
    BY <1>0, <1>4, PerformMakes
  <2>2. Place(n)' = k + 1 /\ node'[n].spec = s
    BY <1>0, <2>1, BodyMoves DEF Moves
  <2>3. InBody(n)'
    <3>1. node[n].spec # "" /\ node[n].verdict = "passed" /\ ~node[n].cleaning
      BY <1>0 DEF InBody, Busy
    <3>2. node'[n].spec # "" /\ node'[n].verdict = "passed"
      BY <2>1, <3>1 DEF Moves
    <3>3. ~node'[n].cleaning
      BY <2>1, <3>1, Zenon DEF Moves
    <3> QED
      BY <3>2, <3>3, Zenon DEF InBody, Busy
  <2>4. Pending(s, k) \subseteq Pending(s, k + 1)
    <3>1. \A j \in 1..k : j \in 1..(k + 1)
      BY <1>1
    <3> QED
      <4>1. {Elements(Suite[s].body[j].then) : j \in {i \in 1..k : Suite[s].body[i].do = "Defer"}}
               \subseteq {Elements(Suite[s].body[j].then) :
                             j \in {i \in 1..(k + 1) : Suite[s].body[i].do = "Defer"}}
        BY <3>1
      <4>2. \A A, B : A \subseteq B => (UNION A) \subseteq (UNION B)
        OBVIOUS
      <4> QED
        BY <4>1, <4>2 DEF Pending
  <2>5. All(Units(n)) \subseteq Pending(s, k + 1)
    <3>1. CASE Step(n).do = "Defer"
      <4> DEFINE u == Step(n).then
      <4>1. u \in Seq(Steps(s)) /\ node[n].units \in Seq(Seq(Steps(s)))
        BY <1>0, <1>1, InHand
      <4>2. Units(n) = <<u>> \o node[n].units
        BY <3>1 DEF Units
      <4>3. Elements(Units(n)) = {u} \cup Elements(node[n].units)
        BY <4>1, <4>2, ConsOf
      <4>4. k + 1 \in 1..(k + 1) /\ Suite[s].body[k + 1].do = "Defer"
            /\ u = Suite[s].body[k + 1].then
        BY <1>1, <3>1
      <4> HIDE DEF u, k, s
      <4>5. Elements(u) \subseteq Pending(s, k + 1)
        BY <4>4, DeferIn
      <4> QED
        BY <1>2, <2>4, <4>3, <4>5 DEF All
    <3>2. CASE Step(n).do # "Defer"
      <4>1. Units(n) = node[n].units
        BY <3>2 DEF Units
      <4> QED
        BY <1>2, <2>4, <4>1
    <3> QED
      BY <3>1, <3>2
  <2> QED
    BY <2>1, <2>2, <2>3, <2>5 DEF Patient
<1>5. CASE SkipSpec(n)
  <2>1. Stops(n, "skipped") /\ env' = env /\ Step(n).do \in Skips
    BY <1>5 DEF SkipSpec, Unsupported
  <2>2. /\ node'[n].todo = <<>> /\ node'[n].units = node[n].units
        /\ node'[n].context = node[n].context /\ node'[n].verdict = "skipped"
    BY <1>0, <2>1 DEF Stops, Types, NodesOK, NodeType, InBody
  <2>3. \A t \in Pending(s, k) : Ready(t, node[n].context, env[n])
    BY <1>0, <1>1, <1>2, <2>1, FitReady DEF Busy
  <2>4. Elements(node'[n].todo) = {}
    BY <2>2 DEF Elements
  <2> QED
    BY <1>2, <2>1, <2>2, <2>3, <2>4 DEF Declined
<1>6. CASE Fail(n) \/ Accept(n)
  <2>1. ~Succeeds(n) /\ ~Unsupported(n)
    BY <1>6 DEF Fail, Accept, Refusals, Skips, Unsupported
  <2> QED
    BY <1>3, <2>1
<1>7. CASE Fault(n) \/ NextUnit(n)
  BY <1>1, <1>7, NoneSpent DEF NextUnit
<1> QED
  BY <1>4, <1>5, <1>6, <1>7 DEF Works

(* Once it has skipped it goes on to its end.                              *)
LEMMA DeclinedGoes ==
  ASSUME Types, plan.faults = 0, spent = <<>>, NEW n \in plan.nodes,
         Declined(node[n], env[n]), Works(n)
  PROVE  Declined(node'[n], env'[n])
<1>1. node \in [plan.nodes -> NodeType]
  BY DEF Types, NodesOK
<1>2. /\ node[n].verdict = "skipped"
      /\ \A t \in Elements(node[n].todo) \cup All(node[n].units) :
           Ready(t, node[n].context, env[n])
  BY DEF Declined
<1>3. ASSUME node[n].todo # <<>>
      PROVE  /\ Succeeds(n) /\ Binds(n) = env[n] /\ Units(n) = node[n].units
             /\ \A t \in Elements(Rest(n)) :
                  t \in Elements(node[n].todo) \/ Ready(t, node[n].context, env[n])
  <2>1. node[n].todo \in Seq(Steps(node[n].spec))
    BY <1>3, InHand
  <2>2. Step(n) \in Elements(node[n].todo)
    BY <1>3, <2>1, TailIn DEF Step
  <2> QED
    BY <1>2, <1>3, <2>2, ReadyGoes
<1>4. CASE Perform(n)
  <2>1. /\ node'[n].units = Units(n) /\ env'[n] = Binds(n) /\ node'[n].todo = Rest(n)
        /\ node'[n].verdict = node[n].verdict /\ node'[n].context = node[n].context
        /\ node[n].todo # <<>>
    BY <1>4, PerformMakes DEF Moves
  <2> QED
    BY <1>2, <1>3, <2>1 DEF Declined
<1>5. CASE SkipSpec(n) \/ Fail(n) \/ Accept(n)
  <2>1. node[n].todo # <<>> /\ ~Succeeds(n)
    BY <1>5 DEF SkipSpec, Fail, Accept
  <2> QED
    BY <1>3, <2>1
<1>6. CASE Fault(n)
  BY <1>6, NoneSpent
<1>7. CASE NextUnit(n)
  <2> DEFINE u == node[n].units
  <2>1. /\ Busy(n) /\ u # <<>> /\ env' = env
        /\ node' = [node EXCEPT ![n].todo = Head(u), ![n].units = Tail(@), ![n].cleaning = TRUE]
    BY <1>7 DEF NextUnit
  <2>2. /\ node'[n].todo = Head(u) /\ node'[n].units = Tail(u)
        /\ node'[n].verdict = node[n].verdict /\ node'[n].context = node[n].context
    BY <1>1, <2>1 DEF NodeType
  <2>3. u \in Seq(Seq(Steps(node[n].spec)))
    BY <2>1 DEF Types, Vocabulary
  <2>4. Head(u) \in Elements(u) /\ Elements(Tail(u)) \subseteq Elements(u)
    BY <2>1, <2>3, TailIn
  <2>5. Elements(Head(u)) \subseteq All(u) /\ All(Tail(u)) \subseteq All(u)
    BY <2>4 DEF All
  <2> QED
    BY <1>2, <2>1, <2>2, <2>5 DEF Declined
<1> QED
  BY <1>4, <1>5, <1>6, <1>7 DEF Works

(* A spec that is taken has only what runs after each spec of its context  *)
(* to clean up.                                                            *)
LEMMA TakenPatient ==
  ASSUME Types, NEW n \in plan.nodes, NEW s \in Left, Take(n, s)
  PROVE  Patient(n)'
<1>1. /\ s \in DOMAIN Suite /\ s # "" /\ node'[n].spec = s
      /\ node'[n].todo = Suite[s].body /\ node'[n].units = Suite[s].in.after
      /\ node'[n].cleaning = FALSE /\ node'[n].verdict = "passed"
  BY TakeTyped
<1>2. InBody(n)'
  BY <1>1 DEF InBody, Busy
<1>3. Place(n)' = Len(Suite[s].body) - Len(Suite[s].body)
  BY <1>1 DEF Place
<1>4. All(Suite[s].in.after) \subseteq Pending(s, Place(n)')
  BY DEF All, Pending
<1> QED
  BY <1>1, <1>2, <1>4 DEF Patient

(* Graceful is inductive.                                                  *)
LEMMA GracefulStep ==
  ASSUME Grounds, Course, Laid, Told, Phased, Graceful, [Next]_vars
  PROVE  Graceful'
<1>0. plan' = plan /\ Types
  BY SpecsStep DEF Grounds
<1> SUFFICES ASSUME plan.faults = 0, plan.ignores = {}
             PROVE  /\ spent' = <<>>
                    /\ \A n \in plan.nodes : node'[n].spec # "" /\ Declining(plan, node'[n].spec) =>
                         Patient(n)' \/ Declined(node'[n], env'[n])
                    /\ \A s \in DOMAIN done' : Declining(plan, s) => done'[s] = "skipped"
  BY <1>0 DEF Graceful, Busy
<1>1. /\ spent = <<>>
      /\ \A n \in plan.nodes : Busy(n) /\ Declining(plan, node[n].spec) =>
           Patient(n) \/ Declined(node[n], env[n])
      /\ \A s \in DOMAIN done : Declining(plan, s) => done[s] = "skipped"
  BY DEF Graceful
<1>2. ASSUME NEW n \in plan.nodes, node'[n] = node[n], env'[n] = env[n],
             node'[n].spec # "", Declining(plan, node'[n].spec)
      PROVE  Patient(n)' \/ Declined(node'[n], env'[n])
  <2>1. Busy(n) /\ Declining(plan, node[n].spec)
    BY <1>2 DEF Busy
  <2>2. CASE Declined(node[n], env[n])
    BY <1>2, <2>2
  <2>3. CASE Patient(n)
    <3>1. node[n].spec # "" /\ node[n].verdict = "passed" /\ ~node[n].cleaning
          /\ All(node[n].units) \subseteq Pending(node[n].spec, Place(n))
      BY <2>3 DEF Patient, InBody, Busy
    <3>2. Place(n)' = Place(n) /\ node'[n].spec # "" /\ node'[n].verdict = "passed"
      BY <1>2, <3>1 DEF Place
    <3>3. ~node'[n].cleaning
      BY <1>2, <3>1, Zenon
    <3>4. InBody(n)'
      BY <3>2, <3>3, Zenon DEF InBody, Busy
    <3> QED
      BY <1>2, <3>1, <3>2, <3>4 DEF Patient
  <2> QED
    BY <1>1, <2>1, <2>2, <2>3
<1>3. CASE \E m \in plan.nodes : Works(m)
  <2> PICK m \in plan.nodes : Works(m)
    BY <1>3
  <2>1. /\ Busy(m) /\ done' = done /\ node'[m].spec = node[m].spec
        /\ \A n \in plan.nodes : n # m => node'[n] = node[n] /\ env'[n] = env[n]
    BY <1>0, WorksGoes DEF Going
  <2>2. spent' = <<>>
    <3>1. ~Fault(m)
      BY <1>1, NoneSpent
    <3> QED
      BY <1>1, <3>1 DEF Works, Perform, SkipSpec, Fail, Accept, NextUnit
  <2>3. Declining(plan, node[m].spec) => Patient(m)' \/ Declined(node'[m], env'[m])
    BY <1>0, <1>1, <2>1, PatientGoes, DeclinedGoes
  <2> QED
    BY <1>1, <1>2, <2>1, <2>2, <2>3
<1>4. CASE \E m \in plan.nodes : Leaves(m)
  <2> PICK m \in plan.nodes : Leaves(m)
    BY <1>4
  <2>1. /\ End(m) /\ Busy(m) /\ node'[m].spec = "" /\ env' = env
        /\ \A n \in plan.nodes : n # m => node'[n] = node[n]
    BY <1>0, <1>1, LeavesKeeps, NoneSpent DEF Leaves, Going
  <2>2. /\ spent' = spent /\ done' = Updated(done, node[m].spec, node[m].verdict)
        /\ node[m].todo = <<>>
    BY <2>1 DEF End
  <2>3. Declining(plan, node[m].spec) => node[m].verdict = "skipped"
    BY <1>0, <1>1, <2>1, <2>2, NotYet DEF Patient, Declined
  <2>4. \A s \in DOMAIN done' : Declining(plan, s) => done'[s] = "skipped"
    <3> DEFINE t == node[m].spec
               v == node[m].verdict
    <3>1. done' = Updated(done, t, v)
      BY <2>2
    <3>2. Declining(plan, t) => v = "skipped"
      BY <2>3
    <3> HIDE DEF t, v
    <3>3. /\ DOMAIN done' = DOMAIN done \cup {t} /\ done'[t] = v
          /\ \A s \in DOMAIN done : s # t => done'[s] = done[s]
      BY <3>1 DEF Updated
    <3> QED
      BY <1>1, <3>2, <3>3
  <2> QED
    BY <1>1, <1>2, <2>1, <2>2, <2>4
<1>5. CASE \E m \in plan.nodes : \E s \in Left : Take(m, s)
  <2> PICK m \in plan.nodes, s \in Left : Take(m, s)
    BY <1>5
  <2>1. UNCHANGED <<env, done, spent>>
    BY DEF Take
  <2>2. \A n \in plan.nodes : n # m => node'[n] = node[n]
    BY <1>0, TakeTyped
  <2>3. Patient(m)'
    BY <1>0, TakenPatient
  <2> QED
    BY <1>1, <1>2, <2>1, <2>2, <2>3
<1>6. CASE Aside \/ UNCHANGED vars
  <2>1. UNCHANGED <<node, env, done, spent>>
    BY <1>6, AsideKeeps DEF Aside, Remover, Writes, Exits, vars
  <2> QED
    BY <1>1, <1>2, <2>1
<1> QED
  BY <1>3, <1>4, <1>5, <1>6, NextCases

-------------------------------------------------------------------------------
(* A runtime that fails is not taken for one that lacks something. *)
(* What a process has to clean up is what the suite says, and no spec goes *)
(* on in a process that has crashed.                                       *)
Tidy == \A n \in plan.nodes : Busy(n) =>
  /\ node[n].verdict # "crashed"
  /\ node[n].cleaning => Elements(node[n].todo) \subseteq After(node[n].spec)
  /\ All(node[n].units) \subseteq After(node[n].spec)

(* What was asked for once and is not known could not be had.              *)
Forgiven(q) == \E i \in DOMAIN q : q[i].at = "Once"

Remembered == \A n \in plan.nodes : \A v \in DOMAIN env[n] :
  env[n][v] = NoId /\ v[2] \in OnceNames => Forgiven(spent)

(* With a runtime that lacks nothing no spec is skipped without a fault    *)
(* that reads as a missing feature.                                        *)
Excused(q, s) == \E i \in DOMAIN q : Mistaken(q[i], s)

Meant == plan.lacks = {} /\ plan.ignores = {} =>
  /\ \A n \in plan.nodes : Busy(n) /\ node[n].verdict = "skipped" =>
       Excused(spent, node[n].spec)
  /\ \A s \in DOMAIN done : done[s] = "skipped" => Excused(spent, s)

(* The steps of a process by what becomes of the steps it has still to do. *)
LEMMA WorksMakes ==
  ASSUME Types, NEW n \in plan.nodes, Works(n)
  PROVE  \/ Perform(n)
         \/ NextUnit(n)
         \/ node[n].todo # <<>> /\ \E v \in {"skipped", "failed"} : Stops(n, v)
         \/ /\ node[n].todo # <<>> /\ Fault(n)
            /\ node' = [node EXCEPT ![n].todo = Tail(@)]
  BY DEF Works, SkipSpec, Fail, Accept, Fault, Refusals

LEMMA StopsMakes ==
  ASSUME Types, NEW n \in plan.nodes, NEW v, Stops(n, v)
  PROVE  /\ node'[n].todo = <<>> /\ node'[n].units = node[n].units
         /\ node'[n].cleaning = node[n].cleaning
         /\ node'[n].verdict \in {"failed", v}
         /\ v = "failed" => node'[n].verdict = "failed"
<1>1. node \in [plan.nodes -> NodeType]
  BY DEF Types, NodesOK
<1>2. PICK e \in {"failed", v} : /\ node' = [node EXCEPT ![n].todo = <<>>, ![n].verdict = e]
                                 /\ v = "failed" => e = "failed"
  BY <1>1 DEF Stops, NodeType
<1> DEFINE r == node[n]
           a == <<>>
<1>3. node'[n] = [r EXCEPT !.todo = a, !.verdict = e]
  BY <1>1, <1>2
<1>4. r \in NodeType
  BY <1>1
<1> HIDE DEF r, a
<1>5. ASSUME NEW q, q = [r EXCEPT !.todo = a, !.verdict = e]
      PROVE  /\ q.todo = a /\ q.units = r.units /\ q.cleaning = r.cleaning
             /\ q.verdict = e
  BY <1>4, <1>5 DEF NodeType
<1>6. /\ node'[n].todo = a /\ node'[n].units = r.units
      /\ node'[n].cleaning = r.cleaning /\ node'[n].verdict = e
  BY <1>3, <1>5, Zenon
<1> QED
  BY <1>2, <1>6, Zenon DEF r, a

(* What functions of a spec do is among the steps that clean up.           *)
LEMMA ThenAfter ==
  ASSUME NEW s, NEW t \in Steps(s)
  PROVE  Elements(t.then) \subseteq After(s)
<1>1. Elements(t.then) \in {Elements(q.then) : q \in Steps(s)}
  OBVIOUS
<1> QED
  BY <1>1 DEF After

(* A step leaves of its process what is tidy.                              *)
LEMMA TidyOn ==
  ASSUME Types, Tidy, NEW n \in plan.nodes, Works(n)
  PROVE  /\ node'[n].verdict # "crashed"
         /\ node'[n].cleaning => Elements(node'[n].todo) \subseteq After(node[n].spec)
         /\ All(node'[n].units) \subseteq After(node[n].spec)
<1> DEFINE s == node[n].spec
           q == node[n].todo
           u == node[n].units
<1>0. node \in [plan.nodes -> NodeType]
  BY DEF Types, NodesOK
<1>1. /\ Busy(n) /\ node[n].verdict # "crashed" /\ All(u) \subseteq After(s)
      /\ node[n].cleaning => Elements(q) \subseteq After(s)
  BY WorksGoes DEF Tidy
<1>2. ASSUME q # <<>>
      PROVE  /\ Elements(Step(n).then) \subseteq After(s)
             /\ Step(n).then \in Seq(Steps(s)) /\ u \in Seq(Seq(Steps(s)))
             /\ Tail(q) \in Seq(Steps(s)) /\ Elements(Tail(q)) \subseteq Elements(q)
  <2>1. /\ Step(n) \in Steps(s) /\ q \in Seq(Steps(s)) /\ Tail(q) \in Seq(Steps(s))
        /\ Step(n).then \in Seq(Steps(s)) /\ u \in Seq(Seq(Steps(s)))
    BY <1>2, InHand
  <2> QED
    BY <1>2, <2>1, ThenAfter, TailIn
<1>3. CASE Perform(n)
  <2>1. /\ node'[n].units = Units(n) /\ node'[n].todo = Rest(n) /\ q # <<>>
        /\ node'[n].cleaning = node[n].cleaning /\ node'[n].verdict = node[n].verdict
    BY <1>3, PerformMakes DEF Moves
  <2>2. All(Units(n)) \subseteq After(s)
    <3>1. CASE Step(n).do = "Defer"
      <4> DEFINE a == Step(n).then
      <4>1. Units(n) = <<a>> \o u
        BY <3>1 DEF Units
      <4>2. Elements(Units(n)) = {a} \cup Elements(u)
        BY <1>2, <2>1, <4>1, ConsOf
      <4>3. Elements(a) \subseteq After(s)
        BY <1>2, <2>1
      <4> HIDE DEF a, u, s
      <4> QED
        BY <1>1, <4>2, <4>3 DEF All
    <3>2. CASE Step(n).do # "Defer"
      <4>1. Units(n) = u
        BY <3>2 DEF Units
      <4> QED
        BY <1>1, <4>1
    <3> QED
      BY <3>1, <3>2
  <2>3. Elements(Rest(n)) \subseteq Elements(Step(n).then) \cup Elements(q)
    <3>1. Rest(n) = Step(n).then \o Tail(q) \/ Rest(n) = Tail(q)
      BY DEF Rest
    <3>2. Elements(Step(n).then \o Tail(q)) = Elements(Step(n).then) \cup Elements(Tail(q))
      BY <1>2, <2>1, ConcatOf
    <3> QED
      BY <1>2, <2>1, <3>1, <3>2
  <2>4. Elements(Step(n).then) \subseteq After(s)
    BY <1>2, <2>1
  <2> HIDE DEF s, q, u
  <2>5. node[n].cleaning => Elements(Rest(n)) \subseteq After(s)
    BY <1>1, <2>3, <2>4
  <2>6. node'[n].cleaning => Elements(node'[n].todo) \subseteq After(s)
    BY <2>1, <2>5, Zenon
  <2> QED
    BY <1>1, <2>1, <2>2, <2>6 DEF s
<1>4. CASE q # <<>> /\ \E v \in {"skipped", "failed"} : Stops(n, v)
  <2>1. /\ node'[n].todo = <<>> /\ node'[n].units = u /\ node'[n].verdict # "crashed"
    BY <1>4, StopsMakes
  <2>2. Elements(node'[n].todo) = {}
    BY <2>1 DEF Elements
  <2> QED
    BY <1>1, <2>1, <2>2
<1>5. CASE q # <<>> /\ node' = [node EXCEPT ![n].todo = Tail(@)]
  <2>1. /\ node'[n].todo = Tail(q) /\ node'[n].units = u
        /\ node'[n].cleaning = node[n].cleaning /\ node'[n].verdict = node[n].verdict
    BY <1>0, <1>5 DEF NodeType
  <2>2. Elements(Tail(q)) \subseteq Elements(q)
    BY <1>2, <1>5
  <2> HIDE DEF s, q, u
  <2>3. node[n].cleaning => Elements(Tail(q)) \subseteq After(s)
    BY <1>1, <2>2
  <2>4. node'[n].cleaning => Elements(node'[n].todo) \subseteq After(s)
    BY <2>1, <2>3, Zenon
  <2> QED
    BY <1>1, <2>1, <2>4 DEF s
<1>6. CASE NextUnit(n)
  <2>1. /\ u # <<>>
        /\ node' = [node EXCEPT ![n].todo = Head(u), ![n].units = Tail(@), ![n].cleaning = TRUE]
    BY <1>6 DEF NextUnit
  <2>2. /\ node'[n].todo = Head(u) /\ node'[n].units = Tail(u)
        /\ node'[n].verdict = node[n].verdict
    BY <1>0, <2>1 DEF NodeType
  <2>3. u \in Seq(Seq(Steps(s)))
    BY <1>1 DEF Types, Vocabulary
  <2>4. Head(u) \in Elements(u) /\ Elements(Tail(u)) \subseteq Elements(u)
    BY <2>1, <2>3, TailIn
  <2>5. Elements(Head(u)) \subseteq All(u) /\ All(Tail(u)) \subseteq All(u)
    BY <2>4 DEF All
  <2> QED
    BY <1>1, <2>2, <2>5
<1> QED
  BY <1>3, <1>4, <1>5, <1>6, WorksMakes

(* Tidy is inductive.                                                      *)
LEMMA TidyStep ==
  ASSUME Types, Tidy, [Next]_vars
  PROVE  Tidy'
<1>0. plan' = plan
  BY SpecsStep
<1> SUFFICES ASSUME NEW n \in plan.nodes, node'[n].spec # ""
             PROVE  /\ node'[n].verdict # "crashed"
                    /\ node'[n].cleaning => Elements(node'[n].todo) \subseteq After(node'[n].spec)
                    /\ All(node'[n].units) \subseteq After(node'[n].spec)
  BY <1>0 DEF Tidy, Busy
<1>1. CASE node'[n] = node[n]
  <2> DEFINE r == node[n]
             Neat(x) == /\ x.verdict # "crashed"
                        /\ x.cleaning => Elements(x.todo) \subseteq After(x.spec)
                        /\ All(x.units) \subseteq After(x.spec)
  <2>1. Neat(r)
    BY <1>1 DEF Tidy, Busy
  <2> HIDE DEF Neat, r
  <2>2. Neat(node'[n])
    BY <1>1, <2>1 DEF r
  <2> QED
    BY <2>2 DEF Neat
<1>2. CASE \E m \in plan.nodes : Works(m)
  <2> PICK m \in plan.nodes : Works(m)
    BY <1>2
  <2>1. node'[m].spec = node[m].spec /\ \A k \in plan.nodes : k # m => node'[k] = node[k]
    BY WorksGoes DEF Going
  <2>2. CASE n = m
    BY <2>1, <2>2, TidyOn
  <2> QED
    BY <1>1, <2>1, <2>2
<1>3. CASE \E m \in plan.nodes : Leaves(m)
  BY <1>1, <1>3, LeavesKeeps DEF Going
<1>4. CASE \E m \in plan.nodes : \E s \in Left : Take(m, s)
  <2> PICK m \in plan.nodes, s \in Left : Take(m, s)
    BY <1>4
  <2>1. /\ \A k \in plan.nodes : k # m => node'[k] = node[k]
        /\ node'[m].spec = s /\ node'[m].units = Suite[s].in.after
        /\ node'[m].cleaning = FALSE /\ node'[m].verdict = "passed"
    BY TakeTyped
  <2>2. All(Suite[s].in.after) \subseteq After(s)
    BY DEF All, After
  <2>3. CASE n = m
    BY <2>1, <2>2, <2>3
  <2> QED
    BY <1>1, <2>1, <2>3
<1>5. CASE Aside \/ UNCHANGED vars
  <2>1. node' = node
    BY <1>5, AsideKeeps DEF vars
  <2> QED
    BY <1>1, <2>1
<1> QED
  BY <1>2, <1>3, <1>4, <1>5, NextCases

(* No step but one that cannot get to know it makes such a thing unknown.  *)
LEMMA BindsKnown ==
  ASSUME Types, NEW n \in plan.nodes, node[n].todo # <<>>,
         NEW v \in DOMAIN Binds(n), Binds(n)[v] = NoId, v[2] \in OnceNames
  PROVE  v \in DOMAIN env[n] /\ env[n][v] = NoId
<1>0. /\ node[n].spec # "" /\ node[n].spec \in DOMAIN Suite
      /\ Step(n) \in Steps(node[n].spec)
  BY InHand DEF Busy
<1>1. CASE Binds(n) = env[n]
  BY <1>1
<1>2. CASE \E x : Binds(n) = Updated(env[n], Var(n, x), New(n, x))
  <2> PICK x : Binds(n) = Updated(env[n], Var(n, x), New(n, x))
    BY <1>2
  <2>1. New(n, x) # NoId
    <3>1. New(n, x)[1] = node[n].spec /\ NoId[1] = ""
      BY DEF New, NoId
    <3> QED
      BY <1>0, <3>1
  <2> QED
    BY <2>1 DEF Updated
<1>3. CASE /\ Step(n).do = "Assign"
           /\ Binds(n) = Updated(env[n], Var(n, Step(n).y), Val(n, Step(n).x))
  <2>1. Step(n).y \notin OnceNames
    BY <1>0, <1>3, AskingAssumption DEF StepsOf
  <2>2. v # Var(n, Step(n).y)
    BY <2>1 DEF Var
  <2> QED
    BY <1>3, <2>2 DEF Updated
<1>4. CASE \E y : Binds(n) = Without(env[n], {Var(n, y)})
  BY <1>4 DEF Without
<1> QED
  BY <1>1, <1>2, <1>3, <1>4, BindsIs

(* Remembered is inductive.                                                *)
LEMMA RememberedStep ==
  ASSUME Grounds, Remembered, [Next]_vars
  PROVE  Remembered'
<1>0. /\ plan' = plan /\ Types /\ DOMAIN env = plan.nodes
      /\ Forgiven(spent) => Forgiven(spent')
  BY SpecsStep, SpentGrows DEF Grounds, Types, NodesOK, Forgiven
<1> SUFFICES ASSUME NEW m \in plan.nodes, NEW v \in DOMAIN env'[m],
                    env'[m][v] = NoId, v[2] \in OnceNames
             PROVE  Forgiven(spent')
  BY <1>0 DEF Remembered, NoId
<1>1. ASSUME v \in DOMAIN env[m], env[m][v] = NoId
      PROVE  Forgiven(spent')
  BY <1>0, <1>1 DEF Remembered
<1>2. CASE env'[m] = env[m]
  BY <1>1, <1>2
<1>3. CASE \E n \in plan.nodes : Works(n)
  <2> PICK n \in plan.nodes : Works(n)
    BY <1>3
  <2>1. m # n => env'[m] = env[m]
    BY <1>0, WorksGoes
  <2>2. CASE m = n /\ Perform(n)
    <3>1. env'[n] = Binds(n) /\ node[n].todo # <<>>
      BY <1>0, <2>2 DEF Perform
    <3> QED
      BY <1>0, <1>1, <2>2, <3>1, BindsKnown
  <2>3. CASE Fault(n)
    <3>1. env' = env \/ Step(n).do = "Once"
      BY <2>3 DEF Fault
    <3>2. Step(n).do = "Once" => Forgiven(spent')
      BY <2>3, FaultSpent DEF Forgiven
    <3> QED
      BY <1>2, <3>1, <3>2
  <2>4. CASE SkipSpec(n) \/ Fail(n) \/ Accept(n) \/ NextUnit(n)
    <3>1. env' = env
      BY <2>4 DEF SkipSpec, Fail, Accept, NextUnit
    <3> QED
      BY <1>2, <3>1
  <2> QED
    BY <1>2, <2>1, <2>2, <2>3, <2>4 DEF Works
<1>4. CASE \E n \in plan.nodes : Leaves(n) \/ \E s \in Left : Take(n, s)
  <2>1. env' = env
    BY <1>0, <1>4, LeavesKeeps DEF Take
  <2> QED
    BY <1>2, <2>1
<1>5. CASE Aside \/ UNCHANGED vars
  <2>1. env' = env
    BY <1>5, AsideKeeps DEF vars
  <2> QED
    BY <1>2, <2>1
<1> QED
  BY <1>3, <1>4, <1>5, NextCases

(* A step that asks does not skip, unless what it asks about is unknown.   *)
LEMMA AskedGoes ==
  ASSUME Types, SoundWorld, NEW n \in plan.nodes, NEW s, s = node[n].spec, s \in DOMAIN Suite,
         NEW k \in Nat, k + 1 \in DOMAIN Suite[s].body, Step(n) = Suite[s].body[k + 1],
         Asks(s, k + 1), Step(n).do \in Skips \ {"CreateOrSkip"},
         plan.lacks = {}, plan.ignores = {},
         Prepares(s, k) => \A j \in 1..k : /\ Stands(n, j) /\ Phase(s, j, k, w, Absent)
                                           /\ Answered(s, j, node[n].context, env[n])
  PROVE  \/ Succeeds(n)
         \/ \E v \in DOMAIN env[n] :
              env[n][v] = NoId /\ v[2] \in OnceNames /\ Has(s, "Once")
<1> DEFINE t == Step(n)
           x == Val(n, t.x)
<1>0. (k + 1) - 1 = k /\ Len(Suite[s].body) \in Nat /\ DOMAIN Suite[s].body = 1..Len(Suite[s].body)
      /\ \A j \in 1..k : j \in DOMAIN Suite[s].body /\ Suite[s].body[j] \in Steps(s)
  BY BodyIs
<1>1. Absent = {} /\ \A o : Effect(o) = o
  BY DEF Absent, Effect
<1>2. CASE t.do = "Skip"
  BY <1>2 DEF Succeeds
<1>3. CASE t.do = "CreateRejected"
  <2>1. Effect(t.o) \cap Invalid # {}
    BY <1>0, <1>1, <1>3 DEF Asks
  <2>2. ~CanCreate(w, Val(n, t.y), t.image, Effect(t.o))
    BY <2>1 DEF CanCreate
  <2> QED
    BY <1>3, <2>2 DEF Succeeds
<1>4. CASE t.do = "SkipUnset"
  <2>1. PICK j \in 1..k : Suite[s].body[j].do = "Once" /\ Suite[s].body[j].x = t.x
    BY <1>0, <1>4 DEF Asks
  <2>2. Var(n, t.x) \in DOMAIN env[n]
    BY <1>0, <1>4, <2>1 DEF Asks, Answered, Var
  <2>3. Has(s, "Once")
    BY <1>0, <2>1 DEF Has
  <2>4. t.x \in OnceNames
    <3>1. t.x \in {q.x : q \in StepsOf(s, {"Once"})}
      BY <1>0, <2>1 DEF StepsOf
    <3> QED
      BY <3>1 DEF OnceNames
  <2>5. Var(n, t.x)[2] = t.x /\ x = env[n][Var(n, t.x)]
    BY <2>2 DEF Var, Val
  <2>6. x # NoId => Succeeds(n)
    BY <1>4 DEF Succeeds
  <2> HIDE DEF t, x
  <2> QED
    BY <2>2, <2>3, <2>4, <2>5, <2>6
<1>5. CASE t.do \in {"ShowsOrSkip", "ExecOrSkip", "RefusedOrSkip"}
  <2>1. /\ Prepares(s, k)
        /\ \E j \in 1..k :
                /\ Suite[s].body[j].do \in Making /\ Suite[s].body[j].x = t.x
                /\ t.o \subseteq Suite[s].body[j].o
                /\ t.do = "ExecOrSkip" => Begun(s, j, k, t.x)
    BY <1>0, <1>5 DEF Asks
  <2>2. PICK j \in 1..k : /\ Suite[s].body[j].do \in Making /\ Suite[s].body[j].x = t.x
                          /\ t.o \subseteq Suite[s].body[j].o
                          /\ t.do = "ExecOrSkip" => Begun(s, j, k, t.x)
    BY <2>1
  <2>3. /\ x = New(n, t.x) /\ x \notin DOMAIN w.pods /\ x \in DOMAIN w.ctrs
    <3>1. Creates(s, k, t.x)
      BY <2>2 DEF Creates
    <3>2. Prepares(node[n].spec, k) /\ \A i \in 1..k : Stands(n, i)
      BY <2>1
    <3> HIDE DEF t
    <3> QED
      BY <3>1, <3>2, CtrStands
  <2>4. New(n, t.x) = <<s, t.x>>
    BY DEF New
  <2>5. /\ w.ctrs[x].st = IF Begun(s, j, k, t.x) THEN "RUNNING" ELSE "CREATED"
        /\ Suite[s].body[j].o \subseteq w.ctrs[x].o
    BY <1>1, <2>1, <2>2, <2>3, <2>4 DEF Phase
  <2>6. StateOf(w, x) = w.ctrs[x].st /\ w.ctrs[x].o \subseteq Options(x)
    BY <2>3 DEF StateOf, Options, Effective
  <2>7. Seen(x, t.o)
    BY <2>2, <2>5, <2>6 DEF Seen
  <2>8. t.do = "ExecOrSkip" => Holds(x, "RUNNING")
    BY <2>2, <2>5, <2>6 DEF Holds
  <2> QED
    BY <1>5, <2>7, <2>8 DEF Succeeds
<1> QED
  BY <1>2, <1>3, <1>4, <1>5 DEF Skips

(* The steps with which a process comes to skip its spec.                  *)
LEMMA SkipsThen ==
  ASSUME Types, NEW n \in plan.nodes, Works(n), node'[n].verdict = "skipped",
         node[n].verdict # "skipped"
  PROVE  /\ node[n].todo # <<>>
         /\ SkipSpec(n) \/ (Fault(n) /\ Step(n).do \in Skips)
         /\ node[n].verdict # "failed"
<1>1. node \in [plan.nodes -> NodeType]
  BY DEF Types, NodesOK
<1>2. node'[n].verdict # node[n].verdict
  OBVIOUS
<1>3. ~Perform(n)
  BY <1>2, PerformMakes DEF Moves
<1>4. ~NextUnit(n)
  <2>1. NextUnit(n) =>
          node' = [node EXCEPT ![n].todo = Head(node[n].units),
                               ![n].units = Tail(@), ![n].cleaning = TRUE]
    BY DEF NextUnit
  <2> QED
    BY <1>1, <1>2, <2>1 DEF NodeType
<1>5. ~(node' = [node EXCEPT ![n].todo = Tail(@)])
  BY <1>1, <1>2 DEF NodeType
<1>6. ~Stops(n, "failed")
  BY StopsMakes
<1>7. node[n].todo # <<>> /\ Stops(n, "skipped")
  BY <1>3, <1>4, <1>5, <1>6, WorksMakes
<1>8. node[n].verdict # "failed"
  <2>1. node' = [node EXCEPT ![n].todo = <<>>,
           ![n].verdict = IF @ = "failed" THEN "failed" ELSE "skipped"]
    BY <1>7 DEF Stops
  <2> QED
    BY <1>1, <2>1 DEF NodeType
<1>9. SkipSpec(n) \/ (Fault(n) /\ Step(n).do \in Skips)
  BY <1>3, <1>4, <1>5, <1>6 DEF Works, Fail, Accept, Fault
<1> QED
  BY <1>7, <1>8, <1>9

(* With a runtime that lacks nothing it is a fault that makes it do so.    *)
LEMMA MeantThen ==
  ASSUME Grounds, Course, Laid, Phased, Tidy, Remembered, [Next]_vars,
         NEW n \in plan.nodes, Works(n),
         node'[n].verdict = "skipped", node[n].verdict # "skipped",
         plan.lacks = {}, plan.ignores = {}
  PROVE  Excused(spent', node[n].spec)
<1> DEFINE s == node[n].spec
           k == Place(n)
<1>0. Types /\ SoundWorld
  BY DEF Grounds
<1>1. /\ node[n].todo # <<>> /\ node[n].verdict # "failed"
      /\ SkipSpec(n) \/ (Fault(n) /\ Step(n).do \in Skips)
  BY <1>0, SkipsThen
<1>2. CASE Fault(n) /\ Step(n).do \in Skips
  BY <1>2, FaultSpent DEF Excused, Mistaken
<1>3. CASE SkipSpec(n)
  <2>1. ~Succeeds(n) /\ Step(n).do \in Skips \ {"CreateOrSkip"}
    BY <1>3 DEF SkipSpec, Unsupported
  <2>2. /\ Busy(n) /\ s \in DOMAIN Suite /\ node[n].todo \in Seq(Steps(s))
    BY <1>0, <1>1, InHand
  <2>3. Step(n) \in Elements(node[n].todo)
    BY <1>1, <2>2, TailIn DEF Step
  <2>4. ~node[n].cleaning
    BY <2>1, <2>2, <2>3, AskingAssumption DEF Tidy
  <2>5. node[n].verdict = "passed"
    <3>1. node[n].verdict \in Verdicts /\ node[n].verdict # "crashed"
      BY <1>0, <2>2, FieldsTyped DEF Tidy
    <3> QED
      BY <1>1, <3>1 DEF Verdicts
  <2>6. InBody(n)
    BY <2>2, <2>4, <2>5 DEF InBody
  <2>7. /\ k \in Nat /\ k + 1 \in DOMAIN Suite[s].body /\ Step(n) = Suite[s].body[k + 1]
    BY <1>0, <1>1, <2>2, <2>6, AtPlace, BodyIs
  <2>8. Asks(s, k + 1)
    BY <2>2, <2>7, AskingAssumption
  <2>9. Prepares(s, k) => \A j \in 1..k : /\ Stands(n, j) /\ Phase(s, j, k, w, Absent)
                                          /\ Answered(s, j, node[n].context, env[n])
    BY <2>6 DEF Laid, Phased
  <2>10. \E v \in DOMAIN env[n] :
           env[n][v] = NoId /\ v[2] \in OnceNames /\ Has(s, "Once")
    <3> HIDE DEF k
    <3> QED
      BY <1>0, <2>1, <2>2, <2>7, <2>8, <2>9, AskedGoes
  <2>11. Forgiven(spent) /\ Has(s, "Once")
    BY <2>10 DEF Remembered
  <2>12. Forgiven(spent')
    BY <2>11, SpentGrows DEF Forgiven
  <2> QED
    BY <2>11, <2>12 DEF Forgiven, Excused, Mistaken
<1> QED
  BY <1>1, <1>2, <1>3

(* Meant is inductive.                                                     *)
LEMMA MeantStep ==
  ASSUME Grounds, Course, Laid, Phased, Tidy, Remembered, Meant, [Next]_vars
  PROVE  Meant'
<1>0. plan' = plan /\ Types /\ \A s : Excused(spent, s) => Excused(spent', s)
  BY SpecsStep, SpentGrows DEF Grounds, Excused
<1> SUFFICES ASSUME plan.lacks = {}, plan.ignores = {}
             PROVE  /\ \A n \in plan.nodes :
                         node'[n].spec # "" /\ node'[n].verdict = "skipped" =>
                           Excused(spent', node'[n].spec)
                    /\ \A s \in DOMAIN done' : done'[s] = "skipped" => Excused(spent', s)
  BY <1>0 DEF Meant, Busy
<1>1. /\ \A n \in plan.nodes : node[n].spec # "" /\ node[n].verdict = "skipped" =>
           Excused(spent', node[n].spec)
      /\ \A s \in DOMAIN done : done[s] = "skipped" => Excused(spent', s)
  BY <1>0 DEF Meant, Busy
<1>2. CASE \E m \in plan.nodes : Works(m)
  <2> PICK m \in plan.nodes : Works(m)
    BY <1>2
  <2>1. /\ Busy(m) /\ done' = done /\ node'[m].spec = node[m].spec
        /\ \A n \in plan.nodes : n # m => node'[n] = node[n]
    BY <1>0, WorksGoes DEF Going
  <2>2. node'[m].verdict = "skipped" => Excused(spent', node[m].spec)
    BY <1>1, <2>1, MeantThen DEF Busy
  <2> QED
    BY <1>1, <2>1, <2>2
<1>3. CASE \E m \in plan.nodes : Leaves(m)
  <2> PICK m \in plan.nodes : Leaves(m)
    BY <1>3
  <2>1. /\ Busy(m) /\ node'[m].spec = ""
        /\ \A n \in plan.nodes : n # m => node'[n] = node[n]
    BY <1>0, LeavesKeeps DEF Going
  <2>2. \/ done' = Updated(done, node[m].spec, node[m].verdict)
        \/ done' = Updated(done, node[m].spec, "crashed")
    BY DEF Leaves, End, RemoverPanics
  <2>3. node[m].verdict = "skipped" => Excused(spent', node[m].spec)
    BY <1>1, <2>1 DEF Busy
  <2>4. \A s \in DOMAIN done' : done'[s] = "skipped" => Excused(spent', s)
    <3> DEFINE t == node[m].spec
    <3>1. PICK v : done' = Updated(done, t, v) /\ (v = "skipped" => Excused(spent', t))
      BY <2>2, <2>3
    <3> HIDE DEF t
    <3>2. /\ DOMAIN done' = DOMAIN done \cup {t} /\ done'[t] = v
          /\ \A s \in DOMAIN done : s # t => done'[s] = done[s]
      BY <3>1 DEF Updated
    <3> QED
      BY <1>1, <3>1, <3>2
  <2> QED
    BY <1>1, <2>1, <2>4
<1>4. CASE \E m \in plan.nodes : \E s \in Left : Take(m, s)
  <2> PICK m \in plan.nodes, s \in Left : Take(m, s)
    BY <1>4
  <2>1. done' = done
    BY DEF Take
  <2>2. /\ \A n \in plan.nodes : n # m => node'[n] = node[n]
        /\ node'[m].verdict = "passed"
    BY <1>0, TakeTyped
  <2> QED
    BY <1>1, <2>1, <2>2
<1>5. CASE Aside \/ UNCHANGED vars
  <2>1. UNCHANGED <<node, done>>
    BY <1>5, AsideKeeps DEF vars
  <2> QED
    BY <1>1, <2>1
<1> QED
  BY <1>2, <1>3, <1>4, <1>5, NextCases

-------------------------------------------------------------------------------
(* The inductive invariant for SkippedMeansMissing.                        *)
Skipping == Phased /\ Tidy /\ Remembered /\ Graceful /\ Meant

LEMMA SkippingInit ==
  ASSUME Init
  PROVE  Skipping
<1>1. spent = <<>> /\ \A n \in plan.nodes : ~Busy(n) /\ env[n] = <<>>
  BY DEF Init, Busy, Idle
<1>2. \A f : f = <<>> => DOMAIN f = {}
  OBVIOUS
<1>3. DOMAIN done = {} /\ \A n \in plan.nodes : DOMAIN env[n] = {}
  BY <1>1, <1>2 DEF Init
<1> QED
  BY <1>1, <1>3 DEF Skipping, Phased, Tidy, Remembered, Graceful, Meant, InBody

LEMMA SkippingMeans ==
  ASSUME Skipping
  PROVE  SkippedMeansMissing
<1>1. plan.lacks = {} /\ plan.ignores = {} =>
        \A s \in DOMAIN done :
          done[s] = "skipped" => \E i \in DOMAIN spent : Mistaken(spent[i], s)
  BY DEF Skipping, Meant, Excused
<1>2. ASSUME plan.faults = 0, plan.ignores = {}, NEW s \in DOMAIN done, NEW f \in plan.lacks,
             Needing(f) \cap Suite[s].claims # {}
      PROVE  done[s] = "skipped"
  <2>1. Declining(plan, s)
    BY <1>2 DEF Declining
  <2> QED
    BY <1>2, <2>1 DEF Skipping, Graceful
<1> QED
  BY <1>1, <1>2 DEF SkippedMeansMissing

(* A spec of critest is skipped when the runtime lacks what the spec is    *)
(* about, and then only: with a runtime that has all features a fault must *)
(* have read as a missing one, of a call whose errors the spec itself, or  *)
(* the one status that all specs of a process share, takes for that; and   *)
(* with a runtime that lacks a feature, and is right otherwise, every spec *)
(* about it is skipped, and none fails or passes, whatever the processes   *)
(* run next to it.                                                         *)
THEOREM SkippedMeansMissingCorrect == Spec => []SkippedMeansMissing
<1>1. Init => Passing /\ Skipping
  BY PassingInit, SkippingInit
<1>2. Passing /\ Skipping /\ [Next]_vars => Passing' /\ Skipping'
  <2> SUFFICES ASSUME Passing, Skipping, [Next]_vars PROVE Passing' /\ Skipping'
    OBVIOUS
  <2>1. Grounds'
    BY TypesStep, ApartStep, SerialStep, OwnedStep, SoundStep, RecordedStep
       DEF Passing, Grounds, Turns
  <2>2. Passing'
    BY <2>1, CourseStep, LaidStep, ToldStep, BelievedStep DEF Passing, Grounds
  <2>3. Phased' /\ Graceful'
    BY PhasedStep, GracefulStep DEF Passing, Skipping
  <2>4. Tidy' /\ Remembered' /\ Meant'
    BY TidyStep, RememberedStep, MeantStep DEF Passing, Skipping, Grounds
  <2> QED
    BY <2>2, <2>3, <2>4 DEF Skipping
<1>3. Skipping => SkippedMeansMissing
  BY SkippingMeans
<1> QED
  BY <1>1, <1>2, <1>3, PTL DEF Spec
===============================================================================
