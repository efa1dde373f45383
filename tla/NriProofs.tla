------------------------------ MODULE NriProofs ------------------------------
(***************************************************************************)
(* Proofs about Nri, for any specs that are written as NriClaims says, in  *)
(* any order: a goroutine that a spec left behind never fails another one, *)
(* unless plugins are slow.                                                *)
(***************************************************************************)
EXTENDS NriClaims, FiniteSetTheorems, SequenceTheorems, TLAPS

Stubborn == Breaks("never syncs")

(* The specs that ended are the first ones of the order, and the one that  *)
(* runs is the next.                                                       *)
Ran == Cardinality(DOMAIN done)

FirstSpecs(order, n) == {order[i] : i \in 1..n}

Turn ==
  /\ IsFiniteSet(DOMAIN done) /\ Ran \in 0..Len(plan.order)
  /\ DOMAIN done = FirstSpecs(plan.order, Ran)
  /\ test.spec # "" => Ran < Len(plan.order) /\ test.spec = plan.order[Ran + 1]

(* The spec is in its body or in a unit that cleans up.                    *)
TestFields == {"spec", "context", "todo", "units", "ids", "cleaning", "verdict"}

Placed ==
  /\ DOMAIN test = TestFields
  /\ test.todo \in Seq(BodySteps) \/ test.todo \in Seq(UnitSteps)
  /\ test.units \in Seq(Seq(UnitSteps))
  /\ test.spec = "" => test.todo = <<>>
  /\ go \in [Kids -> [spec : DOMAIN Suite \cup {""}, todo : Seq(Steps)]]

(* A goroutine that waits for a call has not gone on, and the runtime      *)
(* holds one call of it at most.                                           *)
Waits(t) == Todo(t) # <<>> /\ Step(t).do \in Calls

HeldFields == {"thread", "do", "x", "y", "o", "by"}

Calling ==
  /\ ret \in [Threads -> {"none", "waiting", "ok", "error"}]
  /\ \A t \in Threads : ret[t] # "none" => Waits(t)
  /\ \A h \in held : /\ DOMAIN h = HeldFields
                     /\ h.thread \in Threads \cup {""}
                     /\ h.thread # "" => ret[h.thread] = "waiting"
  /\ \A h, g \in held : h.thread = g.thread /\ h.thread # "" => h = g

(* Nothing but the spec ends a plugin that is not slow; one that never     *)
(* gets synchronized is not heard of.                                      *)
StubFields == {"run", "start", "reaper", "conn", "cancelled", "hook", "reached",
               "released", "used", "events", "pending", "synced"}

Steady(s) ==
  /\ s.conn \/ s.cancelled
  /\ s.run = "exited" => ~s.conn
  /\ s.start \in {"waiting", "ready"} \/ s.cancelled

Mute(s) == s.run = "connecting" /\ ~s.reached /\ s.start # "ready"

Fit(s) ==
  /\ DOMAIN s = StubFields
  /\ ~plan.slow => Steady(s)
  /\ Stubborn => Mute(s)

Plugged == \A k \in DOMAIN stub : Fit(stub[k])

(* A plugin is one of the spec that runs or of one that has ended.         *)
Keyed == \A k \in DOMAIN stub : k[1] # "" /\ k[1] \in DOMAIN done \cup {test.spec}

(* In its body a spec has stopped none of its plugins.                     *)
Ahead(seq) == \E i \in DOMAIN seq : seq[i].do \in Starting

Alive ==
  ~plan.slow /\ ~Stubborn /\ Ahead(test.todo) =>
    \A k \in DOMAIN stub : k[1] = test.spec => ~stub[k].cancelled

(* What is left of the spec is written like the whole of it.               *)
StartedHere == {x \in {t.x : t \in Steps} : Key(x) \in DOMAIN stub}

Orderly ==
  /\ AllJoined(test.todo)
  /\ Stubborn => AllSeen(test.todo)
  /\ AllStarted(test.todo, StartedHere)

(* A goroutine that may fail its spec is one the spec is going to wait for. *)
Owned ==
  ~plan.slow =>
    \A t \in Kids : Risky(go[t].todo) =>
      /\ go[t].spec = test.spec /\ test.spec # ""
      /\ Joins(test.todo, 0, t) /\ ~Stubborn

IInv ==
  /\ Turn /\ Placed /\ Calling /\ Plugged /\ Keyed /\ Alive /\ Orderly /\ Owned
  /\ FailuresAreOwn

-------------------------------------------------------------------------------
(* Sequences of steps: what holds of one holds of what is left of it.      *)
LEMMA AfterHead ==
  ASSUME NEW q \in Seq(Steps), q # <<>>
  PROVE  /\ Tail(q) \in Seq(Steps) /\ Len(Tail(q)) = Len(q) - 1 /\ Len(q) \in Nat \ {0}
         /\ Head(q) = q[1] /\ Head(q) \in Steps
         /\ DOMAIN q = 1..Len(q) /\ DOMAIN Tail(q) = 1..Len(q) - 1
         /\ \A i \in 1..Len(q) - 1 : Tail(q)[i] = q[i + 1]
  OBVIOUS

LEMMA JoinsLater ==
  ASSUME NEW q \in Seq(Steps), q # <<>>, NEW i \in Nat, NEW g, Joins(q, i + 1, g)
  PROVE  Joins(Tail(q), i, g)
<1>1. PICK j \in DOMAIN q : /\ i + 1 < j /\ q[j].do = "Join" /\ q[j].y = g
                            /\ \A m \in (i + 1) + 1 .. j - 1 : q[m].do \in Unfailing
  BY DEF Joins
<1>2. j - 1 \in 1..Len(q) - 1 /\ i < j - 1 /\ j \in 1..Len(q)
  BY <1>1, AfterHead
<1>3. Tail(q)[j - 1] = q[j]
  BY <1>2, AfterHead
<1>4. ASSUME NEW m \in i + 1 .. (j - 1) - 1
      PROVE  Tail(q)[m].do \in Unfailing
  <2>1. m \in 1..Len(q) - 1 /\ m + 1 \in (i + 1) + 1 .. j - 1
    BY <1>2
  <2> QED
    BY <2>1, <1>1, AfterHead
<1> QED
  BY <1>1, <1>2, <1>3, <1>4, AfterHead DEF Joins

(* Until it has waited for the goroutine the spec does nothing that fails. *)
LEMMA JoinsNext ==
  ASSUME NEW q \in Seq(Steps), NEW g, Joins(q, 0, g)
  PROVE  /\ q # <<>> /\ Head(q).do \in Unfailing
         /\ (Head(q).do = "Join" => Head(q).y # g) => Joins(Tail(q), 0, g)
<1>1. PICK j \in DOMAIN q : /\ 0 < j /\ q[j].do = "Join" /\ q[j].y = g
                            /\ \A m \in 0 + 1 .. j - 1 : q[m].do \in Unfailing
  BY DEF Joins
<1>2. q # <<>> /\ j \in 1..Len(q)
  BY <1>1
<1>3. CASE j = 1
  BY <1>1, <1>2, <1>3, AfterHead DEF Unfailing
<1>4. CASE j > 1
  <2>1. q[1].do \in Unfailing
    BY <1>1, <1>2, <1>4
  <2>2. Joins(q, 0 + 1, g)
    BY <1>1, <1>2, <1>4 DEF Joins
  <2> QED
    BY <2>1, <2>2, <1>2, AfterHead, JoinsLater
<1> QED
  BY <1>2, <1>3, <1>4

LEMMA TailJoined ==
  ASSUME NEW q \in Seq(Steps), q # <<>>, AllJoined(q)
  PROVE  /\ AllJoined(Tail(q))
         /\ Head(q).do = "Go" /\ Risky(Head(q).then) => Joins(Tail(q), 0, Head(q).y)
<1>1. ASSUME NEW i \in RisksTaken(Tail(q))
      PROVE  Joins(Tail(q), i, Tail(q)[i].y)
  <2>1. i \in 1..Len(q) - 1 /\ Tail(q)[i] = q[i + 1] /\ i + 1 \in 1..Len(q)
    BY <1>1, AfterHead DEF RisksTaken
  <2>2. i + 1 \in RisksTaken(q)
    BY <1>1, <2>1, AfterHead DEF RisksTaken
  <2> QED
    BY <2>1, <2>2, JoinsLater DEF AllJoined
<1>2. ASSUME Head(q).do = "Go", Risky(Head(q).then)
      PROVE  Joins(Tail(q), 0, Head(q).y)
  <2>1. 0 + 1 \in RisksTaken(q)
    BY <1>2, AfterHead DEF RisksTaken
  <2> QED
    BY <2>1, AfterHead, JoinsLater DEF AllJoined
<1> QED
  BY <1>1, <1>2 DEF AllJoined

LEMMA TailSeen ==
  ASSUME NEW q \in Seq(Steps), q # <<>>, AllSeen(q), Head(q).do \notin {"Reached", "Started"}
  PROVE  /\ AllSeen(Tail(q))
         /\ ~(Head(q).do = "Go" /\ Risky(Head(q).then))
<1>1. ASSUME NEW i \in RisksTaken(Tail(q))
      PROVE  Sees(Tail(q), i)
  <2>1. i \in 1..Len(q) - 1 /\ Tail(q)[i] = q[i + 1] /\ i + 1 \in 1..Len(q)
    BY <1>1, AfterHead DEF RisksTaken
  <2>2. i + 1 \in RisksTaken(q)
    BY <1>1, <2>1, AfterHead DEF RisksTaken
  <2>3. PICK j \in DOMAIN q : j < i + 1 /\ q[j].do \in {"Reached", "Started"}
    BY <2>2 DEF AllSeen, Sees
  <2>4. j # 1 /\ j \in 1..Len(q)
    BY <2>3, AfterHead
  <2>5. j - 1 \in DOMAIN Tail(q) /\ j - 1 < i /\ Tail(q)[j - 1] = q[j]
    BY <2>1, <2>3, <2>4, AfterHead
  <2> QED
    BY <2>3, <2>5 DEF Sees
<1>2. ~(Head(q).do = "Go" /\ Risky(Head(q).then))
  <2> SUFFICES ASSUME 1 \in RisksTaken(q)
               PROVE  FALSE
    BY AfterHead DEF RisksTaken
  <2> QED
    BY AfterHead DEF AllSeen, Sees
<1> QED
  BY <1>1, <1>2 DEF AllSeen

LEMMA TailStarted ==
  ASSUME NEW q \in Seq(Steps), q # <<>>, NEW X, NEW Y, AllStarted(q, X), X \subseteq Y,
         Head(q).do = "Start" => Head(q).x \in Y
  PROVE  /\ AllStarted(Tail(q), Y)
         /\ Head(q).do \in {"Reached", "Started"} => Head(q).x \in X
<1>1. ASSUME NEW i \in DOMAIN Tail(q), Tail(q)[i].do \in {"Reached", "Started"},
             Tail(q)[i].x \notin Y
      PROVE  Starts(Tail(q), i, Tail(q)[i].x)
  <2>1. i \in 1..Len(q) - 1 /\ Tail(q)[i] = q[i + 1] /\ i + 1 \in DOMAIN q
    BY <1>1, AfterHead
  <2>2. PICK j \in DOMAIN q : j < i + 1 /\ q[j].do = "Start" /\ q[j].x = q[i + 1].x
    BY <1>1, <2>1 DEF AllStarted, Starts
  <2>3. j # 1 /\ j \in 1..Len(q)
    BY <1>1, <2>1, <2>2, AfterHead
  <2>4. j - 1 \in DOMAIN Tail(q) /\ j - 1 < i /\ Tail(q)[j - 1] = q[j]
    BY <2>1, <2>2, <2>3, AfterHead
  <2> QED
    BY <2>1, <2>2, <2>4 DEF Starts
<1>2. Head(q).do \in {"Reached", "Started"} => Head(q).x \in X
  BY AfterHead DEF AllStarted, Starts
<1> QED
  BY <1>1, <1>2 DEF AllStarted

(* Nothing of this holds of units.                                         *)
LEMMA OfUnits ==
  ASSUME NEW q \in Seq(UnitSteps), NEW X
  PROVE  AllJoined(q) /\ AllSeen(q) /\ AllStarted(q, X) /\ ~Ahead(q)
<1>1. \A i \in DOMAIN q : q[i].do \notin Starting
  BY DEF UnitSteps
<1> QED
  BY <1>1 DEF AllJoined, AllSeen, AllStarted, Ahead, RisksTaken, Starting

LEMMA StepsTyped ==
  /\ BodySteps \subseteq Steps /\ UnitSteps \subseteq Steps
  /\ Seq(BodySteps) \subseteq Seq(Steps) /\ Seq(UnitSteps) \subseteq Seq(Steps)
  /\ PlainSteps \subseteq UnitSteps /\ Seq(PlainSteps) \subseteq Seq(Steps)
  /\ PlainSteps \subseteq BodySteps
<1>1. BodySteps \subseteq Steps /\ UnitSteps \subseteq Steps /\ PlainSteps \subseteq Steps
  BY DEF BodySteps, UnitSteps, PlainSteps
<1>2. PlainSteps \subseteq UnitSteps
  BY DEF UnitSteps, PlainSteps
<1>3. PlainSteps \subseteq BodySteps
  BY DEF BodySteps, PlainSteps, Starting, Nesting
<1>4. \A A, B : A \subseteq B => Seq(A) \subseteq Seq(B)
  OBVIOUS
<1> QED
  BY <1>1, <1>2, <1>3, <1>4

(* What a condition puts in front of the rest changes nothing.             *)
LEMMA PlainFirst ==
  ASSUME NEW p \in Seq(PlainSteps), NEW q \in Seq(Steps), NEW X
  PROVE  /\ AllJoined(q) => AllJoined(p \o q)
         /\ AllSeen(q) => AllSeen(p \o q)
         /\ AllStarted(q, X) => AllStarted(p \o q, X)
         /\ Ahead(p \o q) => Ahead(q)
<1> DEFINE n == Len(p)
           r == p \o q
<1>1. /\ n \in Nat /\ r \in Seq(Steps) /\ DOMAIN r = 1..n + Len(q) /\ Len(q) \in Nat
      /\ DOMAIN q = 1..Len(q) /\ DOMAIN p = 1..n
      /\ \A i \in 1..n : r[i] = p[i]
      /\ \A i \in 1..Len(q) : r[i + n] = q[i]
      /\ \A i \in 1..n + Len(q) : i > n => r[i] = q[i - n]
  BY StepsTyped
<1>2. \A i \in 1..n : r[i].do \notin Starting
  BY <1>1 DEF PlainSteps
<1>3. ASSUME NEW i \in DOMAIN r, r[i].do \in Starting
      PROVE  i > n /\ i - n \in DOMAIN q /\ r[i] = q[i - n]
  BY <1>1, <1>2, <1>3
<1> HIDE DEF r, n
<1>4. ASSUME AllJoined(q), NEW i \in RisksTaken(r)
      PROVE  Joins(r, i, r[i].y)
  <2>1. i \in DOMAIN r /\ i > n /\ i - n \in DOMAIN q /\ r[i] = q[i - n]
    BY <1>3, <1>4 DEF RisksTaken, Starting
  <2>2. PICK j \in DOMAIN q : /\ i - n < j /\ q[j].do = "Join" /\ q[j].y = q[i - n].y
                              /\ \A m \in (i - n) + 1 .. j - 1 : q[m].do \in Unfailing
    BY <1>4, <2>1 DEF AllJoined, Joins, RisksTaken
  <2>3. j + n \in DOMAIN r /\ i < j + n /\ r[j + n] = q[j] /\ i \in Nat /\ j \in 1..Len(q)
    BY <1>1, <2>1, <2>2
  <2>4. ASSUME NEW m \in i + 1 .. (j + n) - 1
        PROVE  r[m].do \in Unfailing
    <3>0. /\ n \in Nat /\ Len(q) \in Nat /\ i \in Nat /\ i > n
          /\ j \in Nat /\ j <= Len(q)
      BY <1>1, <2>1, <2>3
    <3>1. m - n \in (i - n) + 1 .. j - 1 /\ m \in 1..n + Len(q) /\ m > n
      BY <3>0
    <3>2. r[m] = q[m - n]
      BY <1>1, <3>1
    <3> QED
      BY <2>2, <3>1, <3>2
  <2> QED
    BY <2>1, <2>2, <2>3, <2>4 DEF Joins
<1>5. ASSUME AllSeen(q), NEW i \in RisksTaken(r)
      PROVE  Sees(r, i)
  <2>1. i \in DOMAIN r /\ i > n /\ i - n \in DOMAIN q /\ r[i] = q[i - n]
    BY <1>3, <1>5 DEF RisksTaken, Starting
  <2>2. PICK j \in DOMAIN q : j < i - n /\ q[j].do \in {"Reached", "Started"}
    BY <1>5, <2>1 DEF AllSeen, Sees, RisksTaken
  <2>3. j + n \in DOMAIN r /\ j + n < i /\ r[j + n] = q[j]
    BY <1>1, <2>1, <2>2
  <2> QED
    BY <2>2, <2>3 DEF Sees
<1>6. ASSUME AllStarted(q, X), NEW i \in DOMAIN r, r[i].do \in {"Reached", "Started"},
             r[i].x \notin X
      PROVE  Starts(r, i, r[i].x)
  <2>1. i \in DOMAIN r /\ i > n /\ i - n \in DOMAIN q /\ r[i] = q[i - n]
    BY <1>3, <1>6 DEF Starting
  <2>2. PICK j \in DOMAIN q : j < i - n /\ q[j].do = "Start" /\ q[j].x = r[i].x
    BY <1>6, <2>1 DEF AllStarted, Starts
  <2>3. j + n \in DOMAIN r /\ j + n < i /\ r[j + n] = q[j]
    BY <1>1, <2>1, <2>2
  <2> QED
    BY <2>2, <2>3 DEF Starts
<1>7. Ahead(r) => Ahead(q)
  BY <1>3 DEF Ahead
<1> QED
  BY <1>4, <1>5, <1>6, <1>7 DEF AllJoined, AllSeen, AllStarted, r

-------------------------------------------------------------------------------
(* How a step moves the spec.                                              *)
First == Head(test.todo)

Keeps ==
  /\ test'.spec = test.spec /\ DOMAIN test' = TestFields
  /\ done' = done /\ plan' = plan

(* The spec stays where it is; its goroutines may go on or end.            *)
KidsOn ==
  \A t \in Kids :
    \/ go'[t] = go[t]
    \/ /\ go'[t].spec = go[t].spec /\ go[t].todo # <<>>
       /\ go'[t].todo \in {<<>>, Tail(go[t].todo)}

Rests ==
  /\ Keeps /\ test'.todo = test.todo /\ test'.units = test.units
  /\ DOMAIN stub' = DOMAIN stub
  /\ go' \in [Kids -> [spec : DOMAIN Suite \cup {""}, todo : Seq(Steps)]] /\ KidsOn

(* It goes on with its next step.                                          *)
Advances ==
  /\ Keeps /\ test.todo # <<>> /\ test'.todo = Tail(test.todo)
  /\ \/ test'.units = test.units
     \/ First.do = "Defer" /\ test'.units = <<First.then>> \o test.units
  /\ First.do # "Go" => go' = go
  /\ First.do = "Go" =>
       go' = [go EXCEPT ![First.y] = [spec |-> test.spec, todo |-> First.then]]
  /\ First.do = "Join" => go[First.y].todo = <<>>
  /\ First.do = "Reached" => Stub(First.x).reached
  /\ First.do = "Started" => Stub(First.x).start = "ready"
  /\ DOMAIN stub' = IF First.do = "Start" THEN DOMAIN stub \cup {Key(First.x)}
                    ELSE DOMAIN stub

(* It is over, failed or skipped.                                          *)
Halts ==
  /\ Keeps /\ test.todo # <<>> /\ test'.todo = <<>> /\ test'.units = test.units
  /\ First.do \in Unfailing => First.do = "Started" /\ Stub(First.x).start = "failed"
  /\ DOMAIN stub' = DOMAIN stub /\ go' = go

(* Steps come before the others.                                           *)
Inserts(steps, rest) ==
  /\ Keeps /\ test.todo # <<>> /\ test'.todo = steps \o rest /\ test'.units = test.units
  /\ DOMAIN stub' = DOMAIN stub /\ go' = go

Branches == First.do = "IfSet" /\ Inserts(First.then, Tail(test.todo))

EachSteps == Try("StopCtr", "each", "") \o Try("RemoveCtr", "each", "")

Repeats == First.do = "RemoveEach" /\ Inserts(EachSteps, test.todo)

Moves == Rests \/ Advances \/ Halts \/ Branches \/ Repeats \/ Take \/ NextUnit \/ End

LEMMA FirstStep == test.todo # <<>> => Step("it") = First
  BY DEF Step, Todo, First

LEMMA EndsMoves ==
  ASSUME NEW verdict, Placed, Ends(verdict), test.todo # <<>>,
         First.do \in Unfailing => First.do = "Started" /\ Stub(First.x).start = "failed",
         DOMAIN stub' = DOMAIN stub, go' = go, done' = done, plan' = plan
  PROVE  Halts
  BY DEF Halts, Ends, Keeps, Placed, TestFields

LEMMA AssertsMove ==
  ASSUME Placed, Asserts
  PROVE  Advances \/ Halts
<1>1. test.todo # <<>> /\ First.do \in {"Expect", "Until", "SkipUnless"}
  BY FirstStep DEF Asserts, At, Todo
<1>2. CASE Goes("it")
  BY <1>1, <1>2 DEF Goes, Asserts, Advances, Keeps, Placed, TestFields
<1>3. CASE go' = go /\ (Ends("failed") \/ Ends("skipped"))
  BY <1>1, <1>3, EndsMoves DEF Asserts, Unfailing
<1> QED
  BY <1>2, <1>3 DEF Asserts

LEMMA PluginStepsMove ==
  ASSUME Placed, Start \/ Started \/ Wait \/ WaitTimesOut \/ Command
  PROVE  Advances \/ Halts
<1>1. CASE Start
  <2>1. test.todo # <<>> /\ First.do = "Start" /\ Step("it") = First
    BY <1>1, FirstStep DEF Start, At, Todo
  <2>2. DOMAIN stub' = DOMAIN stub \cup {Key(First.x)}
    BY <1>1, <2>1 DEF Start, Updated
  <2> QED
    BY <1>1, <2>1, <2>2 DEF Start, Goes, Advances, Keeps, Placed, TestFields
<1>2. CASE Started
  <2>1. test.todo # <<>> /\ First.do = "Started" /\ Step("it") = First
    BY <1>2, FirstStep DEF Started, At, Todo
  <2>2. CASE Stub(First.x).start = "ready"
    BY <1>2, <2>1, <2>2 DEF Started, Goes, Advances, Keeps, Placed, TestFields
  <2>3. CASE Stub(First.x).start # "ready"
    BY <1>2, <2>1, <2>3, EndsMoves DEF Started
  <2> QED
    BY <2>2, <2>3
<1>3. CASE Wait
  <2>1. test.todo # <<>> /\ First.do = "Reached" /\ Step("it") = First
    BY <1>3, FirstStep DEF Wait, At, Todo
  <2> QED
    BY <1>3, <2>1 DEF Wait, Goes, Advances, Keeps, Placed, TestFields
<1>4. CASE WaitTimesOut
  <2>1. test.todo # <<>> /\ First.do = "Reached" /\ Step("it") = First
    BY <1>4, FirstStep DEF WaitTimesOut, At, Todo
  <2>2. DOMAIN stub' = DOMAIN stub
    BY <1>4 DEF WaitTimesOut
  <2> QED
    BY <1>4, <2>1, <2>2, EndsMoves DEF WaitTimesOut, Unfailing
<1>5. CASE Command
  <2>1. test.todo # <<>> /\ First.do \in {"Hook", "Release", "Cancel", "Stopped", "Reset"}
    BY <1>5, FirstStep DEF Command, At, Todo
  <2>2. DOMAIN stub' = DOMAIN stub
    BY <1>5 DEF Command
  <2> QED
    BY <1>5, <2>1, <2>2 DEF Command, Goes, Advances, Keeps, Placed, TestFields
<1> QED
  BY <1>1, <1>2, <1>3, <1>4, <1>5

LEMMA OtherStepsMove ==
  ASSUME Placed, Bookkeeping \/ Structure \/ RemoveNext \/ Spawn
  PROVE  Advances \/ Halts \/ Branches \/ Repeats
<1>1. CASE Bookkeeping
  <2>1. test.todo # <<>> /\ First.do \in {"Clear", "Assign", "Fallback", "Forget"}
    BY <1>1, FirstStep DEF Bookkeeping, At, Todo
  <2> QED
    BY <1>1, <2>1 DEF Bookkeeping, Goes, Advances, Keeps, Placed, TestFields
<1>2. CASE Structure
  <2>0. Step("it") = First /\ test.todo # <<>>
    BY <1>2, FirstStep DEF Structure, At, Todo
  <2>1. CASE First.do = "IfSet" /\ test' =
               [test EXCEPT !.todo = IF Bound(First.x) THEN First.then \o Tail(test.todo)
                                     ELSE Tail(test.todo)]
    <3>1. DOMAIN test' = TestFields /\ test'.spec = test.spec /\ test'.units = test.units
      BY <2>1 DEF Placed, TestFields
    <3>2. test'.todo \in {First.then \o Tail(test.todo), Tail(test.todo)}
      BY <2>1 DEF Placed, TestFields
    <3> QED
      BY <1>2, <2>0, <2>1, <3>1, <3>2
         DEF Structure, Advances, Branches, Inserts, Keeps
  <2>2. CASE First.do = "Defer" /\ test' =
               [test EXCEPT !.todo = Tail(test.todo), !.units = <<First.then>> \o @]
    BY <1>2, <2>0, <2>2 DEF Structure, Advances, Keeps, Placed, TestFields
  <2>3. CASE First.do = "Skip" /\ Ends("skipped")
    BY <1>2, <2>0, <2>3, EndsMoves DEF Structure, Unfailing
  <2>4. CASE First.do \in {"Snapshot", "RemoveEach"}
    BY <1>2, <2>0, <2>4 DEF Structure, At, Advances, Keeps, Placed, TestFields
  <2>5. CASE First.do = "Join"
    BY <1>2, <2>0, <2>5 DEF Structure, Joined, At, Advances, Keeps, Placed, TestFields
  <2> QED
    BY <1>2, <2>0, <2>1, <2>2, <2>3, <2>4, <2>5 DEF Structure, At, Todo
<1>3. CASE RemoveNext
  <2>0. Step("it") = First /\ test.todo # <<>> /\ First.do = "RemoveEach"
    BY <1>3, FirstStep DEF RemoveNext, At, Todo
  <2>1. PICK id : test' = [test EXCEPT !.ids = @ \ {id},
                              !.todo = Try("StopCtr", "each", "")
                                         \o Try("RemoveCtr", "each", "") \o @]
    BY <1>3 DEF RemoveNext
  <2>2. /\ DOMAIN test' = TestFields /\ test'.spec = test.spec /\ test'.units = test.units
        /\ test'.todo = Try("StopCtr", "each", "") \o Try("RemoveCtr", "each", "")
                          \o test.todo
    BY <2>1 DEF Placed, TestFields
  <2> QED
    BY <1>3, <2>0, <2>2 DEF RemoveNext, Repeats, Inserts, EachSteps, Keeps
<1>4. CASE Spawn
  <2>0. Step("it") = First /\ test.todo # <<>> /\ First.do = "Go"
    BY <1>4, FirstStep DEF Spawn, At, Todo
  <2> QED
    BY <1>4, <2>0 DEF Spawn, Advances, Keeps, Placed, TestFields
<1> QED
  BY <1>1, <1>2, <1>3, <1>4

(* What leaves the spec and its goroutines alone, and the plugins in place. *)
LEMMA RestsWhen ==
  ASSUME Placed, test' = test, go' = go, DOMAIN stub' = DOMAIN stub, done' = done, plan' = plan
  PROVE  Rests
  BY DEF Placed, Rests, Keeps, KidsOn

LEMMA KidMoves ==
  ASSUME NEW t \in Kids, Placed, go[t].todo # <<>>,
         NEW rest \in {<<>>, Tail(go[t].todo)}, go' = [go EXCEPT ![t].todo = rest],
         test'.spec = test.spec, test'.todo = test.todo, test'.units = test.units,
         DOMAIN test' = TestFields,
         DOMAIN stub' = DOMAIN stub, done' = done, plan' = plan
  PROVE  Rests
<1>0. go[t].todo \in Seq(Steps)
  BY DEF Placed
<1>1. Tail(go[t].todo) \in Seq(Steps) /\ <<>> \in Seq(Steps)
  BY <1>0, AfterHead
<1>2. rest \in Seq(Steps)
  BY <1>1
<1>3. /\ go' \in [Kids -> [spec : DOMAIN Suite \cup {""}, todo : Seq(Steps)]]
      /\ \A k \in Kids : k # t => go'[k] = go[k]
      /\ go'[t].spec = go[t].spec /\ go'[t].todo = rest
  BY <1>2 DEF Placed
<1> QED
  BY <1>3 DEF Rests, Keeps, KidsOn

LEMMA CallsMove ==
  ASSUME NEW t \in Threads, Placed, Calling, Call(t) \/ Fault(t)
  PROVE  Rests \/ Advances \/ Halts
<1>1. CASE Serve(t)
  BY <1>1, RestsWhen DEF Serve
<1>2. CASE Refuse(t) \/ Fault(t) \/ Abandon(t)
  BY <1>2, RestsWhen DEF Refuse, Fault, Abandon
<1>3. CASE Return(t)
  <2>1. Todo(t) # <<>> /\ Step(t).do \in Calls
    BY <1>3 DEF Return, Calling, Waits
  <2>2. \/ Goes(t) \/ Dies(t)
    BY <1>3 DEF Return
  <2>3. DOMAIN stub' = DOMAIN stub /\ done' = done /\ plan' = plan
    BY <1>3 DEF Return
  <2>4. CASE t = "it"
    <3>1. test.todo # <<>> /\ First.do \in Calls
      BY <2>1, <2>4, FirstStep DEF Todo
    <3>2. CASE Goes(t)
      <4>1. test' = [test EXCEPT !.todo = Tail(@)] /\ go' = go
        BY <2>4, <3>2 DEF Goes
      <4>2. stub' = stub
        BY <1>3 DEF Return
      <4> QED
        BY <2>3, <3>1, <4>1, <4>2 DEF Advances, Keeps, Placed, TestFields, Calls
    <3>3. CASE Dies(t)
      BY <2>3, <2>4, <3>1, <3>3, EndsMoves DEF Dies, Calls, Unfailing
    <3> QED
      BY <2>2, <3>2, <3>3
  <2>5. CASE t # "it"
    <3>1. t \in Kids /\ go[t].todo # <<>>
      BY <2>1, <2>5 DEF Threads, Todo
    <3>2. CASE Goes(t)
      <4>1. go' = [go EXCEPT ![t].todo = Tail(go[t].todo)] /\ test' = test
        BY <2>5, <3>2 DEF Goes
      <4> QED
        BY <2>3, <3>1, <4>1, KidMoves DEF Placed
    <3>3. CASE Dies(t)
      <4>1. /\ go' = [go EXCEPT ![t].todo = <<>>]
            /\ test' = test \/ test' = [test EXCEPT !.verdict = "failed"]
        BY <2>5, <3>3 DEF Dies
      <4>2. /\ test'.spec = test.spec /\ test'.todo = test.todo /\ test'.units = test.units
            /\ DOMAIN test' = TestFields
        BY <4>1 DEF Placed, TestFields
      <4> QED
        BY <2>3, <3>1, <4>1, <4>2, KidMoves
    <3> QED
      BY <2>2, <3>2, <3>3
  <2> QED
    BY <2>4, <2>5
<1>4. CASE Record(t)
  <2>1. Todo(t) # <<>> /\ Step(t).do = "recordContainer"
    BY <1>4 DEF Record, At
  <2>3. stub' = stub /\ done' = done /\ plan' = plan /\ Goes(t)
    BY <1>4 DEF Record
  <2>4. CASE t = "it"
    <3>1. test.todo # <<>> /\ First.do = "recordContainer"
      BY <2>1, <2>4, FirstStep DEF Todo
    <3>2. test' = [test EXCEPT !.todo = Tail(@)] /\ go' = go
      BY <2>3, <2>4 DEF Goes
    <3> QED
      BY <2>3, <3>1, <3>2 DEF Advances, Keeps, Placed, TestFields
  <2>5. CASE t # "it"
    <3>1. t \in Kids /\ go[t].todo # <<>>
      BY <2>1, <2>5 DEF Threads, Todo
    <3>2. go' = [go EXCEPT ![t].todo = Tail(go[t].todo)] /\ test' = test
      BY <2>3, <2>5 DEF Goes
    <3> QED
      BY <2>3, <3>1, <3>2, KidMoves DEF Placed
  <2> QED
    BY <2>4, <2>5
<1> QED
  BY <1>1, <1>2, <1>3, <1>4 DEF Call

LEMMA AroundMoves ==
  ASSUME Placed,
         \/ \E h \in held : Finish(h)
         \/ \E k \in DOMAIN stub : Plugin(k) \/ Timer(k)
         \/ \E c \in DOMAIN w.ctrs : Exits(c)
         \/ UNCHANGED vars
  PROVE  Rests
<1>1. CASE \E h \in held : Finish(h)
  BY <1>1, RestsWhen DEF Finish
<1>2. ASSUME NEW k \in DOMAIN stub, NEW s, Becomes(k, s)
      PROVE  Rests
  BY <1>2, RestsWhen DEF Becomes
<1>3. CASE \E k \in DOMAIN stub : Plugin(k) \/ Timer(k)
  BY <1>2, <1>3 DEF Plugin, Timer, Synchronize
<1>4. CASE \E c \in DOMAIN w.ctrs : Exits(c)
  BY <1>4, RestsWhen DEF Exits, Tell
<1>5. CASE UNCHANGED vars
  BY <1>5, RestsWhen DEF vars
<1> QED
  BY <1>1, <1>3, <1>4, <1>5

LEMMA NextMoves ==
  ASSUME Placed, Calling, [Next]_vars
  PROVE  Moves
<1>1. CASE SpecStep
  BY <1>1, AssertsMove, PluginStepsMove, OtherStepsMove DEF SpecStep, Moves
<1>2. CASE \E t \in Threads : Call(t) \/ Fault(t)
  BY <1>2, CallsMove DEF Moves
<1>3. CASE \/ \E h \in held : Finish(h)
           \/ \E k \in DOMAIN stub : Plugin(k) \/ Timer(k)
           \/ \E c \in DOMAIN w.ctrs : Exits(c)
           \/ UNCHANGED vars
  BY <1>3, AroundMoves DEF Moves
<1> QED
  BY <1>1, <1>2, <1>3 DEF Next

-------------------------------------------------------------------------------
(* The order of the specs.                                                 *)
LEMMA TakeMoves ==
  ASSUME Take
  PROVE  /\ test.spec = "" /\ plan' = plan /\ done' = done
         /\ DOMAIN test' = TestFields
         /\ test'.spec = plan.order[Ran + 1]
         /\ Ran < Len(plan.order)
         /\ test'.todo = Suite[test'.spec].body
         /\ test'.units = <<Suite[test'.spec].after>>
         /\ go' = go /\ stub' = stub /\ ret' = ret /\ held' = held
<1>1. test' = [NoSpec EXCEPT
                 !.spec = plan.order[Cardinality(DOMAIN done) + 1],
                 !.context = Suite[plan.order[Cardinality(DOMAIN done) + 1]].context,
                 !.todo = Suite[plan.order[Cardinality(DOMAIN done) + 1]].body,
                 !.units = <<Suite[plan.order[Cardinality(DOMAIN done) + 1]].after>>]
  BY DEF Take
<1>2. /\ DOMAIN test' = TestFields
      /\ test'.spec = plan.order[Cardinality(DOMAIN done) + 1]
      /\ test'.todo = Suite[test'.spec].body
      /\ test'.units = <<Suite[test'.spec].after>>
  BY <1>1 DEF NoSpec, TestFields
<1> QED
  BY <1>2 DEF Take, Ran

LEMMA NextUnitMoves ==
  ASSUME Placed, NextUnit
  PROVE  /\ Keeps /\ test.todo = <<>> /\ test.units # <<>> /\ test.spec # ""
         /\ test'.todo = Head(test.units) /\ test'.units = Tail(test.units)
         /\ go' = go /\ stub' = stub /\ ret' = ret /\ held' = held
<1>1. PICK c : test' = [test EXCEPT !.todo = Head(test.units), !.units = Tail(@),
                                    !.cleaning = c]
  BY DEF NextUnit
<1>2. /\ DOMAIN test' = TestFields /\ test'.spec = test.spec
      /\ test'.todo = Head(test.units) /\ test'.units = Tail(test.units)
  BY <1>1 DEF Placed, TestFields
<1> QED
  BY <1>2 DEF NextUnit, Keeps

LEMMA EndMoves ==
  ASSUME End
  PROVE  /\ test.spec # "" /\ test.todo = <<>> /\ plan' = plan
         /\ DOMAIN done' = DOMAIN done \cup {test.spec}
         /\ test'.spec = "" /\ test'.todo = <<>> /\ test'.units = <<>>
         /\ DOMAIN test' = TestFields
         /\ go' = go /\ stub' = stub /\ ret' = ret /\ held' = held
  BY DEF End, NoSpec, TestFields, Updated

LEMMA OrderTyped ==
  ASSUME plan \in Plans
  PROVE  /\ Len(plan.order) \in Nat
         /\ \A i \in 1..Len(plan.order) : plan.order[i] \in DOMAIN Suite
         /\ \A i, j \in 1..Len(plan.order) : plan.order[i] = plan.order[j] => i = j
<1>1. plan.order \in Seq(DOMAIN Suite)
  BY OrderAssumption
<1> QED
  BY <1>1, OrderAssumption

LEMMA Counted ==
  ASSUME plan \in Plans, Turn
  PROVE  Ran \in Nat /\ Len(plan.order) \in Nat /\ Ran <= Len(plan.order)
<1>1. Ran \in 0..Len(plan.order)
  BY DEF Turn
<1>2. Len(plan.order) \in Nat
  BY OrderTyped
<1> QED
  BY <1>1, <1>2

LEMMA NextOneNew ==
  ASSUME plan \in Plans, Turn, Ran < Len(plan.order)
  PROVE  plan.order[Ran + 1] \notin DOMAIN done
<1>1. SUFFICES ASSUME NEW i \in 1..Ran, plan.order[i] = plan.order[Ran + 1]
               PROVE  FALSE
  BY DEF Turn, FirstSpecs
<1>2. i \in 1..Len(plan.order) /\ Ran + 1 \in 1..Len(plan.order) /\ i # Ran + 1
  BY Counted
<1> QED
  BY <1>1, <1>2, OrderTyped

LEMMA TurnStep ==
  ASSUME plan \in Plans, Turn, Placed, Moves
  PROVE  plan' \in Plans /\ Turn'
<1>1. CASE Keeps
  BY <1>1 DEF Keeps, Turn, Ran
<1>2. CASE Take
  <2>1. test'.spec # "" => Ran < Len(plan.order) /\ test'.spec = plan.order[Ran + 1]
    BY <1>2, TakeMoves
  <2> QED
    BY <1>2, <2>1, TakeMoves DEF Turn, Ran
<1>3. CASE End
  <2>1. /\ Ran < Len(plan.order) /\ test.spec = plan.order[Ran + 1]
    BY <1>3, EndMoves DEF Turn
  <2>2. test.spec \notin DOMAIN done
    BY <2>1, NextOneNew
  <2>3. IsFiniteSet(DOMAIN done') /\ Ran' = Ran + 1
    <3>1. IsFiniteSet(DOMAIN done)
      BY DEF Turn
    <3> QED
      BY <1>3, <2>2, <3>1, EndMoves, FS_AddElement DEF Ran
  <2>4. DOMAIN done' = FirstSpecs(plan.order, Ran + 1)
    <3>1. FirstSpecs(plan.order, Ran + 1)
            = FirstSpecs(plan.order, Ran) \cup {plan.order[Ran + 1]}
      BY Counted DEF FirstSpecs
    <3> QED
      BY <1>3, <2>1, <3>1, EndMoves DEF Turn
  <2>5. test'.spec = "" /\ plan' = plan
    BY <1>3, EndMoves
  <2> QED
    <3>1. Ran' \in 0..Len(plan'.order)
      <4>1. Ran + 1 \in 0..Len(plan.order)
        BY <2>1, Counted
      <4> QED
        BY <2>3, <2>5, <4>1
    <3>2. DOMAIN done' = FirstSpecs(plan'.order, Ran')
      BY <2>3, <2>4, <2>5
    <3> QED
      BY <2>3, <2>5, <3>1, <3>2 DEF Turn
<1>4. CASE NextUnit
  BY <1>1, <1>4, NextUnitMoves
<1> QED
  BY <1>1, <1>2, <1>3, <1>4 DEF Moves, Rests, Advances, Halts, Branches, Repeats, Inserts

(* A spec that is taken has not run yet.                                   *)
LEMMA TakenAnew ==
  ASSUME plan \in Plans, Turn, Take
  PROVE  test'.spec \in DOMAIN Suite \ ({""} \cup DOMAIN done)
<1>1. /\ Ran < Len(plan.order) /\ test'.spec = plan.order[Ran + 1]
  BY TakeMoves
<1>2. test'.spec \notin DOMAIN done
  BY <1>1, NextOneNew
<1>3. test'.spec \in DOMAIN Suite
  BY <1>1, Counted, OrderTyped
<1> QED
  BY <1>2, <1>3, StepsAssumption

-------------------------------------------------------------------------------
(* What is left of a spec is left of its body or of a unit.                *)
LEMMA HeadTail ==
  ASSUME NEW T, NEW q \in Seq(T), q # <<>>
  PROVE  Head(q) \in T /\ Tail(q) \in Seq(T)
  OBVIOUS

LEMMA Elementwise ==
  ASSUME NEW A, NEW B, NEW q \in Seq(A), \A u \in Elements(q) : u \in B
  PROVE  q \in Seq(B)
<1>1. \A i \in 1..Len(q) : q[i] \in B
  BY DEF Elements
<1> QED
  BY <1>1

LEMMA ThenTyped == \A t \in Steps : t.then \in Seq(Steps)
  BY StepsAssumption

LEMMA UnitThen ==
  ASSUME NEW t \in UnitSteps, t.do \in Nesting
  PROVE  t.then \in Seq(UnitSteps)
<1>1. t \in Steps /\ t.then \in Seq(Steps)
  BY ThenTyped DEF UnitSteps
<1>2. ASSUME NEW u \in Elements(t.then)
      PROVE  u \in UnitSteps
  <2>1. u \in Steps
    BY <1>1, <1>2 DEF Elements
  <2>2. u.do \notin Starting \cup Nesting
    BY <1>2 DEF UnitSteps
  <2> QED
    BY <2>1, <2>2 DEF UnitSteps
<1> QED
  BY <1>1, <1>2, Elementwise

LEMMA EachTyped == EachSteps \in Seq(UnitSteps) /\ EachSteps \in Seq(PlainSteps)
<1> DEFINE a == [do |-> "StopCtr", x |-> "each", y |-> "", want |-> "any",
                 o |-> <<>>, then |-> <<>>]
           b == [do |-> "RemoveCtr", x |-> "each", y |-> "", want |-> "any",
                 o |-> <<>>, then |-> <<>>]
<1>1. Try("StopCtr", "each", "") = <<a>> /\ Try("RemoveCtr", "each", "") = <<b>>
  BY DEF Try, S
<1>2. EachSteps = <<a>> \o <<b>>
  BY <1>1 DEF EachSteps
<1>3. \A x : x \in Elements(<<x>>)
  BY DEF Elements
<1>4. a \in Steps /\ b \in Steps
  BY <1>1, <1>3 DEF Steps
<1>5. a.do = "StopCtr" /\ b.do = "RemoveCtr"
  OBVIOUS
<1> HIDE DEF a, b
<1>6. a \in PlainSteps /\ b \in PlainSteps
  BY <1>4, <1>5 DEF PlainSteps, Starting, Stopping, Nesting
<1>7. <<a>> \o <<b>> \in Seq(PlainSteps)
  BY <1>6
<1>8. <<a>> \o <<b>> \in Seq(UnitSteps)
  BY <1>6, StepsTyped
<1> QED
  BY <1>2, <1>7, <1>8

LEMMA TodoTyped ==
  ASSUME Placed, test.todo # <<>>
  PROVE  /\ test.todo \in Seq(Steps) /\ First \in Steps
         /\ \/ First \in BodySteps /\ Tail(test.todo) \in Seq(BodySteps)
            \/ First \in UnitSteps /\ Tail(test.todo) \in Seq(UnitSteps)
<1>1. CASE test.todo \in Seq(BodySteps)
  BY <1>1, HeadTail, StepsTyped DEF First
<1>2. CASE test.todo \in Seq(UnitSteps)
  BY <1>2, HeadTail, StepsTyped DEF First
<1> QED
  BY <1>1, <1>2 DEF Placed

LEMMA SpecTyped ==
  ASSUME plan \in Plans, Turn
  PROVE  test.spec \in DOMAIN Suite \cup {""}
<1>1. ASSUME test.spec # ""
      PROVE  test.spec \in DOMAIN Suite
  <2>1. test.spec = plan.order[Ran + 1] /\ Ran < Len(plan.order)
    BY <1>1 DEF Turn
  <2>2. Ran + 1 \in 1..Len(plan.order)
    BY <2>1, Counted
  <2> QED
    BY <2>1, <2>2, OrderTyped
<1> QED
  BY <1>1

LEMMA PlacedStep ==
  ASSUME plan \in Plans, Turn, Placed, Moves
  PROVE  Placed'
<1> DEFINE Goroutines == [Kids -> [spec : DOMAIN Suite \cup {""}, todo : Seq(Steps)]]
<1>1. CASE Rests
  BY <1>1 DEF Rests, Keeps, Placed
<1>2. CASE Advances
  <2>1. test'.todo \in Seq(BodySteps) \/ test'.todo \in Seq(UnitSteps)
    BY <1>2, TodoTyped DEF Advances
  <2>2. test'.units \in Seq(Seq(UnitSteps))
    <3>1. test.units \in Seq(Seq(UnitSteps))
      BY DEF Placed
    <3>2. ASSUME First.do = "Defer"
          PROVE  First.then \in Seq(UnitSteps)
      BY <1>2, <3>2, TodoTyped, UnitThen DEF Advances, BodySteps, Nesting
    <3>3. ASSUME First.then \in Seq(UnitSteps)
          PROVE  <<First.then>> \o test.units \in Seq(Seq(UnitSteps))
      <4> DEFINE T == Seq(UnitSteps)
      <4>1. First.then \in T /\ test.units \in Seq(T)
        BY <3>1, <3>3
      <4> HIDE DEF T
      <4>2. <<First.then>> \o test.units \in Seq(T)
        BY <4>1
      <4> QED
        BY <4>2 DEF T
    <3> QED
      BY <1>2, <3>1, <3>2, <3>3 DEF Advances
  <2>3. go' \in Goroutines
    <3>1. go \in Goroutines
      BY DEF Placed
    <3>2. CASE First.do # "Go"
      BY <1>2, <3>1, <3>2 DEF Advances
    <3>3. CASE First.do = "Go"
      <4>1. First.y \in Kids
        BY <1>2, <3>3, TodoTyped DEF Advances, BodySteps, UnitSteps, Starting
      <4>2. First.then \in Seq(Steps)
        BY <1>2, TodoTyped, ThenTyped DEF Advances
      <4>3. [spec |-> test.spec, todo |-> First.then]
              \in [spec : DOMAIN Suite \cup {""}, todo : Seq(Steps)]
        BY <4>2, SpecTyped
      <4> QED
        BY <1>2, <3>1, <3>3, <4>1, <4>3 DEF Advances
    <3> QED
      BY <3>2, <3>3
  <2>4. test'.spec = "" => test'.todo = <<>>
    BY <1>2 DEF Advances, Keeps, Placed
  <2> QED
    BY <1>2, <2>1, <2>2, <2>3, <2>4 DEF Advances, Keeps, Placed
<1>3. CASE Halts
  <2>1. <<>> \in Seq(BodySteps)
    OBVIOUS
  <2> QED
    BY <1>3, <2>1 DEF Halts, Keeps, Placed
<1>4. ASSUME NEW steps, NEW rest, Inserts(steps, rest),
             steps \o rest \in Seq(BodySteps) \/ steps \o rest \in Seq(UnitSteps)
      PROVE  Placed'
  BY <1>4 DEF Inserts, Keeps, Placed
<1>5. CASE Branches
  <2>1. CASE First \in BodySteps /\ Tail(test.todo) \in Seq(BodySteps)
    <3>1. First.then \in Seq(BodySteps)
      <4>1. First.then \in Seq(PlainSteps)
        BY <1>5, <2>1 DEF Branches, BodySteps
      <4> QED
        BY <4>1, StepsTyped
    <3>2. First.then \o Tail(test.todo) \in Seq(BodySteps)
      BY <2>1, <3>1
    <3> QED
      BY <1>4, <1>5, <3>2 DEF Branches
  <2>2. CASE First \in UnitSteps /\ Tail(test.todo) \in Seq(UnitSteps)
    <3>1. First.then \in Seq(UnitSteps)
      BY <1>5, <2>2, UnitThen DEF Branches, Nesting
    <3>2. First.then \o Tail(test.todo) \in Seq(UnitSteps)
      BY <2>2, <3>1
    <3> QED
      BY <1>4, <1>5, <3>2 DEF Branches
  <2> QED
    BY <1>5, <2>1, <2>2, TodoTyped DEF Branches, Inserts
<1>6. CASE Repeats
  <2>1. test.todo \in Seq(UnitSteps)
    <3>1. test.todo # <<>> /\ First.do = "RemoveEach"
      BY <1>6 DEF Repeats, Inserts
    <3>2. test.todo \notin Seq(BodySteps)
      BY <3>1, HeadTail DEF First, BodySteps, Stopping
    <3> QED
      BY <3>2 DEF Placed
  <2>2. EachSteps \o test.todo \in Seq(UnitSteps)
    BY <2>1, EachTyped
  <2> QED
    BY <1>4, <1>6, <2>2 DEF Repeats
<1>7. CASE Take
  <2>1. test'.spec \in DOMAIN Suite /\ test'.spec # ""
    BY <1>7, TakenAnew
  <2>2. test'.todo \in Seq(BodySteps) /\ Suite[test'.spec].after \in Seq(UnitSteps)
    BY <1>7, <2>1, TakeMoves, StepsAssumption
  <2>3. test'.units \in Seq(Seq(UnitSteps))
    <3> DEFINE T == Seq(UnitSteps)
    <3>1. Suite[test'.spec].after \in T
      BY <2>2
    <3> HIDE DEF T
    <3>2. <<Suite[test'.spec].after>> \in Seq(T)
      BY <3>1
    <3> QED
      BY <1>7, <3>2, TakeMoves DEF T
  <2> QED
    BY <1>7, <2>1, <2>2, <2>3, TakeMoves DEF Placed
<1>8. CASE NextUnit
  <2>1. Head(test.units) \in Seq(UnitSteps) /\ Tail(test.units) \in Seq(Seq(UnitSteps))
    <3> DEFINE T == Seq(UnitSteps)
    <3>1. test.units \in Seq(T) /\ test.units # <<>>
      BY <1>8, NextUnitMoves DEF Placed
    <3> HIDE DEF T
    <3>2. Head(test.units) \in T /\ Tail(test.units) \in Seq(T)
      BY <3>1, HeadTail
    <3> QED
      BY <3>2 DEF T
  <2> QED
    BY <1>8, <2>1, NextUnitMoves DEF Keeps, Placed
<1>9. CASE End
  <2>1. <<>> \in Seq(BodySteps) /\ <<>> \in Seq(Seq(UnitSteps))
    OBVIOUS
  <2> QED
    BY <1>9, <2>1, EndMoves DEF Placed
<1> QED
  BY <1>1, <1>2, <1>3, <1>5, <1>6, <1>7, <1>8, <1>9 DEF Moves

-------------------------------------------------------------------------------
(* The plugins.                                                            *)
Alike(s, r) ==
  /\ DOMAIN r = DOMAIN s
  /\ r.run = s.run /\ r.start = s.start /\ r.conn = s.conn
  /\ r.cancelled = s.cancelled /\ r.reached = s.reached

(* Unless it is given up or stopped, a plugin is not cancelled by a step.  *)
Follows(s, r) == Fit(r) /\ (~plan.slow /\ ~Stubborn /\ r.cancelled => s.cancelled)

LEMMA AlikeFollows ==
  ASSUME NEW s, NEW r, Fit(s), Alike(s, r)
  PROVE  Follows(s, r)
  BY DEF Fit, Alike, Follows, Steady, Mute

LEMMA Recording ==
  ASSUME NEW s, DOMAIN s = StubFields, NEW es, NEW h
  PROVE  /\ Alike(s, s)
         /\ Alike(s, Recorded(s, es))
         /\ Alike(s, [s EXCEPT !.pending = @ \o es])
         /\ Alike(s, [s EXCEPT !.used = TRUE])
         /\ Alike(s, [s EXCEPT !.hook = h])
         /\ Alike(s, [s EXCEPT !.released = TRUE])
         /\ Alike(s, Reset(s)) /\ Alike(s, Reaped(s))
  BY DEF StubFields, Alike, Recorded, Reset, Reaped

LEMMA EnteredFollows ==
  ASSUME NEW s, Fit(s), s.run # "connecting"
  PROVE  Follows(s, Entered(s))
<1>1. /\ DOMAIN Entered(s) = StubFields /\ Entered(s).run = s.run /\ Entered(s).start = s.start
      /\ Entered(s).conn = s.conn /\ Entered(s).cancelled = s.cancelled
  BY DEF Fit, StubFields, Entered
<1> QED
  BY <1>1 DEF Fit, Follows, Steady, Mute

LEMMA SynchronizedFollows ==
  ASSUME NEW s, Fit(s), s.run = "connecting", ~Stubborn, NEW ids
  PROVE  Follows(s, Synchronized(s, ids))
<1> DEFINE e == IF s.hook = "blocks Synchronize" THEN Entered(s) ELSE s
           r == [e EXCEPT !.run = "syncing", !.synced = ids]
<1>1. /\ DOMAIN e = StubFields /\ e.start = s.start
      /\ e.conn = s.conn /\ e.cancelled = s.cancelled
  BY DEF Fit, StubFields, Entered
<1>2. Synchronized(s, ids) = r
  BY DEF Synchronized
<1> HIDE DEF e
<1>3. /\ DOMAIN r = StubFields /\ r.run = "syncing" /\ r.start = s.start
      /\ r.conn = s.conn /\ r.cancelled = s.cancelled
  BY <1>1 DEF StubFields
<1> HIDE DEF r
<1> QED
  BY <1>2, <1>3 DEF Fit, Follows, Steady

LEMMA ServingFollows ==
  ASSUME NEW s, Fit(s), s.run = "syncing"
  PROVE  Follows(s, Serving(s))
<1>1. /\ DOMAIN Serving(s) = StubFields /\ Serving(s).run = "serving" /\ Serving(s).start = s.start
      /\ Serving(s).conn = s.conn /\ Serving(s).cancelled = s.cancelled
  BY DEF Fit, StubFields, Serving
<1> QED
  BY <1>1 DEF Fit, Follows, Steady, Mute

LEMMA LosingFollows ==
  ASSUME NEW s, Fit(s)
  PROVE  /\ s.cancelled /\ s.run = "serving" => Follows(s, Disconnected(s))
         /\ CanEnd(s) => Follows(s, Ended(s))
<1>1. ASSUME s.cancelled, s.run = "serving"
      PROVE  Follows(s, Disconnected(s))
  <2>1. /\ DOMAIN Disconnected(s) = StubFields /\ Disconnected(s).run = s.run /\ Disconnected(s).start = s.start
        /\ ~Disconnected(s).conn /\ Disconnected(s).cancelled = s.cancelled
    BY DEF Fit, StubFields, Disconnected
  <2> QED
    BY <1>1, <2>1 DEF Fit, Follows, Steady, Mute
<1>2. ASSUME CanEnd(s)
      PROVE  Follows(s, Ended(s))
  <2>1. /\ DOMAIN Ended(s) = StubFields /\ Ended(s).run = "exited" /\ Ended(s).start = s.start
        /\ Ended(s).conn = s.conn /\ Ended(s).cancelled = s.cancelled
    BY DEF Fit, StubFields, Ended
  <2>2. ~s.conn /\ s.run # "connecting"
    BY <1>2 DEF CanEnd
  <2> QED
    BY <2>1, <2>2 DEF Fit, Follows, Steady, Mute
<1> QED
  BY <1>1, <1>2

LEMMA StartReturnsFollows ==
  ASSUME NEW s, Fit(s), CanReturn(s)
  PROVE  Follows(s, StartReturns(s))
<1>1. /\ DOMAIN StartReturns(s) = StubFields /\ StartReturns(s).run = s.run /\ StartReturns(s).reached = s.reached /\ StartReturns(s).conn = s.conn
      /\ StartReturns(s).start = IF s.start = "waiting" /\ s.run = "serving" THEN "ready" ELSE "failed"
      /\ StartReturns(s).cancelled <=> s.cancelled \/ s.run = "exited"
  BY DEF Fit, StubFields, StartReturns
<1>2. s.run \in {"serving", "exited"}
  BY DEF CanReturn
<1>3. ~Stubborn
  BY <1>2 DEF Fit, Mute
<1>4. ~plan.slow => (s.run = "exited" => s.cancelled)
  BY DEF Fit, Steady
<1>5. s.run = "serving" => s.start = "waiting"
  BY DEF CanReturn
<1> QED
  BY <1>1, <1>2, <1>3, <1>4, <1>5 DEF Fit, Follows, Steady

LEMMA GivesUpFollows ==
  ASSUME NEW s, Fit(s), plan.slow \/ Stubborn
  PROVE  /\ Follows(s, GivesUp(s))
         /\ s.start = "stopping" => Follows(s, ForceClosed(s))
<1>1. Follows(s, GivesUp(s))
  <2>1. /\ DOMAIN GivesUp(s) = StubFields /\ GivesUp(s).run = s.run /\ GivesUp(s).start = "stopping"
        /\ GivesUp(s).conn = s.conn /\ GivesUp(s).cancelled /\ GivesUp(s).reached = s.reached
    BY DEF Fit, StubFields, GivesUp
  <2> QED
    BY <2>1 DEF Fit, Follows, Steady, Mute
<1>2. ASSUME s.start = "stopping"
      PROVE  Follows(s, ForceClosed(s))
  <2>1. /\ DOMAIN ForceClosed(s) = StubFields /\ ForceClosed(s).run = s.run /\ ForceClosed(s).start = "failed"
        /\ ~ForceClosed(s).conn /\ ForceClosed(s).cancelled = s.cancelled /\ ForceClosed(s).reached = s.reached
    BY DEF Fit, StubFields, ForceClosed
  <2> QED
    BY <1>2, <2>1 DEF Fit, Follows, Steady, Mute
<1> QED
  BY <1>1, <1>2

LEMMA CancelledFit ==
  ASSUME NEW s, Fit(s)
  PROVE  Fit(Cancelled(s))
<1>1. /\ DOMAIN Cancelled(s) = StubFields /\ Cancelled(s).run = s.run /\ Cancelled(s).start = s.start
      /\ Cancelled(s).conn = s.conn /\ Cancelled(s).cancelled /\ Cancelled(s).reached = s.reached
  BY DEF Fit, StubFields, Cancelled
<1> QED
  BY <1>1 DEF Fit, Steady, Mute

(* What a step does to the plugins.                                        *)
AllFollow ==
  DOMAIN stub' = DOMAIN stub /\ \A k \in DOMAIN stub : Follows(stub[k], stub'[k])

Launches ==
  /\ test.todo # <<>> /\ First.do = "Start"
  /\ stub' = Updated(stub, Key(First.x), Connecting(First.want))

Cancels ==
  /\ test.todo # <<>> /\ First.do = "Cancel"
  /\ stub' = [stub EXCEPT ![Key(First.x)] = Cancelled(@)]

LEMMA SameFollow ==
  ASSUME Plugged, stub' = stub
  PROVE  AllFollow
  BY AlikeFollows DEF AllFollow, Plugged, Alike

LEMMA AlikeAll ==
  ASSUME Plugged, DOMAIN stub' = DOMAIN stub,
         \A k \in DOMAIN stub : Alike(stub[k], stub'[k])
  PROVE  AllFollow
  BY AlikeFollows DEF AllFollow, Plugged

LEMMA OneFollows ==
  ASSUME Plugged, NEW k, NEW r, k \in DOMAIN stub => Follows(stub[k], r),
         stub' = [stub EXCEPT ![k] = r]
  PROVE  AllFollow
<1>1. \A j \in DOMAIN stub : Follows(stub[j], stub[j])
  BY AlikeFollows DEF Plugged, Alike
<1> QED
  BY <1>1 DEF AllFollow

LEMMA TellFollows ==
  ASSUME Plugged, NEW es, NEW k \in DOMAIN stub
  PROVE  Alike(stub[k], Tell(es)[k]) /\ DOMAIN Tell(es) = DOMAIN stub
<1>1. DOMAIN stub[k] = StubFields
  BY DEF Plugged, Fit
<1>2. \/ Tell(es)[k] = Recorded(stub[k], es)
      \/ Tell(es)[k] = [stub[k] EXCEPT !.pending = @ \o es]
      \/ Tell(es)[k] = stub[k]
  BY DEF Tell
<1>3. DOMAIN Tell(es) = DOMAIN stub
  BY DEF Tell
<1>4. /\ Alike(stub[k], stub[k]) /\ Alike(stub[k], Recorded(stub[k], es))
      /\ Alike(stub[k], [stub[k] EXCEPT !.pending = @ \o es])
  BY <1>1, Recording
<1> QED
  BY <1>2, <1>3, <1>4

(* What the stubs are told by a call, and which of them wait or fail.      *)
Heard(es, blocking, failing) ==
  /\ \A k \in blocking : Connected(stub[k])
  /\ stub' = [k \in DOMAIN stub |->
                IF k \in blocking THEN Entered(Tell(es)[k])
                ELSE IF k \in failing THEN [Tell(es)[k] EXCEPT !.used = TRUE]
                ELSE Tell(es)[k]]

LEMMA ServeFollows ==
  ASSUME Plugged, NEW t \in Threads, Serve(t)
  PROVE  AllFollow
<1>0. PICK es, blocking, failing : Heard(es, blocking, failing)
  <2> DEFINE s  == Step(t)
             x  == IF s.do \in {"RunPod", "Create"} THEN New(t, s.x) ELSE Id(t, s.x)
             es == Events(s.do, x, Id(t, s.y))
             hooking  == {k \in DOMAIN stub : Connected(stub[k])}
             blocking == {k \in hooking : \E i \in DOMAIN es : Blocks(stub[k], es[i].type)}
             failing  == {k \in hooking : \E i \in DOMAIN es : Fails(stub[k], es[i].type)}
  <2>1. Heard(es, blocking, failing)
    BY DEF Serve, Heard
  <2> HIDE DEF es, blocking, failing
  <2> QED
    BY <2>1, Zenon
<1>1. /\ \A k \in blocking : Connected(stub[k])
      /\ stub' = [k \in DOMAIN stub |->
                    IF k \in blocking THEN Entered(Tell(es)[k])
                    ELSE IF k \in failing THEN [Tell(es)[k] EXCEPT !.used = TRUE]
                    ELSE Tell(es)[k]]
  BY <1>0 DEF Heard
<1>2. ASSUME NEW k \in DOMAIN stub
      PROVE  Follows(stub[k], stub'[k])
  <2> DEFINE r == Tell(es)[k]
  <2>1. Alike(stub[k], r) /\ Fit(stub[k]) /\ DOMAIN stub[k] = StubFields
    BY TellFollows DEF Plugged, Fit
  <2>2. Fit(r) /\ DOMAIN r = StubFields
    BY <2>1, AlikeFollows DEF Follows, Alike
  <2>3. CASE k \in blocking
    <3>1. stub'[k] = Entered(r) /\ Connected(stub[k])
      BY <1>1, <2>3
    <3>2. r.run # "connecting"
      BY <2>1, <3>1 DEF Alike, Connected
    <3> HIDE DEF r
    <3> QED
      BY <2>1, <2>2, <3>1, <3>2, EnteredFollows DEF Follows, Alike
  <2>4. CASE k \notin blocking /\ k \in failing
    <3>1. stub'[k] = [r EXCEPT !.used = TRUE]
      BY <1>1, <2>4
    <3> HIDE DEF r
    <3>2. Alike(r, stub'[k])
      BY <2>2, <3>1, Recording
    <3>3. Alike(stub[k], stub'[k])
      BY <2>1, <3>2 DEF Alike
    <3> QED
      BY <2>1, <3>3, AlikeFollows
  <2>5. CASE k \notin blocking /\ k \notin failing
    <3>1. stub'[k] = r
      BY <1>1, <2>5
    <3> QED
      BY <2>1, <3>1, AlikeFollows
  <2> QED
    BY <2>3, <2>4, <2>5
<1> QED
  BY <1>1, <1>2 DEF AllFollow

LEMMA PluginFollows ==
  ASSUME Plugged, NEW k \in DOMAIN stub, Plugin(k) \/ Timer(k)
  PROVE  AllFollow
<1>1. Fit(stub[k])
  BY DEF Plugged
<1>2. ASSUME NEW r, Becomes(k, r), Follows(stub[k], r)
      PROVE  AllFollow
  BY <1>2, OneFollows DEF Becomes
<1>3. CASE Synchronize(k)
  BY <1>1, <1>2, <1>3, SynchronizedFollows DEF Synchronize, Stubborn
<1>4. CASE CanServe(stub[k]) /\ Becomes(k, Serving(stub[k]))
  BY <1>1, <1>2, <1>4, ServingFollows DEF CanServe, Syncing
<1>5. CASE CanDisconnect(stub[k]) /\ Becomes(k, Disconnected(stub[k]))
  BY <1>1, <1>2, <1>5, LosingFollows DEF CanDisconnect, Connected
<1>6. CASE CanEnd(stub[k]) /\ Becomes(k, Ended(stub[k]))
  BY <1>1, <1>2, <1>6, LosingFollows
<1>7. CASE CanReturn(stub[k]) /\ Becomes(k, StartReturns(stub[k]))
  BY <1>1, <1>2, <1>7, StartReturnsFollows
<1>8. CASE Timer(k)
  <2>1. plan.slow \/ Stubborn
    BY <1>8 DEF Timer, Stubborn
  <2>2. Follows(stub[k], Reaped(stub[k]))
    BY <1>1, Recording, AlikeFollows DEF Fit
  <2> QED
    BY <1>1, <1>2, <1>8, <2>1, <2>2, GivesUpFollows DEF Timer
<1> QED
  BY <1>3, <1>4, <1>5, <1>6, <1>7, <1>8 DEF Plugin

LEMMA SpecStepFollows ==
  ASSUME Plugged, SpecStep
  PROVE  AllFollow \/ Launches \/ Cancels
<1>1. CASE Start
  BY <1>1, FirstStep DEF Start, Launches, At, Todo
<1>2. CASE WaitTimesOut
  <2>1. PICK k : stub' = [stub EXCEPT ![k].released = TRUE]
    BY <1>2 DEF WaitTimesOut
  <2>2. stub' = [stub EXCEPT ![k] = [stub[k] EXCEPT !.released = TRUE]]
    BY <2>1
  <2>3. k \in DOMAIN stub => Follows(stub[k], [stub[k] EXCEPT !.released = TRUE])
    BY Recording, AlikeFollows DEF Plugged, Fit
  <2> QED
    BY <2>2, <2>3, OneFollows
<1>3. CASE Command
  <2> DEFINE k == Key(First.x)
  <2>1. test.todo # <<>> /\ Step("it") = First
    BY <1>3, FirstStep DEF Command, At, Todo
  <2>2. CASE stub' = [stub EXCEPT ![k].hook = First.want]
    <3>1. stub' = [stub EXCEPT ![k] = [stub[k] EXCEPT !.hook = First.want]]
      BY <2>2
    <3>2. k \in DOMAIN stub => Follows(stub[k], [stub[k] EXCEPT !.hook = First.want])
      BY Recording, AlikeFollows DEF Plugged, Fit
    <3> QED
      BY <3>1, <3>2, OneFollows
  <2>3. CASE stub' = [stub EXCEPT ![k].released = TRUE]
    <3>1. stub' = [stub EXCEPT ![k] = [stub[k] EXCEPT !.released = TRUE]]
      BY <2>3
    <3>2. k \in DOMAIN stub => Follows(stub[k], [stub[k] EXCEPT !.released = TRUE])
      BY Recording, AlikeFollows DEF Plugged, Fit
    <3> QED
      BY <3>1, <3>2, OneFollows
  <2>4. CASE First.do = "Cancel" /\ stub' = [stub EXCEPT ![k] = Cancelled(@)]
    BY <2>1, <2>4 DEF Cancels
  <2>5. CASE stub' = stub
    BY <2>5, SameFollow
  <2>6. CASE stub' = [stub EXCEPT ![k] = Reset(@)]
    <3>1. k \in DOMAIN stub => Follows(stub[k], Reset(stub[k]))
      BY Recording, AlikeFollows DEF Plugged, Fit
    <3> QED
      BY <2>6, <3>1, OneFollows
  <2> QED
    BY <1>3, <2>1, <2>2, <2>3, <2>4, <2>5, <2>6 DEF Command, At
<1>4. CASE \/ Asserts \/ Started \/ Wait \/ Bookkeeping \/ Structure \/ RemoveNext
           \/ Spawn \/ Take \/ NextUnit \/ End
  BY <1>4, SameFollow
     DEF Asserts, Started, Wait, Bookkeeping, Structure, RemoveNext, Spawn, Take,
         NextUnit, End
<1> QED
  BY <1>1, <1>2, <1>3, <1>4 DEF SpecStep

(* The plan is chosen once, and only what a call answers can blame a test. *)
LEMMA NextLeaves ==
  ASSUME [Next]_vars
  PROVE  plan' = plan /\ (blamed' = blamed \/ \E t \in Threads : Return(t))
<1>1. CASE SpecStep
  <2>1. CASE \/ Asserts \/ Command \/ Bookkeeping \/ Structure \/ RemoveNext
             \/ Spawn \/ Take \/ NextUnit \/ End
    BY <2>1 DEF Asserts, Command, Bookkeeping, Structure, RemoveNext, Spawn, Take,
                NextUnit, End
  <2>2. CASE Start \/ Started \/ Wait \/ WaitTimesOut
    BY <2>2 DEF Start, Started, Wait, WaitTimesOut
  <2> QED
    BY <1>1, <2>1, <2>2 DEF SpecStep
<1>2. ASSUME NEW t \in Threads, Serve(t) \/ Refuse(t) \/ Abandon(t) \/ Record(t) \/ Fault(t)
      PROVE  UNCHANGED <<plan, blamed>>
  BY <1>2 DEF Serve, Refuse, Abandon, Record, Fault
<1>3. ASSUME NEW t \in Threads, Return(t)
      PROVE  plan' = plan
  BY <1>3 DEF Return
<1>4. ASSUME NEW h \in held, Finish(h)
      PROVE  UNCHANGED <<plan, blamed>>
  BY <1>4 DEF Finish
<1>5. ASSUME NEW k \in DOMAIN stub, Plugin(k) \/ Timer(k)
      PROVE  UNCHANGED <<plan, blamed>>
  BY <1>5 DEF Plugin, Timer, Synchronize, Becomes
<1>6. ASSUME NEW c \in DOMAIN w.ctrs, Exits(c)
      PROVE  UNCHANGED <<plan, blamed>>
  BY <1>6 DEF Exits
<1>7. CASE UNCHANGED vars
  BY <1>7 DEF vars
<1> QED
  BY <1>1, <1>2, <1>3, <1>4, <1>5, <1>6, <1>7 DEF Next, Call

LEMMA NextFollows ==
  ASSUME Plugged, [Next]_vars
  PROVE  plan' = plan /\ (AllFollow \/ Launches \/ Cancels)
<1>1. CASE SpecStep
  BY <1>1, SpecStepFollows, NextLeaves
<1>2. CASE \E t \in Threads : Serve(t)
  BY <1>2, ServeFollows, NextLeaves
<1>3. CASE \E t \in Threads : Refuse(t) \/ Abandon(t) \/ Return(t) \/ Record(t) \/ Fault(t)
  BY <1>3, SameFollow DEF Refuse, Abandon, Return, Record, Fault
<1>4. CASE \E h \in held : Finish(h)
  BY <1>4, SameFollow DEF Finish
<1>5. CASE \E k \in DOMAIN stub : Plugin(k) \/ Timer(k)
  BY <1>5, PluginFollows DEF Plugin, Timer, Synchronize, Becomes
<1>6. CASE \E c \in DOMAIN w.ctrs : Exits(c)
  <2>1. plan' = plan /\ \E es : stub' = Tell(es)
    BY <1>6 DEF Exits
  <2> QED
    BY <2>1, TellFollows, AlikeAll DEF Tell
<1>7. CASE UNCHANGED vars
  BY <1>7, SameFollow DEF vars
<1> QED
  BY <1>1, <1>2, <1>3, <1>4, <1>5, <1>6, <1>7 DEF Next, Call

LEMMA PluggedStep ==
  ASSUME Placed, Plugged, [Next]_vars
  PROVE  Plugged'
<1>1. plan' = plan
  BY NextFollows
<1>2. SUFFICES ASSUME NEW k \in DOMAIN stub'
               PROVE  Fit(stub'[k])
  BY <1>1 DEF Plugged, Fit, Stubborn, Breaks
<1>3. CASE AllFollow
  BY <1>3 DEF AllFollow, Follows
<1>4. CASE Launches
  <2>1. CASE k = Key(First.x)
    <3>1. stub'[k] = Connecting(First.want)
      BY <1>4, <2>1 DEF Launches, Updated
    <3>2. Fit(Connecting(First.want))
      BY DEF Connecting, Fit, StubFields, Steady, Mute
    <3> QED
      BY <3>1, <3>2
  <2>2. CASE k # Key(First.x)
    BY <1>2, <1>4, <2>2 DEF Launches, Updated, Plugged
  <2> QED
    BY <2>1, <2>2
<1>5. CASE Cancels
  BY <1>2, <1>5, CancelledFit DEF Cancels, Plugged
<1> QED
  BY <1>3, <1>4, <1>5, NextFollows

LEMMA KeyedStep ==
  ASSUME Turn, Placed, Keyed, Moves
  PROVE  Keyed'
<1>1. CASE Advances
  <2>1. test.spec # "" /\ test'.spec = test.spec /\ done' = done
    BY <1>1 DEF Advances, Keeps, Placed
  <2>2. Key(First.x)[1] = test.spec
    BY DEF Key
  <2>3. DOMAIN stub' \subseteq DOMAIN stub \cup {Key(First.x)}
    BY <1>1 DEF Advances
  <2> QED
    BY <2>1, <2>2, <2>3 DEF Keyed
<1>2. CASE Keeps /\ DOMAIN stub' = DOMAIN stub
  BY <1>2 DEF Keeps, Keyed
<1>3. CASE Take
  BY <1>3, TakeMoves DEF Keyed
<1>4. CASE End
  BY <1>4, EndMoves DEF Keyed
<1> QED
  BY <1>1, <1>2, <1>3, <1>4, NextUnitMoves
     DEF Moves, Rests, Halts, Branches, Repeats, Inserts

(* A spec that has steps of its body left had them before.                 *)
LEMMA AheadBefore ==
  ASSUME Placed, Moves, ~Take, Ahead(test'.todo)
  PROVE  Ahead(test.todo) /\ test'.spec = test.spec
<1>1. CASE Rests
  BY <1>1 DEF Rests, Keeps
<1>2. CASE Advances
  <2>1. test.todo # <<>> /\ test.todo \in Seq(Steps) /\ test'.todo = Tail(test.todo)
    BY <1>2, TodoTyped DEF Advances
  <2>2. PICK i \in DOMAIN Tail(test.todo) : Tail(test.todo)[i].do \in Starting
    BY <2>1 DEF Ahead
  <2>3. i + 1 \in DOMAIN test.todo /\ test.todo[i + 1].do \in Starting
    BY <2>1, <2>2, AfterHead
  <2> QED
    BY <1>2, <2>3 DEF Ahead, Advances, Keeps
<1>3. CASE Halts \/ End
  <2>1. test'.todo = <<>>
    BY <1>3, EndMoves DEF Halts
  <2> QED
    BY <2>1 DEF Ahead
<1>4. CASE Branches
  <2>1. test.todo # <<>> /\ First.do = "IfSet" /\ test'.spec = test.spec
        /\ test'.todo = First.then \o Tail(test.todo)
    BY <1>4 DEF Branches, Inserts, Keeps
  <2>2. test.todo \in Seq(Steps)
    BY <2>1, TodoTyped
  <2>3. CASE First \in BodySteps /\ Tail(test.todo) \in Seq(BodySteps)
    <3>1. First.then \in Seq(PlainSteps) /\ Tail(test.todo) \in Seq(Steps)
      BY <2>1, <2>3, StepsTyped DEF BodySteps
    <3>2. Ahead(Tail(test.todo))
      BY <2>1, <3>1, PlainFirst
    <3>3. PICK i \in DOMAIN Tail(test.todo) : Tail(test.todo)[i].do \in Starting
      BY <3>2 DEF Ahead
    <3>4. i + 1 \in DOMAIN test.todo /\ test.todo[i + 1].do \in Starting
      BY <2>1, <2>2, <3>3, AfterHead
    <3> QED
      BY <2>1, <3>4 DEF Ahead
  <2>4. CASE First \in UnitSteps /\ Tail(test.todo) \in Seq(UnitSteps)
    <3>1. First.then \in Seq(UnitSteps)
      BY <2>1, <2>4, UnitThen DEF Nesting
    <3>2. First.then \o Tail(test.todo) \in Seq(UnitSteps)
      BY <2>4, <3>1
    <3> QED
      BY <2>1, <3>2, OfUnits
  <2> QED
    BY <2>1, <2>3, <2>4, TodoTyped
<1>5. CASE Repeats
  <2>1. /\ test.todo # <<>> /\ test'.spec = test.spec
        /\ test'.todo = EachSteps \o test.todo
    BY <1>5 DEF Repeats, Inserts, Keeps
  <2> QED
    BY <2>1, TodoTyped, EachTyped, PlainFirst
<1>6. CASE NextUnit
  <2>1. Head(test.units) \in Seq(UnitSteps)
    <3> DEFINE T == Seq(UnitSteps)
    <3>1. test.units \in Seq(T) /\ test.units # <<>>
      BY <1>6, NextUnitMoves DEF Placed
    <3> HIDE DEF T
    <3>2. Head(test.units) \in T
      BY <3>1, HeadTail
    <3> QED
      BY <3>2 DEF T
  <2> QED
    BY <1>6, <2>1, NextUnitMoves, OfUnits
<1> QED
  BY <1>1, <1>2, <1>3, <1>4, <1>5, <1>6 DEF Moves

LEMMA AheadNotCancels ==
  ASSUME Placed, Ahead(test.todo)
  PROVE  ~Cancels
<1>1. test.todo \in Seq(BodySteps)
  BY OfUnits DEF Placed
<1>2. test.todo # <<>> => First.do # "Cancel"
  BY <1>1, HeadTail DEF First, BodySteps, Stopping
<1> QED
  BY <1>2 DEF Cancels

LEMMA AliveStep ==
  ASSUME plan \in Plans, Turn, Placed, Calling, Plugged, Keyed, Alive, [Next]_vars
  PROVE  Alive'
<1>1. plan' = plan /\ Moves
  BY NextFollows, NextMoves
<1>2. SUFFICES ASSUME ~plan.slow, ~Stubborn, Ahead(test'.todo),
                      NEW k \in DOMAIN stub', k[1] = test'.spec
               PROVE  ~stub'[k].cancelled
  BY <1>1 DEF Alive, Stubborn, Breaks
<1>3. CASE Take
  BY <1>2, <1>3, TakenAnew, TakeMoves DEF Keyed
<1>4. CASE ~Take
  <2>1. Ahead(test.todo) /\ test'.spec = test.spec
    BY <1>1, <1>2, <1>4, AheadBefore
  <2>2. \A j \in DOMAIN stub : j[1] = test.spec => ~stub[j].cancelled
    BY <1>2, <2>1 DEF Alive
  <2>3. CASE AllFollow
    BY <1>2, <2>1, <2>2, <2>3 DEF AllFollow, Follows
  <2>4. CASE Launches
    <3>1. CASE k = Key(First.x)
      <4>1. stub'[k] = Connecting(First.want)
        BY <2>4, <3>1 DEF Launches, Updated
      <4> QED
        BY <4>1 DEF Connecting
    <3>2. CASE k # Key(First.x)
      BY <1>2, <2>1, <2>2, <2>4, <3>2 DEF Launches, Updated
    <3> QED
      BY <3>1, <3>2
  <2> QED
    BY <2>1, <2>3, <2>4, NextFollows, AheadNotCancels
<1> QED
  BY <1>3, <1>4

-------------------------------------------------------------------------------
(* Who waits for a plugin of the spec has started it; one that never gets  *)
(* synchronized it waits for in vain.                                      *)
LEMMA AwaitedStarted ==
  ASSUME Placed, Orderly, test.todo # <<>>, First.do \in {"Reached", "Started"}
  PROVE  Key(First.x) \in DOMAIN stub
<1>1. test.todo \in Seq(Steps)
  BY TodoTyped
<1>2. First.x \in StartedHere
  BY <1>1, TailStarted DEF Orderly, First
<1> QED
  BY <1>2 DEF StartedHere

LEMMA NotHeardOf ==
  ASSUME Placed, Orderly, Plugged, Advances, Stubborn
  PROVE  First.do \notin {"Reached", "Started"}
<1>1. SUFFICES ASSUME First.do \in {"Reached", "Started"}
               PROVE  FALSE
  OBVIOUS
<1>2. Mute(Stub(First.x))
  BY <1>1, AwaitedStarted DEF Advances, Plugged, Fit, Stub
<1> QED
  BY <1>1, <1>2 DEF Advances, Mute

LEMMA OrderlyStep ==
  ASSUME plan \in Plans, Turn, Placed, Plugged, Orderly, Moves, plan' = plan
  PROVE  Orderly'
<1>0. Stubborn' = Stubborn
  BY DEF Stubborn, Breaks
<1>1. ASSUME test'.spec = test.spec
      PROVE  StartedHere' = {x \in {t.x : t \in Steps} : Key(x) \in DOMAIN stub'}
  BY <1>1 DEF StartedHere, Key
<1>2. ASSUME test'.spec = test.spec, DOMAIN stub' = DOMAIN stub
      PROVE  StartedHere' = StartedHere
  BY <1>2 DEF StartedHere, Key
<1>3. CASE Rests
  BY <1>0, <1>2, <1>3 DEF Rests, Keeps, Orderly
<1>4. CASE Advances
  <2>1. /\ test.todo # <<>> /\ test.todo \in Seq(Steps) /\ test'.todo = Tail(test.todo)
        /\ First \in Steps /\ First = Head(test.todo)
    BY <1>4, TodoTyped DEF Advances, First
  <2>2. AllJoined(test'.todo)
    BY <2>1, TailJoined DEF Orderly
  <2>3. Stubborn => AllSeen(test'.todo)
    BY <1>4, <2>1, TailSeen, NotHeardOf DEF Orderly
  <2>4. StartedHere \subseteq StartedHere' /\ (First.do = "Start" => First.x \in StartedHere')
    <3>1. StartedHere' = {x \in {t.x : t \in Steps} : Key(x) \in DOMAIN stub'}
      BY <1>1, <1>4 DEF Advances, Keeps
    <3>2. DOMAIN stub \subseteq DOMAIN stub'
          /\ (First.do = "Start" => Key(First.x) \in DOMAIN stub')
      BY <1>4 DEF Advances
    <3> QED
      BY <2>1, <3>1, <3>2 DEF StartedHere
  <2>5. AllStarted(test'.todo, StartedHere')
    BY <2>1, <2>4, TailStarted DEF Orderly
  <2> QED
    BY <1>0, <2>2, <2>3, <2>5 DEF Orderly
<1>5. ASSUME test'.todo \in Seq(UnitSteps)
      PROVE  Orderly'
  BY <1>5, OfUnits DEF Orderly
<1>6. CASE Halts \/ End
  <2>1. test'.todo = <<>>
    BY <1>6, EndMoves DEF Halts
  <2>2. <<>> \in Seq(UnitSteps)
    OBVIOUS
  <2> QED
    BY <1>5, <2>1, <2>2
<1>7. ASSUME NEW steps \in Seq(PlainSteps), NEW rest \in Seq(Steps), Inserts(steps, rest),
             AllJoined(rest), Stubborn => AllSeen(rest), AllStarted(rest, StartedHere)
      PROVE  Orderly'
  <2>1. test'.todo = steps \o rest /\ StartedHere' = StartedHere
    BY <1>2, <1>7 DEF Inserts, Keeps
  <2>2. /\ AllJoined(steps \o rest) /\ (Stubborn => AllSeen(steps \o rest))
        /\ AllStarted(steps \o rest, StartedHere)
    BY <1>7, PlainFirst
  <2> QED
    BY <1>0, <2>1, <2>2 DEF Orderly
<1>8. CASE Branches
  <2>1. /\ test.todo # <<>> /\ First.do = "IfSet" /\ test.todo \in Seq(Steps)
        /\ Inserts(First.then, Tail(test.todo)) /\ First = Head(test.todo)
    BY <1>8, TodoTyped DEF Branches, Inserts, First
  <2>2. CASE First \in BodySteps /\ Tail(test.todo) \in Seq(BodySteps)
    <3>1. First.then \in Seq(PlainSteps) /\ Tail(test.todo) \in Seq(Steps)
      BY <2>1, <2>2, StepsTyped DEF BodySteps
    <3>2. /\ AllJoined(Tail(test.todo)) /\ (Stubborn => AllSeen(Tail(test.todo)))
          /\ AllStarted(Tail(test.todo), StartedHere)
      BY <2>1, TailJoined, TailSeen, TailStarted DEF Orderly
    <3> QED
      BY <1>7, <2>1, <3>1, <3>2
  <2>3. CASE First \in UnitSteps /\ Tail(test.todo) \in Seq(UnitSteps)
    <3>1. First.then \in Seq(UnitSteps)
      BY <2>1, <2>3, UnitThen DEF Nesting
    <3>2. First.then \o Tail(test.todo) \in Seq(UnitSteps)
      BY <2>3, <3>1
    <3> QED
      BY <1>5, <2>1, <3>2 DEF Inserts
  <2> QED
    BY <2>1, <2>2, <2>3, TodoTyped
<1>9. CASE Repeats
  <2>1. /\ test.todo # <<>> /\ test.todo \in Seq(Steps) /\ Inserts(EachSteps, test.todo)
    BY <1>9, TodoTyped DEF Repeats, Inserts
  <2> QED
    BY <1>7, <2>1, EachTyped DEF Orderly
<1>10. CASE Take
  <2>1. test'.spec \in DOMAIN Suite /\ test'.todo = Suite[test'.spec].body
    BY <1>10, TakenAnew, TakeMoves
  <2>2. AllJoined(test'.todo) /\ AllSeen(test'.todo) /\ AllStarted(test'.todo, {})
    BY <2>1, JoinsAssumption
  <2>3. AllStarted(test'.todo, StartedHere')
    BY <2>2 DEF AllStarted
  <2> QED
    BY <2>2, <2>3 DEF Orderly
<1>11. CASE NextUnit
  <2>1. Head(test.units) \in Seq(UnitSteps)
    <3> DEFINE T == Seq(UnitSteps)
    <3>1. test.units \in Seq(T) /\ test.units # <<>>
      BY <1>11, NextUnitMoves DEF Placed
    <3> HIDE DEF T
    <3>2. Head(test.units) \in T
      BY <3>1, HeadTail
    <3> QED
      BY <3>2 DEF T
  <2> QED
    BY <1>5, <1>11, <2>1, NextUnitMoves
<1> QED
  BY <1>3, <1>4, <1>6, <1>8, <1>9, <1>10, <1>11 DEF Moves

-------------------------------------------------------------------------------
(* While a goroutine may fail its spec, the spec does not end.             *)
LEMMA NotFailed ==
  ASSUME Placed, Plugged, Alive, Orderly, ~plan.slow, ~Stubborn, Ahead(test.todo),
         test.todo # <<>>, First.do = "Started"
  PROVE  Stub(First.x).start # "failed"
<1>1. Key(First.x) \in DOMAIN stub /\ Key(First.x)[1] = test.spec
  BY AwaitedStarted DEF Key
<1>2. ~stub[Key(First.x)].cancelled
  BY <1>1 DEF Alive
<1>3. Steady(stub[Key(First.x)])
  BY <1>1 DEF Plugged, Fit
<1> QED
  BY <1>2, <1>3 DEF Steady, Stub

LEMMA JoinsAhead ==
  ASSUME NEW q, NEW g, Joins(q, 0, g)
  PROVE  Ahead(q)
  BY DEF Joins, Ahead, Starting

LEMMA RiskyTail ==
  ASSUME NEW q \in Seq(Steps), q # <<>>, NEW r \in {q, <<>>, Tail(q)}, Risky(r)
  PROVE  Risky(q)
<1>1. CASE r = Tail(q)
  <2>1. PICK i \in DOMAIN Tail(q) : Tail(q)[i].want # "any"
    BY <1>1 DEF Risky
  <2>2. i + 1 \in DOMAIN q /\ q[i + 1].want # "any"
    BY <2>1, AfterHead
  <2> QED
    BY <2>2 DEF Risky
<1>2. CASE r = <<>>
  BY <1>2 DEF Risky
<1> QED
  BY <1>1, <1>2

LEMMA OwnedStep ==
  ASSUME plan \in Plans, Turn, Placed, Plugged, Alive, Orderly, Owned, Moves, plan' = plan
  PROVE  Owned'
<1>1. SUFFICES ASSUME ~plan.slow, NEW t \in Kids, Risky(go'[t].todo)
               PROVE  /\ go'[t].spec = test'.spec /\ test'.spec # ""
                      /\ Joins(test'.todo, 0, t) /\ ~Stubborn
  BY DEF Owned, Stubborn, Breaks
<1> DEFINE Mine == /\ go[t].spec = test.spec /\ test.spec # ""
                   /\ Joins(test.todo, 0, t) /\ ~Stubborn
<1>2. Risky(go[t].todo) => Mine
  BY <1>1 DEF Owned
<1>3. Mine => /\ test.todo # <<>> /\ First.do \in Unfailing /\ Ahead(test.todo)
              /\ (First.do = "Join" => First.y # t) => Joins(Tail(test.todo), 0, t)
  <2>1. SUFFICES ASSUME Mine
                 PROVE  /\ test.todo # <<>> /\ First.do \in Unfailing /\ Ahead(test.todo)
                        /\ (First.do = "Join" => First.y # t) => Joins(Tail(test.todo), 0, t)
    OBVIOUS
  <2>2. test.todo \in Seq(Steps) /\ First = Head(test.todo)
    BY StepsTyped DEF First, Placed
  <2> QED
    BY <2>1, <2>2, JoinsNext, JoinsAhead
<1>4. CASE Rests
  <2>1. Risky(go[t].todo)
    BY <1>1, <1>4, RiskyTail DEF Rests, KidsOn, Placed
  <2>2. go'[t].spec = go[t].spec
    BY <1>4 DEF Rests, KidsOn
  <2> QED
    BY <1>2, <1>4, <2>1, <2>2 DEF Rests, Keeps
<1>5. CASE Advances
  <2>1. /\ test.todo # <<>> /\ test.todo \in Seq(Steps) /\ test'.todo = Tail(test.todo)
        /\ First \in Steps /\ First = Head(test.todo) /\ test'.spec = test.spec
        /\ test.spec # ""
    BY <1>5, TodoTyped DEF Advances, First, Keeps, Placed
  <2>2. CASE go'[t] = go[t]
    <3>1. Mine
      BY <1>1, <1>2, <2>2
    <3>2. First.do = "Join" => First.y # t
      <4>1. go[t].todo # <<>>
        BY <1>1, <2>2 DEF Risky
      <4> QED
        BY <1>5, <4>1 DEF Advances
    <3> QED
      BY <1>3, <2>1, <2>2, <3>1, <3>2
  <2>3. CASE go'[t] # go[t]
    <3>1. First.do = "Go" /\ go' = [go EXCEPT ![First.y] = [spec |-> test.spec, todo |-> First.then]]
      BY <1>5, <2>3 DEF Advances
    <3>2. t = First.y /\ go'[t].spec = test.spec /\ go'[t].todo = First.then
      BY <2>3, <3>1 DEF Placed
    <3>3. Joins(Tail(test.todo), 0, t)
      BY <1>1, <2>1, <3>1, <3>2, TailJoined DEF Orderly
    <3>4. ~Stubborn
      <4>1. SUFFICES ASSUME Stubborn
                     PROVE  FALSE
        OBVIOUS
      <4>2. AllSeen(test.todo) /\ First.do \notin {"Reached", "Started"}
        BY <3>1, <4>1 DEF Orderly
      <4> QED
        BY <1>1, <2>1, <3>1, <3>2, <4>2, TailSeen
    <3> QED
      BY <2>1, <3>2, <3>3, <3>4
  <2> QED
    BY <2>2, <2>3
<1>6. CASE Halts
  <2>1. Mine
    BY <1>1, <1>2, <1>6 DEF Halts
  <2>2. First.do = "Started" /\ Stub(First.x).start = "failed"
    BY <1>3, <1>6, <2>1 DEF Halts
  <2> QED
    BY <1>1, <1>3, <2>1, <2>2, NotFailed
<1>7. CASE Branches \/ Repeats
  <2>1. Mine
    BY <1>1, <1>2, <1>7 DEF Branches, Repeats, Inserts
  <2> QED
    BY <1>3, <1>7, <2>1 DEF Branches, Repeats, Unfailing
<1>8. CASE Take \/ NextUnit \/ End
  <2>1. go' = go /\ test.todo = <<>>
    BY <1>8, TakeMoves, NextUnitMoves, EndMoves DEF Placed
  <2> QED
    BY <1>1, <1>2, <1>3, <2>1
<1> QED
  BY <1>4, <1>5, <1>6, <1>7, <1>8 DEF Moves

-------------------------------------------------------------------------------
(* The goroutines and the calls they wait for.                             *)
Answers == {"none", "waiting", "ok", "error"}

(* The thread t has not moved, or need not wait.                           *)
LEMMA CallingWhen ==
  ASSUME Calling, ret' \in [Threads -> Answers],
         \A t \in Threads : ret'[t] # "none" => Waits(t)',
         \A h \in held' : /\ DOMAIN h = HeldFields /\ h.thread \in Threads \cup {""}
                          /\ h.thread # "" => ret'[h.thread] = "waiting",
         \A h, g \in held' : h.thread = g.thread /\ h.thread # "" => h = g
  PROVE  Calling'
  BY DEF Calling, Answers

LEMMA SpecIdle ==
  ASSUME Placed, Calling, SpecStep
  PROVE  ret["it"] = "none" /\ ret' = ret /\ held' = held
<1>1. ASSUME NEW what \in {"Expect", "Until", "SkipUnless", "Start", "Started", "Reached",
                           "Hook", "Release", "Cancel", "Stopped", "Reset", "Clear",
                           "Assign", "Fallback", "Forget", "IfSet", "Defer", "Skip",
                           "Snapshot", "RemoveEach", "Join", "Go"},
             At("it", what)
      PROVE  ret["it"] = "none"
  BY <1>1 DEF Calling, Waits, At, Threads, Calls
<1>2. test.todo = <<>> => ret["it"] = "none"
  BY DEF Calling, Waits, Todo, Threads
<1>3. CASE Asserts \/ Start \/ Started \/ Wait \/ WaitTimesOut \/ Command
  BY <1>1, <1>3 DEF Asserts, Start, Started, Wait, WaitTimesOut, Command
<1>4. CASE Bookkeeping \/ Structure \/ RemoveNext \/ Spawn
  BY <1>1, <1>4 DEF Bookkeeping, Structure, RemoveNext, Spawn
<1>5. CASE Take \/ NextUnit \/ End
  BY <1>2, <1>5 DEF Placed, Take, NextUnit, End
<1> QED
  BY <1>3, <1>4, <1>5 DEF SpecStep

LEMMA SpecGoroutines ==
  ASSUME Placed, SpecStep, NEW t \in Kids
  PROVE  go'[t] = go[t] \/ (go'[t].todo # <<>> /\ Head(go'[t].todo).do \in Calls)
<1>1. CASE Spawn
  <2>1. test.todo # <<>> /\ First.do = "Go" /\ Step("it") = First
    BY <1>1, FirstStep DEF Spawn, At, Todo
  <2>2. First \in BodySteps /\ First.then \in Seq(Steps)
    BY <2>1, TodoTyped, ThenTyped DEF UnitSteps, Starting
  <2>3. First.then # <<>> /\ First.then[1].do \in Calls
    BY <2>1, <2>2 DEF BodySteps
  <2>4. Head(First.then) = First.then[1]
    BY <2>2, <2>3, AfterHead
  <2>5. go' = [go EXCEPT ![First.y] = [spec |-> test.spec, todo |-> First.then]]
    BY <1>1, <2>1 DEF Spawn
  <2> QED
    BY <2>3, <2>4, <2>5 DEF Placed
<1>2. CASE ~Spawn
  <2>1. go' = go
    BY <1>2 DEF SpecStep, Asserts, Start, Started, Wait, WaitTimesOut, Command,
       Bookkeeping, Structure, RemoveNext, Take, NextUnit, End, Goes
  <2> QED
    BY <2>1
<1> QED
  BY <1>1, <1>2

LEMMA WaitsOn ==
  ASSUME NEW t \in Threads, Waits(t), IF t = "it" THEN test'.todo = test.todo ELSE go'[t] = go[t]
  PROVE  Waits(t)'
  BY DEF Waits, Todo, Step

LEMMA SpecCalling ==
  ASSUME Placed, Calling, SpecStep
  PROVE  Calling'
<1>1. ret["it"] = "none" /\ ret' = ret /\ held' = held
  BY SpecIdle
<1>2. ASSUME NEW t \in Threads, ret'[t] # "none"
      PROVE  Waits(t)'
  <2>1. t \in Kids /\ t # "it"
    BY <1>1, <1>2 DEF Threads, Kids
  <2>2. CASE go'[t] = go[t]
    BY <1>1, <1>2, <2>1, <2>2, WaitsOn DEF Calling
  <2>3. CASE go'[t].todo # <<>> /\ Head(go'[t].todo).do \in Calls
    BY <2>1, <2>3 DEF Waits, Todo, Step
  <2> QED
    BY <2>1, <2>2, <2>3, SpecGoroutines
<1> QED
  BY <1>1, <1>2 DEF Calling

(* A goroutine gets an answer to the call it is at.                        *)
LEMMA AnswerCalling ==
  ASSUME Calling, NEW t \in Threads, NEW a \in Answers, Waits(t),
         ret' = [ret EXCEPT ![t] = a], test' = test, go' = go,
         \A h \in held' : h \in held /\ (h.thread # "" => h.thread # t)
  PROVE  Calling'
<1>1. ret' \in [Threads -> Answers] /\ \A u \in Threads : u # t => ret'[u] = ret[u]
  BY DEF Calling, Answers
<1>2. ASSUME NEW u \in Threads, ret'[u] # "none"
      PROVE  Waits(u)'
  BY <1>1, <1>2, WaitsOn DEF Calling
<1>3. ASSUME NEW h \in held'
      PROVE  /\ DOMAIN h = HeldFields /\ h.thread \in Threads \cup {""}
             /\ h.thread # "" => ret'[h.thread] = "waiting"
  BY <1>1, <1>3 DEF Calling
<1>4. \A h, g \in held' : h.thread = g.thread /\ h.thread # "" => h = g
  BY DEF Calling
<1> QED
  BY <1>1, <1>2, <1>3, <1>4, CallingWhen

LEMMA NotHeld ==
  ASSUME Calling, NEW t \in Threads, ret[t] # "waiting"
  PROVE  \A h \in held : h.thread # "" => h.thread # t
  BY DEF Calling

LEMMA ServeCalling ==
  ASSUME Calling, NEW t \in Threads, Serve(t)
  PROVE  Calling'
<1>1. Waits(t) /\ ret[t] = "none" /\ test' = test /\ go' = go
  BY DEF Serve, Waits
<1>2. CASE held' = held
  <2>1. PICK a \in Answers : ret' = [ret EXCEPT ![t] = a]
    BY <1>2 DEF Serve, Answers
  <2> QED
    BY <1>1, <1>2, <2>1, NotHeld, AnswerCalling
<1>3. CASE held' # held
  <2>1. PICK do, x, y, o, by :
          /\ ret' = [ret EXCEPT ![t] = "waiting"]
          /\ held' = held \cup {[thread |-> t, do |-> do, x |-> x, y |-> y, o |-> o, by |-> by]}
    <3> DEFINE s  == Step(t)
               x  == IF s.do \in {"RunPod", "Create"} THEN New(t, s.x) ELSE Id(t, s.x)
               y  == Id(t, s.y)
               es == Events(s.do, x, y)
               hooking  == {k \in DOMAIN stub : Connected(stub[k])}
               blocking == {k \in hooking : \E i \in DOMAIN es : Blocks(stub[k], es[i].type)}
    <3>1. /\ ret' = [ret EXCEPT ![t] = "waiting"]
          /\ held' = held \cup {[thread |-> t, do |-> s.do, x |-> x, y |-> y,
                                 o |-> Range(s.o), by |-> blocking]}
      BY <1>3 DEF Serve
    <3> HIDE DEF x, y, blocking
    <3> QED
      BY <3>1
  <2> DEFINE n == [thread |-> t, do |-> do, x |-> x, y |-> y, o |-> o, by |-> by]
  <2>2. DOMAIN n = HeldFields /\ n.thread = t
    BY DEF HeldFields
  <2>3. held' = held \cup {n}
    BY <2>1
  <2> HIDE DEF n
  <2>4. ret' \in [Threads -> Answers] /\ ret'[t] = "waiting"
        /\ \A u \in Threads : u # t => ret'[u] = ret[u]
    BY <2>1 DEF Calling, Answers
  <2>5. ASSUME NEW u \in Threads, ret'[u] # "none"
        PROVE  Waits(u)'
    BY <1>1, <2>4, <2>5, WaitsOn DEF Calling
  <2>6. \A h \in held : h.thread # "" => h.thread # t
    BY <1>1, NotHeld
  <2>7. ASSUME NEW h \in held'
        PROVE  /\ DOMAIN h = HeldFields /\ h.thread \in Threads \cup {""}
               /\ h.thread # "" => ret'[h.thread] = "waiting"
    BY <2>2, <2>3, <2>4, <2>6, <2>7 DEF Calling
  <2>8. \A h, g \in held' : h.thread = g.thread /\ h.thread # "" => h = g
    BY <2>2, <2>3, <2>6 DEF Calling
  <2> QED
    BY <2>4, <2>5, <2>7, <2>8, CallingWhen
<1> QED
  BY <1>2, <1>3

LEMMA FinishCalling ==
  ASSUME Calling, NEW h \in held, Finish(h)
  PROVE  Calling'
<1>1. held' = held \ {h} /\ test' = test /\ go' = go
  BY DEF Finish
<1>2. CASE h.thread = ""
  <2>1. ret' = ret
    BY <1>2 DEF Finish
  <2>2. \A t \in Threads : ret'[t] # "none" => Waits(t)'
    BY <1>1, <2>1, WaitsOn DEF Calling
  <2> QED
    BY <1>1, <2>1, <2>2 DEF Calling
<1>3. CASE h.thread # ""
  <2>1. h.thread \in Threads /\ ret[h.thread] = "waiting"
    BY <1>3 DEF Calling
  <2>2. Waits(h.thread) /\ ret' = [ret EXCEPT ![h.thread] = "ok"]
    BY <1>3, <2>1 DEF Calling, Finish
  <2>3. \A g \in held' : g \in held /\ (g.thread # "" => g.thread # h.thread)
    BY <1>1, <1>3 DEF Calling
  <2> QED
    BY <1>1, <2>1, <2>2, <2>3, AnswerCalling DEF Answers
<1> QED
  BY <1>2, <1>3

LEMMA AbandonCalling ==
  ASSUME Calling, NEW t \in Threads, Abandon(t)
  PROVE  Calling'
<1>1. /\ Waits(t) /\ ret' = [ret EXCEPT ![t] = "error"] /\ test' = test /\ go' = go
      /\ held' = {IF h.thread = t THEN [h EXCEPT !.thread = ""] ELSE h : h \in held}
  BY DEF Abandon, Waits
<1>2. ret' \in [Threads -> Answers] /\ \A u \in Threads : u # t => ret'[u] = ret[u]
  BY <1>1 DEF Calling, Answers
<1>3. ASSUME NEW u \in Threads, ret'[u] # "none"
      PROVE  Waits(u)'
  BY <1>1, <1>2, <1>3, WaitsOn DEF Calling
<1>4. ASSUME NEW h \in held'
      PROVE  /\ DOMAIN h = HeldFields
             /\ h.thread = "" \/ (h \in held /\ h.thread # t)
  <2>1. PICK g \in held : h = IF g.thread = t THEN [g EXCEPT !.thread = ""] ELSE g
    BY <1>1, <1>4
  <2>2. DOMAIN g = HeldFields
    BY DEF Calling
  <2> QED
    BY <2>1, <2>2 DEF HeldFields
<1>5. ASSUME NEW h \in held'
      PROVE  /\ h.thread \in Threads \cup {""}
             /\ h.thread # "" => ret'[h.thread] = "waiting"
  BY <1>2, <1>4, <1>5 DEF Calling
<1>6. \A h, g \in held' : h.thread = g.thread /\ h.thread # "" => h = g
  BY <1>4 DEF Calling
<1> QED
  BY <1>2, <1>3, <1>4, <1>5, <1>6, CallingWhen

LEMMA OnCalling ==
  ASSUME Placed, Calling, NEW t \in Threads, Return(t) \/ Record(t)
  PROVE  Calling'
<1>1. ret'[t] = "none" /\ held' = held /\ ret' \in [Threads -> Answers]
      /\ ret[t] # "waiting" /\ \A u \in Threads : u # t => ret'[u] = ret[u]
  <2>1. CASE Return(t)
    BY <2>1 DEF Return, Calling, Answers
  <2>2. CASE Record(t)
    <3>1. ~Waits(t)
      BY <2>2 DEF Record, At, Waits, Calls
    <3> QED
      BY <2>2, <3>1 DEF Record, Calling, Answers
  <2> QED
    BY <2>1, <2>2
<1>2. ASSUME NEW u \in Threads, u # t
      PROVE  IF u = "it" THEN test'.todo = test.todo ELSE go'[u] = go[u]
  <2>1. CASE Goes(t)
    BY <1>2, <2>1 DEF Goes, Placed, Threads
  <2>2. CASE Dies(t)
    <3>1. CASE t = "it"
      BY <1>2, <2>2, <3>1 DEF Dies
    <3>2. CASE t # "it"
      BY <1>2, <2>2, <3>2 DEF Dies, Placed, TestFields, Threads
    <3> QED
      BY <3>1, <3>2
  <2> QED
    BY <2>1, <2>2 DEF Return, Record
<1>3. ASSUME NEW u \in Threads, ret'[u] # "none"
      PROVE  Waits(u)'
  BY <1>1, <1>2, <1>3, WaitsOn DEF Calling
<1>4. \A h \in held : h.thread # "" => h.thread # t
  BY <1>1, NotHeld
<1>5. ASSUME NEW h \in held'
      PROVE  /\ DOMAIN h = HeldFields /\ h.thread \in Threads \cup {""}
             /\ h.thread # "" => ret'[h.thread] = "waiting"
  BY <1>1, <1>4, <1>5 DEF Calling
<1>6. \A h, g \in held' : h.thread = g.thread /\ h.thread # "" => h = g
  BY <1>1 DEF Calling
<1> QED
  BY <1>1, <1>3, <1>5, <1>6, CallingWhen

LEMMA CallingStep ==
  ASSUME Placed, Calling, [Next]_vars
  PROVE  Calling'
<1>1. CASE SpecStep
  BY <1>1, SpecCalling
<1>2. ASSUME NEW t \in Threads, Serve(t) \/ Abandon(t) \/ Return(t) \/ Record(t)
      PROVE  Calling'
  BY <1>2, ServeCalling, AbandonCalling, OnCalling
<1>3. ASSUME NEW t \in Threads, Refuse(t) \/ Fault(t)
      PROVE  Calling'
  <2>1. /\ Waits(t) /\ ret[t] = "none" /\ ret' = [ret EXCEPT ![t] = "error"]
        /\ test' = test /\ go' = go /\ held' = held
    BY <1>3 DEF Refuse, Fault, Waits
  <2> QED
    BY <2>1, NotHeld, AnswerCalling DEF Answers
<1>4. CASE \E h \in held : Finish(h)
  BY <1>4, FinishCalling
<1>5. ASSUME ret' = ret, held' = held, test' = test, go' = go
      PROVE  Calling'
  BY <1>5, WaitsOn DEF Calling
<1>6. CASE \/ \E k \in DOMAIN stub : Plugin(k) \/ Timer(k)
           \/ \E c \in DOMAIN w.ctrs : Exits(c)
           \/ UNCHANGED vars
  BY <1>5, <1>6 DEF Plugin, Synchronize, Timer, Becomes, Exits, vars
<1> QED
  BY <1>1, <1>2, <1>3, <1>4, <1>6 DEF Next, Call

-------------------------------------------------------------------------------
(* Whoever fails the spec that runs, when it is not its own, takes a risk. *)
LEMMA BlamedStep ==
  ASSUME Placed, Calling, Owned, FailuresAreOwn, [Next]_vars
  PROVE  FailuresAreOwn'
<1>1. plan' = plan
  BY NextLeaves
<1>2. SUFFICES ASSUME ~plan.slow
               PROVE  blamed' = blamed
  BY <1>1 DEF FailuresAreOwn
<1>3. ASSUME NEW t \in Kids, Return(t), Dies(t)
      PROVE  blamed' = blamed
  <2>1. t \in Threads /\ t # "it"
    BY DEF Threads, Kids
  <2>2. Waits(t) /\ (Step(t).want \notin {"any", ret[t]} \/ blamed' = blamed)
    <3>1. ret[t] \in {"ok", "error"}
      BY <1>3 DEF Return
    <3>2. Waits(t)
      BY <2>1, <3>1 DEF Calling
    <3>3. CASE Step(t).want \in {"any", ret[t]}
      <4>1. Goes(t) /\ blamed' = blamed
        BY <1>3, <3>3 DEF Return
      <4> QED
        BY <3>2, <4>1
    <3> QED
      BY <3>2, <3>3
  <2>3. ASSUME Waits(t), Step(t).want # "any"
        PROVE  go[t].spec = test.spec
    <3>1. go[t].todo \in Seq(Steps) /\ go[t].todo # <<>>
      BY <2>1, <2>3 DEF Waits, Todo, Placed
    <3>2. Risky(go[t].todo)
      BY <2>1, <2>3, <3>1, AfterHead DEF Risky, Step, Todo
    <3> QED
      BY <1>2, <3>2 DEF Owned
  <2> QED
    BY <1>3, <2>1, <2>2, <2>3 DEF Dies
<1>4. ASSUME NEW t \in Threads, Return(t)
      PROVE  blamed' = blamed
  <2>1. CASE t = "it"
    BY <1>4, <2>1 DEF Return, Dies
  <2>2. CASE t # "it"
    BY <1>3, <1>4, <2>2 DEF Return, Threads
  <2> QED
    BY <2>1, <2>2
<1> QED
  BY <1>4, NextLeaves

Invariant == plan \in Plans /\ IInv

LEMMA InitInvariant == Init => Invariant
<1> SUFFICES ASSUME Init
             PROVE  Invariant
  OBVIOUS
<1>1. test = NoSpec /\ test.spec = "" /\ test.todo = <<>> /\ test.units = <<>>
      /\ DOMAIN test = TestFields
  BY DEF Init, NoSpec, TestFields
<1>2. /\ plan \in Plans /\ done = <<>> /\ stub = <<>> /\ held = {} /\ blamed = {}
      /\ go = [k \in Kids |-> [spec |-> "", todo |-> <<>>]]
      /\ ret = [t \in Threads |-> "none"]
  BY DEF Init
<1>9. DOMAIN done = {} /\ DOMAIN stub = {}
  <2>1. DOMAIN <<>> = {}
    OBVIOUS
  <2> QED
    BY <1>2, <2>1
<1>3. Turn
  <2>1. IsFiniteSet(DOMAIN done) /\ Ran = 0
    BY <1>9, FS_EmptySet DEF Ran
  <2>2. FirstSpecs(plan.order, 0) = {}
    BY DEF FirstSpecs
  <2>3. 0 \in 0..Len(plan.order)
    <3>1. Len(plan.order) \in Nat
      BY <1>2, OrderTyped, LenProperties
    <3> QED
      BY <3>1
  <2> QED
    BY <1>1, <1>9, <2>1, <2>2, <2>3 DEF Turn
<1>4. Placed
  <2>1. <<>> \in Seq(UnitSteps) /\ <<>> \in Seq(Seq(UnitSteps)) /\ <<>> \in Seq(Steps)
    OBVIOUS
  <2> QED
    BY <1>1, <1>2, <2>1 DEF Placed
<1>5. Calling
  BY <1>2 DEF Calling
<1>6. Plugged /\ Keyed /\ Alive
  BY <1>9 DEF Plugged, Keyed, Alive
<1>7. Orderly
  <2>1. DOMAIN test.todo = {}
    <3>1. \A i \in DOMAIN <<>> : FALSE
      BY <1>9
    <3> QED
      BY <1>1, <3>1
  <2> QED
    BY <2>1 DEF Orderly, AllJoined, AllSeen, AllStarted, RisksTaken
<1>8. Owned /\ FailuresAreOwn
  <2>1. ASSUME NEW t \in Kids
        PROVE  ~Risky(go[t].todo)
    <3>1. go[t].todo = <<>>
      BY <1>2
    <3> QED
      BY <3>1 DEF Risky
  <2> QED
    BY <1>2, <2>1 DEF Owned, FailuresAreOwn
<1> QED
  BY <1>2, <1>3, <1>4, <1>5, <1>6, <1>7, <1>8 DEF Invariant, IInv

(* The invariant, for any specs that are written as NriClaims says: while  *)
(* a goroutine runs that may fail its spec, the spec is on its way to wait *)
(* for it, past nothing that could end it before.                          *)
THEOREM Inductive == Spec => []Invariant
<1>1. Invariant /\ [Next]_vars => Invariant'
  <2> SUFFICES ASSUME Invariant, [Next]_vars
               PROVE  Invariant'
    OBVIOUS
  <2>1. /\ Turn /\ Placed /\ Calling /\ Plugged /\ Keyed /\ Alive /\ Orderly /\ Owned
        /\ FailuresAreOwn /\ plan \in Plans
    BY DEF Invariant, IInv
  <2>2. Moves /\ plan' = plan
    BY <2>1, NextMoves, NextFollows
  <2>3. Turn' /\ Placed' /\ Calling'
    BY <2>1, <2>2, TurnStep, PlacedStep, CallingStep
  <2>4. Plugged' /\ Keyed' /\ Alive'
    BY <2>1, <2>2, PluggedStep, KeyedStep, AliveStep
  <2>5. Orderly' /\ Owned' /\ FailuresAreOwn'
    BY <2>1, <2>2, OrderlyStep, OwnedStep, BlamedStep
  <2> QED
    BY <2>2, <2>3, <2>4, <2>1, <2>5 DEF Invariant, IInv
<1> QED
  BY <1>1, InitInvariant, PTL DEF Spec

(* A spec is not failed by a goroutine that another one has left behind,   *)
(* whatever the runtime breaks and however many calls fail, unless plugins *)
(* are slow.                                                               *)
THEOREM FailuresAreOwnCorrect == Spec => []FailuresAreOwn
<1>1. Invariant => FailuresAreOwn
  BY DEF Invariant, IInv
<1> QED
  BY <1>1, Inductive, PTL

(* A goroutine has one call with the runtime at most, and waits for it.    *)
THEOREM CallingCorrect == Spec => []Calling
<1>1. Invariant => Calling
  BY DEF Invariant, IInv
<1> QED
  BY <1>1, Inductive, PTL
====
