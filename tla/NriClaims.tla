------------------------------- MODULE NriClaims -------------------------------
(***************************************************************************)
(* What can be read off the text of the NRI specs: which goroutines of a   *)
(* spec may fail it, and what the spec does until it has waited for them.  *)
(* The assumptions say that the specs are written that way, whatever specs *)
(* there are; that a failure of a goroutine then is one of its own spec is *)
(* proved in NriProofs.                                                    *)
(***************************************************************************)
EXTENDS Nri

Elements(seq) == {seq[i] : i \in DOMAIN seq}

Written == UNION {Elements(Suite[s].body) \cup Elements(Suite[s].after) : s \in DOMAIN Suite}

(* The steps of the specs, with those of functions and goroutines and what *)
(* is done for each of the containers that were recorded.                  *)
Steps == Written \cup (UNION {Elements(t.then) : t \in Written})
           \cup Elements(Try("StopCtr", "each", "")) \cup Elements(Try("RemoveCtr", "each", ""))

-------------------------------------------------------------------------------
(* Only bodies start plugins and goroutines and wait for them, and only    *)
(* the units that clean up stop plugins.                                   *)
Starting == {"Go", "Join", "Start", "Started", "Reached"}
Stopping == {"Cancel", "RemoveEach"}
Nesting  == {"IfSet", "Defer"}

PlainSteps == {t \in Steps : t.do \notin Starting \cup Stopping \cup Nesting}

UnitSteps ==
  {t \in Steps : /\ t.do \notin Starting
                 /\ t.do \in Nesting =>
                      \A u \in Elements(t.then) : u.do \notin Starting \cup Nesting}

BodySteps ==
  {t \in Steps : /\ t.do \notin Stopping
                 /\ t.do = "IfSet" => t.then \in Seq(PlainSteps)
                 /\ t.do = "Defer" => t.then \in Seq(UnitSteps)
                 /\ t.do = "Go" => t.y \in Kids /\ t.then # <<>> /\ t.then[1].do \in Calls}

-------------------------------------------------------------------------------
(* A goroutine fails the spec when one of its calls does not return what   *)
(* is wanted of it.                                                        *)
Risky(seq) == \E i \in DOMAIN seq : seq[i].want # "any"

(* After step i the spec waits for goroutine g, and until then does        *)
(* nothing that could fail it: Started does not where the plugin was seen. *)
Unfailing == {"Go", "Join", "Release", "Defer", "Started"}

Joins(seq, i, g) ==
  \E j \in DOMAIN seq : /\ i < j /\ seq[j].do = "Join" /\ seq[j].y = g
                        /\ \A m \in i + 1 .. j - 1 : seq[m].do \in Unfailing

(* Before it, the spec has seen that some plugin was called or got ready.  *)
Sees(seq, i) == \E j \in DOMAIN seq : j < i /\ seq[j].do \in {"Reached", "Started"}

Starts(seq, i, x) == \E j \in DOMAIN seq : j < i /\ seq[j].do = "Start" /\ seq[j].x = x

RisksTaken(seq) == {i \in DOMAIN seq : seq[i].do = "Go" /\ Risky(seq[i].then)}

AllJoined(seq) == \A i \in RisksTaken(seq) : Joins(seq, i, seq[i].y)
AllSeen(seq)   == \A i \in RisksTaken(seq) : Sees(seq, i)

(* Who waits for a plugin has started it, or it is one of X.               *)
AllStarted(seq, X) ==
  \A i \in DOMAIN seq :
    seq[i].do \in {"Reached", "Started"} => seq[i].x \in X \/ Starts(seq, i, seq[i].x)

-------------------------------------------------------------------------------
(* The specs are sequences of steps.  A goroutine that may fail its spec   *)
(* is waited for before anything else can fail it.                         *)
ASSUME StepsAssumption ==
  /\ \A t \in Steps : t.then \in Seq(Steps)
  /\ \A s \in DOMAIN Suite :
       /\ s # ""
       /\ Suite[s].body \in Seq(BodySteps)
       /\ Suite[s].after \in Seq(UnitSteps)

ASSUME JoinsAssumption ==
  \A s \in DOMAIN Suite :
    /\ AllJoined(Suite[s].body)
    /\ AllSeen(Suite[s].body)
    /\ AllStarted(Suite[s].body, {})

(* Ginkgo runs each of the chosen specs once.                              *)
ASSUME OrderAssumption ==
  \A p \in Plans :
    /\ p.order \in Seq(DOMAIN Suite)
    /\ \A i, j \in DOMAIN p.order : p.order[i] = p.order[j] => i = j
===============================================================================
