------------------------- MODULE RemoveImagesProofs -------------------------
(* Proofs about RemoveImages for any images, names and containers.         *)
EXTENDS RemoveImages, TLAPS

(* The names selected for removal.                                         *)
Marked == {n \in DOMAIN ids : ids[n] = TRUE}

MapTypeOK ==
  /\ DOMAIN ids \subseteq Names \cup {NoImage}
  /\ \A n \in DOMAIN ids : ids[n] \in BOOLEAN
  /\ DOMAIN job \subseteq Marked
  /\ \A n \in DOMAIN job : job[n] \in {"status", "remove", "ok", "err"}

StateTypeOK ==
  /\ all \in BOOLEAN /\ prune \in BOOLEAN /\ args \subseteq Names
  /\ pinned \subseteq Images /\ present \subseteq Images
  /\ uses \in [Containers -> Images \cup {NoImage}]
  /\ phase \in {"list", "listContainers", "exclude", "spawn", "remove", "done"}
  /\ todo \subseteq Containers /\ unknown \subseteq Containers
  /\ inUse \subseteq Images /\ removed \subseteq Images
  /\ result \in {"none", "nil", "error", "help"}

(* What the command has done in each phase, and has not done yet.          *)
Phases ==
  /\ phase \in {"list", "listContainers"} => inUse = {} /\ unknown = {}
  /\ todo # {} => phase = "exclude"
  /\ phase \in {"listContainers", "exclude"} => prune
  /\ phase \notin {"remove", "done"} => removed = {} /\ job = [n \in {} |-> "ok"]
  /\ phase = "remove" => DOMAIN job = Marked
  /\ result # "none" => phase = "done"

(* What is selected was given or listed; on --prune it is not pinned, and  *)
(* of the images in use only those not looked up yet, or without success.  *)
Selection ==
  /\ Marked \subseteq args \cup Images
  /\ phase = "list" => Marked \subseteq args
  /\ phase \in {"listContainers", "exclude"} => Marked \subseteq args \cup present
  /\ prune => Marked \subseteq args \cup (Images \ pinned)
  /\ \A i \in inUse \cap Marked : i \in args \/ \E c \in todo \cup unknown : uses[c] = i
  /\ \A c \in todo \cup unknown : uses[c] # NoImage

(* Without --prune nothing that was given or listed is left out, and a     *)
(* goroutine that ended well leaves no image of that name.                 *)
Complete ==
  ~prune =>
    /\ args \subseteq Marked
    /\ all /\ phase \in {"spawn", "remove"} => present \subseteq Marked
    /\ \A n \in DOMAIN job : job[n] = "ok" => Lookup(n) = {}

(* What was removed had a name that was selected.                          *)
Justified == \A i \in removed : i \in Marked \/ Tag[i] \in Marked

Inv == MapTypeOK /\ StateTypeOK /\ Phases /\ Selection /\ Complete /\ Justified
         /\ SuccessMeansGone

-----------------------------------------------------------------------------
LEMMA MarkTrue ==
  ASSUME MapTypeOK, NEW S, S \subseteq Names, Mark(S, TRUE)
  PROVE  /\ DOMAIN ids' \subseteq Names \cup {NoImage}
         /\ \A n \in DOMAIN ids' : ids'[n] \in BOOLEAN
         /\ Marked' = Marked \cup S
  BY DEF MapTypeOK, Mark, Marked

LEMMA MarkFalse ==
  ASSUME MapTypeOK, NEW S, S \subseteq Names \cup {NoImage}, Mark(S, FALSE)
  PROVE  /\ DOMAIN ids' \subseteq Names \cup {NoImage}
         /\ \A n \in DOMAIN ids' : ids'[n] \in BOOLEAN
         /\ Marked' = Marked \ S
  BY DEF MapTypeOK, Mark, Marked

LEMMA TagsAreNoImages ==
  \A i \in Images : Tag[i] \in Names /\ Tag[i] \notin Images
<1> SUFFICES ASSUME NEW i \in Images PROVE Tag[i] \in Range(Tag)
  BY TagAssumption DEF Names
<1> QED
  BY TagAssumption DEF Range

LEMMA InitInv == Init => Inv
<1> SUFFICES ASSUME Init PROVE Inv
  OBVIOUS
<1>1. ids = [n \in args |-> TRUE] /\ job = [n \in {} |-> "ok"] /\ args \subseteq Names
  BY DEF Init
<1>2. Marked = args
  BY <1>1 DEF Marked
<1>3. DOMAIN job = {}
  BY <1>1
<1>4. MapTypeOK
  BY <1>1, <1>2, <1>3 DEF MapTypeOK
<1>5. StateTypeOK /\ Justified /\ SuccessMeansGone
  BY DEF Init, StateTypeOK, Justified, SuccessMeansGone
<1>6. Phases
  BY DEF Init, Phases
<1>7. Selection
  <2>1. args \subseteq Images \cup args
    OBVIOUS
  <2> QED
    BY <1>2 DEF Init, Selection
<1>8. Complete
  BY <1>2, <1>3 DEF Init, Complete
<1> QED
  BY <1>4, <1>5, <1>6, <1>7, <1>8 DEF Inv

LEMMA SkipListStep == ASSUME Inv, SkipList PROVE Inv'
<1> USE DEF SkipList, flags, service
<1>1. Marked' = Marked /\ phase = "list" /\ phase' = "spawn" /\ ~all /\ ~prune
  BY DEF Marked
<1>2. MapTypeOK' /\ StateTypeOK' /\ Justified'
  BY <1>1 DEF Inv, MapTypeOK, StateTypeOK, Justified
<1>3. Phases' /\ SuccessMeansGone'
  BY <1>1 DEF Inv, Phases, SuccessMeansGone, Given
<1>4. Selection' /\ Complete'
  BY <1>1 DEF Inv, Selection, Complete, Lookup
<1> QED
  BY <1>2, <1>3, <1>4 DEF Inv

LEMMA ListStep == ASSUME Inv, List PROVE Inv'
<1> USE DEF flags, service
<1> DEFINE S == IF prune THEN present \ pinned ELSE present
<1>1. /\ phase = "list" /\ phase' = IF prune THEN "listContainers" ELSE "spawn"
      /\ Mark(S, TRUE)
      /\ UNCHANGED <<flags, service, todo, unknown, job, inUse, removed, result>>
  BY DEF List
<1>2. S \subseteq present /\ S \subseteq Names /\ present \subseteq Images
  BY DEF Inv, StateTypeOK, Names
<1>3. /\ DOMAIN ids' \subseteq Names \cup {NoImage}
      /\ \A n \in DOMAIN ids' : ids'[n] \in BOOLEAN
      /\ Marked' = Marked \cup S
  <2> HIDE DEF S
  <2> QED
    BY <1>1, <1>2, MarkTrue DEF Inv
<1>4. DOMAIN job = {}
  BY <1>1 DEF Inv, Phases
<1>5. MapTypeOK'
  BY <1>1, <1>3, <1>4 DEF MapTypeOK
<1>6. StateTypeOK' /\ SuccessMeansGone'
  BY <1>1 DEF Inv, StateTypeOK, SuccessMeansGone, Given, Phases
<1>7. Phases'
  BY <1>1 DEF Inv, Phases, StateTypeOK
<1>8. Selection'
  BY <1>1, <1>2, <1>3 DEF Inv, Selection, Phases
<1>9. Complete'
  BY <1>1, <1>3, <1>4 DEF Inv, Complete
<1>10. Justified'
  BY <1>1 DEF Inv, Justified, Phases
<1> QED
  BY <1>5, <1>6, <1>7, <1>8, <1>9, <1>10 DEF Inv

LEMMA ListContainersStep == ASSUME Inv, ListContainers PROVE Inv'
<1> USE DEF ListContainers, flags, service
<1>1. Marked' = Marked
  BY DEF Marked
<1>2. /\ phase = "listContainers" /\ phase' = "exclude" /\ prune
      /\ todo' = Existing /\ inUse' = {uses[c] : c \in Existing} /\ unknown = {}
      /\ UNCHANGED <<flags, service, ids, unknown, job, removed, result>>
  BY DEF Inv, Phases
<1>3. Existing \subseteq Containers /\ \A c \in Existing : uses[c] \in Images
  BY DEF Inv, StateTypeOK, Existing
<1>4. MapTypeOK' /\ StateTypeOK' /\ Justified'
  BY <1>1, <1>2, <1>3 DEF Inv, MapTypeOK, StateTypeOK, Justified
<1>5. Phases' /\ SuccessMeansGone' /\ Complete'
  BY <1>1, <1>2 DEF Inv, Phases, SuccessMeansGone, Complete
<1>6. Selection'
  BY <1>1, <1>2, <1>3 DEF Inv, Selection, Existing
<1> QED
  BY <1>4, <1>5, <1>6 DEF Inv

LEMMA ListFailsStep == ASSUME Inv, ListFails PROVE Inv'
<1> USE DEF flags, service
<1>1. Marked' = Marked
  BY DEF ListFails, Marked
<1>2. /\ phase \in {"list", "listContainers"} /\ phase' = "done" /\ result' = "error"
      /\ UNCHANGED <<flags, service, ids, todo, unknown, job, inUse, removed>>
  BY DEF ListFails, End
<1>3. MapTypeOK' /\ StateTypeOK' /\ Justified'
  BY <1>1, <1>2 DEF Inv, MapTypeOK, StateTypeOK, Justified
<1>4. Phases' /\ SuccessMeansGone' /\ Complete'
  BY <1>1, <1>2 DEF Inv, Phases, SuccessMeansGone, Complete, Lookup
<1>5. Selection'
  BY <1>1, <1>2 DEF Inv, Selection
<1> QED
  BY <1>3, <1>4, <1>5 DEF Inv

LEMMA ExcludeStep == ASSUME Inv, NEW c \in Containers, Exclude(c) PROVE Inv'
<1> USE DEF flags, service
<1> DEFINE S == IF Lookup(uses[c]) = {} THEN {NoImage} ELSE Lookup(uses[c])
<1>1. /\ phase = "exclude" /\ c \in todo /\ todo' = todo \ {c} /\ Mark(S, FALSE)
      /\ UNCHANGED <<flags, service, phase, unknown, job, inUse, removed, result>>
  BY DEF Exclude
<1>2. S \subseteq Names \cup {NoImage}
  BY DEF Lookup, Inv, StateTypeOK, Names
<1>3. /\ DOMAIN ids' \subseteq Names \cup {NoImage}
      /\ \A n \in DOMAIN ids' : ids'[n] \in BOOLEAN
      /\ Marked' = Marked \ S
  <2> HIDE DEF S
  <2> QED
    BY <1>1, <1>2, MarkFalse DEF Inv
<1>4. DOMAIN job = {} /\ prune /\ removed = {}
  BY <1>1 DEF Inv, Phases
<1>5. MapTypeOK' /\ StateTypeOK'
  BY <1>1, <1>3, <1>4 DEF Inv, MapTypeOK, StateTypeOK
<1>6. Phases' /\ SuccessMeansGone' /\ Complete' /\ Justified'
  BY <1>1, <1>4 DEF Inv, Phases, SuccessMeansGone, Complete, Justified
<1>7. Selection'
  <2>1. ASSUME NEW i \in inUse \cap Marked', i \notin args
        PROVE  \E d \in todo' \cup unknown : uses[d] = i
    <3>1. PICK d \in todo \cup unknown : uses[d] = i
      BY <1>3, <2>1 DEF Inv, Selection
    <3>2. i \in present
      BY <1>1, <1>3, <2>1 DEF Inv, Selection
    <3>3. d # c
      BY <1>3, <2>1, <3>1, <3>2 DEF Lookup
    <3> QED
      BY <1>1, <3>1, <3>3
  <2>2. Marked' \subseteq Marked
    BY <1>3
  <2> QED
    BY <1>1, <2>1, <2>2 DEF Inv, Selection
<1> QED
  BY <1>5, <1>6, <1>7 DEF Inv

LEMMA ExcludeFailsStep == ASSUME Inv, NEW c \in Containers, ExcludeFails(c) PROVE Inv'
<1> USE DEF flags, service
<1>1. Marked' = Marked
  BY DEF ExcludeFails, Marked
<1>2. /\ phase = "exclude" /\ c \in todo /\ todo' = todo \ {c} /\ unknown' = unknown \cup {c}
      /\ UNCHANGED <<flags, service, phase, ids, job, inUse, removed, result>>
  BY DEF ExcludeFails
<1>3. MapTypeOK' /\ StateTypeOK' /\ Justified'
  BY <1>1, <1>2 DEF Inv, MapTypeOK, StateTypeOK, Justified
<1>4. Phases' /\ SuccessMeansGone' /\ Complete'
  BY <1>1, <1>2 DEF Inv, Phases, SuccessMeansGone, Complete, Given, Lookup
<1>5. Selection'
  BY <1>1, <1>2 DEF Inv, Selection
<1> QED
  BY <1>3, <1>4, <1>5 DEF Inv

LEMMA ExcludedStep == ASSUME Inv, Excluded PROVE Inv'
<1> USE DEF flags, service
<1>1. Marked' = Marked
  BY DEF Excluded, Marked
<1>2. /\ phase = "exclude" /\ todo = {} /\ phase' = "spawn" /\ prune
      /\ UNCHANGED <<flags, service, ids, todo, unknown, job, inUse, removed, result>>
  BY DEF Inv, Phases, Excluded
<1>3. MapTypeOK' /\ StateTypeOK' /\ Justified'
  BY <1>1, <1>2 DEF Inv, MapTypeOK, StateTypeOK, Justified
<1>4. Phases' /\ SuccessMeansGone' /\ Complete'
  BY <1>1, <1>2 DEF Inv, Phases, SuccessMeansGone, Complete
<1>5. Selection'
  BY <1>1, <1>2 DEF Inv, Selection
<1> QED
  BY <1>3, <1>4, <1>5 DEF Inv

LEMMA SpawnStep == ASSUME Inv, Spawn PROVE Inv'
<1> USE DEF flags, service
<1>1. /\ Marked' = Marked /\ phase = "spawn" /\ todo = {} /\ result = "none" /\ removed = {}
      /\ UNCHANGED <<flags, service, ids, todo, unknown, inUse, removed>>
  BY DEF Inv, Phases, Spawn, Marked
<1>2. Justified'
  BY <1>1 DEF Inv, Justified
<1>3. Selection'
  <2>1. phase' \in {"remove", "done"}
    BY DEF Spawn, End
  <2> QED
    BY <1>1, <2>1 DEF Inv, Selection
<1>4. CASE DOMAIN ids = {}
  <2>1. phase' = "done" /\ job' = job /\ result' = IF all \/ prune THEN "nil" ELSE "help"
    BY <1>4 DEF Spawn, End
  <2>2. MapTypeOK' /\ StateTypeOK' /\ Phases'
    BY <1>1, <2>1 DEF Inv, MapTypeOK, StateTypeOK, Phases
  <2>3. Complete'
    BY <1>1, <2>1 DEF Inv, Complete, Lookup
  <2>4. SuccessMeansGone'
    <3>1. Marked = {}
      BY <1>4 DEF Marked
    <3>2. ~prune /\ all => present = {}
      BY <1>1, <3>1 DEF Inv, Complete
    <3> QED
      BY <1>1, <2>1, <3>2 DEF SuccessMeansGone
  <2> QED
    BY <1>2, <1>3, <2>2, <2>3, <2>4 DEF Inv
<1>5. CASE DOMAIN ids # {}
  <2>1. phase' = "remove" /\ result' = "none" /\ job' = [n \in Marked |-> "status"]
    BY <1>1, <1>5 DEF Spawn, Marked, Inv, MapTypeOK
  <2>2. MapTypeOK' /\ StateTypeOK' /\ Phases'
    BY <1>1, <2>1 DEF Inv, MapTypeOK, StateTypeOK, Phases
  <2>3. Complete' /\ SuccessMeansGone'
    BY <1>1, <2>1 DEF Inv, Complete, SuccessMeansGone
  <2> QED
    BY <1>2, <1>3, <2>2, <2>3 DEF Inv
<1> QED
  BY <1>4, <1>5

(* A step of a goroutine but the removal itself.                           *)
LEMMA JobStep ==
  ASSUME Inv, NEW n \in Names, Status(n) \/ StatusFails(n) \/ RemoveFails(n)
  PROVE  Inv'
<1> USE DEF flags, service
<1>1. /\ Marked' = Marked /\ phase = "remove" /\ n \in DOMAIN job
      /\ UNCHANGED <<flags, service, phase, ids, todo, unknown, inUse, removed, result>>
  BY DEF Status, StatusFails, RemoveFails, Marked
<1>2. PICK l \in {"remove", "ok", "err"} :
        job' = [job EXCEPT ![n] = l] /\ (l = "ok" => prune)
  BY DEF Status, StatusFails, RemoveFails, Goto
<1>3. DOMAIN job' = DOMAIN job /\ \A m \in DOMAIN job : job'[m] = IF m = n THEN l ELSE job[m]
  BY <1>2
<1>4. MapTypeOK' /\ StateTypeOK' /\ Justified'
  BY <1>1, <1>3 DEF Inv, MapTypeOK, StateTypeOK, Justified
<1>5. Phases' /\ SuccessMeansGone'
  BY <1>1, <1>3 DEF Inv, Phases, SuccessMeansGone, Given
<1>6. Complete'
  BY <1>1, <1>2, <1>3 DEF Inv, Complete, Lookup
<1>7. Selection'
  BY <1>1 DEF Inv, Selection
<1> QED
  BY <1>4, <1>5, <1>6, <1>7 DEF Inv

LEMMA RemoveStep == ASSUME Inv, NEW n \in Names, Remove(n) PROVE Inv'
<1> USE DEF flags, service
<1>1. /\ Marked' = Marked /\ phase = "remove" /\ n \in DOMAIN job /\ result = "none"
      /\ job' = [job EXCEPT ![n] = "ok"]
      /\ present' = present \ Lookup(n) /\ removed' = removed \cup Lookup(n)
      /\ UNCHANGED <<flags, pinned, uses, phase, ids, todo, unknown, inUse, result>>
  BY DEF Inv, Phases, Remove, Goto, Marked
<1>2. /\ DOMAIN job' = DOMAIN job
      /\ \A m \in DOMAIN job : job'[m] = IF m = n THEN "ok" ELSE job[m]
  BY <1>1
<1>3. Lookup(n) \subseteq present /\ present \subseteq Images
  BY DEF Lookup, Inv, StateTypeOK
<1>4. MapTypeOK' /\ StateTypeOK'
  BY <1>1, <1>2, <1>3 DEF Inv, MapTypeOK, StateTypeOK
<1>5. Justified'
  <2>1. n \in Marked
    BY <1>1 DEF Inv, MapTypeOK
  <2> QED
    BY <1>1, <2>1 DEF Inv, Justified, Lookup
<1>6. Phases' /\ SuccessMeansGone'
  BY <1>1, <1>2 DEF Inv, Phases, SuccessMeansGone
<1>7. Complete'
  <2>1. \A m : Lookup(m)' = Lookup(m) \ Lookup(n)
    BY <1>1 DEF Lookup
  <2> QED
    BY <1>1, <1>2, <2>1 DEF Inv, Complete
<1>8. Selection'
  BY <1>1 DEF Inv, Selection
<1> QED
  BY <1>4, <1>5, <1>6, <1>7, <1>8 DEF Inv

LEMMA ReturnStep == ASSUME Inv, Return PROVE Inv'
<1> USE DEF flags, service
<1>1. /\ Marked' = Marked /\ phase = "remove" /\ phase' = "done"
      /\ UNCHANGED <<flags, service, ids, todo, unknown, job, inUse, removed>>
  BY DEF Return, End, Marked
<1>2. /\ \A n \in DOMAIN job : job[n] \in {"ok", "err"}
      /\ result' = IF \E n \in DOMAIN job : job[n] = "err" THEN "error" ELSE "nil"
  BY DEF Return, End, Range
<1>3. MapTypeOK' /\ StateTypeOK' /\ Justified'
  BY <1>1, <1>2 DEF Inv, MapTypeOK, StateTypeOK, Justified
<1>4. Phases' /\ Selection'
  BY <1>1 DEF Inv, Phases, Selection
<1>5. Complete'
  BY <1>1 DEF Inv, Complete, Lookup
<1>6. SuccessMeansGone'
  <2>1. ASSUME result' = "nil", ~prune, NEW i \in present, all \/ i \in Given
        PROVE  FALSE
    <3>1. \A n \in Marked : Lookup(n) = {}
      BY <1>1, <1>2, <2>1 DEF Inv, Phases, Complete
    <3>2. i \in Marked \/ Tag[i] \in Marked
      BY <1>1, <2>1 DEF Inv, Complete, Given
    <3>3. i \in Lookup(i) /\ i \in Lookup(Tag[i])
      BY <2>1 DEF Lookup
    <3> QED
      BY <3>1, <3>2, <3>3
  <2> QED
    BY <1>1, <2>1 DEF SuccessMeansGone, Given
<1> QED
  BY <1>3, <1>4, <1>5, <1>6 DEF Inv

LEMMA OtherCreatesStep == ASSUME Inv, NEW c \in Containers, OtherCreates(c) PROVE Inv'
<1> USE DEF flags, service
<1>1. /\ Marked' = Marked /\ uses[c] = NoImage
      /\ UNCHANGED <<flags, pinned, present, phase, ids, todo, unknown, job, inUse,
                     removed, result>>
  BY DEF OtherCreates, Marked
<1>2. PICK i \in present : uses' = [uses EXCEPT ![c] = i]
  BY DEF OtherCreates
<1>3. MapTypeOK' /\ StateTypeOK' /\ Justified'
  BY <1>1, <1>2 DEF Inv, MapTypeOK, StateTypeOK, Justified
<1>4. Phases' /\ SuccessMeansGone' /\ Complete'
  BY <1>1 DEF Inv, Phases, SuccessMeansGone, Complete, Given, Lookup
<1>5. Selection'
  <2>1. \A d \in todo \cup unknown : d \in Containers /\ uses'[d] = uses[d]
    BY <1>1, <1>2 DEF Inv, StateTypeOK, Selection
  <2> QED
    BY <1>1, <2>1 DEF Inv, Selection
<1> QED
  BY <1>3, <1>4, <1>5 DEF Inv

LEMMA StepInv == Inv /\ [Next]_vars => Inv'
<1> SUFFICES ASSUME Inv, [Next]_vars PROVE Inv'
  OBVIOUS
<1>1. CASE SkipList \/ List \/ ListContainers \/ ListFails \/ Excluded \/ Spawn \/ Return
  BY <1>1, SkipListStep, ListStep, ListContainersStep, ListFailsStep, ExcludedStep,
     SpawnStep, ReturnStep
<1>2. CASE \E c \in Containers : Exclude(c) \/ ExcludeFails(c) \/ OtherCreates(c)
  BY <1>2, ExcludeStep, ExcludeFailsStep, OtherCreatesStep
<1>3. CASE \E n \in Names : Status(n) \/ StatusFails(n) \/ Remove(n) \/ RemoveFails(n)
  BY <1>3, JobStep, RemoveStep
<1>4. CASE UNCHANGED vars
  BY <1>4 DEF vars, flags, service, Inv, MapTypeOK, Marked, StateTypeOK, Phases, Selection,
              Complete, Justified, SuccessMeansGone, Given, Lookup
<1> QED
  BY <1>1, <1>2, <1>3, <1>4 DEF Next

LEMMA Invariance == Spec => []Inv
  BY InitInv, StepInv, PTL DEF Spec

-----------------------------------------------------------------------------
(* Types of the variables of rmi; the map and the goroutines have no other *)
(* names than those of images, but the map may have the empty one.         *)
THEOREM TypeCorrect == Spec => []TypeOK
<1>1. Inv => TypeOK
  <2> SUFFICES ASSUME Inv PROVE TypeOK
    OBVIOUS
  <2>1. \A n \in Marked : n \in Names
    BY NoImageAssumption DEF Inv, Selection, StateTypeOK, Names
  <2>2. DOMAIN job \subseteq Names
    BY <2>1 DEF Inv, MapTypeOK
  <2> QED
    BY <2>2 DEF Inv, MapTypeOK, StateTypeOK, TypeOK, Range
<1> QED
  BY <1>1, Invariance, PTL

(* --prune removes no pinned image, and none in use when the containers    *)
(* were listed, unless it was named or its lookup failed.                  *)
THEOREM SparedCorrect == Spec => []InUseSpared
<1>1. Inv => InUseSpared
  <2> SUFFICES ASSUME Inv, prune, NEW i \in removed, i \notin Given
               PROVE  /\ i \notin pinned
                      /\ i \in inUse => \E c \in unknown : uses[c] = i
    BY DEF InUseSpared
  <2>1. i \in Images /\ i \notin args /\ Tag[i] \notin args
    BY DEF Inv, StateTypeOK, Given
  <2>2. i \in Marked
    BY <2>1, TagsAreNoImages DEF Inv, Justified, Selection
  <2>3. todo = {}
    BY DEF Inv, Phases
  <2> QED
    BY <2>1, <2>2, <2>3 DEF Inv, Selection
<1> QED
  BY <1>1, Invariance, PTL

(* Without --prune, success means that no image asked for is left, though  *)
(* several goroutines may remove one image.                                *)
THEOREM SuccessCorrect == Spec => []SuccessMeansGone
<1>1. Inv => SuccessMeansGone
  BY DEF Inv
<1> QED
  BY <1>1, Invariance, PTL
=============================================================================
