--------------------------------- MODULE MCNri ---------------------------------
(* The plans of the run nri. *)
EXTENDS NriClaims

Plan(order, breaks, runtime, slow, faults) ==
  [order |-> order, breaks |-> breaks, runtime |-> runtime, slow |-> slow,
   faults |-> faults]

(* The specs of each context, in their order. *)
Orders ==
  { <<"podLifecycle">>, <<"containerLifecycle">>, <<"failedContainer">>
  , <<"blockRun", "blockContainer", "runError">>, <<"stopState", "stopIdempotent">>
  , <<"blockCreate", "createError">>, <<"syncExisting", "syncDuring">>, <<"syncRace">> }

Alone == {<<s>> : s \in DOMAIN NriSuite}

Conforming == {Plan(o, "none", r, FALSE, 0) : o \in Orders, r \in {"waits", "queues", "loses"}}
Faulty     == {Plan(o, "none", r, FALSE, 1) : o \in Orders, r \in {"waits", "queues"}}
Slow       == {Plan(o, "none", "waits", TRUE, 0) : o \in Alone \ {<<"syncRace">>}}

(* A spec with a runtime that breaks its promise, alone and after another. *)
Broken ==
  UNION {{Plan(<<s>>, b, "queues", FALSE, 0) : b \in NriSuite[s].claims} : s \in DOMAIN NriSuite}
Stale == {Plan(<<"blockRun", "runError">>, "keeps failed", "waits", FALSE, 0)}

(* What a spec leaves behind for the next one. *)
Late == {Plan(<<"syncDuring", "syncExisting">>, "none", "waits", FALSE, 1),
         Plan(<<"syncDuring", "podLifecycle">>, "none", "waits", TRUE, 0),
         Plan(<<"blockRun", "podLifecycle">>, "none", "waits", TRUE, 0)}

MCPlans == Conforming \cup Faulty \cup Slow \cup Broken \cup Stale \cup Late
===============================================================================
