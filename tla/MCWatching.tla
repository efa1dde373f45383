------------------------------ MODULE MCWatching ------------------------------
(* The commands of the run watch. *)
EXTENDS Watching

CONSTANTS e1, e2

Command(kind, wanted, flag, file, retries, all, json, watch) ==
  [kind |-> kind, wanted |-> wanted, flag |-> flag, file |-> file,
   retries |-> retries, all |-> all, json |-> json, watch |-> watch]

Both(r, i) == [s \in Services |-> IF s = "runtime" THEN r ELSE i]
None == Both(Nowhere, Nowhere)

(* Commands that only connect: the orders in which they get the services,    *)
(* and each way to say where.                                                *)
Wanted == {<<"runtime", "image">>, <<"image", "runtime">>, <<"image">>}

Places ==
  { <<Both(Unset, Unset), None>>, <<Both(Unset, Unset), Both(e1, Nowhere)>>
  , <<Both(e2, Unset), Both(e1, Nowhere)>>, <<Both(Unset, e2), Both(e1, Nowhere)>>
  , <<Both(Nowhere, Unset), None>>, <<Both(Nowhere, e1), None>>
  , <<Both(e1, Nowhere), Both(Nowhere, e2)>> }

Connections ==
  {Command("other", w, p[1], p[2], r, FALSE, FALSE, FALSE) : w \in Wanted, p \in Places, r \in {-1, 0, 1}}
  \cup {Command("other", <<"runtime">>, Both(e1, Unset), None, 6, FALSE, FALSE, FALSE)}

Watchers ==
  {Command(kja[1], <<"runtime">>, Both(e1, Unset), None, 0, kja[2], kja[3], w) :
     kja \in {<<"stats", TRUE, FALSE>>, <<"stats", FALSE, FALSE>>, <<"metricsp", FALSE, TRUE>>,
              <<"stats", FALSE, TRUE>>},
     w \in BOOLEAN}
  \cup {Command("statsp", <<"runtime">>, Both(e1, Unset), None, 0, FALSE, FALSE, TRUE)}
  \cup {Command("events", <<"runtime">>, Both(e1, Unset), None, 0, FALSE, TRUE, FALSE)}

MCCommands == Connections \cup Watchers
MCDefaults == <<e1, e2>>
================================================================================
