---------------------------- MODULE MCConfigFile ----------------------------
(* Two crictl processes over a file with two options. *)
EXTENDS ConfigFile

CONSTANTS debug, v1

MCOptions == {Retries, debug}
MCValues == {Zero, FlagDefault, v1}
Partial == [o \in MCOptions |-> IF o = debug THEN v1 ELSE Absent]
MCFiles == {Missing, Invalid, [o \in MCOptions |-> Absent], Partial}
MCFallbacks == {Missing, Partial}
MCRequests ==
  {<<>>, <<<<debug, v1>>>>, <<<<debug, v1>>, <<Retries, v1>>>>,
   <<<<Retries, v1>>, <<Retries, FlagDefault>>>>, <<<<debug, Zero>>, Bad>>}
=============================================================================
