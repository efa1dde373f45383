-------------------------------- MODULE NriStub --------------------------------
(***************************************************************************)
(* The plugin that critest's NRI specs connect to the runtime              *)
(* (src/pkg/validate/nri_util_linux.go): what StartNRITestStub, the        *)
(* goroutine that runs the stub and the callbacks make of the record of a  *)
(* stub.  Module Nri lets them happen next to a spec and a runtime.        *)
(*                                                                         *)
(* run: the goroutine of Run.  start: what StartNRITestStub is at or has   *)
(* returned.  reaper: the goroutine that waits for a stub given up.  hook: *)
(* the callback a spec installs, with hookReached, hookBlocking and the id *)
(* it was called with, and whether it was called (a sync.Once).  pending:  *)
(* what the runtime has to tell the plugin once it is synchronized.        *)
(***************************************************************************)
EXTENDS CriRuntime

Connecting(hook) ==
  [ run |-> "connecting", start |-> "waiting", reaper |-> "none"
  , conn |-> TRUE, cancelled |-> FALSE
  , hook |-> hook, reached |-> FALSE, released |-> FALSE, used |-> FALSE
  , events |-> <<>>, pending |-> <<>>, synced |-> {} ]

Connected(s) == s.run = "serving" /\ s.conn
Syncing(s)   == s.run = "syncing" /\ s.conn

(* recordPodEvent, recordContainerEvent: before the hook is looked at.     *)
Recorded(s, es) == [s EXCEPT !.events = @ \o es]

(* Faulty variant: without the sync.Once. *)
FailsAlways(s, type) == s.hook = "fails " \o type

(* A hook of one type of event, which blocks or fails when called first.   *)
Blocks(s, type) == s.hook = "blocks " \o type /\ ~s.used
Fails(s, type)  == s.hook = "fails " \o type /\ ~s.used

(* A blocking hook closes hookReached and waits.                           *)
Entered(s) == [s EXCEPT !.reached = TRUE, !.used = TRUE]

(* It waits no longer when the spec has closed hookBlocking or when the    *)
(* connection is lost (hookCtx).                                           *)
HookReturns(s) == s.released \/ ~s.conn

(* Synchronize: the ids are kept, the hook is called, then ready is closed *)
(* and the runtime tells the plugin what it has missed.                    *)
Synchronized(s, ids) ==
  [(IF s.hook = "blocks Synchronize" THEN Entered(s) ELSE s)
     EXCEPT !.run = "syncing", !.synced = ids]

CanServe(s) == Syncing(s) /\ (s.hook = "blocks Synchronize" => HookReturns(s))

Serving(s) ==
  [s EXCEPT !.run = "serving", !.events = @ \o s.pending, !.pending = <<>>]

(* Run has started and sees that its context was cancelled: it closes the  *)
(* connection.                                                             *)
CanDisconnect(s) == Connected(s) /\ s.cancelled
Disconnected(s)  == [s EXCEPT !.conn = FALSE]

(* Once its handlers have returned, so does Run.  What it waits for before *)
(* the plugin is configured never comes from a connection that is closed.  *)
CanEnd(s) == ~s.conn /\ s.run \in {"syncing", "serving"}
Ended(s)  == [s EXCEPT !.run = "exited"]

(* StartNRITestStub: done, ready or 10 s; after that, done or 5 s.         *)
CanReturn(s) ==
  \/ s.start = "waiting" /\ s.run \in {"serving", "exited"}
  \/ s.start = "stopping" /\ s.run = "exited"

StartReturns(s) ==
  [s EXCEPT !.start = IF @ = "waiting" /\ s.run = "serving" THEN "ready" ELSE "failed",
            !.cancelled = @ \/ s.run = "exited"]

GivesUp(s) == [s EXCEPT !.start = "stopping", !.cancelled = TRUE]

(* Faulty variant: the connection stays open. *)
ForceClosedNot(s) == [s EXCEPT !.start = "failed", !.reaper = "waiting"]

(* Start may be stuck and not see that its context was cancelled.          *)
ForceClosed(s) ==
  [s EXCEPT !.start = "failed", !.conn = FALSE, !.reaper = "waiting"]

Reaped(s) == [s EXCEPT !.reaper = "stopped"]

(* Stop begins with cancel and waits for done or 5 s.                      *)
Cancelled(s) == [s EXCEPT !.cancelled = TRUE]
Reset(s)     == [s EXCEPT !.events = <<>>, !.synced = {}]

(* The pod of the last RunPodSandbox event, or nothing.                    *)
LastRunPodSandboxID(s, nothing) ==
  LET Runs == {i \in DOMAIN s.events : s.events[i].type = "RunPod"}
  IN  IF Runs = {} THEN nothing
      ELSE s.events[CHOOSE i \in Runs : \A j \in Runs : j <= i].id

(* When the plugin learnt of an event: the place of the last one, or 0.    *)
Place(s, type, id) ==
  LET Of == {i \in DOMAIN s.events : s.events[i].type = type /\ s.events[i].id = id}
  IN  IF Of = {} THEN 0 ELSE CHOOSE i \in Of : \A j \in Of : j <= i

(* FilterEventsByPodID, and then by type.                                  *)
Count(s, type, pod) ==
  Cardinality({i \in DOMAIN s.events :
                 s.events[i].type = type /\ s.events[i].pod = pod})

(* pluginSeesContainer: one of the two ways.                               *)
pluginSeesContainer(s, id) == id \in s.synced \/ Place(s, "Create", id) # 0
===============================================================================
