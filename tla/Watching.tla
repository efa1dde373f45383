------------------------------ MODULE Watching ------------------------------
(***************************************************************************)
(* The commands of crictl that run until they are interrupted, from their  *)
(* connection on: stats, statsp and metricsp with --watch (handleDisplay   *)
(* in cmd/crictl/util.go, container_stats.go, pod_stats.go,                *)
(* pod_metrics.go) and events (events.go).                                 *)
(*                                                                         *)
(* Objects are containers, or pods for statsp; what is shown of one is its *)
(* share of the CPU, the difference of two samples of a counter.  Calls    *)
(* are InterruptableRPC's: a reply, an error, or "interrupted".  The       *)
(* goroutine of the signals is merged with the arrival of a signal.        *)
(***************************************************************************)
EXTENDS Connect, Functions

CONSTANTS
  Objects,     \* the containers or pods of the runtime
  Width,       \* the counter of CPU time is kept modulo Width
  MaxClock,    \* bound on what happens to the objects
  MaxEvents    \* bound on the events of the runtime

ASSUME WidthAssumption == {Width, MaxClock, MaxEvents} \subseteq Nat /\ MaxClock < Width

(* A command's kind is "stats", "statsp", "metricsp", "events", or "other"   *)
(* for one that ends by itself; all, json and watch are flags of it.         *)
ASSUME KindsAssumption == \A c \in Commands :
  /\ c.kind \in {"stats", "statsp", "metricsp", "events", "other"}
  /\ {c.all, c.json, c.watch} \subseteq BOOLEAN
  /\ c.kind # "other" => c.wanted = <<"runtime">>

VARIABLES
  proc,        \* "running", "exited", or "killed" by a signal
  handler,     \* the signal handler is installed
  stop,        \* signalIntStopCh is closed
  main,        \* the command: "off", "select", "returned"
  result,      \* what it returned: "none", "nil", "error"
  errCh,       \* displayErrCh, or errCh of Events: "empty", "nil", "error"
  worker,      \* the goroutine that displays, or the producer of the events
  tick,        \* a tick is in the channel of the ticker
  asked,       \* the call in hand was made before watchCtx was cancelled
  old, new,    \* the two samples
  began,       \* history: the objects when the round in hand took its first sample
  rows,        \* the rows of the table
  screen,      \* the rows the user sees
  late,        \* screens shown since the command returned
  stats,       \* what the runtime says of each object
  gone, clock, \* the objects that were removed; what has happened so far
  stream,      \* the runtime's end of the events: "open" or "closed"
  issued,      \* the events it has sent
  received,    \* those the client has received
  hand,        \* the one it offers on containerEventsCh, 0 for none
  stub,        \* the client's loop: "off", "loop", "eof", "broken"
  printed      \* the events printed

sig == <<proc, handler, stop>>
mainVars == <<main, result>>
display == <<worker, tick, asked, old, new, began, rows, screen, late>>
runtime == <<stats, gone, clock>>
events == <<stream, issued, received, hand, stub, printed>>
watchVars == <<sig, mainVars, errCh, display, runtime, events>>
vars == <<connVars, world, watchVars>>

NoSample == [o \in {} |-> [cpu |-> 0, memory |-> 0, stamp |-> 0, total |-> 0, life |-> 0]]

(* A sample of some of the objects.                                          *)
Sample == [cpu : 0..(Width - 1), memory : 0..1, stamp : Nat, total : Nat, life : Nat]
IsSample(f) == DOMAIN f \subseteq Objects /\ f \in [DOMAIN f -> Sample]

DisplayTypeOK ==
  /\ worker \in {"off", "idle", "first", "sleep", "second", "rows", "flush", "failed", "done",
                 "select"}
  /\ tick \in BOOLEAN /\ asked \in BOOLEAN
  /\ IsSample(old) /\ IsSample(new) /\ IsSample(began) /\ IsSample(stats)
  /\ rows \cup screen
       \subseteq [object : Objects, used : 0..(Width - 1), really : Int, restarted : BOOLEAN]
  /\ late \in Nat /\ gone \subseteq Objects /\ clock \in 0..MaxClock

EventsTypeOK ==
  /\ stream \in {"open", "closed"} /\ stub \in {"off", "loop", "eof", "broken"}
  /\ {issued, received, hand} \subseteq 0..MaxEvents
  /\ printed \in Seq(1..MaxEvents)

MainTypeOK ==
  /\ proc \in {"running", "exited", "killed"} /\ handler \in BOOLEAN /\ stop \in BOOLEAN
  /\ main \in {"off", "select", "returned"} /\ result \in {"none", "nil", "error"}
  /\ errCh \in {"empty", "nil", "error"}

TypeOK == ConnTypeOK /\ MainTypeOK /\ DisplayTypeOK /\ EventsTypeOK

Init ==
  /\ ConnInit
  /\ proc = "running" /\ handler = FALSE /\ stop = FALSE
  /\ main = "off" /\ result = "none" /\ errCh = "empty"
  /\ worker = "off" /\ tick = FALSE /\ asked = FALSE
  /\ old = NoSample /\ new = NoSample /\ began = NoSample /\ rows = {} /\ screen = {} /\ late = 0
  /\ stats = NoSample /\ gone = {} /\ clock = 0
  /\ stream = "open" /\ issued = 0 /\ received = 0 /\ hand = 0 /\ stub = "off" /\ printed = <<>>

Serving == conn.runtime \in up
Displays == command.kind \in {"stats", "statsp", "metricsp"}
Table == command.kind # "metricsp" /\ ~command.json

(* handleDisplay has returned: its deferred cancelFn has run.                *)
Cancelled == main = "returned"

-----------------------------------------------------------------------------
(* The signals.  Before any select has installed the handler a signal has    *)
(* its default action; the second one ends the process too.                  *)
Signal ==
  /\ proc = "running" /\ phase # "failed"
  /\ IF handler /\ ~stop
       THEN stop' = TRUE /\ UNCHANGED proc
       ELSE proc' = "killed" /\ UNCHANGED stop
  /\ UNCHANGED <<connVars, world, handler, mainVars, errCh, display, runtime, events>>

(* main returns, after app.After and the shutdown of the tracer.             *)
Exit ==
  /\ proc = "running"
  /\ \/ main = "returned" \/ phase = "failed"
     \/ phase = "connected" /\ command.kind = "other"
  /\ proc' = "exited"
  /\ UNCHANGED <<connVars, world, handler, stop, mainVars, errCh, display, runtime, events>>

(* GetRuntimeService and GetImageService.                                    *)
Connection ==
  /\ proc = "running" /\ Connecting
  /\ UNCHANGED <<world, watchVars>>

(* Runtimes come and go, of interest only where crictl may meet them.  One   *)
(* that stops ends its stream of events too; Break sees it.                  *)
World ==
  /\ proc = "running"
  /\ \E e \in Endpoints :
       /\ command.wanted = <<"runtime">> /\ config.runtime.set => e = config.runtime.at
       /\ Flip(e)
  /\ UNCHANGED watchVars

-----------------------------------------------------------------------------
(* handleDisplay starts the ticker and the goroutine, and its select         *)
(* installs the handler.  Without --watch the command displays once, itself. *)
StartDisplay ==
  /\ proc = "running" /\ phase = "connected" /\ Displays /\ main = "off"
  /\ main' = "select" /\ handler' = TRUE
  /\ IF command.watch
       THEN worker' = "idle" /\ UNCHANGED asked
       ELSE worker' = "first" /\ asked' = TRUE
  /\ UNCHANGED <<connVars, world, proc, stop, result, errCh, tick, old, new, began, rows, screen,
                 late, runtime, events>>

(* The ticker drops a tick nobody takes, and is stopped with handleDisplay.  *)
Tick ==
  /\ proc = "running" /\ Displays /\ main = "select" /\ command.watch /\ ~tick
  /\ tick' = TRUE
  /\ UNCHANGED <<connVars, world, sig, mainVars, errCh, worker, asked, old, new, began, rows,
                 screen, late, runtime, events>>

\* Faulty variant: the samples are taken with the context of the command.
NextRoundUncancelled ==
  /\ proc = "running" /\ worker = "idle" /\ tick
  /\ tick' = FALSE /\ worker' = "first" /\ asked' = TRUE
  /\ UNCHANGED <<connVars, world, sig, mainVars, errCh, old, new, began, rows, screen, late,
                 runtime, events>>

(* for range ticker.C.  A call made after watchCtx was cancelled fails.      *)
NextRound ==
  /\ proc = "running" /\ worker = "idle" /\ tick
  /\ tick' = FALSE /\ worker' = "first" /\ asked' = ~Cancelled
  /\ UNCHANGED <<connVars, world, sig, mainVars, errCh, old, new, began, rows, screen, late,
                 runtime, events>>

\* Faulty variant: the old samples are kept by the displayer.
FirstKept ==
  /\ proc = "running" /\ worker = "first" /\ asked /\ Serving
  /\ old' = [o \in DOMAIN old \cup DOMAIN stats |-> IF o \in DOMAIN old THEN old[o] ELSE stats[o]]
  /\ began' = stats
  /\ worker' = IF Table THEN "sleep" ELSE "flush"
  /\ UNCHANGED <<connVars, world, sig, mainVars, errCh, tick, asked, new, rows, screen, late,
                 runtime, events>>

(* The first list; in JSON or YAML it is all that is shown.  While the       *)
(* old samples are stored the context is looked at.                          *)
First ==
  /\ proc = "running" /\ worker = "first" /\ asked /\ Serving
  /\ old' = stats /\ began' = stats
  /\ worker' = IF ~Table THEN "flush"
               ELSE IF command.watch /\ Cancelled /\ stats # NoSample THEN "failed" ELSE "sleep"
  /\ UNCHANGED <<connVars, world, sig, mainVars, errCh, tick, asked, new, rows, screen, late,
                 runtime, events>>

(* time.Sleep observes neither the context nor the signal.                   *)
Wake ==
  /\ proc = "running" /\ worker = "sleep"
  /\ worker' = "second" /\ asked' = (command.watch => ~Cancelled)
  /\ UNCHANGED <<connVars, world, sig, mainVars, errCh, tick, old, new, began, rows, screen, late,
                 runtime, events>>

Second ==
  /\ proc = "running" /\ worker = "second" /\ asked /\ Serving
  /\ new' = stats /\ worker' = "rows"
  /\ UNCHANGED <<connVars, world, sig, mainVars, errCh, tick, asked, old, began, rows, screen, late,
                 runtime, events>>

(* The call ends in an error: interrupted, cancelled, past its deadline, or  *)
(* refused by a runtime that is there or not.                                *)
CallFails ==
  /\ proc = "running" /\ worker \in {"first", "second"}
  /\ worker' = "failed"
  /\ UNCHANGED <<connVars, world, sig, mainVars, errCh, tick, asked, old, new, began, rows, screen,
                 late, runtime, events>>

-----------------------------------------------------------------------------
(* Objects that do not run are left out, unless --all; so are those that     *)
(* were not in the first sample.                                             *)
Shown ==
  {o \in DOMAIN new \cap DOMAIN old :
     \/ new[o].cpu # 0 \/ new[o].memory # 0
     \/ command.kind = "stats" /\ command.all}

(* The difference of two uint64, and nothing for a counter at zero.          *)
Used(o) == IF new[o].cpu = 0 THEN 0 ELSE (new[o].cpu + Width - old[o].cpu) % Width

(* A counter that was not updated ends the command, since its share of the   *)
(* time would be a division by zero.                                         *)
NotUpdated == \E o \in Shown : new[o].cpu # 0 /\ new[o].stamp = old[o].stamp

RowOf(o) ==
  [object |-> o, used |-> Used(o), really |-> new[o].total - began[o].total,
   restarted |-> new[o].life # began[o].life]

MakeRows ==
  /\ proc = "running" /\ worker = "rows"
  /\ IF (command.watch /\ Cancelled /\ new # NoSample) \/ NotUpdated
       THEN worker' = "failed" /\ UNCHANGED rows
       ELSE worker' = "flush" /\ rows' = {RowOf(o) : o \in Shown}
  /\ new' = NoSample
  /\ UNCHANGED <<connVars, world, sig, mainVars, errCh, tick, asked, old, began, screen, late,
                 runtime, events>>

(* ClearScreen and Flush; without --watch the command is done.               *)
Flush ==
  /\ proc = "running" /\ worker = "flush"
  /\ screen' = rows /\ rows' = {}
  /\ late' = IF Cancelled THEN late + 1 ELSE late
  /\ IF command.watch
       THEN worker' = "idle" /\ UNCHANGED mainVars
       ELSE worker' = "done" /\ main' = "returned" /\ result' = "nil"
  /\ UNCHANGED <<connVars, world, sig, errCh, tick, asked, old, new, began, runtime, events>>

(* The goroutine reports its error to a channel with room for it, and ends.  *)
Fail ==
  /\ proc = "running" /\ worker = "failed" /\ worker' = "done"
  /\ IF command.watch
       THEN errCh' = "error" /\ UNCHANGED mainVars
       ELSE main' = "returned" /\ result' = "error" /\ UNCHANGED errCh
  /\ UNCHANGED <<connVars, world, sig, tick, asked, old, new, began, rows, screen, late, runtime,
                 events>>

(* The select of handleDisplay.                                              *)
DisplayStops ==
  /\ proc = "running" /\ Displays /\ command.watch /\ main = "select"
  /\ \/ stop /\ result' = "nil" /\ UNCHANGED errCh
     \/ errCh # "empty" /\ result' = errCh /\ errCh' = "empty"
  /\ main' = "returned"
  /\ UNCHANGED <<connVars, world, sig, display, runtime, events>>

-----------------------------------------------------------------------------
(* Events: the loop of the command, a producer in InterruptableRPC, and the  *)
(* client's loop in the goroutine of that call.                              *)
StartEvents ==
  /\ proc = "running" /\ phase = "connected" /\ command.kind = "events" /\ main = "off"
  /\ main' = "select" /\ worker' = "select" /\ stub' = "loop"
  /\ UNCHANGED <<connVars, world, sig, result, errCh, tick, asked, old, new, began, rows, screen,
                 late, runtime, stream, issued, received, hand, printed>>

(* The handler is installed by the select of the producer.                   *)
InstallHandler ==
  /\ proc = "running" /\ command.kind = "events" /\ worker = "select" /\ ~handler
  /\ handler' = TRUE
  /\ UNCHANGED <<connVars, world, proc, stop, mainVars, errCh, display, runtime, events>>

(* The runtime has something to tell, or closes the stream.                  *)
Emit ==
  /\ proc = "running" /\ stub = "loop" /\ stream = "open" /\ Serving
  /\ \/ issued < MaxEvents /\ issued' = issued + 1 /\ UNCHANGED stream
     \/ stream' = "closed" /\ UNCHANGED issued
  /\ UNCHANGED <<connVars, world, sig, mainVars, errCh, display, runtime, received, hand,
                 stub, printed>>

(* Recv, and the send on the unbuffered channel: the client has one event in *)
(* hand and takes no other before the loop has it.                           *)
Receive ==
  /\ proc = "running" /\ stub = "loop" /\ hand = 0 /\ received < issued
  /\ received' = received + 1 /\ hand' = received'
  /\ UNCHANGED <<connVars, world, sig, mainVars, errCh, display, runtime, stream, issued,
                 stub, printed>>

\* Faulty variant: containerEventsCh has room for an event.
StreamEndsBuffered ==
  /\ proc = "running" /\ stub = "loop" /\ received = issued /\ stream = "closed"
  /\ stub' = "eof"
  /\ UNCHANGED <<connVars, world, sig, mainVars, errCh, display, runtime, stream, issued,
                 received, hand, printed>>

StreamEnds ==
  /\ proc = "running" /\ stub = "loop" /\ hand = 0 /\ received = issued /\ stream = "closed"
  /\ stub' = "eof"
  /\ UNCHANGED <<connVars, world, sig, mainVars, errCh, display, runtime, stream, issued,
                 received, hand, printed>>

(* The runtime is gone, and what it had sent with it.                        *)
Break ==
  /\ proc = "running" /\ stub = "loop" /\ hand = 0 /\ ~Serving
  /\ stub' = "broken"
  /\ UNCHANGED <<connVars, world, sig, mainVars, errCh, display, runtime, stream, issued,
                 received, hand, printed>>

\* Faulty variant: the producer calls the client without InterruptableRPC.
ProduceUninterrupted ==
  /\ proc = "running" /\ worker = "select" /\ handler /\ command.kind = "events"
  /\ stub \in {"eof", "broken"} /\ errCh' = IF stub = "eof" THEN "nil" ELSE "error"
  /\ worker' = "done"
  /\ UNCHANGED <<connVars, world, sig, mainVars, tick, asked, old, new, began, rows, screen, late,
                 runtime, events>>

(* The producer: io.EOF is no error, anything else is; the context of the    *)
(* client's loop is cancelled, but it may be in its send for ever.           *)
Produce ==
  /\ proc = "running" /\ worker = "select" /\ handler /\ command.kind = "events"
  /\ \/ stop /\ errCh' = "error"
     \/ stub = "eof" /\ errCh' = "nil"
     \/ stub = "broken" /\ errCh' = "error"
  /\ worker' = "done"
  /\ UNCHANGED <<connVars, world, sig, mainVars, tick, asked, old, new, began, rows, screen, late,
                 runtime, events>>

(* outputEvent; one that cannot be formatted is reported and counts as       *)
(* printed.                                                                  *)
PrintEvent ==
  /\ proc = "running" /\ command.kind = "events" /\ main = "select" /\ hand # 0
  /\ printed' = Append(printed, hand) /\ hand' = 0
  /\ UNCHANGED <<connVars, world, sig, mainVars, errCh, display, runtime, stream, issued,
                 received, stub>>

EventsEnd ==
  /\ proc = "running" /\ command.kind = "events" /\ main = "select" /\ errCh # "empty"
  /\ main' = "returned" /\ result' = errCh /\ errCh' = "empty"
  /\ UNCHANGED <<connVars, world, sig, display, runtime, events>>

-----------------------------------------------------------------------------
(* The objects of the runtime: they appear, use the CPU, are restarted under *)
(* their id with a counter that starts anew, stop, and are removed.          *)
Happens(o, s) ==
  /\ Displays /\ main = "select" /\ proc = "running"
  /\ clock < MaxClock /\ clock' = clock + 1
  /\ stats' = [x \in DOMAIN stats \cup {o} |-> IF x = o THEN s ELSE stats[x]]
  /\ UNCHANGED <<connVars, world, sig, mainVars, errCh, display, gone, events>>

Appear(o) ==
  /\ o \notin DOMAIN stats \cup gone
  /\ Happens(o, [cpu |-> 1, memory |-> 1, stamp |-> clock + 1, total |-> 1, life |-> 0])

Use(o) ==
  /\ o \in DOMAIN stats /\ stats[o].memory = 1
  /\ Happens(o, [stats[o] EXCEPT !.cpu = (@ + 1) % Width, !.stamp = clock + 1, !.total = @ + 1])

Restart(o) ==
  /\ o \in DOMAIN stats
  /\ Happens(o, [stats[o] EXCEPT !.cpu = 1, !.memory = 1, !.stamp = clock + 1,
                                 !.total = @ + 1, !.life = @ + 1])

Halt(o) ==
  /\ o \in DOMAIN stats /\ stats[o].memory = 1
  /\ Happens(o, [stats[o] EXCEPT !.cpu = 0, !.memory = 0, !.stamp = clock + 1, !.life = @ + 1])

Vanish(o) ==
  /\ Displays /\ main = "select" /\ proc = "running"
  /\ o \in DOMAIN stats
  /\ stats' = [x \in DOMAIN stats \ {o} |-> stats[x]]
  /\ gone' = gone \cup {o}
  /\ UNCHANGED <<connVars, world, sig, mainVars, errCh, display, clock, events>>

Objectively == \E o \in Objects : Appear(o) \/ Use(o) \/ Restart(o) \/ Halt(o) \/ Vanish(o)

Displaying ==
  \/ NextRound \/ First \/ Wake \/ Second \/ CallFails \/ MakeRows \/ Flush \/ Fail

Eventing == Receive \/ StreamEnds \/ Break \/ Produce \/ PrintEvent \/ InstallHandler

Next ==
  \/ Signal \/ Exit \/ Connection \/ World
  \/ StartDisplay \/ Tick \/ Displaying \/ DisplayStops
  \/ StartEvents \/ Emit \/ Eventing \/ EventsEnd
  \/ Objectively

(* The Go scheduler runs each goroutine that can go on, timers fire, and a   *)
(* call ends, for the client gives it a deadline.  Nothing is assumed of     *)
(* the user and of the runtime.                                              *)
Fairness ==
  /\ WF_vars(Connection) /\ WF_vars(Exit)
  /\ WF_vars(StartDisplay) /\ WF_vars(Tick) /\ WF_vars(Displaying) /\ WF_vars(DisplayStops)
  /\ WF_vars(StartEvents) /\ WF_vars(InstallHandler) /\ WF_vars(Receive)
  /\ WF_vars(StreamEnds) /\ WF_vars(Break)
  /\ WF_vars(Produce) /\ WF_vars(PrintEvent) /\ WF_vars(EventsEnd)

Spec == Init /\ [][Next]_vars /\ Fairness

-----------------------------------------------------------------------------
(* A share of the CPU on the screen is that of what the object did between   *)
(* the two samples of this screen, whatever came and went since the last     *)
(* one.  The exception is an object that was restarted under its id between  *)
(* them: its counter is smaller than before and the difference wraps around. *)
SharesAreTrue ==
  \A r \in screen : ~r.restarted => r.used = r.really

(* Once --watch has been interrupted, at most the screen in hand is shown    *)
(* while the program shuts down: the cancelled context ends the next round.  *)
OneLateScreen == late <= 1

(* Events are printed in their order, none twice, and the command ends       *)
(* without an error only when all that the runtime sent were printed:        *)
(* although the end comes on a channel of its own, it does not overtake the  *)
(* last event.                                                               *)
EventsComplete ==
  /\ \A n \in DOMAIN printed : printed[n] = n
  /\ command.kind = "events" /\ result = "nil" => Len(printed) = issued

(* An interrupt ends each of these commands, in the middle of a sample and   *)
(* when an event is stuck in its channel; and so does a display that fails,  *)
(* which must not stay on the screen as if it were current.                  *)
WatchEnds == (stop \/ worker = "failed") ~> proc # "running"
=============================================================================
