------------------------------- MODULE Connect -------------------------------
(***************************************************************************)
(* How a crictl command gets its connections (cmd/crictl/                  *)
(* crictl_config.go): the endpoints from the flags and the file, the       *)
(* default endpoints in turn when none is given, and retries with a        *)
(* growing delay when one is.  Time is counted in units of 500 ms, the     *)
(* first delay, and passes only between two attempts; that an attempt      *)
(* itself takes up to the timeout is left out.  The context of a command   *)
(* is the one of app.Run, which is never done, so the wait for it is too.  *)
(***************************************************************************)
EXTENDS Integers, Sequences, FiniteSetsExt

CONSTANTS
  Endpoints,      \* the sockets a runtime may serve
  Defaults,       \* defaultRuntimeEndpoints
  Unset, Nowhere, \* a flag nobody gives, and the empty string
  Commands,       \* what is run: the services it gets in turn, the endpoints
                  \* given by flag and by file, the retries in force
  MaxDials,       \* bound on the attempts that are counted
  MaxFlips        \* bound on the runtimes that start or stop meanwhile

Services == {"runtime", "image"}

ASSUME DefaultsAssumption == Defaults \in Seq(Endpoints) /\ Len(Defaults) > 0
ASSUME BoundsAssumption == {MaxDials, MaxFlips} \subseteq Nat
ASSUME UnsetAssumption == Unset # Nowhere /\ {Unset, Nowhere} \cap Endpoints = {}
ASSUME CommandsAssumption == \A c \in Commands :
  /\ c.wanted \in Seq(Services) /\ Len(c.wanted) > 0
  /\ c.flag \in [Services -> Endpoints \cup {Nowhere, Unset}]
  /\ c.file \in [Services -> Endpoints \cup {Nowhere}]
  /\ c.retries \in Int /\ c.retries < MaxDials

VARIABLES
  command,   \* the command that is run
  config,    \* the two endpoints of CrictlConfig, and whether each is set
  got,       \* the number of services it has got
  phase,     \* "get", "dial", "wait", then "connected" or "failed"
  dials,     \* the attempts for the service in hand
  delay,     \* the delay before the next attempt
  due,       \* what is left of it
  waited,    \* the time spent waiting for the service in hand
  conn,      \* the endpoint each service is connected to, or Nowhere
  up,        \* the endpoints that a runtime serves
  flips      \* how often that has changed

connVars == <<command, config, got, phase, dials, delay, due, waited, conn>>
world == <<up, flips>>

ConnTypeOK ==
  /\ command \in Commands
  /\ config \in [Services -> [at : Endpoints \cup {Nowhere}, set : BOOLEAN]]
  /\ got \in 0..Len(command.wanted)
  /\ phase \in {"get", "dial", "wait", "connected", "failed"}
  /\ {dials, due, waited} \subseteq Nat /\ delay \in 1..10
  /\ conn \in [Services -> Endpoints \cup {Nowhere}]
  /\ up \subseteq Endpoints /\ flips \in 0..MaxFlips

(* A flag overrides the file, even with an empty string.                     *)
Resolved(flag, file) ==
  IF flag # Unset THEN [at |-> flag, set |-> TRUE]
  ELSE [at |-> file, set |-> file # Nowhere]

ConnInit ==
  /\ command \in Commands
  /\ config = [s \in Services |-> Resolved(command.flag[s], command.file[s])]
  /\ got = 0 /\ phase = "get"
  /\ dials = 0 /\ delay = 1 /\ due = 0 /\ waited = 0
  /\ conn = [s \in Services |-> Nowhere]
  /\ up \in SUBSET Endpoints /\ flips = 0

Service == command.wanted[got + 1]

-----------------------------------------------------------------------------
\* Faulty variant: the endpoint is taken over, but not that it is set.
InheritsName(s) ==
  IF s = "image" /\ config.image.at = Nowhere
  THEN [config EXCEPT !.image.at = config.runtime.at] ELSE config

(* GetImageService without an endpoint of its own takes the runtime's, and   *)
(* keeps it in the configuration that all share.                             *)
Inherits(s) ==
  IF s = "image" /\ config.image.at = Nowhere
  THEN [config EXCEPT !.image = config.runtime] ELSE config

(* An endpoint that is given as an empty string is refused.                  *)
Refused(s) ==
  /\ s = "runtime" \/ config.image.at = Nowhere
  /\ config.runtime.set /\ config.runtime.at = Nowhere

Get ==
  /\ phase = "get"
  /\ IF Refused(Service)
       THEN phase' = "failed" /\ UNCHANGED config
       ELSE phase' = "dial" /\ config' = Inherits(Service)
  /\ dials' = 0 /\ delay' = 1 /\ due' = 0 /\ waited' = 0
  /\ UNCHANGED <<command, got, conn>>

Target ==
  IF config[Service].set THEN config[Service].at ELSE Defaults[dials + 1]

(* NewRemoteRuntimeService and NewRemoteImageService ask the runtime for its *)
(* version.                                                                  *)
Dial ==
  /\ phase = "dial" /\ Target \in up
  /\ conn' = [conn EXCEPT ![Service] = Target]
  /\ got' = got + 1
  /\ phase' = IF got' = Len(command.wanted) THEN "connected" ELSE "get"
  /\ UNCHANGED <<command, config, dials, delay, due, waited>>

(* The loop over the default endpoints returns the last error.               *)
DefaultFails ==
  /\ phase = "dial" /\ ~config[Service].set /\ Target \notin up
  /\ dials' = dials + 1
  /\ phase' = IF dials' = Len(Defaults) THEN "failed" ELSE "dial"
  /\ UNCHANGED <<command, config, got, delay, due, waited, conn>>

\* Faulty variant: the first attempt is counted as a retry.
OneTooFew == command.retries < 0 \/ dials + 1 < command.retries

(* Attempts go on without end, or up to a number of retries.                 *)
Retries == command.retries < 0 \/ dials < command.retries

(* connectWithRetry after an attempt that failed: the delay before the first *)
(* retry is one unit, and doubles up to ten.                                 *)
DialFails ==
  LET d == IF dials = 0 THEN 1 ELSE Min({2 * delay, 10})
  IN  /\ phase = "dial" /\ config[Service].set /\ Target \notin up
      /\ dials' = Min({dials + 1, MaxDials})
      /\ IF Retries
           THEN phase' = "wait" /\ delay' = d /\ due' = d
           ELSE phase' = "failed" /\ UNCHANGED <<delay, due>>
      /\ UNCHANGED <<command, config, got, waited, conn>>

(* time.After; the wait is counted only where attempts are.                  *)
TimePasses ==
  /\ phase = "wait"
  /\ due' = due - 1
  /\ phase' = IF due' = 0 THEN "dial" ELSE "wait"
  /\ waited' = IF command.retries < 0 THEN 0 ELSE waited + 1
  /\ UNCHANGED <<command, config, got, dials, delay, conn>>

Connecting ==
  Get \/ Dial \/ DefaultFails \/ DialFails \/ TimePasses

(* A runtime starts, or one that serves stops.                               *)
Flip(e) ==
  /\ flips < MaxFlips /\ flips' = flips + 1
  /\ up' = IF e \in up THEN up \ {e} ELSE up \cup {e}
  /\ UNCHANGED connVars

-----------------------------------------------------------------------------
(* What the user asked for, read from the command line and the file alone.   *)
Given(s) ==
  IF command.flag[s] \in Endpoints THEN {command.flag[s]}
  ELSE IF command.flag[s] = Unset THEN {command.file[s]} \cap Endpoints ELSE {}

(* "default: uses 'runtime-endpoint' setting", says --image-endpoint.  Each  *)
(* service is connected where the user asked, the image service to the       *)
(* runtime's place where he did not say, in whatever order a command gets    *)
(* the two.  Default endpoints are tried anew for each of the services, so   *)
(* that the two may end up at different runtimes, but only when runtimes     *)
(* come or go meanwhile; otherwise it is the first of them that serves, and  *)
(* crictl gives up only when none does.                                      *)
ConnectsAsAsked ==
  /\ \A s \in Services : conn[s] # Nowhere /\ Given(s) # {} => conn[s] \in Given(s)
  /\ conn.image # Nowhere /\ Given("image") = {} /\ Given("runtime") # {}
       => conn.image \in Given("runtime")
  /\ Nowhere \notin {conn.runtime, conn.image} /\ Given("image") = {} /\ conn.image # conn.runtime
       => Given("runtime") = {} /\ flips > 0
  /\ flips = 0 /\ (\A s \in Services : command.flag[s] = Unset /\ command.file[s] = Nowhere)
       => LET serving == {n \in 1..Len(Defaults) : Defaults[n] \in up}
          IN  /\ \A s \in Services : conn[s] # Nowhere => conn[s] = Defaults[Min(serving)]
              /\ phase = "failed" => serving = {}

(* The time in which n retries wait: delays of 1, 2, 4, 8 units, then of 10. *)
Patience(n) == IF n > 4 THEN 15 + 10 * (n - 4) ELSE <<0, 1, 3, 7, 15>>[n + 1]

(* crictl gives up an endpoint after as many retries as were asked for, with *)
(* the waits in between that double and level off at 5 s, and never when the *)
(* number is negative.                                                       *)
PatienceAsAsked ==
  phase = "failed" /\ dials > 0 /\ config[Service].set
    => command.retries >= 0 /\ waited = Patience(command.retries)
=============================================================================
