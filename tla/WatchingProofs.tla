--------------------------- MODULE WatchingProofs ---------------------------
(***************************************************************************)
(* What Connect and Watching promise for any endpoints, retries, objects   *)
(* and events: where a command is connected and how long it tries, what    *)
(* --watch shows and when it stops, and which events are printed.          *)
(***************************************************************************)
EXTENDS Watching, SequenceTheorems, TLAPS

-----------------------------------------------------------------------------
(* The connection.                                                           *)
Asks(s) == Resolved(command.flag[s], command.file[s])

(* What is in force when a service is dialled.                               *)
Place(s) == IF s = "image" /\ Asks(s).at = Nowhere THEN Asks("runtime") ELSE Asks(s)

Configured ==
  /\ got = Len(command.wanted) <=> phase = "connected"
  /\ config.runtime = Asks("runtime") /\ config.image \in {Asks("image"), Place("image")}
  /\ phase \in {"dial", "wait"} => config[Service] = Place(Service)

(* The first default endpoints that were tried served no runtime.            *)
NoneOf(n) == \A m \in 1..n : Defaults[m] \notin up

Reached(s) ==
  IF Place(s).set THEN conn[s] = Place(s).at
  ELSE \E n \in 1..Len(Defaults) :
         conn[s] = Defaults[n] /\ (flips = 0 => Defaults[n] \in up /\ NoneOf(n - 1))

Connected ==
  /\ \A s \in Services : conn[s] # Nowhere => Reached(s)
  /\ phase = "dial" /\ ~config[Service].set
       => dials < Len(Defaults) /\ (flips = 0 => NoneOf(dials))
  /\ phase = "failed" /\ flips = 0 /\ ~Asks("runtime").set /\ ~Asks("image").set
       => NoneOf(Len(Defaults))

(* The delay before the n-th retry.                                          *)
Delay(n) == IF n > 4 THEN 10 ELSE <<1, 1, 2, 4, 8>>[n + 1]

Waiting ==
  /\ phase = "wait" => config[Service].set /\ due > 0
  /\ phase \in {"dial", "wait"} /\ command.retries >= 0 /\ config[Service].set =>
       /\ phase = "dial" => /\ dials <= command.retries /\ delay = Delay(dials)
                            /\ waited = Patience(dials)
       /\ phase = "wait" => /\ dials \in 1..command.retries /\ delay = Delay(dials)
                            /\ waited + due = Patience(dials)
  /\ phase = "failed" /\ dials > 0 /\ config[Service].set
       => command.retries >= 0 /\ waited = Patience(command.retries)

ConnInv == ConnTypeOK /\ Configured /\ Connected /\ Waiting

-----------------------------------------------------------------------------
(* What a step does to the connection.                                       *)
LEMMA ConnectionStep ==
  ASSUME [Next]_vars
  PROVE  \/ Connecting /\ UNCHANGED world
         \/ \E e \in Endpoints : Flip(e)
         \/ UNCHANGED <<connVars, world>>
<1>1. CASE Connection
  BY <1>1 DEF Connection
<1>2. CASE World
  BY <1>2 DEF World
<1>3. CASE \/ Signal \/ Exit \/ StartDisplay \/ Tick \/ DisplayStops
           \/ StartEvents \/ Emit \/ EventsEnd \/ UNCHANGED vars
  BY <1>3 DEF Signal, Exit, StartDisplay, Tick, DisplayStops, StartEvents, Emit, EventsEnd, vars
<1>4. CASE Displaying
  BY <1>4 DEF Displaying, NextRound, First, Wake, Second, CallFails, MakeRows, Flush, Fail
<1>5. CASE Eventing
  BY <1>5 DEF Eventing, Receive, StreamEnds, Break, Produce, PrintEvent, InstallHandler
<1>6. CASE Objectively
  BY <1>6 DEF Objectively, Appear, Use, Restart, Halt, Vanish, Happens
<1>7. QED
  BY <1>1, <1>2, <1>3, <1>4, <1>5, <1>6 DEF Next

(* A command does not change while it runs.                                  *)
LEMMA CommandFixed ==
  ASSUME [Next]_vars PROVE UNCHANGED command
BY ConnectionStep DEF Connecting, Get, Dial, DefaultFails, DialFails, TimePasses, Flip, connVars

LEMMA MinOfTwo ==
  ASSUME NEW a \in Int, NEW b \in Int
  PROVE  Min({a, b}) = IF a <= b THEN a ELSE b
<1>1. \E x \in {a, b} : \A y \in {a, b} : x <= y
  OBVIOUS
<1>2. Min({a, b}) \in {a, b} /\ \A y \in {a, b} : Min({a, b}) <= y
  BY <1>1 DEF Min
<1>3. QED
  BY <1>2

(* The commands that are run: what they want, and where it was said.         *)
LEMMA CommandType ==
  ASSUME ConnTypeOK
  PROVE  /\ command.wanted \in Seq(Services) /\ Len(command.wanted) \in Nat \ {0}
         /\ got < Len(command.wanted) => Service \in Services /\ got + 1 \in 1..Len(command.wanted)
         /\ command.retries \in Int /\ command.retries < MaxDials /\ MaxDials \in Nat
         /\ \A s \in Services : Asks(s) \in [at : Endpoints \cup {Nowhere}, set : BOOLEAN]
<1>1. command \in Commands
  BY DEF ConnTypeOK
<1>2. command.wanted \in Seq(Services) /\ Len(command.wanted) \in Nat \ {0}
  BY <1>1, CommandsAssumption, LenProperties
<1>3. ASSUME got < Len(command.wanted)
      PROVE  Service \in Services /\ got + 1 \in 1..Len(command.wanted)
  <2>1. got + 1 \in 1..Len(command.wanted)
    BY <1>2, <1>3 DEF ConnTypeOK
  <2>2. QED
    BY <1>2, <2>1, ElementOfSeq DEF Service
<1>4. command.retries \in Int /\ command.retries < MaxDials /\ MaxDials \in Nat
  BY <1>1, CommandsAssumption, BoundsAssumption
<1>5. ASSUME NEW s \in Services
      PROVE  Asks(s) \in [at : Endpoints \cup {Nowhere}, set : BOOLEAN]
  <2>1. /\ command.flag[s] \in Endpoints \cup {Nowhere, Unset}
        /\ command.file[s] \in Endpoints \cup {Nowhere}
    BY <1>1, CommandsAssumption
  <2>2. QED
    BY <2>1 DEF Asks, Resolved
<1>6. QED
  BY <1>2, <1>3, <1>4, <1>5

-----------------------------------------------------------------------------
(* What depends on the command alone, or on what a step leaves alone.        *)
LEMMA Fixed ==
  ASSUME UNCHANGED command
  PROVE  /\ \A s : Asks(s)' = Asks(s)
         /\ \A s : Place(s)' = Place(s)
         /\ UNCHANGED got => UNCHANGED Service
         /\ \A n : UNCHANGED up => NoneOf(n)' = NoneOf(n)
         /\ \A s : UNCHANGED <<conn, world>> => Reached(s)' = Reached(s)
<1>1. \A s : Asks(s)' = Asks(s)
  BY DEF Asks
<1>2. \A s : Place(s)' = Place(s)
  BY <1>1 DEF Place
<1>3. UNCHANGED got => UNCHANGED Service
  BY DEF Service
<1>4. \A n : UNCHANGED up => NoneOf(n)' = NoneOf(n)
  BY DEF NoneOf
<1>5. ASSUME NEW s, UNCHANGED <<conn, world>> PROVE Reached(s)' = Reached(s)
  BY <1>2, <1>4, <1>5 DEF Reached, world
<1>6. QED
  BY <1>1, <1>2, <1>3, <1>4, <1>5

(* The image service takes the endpoint of the runtime only when it has none *)
(* of its own.                                                               *)
LEMMA Inherited ==
  ASSUME ConnTypeOK, Configured, NEW s \in Services
  PROVE  /\ Inherits(s) \in [Services -> [at : Endpoints \cup {Nowhere}, set : BOOLEAN]]
         /\ Inherits(s).runtime = Asks("runtime")
         /\ Inherits(s).image \in {Asks("image"), Place("image")}
         /\ Inherits(s)[s] = Place(s)
<1> DEFINE E == [at : Endpoints \cup {Nowhere}, set : BOOLEAN]
<1>1. /\ config \in [Services -> E] /\ "image" \in Services /\ "runtime" \in Services
      /\ config.runtime = Asks("runtime") /\ config.image \in {Asks("image"), Place("image")}
  BY DEF ConnTypeOK, Configured, Services
<1>2. s \in {"image", "runtime"}
  BY DEF Services
<1>3. CASE s = "image" /\ config.image.at = Nowhere
  <2>1. Asks("image").at = Nowhere
    BY <1>1, <1>3 DEF Place
  <2>2. Place("image") = Asks("runtime") /\ Inherits(s) = [config EXCEPT !.image = config.runtime]
    BY <1>3, <2>1 DEF Place, Inherits
  <2>3. QED
    BY <1>1, <1>3, <2>2
<1>4. CASE ~(s = "image" /\ config.image.at = Nowhere)
  <2>1. Inherits(s) = config
    BY <1>4 DEF Inherits
  <2>2. config[s] = Place(s)
    BY <1>1, <1>2, <1>4 DEF Place
  <2>3. QED
    BY <1>1, <2>1, <2>2
<1>5. QED
  BY <1>3, <1>4

LEMMA GetStep ==
  ASSUME ConnInv, Get, UNCHANGED world PROVE ConnInv'
<1>1. ConnTypeOK /\ Configured /\ Connected
  BY DEF ConnInv
<1>2. /\ phase = "get" /\ phase' \in {"failed", "dial"}
      /\ phase' = "failed" => Refused(Service) /\ config' = config
      /\ phase' = "dial" => config' = Inherits(Service)
      /\ dials' = 0 /\ delay' = 1 /\ due' = 0 /\ waited' = 0
      /\ UNCHANGED <<command, got, conn, up, flips>>
  BY DEF Get, world
<1>3. got < Len(command.wanted) /\ Service \in Services /\ UNCHANGED Service
  <2>1. got \in 0..Len(command.wanted) /\ got # Len(command.wanted)
    BY <1>1, <1>2 DEF ConnTypeOK, Configured
  <2>2. QED
    BY <1>1, <1>2, <2>1, CommandType, Fixed
<1>4. ConnTypeOK'
  BY <1>1, <1>2, <1>3, Inherited DEF ConnTypeOK
<1>5. Configured'
  BY <1>1, <1>2, <1>3, Inherited, Fixed DEF Configured
<1>6. Connected'
  <2>1. 0 < Len(Defaults) /\ NoneOf(0)
    BY DefaultsAssumption DEF NoneOf
  <2>2. phase' = "failed" => Asks("runtime").set
    BY <1>1, <1>2 DEF Refused, Configured
  <2>3. QED
    BY <1>1, <1>2, <2>1, <2>2, Fixed DEF Connected, world
<1>7. Waiting'
  BY <1>1, <1>2 DEF Waiting, Delay, Patience
<1>8. QED
  BY <1>4, <1>5, <1>6, <1>7 DEF ConnInv

LEMMA DialStep ==
  ASSUME ConnInv, Dial, UNCHANGED world PROVE ConnInv'
<1>1. ConnTypeOK /\ Configured /\ Connected
  BY DEF ConnInv
<1>2. /\ phase = "dial" /\ Target \in up
      /\ conn' = [conn EXCEPT ![Service] = Target]
      /\ got' = got + 1
      /\ phase' = IF got' = Len(command.wanted) THEN "connected" ELSE "get"
      /\ UNCHANGED <<command, config, dials, delay, due, waited, up, flips>>
  BY DEF Dial, world
<1>3. /\ got < Len(command.wanted) /\ Service \in Services
      /\ got + 1 \in 0..Len(command.wanted)
  <2>1. got \in 0..Len(command.wanted) /\ got # Len(command.wanted)
    BY <1>1, <1>2 DEF ConnTypeOK, Configured
  <2>2. QED
    BY <1>1, <1>2, <2>1, CommandType
<1>4. ConnTypeOK'
  BY <1>1, <1>2, <1>3 DEF ConnTypeOK
<1>5. Configured'
  BY <1>1, <1>2, <1>3, Fixed DEF Configured
<1>6. ASSUME NEW s \in Services, conn'[s] = conn[s] PROVE Reached(s)' = Reached(s)
  <2>1. Place(s)' = Place(s) /\ \A n : NoneOf(n)' = NoneOf(n)
    BY <1>2, Fixed
  <2>2. QED
    BY <1>2, <1>6, <2>1 DEF Reached
<1>7. Connected'
  <2>0. PICK here \in Services : here = Service
    BY <1>3
  <2>1. \A s \in Services : conn'[s] = IF s = here THEN Target ELSE conn[s]
    BY <1>1, <1>2, <2>0 DEF ConnTypeOK
  <2>2. CASE config[Service].set
    <3>1. Place(here).set /\ Target = Place(here).at
      BY <1>1, <1>2, <2>0, <2>2 DEF Configured, Target
    <3>2. Reached(here)'
      BY <1>2, <1>3, <2>1, <3>1, Fixed DEF Reached
    <3>3. QED
      BY <1>1, <1>2, <2>1, <3>2, <1>6 DEF Connected
  <2>3. CASE ~config[Service].set
    <3>1. /\ ~Place(here).set /\ Target = Defaults[dials + 1]
          /\ dials + 1 \in 1..Len(Defaults) /\ (flips = 0 => NoneOf((dials + 1) - 1))
      BY <1>1, <1>2, <2>0, <2>3, DefaultsAssumption DEF Configured, Connected, Target, ConnTypeOK
    <3>2. Reached(here)'
      BY <1>2, <1>3, <2>1, <3>1, Fixed DEF Reached
    <3>3. QED
      BY <1>1, <1>2, <2>1, <3>2, <1>6 DEF Connected
  <2>4. QED
    BY <2>2, <2>3
<1>8. Waiting'
  BY <1>2 DEF Waiting
<1>9. QED
  BY <1>4, <1>5, <1>7, <1>8 DEF ConnInv


(* The next default endpoint is tried; the ones before it served nothing.    *)
LEMMA DefaultFailsStep ==
  ASSUME ConnInv, DefaultFails, UNCHANGED world PROVE ConnInv'
<1>1. ConnTypeOK /\ Configured /\ Connected
  BY DEF ConnInv
<1>2. /\ phase = "dial" /\ ~config[Service].set /\ Target \notin up
      /\ dials' = dials + 1
      /\ phase' = IF dials' = Len(Defaults) THEN "failed" ELSE "dial"
      /\ UNCHANGED <<command, config, got, delay, due, waited, conn, up, flips>>
  BY DEF DefaultFails, world
<1>3. got # Len(command.wanted) /\ UNCHANGED Service
  BY <1>1, <1>2, Fixed DEF Configured
<1>4. ConnTypeOK'
  BY <1>1, <1>2 DEF ConnTypeOK
<1>5. Configured'
  BY <1>1, <1>2, <1>3, Fixed DEF Configured
<1>6. Connected'
  <2>1. /\ dials \in Nat /\ dials < Len(Defaults) /\ Len(Defaults) \in Nat
        /\ Target = Defaults[dials + 1] /\ (flips = 0 => NoneOf(dials))
    BY <1>1, <1>2, DefaultsAssumption DEF Connected, ConnTypeOK, Target
  <2>2. flips = 0 => NoneOf(dials + 1)
    BY <1>2, <2>1 DEF NoneOf
  <2>3. flips' = 0 => NoneOf(dials)'
    BY <1>2, <2>2 DEF NoneOf
  <2>4. phase' = "failed" => dials' = Len(Defaults)
    BY <1>2
  <2>5. phase' = "failed" /\ flips' = 0 => NoneOf(Len(Defaults))'
    BY <1>2, <2>2, <2>4 DEF NoneOf
  <2>6. phase' = "dial" => dials' < Len(Defaults)
    BY <1>2, <2>1
  <2>7. \A s \in Services : conn'[s] # Nowhere => Reached(s)'
    BY <1>1, <1>2, Fixed DEF Connected, world
  <2>8. QED
    BY <2>3, <2>5, <2>6, <2>7 DEF Connected
<1>7. Waiting'
  BY <1>2, <1>3 DEF Waiting
<1>8. QED
  BY <1>4, <1>5, <1>6, <1>7 DEF ConnInv

(* The delays and the waits grow together.                                   *)
LEMMA DelaysAddUp ==
  ASSUME NEW n \in Nat
  PROVE  /\ Delay(n) \in 1..10 /\ Patience(n) \in Nat
         /\ Delay(n + 1) = IF n = 0 THEN 1 ELSE Min({2 * Delay(n), 10})
         /\ Patience(n + 1) = Patience(n) + Delay(n + 1)
<1>1. /\ Delay(n) \in 1..10 /\ Patience(n) \in Nat
      /\ Patience(n + 1) = Patience(n) + Delay(n + 1)
      /\ Delay(n + 1) = IF n = 0 THEN 1 ELSE IF 2 * Delay(n) <= 10 THEN 2 * Delay(n) ELSE 10
  <2>1. CASE n > 4
    BY <2>1 DEF Delay, Patience
  <2>2. CASE n \in 0..4
    BY <2>2 DEF Delay, Patience
  <2>3. QED
    BY <2>1, <2>2
<1>2. Min({2 * Delay(n), 10}) = IF 2 * Delay(n) <= 10 THEN 2 * Delay(n) ELSE 10
  BY <1>1, MinOfTwo
<1>3. QED
  BY <1>1, <1>2

LEMMA DialFailsStep ==
  ASSUME ConnInv, DialFails, UNCHANGED world PROVE ConnInv'
<1> DEFINE d == IF dials = 0 THEN 1 ELSE Min({2 * delay, 10})
<1>1. ConnTypeOK /\ Configured /\ Connected /\ Waiting
  BY DEF ConnInv
<1>2. /\ phase = "dial" /\ config[Service].set /\ Target \notin up
      /\ dials' = Min({dials + 1, MaxDials})
      /\ phase' = IF Retries THEN "wait" ELSE "failed"
      /\ Retries => delay' = d /\ due' = d
      /\ ~Retries => UNCHANGED <<delay, due>>
      /\ UNCHANGED <<command, config, got, waited, conn, up, flips>>
  BY DEF DialFails, world
<1>3. got # Len(command.wanted) /\ UNCHANGED Service /\ Service \in Services
  BY <1>1, <1>2, Fixed, CommandType DEF Configured, ConnTypeOK
<1>4. /\ dials \in Nat /\ delay \in 1..10 /\ due \in Nat /\ waited \in Nat
      /\ command.retries \in Int /\ command.retries < MaxDials /\ MaxDials \in Nat
  BY <1>1, CommandType DEF ConnTypeOK
<1>5. dials' \in Nat /\ (dials < MaxDials => dials' = dials + 1)
  BY <1>2, <1>4, MinOfTwo
<1>6. d \in 1..10
  BY <1>4, MinOfTwo
<1> HIDE DEF d
<1>7. ConnTypeOK'
  <2>1. delay' \in 1..10 /\ due' \in Nat
    BY <1>2, <1>4, <1>6
  <2>2. QED
    BY <1>1, <1>2, <1>5, <2>1 DEF ConnTypeOK
<1>8. Configured'
  BY <1>1, <1>2, <1>3, Fixed DEF Configured
<1>9. Connected'
  <2>1. Asks("runtime").set \/ Asks("image").set
    <3>1. Place(Service).set
      BY <1>1, <1>2 DEF Configured
    <3>2. QED
      BY <1>3, <3>1 DEF Place, Services
  <2>2. QED
    BY <1>1, <1>2, <2>1, Fixed DEF Connected, world
<1>10. Waiting'
  <2>1. config[Service]' = config[Service]
    BY <1>2, <1>3
  <2>2. CASE command.retries < 0
    <3>1. phase' = "wait" /\ due' > 0
      BY <1>2, <1>4, <1>6, <2>2 DEF Retries
    <3>2. QED
      BY <1>2, <1>4, <2>1, <2>2, <3>1 DEF Waiting
  <2>3. CASE command.retries >= 0
    <3>1. dials <= command.retries /\ delay = Delay(dials) /\ waited = Patience(dials)
      BY <1>1, <1>2, <2>3 DEF Waiting
    <3>2. dials' = dials + 1
      BY <1>4, <1>5, <3>1
    <3>3. CASE Retries
      <4>1. dials + 1 <= command.retries
        BY <1>4, <2>3, <3>3 DEF Retries
      <4>2. d = Delay(dials + 1) /\ Patience(dials + 1) = Patience(dials) + Delay(dials + 1)
        BY <1>4, <3>1, DelaysAddUp DEF d
      <4>3. dials' \in 1..command.retries
        BY <1>4, <3>2, <4>1
      <4>4. delay' = Delay(dials') /\ waited' + due' = Patience(dials') /\ due' > 0
        BY <1>2, <1>4, <1>6, <3>1, <3>2, <3>3, <4>2
      <4>5. /\ phase' = "wait" /\ Delay(dials)' = Delay(dials') /\ Patience(dials)' = Patience(dials')
        BY <1>2, <3>3 DEF Delay, Patience
      <4>6. QED
        BY <1>2, <2>1, <4>3, <4>4, <4>5 DEF Waiting
    <3>4. CASE ~Retries
      <4>1. dials = command.retries
        BY <1>4, <2>3, <3>1, <3>4 DEF Retries
      <4>2. QED
        BY <1>2, <2>3, <3>1, <3>4, <4>1 DEF Waiting, Patience
    <3>5. QED
      BY <3>3, <3>4
  <2>4. QED
    BY <1>4, <2>2, <2>3
<1>11. QED
  BY <1>7, <1>8, <1>9, <1>10 DEF ConnInv

LEMMA TimePassesStep ==
  ASSUME ConnInv, TimePasses, UNCHANGED world PROVE ConnInv'
<1>1. ConnTypeOK /\ Configured /\ Connected /\ Waiting
  BY DEF ConnInv
<1>2. /\ phase = "wait" /\ due' = due - 1
      /\ phase' = IF due' = 0 THEN "dial" ELSE "wait"
      /\ waited' = IF command.retries < 0 THEN 0 ELSE waited + 1
      /\ UNCHANGED <<command, config, got, dials, delay, conn, up, flips>>
  BY DEF TimePasses, world
<1>3. /\ config[Service].set /\ due > 0 /\ dials \in Nat /\ due \in Nat /\ waited \in Nat
      /\ got # Len(command.wanted) /\ UNCHANGED Service /\ Service \in Services
      /\ command.retries \in Int
  BY <1>1, <1>2, Fixed, CommandType DEF Waiting, Configured, ConnTypeOK
<1>4. ConnTypeOK'
  BY <1>1, <1>2, <1>3 DEF ConnTypeOK
<1>5. Configured'
  BY <1>1, <1>2, <1>3, Fixed DEF Configured
<1>6. Connected'
  BY <1>1, <1>2, <1>3, Fixed DEF Connected, world
<1>7. Waiting'
  <2>1. CASE command.retries < 0
    BY <1>2, <1>3, <2>1 DEF Waiting
  <2>2. CASE command.retries >= 0
    <3>1. /\ dials \in 1..command.retries /\ delay = Delay(dials)
          /\ waited + due = Patience(dials)
      BY <1>1, <1>2, <1>3, <2>2 DEF Waiting
    <3>2. waited' + due' = Patience(dials) /\ waited' \in Nat /\ due' \in Nat
      BY <1>2, <1>3, <2>2, <3>1
    <3>3. QED
      BY <1>2, <1>3, <2>2, <3>1, <3>2 DEF Waiting, Delay, Patience
  <2>3. QED
    BY <1>3, <2>1, <2>2
<1>8. QED
  BY <1>4, <1>5, <1>6, <1>7 DEF ConnInv

(* Where a runtime has come or gone, nothing is said of what is not served.  *)
LEMMA FlipStep ==
  ASSUME ConnInv, NEW e \in Endpoints, Flip(e) PROVE ConnInv'
<1>1. ConnTypeOK /\ Configured /\ Connected /\ Waiting
  BY DEF ConnInv
<1>2. /\ flips < MaxFlips /\ flips' = flips + 1 /\ up' \subseteq up \cup {e}
      /\ UNCHANGED <<command, config, got, phase, dials, delay, due, waited, conn>>
  BY DEF Flip, connVars
<1>3. UNCHANGED Service
  BY <1>2, Fixed
<1>4. ConnTypeOK'
  BY <1>1, <1>2, BoundsAssumption DEF ConnTypeOK
<1>5. Configured'
  BY <1>1, <1>2, <1>3, Fixed DEF Configured
<1>6. Connected'
  <2>1. flips' # 0
    BY <1>1, <1>2 DEF ConnTypeOK
  <2>2. ASSUME NEW s \in Services, conn'[s] # Nowhere PROVE Reached(s)'
    <3>1. Reached(s) /\ Place(s)' = Place(s)
      BY <1>1, <1>2, <2>2, Fixed DEF Connected
    <3>2. QED
      BY <1>2, <2>1, <3>1 DEF Reached
  <2>3. QED
    BY <1>1, <1>2, <1>3, <2>1, <2>2, Fixed DEF Connected
<1>7. Waiting'
  BY <1>1, <1>2, <1>3, Fixed DEF Waiting
<1>8. QED
  BY <1>4, <1>5, <1>6, <1>7 DEF ConnInv

(* The invariant of the connection holds at first, and every step keeps it.  *)
LEMMA ConnInit_ConnInv ==
  ASSUME ConnInit PROVE ConnInv
<1>1. /\ command \in Commands
      /\ config = [s \in Services |-> Asks(s)]
      /\ got = 0 /\ phase = "get"
      /\ dials = 0 /\ delay = 1 /\ due = 0 /\ waited = 0
      /\ conn = [s \in Services |-> Nowhere]
      /\ up \in SUBSET Endpoints /\ flips = 0
  BY DEF ConnInit, Asks
<1>2. /\ command.wanted \in Seq(Services) /\ Len(command.wanted) \in Nat \ {0}
      /\ \A s \in Services : Asks(s) \in [at : Endpoints \cup {Nowhere}, set : BOOLEAN]
  <2>1. command.wanted \in Seq(Services) /\ Len(command.wanted) \in Nat \ {0}
    BY <1>1, CommandsAssumption, LenProperties
  <2>2. ASSUME NEW s \in Services
        PROVE  Asks(s) \in [at : Endpoints \cup {Nowhere}, set : BOOLEAN]
    <3>1. /\ command.flag[s] \in Endpoints \cup {Nowhere, Unset}
          /\ command.file[s] \in Endpoints \cup {Nowhere}
      BY <1>1, CommandsAssumption
    <3>2. QED
      BY <3>1 DEF Asks, Resolved
  <2>3. QED
    BY <2>1, <2>2
<1>3. ConnTypeOK
  BY <1>1, <1>2, BoundsAssumption DEF ConnTypeOK
<1>4. Configured
  BY <1>1, <1>2 DEF Configured, Services
<1>5. Connected
  BY <1>1 DEF Connected
<1>6. Waiting
  BY <1>1 DEF Waiting
<1>7. QED
  BY <1>3, <1>4, <1>5, <1>6 DEF ConnInv

LEMMA ConnInductive ==
  ASSUME ConnInv, [Next]_vars PROVE ConnInv'
<1>1. CASE Connecting /\ UNCHANGED world
  BY <1>1, GetStep, DialStep, DefaultFailsStep, DialFailsStep, TimePassesStep DEF Connecting
<1>2. CASE \E e \in Endpoints : Flip(e)
  BY <1>2, FlipStep
<1>3. CASE UNCHANGED <<connVars, world>>
  <2>1. UNCHANGED <<command, config, got, phase, dials, delay, due, waited, conn, up, flips>>
    BY <1>3 DEF connVars, world
  <2>2. UNCHANGED Service
    BY <2>1, Fixed
  <2>3. ConnTypeOK'
    BY <2>1 DEF ConnInv, ConnTypeOK
  <2>4. Configured'
    BY <2>1, <2>2, Fixed DEF ConnInv, Configured
  <2>5. Connected'
    BY <1>3, <2>1, <2>2, Fixed DEF ConnInv, Connected
  <2>6. Waiting'
    BY <2>1, <2>2, Fixed DEF ConnInv, Waiting
  <2>7. QED
    BY <2>3, <2>4, <2>5, <2>6 DEF ConnInv
<1>4. QED
  BY <1>1, <1>2, <1>3, ConnectionStep

(* What the user gave is what a command asks for.                            *)
LEMMA GivenIsAsked ==
  ASSUME ConnTypeOK, NEW s \in Services
  PROVE  /\ Given(s) # {} => Asks(s).set /\ Asks(s).at \in Given(s) /\ Asks(s).at # Nowhere
         /\ Given(s) = {} => Asks(s).at = Nowhere
<1>1. /\ command.flag[s] \in Endpoints \cup {Nowhere, Unset}
      /\ command.file[s] \in Endpoints \cup {Nowhere}
  BY CommandsAssumption DEF ConnTypeOK
<1>2. Unset # Nowhere /\ Unset \notin Endpoints /\ Nowhere \notin Endpoints
  BY UnsetAssumption
<1>3. CASE command.flag[s] = Unset
  BY <1>1, <1>2, <1>3 DEF Given, Asks, Resolved
<1>4. CASE command.flag[s] # Unset
  BY <1>1, <1>2, <1>4 DEF Given, Asks, Resolved
<1>5. QED
  BY <1>3, <1>4

(* The least of a set of numbers, when one is known to be it.                *)
LEMMA MinIs ==
  ASSUME NEW S \in SUBSET Int, NEW n \in S, \A m \in S : n <= m
  PROVE  Min(S) = n
<1>1. Min(S) \in S /\ \A y \in S : Min(S) <= y
  BY DEF Min
<1>2. Min(S) \in Int /\ n \in Int /\ Min(S) <= n /\ n <= Min(S)
  BY <1>1
<1>3. QED
  BY <1>2

LEMMA ConnInvImplies ==
  ASSUME ConnInv PROVE ConnectsAsAsked
<1>1. ConnTypeOK /\ Connected
  BY DEF ConnInv
<1>2. /\ "image" \in Services /\ "runtime" \in Services
      /\ Place("runtime") = Asks("runtime")
  BY DEF Services, Place
<1>3. ASSUME NEW s \in Services, conn[s] # Nowhere, Given(s) # {}
      PROVE  conn[s] \in Given(s)
  BY <1>1, <1>3, GivenIsAsked DEF Connected, Reached, Place
<1>4. ASSUME Given("image") = {} PROVE Place("image") = Asks("runtime")
  BY <1>1, <1>2, <1>4, GivenIsAsked DEF Place
<1>5. ASSUME conn.image # Nowhere, Given("image") = {}, Given("runtime") # {}
      PROVE  conn.image \in Given("runtime")
  BY <1>1, <1>2, <1>4, <1>5, GivenIsAsked DEF Connected, Reached
<1> DEFINE serving == {n \in 1..Len(Defaults) : Defaults[n] \in up}
<1>6. ASSUME NEW s \in Services, conn[s] # Nowhere, ~Place(s).set, flips = 0
      PROVE  conn[s] = Defaults[Min(serving)]
  <2>1. PICK n \in 1..Len(Defaults) :
          conn[s] = Defaults[n] /\ Defaults[n] \in up /\ NoneOf(n - 1)
    BY <1>1, <1>6 DEF Connected, Reached
  <2>2. n \in serving /\ serving \in SUBSET Int
    BY <2>1
  <2>3. ASSUME NEW m \in serving PROVE n <= m
    <3>1. m \in Int /\ m >= 1 /\ n \in Int /\ Defaults[m] \in up
      OBVIOUS
    <3>2. m \notin 1..(n - 1)
      BY <2>1, <3>1 DEF NoneOf
    <3>3. QED
      BY <3>1, <3>2
  <2> HIDE DEF serving
  <2>4. Min(serving) = n
    BY <2>2, <2>3, MinIs
  <2>5. QED
    BY <2>1, <2>4
<1> HIDE DEF serving
<1>7. ASSUME conn.runtime # Nowhere, conn.image # Nowhere, Given("image") = {},
             conn.image # conn.runtime
      PROVE  Given("runtime") = {} /\ flips > 0
  <2>1. Place("image") = Asks("runtime")
    BY <1>4, <1>7
  <2>2. ~Asks("runtime").set
    BY <1>1, <1>2, <1>7, <2>1 DEF Connected, Reached
  <2>3. Given("runtime") = {}
    BY <1>1, <1>2, <2>2, GivenIsAsked
  <2>4. flips # 0
    BY <1>2, <1>6, <1>7, <2>1, <2>2
  <2>5. flips \in Nat
    BY <1>1, BoundsAssumption DEF ConnTypeOK
  <2>6. QED
    BY <2>3, <2>4, <2>5
<1>8. ASSUME flips = 0, \A s \in Services : command.flag[s] = Unset /\ command.file[s] = Nowhere
      PROVE  /\ \A s \in Services : conn[s] # Nowhere => conn[s] = Defaults[Min(serving)]
             /\ phase = "failed" => serving = {}
  <2>1. \A s \in Services : ~Asks(s).set /\ ~Place(s).set
    BY <1>2, <1>8 DEF Asks, Resolved, Place
  <2>2. phase = "failed" => serving = {}
    BY <1>1, <1>2, <1>8, <2>1 DEF Connected, NoneOf, serving
  <2>3. QED
    BY <1>6, <1>8, <2>1, <2>2
<1>9. QED
  BY <1>3, <1>5, <1>7, <1>8 DEF ConnectsAsAsked, serving

LEMMA ConnInvariant == Spec => []ConnInv
<1>1. Init => ConnInv
  BY ConnInit_ConnInv DEF Init
<1>2. ConnInv /\ [Next]_vars => ConnInv'
  BY ConnInductive
<1>3. QED
  BY <1>1, <1>2, PTL DEF Spec

(* A service is connected where the user asked, the image service at the     *)
(* runtime's place where he did not say, and else at the first default       *)
(* endpoint that serves, for any endpoints and any order of the services.    *)
THEOREM Connections == Spec => []ConnectsAsAsked
<1>1. ConnInv => ConnectsAsAsked
  BY ConnInvImplies
<1>2. QED
  BY <1>1, ConnInvariant, PTL

(* connectWithRetry gives up after as many retries as were asked for, and    *)
(* after as much time, whatever the number.                                  *)
THEOREM Patient == Spec => []PatienceAsAsked
<1>1. ConnInv => PatienceAsAsked
  BY DEF ConnInv, Waiting, PatienceAsAsked
<1>2. QED
  BY <1>1, ConnInvariant, PTL

-----------------------------------------------------------------------------
(* The commands that watch.                                                  *)

(* In a later sample an object has lived on, or has used what it did.        *)
Later(f, g) ==
  \A o \in DOMAIN f \cap DOMAIN g :
    /\ f[o].life <= g[o].life
    /\ f[o].life = g[o].life =>
         f[o].cpu <= g[o].cpu /\ g[o].cpu - f[o].cpu = g[o].total - f[o].total

(* The counters have not wrapped around, and the samples in hand are those   *)
(* of this round.                                                            *)
Measured ==
  /\ \A o \in DOMAIN stats : stats[o].cpu <= clock
  /\ Later(began, stats) /\ DOMAIN began \subseteq DOMAIN stats \cup gone
  /\ worker \in {"sleep", "second", "rows"} => old = began
  /\ worker = "rows" => Later(began, new)

Truthful(R) == \A r \in R : ~r.restarted => r.used = r.really

Works ==
  /\ command.kind = "events" => worker \in {"off", "select", "done"}
  /\ main = "off" => worker = "off" /\ errCh = "empty" /\ result = "none"

(* A round that begins after the end has no call that succeeds.              *)
Lateness ==
  /\ late \in {0, 1}
  /\ late = 1 => /\ main = "returned"
                 /\ worker \in {"idle", "failed", "done"} \/ (worker = "first" /\ ~asked)
  /\ Displays /\ ~command.watch /\ main = "returned" => worker = "done"

(* Every event received is printed or in hand, and the end finds none there. *)
Streamed ==
  /\ received <= issued /\ hand \in {0, received}
  /\ Len(printed) = IF hand = 0 THEN received ELSE received - 1
  /\ \A n \in 1..Len(printed) : printed[n] = n
  /\ stub = "eof" => hand = 0 /\ received = issued
  /\ command.kind = "events" /\ "nil" \in {errCh, result} => stub = "eof"

-----------------------------------------------------------------------------
(* Which steps touch what.                                                   *)
LEMMA RuntimeFrame ==
  ASSUME [Next]_vars
  PROVE  \/ Objectively /\ UNCHANGED <<connVars, world, sig, mainVars, errCh, display, events>>
         \/ UNCHANGED runtime
<1>1. CASE Signal \/ Exit \/ Connection \/ World \/ StartDisplay \/ Tick \/ DisplayStops
           \/ StartEvents \/ Emit \/ EventsEnd \/ UNCHANGED vars
  BY <1>1 DEF Signal, Exit, Connection, World, StartDisplay, Tick, DisplayStops,
              StartEvents, Emit, EventsEnd, vars, watchVars
<1>2. CASE Displaying
  BY <1>2 DEF Displaying, NextRound, First, Wake, Second, CallFails, MakeRows, Flush, Fail
<1>3. CASE Eventing
  BY <1>3 DEF Eventing, Receive, StreamEnds, Break, Produce, PrintEvent, InstallHandler
<1>4. CASE Objectively
  BY <1>4 DEF Objectively, Appear, Use, Restart, Halt, Vanish, Happens
<1>5. QED
  BY <1>1, <1>2, <1>3, <1>4 DEF Next

LEMMA DisplayFrame ==
  ASSUME [Next]_vars
  PROVE  StartDisplay \/ Tick \/ Displaying \/ StartEvents \/ Produce \/ UNCHANGED display
<1>1. CASE Signal \/ Exit \/ Connection \/ World \/ DisplayStops \/ Emit \/ EventsEnd
           \/ UNCHANGED vars
  BY <1>1 DEF Signal, Exit, Connection, World, DisplayStops, Emit, EventsEnd, vars, watchVars
<1>2. CASE Eventing
  BY <1>2 DEF Eventing, Receive, StreamEnds, Break, PrintEvent, InstallHandler
<1>3. CASE Objectively
  BY <1>3 DEF Objectively, Appear, Use, Restart, Halt, Vanish, Happens
<1>4. QED
  BY <1>1, <1>2, <1>3 DEF Next

LEMMA EventsFrame ==
  ASSUME [Next]_vars
  PROVE  \/ StartEvents \/ Emit \/ Receive \/ StreamEnds \/ Break \/ PrintEvent
         \/ UNCHANGED events
<1>1. CASE Signal \/ Exit \/ Connection \/ World \/ StartDisplay \/ Tick \/ DisplayStops
           \/ EventsEnd \/ UNCHANGED vars
  BY <1>1 DEF Signal, Exit, Connection, World, StartDisplay, Tick, DisplayStops, EventsEnd, vars,
              watchVars
<1>2. CASE Displaying
  BY <1>2 DEF Displaying, NextRound, First, Wake, Second, CallFails, MakeRows, Flush, Fail
<1>3. CASE Eventing
  BY <1>3 DEF Eventing, Produce, InstallHandler
<1>4. CASE Objectively
  BY <1>4 DEF Objectively, Appear, Use, Restart, Halt, Vanish, Happens
<1>5. QED
  BY <1>1, <1>2, <1>3, <1>4 DEF Next

LEMMA MainFrame ==
  ASSUME [Next]_vars
  PROVE  \/ StartDisplay \/ Flush \/ Fail \/ DisplayStops \/ StartEvents \/ Produce \/ EventsEnd
         \/ UNCHANGED <<mainVars, errCh>>
<1>1. CASE Signal \/ Exit \/ Connection \/ World \/ Tick \/ Emit \/ UNCHANGED vars
  BY <1>1 DEF Signal, Exit, Connection, World, Tick, Emit, vars, watchVars
<1>2. CASE Displaying
  BY <1>2 DEF Displaying, NextRound, First, Wake, Second, CallFails, MakeRows
<1>3. CASE Eventing
  BY <1>3 DEF Eventing, Receive, StreamEnds, Break, PrintEvent, InstallHandler
<1>4. CASE Objectively
  BY <1>4 DEF Objectively, Appear, Use, Restart, Halt, Vanish, Happens
<1>5. QED
  BY <1>1, <1>2, <1>3, <1>4 DEF Next

LEMMA SignalFrame ==
  ASSUME [Next]_vars
  PROVE  Signal \/ Exit \/ StartDisplay \/ InstallHandler \/ UNCHANGED sig
<1>1. CASE Connection \/ World \/ Tick \/ DisplayStops \/ StartEvents \/ Emit \/ EventsEnd
           \/ UNCHANGED vars
  BY <1>1 DEF Connection, World, Tick, DisplayStops, StartEvents, Emit, EventsEnd, vars, watchVars
<1>2. CASE Displaying
  BY <1>2 DEF Displaying, NextRound, First, Wake, Second, CallFails, MakeRows, Flush, Fail
<1>3. CASE Eventing
  BY <1>3 DEF Eventing, Receive, StreamEnds, Break, Produce, PrintEvent
<1>4. CASE Objectively
  BY <1>4 DEF Objectively, Appear, Use, Restart, Halt, Vanish, Happens
<1>5. QED
  BY <1>1, <1>2, <1>3, <1>4 DEF Next

-----------------------------------------------------------------------------
(* What happens to the objects.                                              *)
Counted == \A o \in DOMAIN stats : stats[o].cpu <= clock
Followed == Later(began, stats) /\ DOMAIN began \subseteq DOMAIN stats \cup gone

LEMMA SampleFields ==
  ASSUME NEW f, IsSample(f), NEW o \in DOMAIN f
  PROVE  f[o] \in Sample /\ o \in Objects
BY DEF IsSample

(* One object goes on: its counter by at most one, from its last life or in  *)
(* a new one.                                                                *)
LEMMA HappensStep ==
  ASSUME DisplayTypeOK, Counted, Followed, NEW o \in Objects, NEW s \in Sample, Happens(o, s),
         s.cpu <= clock + 1,
         o \in DOMAIN began =>
           /\ began[o].life <= s.life
           /\ began[o].life = s.life =>
                began[o].cpu <= s.cpu /\ s.cpu - began[o].cpu = s.total - began[o].total
  PROVE  DisplayTypeOK' /\ Counted' /\ Followed'
<1>1. /\ clock < MaxClock /\ clock' = clock + 1
      /\ stats' = [x \in DOMAIN stats \cup {o} |-> IF x = o THEN s ELSE stats[x]]
      /\ UNCHANGED <<worker, tick, asked, old, new, began, rows, screen, late, gone>>
  BY DEF Happens, display
<1>2. /\ IsSample(stats) /\ clock \in 0..MaxClock /\ MaxClock \in Nat
      /\ DOMAIN stats \subseteq Objects
  BY WidthAssumption DEF DisplayTypeOK, IsSample
<1>3. /\ DOMAIN stats' = DOMAIN stats \cup {o}
      /\ \A x \in DOMAIN stats' : stats'[x] = IF x = o THEN s ELSE stats[x]
  BY <1>1
<1>4. IsSample(stats)'
  <2>1. \A x \in DOMAIN stats' : stats'[x] \in Sample
    BY <1>2, <1>3, SampleFields
  <2>2. stats' = [x \in DOMAIN stats' |-> stats'[x]]
    BY <1>1, <1>3
  <2>3. QED
    BY <1>2, <1>3, <2>1, <2>2 DEF IsSample
<1>5. DisplayTypeOK'
  <2>1. IsSample(old)' /\ IsSample(new)' /\ IsSample(began)'
    BY <1>1 DEF DisplayTypeOK, IsSample
  <2>2. clock' \in 0..MaxClock
    BY <1>1, <1>2
  <2>3. QED
    BY <1>1, <1>4, <2>1, <2>2 DEF DisplayTypeOK
<1>6. Counted'
  <2>1. ASSUME NEW x \in DOMAIN stats' PROVE stats'[x].cpu <= clock'
    <3>1. CASE x = o
      BY <1>1, <1>3, <3>1
    <3>2. CASE x # o
      <4>1. stats'[x] = stats[x] /\ x \in DOMAIN stats /\ stats[x] \in Sample
        BY <1>2, <1>3, <3>2, SampleFields
      <4>2. stats[x].cpu <= clock /\ stats[x].cpu \in Int
        BY <4>1, WidthAssumption DEF Counted, Sample
      <4>3. QED
        BY <1>1, <1>2, <4>1, <4>2
    <3>3. QED
      BY <3>1, <3>2
  <2>2. QED
    BY <2>1 DEF Counted
<1>7. Followed'
  <2>1. ASSUME NEW x \in DOMAIN began, x \in DOMAIN stats'
        PROVE  /\ began[x].life <= stats'[x].life
               /\ began[x].life = stats'[x].life =>
                    /\ began[x].cpu <= stats'[x].cpu
                    /\ stats'[x].cpu - began[x].cpu = stats'[x].total - began[x].total
    <3>1. CASE x = o
      BY <1>3, <2>1, <3>1
    <3>2. CASE x # o
      BY <1>3, <2>1, <3>2 DEF Followed, Later
    <3>3. QED
      BY <3>1, <3>2
  <2>2. Later(began, stats)'
    BY <1>1, <2>1 DEF Later
  <2>3. QED
    BY <1>1, <1>3, <2>2 DEF Followed
<1>8. QED
  BY <1>5, <1>6, <1>7

LEMMA VanishStep ==
  ASSUME DisplayTypeOK, Counted, Followed, NEW o \in Objects, Vanish(o)
  PROVE  DisplayTypeOK' /\ Counted' /\ Followed'
<1>1. /\ stats' = [x \in DOMAIN stats \ {o} |-> stats[x]]
      /\ o \in DOMAIN stats /\ gone' = gone \cup {o}
      /\ UNCHANGED <<worker, tick, asked, old, new, began, rows, screen, late, clock>>
  BY DEF Vanish, display
<1>2. IsSample(stats)
  BY DEF DisplayTypeOK
<1>3. IsSample(stats)'
  <2>1. \A x \in DOMAIN stats' : stats'[x] \in Sample
    BY <1>1, <1>2, SampleFields
  <2>2. QED
    BY <1>1, <1>2, <2>1 DEF IsSample
<1>4. DisplayTypeOK'
  <2>1. IsSample(old)' /\ IsSample(new)' /\ IsSample(began)'
    BY <1>1 DEF DisplayTypeOK, IsSample
  <2>2. QED
    BY <1>1, <1>3, <2>1 DEF DisplayTypeOK
<1>5. Counted'
  BY <1>1 DEF Counted
<1>6. Followed'
  BY <1>1 DEF Followed, Later
<1>7. QED
  BY <1>4, <1>5, <1>6

(* The samples an object goes on to.                                         *)
LEMMA NextSample ==
  ASSUME NEW r \in Sample, NEW t \in Nat, Width \in Nat, Width > 1
  PROVE  /\ LET s == [r EXCEPT !.cpu = (@ + 1) % Width, !.stamp = t, !.total = @ + 1]
            IN  /\ s \in Sample /\ s.cpu = (r.cpu + 1) % Width
                /\ s.total = r.total + 1 /\ s.life = r.life
         /\ LET s == [r EXCEPT !.cpu = 1, !.memory = 1, !.stamp = t, !.total = @ + 1, !.life = @ + 1]
            IN  s \in Sample /\ s.cpu = 1 /\ s.life = r.life + 1
         /\ LET s == [r EXCEPT !.cpu = 0, !.memory = 0, !.stamp = t, !.life = @ + 1]
            IN  s \in Sample /\ s.cpu = 0 /\ s.life = r.life + 1
<1>1. /\ r.cpu \in 0..(Width - 1) /\ r.memory \in 0..1
      /\ r.stamp \in Nat /\ r.total \in Nat /\ r.life \in Nat
  BY DEF Sample
<1>2. (r.cpu + 1) % Width \in 0..(Width - 1)
  BY <1>1
<1>3. /\ 0 \in 0..(Width - 1) /\ 1 \in 0..(Width - 1) /\ 0 \in 0..1 /\ 1 \in 0..1
      /\ r.total + 1 \in Nat /\ r.life + 1 \in Nat
  BY <1>1
<1>4. \A c \in 0..(Width - 1), m \in 0..1, u \in Nat, l \in Nat :
        [r EXCEPT !.cpu = c, !.memory = m, !.stamp = t, !.total = u, !.life = l] \in Sample
  BY DEF Sample
<1>5. \A c \in 0..(Width - 1), m \in 0..1, l \in Nat :
        [r EXCEPT !.cpu = c, !.memory = m, !.stamp = t, !.life = l] \in Sample
  BY DEF Sample
<1>6. \A c \in 0..(Width - 1), u \in Nat :
        [r EXCEPT !.cpu = c, !.stamp = t, !.total = u] \in Sample
  BY DEF Sample
<1>7. [r EXCEPT !.cpu = (@ + 1) % Width, !.stamp = t, !.total = @ + 1]
        = [r EXCEPT !.cpu = (r.cpu + 1) % Width, !.stamp = t, !.total = r.total + 1]
  BY DEF Sample
<1>8. [r EXCEPT !.cpu = 1, !.memory = 1, !.stamp = t, !.total = @ + 1, !.life = @ + 1]
        = [r EXCEPT !.cpu = 1, !.memory = 1, !.stamp = t, !.total = r.total + 1,
                    !.life = r.life + 1]
  BY DEF Sample
<1>9. [r EXCEPT !.cpu = 0, !.memory = 0, !.stamp = t, !.life = @ + 1]
        = [r EXCEPT !.cpu = 0, !.memory = 0, !.stamp = t, !.life = r.life + 1]
  BY DEF Sample
<1>10. /\ LET s == [r EXCEPT !.cpu = (@ + 1) % Width, !.stamp = t, !.total = @ + 1]
         IN  s \in Sample /\ s.cpu = (r.cpu + 1) % Width /\ s.total = r.total + 1 /\ s.life = r.life
  <2>1. [r EXCEPT !.cpu = (r.cpu + 1) % Width, !.stamp = t, !.total = r.total + 1] \in Sample
    BY <1>2, <1>3, <1>6
  <2>2. QED
    BY <1>7, <2>1 DEF Sample
<1>11. /\ LET s == [r EXCEPT !.cpu = 1, !.memory = 1, !.stamp = t, !.total = @ + 1, !.life = @ + 1]
         IN  s \in Sample /\ s.cpu = 1 /\ s.life = r.life + 1
  <2>1. [r EXCEPT !.cpu = 1, !.memory = 1, !.stamp = t, !.total = r.total + 1,
                  !.life = r.life + 1] \in Sample
    BY <1>3, <1>4
  <2>2. QED
    BY <1>8, <2>1 DEF Sample
<1>12. /\ LET s == [r EXCEPT !.cpu = 0, !.memory = 0, !.stamp = t, !.life = @ + 1]
         IN  s \in Sample /\ s.cpu = 0 /\ s.life = r.life + 1
  <2>1. [r EXCEPT !.cpu = 0, !.memory = 0, !.stamp = t, !.life = r.life + 1] \in Sample
    BY <1>3, <1>5
  <2>2. QED
    BY <1>9, <2>1 DEF Sample
<1>13. QED
  BY <1>10, <1>11, <1>12

LEMMA ObjectsStep ==
  ASSUME DisplayTypeOK, Counted, Followed, Objectively
  PROVE  DisplayTypeOK' /\ Counted' /\ Followed'
<1>1. PICK o \in Objects : Appear(o) \/ Use(o) \/ Restart(o) \/ Halt(o) \/ Vanish(o)
  BY DEF Objectively
<1>2. /\ clock \in 0..MaxClock /\ MaxClock \in Nat /\ Width \in Nat /\ MaxClock < Width
      /\ IsSample(stats) /\ IsSample(began)
  BY WidthAssumption DEF DisplayTypeOK
<1>3. CASE Appear(o)
  <2> DEFINE s == [cpu |-> 1, memory |-> 1, stamp |-> clock + 1, total |-> 1, life |-> 0]
  <2>1. Happens(o, s) /\ o \notin DOMAIN began /\ clock < MaxClock
    BY <1>3 DEF Appear, Followed, Happens
  <2>2. s \in Sample /\ s.cpu <= clock + 1
    BY <1>2, <2>1 DEF Sample
  <2> HIDE DEF s
  <2>3. QED
    BY <2>1, <2>2, HappensStep
<1>4. ASSUME o \in DOMAIN stats
      PROVE  /\ stats[o] \in Sample /\ stats[o].cpu <= clock
             /\ {stats[o].stamp, stats[o].total, stats[o].life} \subseteq Nat
             /\ stats[o].cpu \in 0..(Width - 1)
             /\ o \in DOMAIN began =>
                  /\ {began[o].cpu, began[o].total, began[o].life} \subseteq Nat
                  /\ began[o].life <= stats[o].life
                  /\ began[o].life = stats[o].life =>
                       /\ began[o].cpu <= stats[o].cpu
                       /\ stats[o].cpu - began[o].cpu = stats[o].total - began[o].total
  BY <1>2, <1>4, SampleFields DEF Counted, Followed, Later, Sample
<1>5. ASSUME clock < MaxClock PROVE Width > 1 /\ clock + 1 \in Nat
  BY <1>2, <1>5
<1>6. CASE Use(o)
  <2> DEFINE s == [stats[o] EXCEPT !.cpu = (@ + 1) % Width, !.stamp = clock + 1, !.total = @ + 1]
  <2>1. Happens(o, s) /\ o \in DOMAIN stats /\ clock < MaxClock
    BY <1>6 DEF Use, Happens
  <2>2. (stats[o].cpu + 1) % Width = stats[o].cpu + 1
    BY <1>2, <1>4, <2>1
  <2>3. /\ s \in Sample /\ s.cpu = stats[o].cpu + 1 /\ s.total = stats[o].total + 1
        /\ s.life = stats[o].life
    BY <1>2, <1>4, <1>5, <2>1, <2>2, NextSample
  <2> HIDE DEF s
  <2>4. s.cpu <= clock + 1
    BY <1>2, <1>4, <2>1, <2>3
  <2>5. ASSUME o \in DOMAIN began
        PROVE  /\ began[o].life <= s.life
               /\ began[o].life = s.life =>
                    began[o].cpu <= s.cpu /\ s.cpu - began[o].cpu = s.total - began[o].total
    BY <1>2, <1>4, <2>1, <2>3, <2>5
  <2>6. QED
    BY <2>1, <2>3, <2>4, <2>5, HappensStep
<1>7. CASE Restart(o)
  <2> DEFINE s == [stats[o] EXCEPT !.cpu = 1, !.memory = 1, !.stamp = clock + 1,
                                   !.total = @ + 1, !.life = @ + 1]
  <2>1. Happens(o, s) /\ o \in DOMAIN stats /\ clock < MaxClock
    BY <1>7 DEF Restart, Happens
  <2>2. s \in Sample /\ s.cpu = 1 /\ s.life = stats[o].life + 1
    BY <1>2, <1>4, <1>5, <2>1, NextSample
  <2> HIDE DEF s
  <2>3. QED
    BY <1>2, <1>4, <2>1, <2>2, HappensStep
<1>8. CASE Halt(o)
  <2> DEFINE s == [stats[o] EXCEPT !.cpu = 0, !.memory = 0, !.stamp = clock + 1, !.life = @ + 1]
  <2>1. Happens(o, s) /\ o \in DOMAIN stats /\ clock < MaxClock
    BY <1>8 DEF Halt, Happens
  <2>2. s \in Sample /\ s.cpu = 0 /\ s.life = stats[o].life + 1
    BY <1>2, <1>4, <1>5, <2>1, NextSample
  <2> HIDE DEF s
  <2>3. QED
    BY <1>2, <1>4, <2>1, <2>2, HappensStep
<1>9. CASE Vanish(o)
  BY <1>9, VanishStep
<1>10. QED
  BY <1>1, <1>3, <1>6, <1>7, <1>8, <1>9

-----------------------------------------------------------------------------
(* The difference of two samples of one life is what was used between them.  *)
LEMMA RowsAreTrue ==
  ASSUME DisplayTypeOK, Measured, worker = "rows", NEW o \in Shown
  PROVE  /\ RowOf(o) \in [object : Objects, used : 0..(Width - 1), really : Int,
                          restarted : BOOLEAN]
         /\ ~RowOf(o).restarted => RowOf(o).used = RowOf(o).really
<1>1. /\ IsSample(new) /\ IsSample(began) /\ old = began /\ Later(began, new)
      /\ o \in DOMAIN new /\ o \in DOMAIN began
      /\ Width \in Nat /\ Width > 0
  BY WidthAssumption DEF DisplayTypeOK, Measured, Shown
<1>2. new[o] \in Sample /\ began[o] \in Sample /\ o \in Objects
  BY <1>1, SampleFields
<1>3. /\ new[o].cpu \in 0..(Width - 1) /\ new[o].total \in Int
      /\ began[o].cpu \in 0..(Width - 1) /\ began[o].total \in Int
  BY <1>2 DEF Sample
<1>4. Used(o) = IF new[o].cpu = 0 THEN 0 ELSE (new[o].cpu + Width - began[o].cpu) % Width
  BY <1>1 DEF Used
<1>5. Used(o) \in 0..(Width - 1)
  BY <1>1, <1>3, <1>4
<1>6. ASSUME new[o].life = began[o].life
      PROVE  Used(o) = new[o].total - began[o].total
  <2>1. /\ began[o].cpu <= new[o].cpu
        /\ new[o].cpu - began[o].cpu = new[o].total - began[o].total
    BY <1>1, <1>6 DEF Later
  <2>2. CASE new[o].cpu = 0
    BY <1>3, <1>4, <2>1, <2>2
  <2>3. CASE new[o].cpu # 0
    <3>1. PICK d \in 0..(Width - 1) : d = new[o].cpu - began[o].cpu
      BY <1>1, <1>3, <2>1
    <3>2. new[o].cpu + Width - began[o].cpu = d + Width
      BY <1>1, <1>3, <3>1
    <3>3. (d + Width) % Width = d
      BY <1>1
    <3>4. QED
      BY <1>4, <2>1, <2>3, <3>1, <3>2, <3>3
  <2>4. QED
    BY <2>2, <2>3
<1>7. RowOf(o) \in [object : Objects, used : 0..(Width - 1), really : Int, restarted : BOOLEAN]
  <2>1. /\ new[o].total - began[o].total \in Int
        /\ (new[o].life # began[o].life) \in BOOLEAN
    BY <1>3
  <2>2. QED
    BY <1>2, <1>5, <2>1 DEF RowOf
<1>8. /\ RowOf(o).restarted = (new[o].life # began[o].life)
      /\ RowOf(o).used = Used(o) /\ RowOf(o).really = new[o].total - began[o].total
  BY DEF RowOf
<1>9. QED
  BY <1>6, <1>7, <1>8

(* The types of what a command shows, and the meaning of its samples.        *)
Shows == DisplayTypeOK /\ Measured /\ Truthful(rows) /\ Truthful(screen)

LEMMA LaterRefl ==
  ASSUME NEW f, IsSample(f) PROVE Later(f, f)
<1>1. \A o \in DOMAIN f : f[o].life \in Nat /\ f[o].cpu \in Int /\ f[o].total \in Int
  BY WidthAssumption, SampleFields DEF Sample
<1>2. QED
  BY <1>1 DEF Later

LEMMA DisplayingStep ==
  ASSUME Shows, Displaying PROVE Shows'
<1>1. DisplayTypeOK /\ Measured /\ Truthful(rows) /\ Truthful(screen)
  BY DEF Shows
<1>2. UNCHANGED <<stats, gone, clock>>
  BY DEF Displaying, NextRound, First, Wake, Second, CallFails, MakeRows, Flush, Fail, runtime
<1>3. CASE NextRound
  <2>1. /\ worker' = "first" /\ tick' \in BOOLEAN /\ asked' \in BOOLEAN
        /\ UNCHANGED <<old, new, began, rows, screen, late>>
    BY <1>3 DEF NextRound
  <2>2. QED
    BY <1>1, <1>2, <2>1 DEF Shows, DisplayTypeOK, IsSample, Measured, Truthful, Later
<1>4. CASE First
  <2>1. /\ worker' \in {"flush", "failed", "sleep"} /\ old' = stats /\ began' = stats
        /\ UNCHANGED <<tick, asked, new, rows, screen, late>>
    BY <1>4 DEF First
  <2>2. Later(began, stats)' /\ IsSample(stats)
    BY <1>1, <1>2, <2>1, LaterRefl DEF DisplayTypeOK, Later
  <2>3. Measured'
    BY <1>1, <1>2, <2>1, <2>2 DEF Measured
  <2>4. DisplayTypeOK'
    BY <1>1, <1>2, <2>1, <2>2 DEF DisplayTypeOK, IsSample
  <2>5. QED
    BY <1>1, <2>1, <2>3, <2>4 DEF Shows, Truthful
<1>5. CASE Wake
  <2>1. /\ worker = "sleep" /\ worker' = "second" /\ asked' \in BOOLEAN
        /\ UNCHANGED <<tick, old, new, began, rows, screen, late>>
    BY <1>5 DEF Wake
  <2>2. QED
    BY <1>1, <1>2, <2>1 DEF Shows, DisplayTypeOK, IsSample, Measured, Truthful, Later
<1>6. CASE Second
  <2>1. /\ worker = "second" /\ worker' = "rows" /\ new' = stats
        /\ UNCHANGED <<tick, asked, old, began, rows, screen, late>>
    BY <1>6 DEF Second
  <2>2. Measured'
    BY <1>1, <1>2, <2>1 DEF Measured, Later
  <2>3. DisplayTypeOK'
    BY <1>1, <1>2, <2>1 DEF DisplayTypeOK, IsSample
  <2>4. QED
    BY <1>1, <2>1, <2>2, <2>3 DEF Shows, Truthful
<1>7. CASE CallFails
  <2>1. /\ worker' = "failed" /\ UNCHANGED <<tick, asked, old, new, began, rows, screen, late>>
    BY <1>7 DEF CallFails
  <2>2. QED
    BY <1>1, <1>2, <2>1 DEF Shows, DisplayTypeOK, IsSample, Measured, Truthful, Later
<1>8. CASE MakeRows
  <2>1. /\ worker = "rows" /\ worker' \in {"failed", "flush"} /\ new' = NoSample
        /\ rows' = rows \/ rows' = {RowOf(o) : o \in Shown}
        /\ UNCHANGED <<tick, asked, old, began, screen, late>>
    BY <1>8 DEF MakeRows
  <2>2. IsSample(NoSample)
    BY DEF IsSample, NoSample
  <2>3. \A o \in Shown :
          /\ RowOf(o) \in [object : Objects, used : 0..(Width - 1), really : Int,
                           restarted : BOOLEAN]
          /\ ~RowOf(o).restarted => RowOf(o).used = RowOf(o).really
    BY <1>1, <2>1, RowsAreTrue
  <2>4. Truthful(rows)'
    BY <1>1, <2>1, <2>3 DEF Truthful
  <2>5. rows' \subseteq [object : Objects, used : 0..(Width - 1), really : Int,
                         restarted : BOOLEAN]
    BY <1>1, <2>1, <2>3 DEF DisplayTypeOK
  <2>6. DisplayTypeOK'
    BY <1>1, <1>2, <2>1, <2>2, <2>5 DEF DisplayTypeOK, IsSample
  <2>7. Measured'
    BY <1>1, <1>2, <2>1 DEF Measured, Later
  <2>8. QED
    BY <1>1, <2>1, <2>4, <2>6, <2>7 DEF Shows, Truthful
<1>9. CASE Flush
  <2>1. /\ worker' \in {"idle", "done"} /\ screen' = rows /\ rows' = {}
        /\ late' \in {late, late + 1} /\ UNCHANGED <<tick, asked, old, new, began>>
    BY <1>9 DEF Flush
  <2>2. late' \in Nat
    BY <1>1, <2>1 DEF DisplayTypeOK
  <2>3. DisplayTypeOK'
    BY <1>1, <1>2, <2>1, <2>2 DEF DisplayTypeOK, IsSample
  <2>4. Measured'
    BY <1>1, <1>2, <2>1 DEF Measured, Later
  <2>5. QED
    BY <1>1, <2>1, <2>3, <2>4 DEF Shows, Truthful
<1>10. CASE Fail
  <2>1. /\ worker' = "done" /\ UNCHANGED <<tick, asked, old, new, began, rows, screen, late>>
    BY <1>10 DEF Fail
  <2>2. QED
    BY <1>1, <1>2, <2>1 DEF Shows, DisplayTypeOK, IsSample, Measured, Truthful, Later
<1>11. QED
  BY <1>3, <1>4, <1>5, <1>6, <1>7, <1>8, <1>9, <1>10 DEF Displaying

LEMMA ShowsStep ==
  ASSUME Shows, [Next]_vars PROVE Shows'
<1>1. DisplayTypeOK /\ Measured /\ Truthful(rows) /\ Truthful(screen)
  BY DEF Shows
<1>2. CASE Displaying
  BY <1>2, DisplayingStep
<1>3. CASE Objectively /\ UNCHANGED display
  <2>1. DisplayTypeOK' /\ Counted' /\ Followed'
    BY <1>1, <1>3, ObjectsStep DEF Measured, Counted, Followed
  <2>2. UNCHANGED <<worker, old, new, began, rows, screen>>
    BY <1>3 DEF display
  <2>3. Measured'
    BY <1>1, <2>1, <2>2 DEF Measured, Counted, Followed, Later
  <2>4. QED
    BY <1>1, <2>1, <2>2, <2>3 DEF Shows, Truthful
<1>4. CASE (StartDisplay \/ Tick \/ StartEvents \/ Produce \/ UNCHANGED display) /\ UNCHANGED runtime
  <2>1. /\ worker' \in {worker, "idle", "first", "select", "done"}
        /\ tick' \in {tick, TRUE} /\ asked' \in {asked, TRUE}
        /\ UNCHANGED <<old, new, began, rows, screen, late, stats, gone, clock>>
    BY <1>4 DEF StartDisplay, Tick, StartEvents, Produce, display, runtime
  <2>2. QED
    BY <1>1, <2>1 DEF Shows, DisplayTypeOK, IsSample, Measured, Truthful, Later
<1>5. QED
  BY <1>2, <1>3, <1>4, DisplayFrame, RuntimeFrame

-----------------------------------------------------------------------------
(* The command, its goroutine and the stream of events.                      *)
Ends == MainTypeOK /\ EventsTypeOK /\ Works /\ Lateness /\ Streamed

LEMMA MainTypeStep ==
  ASSUME MainTypeOK, [Next]_vars PROVE MainTypeOK'
<1>1. /\ proc' \in {"running", "exited", "killed"} /\ handler' \in BOOLEAN /\ stop' \in BOOLEAN
  <2>1. CASE Signal
    BY <2>1 DEF Signal, MainTypeOK
  <2>2. CASE Exit \/ StartDisplay \/ InstallHandler \/ UNCHANGED sig
    BY <2>2 DEF Exit, StartDisplay, InstallHandler, sig, MainTypeOK
  <2>3. QED
    BY <2>1, <2>2, SignalFrame
<1>2. /\ main' \in {"off", "select", "returned"} /\ result' \in {"none", "nil", "error"}
      /\ errCh' \in {"empty", "nil", "error"}
  <2>1. CASE StartDisplay \/ StartEvents \/ UNCHANGED <<mainVars, errCh>>
    BY <2>1 DEF StartDisplay, StartEvents, mainVars, MainTypeOK
  <2>2. CASE Flush \/ Fail
    BY <2>2 DEF Flush, Fail, mainVars, MainTypeOK
  <2>3. CASE DisplayStops \/ Produce \/ EventsEnd
    BY <2>3 DEF DisplayStops, Produce, EventsEnd, mainVars, MainTypeOK
  <2>4. QED
    BY <2>1, <2>2, <2>3, MainFrame
<1>3. QED
  BY <1>1, <1>2 DEF MainTypeOK

(* What one event more does to those printed.                                *)
LEMMA OneMore ==
  ASSUME NEW s \in Seq(1..MaxEvents), NEW n \in 1..MaxEvents, Len(s) = n - 1,
         \A m \in 1..Len(s) : s[m] = m
  PROVE  /\ Append(s, n) \in Seq(1..MaxEvents) /\ Len(Append(s, n)) = n
         /\ \A m \in 1..n : Append(s, n)[m] = m
<1>1. /\ Append(s, n) \in Seq(1..MaxEvents) /\ Len(Append(s, n)) = Len(s) + 1
      /\ \A m \in 1..Len(s) : Append(s, n)[m] = s[m]
      /\ Append(s, n)[Len(s) + 1] = n
  BY AppendProperties
<1>2. QED
  BY <1>1

LEMMA EventsStep ==
  ASSUME MainTypeOK, EventsTypeOK, Works, Streamed, [Next]_vars PROVE EventsTypeOK' /\ Streamed'
<1> DEFINE
      Counts == /\ received <= issued /\ hand \in {0, received}
                /\ Len(printed) = IF hand = 0 THEN received ELSE received - 1
                /\ \A n \in 1..Len(printed) : printed[n] = n
                /\ stub = "eof" => hand = 0 /\ received = issued
<1>1. EventsTypeOK' /\ Counts' /\ (stub = "eof" => stub' = "eof" \/ StartEvents)
  <2>1. /\ stream \in {"open", "closed"} /\ stub \in {"off", "loop", "eof", "broken"}
        /\ issued \in 0..MaxEvents /\ received \in 0..MaxEvents /\ hand \in 0..MaxEvents
        /\ printed \in Seq(1..MaxEvents) /\ MaxEvents \in Nat /\ Counts
    BY WidthAssumption DEF EventsTypeOK, Streamed
  <2>2. CASE StartEvents
    <3>1. stub' = "loop" /\ UNCHANGED <<stream, issued, received, hand, printed>>
      BY <2>2 DEF StartEvents
    <3>2. QED
      BY <2>1, <2>2, <3>1 DEF EventsTypeOK
  <2>3. CASE Emit
    <3>1. /\ stub = "loop" /\ stream' \in {stream, "closed"}
          /\ issued' \in {issued, issued + 1} /\ issued' \in 0..MaxEvents
          /\ UNCHANGED <<received, hand, stub, printed>>
      BY <2>1, <2>3 DEF Emit
    <3>2. QED
      BY <2>1, <3>1 DEF EventsTypeOK
  <2>4. CASE Receive
    <3>1. /\ stub = "loop" /\ hand = 0 /\ received < issued /\ received' = received + 1
          /\ hand' = received' /\ UNCHANGED <<stream, issued, stub, printed>>
      BY <2>4 DEF Receive
    <3>2. received' \in 1..MaxEvents /\ received' <= issued /\ Len(printed) = received' - 1
      BY <2>1, <3>1
    <3>3. EventsTypeOK'
      BY <2>1, <3>1, <3>2 DEF EventsTypeOK
    <3>4. Counts'
      BY <2>1, <3>1, <3>2
    <3>5. QED
      BY <3>1, <3>3, <3>4
  <2>5. CASE StreamEnds
    <3>1. /\ stub' = "eof" /\ hand = 0 /\ received = issued
          /\ UNCHANGED <<stream, issued, received, hand, printed>>
      BY <2>5 DEF StreamEnds
    <3>2. QED
      BY <2>1, <3>1 DEF EventsTypeOK
  <2>6. CASE Break
    <3>1. /\ stub = "loop" /\ stub' = "broken"
          /\ UNCHANGED <<stream, issued, received, hand, printed>>
      BY <2>6 DEF Break
    <3>2. QED
      BY <2>1, <3>1 DEF EventsTypeOK
  <2>7. CASE PrintEvent
    <3>1. /\ hand # 0 /\ printed' = Append(printed, hand) /\ hand' = 0
          /\ UNCHANGED <<stream, issued, received, stub>>
      BY <2>7 DEF PrintEvent
    <3>2. hand = received /\ received \in 1..MaxEvents /\ Len(printed) = received - 1
      BY <2>1, <3>1
    <3>3. /\ printed' \in Seq(1..MaxEvents) /\ Len(printed') = received
          /\ \A m \in 1..received : printed'[m] = m
      BY <2>1, <3>1, <3>2, OneMore
    <3>4. EventsTypeOK'
      BY <2>1, <3>1, <3>3 DEF EventsTypeOK
    <3>5. Counts'
      BY <2>1, <3>1, <3>2, <3>3
    <3>6. QED
      BY <3>1, <3>4, <3>5
  <2>8. CASE UNCHANGED events
    <3>1. UNCHANGED <<stream, issued, received, hand, stub, printed>>
      BY <2>8 DEF events
    <3>2. QED
      BY <2>1, <3>1 DEF EventsTypeOK
  <2>9. QED
    BY <2>2, <2>3, <2>4, <2>5, <2>6, <2>7, <2>8, EventsFrame
<1>2. command'.kind = "events" /\ "nil" \in {errCh', result'} => stub' = "eof"
  <2>1. UNCHANGED command /\ (command.kind = "events" /\ "nil" \in {errCh, result} => stub = "eof")
    BY CommandFixed DEF Streamed
  <2>2. CASE StartEvents
    <3>1. main = "off" /\ UNCHANGED <<errCh, result>>
      BY <2>2 DEF StartEvents
    <3>2. QED
      BY <3>1 DEF Works
  <2>3. CASE Flush \/ Fail
    BY <2>1, <2>3 DEF Flush, Fail, Works
  <2>4. CASE DisplayStops
    BY <2>1, <2>4 DEF DisplayStops, Displays
  <2>5. CASE Produce
    BY <2>1, <2>5 DEF Produce, events, mainVars
  <2>6. CASE EventsEnd
    BY <2>1, <2>6 DEF EventsEnd, events
  <2>7. CASE StartDisplay \/ (UNCHANGED <<mainVars, errCh>> /\ ~StartEvents)
    BY <1>1, <2>1, <2>7 DEF StartDisplay, mainVars, events
  <2>8. QED
    BY <2>2, <2>3, <2>4, <2>5, <2>6, <2>7, MainFrame
<1>3. QED
  BY <1>1, <1>2 DEF Streamed

LEMMA WorksStep ==
  ASSUME Works, [Next]_vars PROVE Works'
<1>1. UNCHANGED command
  BY CommandFixed
<1>2. CASE StartDisplay
  BY <1>1, <1>2 DEF StartDisplay, Displays, Works
<1>3. CASE StartEvents
  BY <1>1, <1>3 DEF StartEvents, Works
<1>4. CASE Produce
  BY <1>1, <1>4 DEF Produce, Works, mainVars
<1>5. CASE Displaying
  <2>1. worker \notin {"off", "select", "done"}
    BY <1>5 DEF Displaying, NextRound, First, Wake, Second, CallFails, MakeRows, Flush, Fail
  <2>2. main # "off" /\ command.kind # "events"
    BY <2>1 DEF Works
  <2>3. main' # "off"
    BY <1>5, <2>2 DEF Displaying, NextRound, First, Wake, Second, CallFails, MakeRows, Flush, Fail,
                      mainVars
  <2>4. QED
    BY <1>1, <2>2, <2>3 DEF Works
<1>6. CASE UNCHANGED worker /\ (DisplayStops \/ EventsEnd \/ UNCHANGED <<mainVars, errCh>>)
  BY <1>1, <1>6 DEF DisplayStops, EventsEnd, Works, mainVars
<1>7. QED
  <2>1. Tick => UNCHANGED worker
    BY DEF Tick
  <2>2. DisplayStops \/ EventsEnd => UNCHANGED display
    BY DEF DisplayStops, EventsEnd
  <2>3. Flush \/ Fail => Displaying
    BY DEF Displaying
  <2>4. QED
    BY <1>2, <1>3, <1>4, <1>5, <1>6, <2>1, <2>2, <2>3, MainFrame, DisplayFrame DEF display

(* After the command has returned one round may end, and none begins.        *)
LEMMA LatenessStep ==
  ASSUME MainTypeOK, Works, Lateness, [Next]_vars PROVE Lateness'
<1>1. UNCHANGED command
  BY CommandFixed
<1>2. CASE StartDisplay \/ StartEvents
  BY <1>1, <1>2 DEF StartDisplay, StartEvents, Lateness, Displays
<1>3. CASE DisplayStops
  BY <1>1, <1>3 DEF DisplayStops, display, Lateness, Displays
<1>4. CASE EventsEnd
  BY <1>1, <1>4 DEF EventsEnd, display, Lateness, Displays
<1>5. CASE Produce
  BY <1>1, <1>5 DEF Produce, mainVars, Lateness, Displays
<1>6. CASE Tick
  BY <1>1, <1>6 DEF Tick, mainVars, Lateness, Displays
<1>7. CASE NextRound
  BY <1>1, <1>7 DEF NextRound, mainVars, Lateness, Displays, Cancelled
<1>8. CASE First \/ Wake \/ Second \/ CallFails \/ MakeRows
  BY <1>1, <1>8 DEF First, Wake, Second, CallFails, MakeRows, mainVars, Lateness, Displays
<1>9. CASE Flush
  <2>1. worker = "flush" /\ late = 0
    BY <1>9 DEF Flush, Lateness
  <2>2. late' = IF main = "returned" THEN 1 ELSE 0
    BY <1>9, <2>1 DEF Flush, Cancelled
  <2>3. CASE command.watch
    BY <1>1, <1>9, <2>1, <2>2, <2>3 DEF Flush, mainVars, Lateness, Displays
  <2>4. CASE ~command.watch
    BY <1>1, <1>9, <2>1, <2>2, <2>4 DEF Flush, Lateness, Displays
  <2>5. QED
    BY <2>3, <2>4
<1>10. CASE Fail
  BY <1>1, <1>10 DEF Fail, mainVars, Lateness, Displays
<1>11. CASE UNCHANGED <<display, mainVars, errCh>>
  BY <1>1, <1>11 DEF display, mainVars, Lateness, Displays
<1>12. QED
  BY <1>2, <1>3, <1>4, <1>5, <1>6, <1>7, <1>8, <1>9, <1>10, <1>11, MainFrame, DisplayFrame
     DEF Displaying

-----------------------------------------------------------------------------
(* The invariant of the watching commands holds at first, and is kept.       *)
LEMMA InitShows ==
  ASSUME Init PROVE Shows /\ Ends
<1>1. IsSample(NoSample) /\ DOMAIN NoSample = {}
  BY DEF IsSample, NoSample
<1>2. Shows
  <2>1. /\ worker = "off" /\ tick = FALSE /\ asked = FALSE
        /\ old = NoSample /\ new = NoSample /\ began = NoSample /\ rows = {} /\ screen = {}
        /\ late = 0 /\ stats = NoSample /\ gone = {} /\ clock = 0 /\ 0 \in 0..MaxClock
    BY WidthAssumption DEF Init
  <2>2. DisplayTypeOK
    BY <1>1, <2>1 DEF DisplayTypeOK
  <2>3. QED
    BY <1>1, <2>1, <2>2 DEF Shows, Measured, Truthful, Later
<1>3. Ends
  <2>1. /\ stream = "open" /\ issued = 0 /\ received = 0 /\ hand = 0 /\ stub = "off"
        /\ printed = <<>> /\ main = "off" /\ result = "none" /\ errCh = "empty" /\ late = 0
        /\ proc = "running" /\ handler = FALSE /\ stop = FALSE /\ worker = "off"
    BY DEF Init
  <2>2. printed \in Seq(1..MaxEvents) /\ Len(printed) = 0 /\ 0 \in 0..MaxEvents
    BY <2>1, WidthAssumption, EmptySeq
  <2>3. MainTypeOK /\ EventsTypeOK
    BY <2>1, <2>2 DEF MainTypeOK, EventsTypeOK
  <2>4. Works /\ Lateness
    BY <2>1 DEF Works, Lateness
  <2>5. Streamed
    BY <2>1, <2>2 DEF Streamed
  <2>6. QED
    BY <2>3, <2>4, <2>5 DEF Ends
<1>4. QED
  BY <1>2, <1>3

LEMMA WatchInvariant == Spec => [](Shows /\ Ends)
<1>1. Init => Shows /\ Ends
  BY InitShows
<1>2. Shows /\ Ends /\ [Next]_vars => (Shows /\ Ends)'
  BY ShowsStep, MainTypeStep, EventsStep, WorksStep, LatenessStep DEF Ends
<1>3. QED
  BY <1>1, <1>2, PTL DEF Spec

(* Type correctness: what the commands that watch hold is what it should be. *)
THEOREM WatchTypes == Spec => []TypeOK
<1>1. ConnInv /\ Shows /\ Ends => TypeOK
  BY DEF ConnInv, Shows, Ends, TypeOK
<1>2. QED
  BY <1>1, ConnInvariant, WatchInvariant, PTL

(* A share of the CPU that stats shows is that of the same object between    *)
(* the two samples of one round, unless the object was restarted.            *)
THEOREM Shares == Spec => []SharesAreTrue
<1>1. Shows => SharesAreTrue
  BY DEF Shows, Truthful, SharesAreTrue
<1>2. QED
  BY <1>1, WatchInvariant, PTL

(* handleDisplay cancels the context of the samples when it returns: no more *)
(* than the round in hand is shown after that.                               *)
THEOREM LateScreens == Spec => []OneLateScreen
<1>1. Ends => OneLateScreen
  BY DEF Ends, Lateness, OneLateScreen
<1>2. QED
  BY <1>1, WatchInvariant, PTL

(* Events are printed once and in order, and crictl events ends without an   *)
(* error only after the last: the channel of the events has no room.         *)
THEOREM AllEvents == Spec => []EventsComplete
<1>1. ASSUME Ends PROVE EventsComplete
  <2>1. /\ received \in Nat /\ printed \in Seq(1..MaxEvents)
        /\ Len(printed) = IF hand = 0 THEN received ELSE received - 1
        /\ \A n \in 1..Len(printed) : printed[n] = n
        /\ stub = "eof" => hand = 0 /\ received = issued
        /\ command.kind = "events" /\ "nil" \in {errCh, result} => stub = "eof"
    BY <1>1, WidthAssumption DEF Ends, EventsTypeOK, Streamed
  <2>2. DOMAIN printed = 1..Len(printed)
    BY <2>1, LenProperties
  <2>3. QED
    BY <2>1, <2>2 DEF EventsComplete
<1>2. QED
  BY <1>1, WatchInvariant, PTL
=============================================================================
