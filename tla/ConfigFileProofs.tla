-------------------------- MODULE ConfigFileProofs --------------------------
(***************************************************************************)
(* What ConfigFile promises of the file for any number of processes,       *)
(* options and settings, however the processes overlap or are killed.      *)
(***************************************************************************)
EXTENDS ConfigFile, SequenceTheorems, TLAPS

(* A setting that is not Bad names an option and one of its values.          *)
LEMMA SettingType ==
  ASSUME TypeOK, NEW p \in Procs, applied[p] < Len(request[p])
  PROVE  /\ applied[p] + 1 \in 1..Len(request[p])
         /\ Setting(p) \in Settings
         /\ Setting(p) # Bad => Setting(p)[1] \in Options /\ Setting(p)[2] \in Values
<1>1. request[p] \in Seq(Settings) /\ applied[p] \in Nat
  BY RequestsAssumption DEF TypeOK
<1>2. applied[p] + 1 \in 1..Len(request[p])
  BY <1>1, LenProperties
<1>3. Setting(p) \in Settings
  BY <1>1, <1>2, ElementOfSeq DEF Setting
<1>4. QED
  BY <1>2, <1>3 DEF Settings

(* Reading replaces what is absent by zero values.                           *)
LEMMA ParsedType ==
  ASSUME NEW text \in Texts
  PROVE  Parsed(text) \in [Options -> Values]
BY OptionsAssumption DEF Parsed, Texts

(* What is left when two processes write at once is a text or no text.       *)
LEMMA OverwrittenType ==
  ASSUME NEW old, NEW new \in [Options -> Values], NEW t \in Overwritten(old, new)
  PROVE  t \in Texts \cup {Invalid}
<1>1. new \in Texts
  BY DEF Texts
<1>2. CASE t \in {new, Invalid}
  BY <1>1, <1>2
<1>3. CASE t \notin {new, Invalid}
  <2>1. old \in Texts
    BY <1>3, Zenon DEF Overwritten
  <2>2. PICK kept \in SUBSET Options :
          t = [o \in Options |-> IF o \in kept /\ old[o] # Absent THEN old[o] ELSE new[o]]
    BY <1>3, Zenon DEF Overwritten
  <2>3. QED
    BY <2>1, <2>2 DEF Texts
<1>4. QED
  BY <1>2, <1>3

LEMMA WriteType ==
  ASSUME TypeOK, NEW p \in Procs, Write(p)
  PROVE  file' \in Texts \cup {Missing, Invalid}
<1>1. config[p] \in [Options -> Values] /\ file \in Texts \cup {Missing, Invalid}
  BY DEF TypeOK
<1>2. file' \in Overwritten(file, config[p]) \/ file' = file
  BY Zenon DEF Write
<1>3. ASSUME file' \in Overwritten(file, config[p])
      PROVE  file' \in Texts \cup {Invalid}
  BY <1>1, <1>3, OverwrittenType, Zenon
<1>4. QED
  BY <1>1, <1>2, <1>3

(* The type invariant holds of the first state and is kept by every step.    *)
LEMMA TypeStep == TypeOK /\ [Next]_vars => TypeOK'
<1> SUFFICES ASSUME TypeOK, [Next]_vars PROVE TypeOK'
  OBVIOUS
<1> USE DEF TypeOK, Goto, inputs, history, Ended
<1>1. ASSUME NEW p \in Procs, Start(p) PROVE TypeOK'
  <2>1. Found \in Texts => Parsed(Found)[Retries] \in Values
    BY ParsedType, OptionsAssumption
  <2>2. retries' \in [Procs -> Values]
    BY <1>1, <2>1, OptionsAssumption DEF Start, FlagRetries, FileRetries
  <2>3. pc' \in [Procs -> {"idle", "stat", "create", "fill", "read", "set",
                           "truncate", "write"} \cup Ended]
    BY <1>1 DEF Start
  <2>4. base' \in [Procs -> Texts \cup {Missing, Invalid}] /\ solo' \in [Procs -> BOOLEAN]
    BY <1>1 DEF Start
  <2>5. QED
    BY <1>1, <2>2, <2>3, <2>4 DEF Start
<1>2. ASSUME NEW p \in Procs, Stat(p) PROVE TypeOK'
  BY <1>2 DEF Stat
<1>3. ASSUME NEW p \in Procs, Read(p) PROVE TypeOK'
  <2>1. file \in Texts => Parsed(file) \in [Options -> Values]
    BY ParsedType
  <2>2. config' \in [Procs -> [Options -> Values]]
    <3>1. CASE file \in Texts
      BY <1>3, <2>1, <3>1 DEF Read
    <3>2. CASE file \notin Texts
      BY <1>3, <3>2 DEF Read
    <3>3. QED
      BY <3>1, <3>2
  <2>3. pc' \in [Procs -> {"idle", "stat", "create", "fill", "read", "set",
                           "truncate", "write"} \cup Ended]
    <3>1. \E v \in {"done", "set", "failed"} : pc' = [pc EXCEPT ![p] = v]
      BY <1>3 DEF Read
    <3>2. QED
      BY <3>1
  <2>4. UNCHANGED <<file, inputs, applied, retries, history>>
    BY <1>3 DEF Read
  <2>5. QED
    BY <2>2, <2>3, <2>4
<1>4. ASSUME NEW p \in Procs, SetValue(p) PROVE TypeOK'
  <2>1. Setting(p)[1] \in Options /\ Setting(p)[2] \in Values
    BY <1>4, SettingType DEF SetValue
  <2>2. config' \in [Procs -> [Options -> Values]]
    BY <1>4, <2>1 DEF SetValue
  <2>3. Len(request[p]) \in Nat
    BY RequestsAssumption, LenProperties
  <2>4. applied' \in [Procs -> Nat] /\ \A q \in Procs : applied'[q] <= Len(request[q])
    BY <1>4, <2>3 DEF SetValue
  <2>5. QED
    BY <1>4, <2>2, <2>4 DEF SetValue
<1>5. ASSUME NEW p \in Procs, Reject(p) \/ AllApplied(p) \/ Kill(p) PROVE TypeOK'
  <2>1. \E v \in {"rejected", "truncate", "killed"} : pc' = [pc EXCEPT ![p] = v]
    BY <1>5 DEF Reject, AllApplied, Kill
  <2>2. pc' \in [Procs -> {"idle", "stat", "create", "fill", "read", "set",
                           "truncate", "write"} \cup Ended]
    BY <2>1
  <2>3. UNCHANGED <<file, inputs, config, applied, retries, history>>
    BY <1>5 DEF Reject, AllApplied, Kill
  <2>4. QED
    BY <2>2, <2>3
<1>6. ASSUME NEW p \in Procs, Open(p) PROVE TypeOK'
  <2>1. Empty \in Texts
    BY DEF Empty, Texts
  <2>2. QED
    BY <1>6, <2>1 DEF Open
<1>7. ASSUME NEW p \in Procs, Write(p) PROVE TypeOK'
  <2>1. file' \in Texts \cup {Missing, Invalid}
    BY <1>7, WriteType, Zenon
  <2>2. QED
    BY <1>7, <2>1 DEF Write
<1>8. CASE UNCHANGED vars
  BY <1>8 DEF vars
<1>9. QED
  BY <1>1, <1>2, <1>3, <1>4, <1>5, <1>6, <1>7, <1>8 DEF Next

LEMMA TypeInit == Init => TypeOK
<1> SUFFICES ASSUME Init PROVE TypeOK
  OBVIOUS
<1>1. {file, initial, fallback} \subseteq Texts \cup {Missing, Invalid}
  BY FilesAssumption, Zenon DEF Init
<1>2. request \in [Procs -> Requests] /\ applied = [p \in Procs |-> 0]
  BY Zenon DEF Init
<1>3. applied \in [Procs -> Nat] /\ \A p \in Procs : applied[p] <= Len(request[p])
  BY <1>2, RequestsAssumption, LenProperties
<1>4. config \in [Procs -> [Options -> Values]] /\ retries \in [Procs -> Values]
  BY OptionsAssumption DEF Init
<1>5. base \in [Procs -> Texts \cup {Missing, Invalid}]
  BY <1>1 DEF Init
<1>6. QED
  BY <1>1, <1>2, <1>3, <1>4, <1>5 DEF Init, TypeOK, Ended

(* Type correctness of the file and of every process.                        *)
THEOREM TypeCorrect == Spec => []TypeOK
BY TypeInit, TypeStep, PTL DEF Spec

-----------------------------------------------------------------------------
(* What a process holds in memory is, option by option, what it may be in    *)
(* the file.                                                                 *)
Inventory == \A p \in Procs : \A o \in Options : config[p][o] \in Given(o)

IInv == TypeOK /\ NoInventedValue /\ Inventory

LEMMA ParsedGiven ==
  ASSUME NEW o \in Options, NEW text \in Texts, text[o] \in Given(o)
  PROVE  Parsed(text)[o] \in Given(o)
BY DEF Parsed, Given

LEMMA OverwrittenGiven ==
  ASSUME NEW old, NEW new \in [Options -> Values], NEW o \in Options,
         NEW t \in Overwritten(old, new), t \in Texts,
         new[o] \in Given(o), old \in Texts => old[o] \in Given(o)
  PROVE  t[o] \in Given(o)
<1>1. CASE t = new
  BY <1>1
<1>2. CASE t # new
  <2>1. old \in Texts
    BY <1>2, TokensAssumption, Zenon DEF Overwritten
  <2>2. PICK kept \in SUBSET Options :
          t = [x \in Options |-> IF x \in kept /\ old[x] # Absent THEN old[x] ELSE new[x]]
    BY <1>2, TokensAssumption, Zenon DEF Overwritten
  <2>3. QED
    BY <2>1, <2>2
<1>3. QED
  BY <1>1, <1>2

(* The values given to the options are fixed when the commands are.          *)
LEMMA GivenFixed ==
  ASSUME [Next]_vars, NEW o \in Options
  PROVE  Given(o)' = Given(o)
<1>1. UNCHANGED inputs
  BY DEF Next, Start, Stat, Read, SetValue, Reject, AllApplied, Open, Write, Kill, vars
<1>2. QED
  BY <1>1 DEF Given, Asked, inputs

LEMMA SettingGiven ==
  ASSUME TypeOK, NEW p \in Procs, applied[p] < Len(request[p]), Setting(p) # Bad
  PROVE  Setting(p)[2] \in Given(Setting(p)[1])
<1>1. applied[p] + 1 \in 1..Len(request[p])
  BY SettingType
<1>2. Setting(p)[2] \in Asked(p, Setting(p)[1])
  BY <1>1 DEF Asked, Setting
<1>3. QED
  BY <1>2 DEF Given

LEMMA IInvStep == IInv /\ [Next]_vars => IInv'
<1> SUFFICES ASSUME IInv, [Next]_vars PROVE NoInventedValue' /\ Inventory'
  BY TypeStep DEF IInv
<1>0. \A o \in Options : Given(o)' = Given(o)
  BY GivenFixed
<1>1. SUFFICES
        /\ file' \in Texts => \A o \in Options : file'[o] \in Given(o)
        /\ \A p \in Procs : \A o \in Options : config'[p][o] \in Given(o)
  BY <1>0 DEF NoInventedValue, Inventory
<1>2. /\ file \in Texts => \A o \in Options : file[o] \in Given(o)
      /\ \A p \in Procs : \A o \in Options : config[p][o] \in Given(o)
      /\ TypeOK
  BY DEF IInv, NoInventedValue, Inventory
<1>3. ASSUME NEW p \in Procs, Read(p)
      PROVE  /\ file' = file
             /\ \A q \in Procs : \A o \in Options : config'[q][o] \in Given(o)
  <2>1. file \in Texts => \A o \in Options : Parsed(file)[o] \in Given(o)
    BY <1>2, ParsedGiven
  <2>2. QED
    BY <1>2, <1>3, <2>1 DEF Read, TypeOK
<1>4. ASSUME NEW p \in Procs, SetValue(p)
      PROVE  /\ file' = file
             /\ \A q \in Procs : \A o \in Options : config'[q][o] \in Given(o)
  <2>1. Setting(p)[2] \in Given(Setting(p)[1])
    BY <1>2, <1>4, SettingGiven DEF SetValue
  <2>2. \A q \in Procs : \A o \in Options :
          config'[q][o] = IF q = p /\ o = Setting(p)[1] THEN Setting(p)[2] ELSE config[q][o]
    BY <1>2, <1>4 DEF SetValue, TypeOK
  <2>3. QED
    BY <1>2, <1>4, <2>1, <2>2 DEF SetValue
<1>5. ASSUME NEW p \in Procs, Open(p)
      PROVE  /\ file' \in Texts => \A o \in Options : file'[o] \in Given(o)
             /\ config' = config
  BY <1>2, <1>5 DEF Open, Empty, Given
<1>6. ASSUME NEW p \in Procs, Write(p)
      PROVE  /\ file' \in Texts => \A o \in Options : file'[o] \in Given(o)
             /\ config' = config
  <2>1. CASE file' \in Overwritten(file, config[p])
    <3>1. config[p] \in [Options -> Values]
      BY <1>2 DEF TypeOK
    <3>2. \A o \in Options : config[p][o] \in Given(o)
      BY <1>2
    <3>3. file' \in Texts => \A o \in Options : file'[o] \in Given(o)
      BY <1>2, <2>1, <3>1, <3>2, OverwrittenGiven, Zenon
    <3>4. QED
      BY <1>6, <3>3 DEF Write
  <2>2. CASE file' = file
    BY <1>2, <1>6, <2>2 DEF Write
  <2>3. QED
    BY <1>6, <2>1, <2>2, Zenon DEF Write
<1>7. ASSUME NEW p \in Procs, Start(p) \/ Stat(p) \/ Reject(p) \/ AllApplied(p) \/ Kill(p)
      PROVE  file' = file /\ config' = config
  BY <1>7 DEF Start, Stat, Reject, AllApplied, Kill
<1>8. CASE UNCHANGED vars
  BY <1>2, <1>8 DEF vars
<1>9. QED
  BY <1>2, <1>3, <1>4, <1>5, <1>6, <1>7, <1>8 DEF Next

(* No run of any number of processes leaves an option with a value nobody    *)
(* gave to it.                                                               *)
THEOREM InventedCorrect == Spec => []NoInventedValue
<1>1. Init => NoInventedValue /\ Inventory
  BY DEF Init, NoInventedValue, Inventory, Given
<1>2. Init => IInv
  BY <1>1, TypeInit DEF IInv
<1>3. IInv => NoInventedValue
  BY DEF IInv
<1>4. QED
  BY <1>2, <1>3, IInvStep, PTL DEF Spec

-----------------------------------------------------------------------------
(* A process that finds the file invalid does not get as far as to open it.  *)
Barred ==
  initial = Invalid =>
    /\ file = Invalid
    /\ \A p \in Procs : pc[p] \notin {"create", "fill", "set", "truncate", "write"}

(* A file that does not parse is never rewritten.                            *)
THEOREM InvalidCorrect == Spec => []InvalidSpared
<1>1. Init => Barred
  BY DEF Init, Barred
<1>2. TypeOK /\ Barred /\ [Next]_vars => Barred'
  <2> SUFFICES ASSUME TypeOK, Barred, [Next]_vars, initial = Invalid
               PROVE  Barred'
    BY DEF Barred, Next, Start, Stat, Read, SetValue, Reject, AllApplied, Open, Write, Kill,
           vars, inputs
  <2> USE TokensAssumption DEF TypeOK, Barred, Goto, inputs
  <2>1. ASSUME NEW p \in Procs, Start(p) \/ Stat(p) \/ Read(p) PROVE Barred'
    BY <2>1 DEF Start, Stat, Read
  <2>2. ASSUME NEW p \in Procs, SetValue(p) \/ Reject(p) \/ AllApplied(p) PROVE Barred'
    BY <2>2 DEF SetValue, Reject, AllApplied
  <2>3. ASSUME NEW p \in Procs, Open(p) \/ Write(p) \/ Kill(p) PROVE Barred'
    BY <2>3 DEF Open, Write, Kill
  <2>4. CASE UNCHANGED vars
    BY <2>4 DEF vars
  <2>5. QED
    BY <2>1, <2>2, <2>3, <2>4 DEF Next
<1>3. Barred => InvalidSpared
  BY DEF Barred, InvalidSpared
<1>4. QED
  BY <1>1, <1>2, <1>3, TypeCorrect, PTL DEF Spec
-----------------------------------------------------------------------------
(* The effect of the first n settings, and of all of them.                   *)
Upto(text, settings, n) ==
  [o \in Options |->
    LET places == {m \in 1..n : settings[m] # Bad /\ settings[m][1] = o}
    IN  IF places = {} THEN Parsed(text)[o]
        ELSE settings[CHOOSE m \in places : \A l \in places : l <= m][2]]

LEMMA UptoAll ==
  ASSUME NEW text, NEW settings PROVE Updated(text, settings) = Upto(text, settings, Len(settings))
BY DEF Updated, Upto

LEMMA UptoNone ==
  ASSUME NEW text, NEW settings PROVE Upto(text, settings, 0) = Parsed(text)
<1>1. \A o \in Options : {m \in 1..0 : settings[m] # Bad /\ settings[m][1] = o} = {}
  OBVIOUS
<1>2. Upto(text, settings, 0) = [o \in Options |-> Parsed(text)[o]]
  BY <1>1 DEF Upto
<1>3. QED
  BY <1>2 DEF Parsed

(* The greatest of a set of places is what CHOOSE finds.                     *)
LEMMA Greatest ==
  ASSUME NEW S \in SUBSET Nat, NEW m \in S, \A l \in S : l <= m
  PROVE  (CHOOSE k \in S : \A l \in S : l <= k) = m
<1> DEFINE g == CHOOSE k \in S : \A l \in S : l <= k
<1>1. g \in S /\ \A l \in S : l <= g
  OBVIOUS
<1>2. g \in Nat /\ m \in Nat /\ g <= m /\ m <= g
  BY <1>1
<1>3. QED
  BY <1>2

(* The next setting changes its own option, and wins over those before it.   *)
LEMMA UptoNext ==
  ASSUME NEW text, NEW settings, NEW n \in Nat, settings[n + 1] # Bad
  PROVE  Upto(text, settings, n + 1)
           = [Upto(text, settings, n) EXCEPT ![settings[n + 1][1]] = settings[n + 1][2]]
<1> DEFINE places(o, k) == {m \in 1..k : settings[m] # Bad /\ settings[m][1] = o}
           last(o, k) == CHOOSE m \in places(o, k) : \A l \in places(o, k) : l <= m
<1>1. \A o, k : Upto(text, settings, k)
                  = [x \in Options |-> IF places(x, k) = {} THEN Parsed(text)[x]
                                       ELSE settings[last(x, k)][2]]
  BY DEF Upto
<1>2. \A o : o # settings[n + 1][1] => places(o, n + 1) = places(o, n)
  OBVIOUS
<1>3. last(settings[n + 1][1], n + 1) = n + 1
  <2>1. n + 1 \in places(settings[n + 1][1], n + 1)
    OBVIOUS
  <2>2. /\ places(settings[n + 1][1], n + 1) \in SUBSET Nat
        /\ \A l \in places(settings[n + 1][1], n + 1) : l <= n + 1
    OBVIOUS
  <2> HIDE DEF places
  <2>3. QED
    BY <2>1, <2>2, Greatest
<1>4. places(settings[n + 1][1], n + 1) # {}
  OBVIOUS
<1> HIDE DEF places
<1>5. \A o : o # settings[n + 1][1] => last(o, n + 1) = last(o, n)
  BY <1>2
<1> HIDE DEF last
<1>6. QED
  BY <1>1, <1>2, <1>3, <1>4, <1>5
-----------------------------------------------------------------------------
(* No other process is active while one is alone.                            *)
Solitude == \A p \in Procs : solo[p] => \A q \in Procs \ {p} : ~Active(q)

Nothing == [o \in Options |-> Zero]

(* A process has the zero values in memory until it has read the file.       *)
Blank ==
  \A p \in Procs :
    pc[p] \in {"idle", "stat", "create", "fill", "read"} => applied[p] = 0 /\ config[p] = Nothing

(* What the file and the memory of a process that is alone hold: the file    *)
(* says what it did before until it is truncated, and the memory what it     *)
(* says after the settings applied so far, none of them bad.                 *)
Creating(p) ==
  /\ pc[p] = "stat" => file = base[p]
  /\ pc[p] = "create" => file = Missing /\ base[p] = Missing
  /\ pc[p] = "fill" => file = Empty /\ base[p] = Missing
  /\ pc[p] = "read" => file = base[p] \/ (base[p] = Missing /\ file = Nothing)

Applying(p) ==
  /\ pc[p] \in {"set", "truncate", "rejected"} => Parsed(file) = Parsed(Before(p))
  /\ pc[p] \in {"set", "truncate", "write"} =>
       /\ config[p] = Upto(Before(p), request[p], applied[p])
       /\ \A n \in 1..applied[p] : request[p][n] # Bad

Writing(p) ==
  /\ pc[p] \in {"truncate", "write"} => applied[p] = Len(request[p])
  /\ pc[p] = "write" => file = Empty
  /\ pc[p] = "done" => /\ \A n \in 1..Len(request[p]) : request[p][n] # Bad
                       /\ Parsed(file) = Updated(Before(p), request[p])

Upkeep(p) == Creating(p) /\ Applying(p) /\ Writing(p)

AloneInv ==
  /\ Solitude /\ Blank
  /\ \A p \in Procs : solo[p] /\ command[p] = "config" => Upkeep(p)

(* The text of an option that is in the file is what is read from it.        *)
LEMMA ParsedText ==
  ASSUME NEW text \in [Options -> Values] PROVE Parsed(text) = text
BY TokensAssumption DEF Parsed

LEMMA ParsedEmpty == Parsed(Empty) = Nothing
BY DEF Parsed, Empty, Nothing

LEMMA NothingType == Nothing \in [Options -> Values] /\ Empty \in Texts
BY OptionsAssumption DEF Nothing, Empty, Texts

LEMMA SolitudeStep == TypeOK /\ Solitude /\ [Next]_vars => Solitude'
<1> SUFFICES ASSUME TypeOK, Solitude, [Next]_vars PROVE Solitude'
  OBVIOUS
<1> USE DEF Solitude, Goto, history
<1>1. ASSUME NEW p \in Procs, Start(p) PROVE Solitude'
  <2>1. ASSUME NEW r \in Procs, solo'[r] PROVE r = p /\ \A q \in Procs \ {r} : ~Active(q)
    BY <1>1, <2>1 DEF Start
  <2>2. \A q \in Procs \ {p} : pc'[q] = pc[q]
    BY <1>1 DEF Start, TypeOK
  <2>3. QED
    BY <2>1, <2>2 DEF Active
<1>2. ASSUME NEW p \in Procs, Active(p), UNCHANGED solo,
             \A q \in Procs \ {p} : pc'[q] = pc[q]
      PROVE  Solitude'
  BY <1>2 DEF Active
<1>3. ASSUME NEW p \in Procs,
             Stat(p) \/ Read(p) \/ SetValue(p) \/ Reject(p) \/ AllApplied(p)
      PROVE  Active(p) /\ UNCHANGED solo /\ \A q \in Procs \ {p} : pc'[q] = pc[q]
  BY <1>3 DEF Stat, Read, SetValue, Reject, AllApplied, Active, Ended, TypeOK
<1>4. ASSUME NEW p \in Procs, Open(p) \/ Write(p) \/ Kill(p)
      PROVE  Active(p) /\ UNCHANGED solo /\ \A q \in Procs \ {p} : pc'[q] = pc[q]
  BY <1>4 DEF Open, Write, Kill, Active, Ended, TypeOK
<1>5. CASE UNCHANGED vars
  BY <1>5 DEF vars, Active
<1>6. QED
  BY <1>1, <1>2, <1>3, <1>4, <1>5 DEF Next

LEMMA BlankStep == TypeOK /\ Blank /\ [Next]_vars => Blank'
<1> SUFFICES ASSUME TypeOK, Blank, [Next]_vars PROVE Blank'
  OBVIOUS
<1> USE DEF Blank, Nothing, Goto, TypeOK
<1>1. ASSUME NEW p \in Procs, Start(p) \/ Stat(p) \/ Read(p) PROVE Blank'
  BY <1>1 DEF Start, Stat, Read
<1>2. ASSUME NEW p \in Procs, SetValue(p) \/ Reject(p) \/ AllApplied(p) PROVE Blank'
  BY <1>2 DEF SetValue, Reject, AllApplied
<1>3. ASSUME NEW p \in Procs, Open(p) \/ Write(p) \/ Kill(p) PROVE Blank'
  BY <1>3 DEF Open, Write, Kill
<1>4. CASE UNCHANGED vars
  BY <1>4 DEF vars
<1>5. QED
  BY <1>1, <1>2, <1>3, <1>4 DEF Next

(* The steps of a process that is alone.                                     *)
LEMMA UpkeepStart ==
  ASSUME TypeOK, Blank, NEW p \in Procs, Start(p), command[p] = "config"
  PROVE  Upkeep(p)'
<1>1. pc'[p] \in {"stat", "failed"} /\ base'[p] = file /\ file' = file
  BY DEF Start, Goto, TypeOK
<1>2. QED
  BY <1>1 DEF Upkeep, Creating, Applying, Writing

LEMMA UpkeepRead ==
  ASSUME TypeOK, Blank, NEW p \in Procs, Upkeep(p), Stat(p) \/ Read(p)
  PROVE  Upkeep(p)'
<1> USE DEF Goto, history, inputs, TypeOK
<1>1. CASE Stat(p)
  <2>1. pc'[p] = (IF file = Missing THEN "create" ELSE "read") /\ UNCHANGED <<file, base>>
    BY <1>1 DEF Stat
  <2>2. file = base[p]
    BY <1>1 DEF Upkeep, Creating, Stat
  <2>3. QED
    BY <2>1, <2>2 DEF Upkeep, Creating, Applying, Writing
<1>2. CASE Read(p) /\ file \notin Texts
  <2>1. pc'[p] = "failed"
    BY <1>2 DEF Read
  <2>2. QED
    BY <2>1 DEF Upkeep, Creating, Applying, Writing
<1>3. CASE Read(p) /\ file \in Texts
  <2>1. /\ pc[p] = "read" /\ pc'[p] = IF request[p] = <<>> THEN "done" ELSE "set"
        /\ config'[p] = Parsed(file)
        /\ UNCHANGED <<file, base, request, applied>>
    BY <1>3 DEF Read
  <2>2. applied[p] = 0
    BY <2>1 DEF Blank
  <2>3. Parsed(file) = Parsed(Before(p))
    <3>1. CASE file = base[p]
      BY <1>3, <3>1, TokensAssumption DEF Before
    <3>2. CASE base[p] = Missing /\ file = Nothing
      BY <3>2, ParsedText, ParsedEmpty, NothingType DEF Before
    <3>3. QED
      BY <2>1, <3>1, <3>2 DEF Upkeep, Creating
  <2>4. Upto(Before(p), request[p], 0) = Parsed(Before(p)) /\ UNCHANGED Before(p)
    BY <2>1, UptoNone DEF Before
  <2>5. request[p] = <<>> => Updated(Before(p), request[p]) = Parsed(Before(p)) /\ Len(request[p]) = 0
    BY <2>4, UptoAll
  <2>6. Creating(p)' /\ Applying(p)'
    BY <2>1, <2>2, <2>3, <2>4 DEF Creating, Applying
  <2>7. Writing(p)'
    BY <2>1, <2>3, <2>4, <2>5 DEF Writing
  <2>8. QED
    BY <2>6, <2>7 DEF Upkeep
<1>4. QED
  BY <1>1, <1>2, <1>3

LEMMA UpkeepSet ==
  ASSUME TypeOK, NEW p \in Procs, Upkeep(p),
         SetValue(p) \/ Reject(p) \/ AllApplied(p) \/ Kill(p)
  PROVE  Upkeep(p)'
<1> USE DEF Goto, history, inputs, TypeOK
<1>1. CASE SetValue(p)
  <2>1. /\ pc[p] = "set" /\ request[p][applied[p] + 1] # Bad
        /\ config'[p] = [config[p] EXCEPT ![request[p][applied[p] + 1][1]]
                                            = request[p][applied[p] + 1][2]]
        /\ applied'[p] = applied[p] + 1
        /\ UNCHANGED <<file, request, pc, base>>
    BY <1>1 DEF SetValue, Setting
  <2>2. config'[p] = Upto(Before(p), request[p], applied[p] + 1) /\ UNCHANGED Before(p)
    BY <2>1, UptoNext DEF Upkeep, Applying, Before
  <2>3. applied[p] \in Nat /\ \A n \in 1..applied[p] : request[p][n] # Bad
    BY <2>1 DEF Upkeep, Applying
  <2>4. \A n \in 1..(applied[p] + 1) : request[p][n] # Bad
    BY <2>1, <2>3
  <2>5. Applying(p)'
    BY <2>1, <2>2, <2>4 DEF Upkeep, Applying
  <2>6. QED
    BY <2>1, <2>5 DEF Upkeep, Creating, Writing
<1>2. CASE Reject(p) \/ AllApplied(p)
  <2>1. /\ pc[p] = "set" /\ pc'[p] \in {"rejected", "truncate"}
        /\ pc'[p] = "truncate" => applied[p] = Len(request[p])
        /\ UNCHANGED <<file, config, applied, request, base>>
    BY <1>2 DEF Reject, AllApplied
  <2>2. UNCHANGED Before(p)
    BY <2>1 DEF Before
  <2>3. QED
    BY <2>1, <2>2 DEF Upkeep, Creating, Applying, Writing
<1>3. CASE Kill(p)
  <2>1. pc'[p] = "killed"
    BY <1>3 DEF Kill
  <2>2. QED
    BY <2>1 DEF Upkeep, Creating, Applying, Writing
<1>4. QED
  BY <1>1, <1>2, <1>3

LEMMA UpkeepWrite ==
  ASSUME TypeOK, Blank, NEW p \in Procs, Upkeep(p), Open(p) \/ Write(p)
  PROVE  Upkeep(p)'
<1> USE DEF Goto, history, inputs, TypeOK
<1>0. UNCHANGED <<config, applied, request, base, Before(p)>>
  BY DEF Open, Write, Before
<1>1. CASE pc'[p] = "failed"
  BY <1>1 DEF Upkeep, Creating, Applying, Writing
<1>2. CASE Open(p) /\ pc'[p] # "failed"
  <2>1. /\ pc[p] \in {"create", "truncate"} /\ file' = Empty
        /\ pc'[p] = IF pc[p] = "create" THEN "fill" ELSE "write"
    BY <1>2 DEF Open
  <2>2. QED
    BY <1>0, <2>1 DEF Upkeep, Creating, Applying, Writing
<1>3. CASE Write(p) /\ pc'[p] # "failed"
  <2>1. /\ pc[p] \in {"fill", "write"} /\ file' \in Overwritten(file, config[p])
        /\ pc'[p] = IF pc[p] = "fill" THEN "read" ELSE "done"
    BY <1>3 DEF Write
  <2>2. file = Empty
    BY <2>1 DEF Upkeep, Creating, Writing
  <2>3. file' = config[p]
    BY <2>1, <2>2 DEF Overwritten
  <2>4. CASE pc[p] = "fill"
    BY <1>0, <2>1, <2>3, <2>4 DEF Upkeep, Creating, Applying, Writing, Blank
  <2>5. CASE pc[p] = "write"
    <3>1. /\ config[p] = Upto(Before(p), request[p], Len(request[p]))
          /\ \A n \in 1..Len(request[p]) : request[p][n] # Bad
      BY <2>5 DEF Upkeep, Applying, Writing
    <3>2. Parsed(file') = Updated(Before(p), request[p])
      BY <2>3, <3>1, UptoAll, ParsedText
    <3>3. QED
      BY <1>0, <2>1, <2>5, <3>1, <3>2 DEF Upkeep, Creating, Applying, Writing
  <2>6. QED
    BY <2>1, <2>4, <2>5
<1>4. QED
  BY <1>1, <1>2, <1>3

LEMMA AloneStep == TypeOK /\ AloneInv /\ [Next]_vars => AloneInv'
<1> SUFFICES ASSUME TypeOK, AloneInv, [Next]_vars PROVE AloneInv'
  OBVIOUS
<1>1. Solitude' /\ Blank'
  BY SolitudeStep, BlankStep DEF AloneInv
<1>2. ASSUME NEW p \in Procs, solo'[p], command'[p] = "config" PROVE Upkeep(p)'
  <2>1. command' = command
    BY DEF Next, Start, Stat, Read, SetValue, Reject, AllApplied, Open, Write, Kill, vars, inputs
  <2>2. ASSUME NEW q \in Procs, Start(q) PROVE q = p
    BY <1>2, <2>2 DEF Start
  <2>3. ASSUME solo[p], NEW q \in Procs,
               \/ Stat(q) \/ Read(q) \/ SetValue(q) \/ Reject(q) \/ AllApplied(q)
               \/ Open(q) \/ Write(q) \/ Kill(q)
        PROVE  q = p
    <3>1. Active(q)
      BY <2>3 DEF Stat, Read, SetValue, Reject, AllApplied, Open, Write, Kill, Active, Ended
    <3>2. QED
      BY <2>3, <3>1 DEF AloneInv, Solitude
  <2>4. CASE \E q \in Procs : Start(q)
    BY <1>2, <2>1, <2>2, <2>4, UpkeepStart DEF AloneInv
  <2>5. CASE ~\E q \in Procs : Start(q)
    <3>1. solo[p]
      BY <1>2, <2>5 DEF Next, Stat, Read, SetValue, Reject, AllApplied, Open, Write, Kill, vars,
                        history
    <3>2. Upkeep(p)
      BY <1>2, <2>1, <3>1 DEF AloneInv
    <3>3. CASE UNCHANGED vars
      BY <3>2, <3>3 DEF vars, inputs, history, Upkeep, Creating, Applying, Writing, Before
    <3>4. CASE ~UNCHANGED vars
      <4>1. \/ Stat(p) \/ Read(p) \/ SetValue(p) \/ Reject(p) \/ AllApplied(p)
            \/ Open(p) \/ Write(p) \/ Kill(p)
        BY <2>3, <2>5, <3>1, <3>4 DEF Next
      <4>2. QED
        BY <3>2, <4>1, UpkeepRead, UpkeepSet, UpkeepWrite DEF AloneInv
    <3>5. QED
      BY <3>3, <3>4
  <2>6. QED
    BY <2>4, <2>5
<1>3. QED
  BY <1>1, <1>2 DEF AloneInv

(* A crictl config that has the file for itself changes exactly the options  *)
(* it names, however many settings it is given and in whatever order, or     *)
(* none when one of them is rejected.                                        *)
THEOREM AloneCorrect == Spec => []SetIsAllOrNothing
<1>1. Init => AloneInv
  BY DEF Init, AloneInv, Solitude, Blank, Nothing
<1>2. AloneInv => SetIsAllOrNothing
  BY DEF AloneInv, Upkeep, Applying, Writing, SetIsAllOrNothing
<1>3. QED
  BY <1>1, <1>2, AloneStep, TypeCorrect, PTL DEF Spec
=============================================================================
