----------------------------- MODULE ConfigFile -----------------------------
(***************************************************************************)
(* The configuration file of crictl (pkg/common/file.go, pkg/common/       *)
(* config.go, cmd/crictl/config.go and Before in cmd/crictl/main.go).      *)
(* Every crictl process reads it when it starts.  crictl config --set then *)
(* reads it once more, changes the configuration in memory, setting by     *)
(* setting, and rewrites the whole file with os.WriteFile, which truncates *)
(* it first.  Nothing locks the file, and a process may be killed at any   *)
(* point.                                                                  *)
(*                                                                         *)
(* A file that parses is a function of the options, Absent for one that it *)
(* does not name (of an option named twice the last value counts and all   *)
(* are rewritten alike).  The order of the lines and comments are left     *)
(* out.                                                                    *)
(***************************************************************************)
EXTENDS Naturals, Sequences

CONSTANTS
  Procs,          \* the crictl processes, one command each
  Options,        \* the options of the file
  Retries,        \* the option max-retries
  Values,         \* their values
  Zero,           \* the value of a Config field nobody has set: "", 0 or false
  FlagDefault,    \* the value of the flag --max-retries, which nobody gives here
  Absent, Missing, Invalid,   \* no such option, no such file, a file that does not parse
  Bad,            \* a setting that setValue rejects
  Files,          \* what the file may be at first
  Fallbacks,      \* what crictl.yaml in the program's directory may be
  Requests        \* the settings given to --set or as arguments; none for --get and --list

Empty == [o \in Options |-> Absent]
Texts == [Options -> Values \cup {Absent}]
Settings == (Options \X Values) \cup {Bad}

ASSUME OptionsAssumption == Retries \in Options /\ {Zero, FlagDefault} \subseteq Values
ASSUME TokensAssumption ==
  /\ Missing # Invalid /\ {Missing, Invalid} \cap Texts = {}
  /\ Absent \notin Values /\ Bad \notin Options \X Values
ASSUME FilesAssumption == Files \cup Fallbacks \subseteq Texts \cup {Missing, Invalid}
ASSUME RequestsAssumption == Requests \subseteq Seq(Settings)

VARIABLES
  file, initial,  \* the file, and what it was at first
  fallback,       \* crictl.yaml in the program's directory
  explicit,       \* --config or CRI_CONFIG_FILE is given
  command,        \* "config" or "use": any other command of crictl
  request,        \* the settings of each config command
  pc,             \* where each process is
  config,         \* the Config in the memory of each process
  applied,        \* the number of settings applied to it
  retries,        \* the retries in force in each process
  base,           \* the file when the process started
  solo            \* no other process has run since it started

inputs == <<initial, fallback, explicit, command, request>>
history == <<base, solo>>
vars == <<file, inputs, pc, config, applied, retries, history>>

Ended == {"done", "rejected", "failed", "killed"}

TypeOK ==
  /\ {file, initial, fallback} \subseteq Texts \cup {Missing, Invalid}
  /\ explicit \in BOOLEAN
  /\ command \in [Procs -> {"config", "use"}]
  /\ request \in [Procs -> Requests]
  /\ pc \in [Procs -> {"idle", "stat", "create", "fill", "read", "set",
                       "truncate", "write"} \cup Ended]
  /\ config \in [Procs -> [Options -> Values]]
  /\ applied \in [Procs -> Nat] /\ \A p \in Procs : applied[p] <= Len(request[p])
  /\ retries \in [Procs -> Values]
  /\ base \in [Procs -> Texts \cup {Missing, Invalid}]
  /\ solo \in [Procs -> BOOLEAN]

Init ==
  /\ file \in Files /\ initial = file
  /\ fallback \in Fallbacks
  /\ explicit \in BOOLEAN
  /\ command \in [Procs -> {"config", "use"}]
  /\ request \in [Procs -> Requests]
  /\ pc = [p \in Procs |-> "idle"]
  /\ config = [p \in Procs |-> [o \in Options |-> Zero]]
  /\ applied = [p \in Procs |-> 0]
  /\ retries = [p \in Procs |-> FlagDefault]
  /\ base = [p \in Procs |-> file]
  /\ solo = [p \in Procs |-> FALSE]

Active(p) == pc[p] \notin {"idle"} \cup Ended
Goto(p, to) == pc' = [pc EXCEPT ![p] = to]

(* getConfigOptions: the fields of an option the file does not name keep     *)
(* their zero value.                                                         *)
Parsed(text) == [o \in Options |-> IF text[o] = Absent THEN Zero ELSE text[o]]

-----------------------------------------------------------------------------
(* The file that Before reads. *)
Found == IF file = Missing THEN fallback ELSE file

FlagRetries == FlagDefault

FileRetries(text) == Parsed(text)[Retries]

(* Before: an unreadable file is an error only when --config is given, and   *)
(* one that is missing not even then for crictl config.  Without a file the  *)
(* flags count; with one its max-retries does, named in it or not.           *)
Start(p) ==
  /\ pc[p] = "idle"
  /\ base' = [base EXCEPT ![p] = file]
  /\ solo' = [q \in Procs |-> q = p /\ \A r \in Procs : ~Active(r)]
  /\ retries' = [retries EXCEPT ![p] = IF Found \in Texts THEN FileRetries(Found)
                                                          ELSE FlagRetries]
  /\ \/ /\ Found \in Texts \/ ~explicit \/ (Found = Missing /\ command[p] = "config")
        /\ Goto(p, IF command[p] = "config" THEN "stat" ELSE "done")
     \/ /\ Found \notin Texts /\ explicit /\ ~(Found = Missing /\ command[p] = "config")
        /\ Goto(p, "failed")
  /\ UNCHANGED <<file, inputs, config, applied>>

(* os.Stat: a missing file is created with WriteConfig(nil).                 *)
Stat(p) ==
  /\ pc[p] = "stat"
  /\ Goto(p, IF file = Missing THEN "create" ELSE "read")
  /\ UNCHANGED <<file, inputs, config, applied, retries, history>>

(* ReadConfig; --get and --list then print and end.                          *)
Read(p) ==
  /\ pc[p] = "read"
  /\ \/ /\ file \in Texts
        /\ config' = [config EXCEPT ![p] = Parsed(file)]
        /\ Goto(p, IF request[p] = <<>> THEN "done" ELSE "set")
     \/ /\ file \notin Texts
        /\ Goto(p, "failed")
        /\ UNCHANGED config
  /\ UNCHANGED <<file, inputs, applied, retries, history>>

Setting(p) == request[p][applied[p] + 1]

\* Faulty variant: one option's value goes to the field of all of them.
SetValueElsewhere(p) ==
  /\ pc[p] = "set" /\ applied[p] < Len(request[p]) /\ Setting(p) # Bad
  /\ config' = [config EXCEPT ![p] = [o \in Options |-> Setting(p)[2]]]
  /\ applied' = [applied EXCEPT ![p] = @ + 1]
  /\ UNCHANGED <<file, inputs, pc, retries, history>>

(* setValue of the next setting: the last one of an option wins.             *)
SetValue(p) ==
  /\ pc[p] = "set" /\ applied[p] < Len(request[p]) /\ Setting(p) # Bad
  /\ config' = [config EXCEPT ![p][Setting(p)[1]] = Setting(p)[2]]
  /\ applied' = [applied EXCEPT ![p] = @ + 1]
  /\ UNCHANGED <<file, inputs, pc, retries, history>>

\* Faulty variant: a bad setting is skipped and the rest is written.
RejectLater(p) ==
  /\ pc[p] = "set" /\ applied[p] < Len(request[p]) /\ Setting(p) = Bad
  /\ Goto(p, "truncate")
  /\ UNCHANGED <<file, inputs, config, applied, retries, history>>

(* An unknown option or a value that does not parse ends the command.        *)
Reject(p) ==
  /\ pc[p] = "set" /\ applied[p] < Len(request[p]) /\ Setting(p) = Bad
  /\ Goto(p, "rejected")
  /\ UNCHANGED <<file, inputs, config, applied, retries, history>>

AllApplied(p) ==
  /\ pc[p] = "set" /\ applied[p] = Len(request[p])
  /\ Goto(p, "truncate")
  /\ UNCHANGED <<file, inputs, config, applied, retries, history>>

-----------------------------------------------------------------------------
(* WriteConfig sets every option in the text; a config that is nil has the   *)
(* zero values.  config[p] has them too until Read.                          *)
(* os.WriteFile opens and truncates the file, or fails to ...                *)
Open(p) ==
  /\ pc[p] \in {"create", "truncate"}
  /\ \/ /\ file' = Empty
        /\ Goto(p, IF pc[p] = "create" THEN "fill" ELSE "write")
     \/ /\ UNCHANGED file
        /\ Goto(p, "failed")
  /\ UNCHANGED <<inputs, config, applied, retries, history>>

(* ... and writes at its start.  When another process has written since, the *)
(* end of that longer text may be left over: whole lines, which count, or a  *)
(* rest that does not parse.                                                 *)
Overwritten(old, new) ==
  {new} \cup
  IF old \in {Empty, new} THEN {}
  ELSE {Invalid} \cup
       IF old \notin Texts THEN {}
       ELSE {[o \in Options |-> IF o \in kept /\ old[o] # Absent THEN old[o] ELSE new[o]] :
               kept \in SUBSET Options}

Write(p) ==
  /\ pc[p] \in {"fill", "write"}
  /\ \/ /\ file' \in Overwritten(file, config[p])
        /\ Goto(p, IF pc[p] = "fill" THEN "read" ELSE "done")
     \/ /\ UNCHANGED file          \* no space left
        /\ Goto(p, "failed")
  /\ UNCHANGED <<inputs, config, applied, retries, history>>

(* crictl config has no signal handler: a signal kills it where it is.       *)
Kill(p) ==
  /\ Active(p)
  /\ Goto(p, "killed")
  /\ UNCHANGED <<file, inputs, config, applied, retries, history>>

Next == \E p \in Procs :
  \/ Start(p) \/ Stat(p) \/ Read(p) \/ SetValue(p) \/ Reject(p) \/ AllApplied(p)
  \/ Open(p) \/ Write(p) \/ Kill(p)

Spec == Init /\ [][Next]_vars

-----------------------------------------------------------------------------
Asked(p, o) == {request[p][n][2] : n \in {m \in 1..Len(request[p]) :
                                 request[p][m] # Bad /\ request[p][m][1] = o}}

(* What an option may be: nobody's value, or one the first file or a setting *)
(* gave to this very option.                                                 *)
Given(o) ==
  {Absent, Zero} \cup (IF initial \in Texts THEN {initial[o]} ELSE {})
                 \cup UNION {Asked(p, o) : p \in Procs}

(* However processes overlap and wherever they are killed, an option in the  *)
(* file has a value somebody gave to that option.                            *)
NoInventedValue == file \in Texts => \A o \in Options : file[o] \in Given(o)

(* The effect a list of settings should have on a file.                      *)
Updated(text, settings) ==
  [o \in Options |->
    LET places == {n \in 1..Len(settings) : settings[n] # Bad /\ settings[n][1] = o}
    IN  IF places = {} THEN Parsed(text)[o]
        ELSE settings[CHOOSE n \in places : \A m \in places : m <= n][2]]

Before(p) == IF base[p] = Missing THEN Empty ELSE base[p]

(* With no other process about, a set command that succeeds has changed      *)
(* exactly the options it names, and one whose settings are rejected none of *)
(* them, be the bad one the last of the list.                                *)
SetIsAllOrNothing ==
  \A p \in Procs : solo[p] /\ command[p] = "config" =>
    /\ pc[p] = "done" => /\ \A n \in 1..Len(request[p]) : request[p][n] # Bad
                          /\ Parsed(file) = Updated(Before(p), request[p])
    /\ pc[p] = "rejected" => Parsed(file) = Parsed(Before(p))

(* A file that does not parse is left for its owner to repair: no command    *)
(* rewrites it.                                                              *)
InvalidSpared == initial = Invalid => file = Invalid
=============================================================================
