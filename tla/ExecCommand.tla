---------------------------- MODULE ExecCommand ----------------------------
(***************************************************************************)
(* crictl exec on one or several containers (cmd/crictl/exec.go): one      *)
(* function per container, all run by AggregateGoroutines.  With --sync a  *)
(* function uses ExecSync and has an err of its own.  Without it, the      *)
(* function assigns the result of Exec to the err variable of the          *)
(* enclosing Action, which all goroutines share, and then tests it.        *)
(*                                                                         *)
(* Names that RemoveContainers has too begin with exec, so that a module   *)
(* of proofs extends both of these parallel commands.                      *)
(***************************************************************************)
EXTENDS Naturals, FiniteSets

CONSTANTS
  Ids,        \* the containers selected on the command line or by the filters
  Codes       \* the exit codes of a command, 0 among them

ASSUME IdsAssumption == Ids # {}
ASSUME CodesAssumption == 0 \in Codes /\ Codes \subseteq 0..255

VARIABLES
  sync, ignoreErrors,   \* the flags
  code,       \* how each command ends: an exit code, or NoCall when the call fails
  place,      \* where each function is
  local,      \* the result of Exec, not yet assigned
  shared,     \* the err variable of Action
  sent,       \* what each function put into errChan
  collected,  \* the results AggregateGoroutines has received
  exit        \* the exit status of crictl, Running before that

execFlags == <<sync, ignoreErrors>>
execVars == <<execFlags, code, place, local, shared, sent, collected, exit>>

NoCall == 256
Running == 257
Errors == {"nil", "err"}

ExecTypeOK ==
  /\ sync \in BOOLEAN /\ ignoreErrors \in BOOLEAN
  /\ code \in [Ids -> Codes \cup {NoCall}]
  /\ place \in [Ids -> {"spawned", "exec", "assign", "test", "sent"}]
  /\ local \in [Ids -> Errors]
  /\ shared \in Errors
  /\ sent \in [Ids -> Errors \cup {"none"}]
  /\ collected \subseteq Ids
  /\ exit \in {0, 1, Running}

ExecInit ==
  /\ sync \in BOOLEAN /\ ignoreErrors \in BOOLEAN
  /\ code \in [Ids -> Codes \cup {NoCall}]
  /\ place = [i \in Ids |-> "spawned"]
  /\ local = [i \in Ids |-> "nil"]
  /\ shared = "nil"
  /\ sent = [i \in Ids |-> "none"]
  /\ collected = {}
  /\ exit = Running

Succeeds(i) == code[i] = 0

ErrorOf(i) == IF Succeeds(i) THEN "nil" ELSE "err"

-----------------------------------------------------------------------------
(* AggregateGoroutines starts every function at once. *)
Begin(i) ==
  /\ place[i] = "spawned"
  /\ place' = [place EXCEPT ![i] = "exec"]
  /\ UNCHANGED <<execFlags, code, local, shared, sent, collected, exit>>

\* Faulty variant: only the exit code returned is looked at.
SyncEndsNoError(i) ==
  /\ sync /\ place[i] = "exec"
  /\ place' = [place EXCEPT ![i] = "sent"]
  /\ sent' = [sent EXCEPT ![i] = "nil"]
  /\ UNCHANGED <<execFlags, code, local, shared, collected, exit>>

(* ExecSync: the CRI client turns a non-zero exit code into an error, so    *)
(* the branch on exitCode # 0 is never taken and the code itself is lost.   *)
SyncEnds(i) ==
  /\ sync /\ place[i] = "exec"
  /\ place' = [place EXCEPT ![i] = "sent"]
  /\ sent' = [sent EXCEPT ![i] = ErrorOf(i)]
  /\ UNCHANGED <<execFlags, code, local, shared, collected, exit>>

(* Exec returns; err = ... and if err != nil are two accesses to shared. *)
StreamEnds(i) ==
  /\ ~sync /\ place[i] = "exec"
  /\ place' = [place EXCEPT ![i] = "assign"]
  /\ local' = [local EXCEPT ![i] = ErrorOf(i)]
  /\ UNCHANGED <<execFlags, code, shared, sent, collected, exit>>

Assign(i) ==
  /\ place[i] = "assign"
  /\ place' = [place EXCEPT ![i] = "test"]
  /\ shared' = local[i]
  /\ UNCHANGED <<execFlags, code, local, sent, collected, exit>>

Test(i) ==
  /\ place[i] = "test"
  /\ place' = [place EXCEPT ![i] = "sent"]
  /\ sent' = [sent EXCEPT ![i] = shared]
  /\ UNCHANGED <<execFlags, code, local, shared, collected, exit>>

\* Faulty variant: the channel is drained of errors only.
CollectErrors(i) ==
  /\ sent[i] = "err" /\ i \notin collected
  /\ collected' = collected \cup {i}
  /\ UNCHANGED <<execFlags, code, place, local, shared, sent, exit>>

(* AggregateGoroutines receives one value per function. *)
Collect(i) ==
  /\ sent[i] # "none" /\ i \notin collected
  /\ collected' = collected \cup {i}
  /\ UNCHANGED <<execFlags, code, place, local, shared, sent, exit>>

(* errors.Join, then main: a joined error is no ExitCoder, so it exits 1. *)
ExecReturn ==
  /\ exit = Running /\ collected = Ids
  /\ exit' = IF ~ignoreErrors /\ \E i \in Ids : sent[i] = "err" THEN 1 ELSE 0
  /\ UNCHANGED <<execFlags, code, place, local, shared, sent, collected>>

ExecNext ==
  \/ ExecReturn
  \/ \E i \in Ids : \/ Begin(i) \/ SyncEnds(i) \/ StreamEnds(i)
                    \/ Assign(i) \/ Test(i) \/ Collect(i)

ExecSpec == ExecInit /\ [][ExecNext]_execVars

(* Nothing is assumed of the commands, which may run for ever. *)
ExecFairness ==
  /\ WF_execVars(ExecReturn)
  /\ \A i \in Ids : /\ WF_execVars(Begin(i)) /\ WF_execVars(Assign(i) \/ Test(i))
                    /\ WF_execVars(Collect(i))

ExecFairSpec == ExecSpec /\ ExecFairness

-----------------------------------------------------------------------------
(* With --sync, crictl exits 0 exactly when every command succeeded (or     *)
(* errors are ignored), in whatever order the commands end.                 *)
SyncExitStatus ==
  sync /\ exit # Running =>
    (exit = 0 <=> ignoreErrors \/ \A i \in Ids : Succeeds(i))

(* Without --sync at least a unanimous outcome is reported: the race on err *)
(* cannot turn all successes into a failure, nor all failures into success. *)
UnanimousOutcome ==
  exit # Running /\ ~ignoreErrors =>
    /\ (\A i \in Ids : Succeeds(i)) => exit = 0
    /\ (\A i \in Ids : ~Succeeds(i)) => exit = 1

(* crictl waits for every command it has started before it exits. *)
NoCommandAbandoned ==
  exit # Running => \A i \in Ids : place[i] = "sent" /\ i \in collected

(* Once all commands have ended crictl exits: no result is waited for twice *)
(* and none is left in the channel.                                         *)
ExitsWhenAllEnd ==
  (\A i \in Ids : place[i] \notin {"spawned", "exec"}) ~> exit # Running

(* The comment on AggregateGoroutines promises "all non-nil errors" in the  *)
(* result: a failed command is reported unless errors are ignored.  It does *)
(* not hold without --sync: another goroutine's nil overwrites the error.   *)
FailureReported ==
  exit # Running /\ ~ignoreErrors /\ (\E i \in Ids : ~Succeeds(i)) => exit = 1
=============================================================================
