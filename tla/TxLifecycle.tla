---------------------------- MODULE TxLifecycle ----------------------------
(***************************************************************************)
(* What execute_plan does after its commit: the plan's format steps, then  *)
(* its validation steps, each a shell command (ShellCommand) that may edit *)
(* any file of the workspace and leave processes behind; and in strict     *)
(* mode, when a required step fails, the revert of the commit and of what  *)
(* the commands did to other files (collateral).                           *)
(*                                                                         *)
(* The commit is one step here, and it succeeds; how it goes, and what its *)
(* session can restore, is TxCommit's and BackupStore's matter.            *)
(***************************************************************************)
EXTENDS ShellCommand, Sequences

CONSTANTS
  File,       \* files of the workspace
  Text,       \* what a text file may hold
  None,       \* no file
  Bytes,      \* a file that is not text
  Unread,     \* files a snapshot does not take: ignored, larger than 1 MiB
  Plans,      \* strict, writes: file -> text or None, steps
  InitialDisks,
  MaxFaults   \* bound on restoring writes that fail

Step == [kind : {"format", "validate"}, required : BOOLEAN]
Value == Text \cup {None, Bytes}

ASSUME LifecycleAssumption ==
  /\ None \notin Text /\ Bytes \notin Text /\ None # Bytes
  /\ MaxFaults \in Nat
  /\ InitialDisks \subseteq [File -> Value]
  /\ \A p \in Plans :
       /\ DOMAIN p.writes \subseteq File
       /\ \A f \in DOMAIN p.writes : p.writes[f] \in Text \cup {None}
       /\ p.steps \in Seq(Step)

VARIABLES
  plan,
  disk,
  before,    \* the workspace before the commit
  snapshot,  \* snapshot_non_tx_files
  results,   \* what each step run so far came to
  phase,     \* commit, snapshot, steps, restoring, collateral, done
  left,      \* what the restore has still to do
  outcome,   \* what the caller is told
  stray,     \* a process of an earlier command still runs
  touched,   \* files the commands edited after the last step ended
  faults

lifeVars == <<plan, disk, before, snapshot, results, phase, left, outcome,
              stray, touched, faults>>
vars == <<cmdVars, lifeVars>>

-----------------------------------------------------------------------------
Owned == DOMAIN plan.writes

(* The originals are in the session, so its restore puts back `before`.    *)
Commit ==
  /\ phase = "commit"
  /\ disk' = [f \in File |-> IF f \in Owned THEN plan.writes[f] ELSE disk[f]]
  /\ before' = disk
  /\ phase' = IF plan.strict /\ plan.steps # << >> THEN "snapshot" ELSE "steps"
  /\ UNCHANGED <<cmdVars, plan, snapshot, results, left, outcome, stray, touched, faults>>

(* A mistake for TLC to find: the plan's own files are taken as well.      *)
SnapshotOfAll ==
  /\ phase = "snapshot"
  /\ snapshot' = [f \in {g \in File \ Unread : disk[g] \in Text} |-> disk[f]]
  /\ phase' = "steps"
  /\ UNCHANGED <<cmdVars, plan, disk, before, results, left, outcome, stray, touched, faults>>

(* The texts of the workspace that the plan does not own.                  *)
Snapshot ==
  /\ phase = "snapshot"
  /\ snapshot' = [f \in {g \in File \ (Owned \cup Unread) : disk[g] \in Text} |-> disk[f]]
  /\ phase' = "steps"
  /\ UNCHANGED <<cmdVars, plan, disk, before, results, left, outcome, stray, touched, faults>>

-----------------------------------------------------------------------------
(* run_lifecycle: the steps in order, until a required one fails.          *)
StartStep ==
  /\ phase = "steps" /\ caller.pc = "quiet"
  /\ Len(results) < Len(plan.steps)
  /\ Spawn
  /\ stray' = (stray \/ alive # {})
  /\ UNCHANGED <<plan, disk, before, snapshot, results, phase, left, outcome, touched, faults>>

Result ==
  CASE caller.pc = "exited"    -> caller.status
    [] caller.pc = "timed_out" -> "timed_out"
    [] OTHER                   -> "error"

FailureKind(step) == IF step.kind = "format" THEN "format_failed" ELSE "validation_failed"

(* The step came to r.                                                     *)
Conclude(r) ==
  LET step == plan.steps[Len(results) + 1]
      fatal == step.required /\ r # "ok"
  IN  /\ results' = Append(results, r)
      /\ touched' = {}
      /\ IF ~fatal THEN UNCHANGED <<phase, left, outcome>>
         ELSE IF plan.strict
         THEN phase' = "restoring" /\ left' = Owned /\ UNCHANGED outcome
         ELSE phase' = "done" /\ outcome' = FailureKind(step) /\ UNCHANGED left
      /\ UNCHANGED <<treeVars, reader, clock, plan, disk, before, snapshot, stray, faults>>

EndStep ==
  /\ phase = "steps" /\ Returned
  /\ caller' = Quiet
  /\ Conclude(Result)

(* The shell could not be spawned.                                         *)
SpawnFails ==
  /\ phase = "steps" /\ caller.pc = "quiet"
  /\ Len(results) < Len(plan.steps)
  /\ UNCHANGED caller
  /\ Conclude("error")

(* A mistake for TLC to find: the validation steps are forgotten.          *)
SucceedFormatted ==
  /\ phase = "steps" /\ caller.pc = "quiet"
  /\ \A i \in DOMAIN plan.steps : i > Len(results) => plan.steps[i].kind = "validate"
  /\ phase' = "done" /\ outcome' = "success"
  /\ UNCHANGED <<cmdVars, plan, disk, before, snapshot, results, left, stray, touched, faults>>

Succeed ==
  /\ phase = "steps" /\ caller.pc = "quiet"
  /\ Len(results) = Len(plan.steps)
  /\ phase' = "done" /\ outcome' = "success"
  /\ UNCHANGED <<cmdVars, plan, disk, before, snapshot, results, left, stray, touched, faults>>

-----------------------------------------------------------------------------
(* revert_strict_lifecycle: restore_session, then restore_collateral_files *)
(* whether or not it succeeded.                                            *)
RestoreOwned ==
  /\ phase = "restoring"
  /\ \E f \in left :
       /\ disk' = [disk EXCEPT ![f] = before[f]]
       /\ left' = left \ {f}
       /\ touched' = touched \ {f}
  /\ UNCHANGED <<cmdVars, plan, before, snapshot, results, phase, outcome, stray, faults>>

StartCollateral ==
  /\ phase' = "collateral" /\ left' = DOMAIN snapshot
  /\ UNCHANGED <<cmdVars, plan, disk, before, snapshot, results, stray, touched>>

OwnedRestored ==
  /\ phase = "restoring" /\ left = {}
  /\ StartCollateral
  /\ UNCHANGED <<outcome, faults>>

RestoreFails ==
  /\ phase = "restoring" /\ left # {}
  /\ faults < MaxFaults /\ faults' = faults + 1
  /\ outcome' = "rollback_failed"
  /\ StartCollateral

(* Files that can no longer be read as text are left as they are.          *)
RestoreCollateral ==
  /\ phase = "collateral"
  /\ \E f \in left :
       /\ disk' = IF disk[f] \in Text THEN [disk EXCEPT ![f] = snapshot[f]] ELSE disk
       /\ left' = left \ {f}
       /\ touched' = IF disk[f] \in Text THEN touched \ {f} ELSE touched
  /\ UNCHANGED <<cmdVars, plan, before, snapshot, results, phase, outcome, stray, faults>>

CollateralFails ==
  /\ phase = "collateral"
  /\ faults < MaxFaults /\ faults' = faults + 1
  /\ \E f \in left : disk[f] \in Text \ {snapshot[f]} /\ left' = left \ {f}
  /\ outcome' = "rollback_failed"
  /\ UNCHANGED <<cmdVars, plan, disk, before, snapshot, results, phase, stray, touched>>

Reverted ==
  /\ phase = "collateral" /\ left = {}
  /\ phase' = "done"
  /\ outcome' = IF outcome = "rollback_failed" THEN outcome
                ELSE FailureKind(plan.steps[Len(results)])
  /\ UNCHANGED <<cmdVars, plan, disk, before, snapshot, results, left, stray, touched, faults>>

-----------------------------------------------------------------------------
(* A process of a command, one of an earlier command included, edits a     *)
(* file, removes it, or makes bytes of it.                                 *)
Edit(f) ==
  /\ alive # {} \/ stray
  /\ \E c \in Value \ {disk[f]} : disk' = [disk EXCEPT ![f] = c]
  /\ touched' = IF caller.pc = "quiet" THEN touched \cup {f} ELSE touched
  /\ UNCHANGED <<cmdVars, plan, before, snapshot, results, phase, left, outcome, stray, faults>>

Command == CommandMoves /\ UNCHANGED lifeVars

Reader == ReaderMoves /\ UNCHANGED lifeVars

Caller == CallerMoves /\ UNCHANGED lifeVars

Init ==
  /\ plan \in Plans
  /\ disk \in InitialDisks
  /\ before = disk
  /\ snapshot = << >>
  /\ results = << >>
  /\ phase = "commit"
  /\ left = {}
  /\ outcome = "none"
  /\ stray = FALSE
  /\ touched = {}
  /\ faults = 0
  /\ alive = {} /\ group = {} /\ holds = {}
  /\ code = NoCode
  /\ pipe = 0
  /\ reader = [pc |-> "sent", total |-> 0]
  /\ caller = Quiet
  /\ clock = 0

Engine ==
  \/ Commit \/ Snapshot
  \/ StartStep \/ EndStep \/ SpawnFails \/ Succeed
  \/ RestoreOwned \/ OwnedRestored \/ RestoreFails
  \/ RestoreCollateral \/ CollateralFails \/ Reverted
  \/ Caller

Next == Engine \/ Reader \/ Command \/ \E f \in File : Edit(f)

(* The engine's own threads run; nothing is assumed of the commands.       *)
Spec == Init /\ [][Next]_vars /\ WF_vars(Engine)

-----------------------------------------------------------------------------
(* Type invariant.                                                         *)
LifecycleTypeOK ==
  /\ CommandTypeOK
  /\ plan \in Plans
  /\ disk \in [File -> Value]
  /\ DOMAIN snapshot \subseteq File \ Owned
  /\ \A f \in DOMAIN snapshot : snapshot[f] \in Text
  /\ Len(results) <= Len(plan.steps)
  /\ left \subseteq File /\ touched \subseteq File
  /\ phase \in {"commit", "snapshot", "steps", "restoring", "collateral", "done"}
  /\ phase # "steps" => caller.pc = "quiet"
  /\ outcome \in {"none", "success", "format_failed", "validation_failed", "rollback_failed"}
  /\ faults \in 0..MaxFaults

(***************************************************************************)
(* When a strict plan reports "all changes reverted", every file it wrote, *)
(* created or deleted is as it was before the commit, whatever the         *)
(* commands did to it, and every text they changed elsewhere is as it was; *)
(* except what a process that outlived its command did since, and texts a  *)
(* command deleted or made bytes of, which restore_collateral_files skips. *)
(***************************************************************************)
Failures == {"format_failed", "validation_failed"}

StrictReverts ==
  plan.strict /\ outcome \in Failures =>
    /\ \A f \in Owned \ touched : disk[f] = before[f]
    /\ \A f \in DOMAIN snapshot \ touched : disk[f] \in {before[f], None, Bytes}

(***************************************************************************)
(* Success is reported only after every step has run and every required    *)
(* one exited with 0 within its deadline; a failure only if the last one   *)
(* run was required and did not; a step that is not required never decides *)
(* the outcome.                                                            *)
(***************************************************************************)
OutcomeMeansSteps ==
  LET Passed(i) == plan.steps[i].required => results[i] = "ok"
  IN  /\ outcome = "success" =>
           Len(results) = Len(plan.steps) /\ \A i \in DOMAIN results : Passed(i)
      /\ outcome \notin {"none", "success"} =>
           ~Passed(Len(results)) /\ \A i \in 1..(Len(results) - 1) : Passed(i)

(***************************************************************************)
(* A plan comes to an outcome whatever its commands do: one that ignores   *)
(* its group, holds stderr for ever, closes it and runs on, fills the pipe *)
(* or leaves processes behind.                                             *)
(***************************************************************************)
ComesToAnOutcome == <>(phase = "done")
=============================================================================
