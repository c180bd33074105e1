-------------------------- MODULE Lifecycle_proofs --------------------------
(***************************************************************************)
(* For any processes, deadlines, plans, files and number of faults: a      *)
(* command's end is reported when it is over, its timeout when its group   *)
(* is dead; a strict plan that fails has reverted what it says; and its    *)
(* outcome is what its steps came to.                                      *)
(***************************************************************************)
EXTENDS TxLifecycle, TLAPS

Callers ==
  [pc : {"quiet", "poll", "wait", "killed", "exited", "timed_out", "errored"},
   status : Codes \cup {NoCode}, head : BOOLEAN, waited : 0..Grace]

Readers == [pc : {"reading", "sent", "broken"}, total : 0..(Capture + 1)]

(***************************************************************************)
(* The invariant of a command.  Once the reader has seen the end of        *)
(* stderr nobody can open it again; a status is that of a dead shell; and  *)
(* a group that was killed stays dead, because only its members could fork *)
(* new ones.  The clock is bounded by where the caller stands.             *)
(***************************************************************************)
CommandInv ==
  /\ alive \subseteq Member /\ group \subseteq Member /\ holds \subseteq alive
  /\ code \in Codes \cup {NoCode}
  /\ pipe \in 0..PipeSize
  /\ reader \in Readers /\ caller \in Callers
  /\ clock \in 0..(Deadline + Grace)
  /\ reader.pc = "sent" => holds = {} /\ pipe = 0
  /\ caller.head => HasSent
  /\ code # NoCode => Shell \notin alive
  /\ caller.status # NoCode => caller.status = code
  /\ caller.pc = "exited" => caller.status # NoCode /\ caller.head
  /\ caller.pc = "wait" => clock < Deadline
  /\ caller.pc \in {"poll", "exited"} => clock <= Deadline
  /\ caller.pc \in {"killed", "timed_out"} =>
       clock <= Deadline + caller.waited /\ alive \cap group = {}

LEMMA CodesOK == NoCode \notin Codes
BY DEF NoCode, Codes

-----------------------------------------------------------------------------
(* What a command's own processes do.                                      *)
LEMMA CommandMovesKeep == CommandInv /\ CommandMoves => CommandInv'
<1> SUFFICES ASSUME CommandInv, NEW m \in Member,
                    \/ Fork(m) \/ CloseStderr(m) \/ LeaveGroup(m)
                    \/ WriteStderr(m) \/ Exit(m)
             PROVE  CommandInv'
  BY DEF CommandMoves
<1>1. CASE Fork(m)
  <2>1. PICK n \in Member \ ({Shell} \cup alive) :
          /\ alive' = alive \cup {n}
          /\ group' = IF m \in group THEN group \cup {n} ELSE group \ {n}
          /\ holds' = IF m \in holds THEN holds \cup {n} ELSE holds
    BY <1>1 DEF Fork
  <2>2. m \in alive /\ UNCHANGED <<code, pipe, reader, caller, clock>>
    BY <1>1 DEF Fork
  <2>3. QED
    BY <2>1, <2>2 DEF CommandInv, HasSent
<1>2. CASE CloseStderr(m)
  BY <1>2 DEF CommandInv, HasSent, CloseStderr
<1>3. CASE LeaveGroup(m)
  BY <1>3 DEF CommandInv, HasSent, LeaveGroup
<1>4. CASE WriteStderr(m)
  BY <1>4, CommandAssumption DEF CommandInv, HasSent, WriteStderr
<1>5. CASE Exit(m)
  BY <1>5, CodesOK DEF CommandInv, HasSent, Exit
<1>6. QED
  BY <1>1, <1>2, <1>3, <1>4, <1>5

LEMMA ReadKeeps == CommandInv /\ ReaderMoves => CommandInv'
<1> SUFFICES ASSUME CommandInv, ReaderMoves PROVE CommandInv'
  OBVIOUS
<1>1. /\ reader.pc = "reading" /\ UNCHANGED <<alive, group, holds, code, caller, clock>>
  BY DEF ReaderMoves, Read, ReadFails
<1>2. CASE pipe > 0 /\ pipe' = pipe - 1 /\ reader' = [reader EXCEPT !.total = More(@)]
  <2>1. reader' \in Readers /\ reader'.pc = "reading"
    BY <1>1, <1>2, CommandAssumption DEF CommandInv, Readers, More
  <2>2. QED
    BY <1>1, <1>2, <2>1, CommandAssumption DEF CommandInv, HasSent
<1>3. CASE pipe = 0 /\ holds = {} /\ reader' = [reader EXCEPT !.pc = "sent"] /\ UNCHANGED pipe
  <2>1. reader' \in Readers /\ reader'.pc = "sent"
    BY <1>3 DEF CommandInv, Readers
  <2>2. QED
    BY <1>1, <1>3, <2>1 DEF CommandInv, HasSent
<1>4. CASE ReadFails
  <2>1. reader' \in Readers /\ reader'.pc = "broken" /\ pipe' = 0
    BY <1>4 DEF CommandInv, Readers, ReadFails
  <2>2. QED
    BY <1>1, <2>1, CommandAssumption DEF CommandInv, HasSent
<1>5. QED
  BY <1>2, <1>3, <1>4 DEF ReaderMoves, Read

(* The caller's loop.                                                      *)
LEMMA KillKeeps ==
  ASSUME CommandInv, caller.pc = "poll", Kill
  PROVE  CommandInv'
<1>0. /\ caller \in Callers /\ 0 \in 0..Grace
      /\ caller' = [caller EXCEPT !.pc = "killed", !.waited = 0]
  BY CommandAssumption DEF Kill, CommandInv, HasSent
<1>1. /\ caller' \in Callers /\ caller'.pc = "killed" /\ caller'.waited = 0
      /\ caller'.status = caller.status /\ caller'.head = caller.head
  BY <1>0 DEF Callers
<1>2. /\ alive' = alive \ group /\ holds' = holds \ group
      /\ UNCHANGED <<group, code, pipe, reader, clock>>
  BY DEF Kill
<1>3. QED
  BY <1>1, <1>2, CommandAssumption DEF CommandInv, HasSent

LEMMA PollKeeps == CommandInv /\ Poll => CommandInv'
<1> SUFFICES ASSUME CommandInv, Poll PROVE CommandInv'
  OBVIOUS
<1>1. caller.pc = "poll"
  BY DEF Poll
<1>2. CASE clock >= Deadline
  BY <1>1, <1>2, KillKeeps DEF Poll
<1>3. CASE ~(clock >= Deadline)
  <2> DEFINE status == IF caller.status = NoCode THEN code ELSE caller.status
             pc == IF status # NoCode /\ caller.head THEN "exited" ELSE "wait"
  <2>1. /\ caller' = [caller EXCEPT !.status = status, !.pc = pc]
        /\ UNCHANGED <<treeVars, reader, clock>>
    BY <1>3 DEF Poll
  <2>2. status = code
    BY DEF CommandInv, HasSent
  <2>3. /\ caller' \in Callers /\ caller'.pc = pc /\ caller'.status = code
        /\ caller'.head = caller.head /\ caller'.waited = caller.waited
    BY <2>1, <2>2 DEF CommandInv, Callers
  <2>4. QED
    BY <1>3, <2>1, <2>2, <2>3, CommandAssumption DEF CommandInv, HasSent, treeVars
<1>4. QED
  BY <1>2, <1>3

LEMMA CallerMovesKeep == CommandInv /\ CallerMoves => CommandInv'
<1> SUFFICES ASSUME CommandInv, CallerMoves PROVE CommandInv'
  OBVIOUS
<1>1. CASE Poll
  BY <1>1, PollKeeps
<1>2. CASE Receive
  <2>1. /\ caller' \in Callers /\ caller'.pc = "poll" /\ caller'.head = TRUE
        /\ caller'.status = caller.status
    BY <1>2 DEF Receive, CommandInv, Callers
  <2>2. QED
    BY <1>2, <2>1, CommandAssumption DEF Receive, CommandInv, treeVars, HasSent
<1>3. CASE WaitEnds
  <2>1. /\ caller' \in Callers /\ caller'.pc = "poll"
        /\ caller'.head = caller.head /\ caller'.status = caller.status
    BY <1>3 DEF WaitEnds, CommandInv, Callers
  <2>2. QED
    BY <1>3, <2>1, CommandAssumption DEF WaitEnds, CommandInv, HasSent, treeVars
<1>4. CASE TimedOut
  <2>1. /\ caller' \in Callers /\ caller'.pc = "timed_out" /\ caller'.waited = caller.waited
        /\ caller'.head = caller.head /\ caller'.status = caller.status
    BY <1>4 DEF TimedOut, CommandInv, Callers
  <2>2. QED
    BY <1>4, <2>1 DEF TimedOut, CommandInv, HasSent, treeVars
<1>5. CASE GraceTick
  <2>1. /\ caller' \in Callers /\ caller'.pc = "killed" /\ caller'.waited = caller.waited + 1
        /\ caller'.head = caller.head /\ caller'.status = caller.status
    BY <1>5, CommandAssumption DEF GraceTick, CommandInv, Callers
  <2>2. QED
    BY <1>5, <2>1, CommandAssumption DEF GraceTick, CommandInv, HasSent, Callers, treeVars
<1>6. CASE PollFails
  <2>1. /\ caller' \in Callers /\ caller'.pc = "errored"
        /\ caller'.head = caller.head /\ caller'.status = caller.status
    BY <1>6 DEF PollFails, CommandInv, Callers
  <2>2. QED
    BY <1>6, <2>1 DEF PollFails, CommandInv, treeVars, HasSent
<1>7. QED
  BY <1>1, <1>2, <1>3, <1>4, <1>5, <1>6 DEF CallerMoves

LEMMA SpawnKeeps == CommandInv /\ Spawn => CommandInv'
<1> SUFFICES ASSUME CommandInv, Spawn PROVE CommandInv'
  OBVIOUS
<1>0. caller' = [pc |-> "poll", status |-> NoCode, head |-> FALSE, waited |-> 0]
  BY DEF Spawn, Quiet
<1>1. /\ caller' \in Callers /\ caller'.pc = "poll" /\ caller'.head = FALSE
      /\ caller'.status = NoCode
  BY <1>0, CommandAssumption DEF Callers
<1>2. reader' \in Readers /\ reader'.pc = "reading"
  BY CommandAssumption DEF Spawn, Readers
<1>3. QED
  BY <1>1, <1>2, CommandAssumption DEF Spawn, CommandInv, HasSent, NoCode

LEMMA QuietKeeps ==
  ASSUME CommandInv, caller' = Quiet, UNCHANGED <<treeVars, reader, clock>>
  PROVE  CommandInv'
<1>1. /\ caller' \in Callers /\ caller'.pc = "quiet" /\ caller'.head = FALSE
      /\ caller'.status = NoCode
  BY CommandAssumption DEF Quiet, Callers
<1>2. QED
  BY <1>1 DEF CommandInv, HasSent, treeVars

LEMMA SameCommand == CommandInv /\ UNCHANGED cmdVars => CommandInv'
BY DEF CommandInv, HasSent, cmdVars
-----------------------------------------------------------------------------
(***************************************************************************)
(* The invariant of a plan after its commit.  A command runs only in the   *)
(* phase of the steps, and only while a step is left; what ran so far has  *)
(* passed, until a required step fails, which is then the last.            *)
(***************************************************************************)
Passed(i) == plan.steps[i].required => results[i] = "ok"

StepResults == {"ok", "fail", "timed_out", "error"}
PlanOutcomes == {"none", "success", "format_failed", "validation_failed", "rollback_failed"}

FailedLast ==
  /\ results # << >>
  /\ ~Passed(Len(results))
  /\ \A i \in 1..(Len(results) - 1) : Passed(i)

StepsInv ==
  /\ plan \in Plans
  /\ results \in Seq(StepResults) /\ Len(results) <= Len(plan.steps)
  /\ outcome \in PlanOutcomes
  /\ phase \in {"commit", "snapshot", "steps", "restoring", "collateral", "done"}
  /\ phase # "steps" => caller.pc = "quiet"
  /\ caller.pc # "quiet" => Len(results) < Len(plan.steps)
  /\ phase \in {"commit", "snapshot"} => results = << >>
  /\ phase \in {"commit", "snapshot", "steps", "restoring"} => outcome = "none"
  /\ phase \in {"commit", "snapshot", "steps"} => \A i \in 1..Len(results) : Passed(i)
  /\ phase \in {"restoring", "collateral"} =>
       plan.strict /\ FailedLast /\ outcome \in {"none", "rollback_failed"}
  /\ phase = "done" =>
       \/ /\ outcome = "success"
          /\ Len(results) = Len(plan.steps) /\ \A i \in 1..Len(results) : Passed(i)
       \/ outcome \in PlanOutcomes \ {"none", "success"} /\ FailedLast

(***************************************************************************)
(* The invariant of the workspace.  Nobody edits before the first command; *)
(* so what the snapshot took is what was there before the commit.  A file  *)
(* the revert is done with is as it was, or was touched since.             *)
(***************************************************************************)
DiskInv ==
  /\ disk \in [File -> Value] /\ before \in [File -> Value]
  /\ left \subseteq File /\ touched \subseteq File
  /\ faults \in 0..MaxFaults
  /\ DOMAIN snapshot \subseteq File \ Owned
  /\ \A f \in DOMAIN snapshot : snapshot[f] \in Text /\ snapshot[f] = before[f]
  /\ phase \in {"commit", "snapshot"} => alive = {} /\ ~stray /\ snapshot = << >>
  /\ phase = "snapshot" => \A f \in File \ Owned : disk[f] = before[f]
  /\ phase = "restoring" =>
       left \subseteq Owned /\ \A f \in Owned \ (left \cup touched) : disk[f] = before[f]
  /\ phase = "collateral" => left \subseteq DOMAIN snapshot
  /\ phase = "collateral" /\ outcome = "none" =>
       /\ \A f \in Owned \ touched : disk[f] = before[f]
       /\ \A f \in DOMAIN snapshot \ (left \cup touched) : disk[f] \in {before[f], None, Bytes}
  /\ phase = "done" => StrictReverts

LifeInv == CommandInv /\ StepsInv /\ DiskInv

LEMMA PlanFacts ==
  ASSUME plan \in Plans
  PROVE  /\ Owned \subseteq File
         /\ \A f \in Owned : plan.writes[f] \in Value
         /\ Len(plan.steps) \in Nat
BY LifecycleAssumption DEF Owned, Value

LEMMA InitKeeps == Init => LifeInv
<1> SUFFICES ASSUME Init PROVE LifeInv
  OBVIOUS
<1>1. caller = [pc |-> "quiet", status |-> NoCode, head |-> FALSE, waited |-> 0]
  BY DEF Init, Quiet
<1>2. CommandInv
  <2>1. caller \in Callers /\ reader \in Readers
    BY <1>1, CommandAssumption DEF Init, Callers, Readers
  <2>2. QED
    BY <1>1, <2>1, CommandAssumption DEF Init, CommandInv
<1>3. results \in Seq(StepResults) /\ Len(results) = 0 /\ DOMAIN snapshot = {}
  BY DEF Init
<1>4. StepsInv
  BY <1>1, <1>3, PlanFacts DEF Init, StepsInv, PlanOutcomes
<1>5. DiskInv
  BY <1>3, LifecycleAssumption DEF Init, DiskInv
<1>6. QED
  BY <1>2, <1>4, <1>5 DEF LifeInv

-----------------------------------------------------------------------------
(* The command's invariant in the whole plan.                              *)
LEMMA CommandKept == LifeInv /\ [Next]_vars => CommandInv'
<1> SUFFICES ASSUME CommandInv, [Next]_vars PROVE CommandInv'
  BY DEF LifeInv
<1>1. CASE UNCHANGED cmdVars
  BY <1>1, SameCommand
<1>2. CASE StartStep
  BY <1>2, SpawnKeeps DEF StartStep
<1>3. CASE EndStep
  <2>1. caller' = Quiet /\ UNCHANGED <<treeVars, reader, clock>>
    BY <1>3, Zenon DEF EndStep, Conclude
  <2>2. QED
    BY <2>1, QuietKeeps
<1>4. CASE CommandMoves
  BY <1>4, CommandMovesKeep
<1>5. CASE ReaderMoves
  BY <1>5, ReadKeeps
<1>6. CASE CallerMoves
  BY <1>6, CallerMovesKeep
<1>7. CASE SpawnFails
  <2>1. UNCHANGED <<treeVars, reader, clock, caller>>
    BY <1>7, Zenon DEF SpawnFails, Conclude
  <2>2. QED
    BY <1>1, <2>1 DEF cmdVars, treeVars
<1>8. QED
  BY <1>1, <1>2, <1>3, <1>4, <1>5, <1>6, <1>7, Zenon
     DEF Next, Engine, Command, Reader, Caller, vars, Commit, Snapshot, Succeed,
         RestoreOwned, OwnedRestored, RestoreFails, StartCollateral,
         RestoreCollateral, CollateralFails, Reverted, Edit

(* While no command runs the caller does not move, and what moves when one *)
(* runs does not end it.                                                   *)
LEMMA CallerMovesRunning ==
  ASSUME CommandInv, CallerMoves
  PROVE  caller.pc # "quiet" /\ caller'.pc # "quiet"
<1>1. CASE Poll /\ clock >= Deadline
  BY <1>1 DEF Poll, Kill, CommandInv, Callers
<1>2. CASE Poll /\ ~(clock >= Deadline)
  BY <1>2 DEF Poll, CommandInv, Callers
<1>3. CASE PollFails \/ Receive \/ WaitEnds \/ TimedOut \/ GraceTick
  BY <1>3 DEF PollFails, Receive, WaitEnds, TimedOut, GraceTick, CommandInv, Callers
<1>4. QED
  BY <1>1, <1>2, <1>3 DEF CallerMoves

(* What a step comes to, and that there was one.                           *)
LEMMA EndStepResults ==
  ASSUME StepsInv, CommandInv, EndStep
  PROVE  /\ Result \in StepResults /\ Conclude(Result)
         /\ phase = "steps" /\ caller'.pc = "quiet" /\ Len(results) < Len(plan.steps)
<1>1. caller.pc = "exited" => caller.status \in {"ok", "fail"}
  BY DEF CommandInv, Callers, Codes
<1>2. Result \in StepResults
  BY <1>1 DEF Result, StepResults
<1>3. Conclude(Result) /\ Returned /\ caller' = Quiet /\ phase = "steps"
  BY Zenon DEF EndStep
<1>4. Len(results) < Len(plan.steps)
  BY <1>3 DEF StepsInv, Returned
<1>5. QED
  BY <1>2, <1>3, <1>4 DEF Quiet

-----------------------------------------------------------------------------
(* A step that leaves plan, results and outcome alone keeps what is said   *)
(* of the steps, if it stays in its phase and starts no command.           *)
LEMMA StepsUnmoved ==
  ASSUME StepsInv, UNCHANGED <<plan, results, phase, outcome>>,
         caller.pc = "quiet" => caller'.pc = "quiet"
  PROVE  StepsInv'
BY DEF StepsInv, Passed, FailedLast

LEMMA ConcludeKeepsSteps ==
  ASSUME StepsInv, NEW r \in StepResults, Conclude(r),
         phase = "steps", caller'.pc = "quiet", Len(results) < Len(plan.steps)
  PROVE  StepsInv'
<1> DEFINE step == plan.steps[Len(results) + 1]
           fatal == step.required /\ r # "ok"
<1>1. /\ results' = Append(results, r) /\ plan' = plan
      /\ IF ~fatal THEN UNCHANGED <<phase, left, outcome>>
         ELSE IF plan.strict
         THEN phase' = "restoring" /\ left' = Owned /\ UNCHANGED outcome
         ELSE phase' = "done" /\ outcome' = FailureKind(step) /\ UNCHANGED left
  BY Zenon DEF Conclude
<1>2. FailureKind(step) \in PlanOutcomes \ {"none", "success"}
  BY DEF FailureKind, PlanOutcomes
<1>3. /\ results' \in Seq(StepResults) /\ Len(results) \in Nat
      /\ Len(results') = Len(results) + 1 /\ results'[Len(results')] = r
      /\ \A i \in 1..Len(results) : results'[i] = results[i]
  BY <1>1 DEF StepsInv
<1>4. outcome = "none" /\ \A i \in 1..Len(results) : Passed(i)
  BY <1>1 DEF StepsInv
<1>5. \A i \in 1..Len(results) : Passed(i)'
  BY <1>1, <1>3, <1>4 DEF Passed
<1>6. Passed(Len(results))' <=> ~fatal
  BY <1>1, <1>3 DEF Passed
<1>7. Len(results') <= Len(plan'.steps)
  BY <1>1, <1>3, PlanFacts DEF StepsInv
<1> HIDE DEF step, fatal
<1>8. CASE ~fatal
  <2>1. phase' = "steps" /\ outcome' = "none"
    BY <1>1, <1>4, <1>8
  <2>2. \A i \in 1..Len(results') : Passed(i)'
    BY <1>3, <1>5, <1>6, <1>8 DEF Passed
  <2>3. QED
    BY <1>1, <1>2, <1>3, <1>7, <2>1, <2>2 DEF StepsInv, PlanOutcomes
<1>9. CASE fatal
  <2>1. FailedLast'
    BY <1>3, <1>5, <1>6, <1>9 DEF FailedLast, Passed
  <2>2. CASE plan.strict
    BY <1>1, <1>2, <1>3, <1>4, <1>7, <1>9, <2>1, <2>2 DEF StepsInv, PlanOutcomes
  <2>3. CASE ~plan.strict
    BY <1>1, <1>2, <1>3, <1>7, <1>9, <2>1, <2>3 DEF StepsInv
  <2>4. QED
    BY <2>2, <2>3
<1>10. QED
  BY <1>8, <1>9

LEMMA StepsKept == LifeInv /\ [Next]_vars => StepsInv'
<1> SUFFICES ASSUME StepsInv, CommandInv, [Next]_vars PROVE StepsInv'
  BY DEF LifeInv
<1>1. CASE Commit \/ Snapshot
  <2>1. /\ results = << >> /\ outcome = "none" /\ caller.pc = "quiet"
        /\ UNCHANGED <<plan, results, outcome, caller>>
        /\ phase' \in {"snapshot", "steps"}
    BY <1>1 DEF Commit, Snapshot, StepsInv, cmdVars
  <2>2. QED
    BY <2>1 DEF StepsInv, Passed
<1>2. CASE StartStep
  <2>1. /\ phase = "steps" /\ Len(results) < Len(plan.steps)
        /\ UNCHANGED <<plan, results, phase, outcome>>
    BY <1>2 DEF StartStep
  <2>2. QED
    BY <2>1 DEF StepsInv, Passed
<1>3. CASE EndStep \/ SpawnFails
  <2>1. CASE EndStep
    BY <2>1, EndStepResults, ConcludeKeepsSteps
  <2>2. CASE SpawnFails
    <3>1. /\ Conclude("error") /\ phase = "steps" /\ caller'.pc = "quiet"
          /\ Len(results) < Len(plan.steps)
      BY <2>2, Zenon DEF SpawnFails
    <3>2. QED
      BY <3>1, ConcludeKeepsSteps DEF StepResults
  <2>3. QED
    BY <1>3, <2>1, <2>2
<1>4. CASE Succeed
  <2>1. /\ phase = "steps" /\ caller.pc = "quiet" /\ Len(results) = Len(plan.steps)
        /\ phase' = "done" /\ outcome' = "success" /\ UNCHANGED <<plan, results, caller>>
    BY <1>4 DEF Succeed, cmdVars
  <2>2. QED
    BY <2>1 DEF StepsInv, Passed, PlanOutcomes
<1>5. CASE OwnedRestored \/ RestoreFails
  <2>1. /\ phase = "restoring" /\ phase' = "collateral" /\ UNCHANGED <<plan, results, caller>>
        /\ outcome' \in {outcome, "rollback_failed"}
    BY <1>5 DEF OwnedRestored, RestoreFails, StartCollateral, cmdVars
  <2>2. QED
    BY <2>1 DEF StepsInv, Passed, FailedLast, PlanOutcomes
<1>6. CASE CollateralFails
  <2>1. /\ phase = "collateral" /\ UNCHANGED <<plan, results, caller, phase>>
        /\ outcome' = "rollback_failed"
    BY <1>6 DEF CollateralFails, cmdVars
  <2>2. QED
    BY <2>1 DEF StepsInv, Passed, FailedLast, PlanOutcomes
<1>7. CASE Reverted
  <2>1. /\ phase = "collateral" /\ phase' = "done" /\ UNCHANGED <<plan, results, caller>>
        /\ outcome' \in {"rollback_failed", "format_failed", "validation_failed"}
    BY <1>7 DEF Reverted, FailureKind, cmdVars
  <2>2. QED
    BY <2>1 DEF StepsInv, Passed, FailedLast, PlanOutcomes
<1>8. CASE CallerMoves /\ UNCHANGED lifeVars
  BY <1>8, CallerMovesRunning, StepsUnmoved DEF lifeVars
<1>9. CASE Reader \/ Command
  <2>1. UNCHANGED <<plan, results, phase, outcome, caller>>
    BY <1>9 DEF Reader, Command, ReaderMoves, Read, ReadFails, CommandMoves, Fork,
                CloseStderr, LeaveGroup, WriteStderr, Exit, lifeVars
  <2>2. QED
    BY <2>1, StepsUnmoved
<1>10. CASE RestoreOwned \/ RestoreCollateral \/ UNCHANGED vars \/ \E f \in File : Edit(f)
  <2>1. UNCHANGED <<plan, results, phase, outcome, caller>>
    BY <1>10 DEF RestoreOwned, RestoreCollateral, Edit, vars, lifeVars, cmdVars
  <2>2. QED
    BY <2>1, StepsUnmoved
<1>11. QED
  BY <1>1, <1>2, <1>3, <1>4, <1>5, <1>6, <1>7, <1>8, <1>9, <1>10, Zenon
     DEF Next, Engine, Caller

-----------------------------------------------------------------------------
(* What a workspace invariant needs of a step that moves neither disk,     *)
(* phase, results nor what the revert has still to do.                     *)
LEMMA DiskUnmoved ==
  ASSUME DiskInv, UNCHANGED <<plan, disk, before, snapshot, phase, left, outcome, touched, faults>>,
         phase \in {"commit", "snapshot"} => UNCHANGED <<alive, stray>>
  PROVE  DiskInv'
BY DEF DiskInv, Owned, StrictReverts, Failures

LEMMA CommitKeepsDisk == LifeInv /\ Commit => DiskInv'
<1> SUFFICES ASSUME LifeInv, Commit PROVE DiskInv'
  OBVIOUS
<1>1. /\ disk' = [f \in File |-> IF f \in Owned THEN plan.writes[f] ELSE disk[f]]
      /\ before' = disk /\ phase = "commit" /\ phase' \in {"snapshot", "steps"}
      /\ UNCHANGED <<alive, plan, snapshot, left, stray, touched, faults>>
  BY DEF Commit, cmdVars
<1>2. disk' \in [File -> Value] /\ before' \in [File -> Value]
  BY <1>1, PlanFacts DEF LifeInv, StepsInv, DiskInv
<1>3. \A f \in File \ Owned : disk'[f] = before'[f]
  BY <1>1
<1>4. DOMAIN snapshot = {}
  BY <1>1 DEF LifeInv, DiskInv
<1>5. QED
  BY <1>1, <1>2, <1>3, <1>4 DEF LifeInv, DiskInv, Owned

LEMMA SnapshotKeepsDisk == LifeInv /\ Snapshot => DiskInv'
<1> SUFFICES ASSUME LifeInv, Snapshot PROVE DiskInv'
  OBVIOUS
<1> DEFINE D == {g \in File \ (Owned \cup Unread) : disk[g] \in Text}
<1>1. /\ snapshot' = [f \in D |-> disk[f]] /\ phase = "snapshot" /\ phase' = "steps"
      /\ UNCHANGED <<alive, plan, disk, before, left, stray, touched, faults>>
  BY DEF Snapshot, cmdVars
<1>2. \A f \in File \ Owned : disk[f] = before[f]
  BY <1>1 DEF LifeInv, DiskInv
<1>3. /\ DOMAIN snapshot' \subseteq File \ Owned
      /\ \A f \in DOMAIN snapshot' : snapshot'[f] \in Text /\ snapshot'[f] = before[f]
  BY <1>1, <1>2
<1>4. QED
  BY <1>1, <1>3 DEF LifeInv, DiskInv, Owned

LEMMA EndStepKeepsDisk == LifeInv /\ (EndStep \/ SpawnFails) => DiskInv'
<1> SUFFICES ASSUME LifeInv, EndStep \/ SpawnFails PROVE DiskInv'
  OBVIOUS
<1>1. /\ phase = "steps" /\ touched' = {} /\ UNCHANGED <<plan, disk, before, snapshot, faults>>
      /\ \/ UNCHANGED <<phase, left, outcome>>
         \/ phase' = "restoring" /\ left' = Owned
         \/ ~plan.strict /\ phase' = "done" /\ UNCHANGED left
  BY Zenon DEF EndStep, SpawnFails, Conclude
<1>2. Owned \subseteq File
  BY PlanFacts DEF LifeInv, StepsInv
<1>3. QED
  BY <1>1, <1>2 DEF LifeInv, DiskInv, Owned, StrictReverts

LEMMA RevertKeepsDisk ==
  LifeInv /\ (RestoreOwned \/ OwnedRestored \/ RestoreFails \/ Reverted) => DiskInv'
<1> SUFFICES ASSUME LifeInv, RestoreOwned \/ OwnedRestored \/ RestoreFails \/ Reverted
             PROVE  DiskInv'
  OBVIOUS
<1>1. Owned \subseteq File
  BY PlanFacts DEF LifeInv, StepsInv
<1>2. CASE RestoreOwned
  <2>1. PICK f \in left : disk' = [disk EXCEPT ![f] = before[f]] /\ left' = left \ {f}
                          /\ touched' = touched \ {f}
    BY <1>2 DEF RestoreOwned
  <2>2. phase = "restoring" /\ UNCHANGED <<plan, before, snapshot, phase, outcome, faults>>
    BY <1>2 DEF RestoreOwned
  <2>3. f \in File /\ f \in Owned /\ before[f] \in Value
    BY <2>2, <1>1 DEF LifeInv, DiskInv
  <2>4. disk' \in [File -> Value] /\ \A g \in Owned \ (left' \cup touched') : disk'[g] = before[g]
    BY <1>1, <2>1, <2>2, <2>3 DEF LifeInv, DiskInv
  <2>5. QED
    BY <2>1, <2>2, <2>3, <2>4 DEF LifeInv, DiskInv, Owned
<1>3. CASE OwnedRestored
  <2>1. /\ phase = "restoring" /\ left = {} /\ phase' = "collateral" /\ left' = DOMAIN snapshot
        /\ UNCHANGED <<plan, disk, before, snapshot, touched, outcome, faults>>
    BY <1>3 DEF OwnedRestored, StartCollateral
  <2>2. QED
    BY <2>1 DEF LifeInv, DiskInv, Owned
<1>4. CASE RestoreFails
  <2>1. /\ phase = "restoring" /\ phase' = "collateral" /\ left' = DOMAIN snapshot
        /\ faults < MaxFaults /\ faults' = faults + 1 /\ outcome' = "rollback_failed"
        /\ UNCHANGED <<plan, disk, before, snapshot, touched>>
    BY <1>4 DEF RestoreFails, StartCollateral
  <2>2. QED
    BY <2>1, LifecycleAssumption DEF LifeInv, DiskInv, Owned
<1>5. CASE Reverted
  <2>1. /\ phase = "collateral" /\ left = {} /\ phase' = "done"
        /\ outcome' = IF outcome = "rollback_failed" THEN outcome
                      ELSE FailureKind(plan.steps[Len(results)])
        /\ UNCHANGED <<plan, disk, before, snapshot, touched, left, faults>>
    BY <1>5 DEF Reverted
  <2>2. outcome \in {"none", "rollback_failed"}
    BY <2>1 DEF LifeInv, StepsInv
  <2>3. StrictReverts'
    BY <2>1, <2>2 DEF LifeInv, DiskInv, StrictReverts, Failures, Owned
  <2>4. QED
    BY <2>1, <2>3 DEF LifeInv, DiskInv, Owned
<1>6. QED
  BY <1>2, <1>3, <1>4, <1>5

LEMMA CollateralKeepsDisk == LifeInv /\ (RestoreCollateral \/ CollateralFails) => DiskInv'
<1> SUFFICES ASSUME LifeInv, RestoreCollateral \/ CollateralFails PROVE DiskInv'
  OBVIOUS
<1>1. CASE RestoreCollateral
  <2>1. PICK f \in left :
          /\ disk' = IF disk[f] \in Text THEN [disk EXCEPT ![f] = snapshot[f]] ELSE disk
          /\ left' = left \ {f}
          /\ touched' = IF disk[f] \in Text THEN touched \ {f} ELSE touched
    BY <1>1 DEF RestoreCollateral
  <2>2. phase = "collateral" /\ UNCHANGED <<plan, before, snapshot, phase, outcome, faults>>
    BY <1>1 DEF RestoreCollateral
  <2>3. /\ f \in DOMAIN snapshot /\ f \in File \ Owned
        /\ snapshot[f] \in Value /\ snapshot[f] = before[f] /\ disk[f] \in Value
    BY <2>2 DEF LifeInv, DiskInv, Value
  <2>4. disk' \in [File -> Value] /\ disk'[f] \in {before[f], None, Bytes}
        /\ \A g \in File \ {f} : disk'[g] = disk[g]
    BY <2>1, <2>3 DEF LifeInv, DiskInv, Value
  <2>5. QED
    BY <2>1, <2>2, <2>3, <2>4 DEF LifeInv, DiskInv, Owned
<1>2. CASE CollateralFails
  <2>1. /\ phase = "collateral" /\ faults < MaxFaults /\ faults' = faults + 1
        /\ left' \subseteq left /\ outcome' = "rollback_failed"
        /\ UNCHANGED <<plan, disk, before, snapshot, phase, touched>>
    BY <1>2 DEF CollateralFails
  <2>2. QED
    BY <2>1, LifecycleAssumption DEF LifeInv, DiskInv, Owned
<1>3. QED
  BY <1>1, <1>2

LEMMA EditKeepsDisk == ASSUME LifeInv, NEW f \in File, Edit(f) PROVE DiskInv'
<1>1. PICK c \in Value \ {disk[f]} : disk' = [disk EXCEPT ![f] = c]
  BY DEF Edit
<1>2. /\ alive # {} \/ stray
      /\ touched' = IF caller.pc = "quiet" THEN touched \cup {f} ELSE touched
      /\ UNCHANGED <<plan, before, snapshot, phase, left, outcome, faults>>
  BY DEF Edit
<1>3. /\ disk' \in [File -> Value] /\ touched' \subseteq File
      /\ \A g \in File \ {f} : disk'[g] = disk[g]
  BY <1>1, <1>2 DEF LifeInv, DiskInv
<1>4. phase \notin {"commit", "snapshot"} /\ (phase # "steps" => touched' = touched \cup {f})
  BY <1>2 DEF LifeInv, DiskInv, StepsInv
<1>5. Owned \subseteq File /\ DOMAIN snapshot \subseteq File /\ Owned' = Owned
  BY <1>2, PlanFacts DEF LifeInv, StepsInv, DiskInv, Owned
<1>6. ASSUME phase # "steps"
      PROVE  /\ \A g \in Owned \ touched' : g \notin touched /\ disk'[g] = disk[g]
             /\ \A g \in DOMAIN snapshot \ touched' : g \notin touched /\ disk'[g] = disk[g]
  BY <1>3, <1>4, <1>5, <1>6
<1>7. phase = "done" => StrictReverts'
  BY <1>2, <1>5, <1>6 DEF LifeInv, DiskInv, StrictReverts, Failures
<1>8. phase = "restoring" =>
        left \subseteq Owned /\ \A g \in Owned \ (left \cup touched') : disk'[g] = before[g]
  BY <1>5, <1>6 DEF LifeInv, DiskInv
<1>9. phase = "collateral" /\ outcome = "none" =>
        /\ \A g \in Owned \ touched' : disk'[g] = before[g]
        /\ \A g \in DOMAIN snapshot \ (left \cup touched') : disk'[g] \in {before[g], None, Bytes}
  BY <1>5, <1>6 DEF LifeInv, DiskInv
<1>10. QED
  BY <1>2, <1>3, <1>4, <1>5, <1>7, <1>8, <1>9 DEF LifeInv, DiskInv

LEMMA DiskKept == LifeInv /\ [Next]_vars => DiskInv'
<1> SUFFICES ASSUME LifeInv, [Next]_vars PROVE DiskInv'
  OBVIOUS
<1>1. CASE StartStep \/ Succeed
  <2>1. /\ phase = "steps" /\ UNCHANGED <<plan, disk, before, snapshot, left, touched, faults>>
        /\ phase' = phase \/ (phase' = "done" /\ outcome' = "success")
    BY <1>1 DEF StartStep, Succeed
  <2>2. QED
    BY <2>1 DEF LifeInv, DiskInv, Owned, StrictReverts, Failures
<1>2. CASE Caller \/ Reader \/ Command \/ UNCHANGED vars
  <2>1. UNCHANGED lifeVars
    BY <1>2 DEF Caller, Reader, Command, vars
  <2>2. alive = {} => UNCHANGED alive
    BY <1>2, Zenon DEF Caller, Reader, Command, vars, cmdVars, CallerMoves, ReaderMoves, Read,
                ReadFails, CommandMoves, Fork,
                CloseStderr, LeaveGroup, WriteStderr, Exit, Poll, PollFails, Receive, WaitEnds,
                TimedOut, GraceTick, treeVars, Kill
  <2>3. QED
    BY <2>1, <2>2, DiskUnmoved DEF LifeInv, DiskInv, lifeVars
<1>3. QED
  BY <1>1, <1>2, CommitKeepsDisk, SnapshotKeepsDisk, EndStepKeepsDisk, RevertKeepsDisk,
     CollateralKeepsDisk, EditKeepsDisk DEF Next, Engine

(***************************************************************************)
(* The invariant holds of every plan and every command.                    *)
(***************************************************************************)
THEOREM LifeInvHolds == Spec => []LifeInv
<1>1. LifeInv /\ [Next]_vars => LifeInv'
  BY CommandKept, StepsKept, DiskKept DEF LifeInv
<1>2. QED
  BY <1>1, InitKeeps, PTL DEF Spec

-----------------------------------------------------------------------------
(***************************************************************************)
(* Every variable keeps its type, and the clock its bound: a command is    *)
(* reported on by its deadline and the grace for stderr.                   *)
(***************************************************************************)
THEOREM LifecycleTypes == Spec => []LifecycleTypeOK
<1>1. CommandInv => CommandTypeOK
  BY DEF CommandInv, CommandTypeOK, Callers, Readers, Returned
<1>2. LifeInv => LifecycleTypeOK
  BY <1>1 DEF LifeInv, StepsInv, DiskInv, LifecycleTypeOK, PlanOutcomes
<1>3. QED
  BY <1>2, LifeInvHolds, PTL

(***************************************************************************)
(* A command that is reported to have exited has, and nobody holds its     *)
(* stderr, unless reading it failed: exec.rs waits for both, in whatever   *)
(* order they come.                                                        *)
(***************************************************************************)
THEOREM ExitsAreOver == Spec => []ExitedIsOver
<1>1. CommandInv => ExitedIsOver
  BY CodesOK DEF CommandInv, ExitedIsOver, HasSent
<1>2. QED
  BY <1>1, LifeInvHolds, PTL DEF LifeInv

(***************************************************************************)
(* A timeout is reported of a group that is dead, however many processes   *)
(* were forked before the kill: only its members fork new ones.            *)
(***************************************************************************)
THEOREM TimeoutsKillTheGroup == Spec => []TimeoutLeavesNothing
<1>1. CommandInv => TimeoutLeavesNothing
  BY DEF CommandInv, TimeoutLeavesNothing
<1>2. QED
  BY <1>1, LifeInvHolds, PTL DEF LifeInv

(***************************************************************************)
(* revert_strict_lifecycle puts back what it says: the plan's own files,   *)
(* and the texts its commands changed elsewhere.                           *)
(***************************************************************************)
THEOREM StrictPlansRevert == Spec => []StrictReverts
<1>1. StepsInv /\ DiskInv => StrictReverts
  BY DEF StepsInv, DiskInv, StrictReverts, Failures
<1>2. QED
  BY <1>1, LifeInvHolds, PTL DEF LifeInv

(***************************************************************************)
(* The outcome of a plan is what its steps came to.                        *)
(***************************************************************************)
THEOREM OutcomesAreTrue == Spec => []OutcomeMeansSteps
<1>1. StepsInv => OutcomeMeansSteps
  BY DEF StepsInv, OutcomeMeansSteps, Passed, FailedLast, PlanOutcomes
<1>2. QED
  BY <1>1, LifeInvHolds, PTL DEF LifeInv
=============================================================================
