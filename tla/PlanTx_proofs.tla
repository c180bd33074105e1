---------------------------- MODULE PlanTx_proofs ----------------------------
(***************************************************************************)
(* For any paths, texts, plans and number of faults: a plan's changes are  *)
(* always covered by a session that can take them back, and what reports   *)
(* that they were taken back has taken back all of them.                   *)
(*                                                                         *)
(* None of that depends on what staging computes: it holds of whatever     *)
(* transaction the commit is given, so the invariant says nothing of tx.   *)
(* That it is a transaction is type correctness.  What staging computes is *)
(* in the second part: the commit of a plan is what the plan means, and a  *)
(* plan happens at once or not at all.                                     *)
(***************************************************************************)
EXTENDS PlanTx, FileTx_proofs

BeforeCommit == {"staging", "refused", "collected", "unchanged"}
AfterSave == {"saved", "committing", "done", "restoring", "rolled_back",
              "rollback_failed", "crashed", "undoing"}

Phases == BeforeCommit \cup AfterSave \cup {"aborted", "undone"}

(* The workspaces are functions, and nothing is at a path in one way.      *)
DisksOK ==
  /\ disk = [p \in Path |-> disk[p]]
  /\ base = [p \in Path |-> base[p]]
  /\ \A p \in Path : base[p].kind = "none" => base[p] = NoFile

(* Until the originals are listed, nothing has been written.               *)
Untouched ==
  /\ phase \in BeforeCommit => session = NoSession
  /\ phase \in BeforeCommit \cup {"saved", "aborted"} => disk = base

(* The session holds the manifest of the workspace the plan found.         *)
SessionOK ==
  /\ phase \in AfterSave => session.entries = Manifest(tx, base)
  /\ phase = "saved" => ~session.listed
  /\ phase = "committing" => session.listed = (DOMAIN session.entries # {})
  /\ phase \in {"undoing", "restoring"} => session.listed
  /\ session.listed => phase \in AfterSave

(* What the loops have still to do was planned.                            *)
WorkOK ==
  phase = "committing" =>
    /\ left.moves \subseteq PureCandidates(tx)
    /\ left.writes \subseteq Changes(tx)
    /\ left.unlinks \subseteq tx.deletions

(* A path that differs is listed; in a restore, it is still to be done.    *)
Covered ==
  EndsSaved =>
    \A p \in Path : disk[p] # base[p] =>
      /\ session.listed
      /\ p \in SavedPaths(tx, base)
      /\ phase \in {"restoring", "undoing"} => p \in left.entries

EntriesOK ==
  phase \in {"restoring", "undoing"} => left.entries \subseteq SavedPaths(tx, base)

Ended ==
  EndsSaved /\ phase \in {"rolled_back", "undone"} => disk = base

PlanInv ==
  /\ phase \in Phases
  /\ DisksOK
  /\ Untouched
  /\ SessionOK
  /\ WorkOK
  /\ EntriesOK
  /\ Covered
  /\ Ended

-----------------------------------------------------------------------------
(* Restoring an entry of a manifest brings back what was there.            *)
LEMMA ManifestRestores ==
  ASSUME NEW t, NEW d, NEW p \in SavedPaths(t, d),
         d[p].kind = "none" => d[p] = NoFile
  PROVE  /\ p \in DOMAIN Manifest(t, d)
         /\ Restored(Manifest(t, d)[p]) = d[p]
BY DEF Manifest, Restored, SavedBeforeWrite, SavedBeforeDelete, Present

LEMMA ManifestDomain ==
  ASSUME NEW t, NEW d
  PROVE  DOMAIN Manifest(t, d) = SavedPaths(t, d)
BY DEF Manifest

(* Nothing in staging writes.                                              *)
LEMMA StagingWritesNothing ==
  ASSUME Stage
  PROVE  /\ phase = "staging" /\ phase' \in {"staging", "refused", "collected"}
         /\ UNCHANGED <<disk, base, session, left, faults>>
<1>1. CASE Refuse
  BY <1>1 DEF Stage, Refuse
<1>2. CASE Collect
  BY <1>2 DEF Stage, Collect
<1>3. ASSUME NEW p \in Path, FileAppend(p) PROVE phase = "staging" /\ Advance
  BY <1>3, Zenon DEF FileAppend, Uses
<1>4. ASSUME NEW p \in Path, NEW b \in Contents, NEW force \in BOOLEAN, FileCreate(p, b, force)
      PROVE  phase = "staging" /\ Advance
  BY <1>4, Zenon DEF FileCreate, Uses
<1>5. ASSUME NEW p \in Path, NEW ifExists \in BOOLEAN, FileDelete(p, ifExists)
      PROVE  phase = "staging" /\ Advance
  BY <1>5, Zenon DEF FileDelete, Uses
<1>6. ASSUME NEW p \in Path, NEW q \in Path, NEW force \in BOOLEAN, FileRename(p, q, force)
      PROVE  phase = "staging" /\ Advance
  BY <1>6, Zenon DEF FileRename, Uses
<1>7. ASSUME NEW p \in Path, NEW b \in Contents, PatchAdd(p, b)
      PROVE  phase = "staging" /\ Advance
  BY <1>7, Zenon DEF PatchAdd, Uses
<1>8. ASSUME NEW p \in Path, PatchDelete(p) PROVE phase = "staging" /\ Advance
  BY <1>8, Zenon DEF PatchDelete, Uses
<1>9. ASSUME NEW p \in Path, NEW h \in Hunks, PatchUpdate(p, h)
      PROVE  phase = "staging" /\ Advance
  BY <1>9, Zenon DEF PatchUpdate, Uses
<1>10. ASSUME NEW p \in Path, NEW h \in Hunks, NEW q \in Path, PatchMove(p, h, q)
       PROVE  phase = "staging" /\ Advance
  BY <1>10, Zenon DEF PatchMove, Uses
<1>11. ASSUME NEW p \in Path, NEW ifExists \in BOOLEAN, NEW change \in BOOLEAN,
              DocEdit(p, ifExists, change)
       PROVE  phase = "staging" /\ Advance
  BY <1>11, Zenon DEF DocEdit, Uses
<1>12. TextOp => phase = "staging" /\ Advance
  BY TextOpAdvances DEF Uses
<1>13. CASE phase = "staging" /\ Advance
  BY <1>13 DEF Stage, Advance
<1>14. StagingNext
  BY DEF Stage
<1>15. QED
  BY <1>1, <1>2, <1>3, <1>4, <1>5, <1>6, <1>7, <1>8, <1>9, <1>10, <1>11, <1>12,
     <1>13, <1>14
     DEF StagingNext, FileOp, PatchOp, DocOp

LEMMA InitPlanInv == Init => PlanInv
<1> SUFFICES ASSUME Init PROVE PlanInv
  OBVIOUS
<1>1. disk \in [Path -> File] /\ base = disk /\ phase = "staging" /\ session = NoSession
  BY StagingConstants DEF Init, StagingInit
<1>2. \A p \in Path : disk[p].kind = "none" => disk[p] = NoFile
  BY StagingConstants DEF Init, StagingInit
<1>3. QED
  BY <1>1, <1>2
     DEF PlanInv, Phases, BeforeCommit, AfterSave, DisksOK, Untouched, SessionOK,
         WorkOK, EntriesOK, Covered, Ended, NoSession

-----------------------------------------------------------------------------
(* One step.  Each lemma is about the actions that write to one part of    *)
(* the state.                                                              *)

LEMMA SaveSteps ==
  ASSUME PlanInv, Unchanged \/ SaveOriginals \/ SaveFails
  PROVE  PlanInv'
<1> USE DEF PlanInv, Phases, BeforeCommit, AfterSave, DisksOK, Untouched, SessionOK,
            WorkOK, EntriesOK, Covered, Ended, EndsSaved
<1>1. CASE Unchanged
  BY <1>1 DEF Unchanged
<1>2. CASE SaveOriginals
  BY <1>2 DEF SaveOriginals
<1>3. CASE SaveFails
  BY <1>3 DEF SaveFails, NoSession
<1>4. QED
  BY <1>1, <1>2, <1>3

LEMMA FinalizeStep ==
  ASSUME PlanInv, Finalize
  PROVE  PlanInv'
<1>1. /\ phase = "saved" /\ phase' = "committing"
      /\ UNCHANGED <<disk, tx, base>>
      /\ session'.entries = session.entries
      /\ session'.listed = (DOMAIN session.entries # {})
  BY DEF Finalize
<1>2. /\ left'.moves \subseteq PureCandidates(tx)
      /\ left'.writes = Changes(tx)
      /\ left'.unlinks = tx.deletions
  BY DEF Finalize, PurePairings, Uncovered, Idle
<1>3. QED
  BY <1>1, <1>2
     DEF PlanInv, Phases, BeforeCommit, AfterSave, DisksOK, Untouched, SessionOK,
         WorkOK, EntriesOK, Covered, Ended, EndsSaved, PureCandidates, Changes,
         PureSources, PureDests

(* A step of the commit's loops: only saved paths are written.             *)
LoopStep ==
  /\ phase = "committing" /\ phase' \in {"committing", "done"}
  /\ UNCHANGED <<tx, base, session>>
  /\ disk' = [p \in Path |-> disk'[p]]
  /\ EndsSaved =>
       \A p \in Path : disk'[p] # disk[p] => p \in SavedPaths(tx, base)
  /\ left'.moves \subseteq left.moves
  /\ left'.writes \subseteq left.writes
  /\ left'.unlinks \subseteq left.unlinks

LEMMA LoopStepKeeps ==
  ASSUME PlanInv, LoopStep
  PROVE  PlanInv'
<1> USE DEF PlanInv, LoopStep
<1>1. DOMAIN session.entries = SavedPaths(tx, base)
  BY ManifestDomain DEF SessionOK, AfterSave
<1>2. Covered'
  BY <1>1 DEF Covered, EndsSaved, SessionOK
<1>3. WorkOK'
  BY DEF WorkOK, PureCandidates, Changes, PureSources, PureDests
<1>4. QED
  BY <1>2, <1>3
     DEF Phases, BeforeCommit, AfterSave, DisksOK, Untouched, SessionOK, EntriesOK, Ended

LEMMA ApplyRenameLoops == PlanInv /\ ApplyRename => LoopStep
<1> SUFFICES ASSUME PlanInv, ApplyRename PROVE LoopStep
  OBVIOUS
<1> DEFINE r == tx.renames[left.next]
<1>1. /\ phase = "committing" /\ left.next \in DOMAIN tx.renames
      /\ disk' = Moved(disk, r)
      /\ left' = [left EXCEPT !.next = @ + 1]
      /\ UNCHANGED <<tx, phase, base, session>>
  BY DEF ApplyRename, RenamesDone
<1>2. r.from \in RenamedFrom(tx.renames) /\ r.to \in RenamedTo(tx.renames)
  BY <1>1 DEF RenamedFrom, RenamedTo
<1>3. \A p \in Path : disk'[p] # disk[p] => p \in {r.from, r.to}
  BY <1>1 DEF Moved, PlanInv, DisksOK
<1>4. disk' = [p \in Path |-> disk'[p]]
  BY <1>1 DEF Moved, PlanInv, DisksOK
<1>5. QED
  BY <1>1, <1>2, <1>3, <1>4 DEF LoopStep, EndsSaved

LEMMA ApplyPureRenameLoops ==
  ASSUME PlanInv, NEW r \in left.moves, ApplyPureRename(r)
  PROVE  LoopStep
<1>1. /\ phase = "committing"
      /\ disk' = Moved(disk, r)
      /\ left' = [left EXCEPT !.moves = @ \ {r}]
      /\ UNCHANGED <<tx, phase, base, session>>
  BY DEF ApplyPureRename
<1>2. r.from \in Changes(tx) /\ r.to \in Changes(tx)
  BY <1>1 DEF PlanInv, WorkOK, PureCandidates, PureSources, PureDests
<1>3. \A p \in Path : disk'[p] # disk[p] => p \in {r.from, r.to}
  BY <1>1 DEF Moved, PlanInv, DisksOK
<1>4. disk' = [p \in Path |-> disk'[p]]
  BY <1>1 DEF Moved, PlanInv, DisksOK
<1>5. QED
  BY <1>1, <1>2, <1>3, <1>4 DEF LoopStep, SavedPaths

LEMMA WriteChangeLoops ==
  ASSUME PlanInv, NEW p \in Path, WriteChange(p)
  PROVE  LoopStep
<1>1. /\ phase = "committing" /\ p \in left.writes
      /\ disk' = Written(p)
      /\ left' = [left EXCEPT !.writes = @ \ {p}]
      /\ UNCHANGED <<tx, phase, base, session>>
  BY DEF WriteChange, WriteTurn
<1>2. p \in SavedPaths(tx, base)
  BY <1>1 DEF PlanInv, WorkOK, SavedPaths
<1>3. \A q \in Path : disk'[q] # disk[q] => q = p
  BY <1>1 DEF Written, PlanInv, DisksOK
<1>4. disk' = [q \in Path |-> disk'[q]]
  BY <1>1 DEF Written, PlanInv, DisksOK
<1>5. QED
  BY <1>1, <1>2, <1>3, <1>4 DEF LoopStep

LEMMA UnlinkLoops ==
  ASSUME PlanInv, NEW p \in Path, Unlink(p)
  PROVE  LoopStep
<1>1. /\ phase = "committing" /\ p \in left.unlinks
      /\ disk' = IF p \in AllFrom THEN disk ELSE [disk EXCEPT ![p] = NoFile]
      /\ left' = [left EXCEPT !.unlinks = @ \ {p}]
      /\ UNCHANGED <<tx, phase, base, session>>
  BY DEF Unlink, WriteTurn
<1>2. p \in SavedPaths(tx, base)
  BY <1>1 DEF PlanInv, WorkOK, SavedPaths
<1>3. \A q \in Path : disk'[q] # disk[q] => q = p
  BY <1>1 DEF PlanInv, DisksOK
<1>4. disk' = [q \in Path |-> disk'[q]]
  BY <1>1 DEF PlanInv, DisksOK
<1>5. QED
  BY <1>1, <1>2, <1>3, <1>4 DEF LoopStep

LEMMA FinishLoops == PlanInv /\ Finish => LoopStep
BY DEF PlanInv, Finish, WriteTurn, LoopStep, DisksOK, Idle

(* A restore has all the entries to do when it starts; each one it does is *)
(* back as it was.                                                         *)
LEMMA RestoreStarts ==
  ASSUME PlanInv, RollBack \/ Undo
  PROVE  PlanInv'
<1>1. DOMAIN session.entries = SavedPaths(tx, base)
  BY ManifestDomain DEF PlanInv, SessionOK, AfterSave, RollBack, Undo, CanUndo
<1>2. CASE RollBack
  <2>1. /\ phase = "committing"
        /\ phase' \in {"restoring", "rolled_back", "rollback_failed"}
        /\ phase' = "restoring" => session.listed /\ left'.entries = DOMAIN session.entries
        /\ phase' = "rolled_back" => ~session.listed
        /\ UNCHANGED <<disk, tx, base, session>>
    BY <1>2 DEF RollBack, Idle
  <2>2. Ended'
    BY <2>1 DEF PlanInv, Covered, Ended, DisksOK, EndsSaved
  <2>3. QED
    BY <1>1, <2>1, <2>2
       DEF PlanInv, Phases, BeforeCommit, AfterSave, DisksOK, Untouched,
           SessionOK, WorkOK, EntriesOK, Covered, EndsSaved
<1>3. CASE Undo
  <2>1. /\ phase \in {"done", "crashed", "rolled_back", "rollback_failed"}
        /\ session.listed
        /\ phase' = "undoing" /\ left'.entries = DOMAIN session.entries
        /\ UNCHANGED <<disk, tx, base, session>>
    BY <1>3 DEF Undo, CanUndo, Idle
  <2>2. QED
    BY <1>1, <2>1
       DEF PlanInv, Phases, BeforeCommit, AfterSave, DisksOK, Untouched,
           SessionOK, WorkOK, EntriesOK, Covered, EndsSaved, Ended
<1>4. QED
  BY <1>2, <1>3

LEMMA RestoreEntryKeeps ==
  ASSUME PlanInv, NEW p \in Path, RestoreEntry(p)
  PROVE  PlanInv'
<1>1. /\ phase \in {"restoring", "undoing"} /\ p \in left.entries
      /\ disk' = [disk EXCEPT ![p] = Restored(session.entries[p])]
      /\ left' = [left EXCEPT !.entries = @ \ {p}]
      /\ UNCHANGED <<tx, phase, base, session>>
  BY DEF RestoreEntry
<1>2. p \in SavedPaths(tx, base)
  BY <1>1 DEF PlanInv, EntriesOK
<1>3. Restored(session.entries[p]) = base[p]
  BY <1>1, <1>2, ManifestRestores DEF PlanInv, SessionOK, AfterSave, DisksOK
<1>4. disk' = [disk EXCEPT ![p] = base[p]]
  BY <1>1, <1>3
<1>5. Covered'
  BY <1>1, <1>4 DEF PlanInv, Covered, EndsSaved, DisksOK
<1>6. DisksOK'
  BY <1>1, <1>4 DEF PlanInv, DisksOK
<1>7. EntriesOK'
  BY <1>1 DEF PlanInv, EntriesOK
<1>8. SessionOK'
  BY <1>1 DEF PlanInv, SessionOK, AfterSave
<1>9. (phase \in Phases /\ Untouched /\ WorkOK /\ Ended)'
  BY <1>1 DEF PlanInv, Phases, BeforeCommit, AfterSave, Untouched, WorkOK, Ended
<1>10. QED
  BY <1>5, <1>6, <1>7, <1>8, <1>9 DEF PlanInv

LEMMA RestoreEnds ==
  ASSUME PlanInv, RolledBack \/ Undone \/ RestoreFails \/ Crash
  PROVE  PlanInv'
<1>1. CASE RolledBack
  BY <1>1
     DEF RolledBack, PlanInv, Phases, BeforeCommit, AfterSave, DisksOK, Untouched,
         SessionOK, WorkOK, EntriesOK, Covered, Ended, EndsSaved
<1>2. CASE Undone
  BY <1>2
     DEF Undone, PlanInv, Phases, BeforeCommit, AfterSave, DisksOK, Untouched,
         SessionOK, WorkOK, EntriesOK, Covered, Ended, EndsSaved, NoSession
<1>3. CASE RestoreFails
  BY <1>3
     DEF RestoreFails, PlanInv, Phases, BeforeCommit, AfterSave, DisksOK, Untouched,
         SessionOK, WorkOK, EntriesOK, Covered, Ended, EndsSaved
<1>4. CASE Crash
  BY <1>4
     DEF Crash, PlanInv, Phases, BeforeCommit, AfterSave, DisksOK, Untouched,
         SessionOK, WorkOK, EntriesOK, Covered, Ended, EndsSaved
<1>5. QED
  BY <1>1, <1>2, <1>3, <1>4

LEMMA StagePlanInv == PlanInv /\ Stage => PlanInv'
<1> SUFFICES ASSUME PlanInv, Stage PROVE PlanInv'
  OBVIOUS
<1>1. /\ phase = "staging" /\ phase' \in {"staging", "refused", "collected"}
      /\ UNCHANGED <<disk, base, session, left>>
  BY StagingWritesNothing
<1>2. QED
  BY <1>1
     DEF PlanInv, Phases, BeforeCommit, AfterSave, DisksOK, Untouched, SessionOK,
         WorkOK, EntriesOK, Covered, Ended, NoSession

LEMMA StepPlanInv == PlanInv /\ [Next]_planVars => PlanInv'
<1> SUFFICES ASSUME PlanInv, [Next]_planVars PROVE PlanInv'
  OBVIOUS
<1>1. CASE Stage
  BY <1>1, StagePlanInv
<1>2. CASE Unchanged \/ SaveOriginals \/ SaveFails
  BY <1>2, SaveSteps
<1>3. CASE Finalize
  BY <1>3, FinalizeStep
<1>4. CASE ApplyRename
  BY <1>4, ApplyRenameLoops, LoopStepKeeps
<1>5. CASE \E r \in left.moves : ApplyPureRename(r)
  BY <1>5, ApplyPureRenameLoops, LoopStepKeeps
<1>6. CASE \E p \in Path : WriteChange(p)
  BY <1>6, WriteChangeLoops, LoopStepKeeps
<1>7. CASE \E p \in Path : Unlink(p)
  BY <1>7, UnlinkLoops, LoopStepKeeps
<1>8. CASE Finish
  BY <1>8, FinishLoops, LoopStepKeeps
<1>9. CASE RollBack \/ Undo
  BY <1>9, RestoreStarts
<1>10. CASE \E p \in Path : RestoreEntry(p)
  BY <1>10, RestoreEntryKeeps
<1>11. CASE RolledBack \/ Undone \/ RestoreFails \/ Crash
  BY <1>11, RestoreEnds
<1>12. CASE UNCHANGED planVars
  BY <1>12
     DEF planVars, PlanInv, Phases, BeforeCommit, AfterSave, DisksOK, Untouched,
         SessionOK, WorkOK, EntriesOK, Covered, Ended, EndsSaved
<1>13. QED
  BY <1>1, <1>2, <1>3, <1>4, <1>5, <1>6, <1>7, <1>8, <1>9, <1>10, <1>11, <1>12
     DEF Next, Commit, CommitNext, CommitStep, Disturbance, StepStuck, StepFails

THEOREM PlanInvariant == Spec => []PlanInv
BY InitPlanInv, StepPlanInv, PTL DEF Spec

-----------------------------------------------------------------------------
(* Write-ahead: at every instant each path that differs from what the plan *)
(* found is in a manifest on disk, with what restores it.                  *)
LEMMA InvRecoverable == PlanInv => Recoverable
<1> SUFFICES ASSUME PlanInv, EndsSaved, NEW p \in Path, disk[p] # base[p], phase # "undone"
             PROVE  /\ session.listed
                    /\ p \in DOMAIN session.entries
                    /\ Restored(session.entries[p]) = base[p]
  BY DEF Recoverable
<1>1. session.listed /\ p \in SavedPaths(tx, base)
  BY DEF PlanInv, Covered
<1>2. phase \in AfterSave
  BY DEF PlanInv, Untouched, Phases
<1>3. session.entries = Manifest(tx, base)
  BY <1>2 DEF PlanInv, SessionOK
<1>4. QED
  BY <1>1, <1>3, ManifestRestores DEF PlanInv, DisksOK

THEOREM PlansAreRecoverable == Spec => []Recoverable
BY PlanInvariant, InvRecoverable, PTL

(* A rollback that reports success, an undo that finishes, a refused plan  *)
(* and an aborted save phase leave the workspace as the plan found it.     *)
LEMMA InvTakesAllBack == PlanInv => TakesAllBack
BY DEF PlanInv, TakesAllBack, Ended, Untouched, BeforeCommit

THEOREM PlansAreTakenBackWhole == Spec => []TakesAllBack
BY PlanInvariant, InvTakesAllBack, PTL

(* No listed session lacks an original, if what the plan deletes was there. *)
LEMMA InvSessionRestores == PlanInv => ListedSessionRestores
<1> SUFFICES ASSUME PlanInv, session.listed, DeletesFound PROVE Complete(session)
  BY DEF ListedSessionRestores
<1>1. session.entries = Manifest(tx, base)
  BY DEF PlanInv, SessionOK
<1>2. QED
  BY <1>1
     DEF Complete, Manifest, SavedBeforeDelete, SavedBeforeWrite, DeletesFound,
         Present

THEOREM ListedSessionsRestore == Spec => []ListedSessionRestores
BY PlanInvariant, InvSessionRestores, PTL

-----------------------------------------------------------------------------
(***************************************************************************)
(* Type correctness of the composition, for plans of any operations.  What *)
(* is left to do is nothing until the commit begins to write.              *)
(***************************************************************************)
NotBegun == BeforeCommit \cup {"saved", "aborted"}

LeftIdle == phase \in NotBegun => left = Idle

PlanTypeOK ==
  /\ StagingTypeOK
  /\ CommitTypeOK
  /\ DOMAIN tx = DOMAIN EmptyTx
  /\ tx.renames \in Seq(Pair)
  /\ phase \in {"staging", "refused", "collected", "unchanged", "saved",
                "aborted", "committing", "done", "restoring", "rolled_back",
                "rollback_failed", "crashed", "undoing", "undone"}

TypeInv == PlanTypeOK /\ LeftIdle

LEMMA ManifestTyped ==
  ASSUME NEW t, NEW d \in [Path -> File], TypedTx(t), t.renames \in Seq(Pair)
  PROVE  IsPartialFn(Manifest(t, d), Path, Entry)
<1>1. SavedPaths(t, d) \subseteq Path
  <2>1. RenamedTo(t.renames) \subseteq Path
    <3>1. \A i \in DOMAIN t.renames : t.renames[i] \in Pair
      OBVIOUS
    <3>2. QED
      BY <3>1 DEF RenamedTo, Pair
  <2>2. QED
    BY <2>1 DEF SavedPaths, Changes, TypedTx, IsPartialFn
<1>2. \A p \in Path : SavedBeforeDelete(d, p) \in Entry /\ SavedBeforeWrite(d, p) \in Entry
  BY DEF SavedBeforeDelete, SavedBeforeWrite, Entry
<1>3. QED
  BY <1>1, <1>2 DEF Manifest, IsPartialFn

LEMMA RestoredTyped ==
  ASSUME NEW e \in Entry
  PROVE  Restored(e) \in File
BY Bodies DEF Restored, Entry, NoFile, File, Kind

LEMMA InitTypeInv == Init => TypeInv
<1> SUFFICES ASSUME Init PROVE TypeInv
  OBVIOUS
<1>1. StagingTypeOK
  BY InitStagingTypeOK DEF Init
<1>2. base \in [Path -> File] /\ phase = "staging" /\ tx = EmptyTx
  BY <1>1 DEF Init, StagingInit, StagingTypeOK
<1>3. /\ session = NoSession /\ left = Idle /\ faults = 0
  BY DEF Init
<1>4. CommitTypeOK
  BY <1>2, <1>3, CommitConstants DEF CommitTypeOK, NoSession, NoEntries, Idle, IsPartialFn
<1>5. tx.renames \in Seq(Pair)
  BY <1>2 DEF EmptyTx
<1>6. QED
  BY <1>1, <1>2, <1>3, <1>4, <1>5 DEF TypeInv, PlanTypeOK, LeftIdle

LEMMA StageTyped ==
  ASSUME TypeInv, Stage
  PROVE  TypeInv'
<1>1. StagingTypeOK'
  BY StepStagingTypeOK DEF Stage, TypeInv, PlanTypeOK
<1>2. Shaped(tx)'
  BY StepShaped DEF Stage, TypeInv, PlanTypeOK, Shaped
<1>3. /\ phase = "staging" /\ phase' \in {"staging", "refused", "collected"}
      /\ UNCHANGED <<base, session, left, faults>>
  BY StagingWritesNothing
<1>4. QED
  BY <1>1, <1>2, <1>3
     DEF TypeInv, PlanTypeOK, CommitTypeOK, LeftIdle, NotBegun, BeforeCommit, Shaped

(* What a step of the commit owes to the types.                            *)
LEMMA CommitKeepsTypes ==
  ASSUME TypeInv, UNCHANGED <<tx, want, astray, ops>>,
         disk' \in [Path -> File], base' \in [Path -> File],
         session'.listed \in BOOLEAN, IsPartialFn(session'.entries, Path, Entry),
         left'.entries \subseteq DOMAIN session'.entries,
         left'.writes \cup left'.unlinks \subseteq Path,
         left'.moves \subseteq left'.pure, left'.pure \subseteq Pair,
         left'.next \in Nat, faults' \in 0..MaxFaults,
         phase' \in Phases, phase' \in NotBegun => left' = Idle
  PROVE  TypeInv'
BY DEF TypeInv, PlanTypeOK, StagingTypeOK, CommitTypeOK, LeftIdle, Phases, BeforeCommit,
       AfterSave, NotBegun

LEMMA TypeFacts ==
  ASSUME TypeInv
  PROVE  /\ TypedTx(tx) /\ tx.renames \in Seq(Pair)
         /\ disk \in [Path -> File] /\ base \in [Path -> File]
         /\ session.listed \in BOOLEAN /\ IsPartialFn(session.entries, Path, Entry)
         /\ left.entries \subseteq DOMAIN session.entries
         /\ left.writes \cup left.unlinks \subseteq Path
         /\ left.moves \subseteq left.pure /\ left.pure \subseteq Pair
         /\ left.next \in Nat /\ faults \in 0..MaxFaults
         /\ DOMAIN session.entries \subseteq Path
         /\ Changes(tx) \cup tx.deletions \subseteq Path
BY DEF TypeInv, PlanTypeOK, StagingTypeOK, CommitTypeOK, TypedTx, Changes, IsPartialFn

LEMMA IdleTyped ==
  ASSUME NEW S
  PROVE  LET i == [Idle EXCEPT !.entries = S]
         IN  /\ i.entries = S /\ i.next = 1
             /\ i.moves = {} /\ i.pure = {} /\ i.writes = {} /\ i.unlinks = {}
BY DEF Idle

(* The steps that write nothing.                                           *)
LEMMA QuietTyped ==
  ASSUME TypeInv, UNCHANGED <<want, astray, ops>>,
         \/ Unchanged \/ SaveOriginals \/ Finalize \/ SaveFails \/ StepStuck \/ StepFails
         \/ RestoreFails \/ RolledBack \/ Undo \/ Undone \/ Crash \/ Finish
  PROVE  TypeInv'
<1> USE TypeFacts, CommitConstants DEF Phases, BeforeCommit, AfterSave, NotBegun
<1>1. CASE Unchanged
  BY <1>1, CommitKeepsTypes DEF Unchanged, TypeInv, LeftIdle
<1>2. CASE SaveOriginals
  <2>1. /\ phase = "collected" /\ phase' = "saved" /\ base' = disk
        /\ session' = [listed |-> FALSE, entries |-> Manifest(tx, disk)]
        /\ UNCHANGED <<disk, tx, left, faults>>
    BY <1>2 DEF SaveOriginals
  <2>2. left = Idle
    BY <2>1 DEF TypeInv, LeftIdle
  <2>3. IsPartialFn(Manifest(tx, disk), Path, Entry)
    BY ManifestTyped
  <2>4. QED
    BY <2>1, <2>2, <2>3, CommitKeepsTypes DEF Idle
<1>3. CASE Finalize
  <2>1. /\ phase' = "committing" /\ UNCHANGED <<disk, tx, base, faults>>
        /\ session' = [session EXCEPT !.listed = DOMAIN session.entries # {}]
    BY <1>3 DEF Finalize
  <2>2. PICK M \in PurePairings(tx) :
          left' = [Idle EXCEPT !.pure = Uncovered(tx, M), !.moves = Uncovered(tx, M),
                               !.writes = Changes(tx), !.unlinks = tx.deletions]
    BY <1>3 DEF Finalize
  <2>3. /\ left'.pure = Uncovered(tx, M) /\ left'.moves = Uncovered(tx, M)
        /\ left'.writes = Changes(tx) /\ left'.unlinks = tx.deletions
        /\ left'.entries = {} /\ left'.next = 1
    BY <2>2 DEF Idle
  <2>4. Uncovered(tx, M) \subseteq Pair
    BY DEF Uncovered, PurePairings, PureCandidates, PureSources, PureDests, Pair
  <2>5. session'.entries = session.entries /\ session'.listed \in BOOLEAN
    BY <2>1
  <2>6. QED
    BY <2>1, <2>3, <2>4, <2>5, CommitKeepsTypes
<1>4. CASE SaveFails
  BY <1>4, CommitKeepsTypes DEF SaveFails, TypeInv, LeftIdle
<1>5. CASE StepStuck \/ StepFails
  <2>1. RollBack /\ faults' \in 0..MaxFaults
    BY <1>5 DEF StepStuck, StepFails
  <2> DEFINE S == IF session.listed THEN DOMAIN session.entries ELSE {}
  <2>2. /\ left' = [Idle EXCEPT !.entries = S] /\ UNCHANGED <<disk, tx, base, session>>
        /\ phase' \in {"rolled_back", "restoring", "rollback_failed"}
    BY <2>1 DEF RollBack
  <2>3. S \subseteq DOMAIN session.entries
    OBVIOUS
  <2> HIDE DEF S
  <2>4. QED
    BY <2>1, <2>2, <2>3, IdleTyped, CommitKeepsTypes
<1>6. CASE RestoreFails \/ Crash
  <2>1. /\ left' = Idle /\ faults' \in 0..MaxFaults /\ UNCHANGED <<disk, tx, base, session>>
        /\ phase' \in {"rollback_failed", "crashed"}
    BY <1>6 DEF RestoreFails, Crash
  <2>2. QED
    BY <2>1, CommitKeepsTypes DEF Idle
<1>7. CASE RolledBack
  BY <1>7, CommitKeepsTypes DEF RolledBack
<1>8. CASE Undo
  <2>1. /\ left' = [Idle EXCEPT !.entries = DOMAIN session.entries]
        /\ phase' = "undoing" /\ UNCHANGED <<disk, tx, base, session, faults>>
    BY <1>8 DEF Undo
  <2>2. QED
    BY <2>1, IdleTyped, CommitKeepsTypes
<1>9. CASE Undone
  <2>1. /\ left.entries = {} /\ phase' = "undone" /\ session' = NoSession
        /\ UNCHANGED <<disk, tx, base, left, faults>>
    BY <1>9 DEF Undone
  <2>2. IsPartialFn(NoSession.entries, Path, Entry) /\ NoSession.listed \in BOOLEAN
    BY DEF NoSession, NoEntries, IsPartialFn
  <2>3. QED
    BY <2>1, <2>2, CommitKeepsTypes
<1>10. CASE Finish
  BY <1>10, CommitKeepsTypes DEF Finish, Idle
<1>11. QED
  BY <1>1, <1>2, <1>3, <1>4, <1>5, <1>6, <1>7, <1>8, <1>9, <1>10

(* The steps that write a path: what they write is a file.                 *)
LEMMA MovedTyped ==
  ASSUME NEW d \in [Path -> File], NEW r \in Pair
  PROVE  Moved(d, r) \in [Path -> File]
BY Bodies DEF Moved, Pair, NoFile, File, Kind

LEMMA WritingTyped ==
  ASSUME TypeInv, PlanInv, UNCHANGED <<want, astray, ops>>,
         \/ ApplyRename \/ \E r \in left.moves : ApplyPureRename(r)
         \/ \E p \in Path : WriteChange(p) \/ Unlink(p) \/ RestoreEntry(p)
  PROVE  TypeInv'
<1> USE TypeFacts DEF Phases, BeforeCommit, AfterSave, NotBegun
<1>0. ASSUME disk' \in [Path -> File], UNCHANGED <<tx, phase, base, session, faults>>,
             phase \in {"committing", "restoring", "undoing"},
             left'.entries \subseteq left.entries, left'.writes \subseteq left.writes,
             left'.unlinks \subseteq left.unlinks, left'.moves \subseteq left.moves,
             left'.pure = left.pure, left'.next \in Nat
      PROVE  TypeInv'
  BY <1>0, CommitKeepsTypes
<1>1. CASE ApplyRename
  <2>1. /\ phase = "committing" /\ left.next \in DOMAIN tx.renames
        /\ disk' = Moved(disk, tx.renames[left.next])
        /\ left' = [left EXCEPT !.next = @ + 1]
        /\ UNCHANGED <<tx, phase, base, session, faults>>
    BY <1>1 DEF ApplyRename, RenamesDone
  <2>2. tx.renames[left.next] \in Pair
    BY <2>1
  <2>3. /\ left'.entries = left.entries /\ left'.writes = left.writes
        /\ left'.unlinks = left.unlinks /\ left'.moves = left.moves
        /\ left'.pure = left.pure /\ left'.next \in Nat
    BY <2>1
  <2>4. QED
    BY <1>0, <2>1, <2>2, <2>3, MovedTyped
<1>2. ASSUME NEW r \in left.moves, ApplyPureRename(r) PROVE TypeInv'
  <2>1. /\ phase = "committing" /\ disk' = Moved(disk, r)
        /\ left' = [left EXCEPT !.moves = @ \ {r}]
        /\ UNCHANGED <<tx, phase, base, session, faults>>
    BY <1>2 DEF ApplyPureRename
  <2>2. disk' \in [Path -> File]
    BY <2>1, MovedTyped
  <2>3. /\ left'.entries = left.entries /\ left'.writes = left.writes
        /\ left'.unlinks = left.unlinks /\ left'.moves \subseteq left.moves
        /\ left'.pure = left.pure /\ left'.next = left.next
    BY <2>1
  <2>4. QED
    BY <1>0, <2>1, <2>2, <2>3
<1>3. ASSUME NEW p \in Path, WriteChange(p) PROVE TypeInv'
  <2>1. /\ phase = "committing" /\ p \in left.writes /\ disk' = Written(p)
        /\ left' = [left EXCEPT !.writes = @ \ {p}]
        /\ UNCHANGED <<tx, phase, base, session, faults>>
    BY <1>3 DEF WriteChange, WriteTurn
  <2>2. /\ left'.entries = left.entries /\ left'.writes \subseteq left.writes
        /\ left'.unlinks = left.unlinks /\ left'.moves = left.moves
        /\ left'.pure = left.pure /\ left'.next = left.next
    BY <2>1
  <2>3. disk' \in [Path -> File]
    <3>1. p \in DOMAIN tx.pending
      BY <2>1 DEF PlanInv, WorkOK, Changes
    <3>2. Text(tx.pending[p].cur) \in File /\ NoFile \in File
      BY <3>1, StagedTyped, FilesTyped
    <3>3. QED
      BY <2>1, <3>2 DEF Written
  <2>4. QED
    BY <1>0, <2>1, <2>2, <2>3
<1>4. ASSUME NEW p \in Path, Unlink(p) PROVE TypeInv'
  <2>1. /\ phase = "committing"
        /\ disk' = disk \/ disk' = [disk EXCEPT ![p] = NoFile]
        /\ left' = [left EXCEPT !.unlinks = @ \ {p}]
        /\ UNCHANGED <<tx, phase, base, session, faults>>
    BY <1>4 DEF Unlink, WriteTurn
  <2>2. disk' \in [Path -> File]
    BY <2>1, FilesTyped
  <2>3. /\ left'.entries = left.entries /\ left'.writes = left.writes
        /\ left'.unlinks \subseteq left.unlinks /\ left'.moves = left.moves
        /\ left'.pure = left.pure /\ left'.next = left.next
    BY <2>1
  <2>4. QED
    BY <1>0, <2>1, <2>2, <2>3
<1>5. ASSUME NEW p \in Path, RestoreEntry(p) PROVE TypeInv'
  <2>1. /\ phase \in {"restoring", "undoing"} /\ p \in left.entries
        /\ disk' = [disk EXCEPT ![p] = Restored(session.entries[p])]
        /\ left' = [left EXCEPT !.entries = @ \ {p}]
        /\ UNCHANGED <<tx, phase, base, session, faults>>
    BY <1>5 DEF RestoreEntry
  <2>2. session.entries[p] \in Entry
    BY <2>1 DEF IsPartialFn
  <2>3. disk' \in [Path -> File]
    BY <2>1, <2>2, RestoredTyped
  <2>4. /\ left'.entries \subseteq left.entries /\ left'.writes = left.writes
        /\ left'.unlinks = left.unlinks /\ left'.moves = left.moves
        /\ left'.pure = left.pure /\ left'.next = left.next
    BY <2>1
  <2>5. QED
    BY <1>0, <2>1, <2>3, <2>4
<1>6. QED
  BY <1>1, <1>2, <1>3, <1>4, <1>5

LEMMA StepTypeInv == TypeInv /\ PlanInv /\ [Next]_planVars => TypeInv'
<1> SUFFICES ASSUME TypeInv, PlanInv, [Next]_planVars PROVE TypeInv'
  OBVIOUS
<1>1. CASE Stage
  BY <1>1, StageTyped
<1>2. CASE Commit
  <2>1. CommitNext /\ UNCHANGED <<want, astray, ops>>
    BY <1>2 DEF Commit
  <2>2. QED
    BY <2>1, QuietTyped, WritingTyped DEF CommitNext, CommitStep, Disturbance
<1>3. CASE UNCHANGED planVars
  BY <1>3 DEF planVars, TypeInv, PlanTypeOK, StagingTypeOK, CommitTypeOK, LeftIdle
<1>4. QED
  BY <1>1, <1>2, <1>3 DEF Next

(* A plan keeps its types from the first operation to the last outcome: of *)
(* staging, of its session and of what its commit has left to do; the      *)
(* recorded renames stay pairs of paths whatever is dropped of them.       *)
THEOREM PlanTypeCorrect == Spec => []PlanTypeOK
<1>1. TypeInv => PlanTypeOK
  BY DEF TypeInv
<1>2. QED
  BY <1>1, InitTypeInv, StepTypeInv, PlanInvariant, PTL DEF Spec

-----------------------------------------------------------------------------
(***************************************************************************)
(* For any paths, texts, workspaces, faults and plans of any operations:   *)
(* the commit of what staging collected.  One that ends well leaves the    *)
(* files that the plan means; one of an accepted plan is not stuck; and    *)
(* the engine implements AtomicPlan.                                       *)
(*                                                                         *)
(* Three invariants carry it: what staging has handed over (StagedInv),    *)
(* where the three loops of the commit stand (CommitInv), and that the     *)
(* originals are those of the workspace (FoundInv).                        *)
(***************************************************************************)

(***************************************************************************)
(* The recorded renames of a plan that is not tangled.  No path is left or *)
(* reached twice, and a path is reached before it is left: the renames are *)
(* chains, each recorded from its first link to its last.                  *)
(***************************************************************************)
InOrder(rs) ==
  \A i, j \in DOMAIN rs :
    /\ rs[i].from = rs[j].from => i = j
    /\ rs[i].to = rs[j].to => i = j
    /\ rs[i].to = rs[j].from => i < j

(* A sequence without its i-th element.                                    *)
Without(rs, i) == SubSeq(rs, 1, i - 1) \o SubSeq(rs, i + 1, Len(rs))

LEMMA WithoutElements ==
  ASSUME NEW rs \in Seq(Pair), NEW i \in 1..Len(rs)
  PROVE  /\ Without(rs, i) \in Seq(Pair)
         /\ Len(Without(rs, i)) = Len(rs) - 1
         /\ \A k \in 1..(Len(rs) - 1) :
              Without(rs, i)[k] = IF k < i THEN rs[k] ELSE rs[k + 1]
<1> DEFINE a == SubSeq(rs, 1, i - 1)
           b == SubSeq(rs, i + 1, Len(rs))
<1>1. a \in Seq(Pair) /\ Len(a) = i - 1 /\ \A k \in 1..(i - 1) : a[k] = rs[k]
  BY SubSeqProperties
<1>2. b \in Seq(Pair) /\ Len(b) = Len(rs) - i /\ \A k \in 1..(Len(rs) - i) : b[k] = rs[i + k]
  BY SubSeqProperties
<1> HIDE DEF a, b
<1>3. a \o b \in Seq(Pair) /\ Len(a \o b) = Len(rs) - 1
  <2>1. a \o b \in Seq(Pair) /\ Len(a \o b) = Len(a) + Len(b)
    BY <1>1, <1>2, ConcatProperties
  <2>2. Len(a) + Len(b) = Len(rs) - 1
    BY <1>1, <1>2
  <2>3. QED
    BY <2>1, <2>2
<1>4. ASSUME NEW k \in 1..(Len(rs) - 1)
      PROVE  (a \o b)[k] = IF k < i THEN rs[k] ELSE rs[k + 1]
  <2>1. (a \o b)[k] = IF k <= Len(a) THEN a[k] ELSE b[k - Len(a)]
    BY <1>1, <1>2, <1>4
  <2>2. CASE k < i
    BY <1>1, <2>1, <2>2
  <2>3. CASE ~(k < i)
    <3>1. k - Len(a) \in 1..(Len(rs) - i) /\ i + (k - Len(a)) = k + 1
      BY <1>1, <2>3
    <3>2. QED
      BY <1>1, <1>2, <2>1, <2>3, <3>1
  <2>4. QED
    BY <2>2, <2>3
<1>5. QED
  BY <1>3, <1>4 DEF Without, a, b

LEMMA WithoutLink ==
  ASSUME NEW rs \in Seq(Pair), InOrder(rs), NEW i \in 1..Len(rs)
  PROVE  LET ns == Without(rs, i)
         IN  /\ ns \in Seq(Pair) /\ InOrder(ns) /\ Len(ns) = Len(rs) - 1
             /\ \A k \in DOMAIN ns : \E j \in DOMAIN rs : ns[k] = rs[j]
             /\ RenamedFrom(ns) = RenamedFrom(rs) \ {rs[i].from}
             /\ RenamedTo(ns) = RenamedTo(rs) \ {rs[i].to}
<1> DEFINE ns == Without(rs, i)
           Old(k) == IF k < i THEN k ELSE k + 1
           New(j) == IF j < i THEN j ELSE j - 1
<1>1. /\ ns \in Seq(Pair) /\ Len(ns) = Len(rs) - 1
      /\ \A k \in 1..(Len(rs) - 1) : ns[k] = IF k < i THEN rs[k] ELSE rs[k + 1]
  BY WithoutElements
<1> HIDE DEF ns
<1>2. DOMAIN ns = 1..(Len(rs) - 1) /\ DOMAIN rs = 1..Len(rs)
  BY <1>1
<1>3. \A k \in DOMAIN ns : Old(k) \in DOMAIN rs \ {i} /\ ns[k] = rs[Old(k)]
  BY <1>1, <1>2
<1>4. \A j \in DOMAIN rs \ {i} : New(j) \in DOMAIN ns /\ Old(New(j)) = j
  BY <1>2
<1>5. \A k, l \in DOMAIN ns : (Old(k) = Old(l) => k = l) /\ (Old(k) < Old(l) => k < l)
  BY <1>2
<1> HIDE DEF Old, New
<1>6. InOrder(ns)
  BY <1>3, <1>5 DEF InOrder
<1>7. RenamedFrom(ns) = RenamedFrom(rs) \ {rs[i].from}
  <2>1. \A k \in DOMAIN ns : ns[k].from \in RenamedFrom(rs) \ {rs[i].from}
    BY <1>2, <1>3 DEF InOrder, RenamedFrom
  <2>2. \A j \in DOMAIN rs : rs[j].from # rs[i].from => rs[j].from \in RenamedFrom(ns)
    BY <1>3, <1>4 DEF RenamedFrom
  <2>3. QED
    BY <2>1, <2>2 DEF RenamedFrom
<1>8. RenamedTo(ns) = RenamedTo(rs) \ {rs[i].to}
  <2>1. \A k \in DOMAIN ns : ns[k].to \in RenamedTo(rs) \ {rs[i].to}
    BY <1>2, <1>3 DEF InOrder, RenamedTo
  <2>2. \A j \in DOMAIN rs : rs[j].to # rs[i].to => rs[j].to \in RenamedTo(ns)
    BY <1>3, <1>4 DEF RenamedTo
  <2>3. QED
    BY <2>1, <2>2 DEF RenamedTo
<1>9. QED
  BY <1>1, <1>3, <1>6, <1>7, <1>8 DEF ns

(***************************************************************************)
(* drop_rename_chain_ending_at along a chain: the links that end at p, one *)
(* before the other, are gone; what is left is still chains.               *)
(***************************************************************************)
LEMMA DropChain ==
  ASSUME NEW rs \in Seq(Pair), InOrder(rs), NEW p
  PROVE  LET ns == DropRenameChainEndingAt(rs, p)
         IN  /\ ns \in Seq(Pair) /\ InOrder(ns) /\ Len(ns) <= Len(rs)
             /\ \A k \in DOMAIN ns : \E j \in DOMAIN rs : ns[k] = rs[j]
             /\ p \notin RenamedTo(ns)
             /\ RenamedTo(rs) \ RenamedTo(ns) \subseteq
                  {p} \cup (RenamedFrom(rs) \ RenamedFrom(ns))
             /\ RenamedTo(ns) \cap (RenamedFrom(rs) \ RenamedFrom(ns)) = {}
<1>1. PICK w : /\ w[0] = [pairs |-> rs, at |-> p]
               /\ \A n \in Nat : w[n + 1] = DropLink(w[n])
               /\ DropRenameChainEndingAt(rs, p) = w[Len(rs)].pairs
  BY DropWalks
<1> DEFINE Gone(c) == RenamedFrom(rs) \ RenamedFrom(c.pairs)
           Good(n, c) ==
             /\ c.pairs \in Seq(Pair) /\ InOrder(c.pairs) /\ Len(c.pairs) <= Len(rs)
             /\ \A k \in DOMAIN c.pairs : \E j \in DOMAIN rs : c.pairs[k] = rs[j]
             /\ RenamedTo(rs) \ RenamedTo(c.pairs) \subseteq {p} \cup Gone(c)
             /\ RenamedTo(c.pairs) \cap Gone(c) \subseteq {c.at}
             /\ p \in RenamedTo(c.pairs) => c.at = p
             /\ c.at = p \/ c.at \in Gone(c)
             /\ c.at \notin RenamedTo(c.pairs) \/ Len(c.pairs) = Len(rs) - n
           S == {n \in Nat : Good(n, w[n])}
<1>2. 0 \in S
  <2>1. Good(0, [pairs |-> rs, at |-> p])
    BY DEF RenamedTo
  <2>2. QED
    BY <1>1, <2>1
<1>3. ASSUME NEW n \in Nat, n \in S PROVE n + 1 \in S
  <2> DEFINE c == w[n]
             I == EndsAt(c.pairs, c.at)
             i == CHOOSE k \in I : \A j \in I : k <= j
  <2>1. w[n + 1] = DropLink(c) /\ Good(n, c)
    BY <1>1, <1>3
  <2> HIDE DEF c
  <2>2. CASE I = {}
    <3>1. w[n + 1] = c /\ c.at \notin RenamedTo(c.pairs)
      BY <2>1, <2>2 DEF DropLink, EndsAt, RenamedTo
    <3>2. Good(n + 1, c)
      BY <2>1, <3>1
    <3>3. QED
      BY <3>1, <3>2
  <2>3. CASE I # {}
    <3>1. i \in I
      <4>1. I \subseteq Nat
        BY <2>1 DEF EndsAt
      <4>2. \E k \in I : \A j \in I : k <= j
        BY <2>3, <4>1, LeastOf
      <4>3. QED
        BY <4>2
    <3>2. w[n + 1] = [pairs |-> Without(c.pairs, i), at |-> c.pairs[i].from]
      BY <2>1, <2>3 DEF DropLink, Without
    <3> HIDE DEF i
    <3> DEFINE e == w[n + 1]
    <3>3. i \in 1..Len(c.pairs) /\ c.pairs[i].to = c.at
      BY <2>1, <3>1 DEF EndsAt
    <3>4. /\ e.pairs \in Seq(Pair) /\ InOrder(e.pairs) /\ Len(e.pairs) = Len(c.pairs) - 1
          /\ \A k \in DOMAIN e.pairs : \E j \in DOMAIN c.pairs : e.pairs[k] = c.pairs[j]
          /\ RenamedFrom(e.pairs) = RenamedFrom(c.pairs) \ {c.pairs[i].from}
          /\ RenamedTo(e.pairs) = RenamedTo(c.pairs) \ {c.pairs[i].to}
          /\ e.at = c.pairs[i].from
      <4>1. e.pairs = Without(c.pairs, i) /\ e.at = c.pairs[i].from
        BY <3>2
      <4>2. c.pairs \in Seq(Pair) /\ InOrder(c.pairs)
        BY <2>1
      <4> DEFINE v == Without(c.pairs, i)
      <4>3. /\ v \in Seq(Pair) /\ InOrder(v) /\ Len(v) = Len(c.pairs) - 1
            /\ \A k \in DOMAIN v : \E j \in DOMAIN c.pairs : v[k] = c.pairs[j]
            /\ RenamedFrom(v) = RenamedFrom(c.pairs) \ {c.pairs[i].from}
            /\ RenamedTo(v) = RenamedTo(c.pairs) \ {c.pairs[i].to}
        BY <3>3, <4>2, WithoutLink, Zenon
      <4>4. QED
        BY <4>1, <4>3, Zenon
    <3> HIDE DEF e
    <3>5. \A k \in DOMAIN e.pairs : \E j \in DOMAIN rs : e.pairs[k] = rs[j]
      BY <2>1, <3>4
    <3>6. c.pairs[i].from \in RenamedFrom(rs)
      BY <2>1, <3>3 DEF RenamedFrom
    <3>7. c.pairs[i].from \in Gone(e) /\ Gone(e) = Gone(c) \cup {c.pairs[i].from}
      BY <3>4, <3>6
    <3> HIDE DEF Gone
    <3>8. /\ RenamedTo(rs) \ RenamedTo(e.pairs) \subseteq {p} \cup Gone(e)
          /\ RenamedTo(e.pairs) \cap Gone(e) \subseteq {e.at}
          /\ p \notin RenamedTo(e.pairs)
          /\ e.at \in Gone(e)
      BY <2>1, <3>3, <3>4, <3>7
    <3>9. e.at \notin RenamedTo(e.pairs) \/ Len(e.pairs) = Len(rs) - (n + 1)
      <4>1. c.at \in RenamedTo(c.pairs) /\ Len(c.pairs) \in Nat /\ Len(rs) \in Nat
        BY <2>1, <3>3 DEF RenamedTo
      <4>2. QED
        BY <2>1, <3>4, <4>1
    <3>10. Len(e.pairs) <= Len(rs)
      BY <2>1, <3>4
    <3>11. Good(n + 1, e)
      BY <3>4, <3>5, <3>8, <3>9, <3>10
    <3>12. QED
      BY <3>11 DEF e
  <2>4. QED
    BY <2>2, <2>3
<1> HIDE DEF S
<1>4. Nat \subseteq S
  BY <1>2, <1>3, NatSetInduction
<1> DEFINE c == w[Len(rs)]
<1>5. Good(Len(rs), c)
  BY <1>4 DEF S
<1> HIDE DEF c
<1>6. c.at \notin RenamedTo(c.pairs)
  <2>1. Len(c.pairs) = 0 => RenamedTo(c.pairs) = {}
    BY <1>5 DEF RenamedTo
  <2>2. QED
    BY <1>5, <2>1
<1> HIDE DEF Gone
<1>7. QED
  BY <1>1, <1>5, <1>6 DEF c, Gone


-----------------------------------------------------------------------------
(***************************************************************************)
(* What the chains of a plan that is not tangled start from and end at, E  *)
(* being the ends of all renames recorded so far.  The first path of a     *)
(* chain was on disk; a path that was left is staged, if it was on disk;   *)
(* the last path is staged, and each path reached was written.  A binary   *)
(* that is staged is where a chain of one link has put a file of the       *)
(* workspace.                                                              *)
(***************************************************************************)
Chained(d, t, f, E) ==
  LET rs == t.renames
      From == RenamedFrom(rs)
      To == RenamedTo(rs)
  IN  /\ From \cup To \subseteq E
      /\ InOrder(rs)
      /\ \A p \in From \ To : Present(d, p)
      /\ \A p \in From : p \in DOMAIN t.pending \/ ~Present(d, p)
      /\ To \ From \subseteq DOMAIN t.pending
      /\ To \subseteq t.writes
      /\ \A p \in DOMAIN t.pending : f[p].kind = "binary" =>
           /\ p \notin From
           /\ \E i \in DOMAIN rs : /\ rs[i].to = p /\ rs[i].from \notin To
                                   /\ d[rs[i].from].kind = "binary" /\ f[p] = d[rs[i].from]

LEMMA SteadyChained ==
  ASSUME NEW d, NEW t, NEW u, NEW f, NEW g, NEW E,
         Steady(t, u, f, g), Chained(d, t, f, E)
  PROVE  Chained(d, u, g, E)
BY DEF Steady, Chained

(* A delete drops the chain that ended at p, and none whose text went on.  *)
LEMMA DeletesChained ==
  ASSUME NEW t, NEW u, NEW f, NEW g, NEW E, NEW p \in Path,
         t.renames \in Seq(Pair), Deletes(t, u, f, g, p), Chained(disk, t, f, E),
         (RenamedTo(t.renames) \ RenamedTo(u.renames)) \cap RenamedFrom(u.renames) = {}
  PROVE  Chained(disk, u, g, E)
<1> DEFINE rs == t.renames
           ns == u.renames
<1>1. ns = DropRenameChainEndingAt(rs, p) /\ InOrder(rs)
  BY DEF Deletes, Chained
<1>2. /\ InOrder(ns)
      /\ \A k \in DOMAIN ns : \E j \in DOMAIN rs : ns[k] = rs[j]
      /\ p \notin RenamedTo(ns)
      /\ RenamedTo(rs) \ RenamedTo(ns) \subseteq {p} \cup (RenamedFrom(rs) \ RenamedFrom(ns))
      /\ RenamedTo(ns) \cap (RenamedFrom(rs) \ RenamedFrom(ns)) = {}
  <2>1. rs \in Seq(Pair)
    OBVIOUS
  <2> HIDE DEF rs, ns
  <2>2. QED
    BY <1>1, <2>1, DropChain
<1>3. RenamedFrom(ns) \subseteq RenamedFrom(rs) /\ RenamedTo(ns) \subseteq RenamedTo(rs)
  BY <1>2 DEF RenamedFrom, RenamedTo
<1>4. ASSUME NEW x \in DOMAIN u.pending, g[x].kind = "binary"
      PROVE  /\ x \notin RenamedFrom(ns)
             /\ \E k \in DOMAIN ns :
                  /\ ns[k].to = x /\ ns[k].from \notin RenamedTo(ns)
                  /\ disk[ns[k].from].kind = "binary" /\ g[x] = disk[ns[k].from]
  <2>1. x \in DOMAIN t.pending /\ g[x] = f[x] /\ x # p
    BY <1>4 DEF Deletes, NoFile
  <2>2. PICK i \in DOMAIN rs : /\ rs[i].to = x /\ rs[i].from \notin RenamedTo(rs)
                               /\ disk[rs[i].from].kind = "binary" /\ f[x] = disk[rs[i].from]
    BY <1>4, <2>1 DEF Chained
  <2>3. x \notin RenamedFrom(rs) /\ x \in RenamedTo(rs)
    BY <1>4, <2>1, <2>2 DEF Chained, RenamedTo
  <2>4. PICK k \in DOMAIN ns : ns[k].to = x
    BY <1>2, <2>1, <2>3 DEF RenamedTo
  <2>5. ns[k] = rs[i]
    BY <1>1, <1>2, <2>2, <2>4 DEF InOrder
  <2>6. QED
    BY <1>3, <2>1, <2>2, <2>3, <2>4, <2>5
<1>5. RenamedFrom(ns) \cup RenamedTo(ns) \subseteq E
  BY <1>3 DEF Chained
<1>6. \A x \in RenamedFrom(ns) \ RenamedTo(ns) : Present(disk, x)
  BY <1>3 DEF Chained
<1>7. \A x \in RenamedFrom(ns) : x \in DOMAIN u.pending \/ ~Present(disk, x)
  BY <1>3 DEF Chained, Deletes
<1>8. RenamedTo(ns) \ RenamedFrom(ns) \subseteq DOMAIN u.pending
  BY <1>2, <1>3 DEF Chained, Deletes
<1>9. RenamedTo(ns) \subseteq u.writes
  BY <1>3 DEF Chained, Deletes
<1>10. QED
  BY <1>2, <1>4, <1>5, <1>6, <1>7, <1>8, <1>9, Zenon DEF Chained


(* A move that is not recorded is of a file the plan made.                 *)
LEMMA QuietMoveChained ==
  ASSUME NEW t, NEW u, NEW f, NEW g, NEW E, NEW p \in Path, NEW q \in Path,
         Fits(disk, t, f), Moves(t, u, f, g, p, q), u.renames = t.renames,
         ~Present(disk, p), p \notin RenamedTo(t.renames), Chained(disk, t, f, E),
         FilesOK(disk)
  PROVE  Chained(disk, u, g, E)
<1>1. f[p].kind # "binary"
  <2>1. p \in DOMAIN t.pending => f[p].kind # "binary"
    BY DEF Chained, RenamedTo
  <2>2. p \notin DOMAIN t.pending => f[p] = disk[p]
    BY DEF Fits, At, UnstagedAt
  <2>3. QED
    BY <2>1, <2>2 DEF Present
<1>2. \A x \in DOMAIN u.pending :
        g[x].kind = "binary" => x \in DOMAIN t.pending /\ g[x] = f[x]
  BY <1>1 DEF Moves
<1>3. QED
  BY <1>2 DEF Chained, Moves

(* The ends of a sequence of pairs with one more at its end.               *)
LEMMA OneMore ==
  ASSUME NEW rs \in Seq(Pair), NEW r \in Pair
  PROVE  LET s == Append(rs, r)
         IN  /\ RenamedFrom(s) = RenamedFrom(rs) \cup {r.from}
             /\ RenamedTo(s) = RenamedTo(rs) \cup {r.to}
             /\ DOMAIN s = DOMAIN rs \cup {Len(rs) + 1}
             /\ s[Len(rs) + 1] = r /\ \A i \in DOMAIN rs : s[i] = rs[i]
             /\ Len(s) = Len(rs) + 1
<1> DEFINE s == Append(rs, r)
<1>1. /\ DOMAIN s = DOMAIN rs \cup {Len(rs) + 1} /\ Len(s) = Len(rs) + 1
      /\ s[Len(rs) + 1] = r /\ \A i \in DOMAIN rs : s[i] = rs[i]
  OBVIOUS
<1> HIDE DEF s
<1>2. QED
  BY <1>1 DEF RenamedFrom, RenamedTo, s

(* A move that is recorded goes to a path that was no end, from a file of  *)
(* the workspace or from the last path of a chain.                         *)
LEMMA MoveChained ==
  ASSUME NEW t, NEW u, NEW f, NEW g, NEW E, NEW p \in Path, NEW q \in Path, p # q,
         t.renames \in Seq(Pair), FilesOK(disk),
         Fits(disk, t, f), Moves(t, u, f, g, p, q), Chained(disk, t, f, E),
         u.renames = Append(t.renames, [from |-> p, to |-> q]), q \notin E,
         \/ p \notin E /\ Present(disk, p)
         \/ p \in RenamedTo(t.renames) \ RenamedFrom(t.renames) /\ p \notin t.soft
  PROVE  Chained(disk, u, g, E \cup {p, q})
<1> DEFINE rs == t.renames
           ns == u.renames
           n == Len(rs) + 1
<1>1. /\ rs \in Seq(Pair) /\ [from |-> p, to |-> q] \in Pair
      /\ ns = Append(rs, [from |-> p, to |-> q])
  BY DEF Pair
<1> HIDE DEF rs, ns
<1>2. /\ RenamedFrom(ns) = RenamedFrom(rs) \cup {p}
      /\ RenamedTo(ns) = RenamedTo(rs) \cup {q}
      /\ DOMAIN ns = DOMAIN rs \cup {n}
      /\ ns[n].from = p /\ ns[n].to = q /\ \A i \in DOMAIN rs : ns[i] = rs[i]
  BY <1>1, OneMore
<1>3. \A i \in DOMAIN rs : i \in Nat /\ i < n
  BY <1>1
<1>4. /\ RenamedFrom(rs) \cup RenamedTo(rs) \subseteq E /\ InOrder(rs)
      /\ \A x \in RenamedFrom(rs) \ RenamedTo(rs) : Present(disk, x)
      /\ \A x \in RenamedFrom(rs) : x \in DOMAIN t.pending \/ ~Present(disk, x)
      /\ RenamedTo(rs) \ RenamedFrom(rs) \subseteq DOMAIN t.pending
      /\ RenamedTo(rs) \subseteq t.writes
      /\ \A x \in DOMAIN t.pending : f[x].kind = "binary" =>
           /\ x \notin RenamedFrom(rs)
           /\ \E i \in DOMAIN rs :
                /\ rs[i].to = x /\ rs[i].from \notin RenamedTo(rs)
                /\ disk[rs[i].from].kind = "binary" /\ f[x] = disk[rs[i].from]
  BY DEF Chained, rs
<1>5. \/ p \notin E /\ Present(disk, p)
      \/ p \in RenamedTo(rs) \ RenamedFrom(rs) /\ p \notin t.soft
  BY DEF rs
<1>6. p \notin RenamedFrom(rs) /\ q \notin RenamedFrom(rs) \cup RenamedTo(rs)
  BY <1>4, <1>5
<1>7. InOrder(ns)
  <2> SUFFICES ASSUME NEW i \in DOMAIN ns, NEW j \in DOMAIN ns
               PROVE  /\ ns[i].from = ns[j].from => i = j
                      /\ ns[i].to = ns[j].to => i = j
                      /\ ns[i].to = ns[j].from => i < j
    BY DEF InOrder
  <2>1. \A k \in DOMAIN rs : rs[k].from # p /\ rs[k].from # q /\ rs[k].to # q
    BY <1>6 DEF RenamedFrom, RenamedTo
  <2>2. CASE i \in DOMAIN rs /\ j \in DOMAIN rs
    BY <1>2, <1>4, <2>2 DEF InOrder
  <2>3. CASE i = n \/ j = n
    BY <1>2, <1>3, <2>1, <2>3
  <2>4. QED
    BY <1>2, <2>2, <2>3
<1>8. \A x \in RenamedFrom(ns) \ RenamedTo(ns) : Present(disk, x)
  BY <1>2, <1>4, <1>5
<1>9. \A x \in RenamedFrom(ns) : x \in DOMAIN u.pending \/ ~Present(disk, x)
  BY <1>2, <1>4 DEF Moves
<1>10. RenamedTo(ns) \ RenamedFrom(ns) \subseteq DOMAIN u.pending
  BY <1>2, <1>4 DEF Moves
<1>11. RenamedTo(ns) \subseteq u.writes
  BY <1>2, <1>4 DEF Moves
<1>12. ASSUME f[p].kind = "binary"
       PROVE  p \notin RenamedTo(ns) /\ f[p] = disk[p]
  <2>1. p \notin DOMAIN t.pending
    <3>1. SUFFICES ASSUME p \in DOMAIN t.pending PROVE FALSE
      OBVIOUS
    <3>2. p \in RenamedTo(rs)
      BY <1>4, <1>12, <3>1 DEF RenamedTo
    <3>3. p \notin t.soft
      BY <1>4, <1>5, <3>2
    <3>4. f[p] = Text(t.pending[p].cur)
      BY <3>1, <3>3 DEF Fits, At, StagedAt, Moves
    <3>5. QED
      BY <1>12, <3>4 DEF Text
  <2>2. f[p] = disk[p]
    BY <2>1 DEF Fits, At, UnstagedAt
  <2>3. QED
    BY <1>2, <1>4, <1>5, <2>1, <2>2
<1>13. ASSUME NEW x \in DOMAIN u.pending, g[x].kind = "binary"
       PROVE  /\ x \notin RenamedFrom(ns)
              /\ \E i \in DOMAIN ns :
                   /\ ns[i].to = x /\ ns[i].from \notin RenamedTo(ns)
                   /\ disk[ns[i].from].kind = "binary" /\ g[x] = disk[ns[i].from]
  <2>1. CASE x = q
    <3>1. g[q] = f[p]
      BY <1>13, <2>1 DEF Moves
    <3>2. p \notin RenamedTo(ns) /\ f[p] = disk[p] /\ disk[p].kind = "binary"
      BY <1>12, <1>13, <2>1, <3>1
    <3>3. n \in DOMAIN ns /\ ns[n].to = x /\ ns[n].from = p
      BY <1>2, <2>1
    <3>4. x \notin RenamedFrom(ns)
      BY <1>2, <1>6, <2>1
    <3>5. QED
      BY <2>1, <3>1, <3>2, <3>3, <3>4
  <2>2. CASE x # q
    <3>1. x \in DOMAIN t.pending /\ g[x] = f[x] /\ x # p
      BY <1>13, <2>2 DEF Moves, NoFile
    <3>2. x \notin RenamedFrom(ns)
      BY <1>2, <1>4, <1>13, <3>1
    <3>3. PICK i \in DOMAIN rs :
                 /\ rs[i].to = x /\ rs[i].from \notin RenamedTo(rs)
                 /\ disk[rs[i].from].kind = "binary" /\ f[x] = disk[rs[i].from]
      BY <1>4, <1>13, <3>1
    <3>4. ns[i] = rs[i] /\ i \in DOMAIN ns /\ rs[i].from # q
      BY <1>2, <1>6, <3>3 DEF RenamedFrom
    <3>5. QED
      BY <1>2, <3>1, <3>2, <3>3, <3>4
  <2>3. QED
    BY <2>1, <2>2
<1>14. RenamedFrom(ns) \cup RenamedTo(ns) \subseteq E \cup {p, q}
  BY <1>2, <1>4
<1>15. QED
  BY <1>7, <1>8, <1>9, <1>10, <1>11, <1>13, <1>14, Zenon DEF Chained, ns


LEMMA NotedChained ==
  ASSUME NEW t, NEW u, NEW f, NEW g,
         t.renames \in Seq(Pair), t.renames = tx.renames, u.renames = tx'.renames, t.soft = tx.soft,
         FilesOK(disk), Fits(disk, t, f), Chained(disk, t, f, ends),
         StepKind(t, u, f, g), NoteRename, ~tangled'
  PROVE  Chained(disk, u, g, ends')
<1>1. ASSUME Len(u.renames) <= Len(t.renames)
      PROVE  /\ ends' = ends
             /\ (RenamedTo(t.renames) \ RenamedTo(u.renames)) \cap RenamedFrom(u.renames) = {}
  <2>1. ~(Len(tx'.renames) > Len(tx.renames))
    BY <1>1, LenProperties
  <2>2. tangled' = (tangled \/ Unlinked # {}) /\ ends' = ends
    BY <2>1 DEF NoteRename
  <2>3. QED
    BY <2>2 DEF Unlinked
<1>2. CASE Steady(t, u, f, g)
  <2>1. u.renames = t.renames
    BY <1>2 DEF Steady
  <2>2. ends' = ends
    BY <1>1, <2>1, LenProperties
  <2>3. QED
    BY <1>2, <2>2, SteadyChained
<1>3. ASSUME NEW p \in Path, Deletes(t, u, f, g, p) PROVE Chained(disk, u, g, ends')
  <2>1. u.renames = DropRenameChainEndingAt(t.renames, p) /\ InOrder(t.renames)
    BY <1>3 DEF Deletes, Chained
  <2> DEFINE rs == t.renames
  <2>2. Len(DropRenameChainEndingAt(rs, p)) <= Len(rs)
    <3>1. rs \in Seq(Pair) /\ InOrder(rs)
      BY <2>1
    <3> HIDE DEF rs
    <3>2. QED
      BY <3>1, DropChain
  <2>3. QED
    BY <1>1, <1>3, <2>1, <2>2, DeletesChained
<1>4. ASSUME NEW p \in Path, NEW q \in Path, p # q, Moves(t, u, f, g, p, q)
      PROVE  Chained(disk, u, g, ends')
  <2>1. CASE u.renames = Append(t.renames, [from |-> p, to |-> q])
    <3> DEFINE r == [from |-> p, to |-> q]
    <3>1. tx'.renames = Append(tx.renames, r) /\ tx.renames \in Seq(Pair) /\ r \in Pair
      BY <2>1 DEF Pair
    <3> HIDE DEF r
    <3>2. /\ Len(tx'.renames) > Len(tx.renames)
          /\ tx'.renames[Len(tx'.renames)] = r
      BY <3>1
    <3>3. /\ ends' = ends \cup {r.from, r.to}
          /\ tangled' = \/ tangled
                        \/ r.to \in ends
                        \/ /\ r.from \in ends \/ ~Present(disk, r.from)
                           /\ ~Follows(r)
      BY <3>2, Zenon DEF NoteRename
    <3>4. r.from = p /\ r.to = q
      BY DEF r
    <3>5. q \notin ends /\ (Follows(r) \/ (p \notin ends /\ Present(disk, p)))
      BY <3>3, <3>4
    <3>6. \/ p \notin ends /\ Present(disk, p)
          \/ p \in RenamedTo(t.renames) \ RenamedFrom(t.renames) /\ p \notin t.soft
      BY <3>4, <3>5 DEF Follows
    <3>7. QED
      BY <1>4, <2>1, <3>3, <3>4, <3>5, <3>6, MoveChained
  <2>2. CASE u.renames = t.renames /\ ~Present(disk, p) /\ p \notin RenamedTo(t.renames)
    <3>1. ends' = ends
      BY <1>1, <2>2, LenProperties
    <3>2. QED
      BY <1>4, <2>2, <3>1, QuietMoveChained
  <2>3. QED
    BY <1>4, <2>1, <2>2 DEF Moves
<1>5. QED
  BY <1>2, <1>3, <1>4 DEF StepKind

-----------------------------------------------------------------------------
(***************************************************************************)
(* What staging hands to the commit, said of the workspace the plan found. *)
(* It stays so to the end: the commit changes neither the transaction nor  *)
(* what the plan means.                                                    *)
(***************************************************************************)
StagedInv ==
  /\ Shaped(tx) /\ FilesOK(base)
  /\ KeptToFiles => Fits(base, FlushDocs(tx), want) /\ Clean(tx)
  /\ ~tangled /\ ~astray => Chained(base, FlushDocs(tx), want, ends)
  /\ phase \notin {"staging", "refused"} => DOMAIN tx.docs = {}

LEMMA InitStagedInv == Init => StagedInv
<1> SUFFICES ASSUME Init PROVE StagedInv
  OBVIOUS
<1>1. FitInv /\ base = disk /\ tx = EmptyTx /\ phase = "staging"
  BY InitFitInv DEF Init, StagingInit
<1>2. FlushDocs(tx).renames = << >> /\ DOMAIN FlushDocs(tx).pending = {}
  BY <1>1, FlushAt DEF EmptyTx
<1>3. Chained(base, FlushDocs(tx), want, ends)
  BY <1>2 DEF Chained, InOrder, RenamedFrom, RenamedTo
<1>4. QED
  BY <1>1, <1>3 DEF FitInv, StagedInv

(* Staging ends once, by a refusal or by collecting, and means nothing new then. *)
LEMMA StagingEndsOnce ==
  ASSUME Stage
  PROVE  /\ phase' = "staging" \/ (phase' \in {"refused", "collected"} /\ want' = want)
         /\ phase' = "collected" => Collect
<1>1. StagingNext /\ phase = "staging"
  BY StagingWritesNothing DEF Stage
<1>2. CASE Refuse \/ Collect
  BY <1>2 DEF Refuse, Collect
<1>3. CASE FileOp \/ PatchOp \/ DocOp \/ TextOp
  <2>1. FileOp => UNCHANGED phase
    BY FileOpAdvances DEF Advance
  <2>2. PatchOp => UNCHANGED phase
    BY Zenon DEF PatchOp, PatchAdd, PatchDelete, PatchUpdate, PatchMove, Advance
  <2>3. DocOp => UNCHANGED phase
    BY Zenon DEF DocOp, DocEdit, Advance
  <2>4. TextOp => UNCHANGED phase
    BY TextOpAdvances DEF Advance
  <2>5. QED
    BY <1>1, <1>3, <2>1, <2>2, <2>3, <2>4
<1>4. QED
  BY <1>1, <1>2, <1>3 DEF StagingNext

LEMMA StageStagedInv ==
  ASSUME TypeInv, PlanInv, StagedInv, Stage
  PROVE  StagedInv'
<1>1. /\ phase = "staging" /\ base' = base /\ disk' = disk /\ disk = base
      /\ phase' \in {"staging", "refused", "collected"}
  BY StagingWritesNothing DEF PlanInv, Untouched, BeforeCommit
<1>2. StagingTypeOK /\ FitInv /\ StagingNext /\ NoteRename
  BY <1>1 DEF TypeInv, PlanTypeOK, StagedInv, FitInv, Stage
<1>3. FitInv' /\ (KeptToFiles' => StepKind(FlushDocs(tx), FlushDocs(tx'), want, want'))
  BY <1>2, StepFits
<1>4. (astray => astray') /\ (tangled => tangled')
  BY <1>2, StagingKeeps, Zenon DEF NoteRename
<1>5. ASSUME ~tangled', ~astray'
      PROVE  Chained(base', FlushDocs(tx'), want', ends')
  <2>1. Chained(disk, FlushDocs(tx), want, ends) /\ KeptToFiles /\ KeptToFiles'
    BY <1>1, <1>4, <1>5 DEF StagedInv, KeptToFiles
  <2>2. StepKind(FlushDocs(tx), FlushDocs(tx'), want, want')
    BY <1>3, <2>1
  <2>3. /\ FlushDocs(tx).renames = tx.renames /\ FlushDocs(tx').renames = tx'.renames
        /\ FlushDocs(tx).soft = tx.soft /\ tx.renames \in Seq(Pair)
    BY FlushAt DEF StagedInv, Shaped
  <2>4. FilesOK(disk) /\ Fits(disk, FlushDocs(tx), want)
    BY <1>2, <2>1 DEF FitInv
  <2>5. Chained(disk, FlushDocs(tx'), want', ends')
    BY <1>2, <1>5, <2>1, <2>2, <2>3, <2>4, NotedChained
  <2>6. QED
    BY <1>1, <2>5
<1>6. phase' = "collected" => DOMAIN tx'.docs = {}
  <2>1. CASE Collect
    BY <2>1, FlushAt DEF Collect
  <2>2. CASE ~Collect
    BY <1>1, <2>2, StagingEndsOnce
  <2>3. QED
    BY <2>1, <2>2
<1>7. QED
  BY <1>1, <1>3, <1>5, <1>6 DEF FitInv, StagedInv

(* What the commit leaves alone, and where it begins.                      *)
LEMMA CommitKeeps ==
  ASSUME PlanInv, Commit
  PROVE  /\ UNCHANGED <<tx, base, want, astray, ends, tangled>>
         /\ phase \notin {"staging", "refused"} /\ phase' \notin {"staging", "refused"}
<1>1. CommitNext /\ UNCHANGED <<want, astray, ends, tangled>>
  BY DEF Commit
<1>2. CASE SaveOriginals
  BY <1>1, <1>2 DEF SaveOriginals, PlanInv, Untouched, BeforeCommit
<1>3. CASE Unchanged \/ Finalize \/ SaveFails \/ ApplyRename \/ Finish
  BY <1>1, <1>3 DEF Unchanged, Finalize, SaveFails, ApplyRename, Finish, WriteTurn
<1>4. CASE \E r \in left.moves : ApplyPureRename(r)
  BY <1>1, <1>4 DEF ApplyPureRename
<1>5. CASE \E p \in Path : WriteChange(p) \/ Unlink(p) \/ RestoreEntry(p)
  BY <1>1, <1>5 DEF WriteChange, Unlink, RestoreEntry, WriteTurn
<1>6. CASE StepStuck \/ StepFails
  BY <1>1, <1>6 DEF StepStuck, StepFails, RollBack
<1>7. CASE RolledBack \/ Undone \/ RestoreFails \/ Crash \/ Undo
  BY <1>1, <1>7 DEF RolledBack, Undone, RestoreFails, Crash, Undo, CanUndo
<1>8. QED
  BY <1>1, <1>2, <1>3, <1>4, <1>5, <1>6, <1>7 DEF CommitNext, CommitStep, Disturbance

LEMMA StepStagedInv ==
  ASSUME TypeInv, PlanInv, StagedInv, [Next]_planVars
  PROVE  StagedInv'
<1>1. ASSUME UNCHANGED <<tx, base, want, astray, ends, tangled>>,
             phase \in {"staging", "refused"} => phase' \in {"staging", "refused"}
      PROVE  StagedInv'
  <2>1. /\ tx' = tx /\ base' = base /\ want' = want /\ astray' = astray /\ ends' = ends
        /\ tangled' = tangled
    BY <1>1
  <2>2. FlushDocs(tx') = FlushDocs(tx)
    BY <2>1
  <2>3. QED
    BY <1>1, <2>1, <2>2 DEF StagedInv, KeptToFiles
<1>2. CASE Stage
  BY <1>2, StageStagedInv
<1>3. CASE Commit
  BY <1>1, <1>3, CommitKeeps
<1>4. CASE UNCHANGED planVars
  BY <1>1, <1>4 DEF planVars
<1>5. QED
  BY <1>2, <1>3, <1>4 DEF Next


-----------------------------------------------------------------------------
(***************************************************************************)
(* The commit, loop by loop.  The renames that are done; and what is at a  *)
(* path that neither the write loop nor the unlink loop has settled.  Of a *)
(* path that a rename has left: nothing.  Of one that it has reached:      *)
(* something, which is the file of the workspace that a chain's first link *)
(* has moved there.  Of any other path: what the plan found.               *)
(***************************************************************************)
DoneFrom == {tx.renames[i].from : i \in 1..(left.next - 1)}
DoneTo == {tx.renames[i].to : i \in 1..(left.next - 1)}

PureDone == left.pure \ left.moves
FromOf(S) == {r.from : r \in S}
ToOf(S) == {r.to : r \in S}

MovedOK(p) ==
  /\ p \in ToOf(PureDone) => Present(disk, p)
  /\ p \notin ToOf(PureDone) /\ p \in DoneFrom \cup FromOf(PureDone) => disk[p] = NoFile
  /\ p \notin ToOf(PureDone) \cup DoneFrom \cup FromOf(PureDone) =>
       /\ p \notin DoneTo => disk[p] = base[p]
       /\ p \in DoneTo =>
            /\ Present(disk, p)
            /\ \A i \in 1..(left.next - 1) :
                 /\ tx.renames[i].to = p
                 /\ tx.renames[i].from \notin RenamedTo(tx.renames)
                 => disk[p] = base[tx.renames[i].from]

(* A path that the write loop and the unlink loop have yet to come to, or  *)
(* pass by.                                                                *)
Waits(p) ==
  /\ p \notin Changes(tx) \/ p \in left.writes \/ Skips(p)
  /\ p \notin tx.deletions \/ p \in left.unlinks \/ p \in AllFrom

WrittenOK(p) ==
  p \in Changes(tx) \ left.writes /\ ~Skips(p) =>
    disk[p] = IF Unlinks(p) THEN NoFile ELSE Text(tx.pending[p].cur)

UnlinkedOK(p) == p \in (tx.deletions \ left.unlinks) \ AllFrom => disk[p] = NoFile

PathOK(p) == WrittenOK(p) /\ UnlinkedOK(p) /\ (Waits(p) => MovedOK(p))

(* One loop after the other, each from all of what it has to do.           *)
Renaming == ~RenamesDone \/ left.moves # {}

LoopsOK ==
  /\ left.next \in 1..(Len(tx.renames) + 1)
  /\ left.moves \subseteq left.pure
  /\ left.pure \subseteq PureCandidates(tx)
  /\ IsPairing(left.pure)
  /\ \A r \in left.pure : /\ r.from \notin RenamedFrom(tx.renames)
                          /\ r.to \notin RenamedTo(tx.renames)
  /\ ~RenamesDone => left.moves = left.pure
  /\ Renaming => left.writes = Changes(tx)
  /\ Renaming \/ left.writes # {} => left.unlinks = tx.deletions

CommitInv ==
  phase = "committing" /\ InOrder(tx.renames) => LoopsOK /\ \A p \in Path : PathOK(p)

(* What the pure renames are of.                                           *)
LEMMA PureEnds ==
  ASSUME LoopsOK
  PROVE  \A r, s \in left.pure :
           /\ r.from \in Changes(tx) \cap tx.deletions
           /\ r.to \in Changes(tx) \ (tx.deletions \cup tx.existed)
           /\ r.from # s.to
           /\ r # s => r.from # s.from /\ r.to # s.to
           /\ tx.pending[r.from].orig = tx.pending[r.to].cur
           /\ tx.pending[r.from].orig # << >>
BY DEF LoopsOK, PureCandidates, PureSources, PureDests, IsPairing

(* The transaction and the pure renames stay, and with them what is to be  *)
(* skipped, unlinked or left to the renames.                               *)
LEMMA SkipsStay ==
  ASSUME tx' = tx, left'.pure = left.pure
  PROVE  /\ AllFrom' = AllFrom /\ Changes(tx') = Changes(tx)
         /\ \A p : (Skips(p)' <=> Skips(p)) /\ (Unlinks(p)' <=> Unlinks(p))
<1>1. AllFrom' = AllFrom /\ AllTo' = AllTo
  BY DEF AllFrom, AllTo
<1>2. \A p : SourcesEmpty(p)' <=> SourcesEmpty(p)
  BY DEF SourcesEmpty
<1>3. QED
  BY <1>1, <1>2 DEF Skips, Unlinks

LEMMA FinalizeCommits ==
  ASSUME PlanInv, TypeInv, Finalize
  PROVE  CommitInv'
<1>1. /\ phase = "saved" /\ phase' = "committing" /\ disk' = disk /\ base' = base /\ tx' = tx
      /\ disk = base
  BY DEF Finalize, PlanInv, Untouched
<1>2. PICK M \in PurePairings(tx) :
        left' = [Idle EXCEPT !.pure = Uncovered(tx, M), !.moves = Uncovered(tx, M),
                             !.writes = Changes(tx), !.unlinks = tx.deletions]
  BY DEF Finalize
<1>3. /\ left'.pure = Uncovered(tx, M) /\ left'.moves = Uncovered(tx, M)
      /\ left'.writes = Changes(tx) /\ left'.unlinks = tx.deletions /\ left'.next = 1
  BY <1>2 DEF Idle
<1>4. M \subseteq PureCandidates(tx) /\ IsPairing(M)
  BY DEF PurePairings
<1>5. Len(tx.renames) \in Nat
  BY DEF TypeInv, PlanTypeOK
<1>6. LoopsOK'
  BY <1>1, <1>3, <1>4, <1>5 DEF LoopsOK, IsPairing, Uncovered
<1>7. /\ DoneFrom' = {} /\ DoneTo' = {} /\ PureDone' = {}
  BY <1>3 DEF DoneFrom, DoneTo, PureDone
<1>8. \A p \in Path : PathOK(p)'
  BY <1>1, <1>3, <1>7 DEF PathOK, WrittenOK, UnlinkedOK, MovedOK, FromOf, ToOf
<1>9. QED
  BY <1>6, <1>8 DEF CommitInv


(* While the renames run, no path is settled yet.                          *)
LEMMA RenamingWaits ==
  ASSUME LoopsOK, Renaming, \A p \in Path : PathOK(p)
  PROVE  \A p \in Path : MovedOK(p)
BY DEF LoopsOK, PathOK, Waits

LEMMA RenamingPathOK ==
  ASSUME NEW p, left.writes = Changes(tx), left.unlinks = tx.deletions, MovedOK(p)
  PROVE  PathOK(p)
BY DEF PathOK, WrittenOK, UnlinkedOK

LEMMA ApplyRenameCommits ==
  ASSUME PlanInv, TypeInv, CommitInv, ApplyRename
  PROVE  CommitInv'
<1> DEFINE rs == tx.renames
           n == left.next
           r == rs[n]
<1>1. /\ phase = "committing" /\ n \in DOMAIN rs /\ Present(disk, r.from)
      /\ disk' = Moved(disk, r) /\ left' = [left EXCEPT !.next = @ + 1]
      /\ UNCHANGED <<tx, phase, base>>
  BY DEF ApplyRename, RenamesDone
<1> SUFFICES ASSUME InOrder(rs) PROVE LoopsOK' /\ \A p \in Path : PathOK(p)'
  BY <1>1 DEF CommitInv
<1>2. LoopsOK /\ Renaming /\ (\A p \in Path : PathOK(p)) /\ rs \in Seq(Pair)
  BY <1>1 DEF CommitInv, Renaming, RenamesDone, TypeInv, PlanTypeOK
<1>3. /\ left'.next = n + 1 /\ left'.pure = left.pure /\ left'.moves = left.moves
      /\ left'.writes = left.writes /\ left'.unlinks = left.unlinks
  BY <1>1 DEF TypeInv, PlanTypeOK, CommitTypeOK
<1>4. r \in Pair /\ n \in 1..Len(rs)
  BY <1>1, <1>2
<1>5. left.moves = left.pure /\ left.writes = Changes(tx) /\ left.unlinks = tx.deletions
  BY <1>1, <1>2 DEF LoopsOK, Renaming, RenamesDone
<1>6. LoopsOK'
  BY <1>1, <1>2, <1>3, <1>4, <1>5 DEF LoopsOK, Renaming, Changes, PureCandidates, PureSources, PureDests
<1>7. \A i \in 1..(n - 1) : /\ rs[i].from # r.from /\ rs[i].to # r.to
                            /\ rs[i].from # r.to
  BY <1>1, <1>4 DEF InOrder
<1>8. r.from # r.to
  BY <1>1, <1>4 DEF InOrder
<1>9. /\ DoneFrom' = DoneFrom \cup {r.from} /\ DoneTo' = DoneTo \cup {r.to}
      /\ PureDone = {} /\ PureDone' = {}
  BY <1>1, <1>3, <1>4, <1>5 DEF DoneFrom, DoneTo, PureDone
<1>10. r.from \notin DoneFrom /\ r.to \notin DoneFrom /\ DoneTo \subseteq RenamedTo(rs)
  BY <1>4, <1>7 DEF DoneFrom, DoneTo, RenamedTo
<1>11. /\ disk'[r.from] = NoFile /\ disk'[r.to] = disk[r.from]
       /\ \A x \in Path : x # r.from /\ x # r.to => disk'[x] = disk[x]
  BY <1>1, <1>4, <1>8 DEF Moved, Pair, PlanInv, DisksOK
<1>12. ASSUME NEW x \in Path PROVE MovedOK(x)'
  <2>1. MovedOK(x) /\ MovedOK(r.from)
    BY <1>2, <1>4, RenamingWaits DEF Pair
  <2>2. ToOf({}) = {} /\ FromOf({}) = {}
    BY DEF ToOf, FromOf
  <2>3. CASE x = r.from
    BY <1>9, <1>11, <2>2, <2>3 DEF MovedOK
  <2>4. CASE x = r.to
    <3>1. Present(disk', x) /\ x \in DoneTo' /\ x \notin DoneFrom'
      BY <1>1, <1>8, <1>9, <1>10, <1>11, <2>4 DEF Present
    <3>2. r.from \notin RenamedTo(rs) => disk'[x] = base[r.from]
      BY <1>9, <1>10, <1>11, <2>1, <2>2, <2>4 DEF MovedOK
    <3>3. \A i \in 1..(left'.next - 1) : rs[i].to = x => i = n
      BY <1>3, <1>4, <1>7, <2>4
    <3>4. QED
      BY <1>1, <1>9, <2>2, <3>1, <3>2, <3>3 DEF MovedOK
  <2>5. CASE x # r.from /\ x # r.to
    <3>1. disk'[x] = disk[x] /\ (x \in DoneTo' <=> x \in DoneTo) /\ (x \in DoneFrom' <=> x \in DoneFrom)
      BY <1>9, <1>11, <2>5
    <3>2. \A i \in 1..(left'.next - 1) : rs[i].to = x => i \in 1..(n - 1)
      BY <1>3, <1>4, <2>5
    <3>3. QED
      BY <1>1, <1>9, <2>1, <2>2, <3>1, <3>2 DEF MovedOK, Present
  <2>6. QED
    BY <2>3, <2>4, <2>5
<1>13. \A p \in Path : PathOK(p)'
  BY <1>1, <1>3, <1>5, <1>12 DEF PathOK, WrittenOK, UnlinkedOK, Changes
<1>14. QED
  BY <1>6, <1>13

LEMMA ApplyPureRenameCommits ==
  ASSUME PlanInv, TypeInv, CommitInv, NEW r \in left.moves, ApplyPureRename(r)
  PROVE  CommitInv'
<1>1. /\ phase = "committing" /\ RenamesDone /\ Present(disk, r.from)
      /\ disk' = Moved(disk, r) /\ left' = [left EXCEPT !.moves = @ \ {r}]
      /\ UNCHANGED <<tx, phase, base>>
  BY DEF ApplyPureRename
<1> SUFFICES ASSUME InOrder(tx.renames) PROVE LoopsOK' /\ \A p \in Path : PathOK(p)'
  BY <1>1 DEF CommitInv
<1>2. LoopsOK /\ Renaming /\ \A p \in Path : PathOK(p)
  BY <1>1 DEF CommitInv, Renaming
<1>3. /\ left'.next = left.next /\ left'.pure = left.pure /\ left'.moves = left.moves \ {r}
      /\ left'.writes = left.writes /\ left'.unlinks = left.unlinks
  BY <1>1 DEF TypeInv, PlanTypeOK, CommitTypeOK
<1>4. r \in left.pure /\ r \in Pair
  BY DEF TypeInv, PlanTypeOK, CommitTypeOK
<1>5. left.writes = Changes(tx) /\ left.unlinks = tx.deletions
  BY <1>2 DEF LoopsOK
<1>6. RenamesDone'
  BY <1>1, <1>3 DEF RenamesDone
<1>7. LoopsOK'
  BY <1>1, <1>2, <1>3, <1>5, <1>6
     DEF LoopsOK, Renaming, Changes, PureCandidates, PureSources, PureDests
<1>8. /\ DoneFrom' = DoneFrom /\ DoneTo' = DoneTo /\ PureDone' = PureDone \cup {r}
      /\ PureDone \subseteq left.pure
  BY <1>1, <1>3, <1>4 DEF DoneFrom, DoneTo, PureDone
<1>9. /\ FromOf(PureDone') = FromOf(PureDone) \cup {r.from}
      /\ ToOf(PureDone') = ToOf(PureDone) \cup {r.to}
  BY <1>8 DEF FromOf, ToOf
<1>10. r.from # r.to /\ r.from \notin ToOf(PureDone) /\ r.to \notin FromOf(PureDone)
  BY <1>2, <1>4, <1>8, PureEnds DEF ToOf, FromOf
<1>11. /\ disk'[r.from] = NoFile /\ disk'[r.to] = disk[r.from]
       /\ \A x \in Path : x # r.from /\ x # r.to => disk'[x] = disk[x]
  BY <1>1, <1>4, <1>10 DEF Moved, Pair, PlanInv, DisksOK
<1>12. ASSUME NEW x \in Path PROVE MovedOK(x)'
  <2>1. MovedOK(x)
    BY <1>2, RenamingWaits
  <2>2. CASE x = r.from
    BY <1>8, <1>9, <1>10, <1>11, <2>2 DEF MovedOK
  <2>3. CASE x = r.to
    BY <1>1, <1>8, <1>9, <1>11, <2>3 DEF MovedOK, Present
  <2>4. CASE x # r.from /\ x # r.to
    BY <1>1, <1>3, <1>8, <1>9, <1>11, <2>1, <2>4 DEF MovedOK, Present
  <2>5. QED
    BY <2>2, <2>3, <2>4
<1>13. \A p \in Path : PathOK(p)'
  BY <1>1, <1>3, <1>5, <1>12 DEF PathOK, WrittenOK, UnlinkedOK, Changes
<1>14. QED
  BY <1>7, <1>13

(* A step of the write loop or the unlink loop, at p: of every other path  *)
(* what was so stays so.                                                   *)
LEMMA OthersStay ==
  ASSUME NEW p, NEW x, x # p, tx' = tx, base' = base,
         left'.next = left.next, left'.pure = left.pure, left'.moves = left.moves,
         left'.writes = left.writes \/ left'.writes = left.writes \ {p},
         left'.unlinks = left.unlinks \/ left'.unlinks = left.unlinks \ {p},
         disk'[x] = disk[x], PathOK(x)
  PROVE  PathOK(x)'
<1>1. /\ AllFrom' = AllFrom /\ Changes(tx') = Changes(tx)
      /\ (Skips(x)' <=> Skips(x)) /\ (Unlinks(x)' <=> Unlinks(x))
  BY SkipsStay
<1>2. DoneFrom' = DoneFrom /\ DoneTo' = DoneTo /\ PureDone' = PureDone
  BY DEF DoneFrom, DoneTo, PureDone
<1>3. MovedOK(x)' <=> MovedOK(x)
  BY <1>2 DEF MovedOK, Present
<1>4. (x \in left'.writes <=> x \in left.writes) /\ (x \in left'.unlinks <=> x \in left.unlinks)
  OBVIOUS
<1>5. QED
  BY <1>1, <1>3, <1>4 DEF PathOK, WrittenOK, UnlinkedOK, Waits

LEMMA WriteChangeCommits ==
  ASSUME PlanInv, TypeInv, CommitInv, NEW p \in Path, WriteChange(p)
  PROVE  CommitInv'
<1>1. /\ phase = "committing" /\ RenamesDone /\ left.moves = {} /\ p \in left.writes
      /\ disk' = Written(p) /\ left' = [left EXCEPT !.writes = @ \ {p}]
      /\ UNCHANGED <<tx, phase, base>>
  BY DEF WriteChange, WriteTurn
<1> SUFFICES ASSUME InOrder(tx.renames) PROVE LoopsOK' /\ \A x \in Path : PathOK(x)'
  BY <1>1 DEF CommitInv
<1>2. LoopsOK /\ \A x \in Path : PathOK(x)
  BY <1>1 DEF CommitInv
<1>3. /\ left'.next = left.next /\ left'.pure = left.pure /\ left'.moves = left.moves
      /\ left'.writes = left.writes \ {p} /\ left'.unlinks = left.unlinks
  BY <1>1 DEF TypeInv, PlanTypeOK, CommitTypeOK
<1>4. RenamesDone'
  BY <1>1, <1>3 DEF RenamesDone
<1>5. LoopsOK'
  BY <1>1, <1>2, <1>3, <1>4
     DEF LoopsOK, Renaming, Changes, PureCandidates, PureSources, PureDests
<1>6. left.unlinks = tx.deletions
  BY <1>1, <1>2 DEF LoopsOK
<1>7. /\ AllFrom' = AllFrom /\ Changes(tx') = Changes(tx)
      /\ (Skips(p)' <=> Skips(p)) /\ (Unlinks(p)' <=> Unlinks(p))
  BY <1>1, <1>3, SkipsStay
<1>8. \A x \in Path : x # p => disk'[x] = disk[x]
  BY <1>1 DEF Written, PlanInv, DisksOK
<1>9. PathOK(p)'
  <2>1. CASE Skips(p)
    <3>1. disk' = disk
      BY <1>1, <2>1 DEF Written
    <3>2. MovedOK(p)
      BY <1>1, <1>2, <1>6, <2>1 DEF PathOK, Waits
    <3>3. DoneFrom' = DoneFrom /\ DoneTo' = DoneTo /\ PureDone' = PureDone
      BY <1>1, <1>3 DEF DoneFrom, DoneTo, PureDone
    <3>4. MovedOK(p)'
      BY <1>1, <1>3, <3>1, <3>2, <3>3 DEF MovedOK, Present
    <3>5. QED
      BY <1>1, <1>3, <1>6, <1>7, <2>1, <3>4 DEF PathOK, WrittenOK, UnlinkedOK
  <2>2. CASE ~Skips(p)
    <3>1. disk'[p] = IF Unlinks(p) THEN NoFile ELSE Text(tx.pending[p].cur)
      BY <1>1, <2>2 DEF Written, PlanInv, DisksOK
    <3>2. p \in Changes(tx)
      BY <1>1 DEF PlanInv, WorkOK
    <3>3. QED
      BY <1>1, <1>3, <1>6, <1>7, <2>2, <3>1, <3>2 DEF PathOK, WrittenOK, UnlinkedOK, Waits
  <2>3. QED
    BY <2>1, <2>2
<1>10. \A x \in Path : x # p => PathOK(x)'
  BY <1>1, <1>2, <1>3, <1>8, OthersStay
<1>11. QED
  BY <1>5, <1>9, <1>10

LEMMA UnlinkCommits ==
  ASSUME PlanInv, TypeInv, CommitInv, NEW p \in Path, Unlink(p)
  PROVE  CommitInv'
<1>1. /\ phase = "committing" /\ RenamesDone /\ left.moves = {} /\ left.writes = {}
      /\ p \in left.unlinks
      /\ disk' = IF p \in AllFrom THEN disk ELSE [disk EXCEPT ![p] = NoFile]
      /\ left' = [left EXCEPT !.unlinks = @ \ {p}]
      /\ UNCHANGED <<tx, phase, base>>
  BY DEF Unlink, WriteTurn
<1> SUFFICES ASSUME InOrder(tx.renames) PROVE LoopsOK' /\ \A x \in Path : PathOK(x)'
  BY <1>1 DEF CommitInv
<1>2. LoopsOK /\ \A x \in Path : PathOK(x)
  BY <1>1 DEF CommitInv
<1>3. /\ left'.next = left.next /\ left'.pure = left.pure /\ left'.moves = left.moves
      /\ left'.writes = left.writes /\ left'.unlinks = left.unlinks \ {p}
  BY <1>1 DEF TypeInv, PlanTypeOK, CommitTypeOK
<1>4. RenamesDone'
  BY <1>1, <1>3 DEF RenamesDone
<1>5. LoopsOK'
  BY <1>1, <1>2, <1>3, <1>4
     DEF LoopsOK, Renaming, Changes, PureCandidates, PureSources, PureDests
<1>6. p \in tx.deletions
  BY <1>1 DEF PlanInv, WorkOK
<1>7. /\ AllFrom' = AllFrom /\ Changes(tx') = Changes(tx)
      /\ (Skips(p)' <=> Skips(p)) /\ (Unlinks(p)' <=> Unlinks(p))
  BY <1>1, <1>3, SkipsStay
<1>8. \A x \in Path : x # p => disk'[x] = disk[x]
  BY <1>1 DEF PlanInv, DisksOK
<1>9. PathOK(p)'
  <2>1. CASE p \in AllFrom
    <3>1. DoneFrom' = DoneFrom /\ DoneTo' = DoneTo /\ PureDone' = PureDone /\ disk' = disk
      BY <1>1, <1>3, <2>1 DEF DoneFrom, DoneTo, PureDone
    <3>2. MovedOK(p)' <=> MovedOK(p)
      BY <1>1, <1>3, <3>1 DEF MovedOK, Present
    <3>3. PathOK(p)
      BY <1>2
    <3>4. QED
      BY <1>1, <1>3, <1>7, <2>1, <3>1, <3>2, <3>3 DEF PathOK, WrittenOK, UnlinkedOK, Waits
  <2>2. CASE p \notin AllFrom
    <3>1. disk'[p] = NoFile /\ Unlinks(p)
      BY <1>1, <1>6, <2>2 DEF PlanInv, DisksOK, Unlinks
    <3>2. QED
      BY <1>1, <1>3, <1>6, <1>7, <2>2, <3>1 DEF PathOK, WrittenOK, UnlinkedOK, Waits
  <2>3. QED
    BY <2>1, <2>2
<1>10. \A x \in Path : x # p => PathOK(x)'
  BY <1>1, <1>2, <1>3, <1>8, OthersStay
<1>11. QED
  BY <1>5, <1>9, <1>10


-----------------------------------------------------------------------------
(***************************************************************************)
(* What the commit has been handed is what the plan means.                 *)
(***************************************************************************)
Handed ==
  /\ FilesOK(base) /\ TypedTx(tx) /\ tx.renames \in Seq(Pair) /\ want \in [Path -> File]
  /\ \A p \in Path : At(base, tx, want, p)
  /\ Chained(base, tx, want, ends)

LEMMA StagedHanded ==
  ASSUME TypeInv, StagedInv, phase \notin {"staging", "refused"}, ~astray, ~tangled
  PROVE  Handed
<1> DEFINE t == FlushDocs(tx)
<1>1. Fits(base, t, want) /\ Chained(base, t, want, ends) /\ DOMAIN tx.docs = {}
  BY DEF StagedInv, KeptToFiles
<1>2. /\ DOMAIN t.pending = DOMAIN tx.pending /\ t.writes = tx.writes /\ t.renames = tx.renames
      /\ \A p : SameAt(tx, t, p)
  <2>1. /\ DOMAIN t.pending = DOMAIN tx.pending \cup DOMAIN tx.docs
        /\ t.writes = tx.writes \cup DOMAIN tx.docs /\ t.renames = tx.renames
        /\ \A p : p \notin DOMAIN tx.docs => SameAt(tx, t, p)
    BY FlushAt, Zenon
  <2> HIDE DEF t
  <2>2. QED
    BY <1>1, <2>1
<1> HIDE DEF t
<1>3. \A p \in Path : At(base, tx, want, p)
  BY <1>1, <1>2 DEF Fits, At, StagedAt, UnstagedAt, SameAt
<1>4. Chained(base, tx, want, ends)
  BY <1>1, <1>2 DEF Chained
<1>5. QED
  BY <1>3, <1>4 DEF Handed, TypeInv, PlanTypeOK, StagingTypeOK, TypedTx, StagedInv

(* A file the plan means as it was: neither changed, deleted nor reached   *)
(* by a rename.                                                            *)
LEMMA LeftAsItWas ==
  ASSUME Handed, ClearsNothing, NEW p \in Path,
         p \notin Changes(tx) \cup tx.deletions \cup RenamedTo(tx.renames)
  PROVE  want[p] = base[p]
<1>1. At(base, tx, want, p)
  BY DEF Handed
<1>2. CASE p \notin DOMAIN tx.pending \/ p \notin tx.writes
  BY <1>1, <1>2 DEF At, StagedAt, UnstagedAt
<1>3. CASE p \in DOMAIN tx.pending /\ p \in tx.writes
  <2>1. tx.pending[p].orig = tx.pending[p].cur /\ p \in tx.existed
    BY <1>3 DEF Changes
  <2>2. want[p].kind # "binary"
    BY <1>3 DEF Handed, Chained, RenamedTo
  <2>3. want[p] = Text(tx.pending[p].cur)
    BY <1>1, <1>3, <2>2 DEF At, StagedAt
  <2>4. Present(base, p) /\ want[p] = Text(Snapshot(base, p))
    BY <1>1, <1>3, <2>1, <2>3 DEF At, StagedAt
  <2>5. base[p].kind = "text"
    <3>1. base[p].kind \in {"text", "binary"}
      BY <2>4, FileKinds DEF Handed, Present
    <3>2. base[p].kind = "binary" => want[p] = Text(<< >>)
      BY <2>4 DEF Snapshot
    <3>3. QED
      BY <3>1, <3>2 DEF ClearsNothing
  <2>6. QED
    BY <2>4, <2>5, FileKinds DEF Handed, Snapshot
<1>4. QED
  BY <1>2, <1>3

(* A binary that a rename has brought is left to it.                       *)
LEMMA BroughtIsSkipped ==
  ASSUME Handed, LoopsOK, NEW p \in DOMAIN tx.pending, p \notin tx.deletions,
         want[p].kind = "binary"
  PROVE  /\ Skips(p)
         /\ p \notin RenamedFrom(tx.renames) /\ p \in RenamedTo(tx.renames)
         /\ \E i \in DOMAIN tx.renames :
              /\ tx.renames[i].to = p /\ tx.renames[i].from \notin RenamedTo(tx.renames)
              /\ want[p] = base[tx.renames[i].from]
<1> DEFINE rs == tx.renames
<1>1. p \notin RenamedFrom(rs) /\ InOrder(rs)
  BY DEF Handed, Chained
<1>2. PICK i \in DOMAIN rs : /\ rs[i].to = p /\ rs[i].from \notin RenamedTo(rs)
                             /\ base[rs[i].from].kind = "binary" /\ want[p] = base[rs[i].from]
  BY DEF Handed, Chained
<1>3. p \in RenamedTo(rs) /\ rs[i].from \in Path /\ p \in Path
  <2>1. rs[i] \in Pair
    BY DEF Handed
  <2>2. QED
    BY <1>2, <2>1 DEF RenamedTo, Pair
<1>4. tx.pending[p].cur = << >>
  <2>1. At(base, tx, want, p)
    BY <1>3 DEF Handed
  <2>2. QED
    BY <2>1 DEF At, StagedAt, Text
<1>5. p \in AllTo \ (AllFrom \cup tx.deletions)
  <2>1. \A r \in left.pure : r.from # p
    BY PureEnds
  <2>2. QED
    BY <1>1, <1>3, <2>1 DEF AllTo, AllFrom
<1>6. SourcesEmpty(p)
  <2>1. rs[i].from \in DOMAIN tx.pending => tx.pending[rs[i].from].orig = << >>
    <3>1. At(base, tx, want, rs[i].from)
      BY <1>3 DEF Handed
    <3>2. QED
      BY <1>2, <3>1 DEF At, StagedAt, Snapshot
  <2>2. \A j \in DOMAIN rs : rs[j].to = p => j = i
    BY <1>1, <1>2 DEF InOrder
  <2>3. \A r \in left.pure : r.to # p
    BY <1>3 DEF LoopsOK
  <2>4. QED
    BY <2>1, <2>2, <2>3 DEF SourcesEmpty, Changes
<1>7. QED
  BY <1>1, <1>2, <1>3, <1>4, <1>5, <1>6 DEF Skips


(***************************************************************************)
(* The end of the commit: nothing is left to do, and every path is as the  *)
(* plan means it.  Of a path that is deleted; that is a change; or that is *)
(* neither.                                                                *)
(***************************************************************************)
AllDone ==
  /\ LoopsOK /\ RenamesDone /\ left.moves = {} /\ left.writes = {} /\ left.unlinks = {}
  /\ \A p \in Path : PathOK(p)

LEMMA DoneEnds ==
  ASSUME Handed, AllDone
  PROVE  /\ DoneFrom = RenamedFrom(tx.renames) /\ DoneTo = RenamedTo(tx.renames)
         /\ PureDone = left.pure
         /\ 1..(left.next - 1) = DOMAIN tx.renames
         /\ AllFrom = RenamedFrom(tx.renames) \cup FromOf(left.pure)
         /\ AllTo = RenamedTo(tx.renames) \cup ToOf(left.pure)
<1>1. left.next = Len(tx.renames) + 1
  BY DEF AllDone, LoopsOK, RenamesDone, Handed
<1>2. 1..(left.next - 1) = DOMAIN tx.renames
  BY <1>1 DEF Handed
<1>3. QED
  BY <1>2 DEF AllDone, DoneFrom, DoneTo, PureDone, RenamedFrom, RenamedTo, AllFrom, AllTo,
              FromOf, ToOf

LEMMA DeletedMeans ==
  ASSUME Handed, AllDone, NEW p \in tx.deletions
  PROVE  disk[p] = want[p]
<1>1. p \in DOMAIN tx.pending /\ p \in Path
  BY DEF Handed, TypedTx, IsPartialFn
<1>2. want[p] = NoFile
  BY <1>1 DEF Handed, At, StagedAt
<1>3. CASE p \notin AllFrom
  BY <1>1, <1>2, <1>3 DEF AllDone, PathOK, UnlinkedOK
<1>4. CASE p \in AllFrom
  <2>1. MovedOK(p)
    BY <1>1, <1>4 DEF AllDone, PathOK, Waits, Skips
  <2>2. p \notin ToOf(left.pure)
    BY PureEnds DEF AllDone, ToOf
  <2>3. QED
    BY <1>2, <1>4, <2>1, <2>2, DoneEnds DEF MovedOK
<1>5. QED
  BY <1>3, <1>4

LEMMA ChangedMeans ==
  ASSUME Handed, ClearsNothing, AllDone, NEW p \in Changes(tx) \ tx.deletions
  PROVE  disk[p] = want[p]
<1> DEFINE rs == tx.renames
<1>1. p \in DOMAIN tx.pending /\ p \in Path /\ At(base, tx, want, p)
  BY DEF Handed, TypedTx, IsPartialFn, Changes
<1>2. CASE want[p].kind = "binary"
  <2>1. /\ Skips(p) /\ p \notin RenamedFrom(rs) /\ p \in RenamedTo(rs)
        /\ \E i \in DOMAIN rs : /\ rs[i].to = p /\ rs[i].from \notin RenamedTo(rs)
                                /\ want[p] = base[rs[i].from]
    BY <1>1, <1>2, BroughtIsSkipped DEF AllDone
  <2>2. MovedOK(p)
    BY <1>1, <2>1 DEF AllDone, PathOK, Waits
  <2>3. p \notin ToOf(left.pure) /\ p \notin FromOf(left.pure)
    <3>1. \A r \in left.pure : r.to \notin RenamedTo(rs) /\ r.from \in tx.deletions
      BY PureEnds DEF AllDone, LoopsOK
    <3>2. QED
      BY <2>1, <3>1 DEF ToOf, FromOf
  <2>4. QED
    BY <2>1, <2>2, <2>3, DoneEnds DEF MovedOK
<1>3. CASE want[p].kind # "binary"
  <2>1. want[p] = Text(tx.pending[p].cur)
    BY <1>1, <1>3 DEF At, StagedAt
  <2>2. ~Skips(p)
    <3> SUFFICES ASSUME Skips(p) PROVE FALSE
      OBVIOUS
    <3>1. p \in AllTo /\ tx.pending[p].cur = << >>
      BY DEF Skips
    <3>2. p \notin RenamedTo(rs)
      BY <1>1, <2>1, <3>1 DEF ClearsNothing
    <3>3. PICK r \in left.pure : r.to = p
      BY <3>1, <3>2 DEF AllTo
    <3>4. QED
      BY <3>1, <3>3, PureEnds DEF AllDone
  <2>3. disk[p] = Text(tx.pending[p].cur)
    BY <1>1, <2>2 DEF AllDone, PathOK, WrittenOK, Unlinks
  <2>4. QED
    BY <2>1, <2>3
<1>4. QED
  BY <1>2, <1>3

LEMMA UnchangedMeans ==
  ASSUME Handed, ClearsNothing, EndsWritten, AllDone,
         NEW p \in Path, p \notin Changes(tx) \cup tx.deletions
  PROVE  disk[p] = want[p]
<1> DEFINE rs == tx.renames
<1>1. MovedOK(p) /\ At(base, tx, want, p)
  BY DEF AllDone, PathOK, Waits, Handed
<1>2. p \notin ToOf(left.pure) /\ p \notin FromOf(left.pure)
  <2>1. \A r \in left.pure : r.to \in Changes(tx) /\ r.from \in tx.deletions
    BY PureEnds DEF AllDone
  <2>2. QED
    BY <2>1 DEF ToOf, FromOf
<1>3. CASE p \in RenamedFrom(rs)
  <2>1. disk[p] = NoFile
    BY <1>1, <1>2, <1>3, DoneEnds DEF MovedOK
  <2>2. p \notin DOMAIN tx.pending
    BY <1>3 DEF EndsWritten, RenamedFrom
  <2>3. want[p] = base[p] /\ ~Present(base, p)
    BY <1>1, <1>3, <2>2 DEF At, UnstagedAt, Handed, Chained
  <2>4. QED
    BY <2>1, <2>3, FileKinds DEF Handed
<1>4. CASE p \in RenamedTo(rs) \ RenamedFrom(rs)
  <2>1. PICK i \in DOMAIN rs : rs[i].to = p
    BY <1>4 DEF RenamedTo
  <2>2. p \in DOMAIN tx.pending /\ InOrder(rs)
    BY <1>4 DEF Handed, Chained
  <2>3. /\ rs[i].from \in DOMAIN tx.pending \ RenamedTo(rs)
        /\ tx.pending[p].cur = tx.pending[rs[i].from].orig
    BY <2>1, <2>2 DEF EndsWritten
  <2>4. Present(disk, p) /\ disk[p] = base[rs[i].from]
    BY <1>1, <1>2, <1>4, <2>1, <2>3, DoneEnds DEF MovedOK
  <2>5. rs[i].from \in Path /\ At(base, tx, want, rs[i].from)
    BY <2>3 DEF Handed, TypedTx, IsPartialFn
  <2>6. CASE want[p].kind = "binary"
    <3>1. PICK j \in DOMAIN rs : rs[j].to = p /\ want[p] = base[rs[j].from]
      BY <2>2, <2>6 DEF Handed, Chained
    <3>2. j = i
      BY <2>1, <2>2, <3>1 DEF InOrder
    <3>3. QED
      BY <2>4, <3>1, <3>2
  <2>7. CASE want[p].kind # "binary"
    <3>1. want[p] = Text(tx.pending[rs[i].from].orig)
      BY <1>1, <2>2, <2>3, <2>7 DEF At, StagedAt
    <3>2. tx.pending[rs[i].from].orig # << >>
      BY <1>4, <3>1 DEF ClearsNothing
    <3>3. tx.pending[rs[i].from].orig = Snapshot(base, rs[i].from)
      BY <2>3, <2>5, <3>2 DEF At, StagedAt
    <3>4. base[rs[i].from].kind = "text"
      BY <3>2, <3>3 DEF Snapshot
    <3>5. QED
      BY <2>4, <2>5, <3>1, <3>3, <3>4, FileKinds DEF Handed, Snapshot
  <2>8. QED
    BY <2>6, <2>7
<1>5. CASE p \notin RenamedTo(rs) \cup RenamedFrom(rs)
  <2>1. disk[p] = base[p]
    BY <1>1, <1>2, <1>5, DoneEnds DEF MovedOK
  <2>2. QED
    BY <1>5, <2>1, LeftAsItWas
<1>6. QED
  BY <1>3, <1>4, <1>5

LEMMA DoneMeans ==
  ASSUME Handed, ClearsNothing, EndsWritten, AllDone, DisksOK
  PROVE  disk = want
<1>1. \A p \in Path : disk[p] = want[p]
  BY DeletedMeans, ChangedMeans, UnchangedMeans
<1>2. disk = [p \in Path |-> disk[p]] /\ want = [p \in Path |-> want[p]]
  BY DEF DisksOK, Handed
<1>3. QED
  BY <1>1, <1>2


-----------------------------------------------------------------------------
(* The plan as a whole.                                                    *)

(* The steps of the three loops of the commit.                             *)
LEMMA StepCommitInv ==
  ASSUME PlanInv, TypeInv, CommitInv, [Next]_planVars
  PROVE  CommitInv'
<1>1. CASE Finalize
  BY <1>1, FinalizeCommits
<1>2. CASE ApplyRename
  BY <1>2, ApplyRenameCommits
<1>3. CASE \E r \in left.moves : ApplyPureRename(r)
  BY <1>3, ApplyPureRenameCommits
<1>4. CASE \E p \in Path : WriteChange(p)
  BY <1>4, WriteChangeCommits
<1>5. CASE \E p \in Path : Unlink(p)
  BY <1>5, UnlinkCommits
<1>6. CASE phase' # "committing"
  BY <1>6 DEF CommitInv
<1>7. CASE UNCHANGED planVars
  <2>1. /\ disk' = disk /\ tx' = tx /\ phase' = phase /\ base' = base /\ left' = left
    BY <1>7 DEF planVars
  <2>2. /\ AllFrom' = AllFrom /\ Changes(tx') = Changes(tx)
        /\ \A p : (Skips(p)' <=> Skips(p)) /\ (Unlinks(p)' <=> Unlinks(p))
    BY <2>1, SkipsStay
  <2>3. DoneFrom' = DoneFrom /\ DoneTo' = DoneTo /\ PureDone' = PureDone
    BY <2>1 DEF DoneFrom, DoneTo, PureDone
  <2>4. LoopsOK' <=> LoopsOK
    BY <2>1 DEF LoopsOK, Renaming, RenamesDone, Changes, PureCandidates, PureSources, PureDests
  <2>5. \A p : MovedOK(p)' <=> MovedOK(p)
    BY <2>1, <2>3 DEF MovedOK, Present
  <2>6. \A p : PathOK(p)' <=> PathOK(p)
    BY <2>1, <2>2, <2>5 DEF PathOK, WrittenOK, UnlinkedOK, Waits
  <2>7. QED
    BY <2>1, <2>4, <2>6 DEF CommitInv
<1>8. CASE Stage
  BY <1>6, <1>8, StagingWritesNothing
<1>9. CASE Unchanged \/ SaveOriginals \/ SaveFails \/ Finish \/ StepStuck \/ StepFails
  BY <1>6, <1>9 DEF Unchanged, SaveOriginals, SaveFails, Finish, StepStuck, StepFails, RollBack
<1>10. CASE RolledBack \/ Undone \/ RestoreFails \/ Crash \/ Undo
  BY <1>6, <1>10 DEF RolledBack, Undone, RestoreFails, Crash, Undo
<1>11. CASE \E p \in Path : RestoreEntry(p)
  BY <1>6, <1>11 DEF RestoreEntry
<1>12. QED
  BY <1>1, <1>2, <1>3, <1>4, <1>5, <1>7, <1>8, <1>9, <1>10, <1>11
     DEF Next, Commit, CommitNext, CommitStep, Disturbance

LEMMA RegularStays ==
  ASSUME PlanInv, Commit
  PROVE  /\ Regular' <=> Regular
         /\ Promised' <=> Promised
         /\ (DeletesFound' <=> DeletesFound)
<1>1. UNCHANGED <<tx, base, want, astray, ends, tangled>>
  BY CommitKeeps
<1>2. QED
  BY <1>1
     DEF Regular, Promised, DeletesFound, EndsWritten, ClearsNothing, EndsSaved, SavedPaths,
         Changes, Present

(* The plans of which everything is promised stay so.                      *)
LEMMA PromisesStay ==
  ASSUME UNCHANGED <<tx, base, want, astray, tangled>>
  PROVE  /\ Regular' <=> Regular
         /\ Promised' <=> Promised
         /\ DeletesFound' <=> DeletesFound
<1>1. DeletesFound' <=> DeletesFound
  BY DEF DeletesFound, Present
<1>2. EndsWritten' <=> EndsWritten
  BY DEF EndsWritten, Changes
<1>3. ClearsNothing' <=> ClearsNothing
  BY DEF ClearsNothing
<1>4. EndsSaved' <=> EndsSaved
  BY DEF EndsSaved, SavedPaths, Changes, Present
<1>5. QED
  BY <1>1, <1>2, <1>3, <1>4 DEF Regular, Promised

(* Where a commit ends well, it has come from its loops, and all of them   *)
(* are done; or there was nothing to do.                                   *)
LEMMA FinishMeans ==
  ASSUME PlanInv, TypeInv, StagedInv, CommitInv, Finish, Regular
  PROVE  disk' = want
<1>1. /\ phase = "committing" /\ disk' = disk
      /\ RenamesDone /\ left.moves = {} /\ left.writes = {} /\ left.unlinks = {}
  BY DEF Finish, WriteTurn
<1>2. Handed
  BY <1>1, StagedHanded DEF Regular
<1>3. AllDone
  BY <1>1, <1>2 DEF AllDone, CommitInv, Handed, Chained
<1>4. disk = want
  BY <1>2, <1>3, DoneMeans DEF Regular, PlanInv
<1>5. QED
  BY <1>1, <1>4

LEMMA UnchangedPlanMeans ==
  ASSUME PlanInv, TypeInv, StagedInv, Unchanged, Regular
  PROVE  disk' = want
<1>1. /\ phase = "collected" /\ disk' = disk /\ disk = base
      /\ Changes(tx) = {} /\ tx.deletions = {} /\ tx.renames = << >>
  BY DEF Unchanged, PlanInv, Untouched, BeforeCommit, NoEffectiveChanges, BareDeletions
<1>2. Handed
  BY <1>1, StagedHanded DEF Regular
<1>3. \A p \in Path : want[p] = base[p]
  BY <1>1, <1>2, LeftAsItWas DEF Regular, RenamedTo
<1>4. disk = [p \in Path |-> disk[p]] /\ want = [p \in Path |-> want[p]]
  BY <1>2 DEF PlanInv, DisksOK, Handed
<1>5. QED
  BY <1>1, <1>3, <1>4

LEMMA StepMeans ==
  ASSUME PlanInv, TypeInv, StagedInv, CommitInv, CommitMeansPlan, [Next]_planVars
  PROVE  CommitMeansPlan'
<1>1. CASE phase' \notin {"done", "unchanged"}
  BY <1>1 DEF CommitMeansPlan
<1>2. CASE Commit
  <2>1. UNCHANGED <<tx, base, want, astray, tangled>>
    BY <1>2, CommitKeeps
  <2>2. (Regular' <=> Regular) /\ want' = want
    BY <2>1, PromisesStay
  <2>3. CASE Finish
    BY <2>2, <2>3, FinishMeans DEF CommitMeansPlan
  <2>4. CASE Unchanged
    BY <2>2, <2>4, UnchangedPlanMeans DEF CommitMeansPlan
  <2>5. CASE SaveOriginals \/ Finalize \/ SaveFails \/ ApplyRename \/ StepStuck \/ StepFails
    BY <1>1, <2>5 DEF SaveOriginals, Finalize, SaveFails, ApplyRename, StepStuck, StepFails, RollBack
  <2>6. CASE \E r \in left.moves : ApplyPureRename(r)
    BY <1>1, <2>6 DEF ApplyPureRename
  <2>7. CASE \E p \in Path : WriteChange(p) \/ Unlink(p) \/ RestoreEntry(p)
    BY <1>1, <2>7 DEF WriteChange, Unlink, RestoreEntry, WriteTurn
  <2>8. CASE RolledBack \/ Undone \/ RestoreFails \/ Crash \/ Undo
    BY <1>1, <2>8 DEF RolledBack, Undone, RestoreFails, Crash, Undo
  <2>9. QED
    BY <1>2, <2>3, <2>4, <2>5, <2>6, <2>7, <2>8 DEF Commit, CommitNext, CommitStep, Disturbance
<1>3. CASE Stage
  BY <1>1, <1>3, StagingWritesNothing DEF PlanInv
<1>4. CASE UNCHANGED planVars
  <2>1. UNCHANGED <<tx, base, want, astray, tangled, disk, phase>>
    BY <1>4 DEF planVars
  <2>2. QED
    BY <2>1, PromisesStay DEF CommitMeansPlan
<1>5. QED
  BY <1>2, <1>3, <1>4 DEF Next

-----------------------------------------------------------------------------
(* The invariant of the whole, and what follows from it.                   *)
PlanMeaningInv == PlanInv /\ TypeInv /\ StagedInv /\ CommitInv /\ CommitMeansPlan

LEMMA PlanMeaningInvariant == Spec => []PlanMeaningInv
<1>1. Init => PlanMeaningInv
  <2> SUFFICES ASSUME Init PROVE PlanMeaningInv
    OBVIOUS
  <2>1. phase = "staging"
    BY DEF Init, StagingInit
  <2>2. QED
    BY <2>1, InitPlanInv, InitTypeInv, InitStagedInv DEF PlanMeaningInv, CommitInv, CommitMeansPlan
<1>2. PlanMeaningInv /\ [Next]_planVars => PlanMeaningInv'
  BY StepPlanInv, StepTypeInv, StepStagedInv, StepCommitInv, StepMeans DEF PlanMeaningInv
<1>3. QED
  BY <1>1, <1>2, PTL DEF Spec

(* A commit that ends well leaves exactly the files that the plan's        *)
(* operations, run one after another, would have left: for any number of   *)
(* paths, any plan of any length, any order in which the loops take their  *)
(* paths and any pairing of the pure renames that detect_pure_renames may  *)
(* come to.                                                                *)
THEOREM CommitsMeanTheirPlans == Spec => []CommitMeansPlan
BY PlanMeaningInvariant, PTL DEF PlanMeaningInv


-----------------------------------------------------------------------------
(***************************************************************************)
(* What staging promises, of the plan as a whole: until the commit has     *)
(* saved the originals, the workspace is the one the plan found.           *)
(***************************************************************************)
LEMMA StagingPromises ==
  ASSUME PlanInv, StagedInv
  PROVE  ReadsItsWrites /\ AcceptsWhatFilesAllow
<1>1. CASE disk = base
  BY <1>1, FitsRead, FitsAccepted DEF StagedInv, FitInv
<1>2. CASE ~NothingWritten
  BY <1>2 DEF NothingWritten, ReadsItsWrites, AcceptsWhatFilesAllow
<1>3. QED
  BY <1>1, <1>2 DEF PlanInv, Untouched, BeforeCommit, NothingWritten

(* Read your writes, of a plan of any operations on any workspace.         *)
THEOREM PlansReadTheirWrites == Spec => []ReadsItsWrites
BY PlanMeaningInvariant, StagingPromises, PTL DEF PlanMeaningInv

(* A plan of any operations is refused where the files would refuse it,    *)
(* and only there.                                                         *)
THEOREM PlansAcceptedAsFilesAllow == Spec => []AcceptsWhatFilesAllow
BY PlanMeaningInvariant, StagingPromises, PTL DEF PlanMeaningInv

LEMMA PlanStepCached ==
  ASSUME PlanMeaningInv, CacheIsCurrent, [Next]_planVars
  PROVE  CacheIsCurrent'
<1>1. TypeInv /\ PlanInv /\ StagedInv
  BY DEF PlanMeaningInv
<1>2. CASE Stage
  <2>1. /\ phase = "staging" /\ disk = base
        /\ phase' \in {"staging", "refused", "collected"}
    BY <1>1, <1>2, StagingWritesNothing DEF PlanInv, Untouched, BeforeCommit
  <2>2. StagingTypeOK /\ FitInv /\ StagingNext
    BY <1>1, <1>2, <2>1 DEF TypeInv, PlanTypeOK, StagedInv, FitInv, Stage
  <2>3. FitInv'
    BY <2>2, StepFits
  <2>4. QED
    BY <2>2, <2>3, StepCached
<1>3. CASE Commit
  <2>1. tx' = tx /\ phase \notin {"staging", "refused"} /\ phase' # "staging"
    BY <1>1, <1>3, CommitKeeps
  <2>2. QED
    BY <1>1, <2>1 DEF StagedInv, CacheIsCurrent
<1>4. CASE UNCHANGED planVars
  BY <1>4 DEF planVars, CacheIsCurrent
<1>5. QED
  BY <1>2, <1>3, <1>4 DEF Next

(* The document cache of a plan of any operations is never stale, and is   *)
(* empty when its commit begins.                                           *)
THEOREM PlansKeepTheCacheCurrent == Spec => []CacheIsCurrent
<1>1. Init => CacheIsCurrent
  BY DEF Init, StagingInit, EmptyTx, CacheIsCurrent
<1>2. QED
  BY <1>1, PlanStepCached, PlanMeaningInvariant, PTL DEF Spec

(***************************************************************************)
(* The originals that were staged are those of the workspace the plan      *)
(* found, to the end of the commit.                                        *)
(***************************************************************************)
FoundInv ==
  /\ LoadsFirst => \A p \in DOMAIN tx.pending :
                     /\ tx.pending[p].orig = Snapshot(base, p)
                     /\ p \in tx.existed <=> Present(base, p)
  /\ LoadsFirst /\ phase = "staging" => OriginalsInv

LEMMA StepFoundInv ==
  ASSUME PlanInv, FoundInv, [Next]_planVars
  PROVE  FoundInv'
<1>1. ASSUME UNCHANGED <<tx, base>>, phase' # "staging" \/ UNCHANGED <<disk, phase>>
      PROVE  FoundInv'
  BY <1>1 DEF FoundInv, Snapshot, Present, OriginalsInv, OriginalsOK
<1>2. CASE Stage
  <2> SUFFICES ASSUME LoadsFirst PROVE FoundInv'
    BY DEF FoundInv, LoadsFirst
  <2>1. phase = "staging" /\ disk = base /\ disk' = disk /\ base' = base
    BY <1>2, StagingWritesNothing DEF PlanInv, Untouched, BeforeCommit
  <2>2. OriginalsInv'
    BY <1>2, <2>1, StepOriginals DEF FoundInv, Stage
  <2>3. QED
    BY <2>1, <2>2 DEF FoundInv, OriginalsInv, OriginalsOK, Snapshot, Present
<1>3. CASE Commit
  BY <1>1, <1>3, CommitKeeps
<1>4. CASE UNCHANGED planVars
  BY <1>1, <1>4 DEF planVars
<1>5. QED
  BY <1>2, <1>3, <1>4 DEF Next

LEMMA FoundInvariant == Spec => [](PlanMeaningInv /\ FoundInv)
<1>1. Init => FoundInv
  BY InitOriginals DEF Init, StagingInit, EmptyTx, FoundInv
<1>2. PlanMeaningInv /\ FoundInv /\ [Next]_planVars => FoundInv'
  BY StepFoundInv DEF PlanMeaningInv
<1>3. QED
  BY <1>1, <1>2, PlanMeaningInvariant, PTL DEF Spec

(* Whatever operations but ast.extract_to_file a plan runs, what it takes  *)
(* for the originals is on disk until the commit writes.                   *)
THEOREM PlansKnowTheirOriginals == Spec => []OriginalsMatchDisk
<1>1. PlanMeaningInv /\ FoundInv => OriginalsMatchDisk
  BY DEF PlanMeaningInv, PlanInv, Untouched, BeforeCommit, FoundInv, OriginalsMatchDisk,
         NothingWritten
<1>2. QED
  BY <1>1, FoundInvariant, PTL

-----------------------------------------------------------------------------
(***************************************************************************)
(* No step of the commit is stuck.  The source of a rename is there: moved *)
(* by an earlier rename, or found by the plan.  So is what the write loop  *)
(* unlinks, and what it creates has been moved away, or was never there.   *)
(***************************************************************************)
SteadyPlan == Handed /\ CommitInv /\ FoundInv /\ LoadsFirst /\ DeletesFound /\ phase = "committing"

LEMMA SteadyLoops ==
  ASSUME SteadyPlan
  PROVE  LoopsOK /\ InOrder(tx.renames) /\ \A p \in Path : PathOK(p)
BY DEF SteadyPlan, CommitInv, Handed, Chained

LEMMA RenameNotStuck ==
  ASSUME SteadyPlan, ~RenamesDone
  PROVE  Present(disk, tx.renames[left.next].from)
<1> DEFINE rs == tx.renames
           p == rs[left.next].from
<1>1. /\ left.next \in DOMAIN rs /\ p \in Path /\ p \in RenamedFrom(rs)
      /\ \A i \in 1..(left.next - 1) : i \in DOMAIN rs /\ i # left.next
  <2>1. left.next \in DOMAIN rs /\ DOMAIN rs = 1..Len(rs) /\ Len(rs) \in Nat
    BY DEF RenamesDone, SteadyPlan, Handed
  <2>2. rs[left.next] \in Pair
    BY <2>1 DEF SteadyPlan, Handed
  <2>3. QED
    BY <2>1, <2>2 DEF Pair, RenamedFrom
<1>2. /\ LoopsOK /\ InOrder(rs) /\ PathOK(p) /\ PureDone = {}
      /\ left.writes = Changes(tx) /\ left.unlinks = tx.deletions
  BY <1>1, SteadyLoops DEF LoopsOK, Renaming, PureDone
<1>3. MovedOK(p)
  BY <1>2 DEF PathOK, Waits
<1>4. p \notin ToOf(PureDone) /\ p \notin FromOf(PureDone) /\ p \notin DoneFrom
  BY <1>1, <1>2 DEF ToOf, FromOf, DoneFrom, InOrder
<1>5. CASE p \in DoneTo
  BY <1>3, <1>4, <1>5 DEF MovedOK
<1>6. CASE p \notin DoneTo
  <2>1. p \notin RenamedTo(rs)
    <3> SUFFICES ASSUME NEW j \in DOMAIN rs, rs[j].to = p PROVE FALSE
      BY DEF RenamedTo
    <3>1. j < left.next
      BY <1>1, <1>2 DEF InOrder
    <3>2. j \in 1..(left.next - 1)
      BY <1>1, <3>1 DEF SteadyPlan, Handed
    <3>3. QED
      BY <1>6, <3>2 DEF DoneTo
  <2>2. Present(base, p)
    BY <1>1, <2>1 DEF SteadyPlan, Handed, Chained
  <2>3. disk[p] = base[p]
    BY <1>3, <1>4, <1>6 DEF MovedOK
  <2>4. QED
    BY <2>2, <2>3 DEF Present
<1>7. QED
  BY <1>5, <1>6

(* Once the recorded renames are done.                                     *)
LEMMA AllRenamed ==
  ASSUME SteadyPlan, RenamesDone
  PROVE  DoneFrom = RenamedFrom(tx.renames) /\ DoneTo = RenamedTo(tx.renames)
<1>1. LoopsOK
  BY SteadyLoops
<1>2. 1..(left.next - 1) = DOMAIN tx.renames
  BY <1>1 DEF LoopsOK, RenamesDone, SteadyPlan, Handed
<1>3. QED
  BY <1>2 DEF DoneFrom, DoneTo, RenamedFrom, RenamedTo

LEMMA PureRenameNotStuck ==
  ASSUME SteadyPlan, RenamesDone, NEW r \in left.moves
  PROVE  Present(disk, r.from)
<1>1. LoopsOK /\ r \in left.pure /\ r \notin PureDone
  BY SteadyLoops DEF LoopsOK, PureDone
<1>2. r.from \in Changes(tx) \cap tx.deletions /\ r.from \notin RenamedFrom(tx.renames)
  BY <1>1, PureEnds DEF LoopsOK
<1>3. r.from \in Path
  BY <1>2 DEF SteadyPlan, Handed, TypedTx, IsPartialFn
<1>4. MovedOK(r.from)
  BY <1>1, <1>2, <1>3, SteadyLoops DEF LoopsOK, Renaming, PathOK, Waits
<1>5. r.from \notin ToOf(PureDone) /\ r.from \notin FromOf(PureDone) /\ r.from \notin DoneFrom
  BY <1>1, <1>2, AllRenamed, PureEnds DEF ToOf, FromOf, PureDone
<1>6. Present(base, r.from)
  BY <1>2, <1>3 DEF SteadyPlan, DeletesFound
<1>7. QED
  BY <1>4, <1>5, <1>6 DEF MovedOK, Present

LEMMA WriteNotStuck ==
  ASSUME SteadyPlan, WriteTurn, NEW p \in left.writes, p \in Changes(tx)
  PROVE  WritePossible(p)
<1>1. /\ LoopsOK /\ PureDone = left.pure
      /\ DoneFrom = RenamedFrom(tx.renames) /\ DoneTo = RenamedTo(tx.renames)
  BY SteadyLoops, AllRenamed DEF WriteTurn, PureDone
<1>2. p \in Path /\ p \in DOMAIN tx.pending
  BY DEF SteadyPlan, Handed, TypedTx, IsPartialFn, Changes
<1>3. MovedOK(p)
  BY <1>1, <1>2, SteadyLoops DEF LoopsOK, PathOK, Waits
<1>4. /\ AllFrom = RenamedFrom(tx.renames) \cup FromOf(left.pure)
      /\ AllTo = RenamedTo(tx.renames) \cup ToOf(left.pure)
  BY DEF AllFrom, AllTo, FromOf, ToOf
<1>5. /\ FromOf(left.pure) \subseteq tx.deletions
      /\ ToOf(left.pure) \cap (tx.deletions \cup tx.existed) = {}
      /\ ToOf(left.pure) \cap RenamedTo(tx.renames) = {}
  <2>1. \A r \in left.pure : /\ r.from \in tx.deletions /\ r.to \notin tx.deletions \cup tx.existed
                             /\ r.to \notin RenamedTo(tx.renames)
    BY <1>1, PureEnds DEF LoopsOK
  <2>2. QED
    BY <2>1 DEF FromOf, ToOf
<1>6. ASSUME Unlinks(p) PROVE Present(disk, p)
  <2>1. p \in tx.deletions /\ p \notin AllFrom /\ Present(base, p)
    BY <1>6 DEF Unlinks, SteadyPlan, DeletesFound
  <2>2. QED
    BY <1>1, <1>3, <1>4, <1>5, <2>1 DEF MovedOK, Present
<1>7. ASSUME Creates(p) PROVE ~Present(disk, p)
  <2>1. p \in tx.existed <=> Present(base, p)
    BY <1>2 DEF SteadyPlan, FoundInv
  <2>2. CASE p \in AllFrom
    <3>1. p \in RenamedFrom(tx.renames)
      BY <1>4, <1>5, <1>7, <2>2 DEF Creates
    <3>2. p \notin ToOf(left.pure)
      <4>1. p \notin RenamedTo(tx.renames) => Present(base, p)
        BY <3>1 DEF SteadyPlan, Handed, Chained
      <4>2. QED
        BY <1>5, <2>1, <4>1
    <3>3. QED
      BY <1>1, <1>3, <3>1, <3>2 DEF MovedOK, Present, NoFile
  <2>3. CASE p \notin AllFrom
    <3>1. p \notin AllTo /\ ~Present(base, p)
      BY <1>7, <2>1, <2>3 DEF Creates
    <3>2. QED
      BY <1>1, <1>3, <1>4, <2>3, <3>1 DEF MovedOK, Present
  <2>4. QED
    BY <2>2, <2>3
<1>8. QED
  BY <1>6, <1>7 DEF WritePossible

LEMMA NotStuck ==
  ASSUME PlanInv, TypeInv, StagedInv, CommitInv, FoundInv,
         phase = "committing", ~astray, ~tangled, DeletesFound, LoadsFirst
  PROVE  ~Stuck
<1>1. Handed
  BY StagedHanded
<1>2. SteadyPlan
  BY <1>1 DEF SteadyPlan
<1>3. \A p \in left.writes : p \in Changes(tx)
  BY DEF PlanInv, WorkOK
<1>4. QED
  BY <1>2, <1>3, RenameNotStuck, PureRenameNotStuck, WriteNotStuck DEF Stuck

(* A rollback begins where a step fails, and nowhere else.                 *)
LEMMA StepAccepted ==
  ASSUME PlanInv, TypeInv, StagedInv, CommitInv, FoundInv, AcceptedPlanCommits, [Next]_planVars
  PROVE  AcceptedPlanCommits'
<1> DEFINE RolledBackOf(ph) == ph \in {"restoring", "rolled_back", "rollback_failed"}
<1>1. CASE ~RolledBackOf(phase')
  BY <1>1 DEF AcceptedPlanCommits
<1>2. CASE Commit
  <2>1. UNCHANGED <<tx, base, want, astray, tangled>>
    BY <1>2, CommitKeeps
  <2>2. DeletesFound' <=> DeletesFound
    BY <2>1, PromisesStay
  <2>3. faults \in Nat
    BY DEF TypeInv, PlanTypeOK, CommitTypeOK, CommitConstants
  <2>4. CASE StepStuck
    <3>1. phase = "committing" /\ Stuck /\ faults' = faults
      BY <2>4 DEF StepStuck, RollBack
    <3>2. QED
      BY <2>1, <2>2, <3>1, NotStuck DEF AcceptedPlanCommits
  <2>5. CASE Disturbance
    <3>1. faults' = faults + 1
      BY <2>5 DEF Disturbance, SaveFails, StepFails, RestoreFails, Crash
    <3>2. QED
      BY <2>3, <3>1 DEF AcceptedPlanCommits
  <2>6. CASE RolledBack
    BY <2>1, <2>2, <2>6 DEF RolledBack, AcceptedPlanCommits
  <2>7. CASE \E p \in Path : RestoreEntry(p)
    BY <2>1, <2>2, <2>7 DEF RestoreEntry, AcceptedPlanCommits
  <2>8. CASE Unchanged \/ SaveOriginals \/ Finalize \/ ApplyRename \/ Finish \/ Undone \/ Undo
    BY <1>1, <2>8 DEF Unchanged, SaveOriginals, Finalize, ApplyRename, Finish, Undone, Undo
  <2>9. CASE \E r \in left.moves : ApplyPureRename(r)
    BY <1>1, <2>9 DEF ApplyPureRename
  <2>10. CASE \E p \in Path : WriteChange(p) \/ Unlink(p)
    BY <1>1, <2>10 DEF WriteChange, Unlink, WriteTurn
  <2>11. QED
    BY <1>2, <2>4, <2>5, <2>6, <2>7, <2>8, <2>9, <2>10 DEF Commit, CommitNext, CommitStep
<1>3. CASE Stage
  BY <1>1, <1>3, StagingWritesNothing
<1>4. CASE UNCHANGED planVars
  <2>1. UNCHANGED <<tx, base, want, astray, tangled, phase, faults>>
    BY <1>4 DEF planVars
  <2>2. DeletesFound' <=> DeletesFound
    BY <2>1, PromisesStay
  <2>3. QED
    BY <2>1, <2>2 DEF AcceptedPlanCommits
<1>5. QED
  BY <1>2, <1>3, <1>4 DEF Next

(* A plan that staging accepted, in which every file is loaded before it   *)
(* is written, is not rolled back unless a system call fails: no loop of   *)
(* any commit stumbles over what another loop has done.                    *)
THEOREM AcceptedPlansCommit == Spec => []AcceptedPlanCommits
<1>1. Init => AcceptedPlanCommits
  BY DEF Init, StagingInit, AcceptedPlanCommits
<1>2. PlanMeaningInv /\ FoundInv /\ AcceptedPlanCommits /\ [Next]_planVars => AcceptedPlanCommits'
  BY StepAccepted DEF PlanMeaningInv
<1>3. QED
  BY <1>1, <1>2, FoundInvariant, PTL DEF Spec


-----------------------------------------------------------------------------
(***************************************************************************)
(* The engine implements AtomicPlan.  Everything AtomicPlan asks of the    *)
(* workspace at an outcome is one of the invariants: a plan that is kept   *)
(* has left what it means (CommitMeansPlan), one that is dropped or undone *)
(* has left what it found (TakesAllBack).  Of a plan of which nothing is   *)
(* promised the abstraction stays in preparation.                          *)
(***************************************************************************)
(* The steps of staging, and its two ends.                                 *)
LEMMA StagingRefines ==
  ASSUME PlanInv, TypeInv, TypeInv', Stage
  PROVE  [Atomic!Next]_Atomic!vars
<1>1. /\ phase = "staging" /\ base' = base /\ disk' = disk /\ disk = base
      /\ want' \in [Path -> File]
  BY StagingWritesNothing
     DEF PlanInv, Untouched, BeforeCommit, TypeInv, PlanTypeOK, StagingTypeOK
<1>2. AbstractOutcome = "preparing" /\ AbstractFiles = base
  BY <1>1 DEF AbstractOutcome, AbstractFiles
<1>3. CASE phase' = "staging" \/ ~Promised'
  <2>1. AbstractOutcome' = "preparing"
    BY <1>3 DEF AbstractOutcome
  <2>2. AbstractFiles' = base
    BY <1>1, <2>1 DEF AbstractFiles
  <2>3. Atomic!Prepare
    BY <1>1, <1>2, <2>1, <2>2 DEF Atomic!Prepare
  <2>4. QED
    BY <2>3 DEF Atomic!Next
<1>4. CASE phase' = "refused" /\ Promised' /\ want' = want
  <2>1. AbstractOutcome' = "dropped" /\ AbstractFiles' = base
    BY <1>1, <1>4 DEF AbstractOutcome, AbstractFiles
  <2>2. Atomic!Drop
    BY <1>1, <1>2, <1>4, <2>1 DEF Atomic!Drop
  <2>3. QED
    BY <2>2 DEF Atomic!Next
<1>5. CASE phase' = "collected" /\ Promised' /\ want' = want
  <2>1. AbstractOutcome' = "open" /\ AbstractFiles' = base
    BY <1>1, <1>5 DEF AbstractOutcome, AbstractFiles
  <2>2. Atomic!Open
    BY <1>1, <1>2, <1>5, <2>1 DEF Atomic!Open
  <2>3. QED
    BY <2>2 DEF Atomic!Next
<1>6. QED
  BY <1>3, <1>4, <1>5, StagingEndsOnce

(* What the abstraction shows of a plan of which everything is promised.   *)
OpenPhases == {"collected", "saved", "committing", "restoring"}
DoubtPhases == {"crashed", "rollback_failed", "undoing"}

LEMMA PromisedShows ==
  ASSUME Promised, phase # "staging"
  PROVE  /\ phase \in OpenPhases => AbstractOutcome = "open" /\ AbstractFiles = base
         /\ phase \in DoubtPhases => AbstractOutcome = "in doubt" /\ AbstractFiles = base
         /\ phase \in {"unchanged", "done"} => AbstractOutcome = "kept" /\ AbstractFiles = disk
         /\ phase \in {"refused", "aborted", "rolled_back"} =>
              AbstractOutcome = "dropped" /\ AbstractFiles = disk
         /\ phase = "undone" => AbstractOutcome = "undone" /\ AbstractFiles = disk
BY DEF OpenPhases, DoubtPhases, AbstractOutcome, AbstractFiles

(* A step of the commit, by the outcome it leads to.                       *)
LEMMA CommitMoves ==
  ASSUME PlanInv, PlanInv', Commit
  PROVE  \/ phase \in OpenPhases /\ phase' \in OpenPhases
         \/ phase \in OpenPhases /\ phase' \in {"unchanged", "done"}
         \/ phase \in OpenPhases /\ phase' \in {"aborted", "rolled_back"}
         \/ phase \in OpenPhases \cup {"done", "rolled_back"} /\ phase' \in DoubtPhases
         \/ phase \in DoubtPhases /\ phase' \in DoubtPhases
         \/ phase \in DoubtPhases /\ phase' = "undone"
<1> USE DEF OpenPhases, DoubtPhases
<1>1. CASE Unchanged \/ SaveOriginals \/ Finalize \/ SaveFails \/ ApplyRename \/ Finish
  BY <1>1 DEF Unchanged, SaveOriginals, Finalize, SaveFails, ApplyRename, Finish, WriteTurn
<1>2. CASE \E r \in left.moves : ApplyPureRename(r)
  BY <1>2 DEF ApplyPureRename
<1>3. CASE \E p \in Path : WriteChange(p) \/ Unlink(p)
  BY <1>3 DEF WriteChange, Unlink, WriteTurn
<1>4. CASE \E p \in Path : RestoreEntry(p)
  BY <1>4 DEF RestoreEntry
<1>5. CASE StepStuck \/ StepFails
  BY <1>5 DEF StepStuck, StepFails, RollBack
<1>6. CASE RolledBack \/ Undone \/ RestoreFails \/ Crash \/ Undo
  BY <1>6 DEF RolledBack, Undone, RestoreFails, Crash, Undo, CanUndo
<1>7. QED
  BY <1>1, <1>2, <1>3, <1>4, <1>5, <1>6 DEF Commit, CommitNext, CommitStep, Disturbance

LEMMA CommitRefines ==
  ASSUME PlanMeaningInv, PlanMeaningInv', Commit
  PROVE  [Atomic!Next]_Atomic!vars
<1>1. base' = base /\ want' = want /\ (Promised' <=> Promised)
  BY CommitKeeps, PromisesStay DEF PlanMeaningInv
<1>2. CASE ~Promised
  <2>1. AbstractOutcome = "preparing" /\ AbstractOutcome' = "preparing"
    BY <1>1, <1>2 DEF AbstractOutcome
  <2>2. AbstractFiles' = AbstractFiles
    BY <1>1, <2>1 DEF AbstractFiles
  <2>3. QED
    BY <1>1, <2>1, <2>2 DEF Atomic!vars
<1>3. CASE Promised
  <2>1. phase # "staging" /\ phase' # "staging"
    BY CommitKeeps DEF PlanMeaningInv
  <2> DEFINE O == AbstractOutcome
             F == AbstractFiles
  <2>2. /\ phase \in OpenPhases => O = "open" /\ F = base
        /\ phase \in DoubtPhases => O = "in doubt" /\ F = base
        /\ phase = "done" => O = "kept"
        /\ phase = "rolled_back" => O = "dropped"
    BY <1>3, <2>1, PromisedShows
  <2>3. /\ phase' \in OpenPhases => O' = "open" /\ F' = base
        /\ phase' \in DoubtPhases => O' = "in doubt" /\ F' = base
        /\ phase' \in {"unchanged", "done"} => O' = "kept" /\ F' = disk'
        /\ phase' \in {"aborted", "rolled_back"} => O' = "dropped" /\ F' = disk'
        /\ phase' = "undone" => O' = "undone" /\ F' = disk'
    BY <1>1, <1>3, <2>1 DEF OpenPhases, DoubtPhases, AbstractOutcome, AbstractFiles
  <2>4. phase' \in {"unchanged", "done"} => disk' = want
    BY <1>1, <1>3 DEF PlanMeaningInv, CommitMeansPlan, Promised
  <2>5. phase' \in {"aborted", "rolled_back", "undone"} => disk' = base
    <3>1. TakesAllBack'
      BY InvTakesAllBack DEF PlanMeaningInv, PlanInv, TakesAllBack, Ended, Untouched, BeforeCommit
    <3>2. QED
      BY <1>1, <1>3, <3>1 DEF TakesAllBack, Promised
  <2> HIDE DEF O, F
  <2>6. CASE phase \in OpenPhases /\ phase' \in OpenPhases
    <3>1. O' = O /\ F' = F
      BY <2>2, <2>3, <2>6
    <3>2. QED
      BY <1>1, <3>1 DEF O, F, Atomic!vars
  <2>7. CASE phase \in OpenPhases /\ phase' \in {"unchanged", "done"}
    <3>1. Atomic!Keep
      BY <1>1, <2>2, <2>3, <2>4, <2>7 DEF O, F, Atomic!Keep
    <3>2. QED
      BY <3>1 DEF Atomic!Next
  <2>8. CASE phase \in OpenPhases /\ phase' \in {"aborted", "rolled_back"}
    <3>1. Atomic!Drop
      BY <1>1, <2>2, <2>3, <2>5, <2>8 DEF O, F, Atomic!Drop
    <3>2. QED
      BY <3>1 DEF Atomic!Next
  <2>9. CASE phase \in OpenPhases \cup {"done", "rolled_back"} /\ phase' \in DoubtPhases
    <3>1. Atomic!Doubt
      BY <1>1, <2>2, <2>3, <2>9 DEF O, F, Atomic!Doubt
    <3>2. QED
      BY <3>1 DEF Atomic!Next
  <2>10. CASE phase \in DoubtPhases /\ phase' \in DoubtPhases
    <3>1. O' = O /\ F' = F
      BY <2>2, <2>3, <2>10
    <3>2. QED
      BY <1>1, <3>1 DEF O, F, Atomic!vars
  <2>11. CASE phase \in DoubtPhases /\ phase' = "undone"
    <3>1. Atomic!TakeBack
      BY <1>1, <2>2, <2>3, <2>5, <2>11 DEF O, F, Atomic!TakeBack
    <3>2. QED
      BY <3>1 DEF Atomic!Next
  <2>12. QED
    BY <2>6, <2>7, <2>8, <2>9, <2>10, <2>11, CommitMoves DEF PlanMeaningInv
<1>4. QED
  BY <1>2, <1>3

(* A plan of any operations, through faults, crashes and undos, is to its  *)
(* caller the plan of AtomicPlan: it happens at once or not at all, and    *)
(* is taken back at once.                                                  *)
THEOREM PlansAreAtomic == Spec => ImplementsAtomicPlan
<1>1. Init => Atomic!Init
  <2> SUFFICES ASSUME Init PROVE Atomic!Init
    OBVIOUS
  <2>1. phase = "staging" /\ base = disk /\ want = disk /\ disk \in [Path -> File]
    BY InitTypeInv DEF Init, StagingInit, TypeInv, PlanTypeOK, StagingTypeOK
  <2>2. QED
    BY <2>1 DEF AbstractOutcome, AbstractFiles, Atomic!Init
<1>2. PlanMeaningInv /\ PlanMeaningInv' /\ [Next]_planVars => [Atomic!Next]_Atomic!vars
  <2> SUFFICES ASSUME PlanMeaningInv, PlanMeaningInv', [Next]_planVars
               PROVE  [Atomic!Next]_Atomic!vars
    OBVIOUS
  <2>1. CASE Stage
    BY <2>1, StagingRefines DEF PlanMeaningInv
  <2>2. CASE Commit
    BY <2>2, CommitRefines
  <2>3. CASE UNCHANGED planVars
    <3>1. UNCHANGED <<tx, base, want, astray, tangled, disk, phase>>
      BY <2>3 DEF planVars
    <3>2. Promised' <=> Promised
      BY <3>1, PromisesStay
    <3>3. AbstractOutcome' = AbstractOutcome
      BY <3>1, <3>2 DEF AbstractOutcome
    <3>4. AbstractFiles' = AbstractFiles
      BY <3>1, <3>3 DEF AbstractFiles
    <3>5. QED
      BY <3>1, <3>3, <3>4 DEF Atomic!vars
  <2>4. QED
    BY <2>1, <2>2, <2>3 DEF Next
<1>3. QED
  BY <1>1, <1>2, PlanMeaningInvariant, PTL DEF Spec, ImplementsAtomicPlan, Atomic!Spec
=============================================================================
