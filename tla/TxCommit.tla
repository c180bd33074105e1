------------------------------ MODULE TxCommit ------------------------------
(***************************************************************************)
(* Commit: a collected transaction is written to the workspace, step by    *)
(* step, behind a backup session.  commit_changes of tx/lifecycle saves    *)
(* the originals, lists them in a manifest, applies the renames, writes,   *)
(* and unlinks; when a step fails it restores the session.  The process    *)
(* may stop between any two steps; `patchloom undo` restores the session   *)
(* of a commit that ended, failed or was cut short.                        *)
(***************************************************************************)
EXTENDS TxState

CONSTANT
  MaxFaults      \* bound: steps that fail, and crashes, in one behaviour

ASSUME CommitConstants == MaxFaults \in Nat

VARIABLES
  base,          \* [Path -> File], the workspace when the commit began
  session,       \* the backup session under .patchloom/backups
  left,          \* what the running loop has still to do
  faults         \* how many faults there have been

commitVars == <<disk, tx, phase, base, session, left, faults>>

-----------------------------------------------------------------------------
(* The session.  A manifest entry has an action and a blob, the copy of    *)
(* the original; NoFile stands for a blob that was never made.             *)
Entry == [action : {"created", "modified", "deleted"}, blob : File]

NoEntries == [p \in {} |-> [action |-> "created", blob |-> NoFile]]
NoSession == [listed |-> FALSE, entries |-> NoEntries]

SavedBeforeWrite(d, p) ==
  [action |-> IF Present(d, p) THEN "modified" ELSE "created", blob |-> d[p]]

(* A mistake for TLC to find: an original is read after it is unlinked.    *)
SavedAfterDelete(d, p) == [action |-> "deleted", blob |-> NoFile]
SavedBeforeDelete(d, p) == [action |-> "deleted", blob |-> d[p]]

(* A rename destination that exists is saved even when nothing writes it.  *)
SavedPaths(t, d) ==
  Changes(t) \cup t.deletions
    \cup {p \in RenamedTo(t.renames) : Present(d, p)}

Manifest(t, d) ==
  [p \in SavedPaths(t, d) |->
     IF p \in t.deletions THEN SavedBeforeDelete(d, p)
     ELSE SavedBeforeWrite(d, p)]

(* Phase 1 of restore_session: an original to put back has its blob.       *)
Complete(s) ==
  \A p \in DOMAIN s.entries :
    s.entries[p].action \in {"modified", "deleted"}
      => s.entries[p].blob.kind # "none"

(* Phase 2: what restoring an entry leaves at its path.                    *)
Restored(e) == IF e.action = "created" THEN NoFile ELSE e.blob

-----------------------------------------------------------------------------
(* The renames: the recorded ones, in order, then the pure ones that       *)
(* detect_pure_renames finds by content.  It pairs sources and             *)
(* destinations of equal content in path order; which pairs that gives     *)
(* depends on how the paths sort, so any maximal pairing may come out.     *)
PureSources(t) ==
  {p \in Changes(t) \cap t.deletions :
     /\ t.pending[p].cur = << >>
     /\ t.pending[p].orig # << >>}
PureDests(t) == Changes(t) \ (t.deletions \cup t.existed)

PureCandidates(t) ==
  {r \in [from : PureSources(t), to : PureDests(t)] :
     t.pending[r.from].orig = t.pending[r.to].cur}

IsPairing(M) ==
  \A r, s \in M : r # s => r.from # s.from /\ r.to # s.to
PurePairings(t) ==
  {M \in SUBSET PureCandidates(t) :
     /\ IsPairing(M)
     /\ \A r \in PureCandidates(t) \ M : ~IsPairing(M \cup {r})}

(* A pair is dropped when a recorded rename has its source or destination. *)
Uncovered(t, M) ==
  {r \in M : r.from \notin RenamedFrom(t.renames)
               /\ r.to \notin RenamedTo(t.renames)}

Moved(d, r) == [d EXCEPT ![r.to] = d[r.from], ![r.from] = NoFile]

AllFrom == RenamedFrom(tx.renames) \cup {r.from : r \in left.pure}
AllTo   == RenamedTo(tx.renames) \cup {r.to : r \in left.pure}

(* rename_source_originals_empty, of a destination.                        *)
SourcesEmpty(p) ==
  LET Of(r) == r.to = p /\ r.from \in Changes(tx)
                 /\ tx.pending[r.from].orig # << >>
  IN  ~\/ \E i \in DOMAIN tx.renames : Of(tx.renames[i])
       \/ \E r \in left.pure : Of(r)

(* A mistake for TLC to find: the source of a rename is not skipped.       *)
SkipsEmptyDests(p) ==
  /\ p \in AllTo \ (AllFrom \cup tx.deletions)
  /\ tx.pending[p].cur = << >>
  /\ SourcesEmpty(p)

(* A mistake for TLC to find: a new text must not find the file that a     *)
(* rename has just put there.                                              *)
CreatesAllNew(p) ==
  /\ p \notin tx.deletions
  /\ p \in AllFrom \/ p \notin tx.existed

(***************************************************************************)
(* What the write loop does with the change at p: nothing, an unlink, or a *)
(* write that must not (Create) or may (Replace) find a file there.        *)
(***************************************************************************)
Skips(p) ==
  \/ p \in AllFrom /\ p \in tx.deletions
  \/ /\ p \in AllTo \ (AllFrom \cup tx.deletions)
     /\ tx.pending[p].cur = << >>
     /\ SourcesEmpty(p)

Unlinks(p) == p \in tx.deletions \ AllFrom

Creates(p) ==
  /\ p \notin tx.deletions
  /\ p \in AllFrom \/ (p \notin AllTo /\ p \notin tx.existed)

WritePossible(p) ==
  /\ Unlinks(p) => Present(disk, p)
  /\ Creates(p) => ~Present(disk, p)

Written(p) ==
  IF Skips(p) THEN disk
  ELSE [disk EXCEPT ![p] = IF Unlinks(p) THEN NoFile
                           ELSE Text(tx.pending[p].cur)]

-----------------------------------------------------------------------------
Idle == [next |-> 1, pure |-> {}, moves |-> {}, writes |-> {},
         unlinks |-> {}, entries |-> {}]

(* Nothing to do: the plan ends before any backup.                         *)
Unchanged ==
  /\ phase = "collected"
  /\ NoEffectiveChanges(tx)
  /\ phase' = "unchanged"
  /\ UNCHANGED <<disk, tx, base, session, left, faults>>

(* The save loops.  They only read the workspace, so they are one step.    *)
SaveOriginals ==
  /\ phase = "collected"
  /\ ~NoEffectiveChanges(tx)
  /\ session' = [listed |-> FALSE, entries |-> Manifest(tx, disk)]
  /\ base' = disk
  /\ phase' = "saved"
  /\ UNCHANGED <<disk, tx, left, faults>>

(* A mistake for TLC to find: the manifest is not there when writes begin. *)
FinalizeUnlisted ==
  /\ phase = "saved"
  /\ \E M \in PurePairings(tx) :
       left' = [Idle EXCEPT !.pure = Uncovered(tx, M),
                            !.moves = Uncovered(tx, M),
                            !.writes = Changes(tx),
                            !.unlinks = tx.deletions]
  /\ phase' = "committing"
  /\ UNCHANGED <<disk, tx, base, session, faults>>

(* finalize writes the manifest, which is what undo and rollback can see.  *)
(* A session that saved nothing is removed instead.                        *)
Finalize ==
  /\ phase = "saved"
  /\ session' = [session EXCEPT !.listed = DOMAIN session.entries # {}]
  /\ \E M \in PurePairings(tx) :
       left' = [Idle EXCEPT !.pure = Uncovered(tx, M),
                            !.moves = Uncovered(tx, M),
                            !.writes = Changes(tx),
                            !.unlinks = tx.deletions]
  /\ phase' = "committing"
  /\ UNCHANGED <<disk, tx, base, faults>>

(* A step of the save phase fails: the error is returned, no restore.      *)
SaveFails ==
  /\ phase \in {"collected", "saved"}
  /\ ~NoEffectiveChanges(tx)
  /\ faults < MaxFaults
  /\ faults' = faults + 1
  /\ phase' = "aborted"
  /\ UNCHANGED <<disk, tx, base, session, left>>

RenamesDone == left.next \notin DOMAIN tx.renames

ApplyRename ==
  /\ phase = "committing"
  /\ ~RenamesDone
  /\ Present(disk, tx.renames[left.next].from)
  /\ disk' = Moved(disk, tx.renames[left.next])
  /\ left' = [left EXCEPT !.next = @ + 1]
  /\ UNCHANGED <<tx, phase, base, session, faults>>

ApplyPureRename(r) ==
  /\ phase = "committing"
  /\ RenamesDone
  /\ r \in left.moves
  /\ Present(disk, r.from)
  /\ disk' = Moved(disk, r)
  /\ left' = [left EXCEPT !.moves = @ \ {r}]
  /\ UNCHANGED <<tx, phase, base, session, faults>>

(* The write loop takes the changes in path order, the paths being unnamed *)
(* here, in any.                                                           *)
WriteTurn == phase = "committing" /\ RenamesDone /\ left.moves = {}

WriteChange(p) ==
  /\ WriteTurn
  /\ p \in left.writes
  /\ WritePossible(p)
  /\ disk' = Written(p)
  /\ left' = [left EXCEPT !.writes = @ \ {p}]
  /\ UNCHANGED <<tx, phase, base, session, faults>>

(* A mistake for TLC to find: the loop never gets past a renamed path.     *)
UnlinkStays(p) ==
  /\ WriteTurn
  /\ left.writes = {}
  /\ p \in left.unlinks \ AllFrom
  /\ disk' = [disk EXCEPT ![p] = NoFile]
  /\ left' = [left EXCEPT !.unlinks = @ \ {p}]
  /\ UNCHANGED <<tx, phase, base, session, faults>>

Unlink(p) ==
  /\ WriteTurn
  /\ left.writes = {}
  /\ p \in left.unlinks
  /\ disk' = IF p \in AllFrom THEN disk ELSE [disk EXCEPT ![p] = NoFile]
  /\ left' = [left EXCEPT !.unlinks = @ \ {p}]
  /\ UNCHANGED <<tx, phase, base, session, faults>>

Finish ==
  /\ WriteTurn
  /\ left.writes = {}
  /\ left.unlinks = {}
  /\ phase' = "done"
  /\ left' = Idle
  /\ UNCHANGED <<disk, tx, base, session, faults>>

(***************************************************************************)
(* A step returns an error: because it found what it must not find (Stuck, *)
(* which needs no fault), or because the system call failed.  The commit   *)
(* then restores its own session; without one there is nothing to restore. *)
(***************************************************************************)
RollBack ==
  /\ phase = "committing"
  /\ phase' = IF ~session.listed THEN "rolled_back"
              ELSE IF Complete(session) THEN "restoring"
              ELSE "rollback_failed"
  /\ left' = [Idle EXCEPT !.entries = IF session.listed
                                      THEN DOMAIN session.entries ELSE {}]
  /\ UNCHANGED <<disk, tx, base, session>>

Stuck ==
  \/ /\ ~RenamesDone
     /\ ~Present(disk, tx.renames[left.next].from)
  \/ /\ RenamesDone
     /\ \E r \in left.moves : ~Present(disk, r.from)
  \/ /\ WriteTurn
     /\ \E p \in left.writes : ~WritePossible(p)

StepStuck ==
  /\ RollBack
  /\ Stuck
  /\ UNCHANGED faults

StepFails ==
  /\ RollBack
  /\ faults < MaxFaults
  /\ faults' = faults + 1

-----------------------------------------------------------------------------
(* A mistake for TLC to find: a file that was created is not removed.      *)
RestoreOriginal(p) ==
  /\ phase \in {"restoring", "undoing"}
  /\ p \in left.entries
  /\ disk' = IF session.entries[p].action = "created" THEN disk
             ELSE [disk EXCEPT ![p] = session.entries[p].blob]
  /\ left' = [left EXCEPT !.entries = @ \ {p}]
  /\ UNCHANGED <<tx, phase, base, session, faults>>

(* restore_session, of a failed commit ("restoring") or for the user       *)
(* ("undoing").  An entry whose action is Created is removed if it is      *)
(* there; the entries are of different paths.                              *)
RestoreEntry(p) ==
  /\ phase \in {"restoring", "undoing"}
  /\ p \in left.entries
  /\ disk' = [disk EXCEPT ![p] = Restored(session.entries[p])]
  /\ left' = [left EXCEPT !.entries = @ \ {p}]
  /\ UNCHANGED <<tx, phase, base, session, faults>>

RestoreFails ==
  /\ phase \in {"restoring", "undoing"}
  /\ faults < MaxFaults
  /\ faults' = faults + 1
  /\ phase' = "rollback_failed"
  /\ left' = Idle
  /\ UNCHANGED <<disk, tx, base, session>>

(* The rolled-back session is kept; it is still the one undo finds.        *)
RolledBack ==
  /\ phase = "restoring"
  /\ left.entries = {}
  /\ phase' = "rolled_back"
  /\ UNCHANGED <<disk, tx, base, session, left, faults>>

CanUndo ==
  /\ phase \in {"done", "crashed", "rolled_back", "rollback_failed"}
  /\ session.listed

Undo ==
  /\ CanUndo
  /\ Complete(session)
  /\ phase' = "undoing"
  /\ left' = [Idle EXCEPT !.entries = DOMAIN session.entries]
  /\ UNCHANGED <<disk, tx, base, session, faults>>

(* remove_session.                                                         *)
Undone ==
  /\ phase = "undoing"
  /\ left.entries = {}
  /\ phase' = "undone"
  /\ session' = NoSession
  /\ UNCHANGED <<disk, tx, base, left, faults>>

(* The process stops.  The workspace and the session are what remains.     *)
Crash ==
  /\ phase \in {"saved", "committing", "restoring", "undoing"}
  /\ faults < MaxFaults
  /\ faults' = faults + 1
  /\ phase' = "crashed"
  /\ left' = Idle
  /\ UNCHANGED <<disk, tx, base, session>>

-----------------------------------------------------------------------------
(* The commit itself: what the process goes on doing while it runs.        *)
CommitStep ==
  \/ Unchanged
  \/ SaveOriginals
  \/ Finalize
  \/ ApplyRename
  \/ \E r \in left.moves : ApplyPureRename(r)
  \/ \E p \in Path : WriteChange(p)
  \/ \E p \in Path : Unlink(p)
  \/ Finish
  \/ StepStuck
  \/ \E p \in Path : RestoreEntry(p)
  \/ RolledBack
  \/ Undone

Disturbance == SaveFails \/ StepFails \/ RestoreFails \/ Crash

CommitNext == CommitStep \/ Undo \/ Disturbance

(* Type invariant: the session's entries and what is left to do name paths *)
(* of the plan, and the bound on faults is kept.                           *)
CommitTypeOK ==
  /\ base \in [Path -> File]
  /\ session.listed \in BOOLEAN
  /\ IsPartialFn(session.entries, Path, Entry)
  /\ left.entries \subseteq DOMAIN session.entries
  /\ left.writes \cup left.unlinks \subseteq Path
  /\ left.moves \subseteq left.pure /\ left.pure \subseteq Pair
  /\ left.next \in Nat
  /\ faults \in 0..MaxFaults
=============================================================================
