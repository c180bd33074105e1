------------------------------- MODULE PlanTx -------------------------------
(***************************************************************************)
(* A plan from its first operation to its last outcome: staging (FileTx),  *)
(* the commit of what it collected (TxCommit), and an undo afterwards.     *)
(***************************************************************************)
EXTENDS FileTx, TxCommit

VARIABLES
  ends,          \* history: the paths that were an end of a recorded rename
  tangled        \* history: some rename took, filled or left such a path again

planVars == <<disk, tx, phase, want, astray, ops, base, session, left, faults,
              ends, tangled>>

Init ==
  /\ StagingInit
  /\ base = disk
  /\ session = NoSession
  /\ left = Idle
  /\ faults = 0
  /\ ends = {}
  /\ tangled = FALSE

(***************************************************************************)
(* A rename that goes on from where another left a text (a to b, then b to *)
(* c) follows it; any other use of an end again is a tangle, and so is the *)
(* move of a file that is not on disk, and a delete that forgets a rename  *)
(* whose text had gone on.                                                 *)
(***************************************************************************)
Follows(r) ==
  /\ r.from \in RenamedTo(tx.renames) \ RenamedFrom(tx.renames)
  /\ r.from \notin tx.soft

Unlinked ==
  (RenamedTo(tx.renames) \ RenamedTo(tx'.renames)) \cap RenamedFrom(tx'.renames)

NoteRename ==
  IF Len(tx'.renames) > Len(tx.renames)
  THEN LET r == tx'.renames[Len(tx'.renames)]
       IN  /\ ends' = ends \cup {r.from, r.to}
           /\ tangled' = \/ tangled
                         \/ r.to \in ends
                         \/ /\ r.from \in ends \/ ~Present(disk, r.from)
                            /\ ~Follows(r)
  ELSE /\ tangled' = (tangled \/ Unlinked # {})
       /\ UNCHANGED ends

Stage ==
  /\ StagingNext
  /\ NoteRename
  /\ UNCHANGED <<base, session, left, faults>>

Commit == CommitNext /\ UNCHANGED <<want, astray, ops, ends, tangled>>

Next == Stage \/ Commit

Spec == Init /\ [][Next]_planVars

(* A process that runs goes on running: it is scheduled, and a Crash, which *)
(* would stop it, is bounded by MaxFaults.  Nothing makes a plan grow, a   *)
(* fault happen or a user undo.                                            *)
FairSpec == Spec /\ WF_planVars(CommitStep /\ UNCHANGED <<want, astray, ops, ends, tangled>>)

-----------------------------------------------------------------------------
(* Which plans the promises below are made to.                             *)

(* A plan undoes nothing it did not find: the paths it deletes are files   *)
(* of the workspace, and each end of its renames is in the manifest (the   *)
(* middle of a chain a, b, c is not, when b was not there before).         *)
DeletesFound == \A p \in tx.deletions : Present(base, p)
EndsSaved ==
  RenamedFrom(tx.renames) \cup RenamedTo(tx.renames) \subseteq SavedPaths(tx, base)

(* The end of a rename is a change, unless the text the rename brings from *)
(* where no other left one, or the absence it leaves, is what was staged   *)
(* there.                                                                  *)
EndsWritten ==
  \A i \in DOMAIN tx.renames :
    LET r == tx.renames[i]
    IN  /\ r.from \in DOMAIN tx.pending => r.from \in Changes(tx) \cup tx.deletions
        /\ \/ r.to \in Changes(tx)
           \/ r.to \notin DOMAIN tx.pending
           \/ /\ r.from \in DOMAIN tx.pending \ RenamedTo(tx.renames)
              /\ tx.pending[r.to].cur = tx.pending[r.from].orig

(* No binary is replaced by the empty text, no renamed file ends empty:    *)
(* staged, both look like the binary that was loaded as no text.           *)
ClearsNothing ==
  \A p \in Path : want[p] = Text(<< >>) =>
    base[p].kind # "binary" /\ p \notin RenamedTo(tx.renames)

Regular ==
  /\ ~astray
  /\ ~tangled
  /\ DeletesFound
  /\ EndsWritten
  /\ ClearsNothing

-----------------------------------------------------------------------------
(***************************************************************************)
(* A commit that ends well leaves exactly the files that the plan's        *)
(* operations, run one after another, leave: through the change list, the  *)
(* recorded and the detected renames, the order of the three loops and the *)
(* skips between them, no edit is lost and no file is left over.           *)
(***************************************************************************)
CommitMeansPlan ==
  phase \in {"done", "unchanged"} /\ Regular => disk = want

(***************************************************************************)
(* A plan that staging accepted is not rolled back unless a system call    *)
(* fails: no loop of the commit stumbles over what another has done.       *)
(***************************************************************************)
AcceptedPlanCommits ==
  faults = 0 /\ ~astray /\ ~tangled /\ DeletesFound /\ LoadsFirst =>
    phase \notin {"restoring", "rolled_back", "rollback_failed"}

(***************************************************************************)
(* Write-ahead: at every instant of a commit, a rollback, an undo, or      *)
(* after a crash in any of them, each path that differs from what the plan *)
(* found is in a manifest on disk, with what restores it.                  *)
(***************************************************************************)
Recoverable ==
  EndsSaved =>
    \A p \in Path : disk[p] # base[p] /\ phase # "undone" =>
      /\ session.listed
      /\ p \in DOMAIN session.entries
      /\ Restored(session.entries[p]) = base[p]

(***************************************************************************)
(* A rollback that reports success, and an undo that finishes, leave the   *)
(* workspace as the plan found it, whatever was done, interrupted or       *)
(* restored before.                                                        *)
(***************************************************************************)
TakesAllBack ==
  phase \in {"rolled_back", "undone", "aborted", "refused"} /\ EndsSaved =>
    disk = base

(***************************************************************************)
(* No listed session lacks the copy of an original it would put back: one  *)
(* such entry makes restore_session refuse the whole session.              *)
(***************************************************************************)
ListedSessionRestores ==
  session.listed /\ DeletesFound => Complete(session)

(***************************************************************************)
(* Every commit and every undo that starts comes to an end, if only by a   *)
(* crash.                                                                  *)
(***************************************************************************)
Settled == {"unchanged", "aborted", "done", "rolled_back", "rollback_failed",
            "crashed", "undone"}

CommitSettles == phase \in {"collected", "undoing"} ~> phase \in Settled

(***************************************************************************)
(* The engine implements AtomicPlan, for the plans whose promises it keeps *)
(* (of others it promises nothing: they stay in preparation).              *)
(***************************************************************************)
Promised == Regular /\ EndsSaved

AbstractOutcome ==
  IF phase = "staging" \/ ~Promised THEN "preparing"
  ELSE CASE phase \in {"refused", "aborted", "rolled_back"} -> "dropped"
         [] phase \in {"collected", "saved", "committing", "restoring"} -> "open"
         [] phase \in {"unchanged", "done"} -> "kept"
         [] phase \in {"crashed", "rollback_failed", "undoing"} -> "in doubt"
         [] OTHER -> "undone"

AbstractFiles ==
  IF AbstractOutcome \in {"dropped", "kept", "undone"} THEN disk ELSE base

Atomic == INSTANCE AtomicPlan
  WITH Files   <- [Path -> File],
       files   <- AbstractFiles,
       before  <- base,
       goal    <- want,
       outcome <- AbstractOutcome

ImplementsAtomicPlan == Atomic!Spec
=============================================================================
