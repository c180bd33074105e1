---------------------------- MODULE BackupUnwind ----------------------------
(***************************************************************************)
(* What the backup store promises about a whole history: undoing one       *)
(* session after the other, the newest first, leads back through the trees *)
(* they started from.  This module adds nothing to BackupStore: it defines *)
(* what restoring a session at once would do to a tree, and states the     *)
(* promise over it.                                                        *)
(***************************************************************************)
EXTENDS BackupStore

(* restore_session on tree `t`, all of its phases, with nobody in between: *)
(* each file as it was saved, its parent created if missing,               *)
FilesBack(t, s) ==
  LET saved == s.manifest.files
      copied == {p \in DOMAIN saved : saved[p] # "created"}
  IN  [files |-> [p \in Path |-> IF p \in copied THEN s.blobs[p]
                                 ELSE IF p \in DOMAIN saved THEN None ELSE t.files[p]],
       dirs |-> t.dirs \cup ({p[1] : p \in copied} \ {Root})]

(* then the directories whose old name is free, no two of which went to    *)
(* one name,                                                               *)
Back(t, s) == {m \in s.manifest.moves : m[2] \in t.dirs /\ m[1] \notin t.dirs}

DirsBack(t, s) ==
  LET back == Back(t, s)
      To(d) == CHOOSE m \in back : m[1] = d
  IN  [files |-> [p \in Path |->
                    IF \E m \in back : m[1] = p[1] THEN t.files[<<To(p[1])[2], p[2]>>]
                    ELSE IF \E m \in back : m[2] = p[1] THEN None ELSE t.files[p]],
       dirs |-> (t.dirs \ {m[2] : m \in back}) \cup {m[1] : m \in back}]

(* and last the directories that were made go, if they are empty.          *)
Restored(t, s) ==
  LET u == DirsBack(FilesBack(t, s), s)
  IN  [u EXCEPT !.dirs = @ \ {d \in s.manifest.made : IsEmptyDir(u, d)}]

(* The sessions an undo could still be asked for.                          *)
Standing == Listed \ UNION {proc[q].doomed : q \in Proc}

(* The workspace once the sessions opened at time t or later are undone,   *)
(* the newest first.                                                       *)
UndoneSince[t \in 0..(MaxTime + 1)] ==
  IF t > MaxTime THEN tree
  ELSE IF \A i \in Standing : i.at # t THEN UndoneSince[t + 1]
  ELSE Restored(UndoneSince[t + 1], store[CHOOSE i \in Standing : i.at = t])

(* No plan renamed a directory and changed a file under its old or its new *)
(* name, or renamed two directories, the first of them empty, to one.      *)
Plain(plan) ==
  /\ \A m \in plan.moves, p \in DOMAIN plan.changes : p[1] \notin {m[1], m[2]}
  /\ \A m, n \in plan.moves : m[2] = n[2] => m = n

Untangled == \A i \in DOMAIN opened : Plain(opened[i].plan)

(***************************************************************************)
(* As long as the history is a line - commands one after the other, each   *)
(* undo the undo of the newest session - undoing the sessions that are     *)
(* listed, the newest first, gives back the tree each of them was opened   *)
(* on, down to the oldest: in the middle of an apply or of an undo, after  *)
(* a crash or a failed write or restore, after undos and prunes in         *)
(* between.  It takes a backup of everything before the first write, a     *)
(* restore that may be repeated, and an order of the sessions that is the  *)
(* order of the applies (session_recency_key).                             *)
(***************************************************************************)
HistoryUnwinds ==
  straight /\ Untangled => \A i \in Standing : UndoneSince[i.at] = opened[i].from

(***************************************************************************)
(* The comment of save_before_dir_rename: "Record a directory rename so    *)
(* undo is fs::rename dest back to source".  So plans that rename a        *)
(* directory are undone as any other.                                      *)
(***************************************************************************)
RenamesUnwind ==
  straight => \A i \in Standing : UndoneSince[i.at] = opened[i].from
=============================================================================
