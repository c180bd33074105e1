---------------------------- MODULE BackupStore ----------------------------
(***************************************************************************)
(* The backup store of a workspace, .patchloom/backups: one directory per  *)
(* apply, named {nanos}_{pid}_{seq}, with a blob per file saved and a      *)
(* manifest that lists them.  Several processes apply, undo and prune at   *)
(* once; no lock is shared between processes, and each may die anywhere.   *)
(*                                                                         *)
(* An apply is what commit_changes, backup_write_files, apply_mutation_at  *)
(* and write_if_apply_many have in common: open a session (which prunes    *)
(* old ones), save every file, write the manifest, move directories, write *)
(* or unlink every file; at a failure restore the session it has written.  *)
(* An undo restores a session and removes it, or restores one path of it.  *)
(***************************************************************************)
EXTENDS Naturals, FiniteSets

CONSTANTS
  Proc,          \* operating-system processes
  Dir,           \* directories of the workspace, under its root
  Name,          \* file names
  Content,       \* what a file may hold
  Root,          \* the workspace's root, which always exists
  None,          \* no file, no manifest, no session
  Plans,         \* the plans a process may apply
  InitialTrees,  \* workspaces to start from
  MaxApplies,    \* bound on the applies of a behaviour
  MaxTime,       \* bound on the clock
  MaxAge,        \* PRUNE_DAYS, in ticks
  MaxFaults      \* bound on failing calls and crashes

ASSUME Distinct ==
  /\ Root \notin Dir
  /\ None \notin Content
  /\ IsFiniteSet(Proc)
  /\ {MaxApplies, MaxTime, MaxAge, MaxFaults} \subseteq Nat

Path == (Dir \cup {Root}) \X Name

(* Every file, and the directories that exist.                             *)
Tree == [files : [Path -> Content \cup {None}], dirs : SUBSET Dir]

PartialFns(S, T) == UNION {[R -> T] : R \in SUBSET S}

(* What staging hands to a commit: the files to write (None: to delete)    *)
(* and the directories to rename, old name and new.                        *)
Plan == [changes : PartialFns(Path, Content \cup {None}), moves : SUBSET (Dir \X Dir)]

(* Names of sessions, and what a manifest lists.                           *)
SessionId == [at : 0..MaxTime, by : Proc, seq : Nat]

Entries == [files : PartialFns(Path, {"modified", "created", "deleted"}),
            moves : SUBSET (Dir \X Dir), marks : SUBSET Dir, made : SUBSET Dir]

(* A file is in a directory that exists.  What None stands for is not      *)
(* itself a session or a manifest.                                         *)
ASSUME StoreAssumption ==
  /\ None \notin SessionId /\ None \notin Entries
  /\ Plans \subseteq Plan
  /\ \A t \in InitialTrees :
       t \in Tree /\ \A p \in Path : t.files[p] # None => p[1] \in t.dirs \cup {Root}

VARIABLES
  tree,     \* the workspace
  store,    \* session id -> blobs, manifest, mtime of its directory
  proc,     \* what each process is doing
  count,    \* SESSION_COUNTER of each process
  now,      \* the clock
  faults,   \* failing calls and crashes so far
  opened,   \* session id -> the plan and the tree its apply started from,
            \* whether an undo of it has begun
  straight  \* the history so far is a line: one command after the other,
            \* each undo the undo of the newest session

vars == <<tree, store, proc, count, now, faults, opened, straight>>

-----------------------------------------------------------------------------
(* Calls on the workspace.                                                 *)
Exists(t, p) == t.files[p] # None

IsEmptyDir(t, d) == \A n \in Name : ~Exists(t, <<d, n>>)

(* A mistake for TLC to find: no directory is made for the file.           *)
WrittenOnly(t, p, c) == [t EXCEPT !.files[p] = c]

(* A write, the missing parent directory created first.                    *)
Written(t, p, c) ==
  [files |-> [t.files EXCEPT ![p] = c], dirs |-> t.dirs \cup ({p[1]} \ {Root})]

Unlinked(t, p) == [t EXCEPT !.files[p] = None]

(* rename(2) of a directory: onto a missing or an empty one.               *)
CanMove(t, d, e) == d \in t.dirs /\ (e \in t.dirs => IsEmptyDir(t, e))

MovedDir(t, d, e) ==
  [files |-> [p \in Path |-> IF p[1] = e THEN t.files[<<d, p[2]>>]
                          ELSE IF p[1] = d THEN None ELSE t.files[p]],
   dirs |-> (t.dirs \ {d}) \cup {e}]

-----------------------------------------------------------------------------
(* Sessions.                                                               *)
(* A mistake for TLC to find: the process is left out of the name.         *)
NewSessionIdNoPid(self, t) == [at |-> t, by |-> CHOOSE q \in Proc : TRUE, seq |-> count[self]]

NewSessionId(self, t) == [at |-> t, by |-> self, seq |-> count[self]]

Listed == {i \in DOMAIN store : store[i].manifest # None}

(* session_recency_key: nanos, then the directory's mtime, then seq.       *)
Newer(i, j) ==
  \/ i.at > j.at
  \/ i.at = j.at /\ store[i].mtime > store[j].mtime
  \/ i.at = j.at /\ store[i].mtime = store[j].mtime /\ i.seq > j.seq

Newest(S) == {i \in S : \A j \in S : ~Newer(j, i)}

(* What the saves record, for the manifest.  Files are entries with an     *)
(* action; a renamed directory is an entry with renamed_from, unless its   *)
(* new name was there meanwhile and is an entry already, with an empty     *)
(* blob (`marks`; the empty file a restore may leave there is left out).   *)
Action(t, plan, p) ==
  IF plan.changes[p] = None THEN "deleted"
  ELSE IF Exists(t, p) THEN "modified" ELSE "created"

NoEntries == [files |-> << >>, moves |-> {}, marks |-> {}, made |-> {}]

(* Directories the writes will have to create (missing_ancestor_dirs).     *)
MissingParents(t, plan) ==
  {p[1] : p \in {q \in DOMAIN plan.changes : plan.changes[q] # None}}
    \ (t.dirs \cup {Root})

(* The order of the files of a plan, the same in every phase.              *)
First(S) == CHOOSE p \in S : TRUE

WithEntry(f, x, v) == [y \in DOMAIN f \cup {x} |-> IF y = x THEN v ELSE f[y]]

-----------------------------------------------------------------------------
(* What a process does: the session it works on, what is left of it.       *)
Idle == [pc |-> "idle", id |-> None, plan |-> None, entries |-> NoEntries,
         left |-> {}, moves |-> {}, had |-> {}, wrote |-> {}, undo |-> FALSE,
         only |-> None, doomed |-> {}]

Become(self, r) == proc' = [proc EXCEPT ![self] = r]

(* In an apply, its rollback included.                                     *)
Applying(self) == proc[self].id # None /\ ~proc[self].undo /\ proc[self].only = None

Expired(t) == {i \in DOMAIN store : t - i.at > MaxAge}

(* Staging accepts the plan: it changes something, deletes what is there,  *)
(* and renames a directory to a name that is free.                         *)
Accepts(plan) ==
  /\ \A p \in DOMAIN plan.changes : plan.changes[p] # tree.files[p]
  /\ \A m \in plan.moves : m[1] \in tree.dirs /\ m[2] \notin tree.dirs

Alone(self) == \A q \in Proc \ {self} : proc[q].pc = "idle"

(* The time at which the next session may open: no command lasts as long   *)
(* as a session is kept.                                                   *)
Times ==
  {t \in now..MaxTime : \A q \in Proc : Applying(q) => t - proc[q].id.at <= MaxAge}

(* BackupSession::new: the session's directory, then the prune of the      *)
(* sessions older than MaxAge (not of this one).  create_dir_all accepts a *)
(* directory that is there.  The clock matters here and nowhere else, so   *)
(* this is where it moves; the history is a line only if it has.           *)
BeginApply(self, plan) ==
  \E t \in Times :
    LET id == NewSessionId(self, t)
    IN  /\ proc[self].pc = "idle"
        /\ Cardinality(DOMAIN opened) < MaxApplies
        /\ Accepts(plan)
        /\ store' = IF id \in DOMAIN store THEN store
                    ELSE WithEntry(store, id, [blobs |-> << >>, manifest |-> None, mtime |-> t])
        /\ count' = [count EXCEPT ![self] = @ + 1]
        /\ opened' = WithEntry(opened, id, [plan |-> plan, from |-> tree, undone |-> FALSE])
        /\ Become(self, [Idle EXCEPT !.pc = "pruning", !.id = id, !.plan = plan,
                                     !.left = DOMAIN plan.changes, !.moves = plan.moves,
                                     !.had = {p \in DOMAIN plan.changes : Exists(tree, p)},
                                     !.doomed = Expired(t)])
        /\ now' = t
        /\ straight' = (straight /\ Alone(self) /\ \A i \in DOMAIN opened : i.at # t)
        /\ UNCHANGED <<tree, faults>>

(* remove_dir_all of a session, as a prune or as a consumed one: its       *)
(* entries go in the order the directory lists them, then the directory.   *)
RemovePart(self) ==
  \E i \in proc[self].doomed :
    /\ i \in DOMAIN store
    /\ \/ /\ store[i].manifest # None
          /\ store' = [store EXCEPT ![i].manifest = None, ![i].mtime = now]
       \/ /\ store[i].blobs # << >>
          /\ store' = [store EXCEPT ![i].blobs = << >>, ![i].mtime = now]
       \/ /\ store[i].blobs = << >> /\ store[i].manifest = None
          /\ store' = [j \in DOMAIN store \ {i} |-> store[j]]
    /\ UNCHANGED <<tree, proc, count, now, faults, opened, straight>>

EndRemoval(self) ==
  /\ proc[self].pc \in {"pruning", "removing"}
  /\ proc[self].doomed \cap DOMAIN store = {}
  /\ Become(self, IF proc[self].pc = "removing" THEN Idle
                  ELSE [proc[self] EXCEPT !.pc = "saving", !.doomed = {}])
  /\ UNCHANGED <<tree, store, count, now, faults, opened, straight>>

(* save_before_write and save_before_delete of one file of the plan: a     *)
(* copy of it if it is there, and its entry.                               *)
Save(self) ==
  LET me == proc[self]
      p == First(me.left)
  IN  /\ me.pc = "saving" /\ me.left # {}
      /\ store' = IF Exists(tree, p)
                  THEN [store EXCEPT ![me.id].blobs = WithEntry(@, p, tree.files[p]),
                                     ![me.id].mtime = now]
                  ELSE store
      /\ Become(self, [me EXCEPT !.left = @ \ {p},
                  !.entries.files = WithEntry(@, p, Action(tree, me.plan, p))])
      /\ UNCHANGED <<tree, count, now, faults, opened, straight>>

(* The entries of the renamed directories, the directories to be created,  *)
(* and finalize: the manifest is written before anything else is.          *)
Finalize(self) ==
  LET me == proc[self]
      marks == {m[2] : m \in {n \in me.moves : n[2] \in tree.dirs}}
      entries == [me.entries EXCEPT
                    !.marks = marks,
                    !.moves = {m \in me.moves : m[2] \notin marks /\ m[1] \in tree.dirs},
                    !.made = MissingParents(tree, me.plan)]
  IN  /\ me.pc = "saving" /\ me.left = {}
      /\ store' = [store EXCEPT ![me.id].manifest = entries, ![me.id].mtime = now]
      /\ Become(self, [me EXCEPT !.pc = "writing", !.entries = entries,
                                 !.left = DOMAIN me.plan.changes])
      /\ UNCHANGED <<tree, count, now, faults, opened, straight>>

-----------------------------------------------------------------------------
(* The writes.  A failure turns to the restore of the session just         *)
(* written (restore_after_failed_commit).                                  *)
StartRestore(r, m) ==
  [r EXCEPT !.pc = "checking", !.entries = m, !.left = {}, !.moves = {}]

FailedWrite(self) ==
  /\ Become(self, StartRestore(proc[self], NoEntries))
  /\ UNCHANGED <<tree, store, count, now, opened, straight>>

(* rename_or_copy of the directories comes first.                          *)
MoveDirs(self) ==
  LET me == proc[self]
  IN  /\ me.pc = "writing"
      /\ \E m \in me.moves :
           \/ /\ CanMove(tree, m[1], m[2])
              /\ tree' = MovedDir(tree, m[1], m[2])
              /\ Become(self, [me EXCEPT !.moves = @ \ {m}])
              /\ UNCHANGED <<store, count, now, faults, opened, straight>>
           \/ ~CanMove(tree, m[1], m[2]) /\ FailedWrite(self) /\ UNCHANGED faults

(* Then atomic_create_new for a file that staging did not find,            *)
(* atomic_write for one it did, an unlink for one to delete.               *)
Lands(t, had, p, c) ==
  IF c = None THEN Exists(t, p) ELSE p \in had \/ ~Exists(t, p)

WriteOne(self) ==
  LET me == proc[self]
      p == First(me.left)
      c == me.plan.changes[p]
  IN  /\ me.pc = "writing" /\ me.moves = {} /\ me.left # {}
      /\ \/ /\ Lands(tree, me.had, p, c)
            /\ tree' = IF c = None THEN Unlinked(tree, p) ELSE Written(tree, p, c)
            /\ Become(self, [me EXCEPT !.left = @ \ {p}, !.wrote = @ \cup {p}])
            /\ UNCHANGED <<store, count, now, faults, opened, straight>>
         \/ ~Lands(tree, me.had, p, c) /\ FailedWrite(self) /\ UNCHANGED faults

WriteFails(self) ==
  /\ proc[self].pc = "writing" /\ proc[self].moves \cup proc[self].left # {}
  /\ faults < MaxFaults /\ faults' = faults + 1
  /\ FailedWrite(self)

EndApply(self) ==
  /\ proc[self].pc = "writing" /\ proc[self].moves = {} /\ proc[self].left = {}
  /\ Become(self, Idle)
  /\ UNCHANGED <<tree, store, count, now, faults, opened, straight>>

-----------------------------------------------------------------------------
(* undo --apply: resolve_session picks the newest listed session, or the   *)
(* one named.  With paths, only those files of it, and the session is kept *)
(* (restore_path_from_latest_backup: the newest that has the file).        *)
BeginUndo(self, i, only) ==
  /\ proc[self].pc = "idle"
  /\ Become(self, [Idle EXCEPT !.pc = "checking", !.id = i, !.undo = only = None, !.only = only])
  /\ opened' = [opened EXCEPT ![i].undone = @ \/ only = None]
  /\ straight' = (straight /\ Alone(self) /\ i \in Newest(Listed))
  /\ UNCHANGED <<tree, store, count, now, faults>>

UndoNewest(self) == \E i \in Newest(Listed) : BeginUndo(self, i, None)

UndoNamed(self) == \E i \in Listed : BeginUndo(self, i, None)

UndoPath(self, p) ==
  \E i \in {j \in Listed : p \in DOMAIN store[j].manifest.files} : BeginUndo(self, i, p)

(* The first phase of a restore reads the manifest again, requires every   *)
(* blob, and refuses a destination that has become a directory.            *)
BlobOf(i, p) == p \in DOMAIN store[i].blobs

Restorable(i, only) ==
  /\ i \in Listed
  /\ LET m == store[i].manifest
     IN  IF only # None
         THEN m.files[only] # "created" => BlobOf(i, only)
         ELSE /\ \A p \in DOMAIN m.files : m.files[p] # "created" => BlobOf(i, p)
              /\ m.marks \cap tree.dirs = {}

Check(self) ==
  LET me == proc[self]
      m == store[me.id].manifest
  IN  /\ me.pc = "checking"
      /\ IF Restorable(me.id, me.only)
         THEN Become(self, [me EXCEPT
                !.pc = "restoring", !.entries = m,
                !.left = IF me.only # None THEN {me.only} ELSE DOMAIN m.files,
                !.moves = IF me.only # None THEN {} ELSE m.moves])
         ELSE Become(self, Idle)
      /\ UNCHANGED <<tree, store, count, now, faults, opened, straight>>

(* The second phase: a created file is removed, any other copied back, its *)
(* parent created if missing; a blob gone by now ends the restore there.   *)
RestoreFile(self) ==
  LET me == proc[self]
      p == First(me.left)
      blobThere == me.id \in DOMAIN store /\ BlobOf(me.id, p)
      done == Become(self, [me EXCEPT !.left = @ \ {p}])
  IN  /\ me.pc = "restoring" /\ me.left # {}
      /\ \/ /\ me.entries.files[p] = "created"
            /\ tree' = Unlinked(tree, p) /\ done
         \/ /\ me.entries.files[p] # "created" /\ blobThere
            /\ tree' = Written(tree, p, store[me.id].blobs[p]) /\ done
         \/ /\ me.entries.files[p] # "created" /\ ~blobThere
            /\ Become(self, Idle) /\ UNCHANGED tree
      /\ UNCHANGED <<store, count, now, faults, opened, straight>>

(* A renamed directory goes back if its old name is free, and is skipped   *)
(* otherwise.                                                              *)
RestoreDir(self) ==
  LET me == proc[self]
  IN  /\ me.pc = "restoring" /\ me.left = {}
      /\ \E m \in me.moves :
           /\ tree' = IF m[2] \in tree.dirs /\ m[1] \notin tree.dirs
                      THEN MovedDir(tree, m[2], m[1])
                      ELSE tree
           /\ Become(self, [me EXCEPT !.moves = @ \ {m}])
      /\ UNCHANGED <<store, count, now, faults, opened, straight>>

(* Directories the apply made are removed if they are empty; then a full   *)
(* undo removes the session it has consumed.                               *)
RestoreEnds(self) ==
  LET me == proc[self]
  IN  /\ me.pc = "restoring" /\ me.left = {} /\ me.moves = {}
      /\ tree' = IF me.only # None THEN tree
                 ELSE [tree EXCEPT !.dirs = @ \ {d \in me.entries.made : IsEmptyDir(tree, d)}]
      /\ Become(self, IF me.undo
                      THEN [Idle EXCEPT !.pc = "removing", !.doomed = {me.id}]
                      ELSE Idle)
      /\ UNCHANGED <<store, count, now, faults, opened, straight>>

(* A mistake for TLC to find: the session is gone although it failed.      *)
RestoreFailsAndRemoves(self) ==
  /\ proc[self].pc = "restoring" /\ proc[self].left \cup proc[self].moves # {}
  /\ faults < MaxFaults /\ faults' = faults + 1
  /\ Become(self, [Idle EXCEPT !.pc = "removing", !.doomed = {proc[self].id}])
  /\ UNCHANGED <<tree, store, count, now, opened, straight>>

RestoreFails(self) ==
  /\ proc[self].pc = "restoring" /\ proc[self].left \cup proc[self].moves # {}
  /\ faults < MaxFaults /\ faults' = faults + 1
  /\ Become(self, Idle)
  /\ UNCHANGED <<tree, store, count, now, opened, straight>>

-----------------------------------------------------------------------------
(* A process may die between any two calls.  One that dies removing a      *)
(* session may leave it listed and without its blobs.                      *)
Crash(self) ==
  /\ proc[self].pc # "idle"
  /\ faults < MaxFaults /\ faults' = faults + 1
  /\ Become(self, Idle)
  /\ straight' = (straight /\ proc[self].doomed \cap DOMAIN store = {})
  /\ UNCHANGED <<tree, store, count, now, opened>>

Init ==
  /\ tree \in InitialTrees
  /\ store = << >>
  /\ proc = [self \in Proc |-> Idle]
  /\ count = [self \in Proc |-> 0]
  /\ now = 0
  /\ faults = 0
  /\ opened = << >>
  /\ straight = TRUE

Apply(self) ==
  \/ \E plan \in Plans : BeginApply(self, plan)
  \/ Save(self) \/ Finalize(self)
  \/ MoveDirs(self) \/ WriteOne(self) \/ WriteFails(self) \/ EndApply(self)

Undo(self) ==
  \/ UndoNewest(self) \/ UndoNamed(self)
  \/ \E p \in Path : UndoPath(self, p)
  \/ Check(self) \/ RestoreFile(self) \/ RestoreDir(self)
  \/ RestoreEnds(self) \/ RestoreFails(self)

Next ==
  \E self \in Proc : Apply(self) \/ Undo(self) \/ RemovePart(self)
                        \/ EndRemoval(self) \/ Crash(self)

Spec == Init /\ [][Next]_vars

-----------------------------------------------------------------------------
(* Type invariant.                                                         *)
Phases == {"idle", "pruning", "saving", "writing", "checking", "restoring", "removing"}

StoreTypeOK ==
  /\ tree \in Tree
  /\ \A p \in Path : Exists(tree, p) => p[1] \in tree.dirs \cup {Root}
  /\ DOMAIN store \subseteq DOMAIN opened /\ DOMAIN opened \subseteq SessionId
  /\ \A i \in DOMAIN store :
       /\ store[i].blobs \in PartialFns(Path, Content)
       /\ store[i].manifest \in Entries \cup {None}
       /\ store[i].mtime \in i.at..now
  /\ \A self \in Proc :
       /\ proc[self].pc \in Phases
       /\ proc[self].id \in SessionId \cup {None}
       /\ proc[self].entries \in Entries
  /\ now \in 0..MaxTime /\ faults \in 0..MaxFaults
  /\ straight \in BOOLEAN

(***************************************************************************)
(* Before any --apply write, the originals are saved: when a process is    *)
(* about to write, delete or move anything, its own session is listed with *)
(* an entry for every path it is going to touch and a blob for each one    *)
(* that was there, unless an undo of that very session has begun.  (A file *)
(* to delete that another process deleted before the save has no blob, and *)
(* a directory it had moved away by then is no entry.)  It takes session   *)
(* ids that no two processes share, a manifest written after the last save *)
(* and before the first write, and a prune that spares sessions in use.    *)
(***************************************************************************)
WritesAreCovered ==
  \A self \in Proc :
    LET me == proc[self]
        m == store[me.id].manifest
    IN  me.pc = "writing" /\ ~opened[me.id].undone =>
          /\ me.id \in Listed
          /\ DOMAIN m.files = DOMAIN me.plan.changes
          /\ straight => me.moves \subseteq m.moves \cup (Dir \X m.marks)
          /\ \A p \in me.left :
               \/ p \in DOMAIN store[me.id].blobs
               \/ m.files[p] = "created"
               \/ m.files[p] = "deleted" /\ ~straight
=============================================================================
