# Patchloom: TLA+ models, TLC runs and proofs

Patchloom applies *plans* of structured edits to a workspace: a plan is staged
in memory, committed to disk behind a backup session, followed by format and
validation commands, and can be taken back with `patchloom undo`. The same
engine runs behind the command line (`tx`, `batch`), the library API and an MCP
server. This directory models that engine from the plan's first operation down
to the system calls that put bytes on disk, the edits that the operations make
to a text or a document, the backup store, the commands it runs and the
server's serialization of tool calls; it checks the models with TLC, and proves
the properties that matter most with TLAPS.

Paths below are relative to `src/src/` (the crate) unless they say otherwise.

## 1. The system and its parts

### Inventory

| Part | Code | State it keeps | Operations | Module |
|---|---|---|---|---|
| Staging, file operations | `tx/execute/mod.rs`, `tx/execute/file_ops.rs` | `TxState`: `pending` (path to original and current text), `deletions`, `existed_before`, `write_targets`, `renames`, `soft_non_text` | append, prepend, create, delete, rename | `StagedTx`, `FileTx` |
| Staging, `patch.apply` | `tx/patch_op.rs`, `ops/begin_patch.rs` | the same | Add, Delete, Update, Update with Move (Begin Patch) | `FileTx` |
| Staging, documents | `tx/execute/mod.rs` | `doc_cache`: parsed documents not yet written back | load, edit, flush | `FileTx` |
| Staging, texts | `tx/replace_op.rs`, `tx/md_op.rs`, `tx/tidy_op.rs`, `tx/ast_op.rs` | the same | read, replace of a path or a glob, md, tidy.fix, ast.move, ast.extract_to_file | `TextTx` |
| Commit | `tx/lifecycle/commit.rs`, `tx/lifecycle/plan_exec.rs` | the workspace; the loops' position | save originals, finalize the manifest, rename, write, unlink, roll back | `TxCommit` |
| Backup store | `backup.rs`, `cmd/undo.rs` | `.patchloom/backups/<id>/`: blobs and `manifest.json` | save, finalize, restore (a session or one path), remove, list, prune | `TxCommit` (one session), `BackupStore` |
| Lifecycle steps | `tx/lifecycle/steps.rs` | the collateral snapshot | format, validate, strict revert | `TxLifecycle` |
| Commands | `exec.rs` | a child process, a thread that reads its stderr | run to the end or to a deadline, kill | `ShellCommand` |
| File writes | `write.rs`, `ops/file.rs` | a temporary file beside the target | replace, create-new, in-place write of a hard-linked file, rename or copy | `FileWrite` |
| Markdown edits | `ops/md.rs`, `tx/md_op.rs` | none | replace, insert, move, upsert, dedupe, append a row | `MdEdits` |
| Patches | `ops/patch.rs` | none | apply hunks, merge stale ones | `PatchEdits` |
| Documents | `ops/doc/navigate.rs`, `ops/doc/mod.rs`, `selector/` | none | set, ensure, delete, merge, append, prepend, update, move, delete_where | `DocEdits` |
| MCP server | `cmd/mcp/` | `io_gate` (one `RwLock`), tokio's blocking pool, the call log | read tools, write tools, sessions, cancellation, shutdown | `McpGate` |
| Parsers, serializers, matching, other AST work | `ast/`, `fallback.rs`, `ops/replace.rs` | none | functions of text | not modelled |
| Containment, walking | `containment.rs`, `files.rs` | none | path checks, directory walks | not modelled |
| CLI, config, output, schema, API | `cli/`, `config.rs`, `exit.rs`, `api/` | none | parsing, formatting | not modelled |

### How they interact

A tool call or command builds a plan; `execute_plan_direct` prepares it;
`execute_and_collect` runs its operations one after another on one `TxState`
and returns the list of changes, the deletions and the recorded renames;
`commit_changes` saves originals into a `BackupSession`, finalizes the manifest
and then replays the result in three loops (renames, writes, deletions). An
error in a loop makes it restore its own session. After a commit the plan's
format and validation commands run, each with a deadline; in strict mode a
required one that fails makes the engine restore the session and the texts the
commands changed elsewhere. Sessions outlive the process: `undo` restores one
later. Inside the MCP server many calls may do all of this at once, and only
`io_gate` keeps them apart; between processes nothing does.

### What is hard about it

* *Long sequences of legal operations.* Existence is asked of four places (the
  disk, `pending`, `deletions`, `doc_cache`) which every operation must keep in
  step.
* *Ordering.* A plan is staged in one order and committed in another.
* *Guesses from content.* A rename may be detected from equal texts, and an
  empty staged text may be a cleared file or a binary that was never read.
* *Crash and partial failure* between any two of the commit's steps, in the
  rollback, or in the undo, with what is on disk as the only memory.
* *Concurrency.* Handlers that read, compute and write much later, on threads
  whose callers may be gone; several processes over one backup store; writers
  of one inode through several names; commands whose children outlive them.
* *Shifting positions.* Edits compute lines, byte ranges or indices, change the
  text, and use them again: moves within a document, hunks after hunks,
  sections past sections.

`PROJECT.json` lists each such hazard at its line, with the properties that
would catch it.

### What makes each part correct

* Staging: the plan sees its own writes, and accepts exactly what its
  operations run one by one would allow.
* Commit: what lands on disk is what the operations mean, or the commit is
  rolled back and nothing has changed.
* Backup: at every instant, everything changed so far can be put back from what
  is on disk.
* Backup store: undo after undo leads back through the history.
* Lifecycle: a plan comes to an outcome whatever its commands do, and the
  outcome is true.
* File writes: a reader sees whole files, names of one file stay together, and
  bytes are not lost by a call that fails.
* Edits: each does what it says to the part that it names, and nothing else.
* MCP server: tool calls are serializable, lose no update, and return.

## 2. The modules

| Module | Models | Extends or instantiates |
|---|---|---|
| `TxState` | the workspace, `TxState`, and the end of `execute_and_collect` (change list, bare deletions) | |
| `PlainFiles` | what each operation means on plain files: the yardstick, not code | `TxState` |
| `StagedTx` | the helpers of `TxState`: loads, `write_file`, deletions, flush of the document cache | `PlainFiles` |
| `TextTx` | staging of the operations that edit texts | `StagedTx` |
| `FileTx` | staging of file, patch and document operations, and the transaction as a whole | `TextTx` |
| `TxCommit` | `commit_changes`, the backup session, restore, undo, crashes | `TxState` |
| `AtomicPlan` | abstract: a plan happens at once or not at all and can be taken back | |
| `PlanTx` | a plan from first operation to last outcome | `FileTx`, `TxCommit`; `AtomicPlan` by refinement |
| `PlanClaims` | sentences of the docs and comments, as properties | `PlanTx` |
| `BackupStore` | many sessions, several processes: apply, rollback, undo, prune | |
| `BackupUnwind` | what undoing the sessions, one after the other, gives back | `BackupStore` |
| `ShellCommand` | `run_with_timeout`, and the processes of a command | |
| `TxLifecycle` | a plan's steps and the revert of strict mode | `ShellCommand` |
| `FileWrite` | `atomic_write`, `atomic_create_new`, `rename_or_copy`, call by call | |
| `MdEdits` | the Markdown edits of `ops/md.rs`, as functions of a text | |
| `OutlineEdits` | what each of them means on the outline: the yardstick, not code | |
| `PatchEdits` | hunks applied and merged, as functions of a text | |
| `TextEdits` | a text under Markdown edits; a file under a patch, drifting | `MdEdits`, `OutlineEdits`, `PatchEdits` |
| `DocEdits` | selectors, and a document under mutation | |
| `Edits` | one of the three under edit | `TextEdits`, `DocEdits` |
| `McpGate` | `io_gate`, blocking pool, clients, shutdown | `SerialTools` by refinement |
| `SerialTools` | abstract: a tool call takes effect at one instant, in every file or, if it fails, in those it could not put back | |
| `MCPlanTx`, `MCBackupStore`, `MCLifecycle`, `MCFileWrite`, `MCEdits`, `MCMcpGate` | instances for TLC | |
| `FileTx_proofs` | theorems of staging | `FileTx`, `TLAPS` |
| `PlanTx_proofs` | theorems of commit, rollback and undo, and of the plan as a whole, the refinement among them | `PlanTx`, `FileTx_proofs` |
| `TextEdits_proofs` | theorems of patches: what they give, keep and merge | `TextEdits`, `TLAPS` |
| `MdEdits_proofs` | theorems of the Markdown edits, and type correctness of both kinds of text | `TextEdits_proofs` |
| `BackupStore_proofs`, `Lifecycle_proofs`, `FileWrite_proofs`, `McpGate_proofs` | theorems of those components (the first of `BackupUnwind` too) | `TLAPS` |

Operators whose comment begins "A mistake for TLC to find" are mutated forms of
the operator that follows them. No specification uses them; each shows that a
property notices a plausible bug in the operator it mutates.

### State and actions against the code

**Staging.** `disk` is one entry per path: nothing, a text, or a binary (any
bytes that `load_text_strict` would refuse). A text is a sequence of tokens; a
file of the initial workspace holds its own name, and an edit appends or
replaces tokens, so texts differ exactly when a mix-up of files or edits makes
them differ. `tx` is the Rust struct, field by field: `pending`, `deletions`,
`existed` (`existed_before`), `writes` (`write_targets`), `renames`, `soft`
(`soft_non_text`), `docs` (`doc_cache`). Fields that only report (reads,
searches, hints) and the write policy (a rewriting of the text that changes no
other field) are left out.

Each action of `FileTx` and `TextTx` is a whole arm of the handler, the flush of
the document cache before it included. An operation that returns an error ends
the plan; since an error's kind does not matter after that, one action `Refuse`
stands for all of them and each operation's guard says when it succeeds.
`Collect` is the final flush. `want` and `astray` are history: the files the
plan means, computed by `PlainFiles`, and whether staging ever accepted what
those files do not allow. What a text operation does to a text is one token
here: `TextTx` is about which text it finds, and what it leaves of the rest.

**Commit.** `TxCommit` keeps the order of `commit_changes`: `SaveOriginals` (the
save loops, which only read the workspace, in one step), `Finalize`, then one
step per recorded rename in order, per detected rename, per write and per
unlink. The write loop takes its changes in any order, as the path names that
fix the order in the code are abstract here; for the same reason `PurePairings`
is the set of maximal pairings, of which `detect_pure_renames` finds one.
`StepStuck` is a step that fails for what it finds on disk; any other failure,
and every crash, is counted by `faults`. `RestoreEntry`, shared by rollback and
undo, is an iteration of phase 2 of `restore_session_with_guard`; phase 1 is
`Complete`.

**Backup store.** An apply of `BackupStore` is what the four callers of
`BackupSession` have in common; the plan it applies is a map from paths to new
contents and a set of directory renames. A session's id is time, process and
counter (`NewSessionId`), its directory's modification time decides between
sessions of one instant (`Newer`, `session_recency_key`), and removal takes its
files one by one, in any order. The clock moves when a session opens: nothing
else reads it.

**Commands and lifecycle.** A command is a set of processes that fork, close or
hold stderr, leave the group, fill the pipe, exit, or never do. The clock of
`ShellCommand` ticks once per poll. In `TxLifecycle` any file may be edited at
any time while a process of any command lives (`Edit`); `touched` remembers the
files edited after the last command was answered, of which nobody can promise
anything. Each call to the system may fail: the spawn (`SpawnFails`), and the
step ends in error before a command has run; `try_wait` (`PollFails`), after which the
caller has an error and nothing is killed; and a read of stderr (`ReadFails`),
after which the reader sends what it has and no longer drains the pipe. The
commit is one step that succeeds.

**File writes.** `FileWrite` has names, inodes and symbolic links, and one
action per system call. A payload is a sequence of blocks, so that the in-place
write, block by block and then `set_len`, can be seen half done. A temporary
file has no name in the model but is an inode in use.

**Edits.** A Markdown text is a sequence of lines by kind (heading, underline,
bullet, fence, row, blank, ...) and whether it ends with a newline, on which
`MdEdits` computes what `ops/md.rs` computes on bytes. A file under patch is a
sequence of lines; a diff is made of a script (context, removed, added), cut
into hunks as `diff -u` does. A document is a tree; `docEdit` records what was
asked and whether the code said it did it.

**Server.** `McpGate` follows a call's closure through its life: queued on the
blocking pool, waiting for the gate on a thread, running, returned (or dropped
unstarted at shutdown). A handler reads files one by one, then, in a write tool,
writes each from what it read. At any point it may fail (`Fails`); then it puts
back what it had read in some of the files it wrote (`Undo`), none when it has no
session, and lets go of the gate. The awaiting side is separate: a client may go at
any moment, and the closure does not notice. Panics end the process (`panic =
"abort"` in `src/Cargo.toml`), so lock poisoning is not modelled.

## 3. The runs

All runs switch TLC's deadlock check off: a plan ends, an edit is done, finitely
many calls return; nothing is left to do then. That nothing *hangs* is what
`CommitSettles`, `ComesToAnOutcome` and `CallsReturn` say.

| Run | Bounds | Shows |
|---|---|---|
| `plan_meaning` | 3 paths, every workspace of absent, empty, text and binary files, two files of one text among them, 3 operations of 11 families, no fault | staging accepts what the files allow (`AcceptsWhatFilesAllow`), sees its own writes (`ReadsItsWrites`) and the disk's originals (`OriginalsMatchDisk`), and its document cache is never behind the text (`CacheIsCurrent`); the commit leaves what the plan means (`CommitMeansPlan`), and an accepted plan is not rolled back (`AcceptedPlanCommits`) |
| `plan_recovery` | 3 paths, no empty file, 2 operations (file, patch, extract), 2 faults | `Recoverable`, `TakesAllBack`, `ListedSessionRestores`, `CommitSettles`, refinement of `AtomicPlan` |
| `backup_store` | 2 processes, 2 applies, 2 directories and the root, 2 plans (a file in a new directory; a deletion and a directory rename), 1 fault, clock of 3 instants | every write is covered by a listed session (`WritesAreCovered`), and undoing the listed sessions, newest first, leads through the tree each was opened on to the oldest (`HistoryUnwinds`) |
| `lifecycle` | 2 steps, a shell and a child, a deadline of 1 tick, grace of 1, a pipe of 1, 2 files, 1 failing restore | an end is reported when it is one (`ExitedIsOver`), a timeout when the group is dead (`TimeoutLeavesNothing`), a revert when it is one (`StrictReverts`), an outcome that the steps came to (`OutcomeMeansSteps`), and some outcome always (`ComesToAnOutcome`) |
| `atomic_write` | 2 processes, 3 operations, 5 names (two of one file, a link, one on another device, one free), 2 faults, 1 step of another program | what can be torn (`OnlySharedTears`), that links stay (`LinksStayTogether`), `CreateIsExclusive`, where the bytes are after a failure (`PayloadSurvives`, `MoveKeepsBytes`) |
| `edits` | every Markdown text of up to 4 lines of 9 kinds that has a heading, and long ones; every edit script of up to 4 lines and of 6 unlike ones, contexts of 0 to 2, 2 drifted lines; 15 documents, selectors of up to 3 segments | a Markdown edit changes the outline as it means (`EditsMeanOutline`), and a second upsert or dedupe changes nothing (`EditsSettle`); a patch gives the new text (`PatchGivesNewText`), leaves what drifted (`DriftSurvives`), and a merge is three-way (`MergeIsThreeWay`); a document edit does what it says it did (`DocEditsMeanWhatTheySay`), reads back (`EditsReadBack`) and keeps an array's order (`ArraysKeepOrder`) |
| `mcp_gate` | 2 write calls of two sessions, 1 read call, 2 files, 2 threads, each handler failing anywhere and taking back what it can | `NothingLost`, refinement of `SerialTools`, `CallsReturn` |
| `claim_*` | one or two operations | five sentences of the repository that the code does not keep (section 5) |

Why the bounds are enough to be interesting. *Plans:* three paths are the fewest
with a chain of two renames, two renames into one path, and a swap through a
third name; three operations reach each of those and one more operation on the
result, and the document cache before, between and after other operations.
`Contents` includes the empty text and the text of every existing file, so that
detected renames are found, wrongly too. Two faults are a failing step and a
crash in the rollback it starts, or a crash and a failing or interrupted undo.
*Store:* two applies by two processes at one instant make ids collide if they
can, and age past the prune's limit while the other's session is in use; with
one fault an apply is rolled back or cut short, and then undone again.
*Commands:* one child that outlives its shell, inside or outside the group, with
or without stderr, is each way a command can be over and not over; a deadline
and a grace of one tick let every order of exit, end of stderr and deadline
happen. *Writes:* three operations of two processes are a write that overlaps
two others; two faults fail a write and then its repair. *Edits:* four lines
hold a heading, its underline or fence, and a neighbour; the long texts hold
what needs more. A drift of two lines is a shift and a change. *Server:* two
threads for three calls make the pool a resource that can run out while calls
wait for the gate. Runs without liveness use symmetry where nothing orders the
values.

Every `Max...` constant, and the sets of contents, disks, plans, texts and
documents, are bounds of the instances; the theorems hold for every value of
them.

### Fairness

`PlanTx!FairSpec` assumes weak fairness of the commit's own steps: one thread runs
`commit_changes` or `undo` to its end and is scheduled. No fault, crash, undo
or further operation is assumed to happen. `TxLifecycle!Spec` assumes it of the
engine: the thread that polls, runs the steps and reverts. Nothing is assumed of
the commands' processes, nor even of the thread that reads stderr: the deadline
alone must end a command. `McpGate!FairSpec` assumes weak fairness of each
call's own steps: pool threads are scheduled and handlers, which are sequential
code without waits, return. Nothing is assumed of the order in which the lock
lets waiters in; with finitely many calls it is not needed.

### To which cases the promises are made

The code keeps its promises in most cases and not in all. The conditions are
stated in the modules, as narrowly as TLC allowed, and each excluded case is a
real one (section 5):

* `astray` (staging): the plan did what the files would not have allowed: edited
  a text that Begin Patch had deleted, or a soft load as a document.
  `KeptToFiles` lets plans of file operations stray, which do no harm by it.
* `LoadsFirst`: no `ast.extract_to_file`, which writes its target unread.
* `tangled`: a path that was an end of a recorded rename is the end of another
  one, other than by going on from where a text was left (a to b, b to c), or
  a file not on disk is moved, or a delete forgets a rename whose text had gone
  on.
* `DeletesFound`: everything deleted is a file of the workspace the plan found.
* `EndsSaved`: every end of a rename is in the manifest.
* `EndsWritten`, `ClearsNothing`: each end of a rename shows as a change, unless
  what the rename brings, from where no other rename left it, is the text that
  is staged there; no renamed file ends empty, and no binary is replaced by the
  empty text.
* `straight`, `Untangled` (`HistoryUnwinds`): one command after the other, each
  undo that of the newest session, sessions of different instants; no plan
  edits a file and renames its directory, or renames two directories to one
  name. Outside such a history
  `WritesAreCovered` excepts a file that another process deletes before it is
  saved, and a directory that another one moves away.
* `Settled` (`FileWrite`): no operation moves a symbolic link, or a name of a
  file that has several.
* `others`, `alone` (`FileWrite`): another program does not link or unlink
  between the count of a file's links and the open of its name; no other
  process is at work beside an in-place write, or a move.
* `Closed`, `MakesNoHeading`, `Underlines` (Markdown): no fence is open at the
  end of the text or of what is inserted; what is inserted is no heading, and does
  not begin with an underline, which would make one of the line above it; and no
  insertion lands above an underline.
* `LastLineGoes` (patches): the last line, without newline, is not removed after
  one that stays.
* `LineForLine`, `OldLinesAreUnlike` (merges): hunks change lines in place, and no
  line of the old text is twice in it or among those that the patch puts. The
  second condition is as wide as it is because a hunk looks for its lines in the
  text that the hunks before it have already changed: with `y` put by the first
  hunk where the second has `y` as its old line, and the second one's own place
  drifted, the second is found at the first's.
* `Padded`, `MeetsItself` (documents): indices without leading zeros; an object
  that has containers, and is updated itself, is not met again through one that
  the first update has reached and in which the predicate then finds the selector
  once more. Elements of an array and objects without containers are visited
  once and need no condition.

`Recoverable` and `TakesAllBack` need `EndsSaved` only, `ListedSessionRestores`
needs `DeletesFound` only.

## 4. The proofs

`tlapm` checks every proof to its leaves, for every value of the constants that
the named assumptions allow: `StagingConstants`, `CommitConstants`,
`GateConstants`, `CommandAssumption`, `LifecycleAssumption`, `Distinct` and
`StoreAssumption` (the backup store's plans and trees are plans and trees, its
processes are finitely many, and its files are in directories), `FileAssumption`
and `EntriesAssumption` (names are finitely many, payloads are sequences, and
the names of one file are on one device), `TextsAssumption` (texts are lines and
an end), `ScriptsAssumption` (a diff keeps, removes and adds lines, none of which
is a drift's or a conflict's marker) and `FuzzAssumption`. Each is evaluated by
TLC on the instances.

### A plan

The proofs about plans are four layers, each of which uses the one before.

**`FileTx_proofs`**, first part, is about staging. `StagingTypeCorrect` is type correctness.
`StagingReadsItsWrites` and `StagingAcceptsWhatFilesAllow` hold of operations of
all families. Neither property is inductive: that a deleted path reads as absent
after a later recreation needs to know how `pending`, `deletions`, `existed` and
`soft` stand to the disk, and what the document cache hides needs to be said of
the transaction as it would be after a flush. `FitInv` says both: the flushed
transaction `Fits` the files the plan means, path by path. Of a staged path
(`StagedAt`): its original is the disk's snapshot, unless the path came back
after the plan had forgotten it; it is marked deleted exactly when the plan
means it gone; and its text is the one that is meant, a soft load standing for a
binary. Of any other path (`UnstagedAt`): it is as the disk has it, and in no
other set. Each helper of `StagedTx` gets one lemma that says what it does to one
path and that it leaves the others (`SameBut`); an operation is then one of few
kinds of step (`StepKind`: it changes a text, deletes a path or moves one), and
`Fits` is shown to survive each kind. `drop_rename_chain_ending_at` is a
recursion; that it is well defined, keeps pairs and ends is proved by induction
over the set of numbers that have the property, which the library's theorem for
sets allows where its theorem for predicates is out of the provers' reach.

**`FileTx_proofs`**, second part, is about the originals, for all operations but the
extraction that writes unread. `OriginalsMatchDisk` speaks of the pending paths
only, and a path may leave the pending map (`Forget`) and come back.
`OriginalsInv` adds that `existed_before` has no path that is not there, and
that a deleted or cached path is pending, so that a later write or flush of it
finds the original it must keep. Every write is then of a path that is pending
or not on disk (`Ready`), which each operation owes to its load or to its
existence check.

**`FileTx_proofs`**, between the two, is about the document cache.
`CacheStaysCurrent` (`CacheIsCurrent`) needs no strengthening; what it needs is
that every operation of another kind ends with an empty cache (`FileOpFlushed`,
`PatchOpFlushed`, `TextOpFlushed`), whose first act is the flush, and that a doc
operation caches the text it found pending, or adds one edit to what it had
cached (`DocFresh`). A number of edits is counted up to the number of operations,
which grows with each (`Growing`).

**`PlanTx_proofs`**, first part, is about commit, rollback and undo: `PlansAreRecoverable`,
`PlansAreTakenBackWhole`, `ListedSessionsRestore`, `PlanTypeCorrect`. The first
three do not look into the transaction at all: the inductive invariant `PlanInv`
says nothing of `tx`, and so they hold whatever the operations of staging do to
it. Its parts are: the workspace is untouched until the manifest is listed
(`Untouched`); the session is the manifest of the workspace the commit found
(`SessionOK`); the work left is of paths in the manifest (`WorkOK`,
`EntriesOK`); a path that differs from the workspace found is in the manifest
(`Covered`); and while a restore runs, a path whose entry is done is back
(`Ended`). The commit's loops are shown to be instances of one lemma,
`LoopStepKeeps`: a step that changes only paths of the manifest keeps the
invariant.

**`PlanTx_proofs`**, second part, is about the plan as a whole. `PlansReadTheirWrites`,
`PlansAcceptedAsFilesAllow`, `PlansKeepTheCacheCurrent` and
`PlansKnowTheirOriginals` carry the theorems of staging over to the plan. The
others need two more invariants.

* `StagedInv`, of what staging hands over: it `Fits`, and the recorded renames are
  `Chained`. In a plan that is not tangled they are chains, recorded from first
  link to last (`InOrder`); a chain's first path was on disk; what a chain left
  is staged, where it reached is staged and written; and a binary that is staged
  is where a chain of one link has put a file of the workspace. That a delete
  drops exactly the chain that ends there, and leaves the others chains, is
  `DropChain`. The commit changes none of what `StagedInv` speaks of.
* `CommitInv`, of the three loops, at every step. `LoopsOK`: each loop begins with
  all of what it has to do and after the one before. `PathOK`, of each path: if
  the write loop is done with it, it holds the staged text, or nothing; if the
  unlink loop is, nothing; and if both have yet to come to it or pass it by, it
  is where the renames so far have put it (`MovedOK`): empty if one has left it,
  the file of the workspace that the first link of its chain has brought if one
  has reached it, as the plan found it otherwise.

`CommitsMeanTheirPlans` (`CommitMeansPlan`) puts the two together at the end of
the loops, where every path is deleted (`DeletedMeans`), a change
(`ChangedMeans`) or neither (`UnchangedMeans`); the third is where the skips of
the write loop must have been right, and where `EndsWritten` and `ClearsNothing`
are needed. `AcceptedPlansCommit` reads the same invariants in the middle of the
loops: the source of the next rename is there, what is unlinked is there, what
is created is not (`NotStuck`), the last from `FoundInv`, which carries the
originals past the end of staging. `PlansAreAtomic` is the refinement of
`AtomicPlan`: steps of staging map to `Prepare`, `Open` and `Drop`, a commit's
to `Keep`, `Drop` and `Doubt`, an undo's to `Doubt` and `TakeBack`, all others
to stutters, and what `AtomicPlan` asks of the files at each outcome is
`CommitMeansPlan` or `TakesAllBack`. The invariants were checked by TLC, on
plans of up to five operations, before they were proved; that is how two cases
came out which the conditions of section 3 had to exclude, and which the three
operations of `plan_meaning` do not reach.

### The other components

**`BackupStore_proofs`** - `StoreTypeCorrect`, `ApplyWritesAreCovered`,
`HistoryComesBack`.
`WritesAreCovered` speaks of a process that writes; `StoreInv` says of every
process what it has done so far. An apply works on a session of its own
(`Applies`: the id names the process, and its counter has passed it), whose
entries so far have their blobs (`Saves`), and its manifest is what was saved
(`Writes`); an undo has marked the session it restores (`Restores`), and what a
process removes is marked or expired (`Removes`). Two parts are of pairs:
nobody removes the session of an apply, unless an undo of it has begun
(`Spared`), and a history that is a line is one command at a time (`OneByOne`).
One lemma, `OthersStayFine`, says that a step of one process leaves the parts of
the others alone (`Frame`), so that each action is proved for its own process.

`HistoryUnwinds` is about a chain of sessions and follows from an invariant
about neighbours, `HistoryInv`: as long as the history is a line, no two sessions
have one instant; each was opened on a tree its plan suits (`Begun`); each
that an undo can be asked for holds what takes its plan back from any tree
between the one it was opened on and the one its plan makes (`Holds`, `Between`),
and such a tree is where the next one began or, for the newest, the workspace
(`Tied`); and the process at work works on the newest, and what its restore has
put back stays so (`WorksAs`, `RestoredSoFar`). `Between` is what makes a
restore repeatable and a crash harmless: a write, an unlink and a move, of the
apply or of the restore, each lead from such a tree to another
(`BetweenWritten`, `BetweenUnlinked`, `BetweenMoved`, `BetweenMovedBack`), and
`Restored` leads from every one of them to the tree it began with. That
undoing the sessions since an instant gives the tree of the first of them is
then an induction along the clock, done by the last instant at which it fails
(`WFMin` of the well-founded order on the naturals). `HistoryInv` was checked by TLC first, with plans of
two moves; that is how the second condition of `Plain` came out.

**`McpGate_proofs`** - `TypeCorrect`, `NoLostUpdates`, `GateSerializes`. Neither
`NothingLost` nor the refinement is inductive: that a write, or the undoing of
one, takes a file from `seen` to the right set needs that what the call read is
still there. The invariant `GateInv` adds `Alone` (a write call inside is inside
alone), `HandlersStart` (before it enters, a call has read, written and returned
nothing) and `ReadsLeft` (what a call inside has read is what the calls that have
left put into each file, those that failed half way included). The refinement
maps `Leave` with "ok" to `Succeed`, with "error" to a `Fail` that keeps the writes
that were not taken back, and every other action to a stutter.

**`Lifecycle_proofs`** - `ExitsAreOver`, `TimeoutsKillTheGroup`,
`StrictPlansRevert`, `OutcomesAreTrue`, `LifecycleTypes`, all from one invariant,
`LifeInv`, in three parts. `CommandInv`: once the reader has seen the end of
stderr nobody can open it again, for only a holder's children hold it (of a reader
that was broken off nothing is said, nor does `ExitedIsOver`); a group
that was killed stays dead, for only its members could fork new ones; and the
clock is bounded by where the caller stands. `StepsInv`: a command runs only in
the phase of the steps and while a step is left; what has run so far has passed,
until a required step fails, which is then the last. `DiskInv`: nobody edits
before the first command, so what the snapshot took is what was there before the
commit; and a file that the revert is done with is as it was, or was touched
since. TLC checked `LifeInv` on the instance of `lifecycle` before it was proved.

**`FileWrite_proofs`** - each of the module's properties, from invariants about
who holds which inode. `SecretInv`: a temporary file has no name, is nobody
else's, and holds the payload until it is renamed, so that a name only ever gets
a whole file; what a cross-device copy fills is marked. With `CalmInv` (the
names of a shared file are those it had, and only shared or copied inodes can be
torn) these give `WritesAreAtomic` (`OnlySharedTears`) and `WritesKeepLinks`
(`LinksStayTogether`). `AloneInv` (who works alone does so to the end) and
`OverwriteInv` (the blocks before the next are written) give `PayloadsSurvive`.
`MoveInv`, of the two inodes of a cross-device move until the source is
unlinked, and `OneDevice` (names of one file stay on one device) give the action
property `MovesKeepBytes`. `OneCreates`: a free name
has not been created since (`ExclusiveInv`); links, copies, moves and unlinks of
others only reset the count or leave it.

### Texts

The theorems are of `TextSpec`, which is what the text does in `Edits`: a step of
`Edits` is one of `TextNext` or leaves the text's variables alone.

What a hunk, a fold over hunks or the scan of a text computes is defined by
recursion over the number of a line or a hunk. Each such definition is first
shown to exist (`KeptExists`, `FoldExists`), by induction over the set of numbers
up to which it does (`NumberInduction`), and is then used through its steps
(`LinesButOneMore`, `Through`, `ScanSteps`).

**`TextEdits_proofs`** - `PatchIsRight`, `PatchKeepsTheDrift`, `PatchIsThreeWay`.

* A diff's hunks are runs of a script with context between them (`RunsAreApart`,
  `GapsAreContext`). After k hunks the text is the new text up to the end of run
  k and the old one from there on (`Midway`), so that the offset that the code
  has summed up is where the next hunk's line has gone, and it is found at once
  (`FoundAtOnce`, `HunkInPlace`). The last line's end is followed apart
  (`LastHunkEol`). `PatchInv` says that the file is the old text until it drifts;
  with `DiffGivesNewText` that is `PatchGivesNewText`.
* `DriftInv` counts: the lines of the file that no diff has are as many as have
  drifted. A hunk is only spliced in where its old lines are, none of which is
  another's; a merge puts in what stood there, its own lines, or both
  (`MergeCounts`, for both ways of merging); so a fold of either kind keeps the
  count whatever it finds and wherever (`FoldKeeps`).
* `PatchIsThreeWay` needs to know where. The drifted file is the old text of a
  script of its own (`Drifted`), which has the kinds of the first and the same
  lines but for those that drifted (`Reads`), and is cut into hunks alike. As the
  old lines are unlike all others, a hunk, or its context before or after the
  change, is found in its place or nowhere, in the halfway text too
  (`HunkIsPlaced`, `FoundInPlace`, `LocatedInPlace`). There it is merged line by
  line; without a conflict the result is the new text of the drifted script
  (`MergesLineByLine`, `MergedBody`), and a hunk that applies gives the same
  (`SameOldSameNew`). Then the fold gives the new text of the whole drifted
  script (`FoldFollows`), which is the three-way merge (`ThreeWayReads`). A proof
  attempt with the weaker condition that no line is twice in the old text failed
  at the second hunk, and TLC found the counterexample of section 3.

**`MdEdits_proofs`** - `EditsAreSettled`, `EditsAreTyped`. A heading is visible by
what stands before it, so a change below it leaves it what it is
(`ScanOfPrefix`, `HeadLineFacts`). A bullet that was put at the end of the own
lines of a heading is among its own lines afterwards, fences, blank lines and an
unended last line included (`UpsertPuts`, `UpsertSettles`). What a dedupe leaves
is read again as the headings that stayed: every gap that it made ends at a
heading or at the end of the text, and the scan is in the same state on both
sides (`GapsAreHeadings`, `DedupeReads`, `DedupeKeepsHeadings`), so nothing is
there twice (`NothingAgain`). `EditsTypeOK` follows from `MdInv` and `FileInv`, by
one lemma for each edit and one for a hunk: a text without lines ends.

### Only model-checked

* The liveness properties `CommitSettles`, `ComesToAnOutcome` and `CallsReturn`:
  the prover has no rule for fairness.
* `EditsMeanOutline`, the action property that relates eight edits to eight
  meanings on the outline. It is within reach of the prover and not proved: it
  needs, for each edit, that the parts of a text that was cut and joined are the
  parts of its pieces, glued. Neither half of its condition on what
  is inserted can be dropped: TLC refutes the property with a payload that leaves
  a fence open (which hides what is behind it) and with one that begins with an
  underline. A payload of fenced lines, one of which would be a heading outside
  the fence, is in the instance.
* `DocEditsMeanWhatTheySay`, `EditsReadBack` and `ArraysKeepOrder`: documents are
  trees, and what `DocEdits` computes of them is `RECURSIVE`.

## 5. Where the code and its own words differ

Each is a run that TLC finds violated, with the quotation in `PROJECT.json`.

1. `claim_force_overwrites`: `ast.extract_to_file` with `force`, onto a file that
   exists, is accepted and then rolled back: the target was never loaded, and is
   written with create-new.
2. `claim_bytes_kept`: a binary renamed with force over a text and renamed again
   is overwritten with the empty text.
3. `claim_tree_undo`: a plan that edits a file and renames its directory is
   undone, and the files do not come back to where they were.
4. `claim_stale_merge`: a stale hunk that removes one line and adds another
   elsewhere is merged by line number, without a conflict, to a text that is
   not the three-way merge.
5. `claim_move_spelling`: `doc.move` with an index spelt `00` doubles the value
   and loses another.

The conditions of section 3 exclude further cases in which the outcome differs
from what was meant.

*Of plans:*

* `rename b to a; rename c to b` is accepted and then rolled back
  (`tangled`): the write loop treats b as a source that was recreated by text and
  writes it with create-new, but the rename loop has just put c there.
* After two renames to one path, deleting it drops one of them, and the other
  brings a file back.
* The middle of a chain of renames is in no manifest; a failure between the two
  renames leaves it on disk after a rollback that reports success.
* Document operations edit a path-only soft load as if it were an empty
  document; and documents, replace, md, tidy and ast operations edit a text that
  Begin Patch has deleted, which brings it back.
* `rename a to b; create a` with a's original text: a is not a change, and is
  missing after the commit.
* A file renamed through a fresh name and then emptied keeps its text.
* Two directories of one plan may be renamed to one name, for each is checked
  against the disk alone (`tx/execute/file_ops.rs:249`). If the first is empty
  the commit goes through, and undo brings one of them back (`backup.rs:1107`).
* `create c` with the empty text, forced over a binary: nothing happens.
* b edited to hold c's text, then renamed onto c with force: the edit is lost.
  So it is when the file that is edited and renamed onto c had been renamed to b
  before, b having held c's text.
* A deleted path deleted again after it was in the middle of a chain, or `rename b to
  a; rename c (binary) to b; delete a`: the dropped pair was all that moved the
  binary's bytes.
* Begin Patch Delete or Move of a file the plan made: its manifest entry has no
  blob, so that a rollback or an undo of the plan is refused as incomplete.
* A literal replacement with a `$`, anchored by context, is escaped for one path
  (`tx/replace_op.rs:348`) and not for a glob (`tx/replace_op.rs:739`).

*Of edits:*

* The last line, without a newline, is removed after one that is kept: the
  patched file lacks that one's newline (`ops/patch.rs:928`).
* `doc.update` is to set a value "at every location matching a selector"
  (`PATCHLOOM.md:574`). Through a predicate that holds of an object with containers it
  sets the value and then goes through the containers, in which the predicate may
  find what it has just put in and set it there a second time
  (`ops/doc/navigate.rs:954`).
* `insert_after_heading` above a line of dashes turns what it inserts into a
  heading (`ops/md.rs:667`).

*Of files:* between the count of a file's links and the open of its name another
program can put a file there (`write.rs:1219`); two in-place writers of one inode
mix their blocks (`write.rs:1228`); two processes that move one name across
devices can each take the other's copy for the failed one (`ops/file.rs:720`).

## 6. Not modelled, and the plan

Not modelled for good, because they are functions of unbounded text with no
state and their tests are tables of texts: the parsers and serializers of JSON,
YAML and TOML, AST queries and the edits that rest on a grammar (among them
`ast.split` and the rewriting of imports), notebooks, lint, fuzzy matching and
how a replace matches; the command line and output; path containment and file
walking, which refuse before anything happens. They make up most of the crate's
lines.

Abstracted inside the modelled parts: special nodes and permissions; nested
backup roots; directory renames inside `PlanTx` (they are in `BackupStore`); the
write policy of line ends and whitespace, but for the final newline; Windows.
`TxCommit` takes a write, a copy of a blob and the writing of the manifest as
one step each: `FileWrite` is what a write step consists of, and `BackupStore`
what the store does between them.

Next, in this order:

1. Directory renames and `expected_sha256` in `FileTx`, with an environment that
   edits files between staging and commit; unified diffs as they are staged.
2. Proofs: `EditsMeanOutline`, by induction over the lines that `PartsOf` reads
   (the outline of a text is that of its pieces, the last part of one glued to the
   first of the next).
3. The commit of `TxLifecycle` as `TxCommit`'s, so that a strict revert meets a
   session that a fault has cut short.
