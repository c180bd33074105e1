------------------------- MODULE BackupStore_proofs -------------------------
(***************************************************************************)
(* For any number of processes that apply, undo, prune and die over one    *)
(* store: the store keeps its types; before anything of the workspace is   *)
(* written, deleted or moved, the session of the apply that does so holds  *)
(* what takes it back; and a history that is a line is undone session by   *)
(* session, back to the tree the oldest of them was opened on.             *)
(***************************************************************************)
EXTENDS BackupUnwind, WellFoundedInduction, TLAPS

(* What a process is doing, a session on disk, and what is known of it.    *)
Work == [pc : Phases, id : SessionId \cup {None}, plan : Plans \cup {None},
         entries : Entries, left : SUBSET Path, moves : SUBSET (Dir \X Dir),
         had : SUBSET Path, wrote : SUBSET Path, undo : BOOLEAN,
         only : Path \cup {None}, doomed : SUBSET SessionId]

Session == [blobs : PartialFns(Path, Content), manifest : Entries \cup {None},
            mtime : 0..MaxTime]

Opened == [plan : Plans, from : Tree, undone : BOOLEAN]

(* A file is in a directory that exists.                                   *)
Placed(t) == \A p \in Path : Exists(t, p) => p[1] \in t.dirs \cup {Root}

StoreTypes ==
  /\ DOMAIN store \subseteq DOMAIN opened
  /\ store \in [DOMAIN store -> Session]
  /\ \A i \in DOMAIN store : store[i].mtime \in i.at..now

OpenedTypes ==
  /\ DOMAIN opened \subseteq SessionId
  /\ opened \in [DOMAIN opened -> Opened]
  /\ count \in [Proc -> Nat]
  /\ \A i \in DOMAIN opened : i.seq < count[i.by]

TypeInv ==
  /\ tree \in Tree /\ Placed(tree)
  /\ StoreTypes /\ OpenedTypes
  /\ proc \in [Proc -> Work]
  /\ now \in 0..MaxTime /\ faults \in 0..MaxFaults
  /\ straight \in BOOLEAN

(* The original of a path is in the session, or there was none.            *)
HasBlob(self, p) ==
  \/ p \in DOMAIN store[proc[self].id].blobs
  \/ proc[self].entries.files[p] = "created"
  \/ proc[self].entries.files[p] = "deleted" /\ ~straight

InApply(self) == proc[self].pc \in {"pruning", "saving", "writing"}

(* Of one process.  An apply works on a session of its own; until its      *)
(* manifest is written, nobody undoes it, and if nobody works beside it    *)
(* the workspace is as staging found it.                                   *)
Applies(self) ==
  InApply(self) =>
    LET me == proc[self]
    IN  /\ me.id \in DOMAIN opened /\ me.id.by = self
        /\ me.plan \in Plans /\ ~me.undo /\ me.only = None
        /\ me.left \subseteq DOMAIN me.plan.changes

Restores(self) ==
  proc[self].pc \in {"checking", "restoring"} =>
    /\ proc[self].id \in DOMAIN opened
    /\ proc[self].undo => opened[proc[self].id].undone

Removes(self) ==
  /\ proc[self].doomed \subseteq DOMAIN opened
  /\ proc[self].doomed # {} => proc[self].pc \in {"pruning", "removing"}

Saves(self) ==
  LET me == proc[self]
  IN  /\ me.pc \in {"pruning", "saving"} =>
           /\ me.id \in DOMAIN store /\ store[me.id].manifest = None
           /\ ~opened[me.id].undone
           /\ DOMAIN me.entries.files = DOMAIN me.plan.changes \ me.left
           /\ \A p \in DOMAIN me.entries.files : HasBlob(self, p)
           /\ straight => /\ \A p \in me.left : me.plan.changes[p] # tree.files[p]
                          /\ \A m \in me.moves : m[1] \in tree.dirs
      /\ me.pc = "pruning" => me.left = DOMAIN me.plan.changes

Writes(self) ==
  LET me == proc[self]
  IN  me.pc = "writing" /\ ~opened[me.id].undone =>
        /\ me.id \in DOMAIN store /\ store[me.id].manifest = me.entries
        /\ DOMAIN me.entries.files = DOMAIN me.plan.changes
        /\ straight => me.moves \subseteq me.entries.moves \cup (Dir \X me.entries.marks)
        /\ \A p \in me.left : HasBlob(self, p)

Fine(self) ==
  Applies(self) /\ Restores(self) /\ Removes(self) /\ Saves(self) /\ Writes(self)

(* Of two.  Nobody removes the session of an apply, but who undoes it; and *)
(* a history that is a line is one command at a time.                      *)
Spared ==
  \A q, self \in Proc :
    InApply(self) /\ ~opened[proc[self].id].undone => proc[self].id \notin proc[q].doomed

OneByOne ==
  straight => \A q, r \in Proc : q # r => proc[q].pc = "idle" \/ proc[r].pc = "idle"

StoreInv == TypeInv /\ (\A self \in Proc : Fine(self)) /\ Spared /\ OneByOne

-----------------------------------------------------------------------------
(* Partial functions, and one more entry.                                  *)
LEMMA PartialFnsDef ==
  ASSUME NEW S, NEW T, NEW f
  PROVE  f \in PartialFns(S, T) <=> /\ DOMAIN f \subseteq S
                                    /\ f \in [DOMAIN f -> T]
<1>1. ASSUME f \in PartialFns(S, T) PROVE DOMAIN f \subseteq S /\ f \in [DOMAIN f -> T]
  <2>1. PICK R \in SUBSET S : f \in [R -> T]
    BY <1>1 DEF PartialFns
  <2>2. QED
    BY <2>1
<1>2. ASSUME DOMAIN f \subseteq S, f \in [DOMAIN f -> T] PROVE f \in PartialFns(S, T)
  BY <1>2 DEF PartialFns
<1>3. QED
  BY <1>1, <1>2

LEMMA WithEntryIs ==
  ASSUME NEW f, NEW x, NEW v
  PROVE  /\ DOMAIN WithEntry(f, x, v) = DOMAIN f \cup {x}
         /\ WithEntry(f, x, v)[x] = v
         /\ \A y \in DOMAIN f \ {x} : WithEntry(f, x, v)[y] = f[y]
         /\ \A T : f \in [DOMAIN f -> T] /\ v \in T =>
              WithEntry(f, x, v) \in [DOMAIN f \cup {x} -> T]
BY DEF WithEntry

LEMMA WithEntryKeeps ==
  ASSUME NEW S, NEW T, NEW f \in PartialFns(S, T), NEW x \in S, NEW v \in T
  PROVE  WithEntry(f, x, v) \in PartialFns(S, T)
<1>1. DOMAIN f \subseteq S /\ f \in [DOMAIN f -> T]
  BY PartialFnsDef
<1>2. /\ DOMAIN WithEntry(f, x, v) = DOMAIN f \cup {x}
      /\ WithEntry(f, x, v) \in [DOMAIN f \cup {x} -> T]
  BY <1>1, WithEntryIs
<1>3. QED
  BY <1>1, <1>2, PartialFnsDef

LEMMA EmptyFn == \A S, T : << >> \in PartialFns(S, T) /\ DOMAIN << >> = {}
<1>1. DOMAIN << >> = {}
  OBVIOUS
<1>2. \A T : << >> \in [{} -> T]
  OBVIOUS
<1>3. QED
  BY <1>1, <1>2, PartialFnsDef

LEMMA Choices == ASSUME NEW S, S # {} PROVE First(S) \in S
BY DEF First

LEMMA PathType == ASSUME NEW p \in Path PROVE p[1] \in Dir \cup {Root} /\ p = <<p[1], p[2]>> /\ p[2] \in Name
BY DEF Path

-----------------------------------------------------------------------------
(* Calls on the workspace keep it one.                                     *)
LEMMA WrittenTree ==
  ASSUME NEW t \in Tree, Placed(t), NEW p \in Path, NEW c \in Content
  PROVE  Written(t, p, c) \in Tree /\ Placed(Written(t, p, c))
<1>1. p[1] \in Dir \cup {Root}
  BY DEF Path
<1>2. Written(t, p, c) \in Tree
  BY <1>1 DEF Written, Tree
<1>3. Placed(Written(t, p, c))
  BY <1>1 DEF Written, Placed, Exists, Tree
<1>4. QED
  BY <1>2, <1>3

LEMMA UnlinkedTree ==
  ASSUME NEW t \in Tree, Placed(t), NEW p \in Path
  PROVE  Unlinked(t, p) \in Tree /\ Placed(Unlinked(t, p))
BY DEF Unlinked, Placed, Exists, Tree

LEMMA MovedTree ==
  ASSUME NEW t \in Tree, Placed(t), NEW a \in t.dirs, NEW b \in Dir
  PROVE  MovedDir(t, a, b) \in Tree /\ Placed(MovedDir(t, a, b))
<1> DEFINE u == MovedDir(t, a, b)
<1>1. \A p \in Path : p[1] = b => <<a, p[2]>> \in Path
  BY DEF Path, Tree
<1>2. u \in Tree
  BY <1>1 DEF MovedDir, Tree
<1>3. ASSUME NEW p \in Path, u.files[p] # None PROVE p[1] \in u.dirs \cup {Root}
  <2>1. u.dirs = (t.dirs \ {a}) \cup {b}
    BY DEF MovedDir
  <2>2. u.files[p] = IF p[1] = b THEN t.files[<<a, p[2]>>]
                     ELSE IF p[1] = a THEN None ELSE t.files[p]
    BY DEF MovedDir
  <2>3. CASE p[1] = b
    BY <2>1, <2>3
  <2>4. CASE p[1] # b
    <3>1. p[1] # a /\ t.files[p] # None
      BY <1>3, <2>2, <2>4
    <3>2. QED
      BY <2>1, <3>1 DEF Placed, Exists
  <2>5. QED
    BY <2>3, <2>4
<1>4. QED
  BY <1>2, <1>3 DEF Placed, Exists

LEMMA TidiedTree ==
  ASSUME NEW t \in Tree, Placed(t), NEW S
  PROVE  LET u == [t EXCEPT !.dirs = @ \ {d \in S : IsEmptyDir(t, d)}]
         IN  u \in Tree /\ Placed(u)
<1> DEFINE u == [t EXCEPT !.dirs = @ \ {d \in S : IsEmptyDir(t, d)}]
<1>1. u \in Tree /\ u.files = t.files /\ u.dirs = t.dirs \ {d \in S : IsEmptyDir(t, d)}
  BY DEF Tree
<1>2. ASSUME NEW p \in Path, Exists(t, p) PROVE ~IsEmptyDir(t, p[1])
  BY <1>2, PathType DEF IsEmptyDir
<1>3. QED
  BY <1>1, <1>2 DEF Placed, Exists

-----------------------------------------------------------------------------
(* What a step of one process owes to the others.                          *)
Kept(q) ==
  LET i == proc[q].id
  IN  InApply(q) /\ ~opened[i].undone /\ i \in DOMAIN store =>
        i \in DOMAIN store' /\ store'[i] = store[i]

Frame(self) ==
  /\ \A q \in Proc \ {self} : proc'[q] = proc[q] /\ Kept(q)
  /\ DOMAIN opened \subseteq DOMAIN opened'
  /\ \A i \in DOMAIN opened :
       /\ opened[i].undone => opened'[i].undone
       /\ opened'[i].undone => opened[i].undone \/ i \in Listed
  /\ straight' => straight /\ \A q \in Proc \ {self} : proc[q].pc = "idle"

LEMMA OthersStayFine ==
  ASSUME StoreInv, NEW self \in Proc, Frame(self), NEW q \in Proc \ {self}
  PROVE  Fine(q)'
<1> DEFINE me == proc[q]
           i == proc[q].id
<1>1. /\ proc'[q] = me /\ Kept(q) /\ Fine(q)
      /\ DOMAIN opened \subseteq DOMAIN opened'
      /\ \A j \in DOMAIN opened :
           /\ opened[j].undone => opened'[j].undone
           /\ opened'[j].undone => opened[j].undone \/ j \in Listed
      /\ straight' => straight /\ me.pc = "idle"
  BY DEF Frame, StoreInv
<1>2. Applies(q)' /\ Restores(q)' /\ Removes(q)'
  BY <1>1 DEF Fine, Applies, Restores, Removes, InApply
<1>3. Saves(q)'
  <2>1. ASSUME me.pc \in {"pruning", "saving"}
        PROVE  /\ i \in DOMAIN store' /\ store'[i] = store[i]
               /\ ~opened'[i].undone /\ ~straight'
    <3>1. i \in DOMAIN store /\ store[i].manifest = None /\ ~opened[i].undone /\ i \in DOMAIN opened
      BY <1>1, <2>1 DEF Fine, Saves, Applies, InApply
    <3>2. QED
      BY <1>1, <2>1, <3>1 DEF Kept, Listed, InApply
  <2>2. QED
    BY <1>1, <2>1 DEF Fine, Saves, HasBlob
<1>4. Writes(q)'
  <2>1. ASSUME me.pc = "writing", ~opened'[i].undone
        PROVE  /\ i \in DOMAIN store' /\ store'[i] = store[i]
               /\ ~opened[i].undone /\ ~straight'
    <3>1. i \in DOMAIN opened /\ ~opened[i].undone
      BY <1>1, <2>1 DEF Fine, Applies, InApply
    <3>2. i \in DOMAIN store
      BY <1>1, <2>1, <3>1 DEF Fine, Writes
    <3>3. QED
      BY <1>1, <2>1, <3>1, <3>2 DEF Kept, InApply
  <2>2. QED
    BY <1>1, <2>1 DEF Fine, Writes, HasBlob
<1>5. QED
  BY <1>2, <1>3, <1>4 DEF Fine

LEMMA OneByOneKept ==
  ASSUME OneByOne, NEW self \in Proc, Frame(self)
  PROVE  OneByOne'
BY DEF OneByOne, Frame

(* Any step but the first of an apply.                                     *)
LEMMA StepKeeps ==
  ASSUME StoreInv, NEW self \in Proc, Frame(self), TypeInv', Fine(self)',
         \A i \in proc'[self].doomed : i \in proc[self].doomed \/ opened'[i].undone,
         InApply(self)' => InApply(self) /\ proc'[self].id = proc[self].id
  PROVE  StoreInv'
<1>1. \A q \in Proc : Fine(q)'
  BY OthersStayFine
<1>2. OneByOne'
  BY OneByOneKept DEF StoreInv
<1>3. Spared'
  <2> SUFFICES ASSUME NEW q \in Proc, NEW s \in Proc, InApply(s)', ~opened'[proc'[s].id].undone
               PROVE  proc'[s].id \notin proc'[q].doomed
    BY DEF Spared
  <2>1. InApply(s) /\ proc'[s].id = proc[s].id
    BY DEF Frame, InApply
  <2>2. proc[s].id \in DOMAIN opened /\ ~opened[proc[s].id].undone
    BY <2>1 DEF StoreInv, Fine, Applies, Frame
  <2>3. proc[s].id \notin proc[q].doomed
    BY <2>1, <2>2 DEF StoreInv, Spared
  <2>4. CASE q = self
    BY <2>1, <2>3, <2>4
  <2>5. CASE q # self
    BY <2>1, <2>3, <2>5 DEF Frame
  <2>6. QED
    BY <2>4, <2>5
<1>4. QED
  BY <1>1, <1>2, <1>3 DEF StoreInv

(* A process at work turns to r, and no session of another apply changes.  *)
LEMMA FrameOf ==
  ASSUME StoreInv, NEW self \in Proc, proc[self].pc # "idle", NEW r, Become(self, r),
         UNCHANGED opened, straight' => straight,
         \A q \in Proc \ {self} : Kept(q)
  PROVE  Frame(self) /\ proc'[self] = r
BY DEF StoreInv, TypeInv, OneByOne, Frame, Become

LEMMA SameStoreKept == UNCHANGED store => \A q \in Proc : Kept(q)
BY DEF Kept

-----------------------------------------------------------------------------
(* Steps that change what one process does, and perhaps the workspace.     *)
LEMMA ProcStepKeeps ==
  ASSUME StoreInv, NEW self \in Proc, proc[self].pc # "idle",
         NEW r \in Work, Become(self, r), UNCHANGED <<store, count, now, opened>>,
         tree' \in Tree, Placed(tree'), faults' \in 0..MaxFaults,
         straight' \in BOOLEAN, straight' => straight, Fine(self)',
         \A i \in r.doomed : i \in proc[self].doomed \/ opened[i].undone,
         r.pc \in {"pruning", "saving", "writing"} => InApply(self) /\ r.id = proc[self].id
  PROVE  StoreInv'
<1>1. Frame(self) /\ proc'[self] = r
  BY FrameOf, SameStoreKept
<1>2. TypeInv'
  <2>1. proc' \in [Proc -> Work]
    BY DEF Become, StoreInv, TypeInv
  <2>2. StoreTypes' /\ OpenedTypes'
    BY DEF StoreInv, TypeInv, StoreTypes, OpenedTypes
  <2>3. QED
    BY <2>1, <2>2 DEF StoreInv, TypeInv
<1>3. QED
  BY <1>1, <1>2, StepKeeps DEF InApply

LEMMA IdleWorks == Idle \in Work /\ Idle.pc = "idle" /\ Idle.doomed = {}
<1>1. NoEntries \in Entries
  BY EmptyFn DEF NoEntries, Entries
<1>2. QED
  BY <1>1 DEF Idle, Work, Phases

LEMMA IdleIsFine == ASSUME NEW self, proc'[self].pc = "idle", proc'[self].doomed = {}
                    PROVE  Fine(self)'
BY DEF Fine, Applies, Restores, Removes, Saves, Writes, InApply

LEMMA GoesIdle ==
  ASSUME StoreInv, NEW self \in Proc, proc[self].pc # "idle",
         Become(self, Idle), UNCHANGED <<store, count, now, opened>>,
         tree' \in Tree, Placed(tree'), faults' \in 0..MaxFaults,
         straight' \in BOOLEAN, straight' => straight
  PROVE  StoreInv'
<1>1. proc'[self] = Idle
  BY DEF Become, StoreInv, TypeInv
<1>2. Fine(self)'
  BY <1>1, IdleIsFine, IdleWorks
<1>3. QED
  BY <1>2, IdleWorks, ProcStepKeeps

(* A failure leaves the apply for the restore of its session.              *)
LEMMA FailedWriteKeeps ==
  ASSUME StoreInv, NEW self \in Proc, proc[self].pc = "writing", FailedWrite(self),
         faults' \in 0..MaxFaults
  PROVE  StoreInv'
<1> DEFINE me == proc[self]
           r == StartRestore(me, NoEntries)
<1>1. me \in Work /\ NoEntries \in Entries
  BY IdleWorks DEF StoreInv, TypeInv, Idle, Work
<1>2. /\ r \in Work /\ r.pc = "checking" /\ r.doomed = me.doomed /\ r.id = me.id
      /\ r.undo = me.undo
  BY <1>1 DEF StartRestore, Work, Phases
<1>3. Become(self, r) /\ UNCHANGED <<tree, store, count, now, opened, straight>>
  BY DEF FailedWrite
<1>4. proc'[self] = r
  BY <1>3 DEF Become, StoreInv, TypeInv
<1>5. Fine(self)'
  <2>1. me.id \in DOMAIN opened /\ ~me.undo /\ me.doomed = {}
    BY DEF StoreInv, Fine, Applies, Removes, InApply
  <2>2. QED
    BY <1>2, <1>3, <1>4, <2>1 DEF Fine, Applies, Restores, Removes, Saves, Writes, InApply
<1>6. QED
  BY <1>2, <1>3, <1>5, ProcStepKeeps DEF StoreInv, TypeInv

(* What a process at work may rely on.                                     *)
LEMMA AtWork ==
  ASSUME StoreInv, NEW self \in Proc
  PROVE  /\ proc[self] \in Work /\ Fine(self)
         /\ tree \in Tree /\ Placed(tree)
         /\ faults \in 0..MaxFaults /\ MaxFaults \in Nat
         /\ straight \in BOOLEAN
BY Distinct DEF StoreInv, TypeInv

LEMMA EndRemovalKeeps == ASSUME StoreInv, NEW self \in Proc, EndRemoval(self) PROVE StoreInv'
<1> DEFINE me == proc[self]
           r == [me EXCEPT !.pc = "saving", !.doomed = {}]
<1>1. me \in Work /\ Fine(self)
  BY AtWork
<1>2. UNCHANGED <<tree, store, count, now, faults, opened, straight>>
  BY DEF EndRemoval
<1>3. CASE me.pc = "removing"
  <2>1. Become(self, Idle)
    BY <1>3 DEF EndRemoval
  <2>2. QED
    BY <1>2, <1>3, <2>1, GoesIdle, AtWork
<1>4. CASE me.pc = "pruning"
  <2>1. Become(self, r)
    BY <1>4 DEF EndRemoval
  <2>2. r \in Work /\ r = [me EXCEPT !.pc = "saving", !.doomed = {}]
    BY <1>1 DEF Work, Phases
  <2>3. proc'[self] = r
    BY <2>1 DEF Become, StoreInv, TypeInv
  <2>4. Fine(self)'
    BY <1>1, <1>2, <1>4, <2>2, <2>3
    DEF Fine, Applies, Restores, Removes, Saves, Writes, InApply, HasBlob, Work
  <2>5. r.doomed = {} /\ r.id = me.id
    BY <1>1 DEF Work
  <2> HIDE DEF r
  <2>6. QED
    BY <1>2, <1>4, <2>1, <2>2, <2>4, <2>5, ProcStepKeeps, AtWork DEF InApply
<1>5. QED
  BY <1>3, <1>4 DEF EndRemoval

-----------------------------------------------------------------------------
(* The end of an apply or of a restore, and a death.                       *)
LEMMA EndingsKeep ==
  ASSUME StoreInv, NEW self \in Proc, EndApply(self) \/ RestoreFails(self) \/ Crash(self)
  PROVE  StoreInv'
<1>1. /\ proc[self].pc # "idle" /\ Become(self, Idle)
      /\ UNCHANGED <<tree, store, count, now, opened>>
      /\ faults' \in {faults} \/ (faults < MaxFaults /\ faults' = faults + 1)
      /\ straight' = straight \/ straight' = (straight /\ proc[self].doomed \cap DOMAIN store = {})
  BY Zenon DEF EndApply, RestoreFails, Crash
<1>2. faults' \in 0..MaxFaults
  BY <1>1, AtWork
<1>3. straight' \in BOOLEAN /\ (straight' => straight)
  <2>1. straight \in BOOLEAN
    BY AtWork
  <2>2. CASE straight' = straight
    BY <2>1, <2>2
  <2>3. CASE straight' = (straight /\ proc[self].doomed \cap DOMAIN store = {})
    BY Zenon, <2>1, <2>3
  <2>4. QED
    BY <1>1, <2>2, <2>3
<1>4. QED
  BY <1>1, <1>2, <1>3, AtWork, GoesIdle

(* Steps of the writes.                                                    *)
LEMMA WritesOn ==
  ASSUME StoreInv, NEW self \in Proc, proc[self].pc = "writing",
         NEW r \in Work, Become(self, r),
         r.pc = "writing", r.id = proc[self].id, r.plan = proc[self].plan,
         r.undo = proc[self].undo, r.only = proc[self].only, r.doomed = proc[self].doomed,
         r.entries = proc[self].entries,
         r.left \subseteq proc[self].left, r.moves \subseteq proc[self].moves,
         UNCHANGED <<store, count, now, opened, faults, straight>>,
         tree' \in Tree, Placed(tree')
  PROVE  StoreInv'
<1>1. proc'[self] = r
  BY DEF Become, StoreInv, TypeInv
<1>2. Fine(self)'
  BY <1>1, AtWork DEF Fine, Applies, Restores, Removes, Saves, Writes, InApply, HasBlob
<1>3. QED
  BY <1>2, AtWork, ProcStepKeeps DEF InApply

LEMMA MoveDirsKeeps == ASSUME StoreInv, NEW self \in Proc, MoveDirs(self) PROVE StoreInv'
<1> DEFINE me == proc[self]
<1>1. me.pc = "writing" /\ me \in Work
  BY AtWork DEF MoveDirs
<1>2. PICK m \in me.moves :
        \/ /\ CanMove(tree, m[1], m[2])
           /\ tree' = MovedDir(tree, m[1], m[2])
           /\ Become(self, [me EXCEPT !.moves = @ \ {m}])
           /\ UNCHANGED <<store, count, now, faults, opened, straight>>
        \/ ~CanMove(tree, m[1], m[2]) /\ FailedWrite(self) /\ UNCHANGED faults
  BY Zenon DEF MoveDirs
<1>3. CASE FailedWrite(self) /\ UNCHANGED faults
  BY <1>1, <1>3, FailedWriteKeeps, AtWork
<1>4. CASE /\ CanMove(tree, m[1], m[2])
           /\ tree' = MovedDir(tree, m[1], m[2])
           /\ Become(self, [me EXCEPT !.moves = @ \ {m}])
           /\ UNCHANGED <<store, count, now, faults, opened, straight>>
  <2> DEFINE r == [me EXCEPT !.moves = @ \ {m}]
  <2>1. tree' \in Tree /\ Placed(tree')
    <3>1. m[1] \in tree.dirs /\ m[2] \in Dir
      BY <1>1, <1>4 DEF CanMove, Work
    <3>2. QED
      BY <1>4, <3>1, MovedTree, AtWork
  <2>2. /\ r \in Work /\ r.pc = me.pc /\ r.id = me.id /\ r.plan = me.plan /\ r.undo = me.undo
        /\ r.only = me.only /\ r.doomed = me.doomed /\ r.entries = me.entries
        /\ r.left = me.left /\ r.moves \subseteq me.moves
    BY <1>1 DEF Work
  <2>3. Become(self, r) /\ UNCHANGED <<store, count, now, opened, faults, straight>>
    BY <1>4
  <2> HIDE DEF r
  <2>4. QED
    BY <1>1, <2>1, <2>2, <2>3, WritesOn
<1>5. QED
  BY <1>2, <1>3, <1>4

LEMMA WriteOneKeeps == ASSUME StoreInv, NEW self \in Proc, WriteOne(self) PROVE StoreInv'
<1> DEFINE me == proc[self]
           p == First(me.left)
           c == me.plan.changes[p]
           r == [me EXCEPT !.left = @ \ {p}, !.wrote = @ \cup {p}]
<1>1. me.pc = "writing" /\ me.left # {} /\ me \in Work
  BY AtWork DEF WriteOne
<1>2. \/ /\ tree' = IF c = None THEN Unlinked(tree, p) ELSE Written(tree, p, c)
         /\ Become(self, r)
         /\ UNCHANGED <<store, count, now, faults, opened, straight>>
      \/ FailedWrite(self) /\ UNCHANGED faults
  BY Zenon DEF WriteOne
<1>3. CASE FailedWrite(self) /\ UNCHANGED faults
  BY <1>1, <1>3, FailedWriteKeeps, AtWork
<1>4. CASE /\ tree' = IF c = None THEN Unlinked(tree, p) ELSE Written(tree, p, c)
           /\ Become(self, r)
           /\ UNCHANGED <<store, count, now, faults, opened, straight>>
  <2>1. p \in me.left /\ p \in Path
    BY <1>1, Choices DEF Work
  <2>2. c \in Content \cup {None}
    <3>1. me.plan \in Plan /\ p \in DOMAIN me.plan.changes
      BY <1>1, <2>1, AtWork, StoreAssumption DEF Fine, Applies, InApply
    <3>2. QED
      BY <3>1, PartialFnsDef DEF Plan
  <2>3. tree' \in Tree /\ Placed(tree')
    BY <1>4, <2>1, <2>2, AtWork, WrittenTree, UnlinkedTree
  <2>4. /\ r \in Work /\ r.pc = me.pc /\ r.id = me.id /\ r.plan = me.plan /\ r.undo = me.undo
        /\ r.only = me.only /\ r.doomed = me.doomed /\ r.entries = me.entries
        /\ r.left \subseteq me.left /\ r.moves = me.moves
    BY <1>1, <2>1 DEF Work
  <2>5. Become(self, r) /\ UNCHANGED <<store, count, now, opened, faults, straight>>
    BY <1>4
  <2> HIDE DEF r
  <2>6. QED
    BY <1>1, <2>3, <2>4, <2>5, WritesOn
<1>5. QED
  BY <1>2, <1>3, <1>4

LEMMA WriteFailsKeeps == ASSUME StoreInv, NEW self \in Proc, WriteFails(self) PROVE StoreInv'
<1>1. /\ proc[self].pc = "writing" /\ FailedWrite(self)
      /\ faults < MaxFaults /\ faults' = faults + 1
  BY Zenon DEF WriteFails
<1>2. QED
  BY <1>1, AtWork, FailedWriteKeeps

-----------------------------------------------------------------------------
(* Steps of a restore.                                                     *)
LEMMA RestoresOn ==
  ASSUME StoreInv, NEW self \in Proc, proc[self].pc \in {"checking", "restoring"},
         NEW r \in Work, Become(self, r),
         r.pc = "restoring", r.id = proc[self].id, r.undo = proc[self].undo,
         r.doomed = proc[self].doomed,
         UNCHANGED <<store, count, now, opened, faults, straight>>,
         tree' \in Tree, Placed(tree')
  PROVE  StoreInv'
<1>1. proc'[self] = r
  BY DEF Become, StoreInv, TypeInv
<1>2. Fine(self)'
  BY <1>1, AtWork DEF Fine, Applies, Restores, Removes, Saves, Writes, InApply
<1>3. QED
  BY <1>2, AtWork, ProcStepKeeps

Checked(me, m, left, moves) ==
  [me EXCEPT !.pc = "restoring", !.entries = m, !.left = left, !.moves = moves]

LEMMA CheckedIs ==
  ASSUME NEW me \in Work, NEW m, NEW left, NEW moves, NEW r, r = Checked(me, m, left, moves)
  PROVE  /\ r.pc = "restoring" /\ r.entries = m /\ r.left = left /\ r.moves = moves
         /\ r.id = me.id /\ r.undo = me.undo /\ r.only = me.only /\ r.doomed = me.doomed
         /\ m \in Entries /\ left \in SUBSET Path /\ moves \in SUBSET (Dir \X Dir) => r \in Work
BY DEF Work, Phases, Checked

LEMMA CheckKeeps == ASSUME StoreInv, NEW self \in Proc, Check(self) PROVE StoreInv'
<1>1. PICK me, m : me = proc[self] /\ m = store[me.id].manifest
  OBVIOUS
<1>1a. PICK left, moves, r :
        /\ left = IF me.only # None THEN {me.only} ELSE DOMAIN m.files
        /\ moves = IF me.only # None THEN {} ELSE m.moves
        /\ r = Checked(me, m, left, moves)
  OBVIOUS
<1>2. /\ me.pc = "checking"
      /\ UNCHANGED <<tree, store, count, now, faults, opened, straight>>
      /\ IF Restorable(me.id, me.only) THEN Become(self, r) ELSE Become(self, Idle)
  BY <1>1, <1>1a DEF Check, Checked
<1>3. me \in Work
  BY <1>1, AtWork
<1>4. CASE Restorable(me.id, me.only)
  <2>1. me.id \in DOMAIN store /\ m # None
    BY <1>1, <1>4 DEF Restorable, Listed
  <2>2. m \in Entries
    <3>1. store[me.id] \in Session
      BY <2>1 DEF StoreInv, TypeInv, StoreTypes
    <3>2. QED
      BY <1>1, <2>1, <3>1 DEF Session
  <2>3. DOMAIN m.files \subseteq Path /\ m.moves \subseteq Dir \X Dir
    BY <2>2, PartialFnsDef DEF Entries
  <2>4. me.only \in Path \cup {None}
    BY <1>3 DEF Work
  <2>5. left \in SUBSET Path /\ moves \in SUBSET (Dir \X Dir)
    BY <1>1a, <2>3, <2>4
  <2>6. /\ r \in Work /\ r.pc = "restoring" /\ r.id = me.id /\ r.undo = me.undo
        /\ r.doomed = me.doomed
    BY <1>1a, <1>3, <2>2, <2>5, CheckedIs
  <2>7. Become(self, r)
    BY <1>2, <1>4
  <2>8. tree' \in Tree /\ Placed(tree')
    BY <1>2 DEF StoreInv, TypeInv
  <2>9. QED
    BY <1>1, <1>2, <2>6, <2>7, <2>8, RestoresOn
<1>5. CASE ~Restorable(me.id, me.only)
  BY <1>1, <1>2, <1>5, GoesIdle, AtWork
<1>6. QED
  BY <1>4, <1>5

LEMMA RestoreFileKeeps == ASSUME StoreInv, NEW self \in Proc, RestoreFile(self) PROVE StoreInv'
<1> DEFINE me == proc[self]
           p == First(me.left)
           blobThere == me.id \in DOMAIN store /\ BlobOf(me.id, p)
           r == [me EXCEPT !.left = @ \ {p}]
<1>1. /\ me.pc = "restoring" /\ me.left # {}
      /\ UNCHANGED <<store, count, now, faults, opened, straight>>
      /\ \/ tree' = Unlinked(tree, p) /\ Become(self, r)
         \/ blobThere /\ tree' = Written(tree, p, store[me.id].blobs[p]) /\ Become(self, r)
         \/ Become(self, Idle) /\ UNCHANGED tree
  BY Zenon DEF RestoreFile
<1>2. me \in Work /\ p \in Path
  BY <1>1, AtWork, Choices DEF Work
<1>3. /\ r \in Work /\ r.pc = me.pc /\ r.id = me.id /\ r.undo = me.undo /\ r.doomed = me.doomed
  BY <1>2 DEF Work
<1> HIDE DEF r
<1>4. CASE tree' = Unlinked(tree, p) /\ Become(self, r)
  BY <1>1, <1>2, <1>3, <1>4, UnlinkedTree, RestoresOn, AtWork
<1>5. CASE blobThere /\ tree' = Written(tree, p, store[me.id].blobs[p]) /\ Become(self, r)
  <2>1. store[me.id].blobs[p] \in Content
    BY <1>5, PartialFnsDef DEF BlobOf, StoreInv, TypeInv, StoreTypes, Session
  <2>2. tree' \in Tree /\ Placed(tree')
    BY <1>2, <1>5, <2>1, WrittenTree, AtWork
  <2>3. QED
    BY <1>1, <1>3, <1>5, <2>2, RestoresOn
<1>6. CASE Become(self, Idle) /\ UNCHANGED tree
  BY <1>1, <1>6, GoesIdle, AtWork
<1>7. QED
  BY <1>1, <1>4, <1>5, <1>6

LEMMA RestoreDirKeeps == ASSUME StoreInv, NEW self \in Proc, RestoreDir(self) PROVE StoreInv'
<1> DEFINE me == proc[self]
<1>1. me.pc = "restoring" /\ UNCHANGED <<store, count, now, faults, opened, straight>>
  BY DEF RestoreDir
<1>2. PICK m \in me.moves :
        /\ tree' = IF m[2] \in tree.dirs /\ m[1] \notin tree.dirs
                   THEN MovedDir(tree, m[2], m[1]) ELSE tree
        /\ Become(self, [me EXCEPT !.moves = @ \ {m}])
  BY Zenon DEF RestoreDir
<1> DEFINE r == [me EXCEPT !.moves = @ \ {m}]
<1>3. me \in Work /\ m[1] \in Dir
  BY AtWork DEF Work
<1>4. tree' \in Tree /\ Placed(tree')
  BY <1>2, <1>3, MovedTree, AtWork
<1>5. /\ r \in Work /\ r.pc = me.pc /\ r.id = me.id /\ r.undo = me.undo /\ r.doomed = me.doomed
      /\ Become(self, r)
  BY <1>2, <1>3 DEF Work
<1> HIDE DEF r
<1>6. QED
  BY <1>1, <1>4, <1>5, RestoresOn

LEMMA RestoreEndsKeeps == ASSUME StoreInv, NEW self \in Proc, RestoreEnds(self) PROVE StoreInv'
<1> DEFINE me == proc[self]
           r == [Idle EXCEPT !.pc = "removing", !.doomed = {me.id}]
<1>1. /\ me.pc = "restoring"
      /\ UNCHANGED <<store, count, now, faults, opened, straight>>
      /\ tree' = IF me.only # None THEN tree
                 ELSE [tree EXCEPT !.dirs = @ \ {d \in me.entries.made : IsEmptyDir(tree, d)}]
      /\ IF me.undo THEN Become(self, r) ELSE Become(self, Idle)
  BY Zenon DEF RestoreEnds
<1>2. tree' \in Tree /\ Placed(tree')
  BY <1>1, TidiedTree, AtWork
<1>3. CASE me.undo
  <2>1. me.id \in DOMAIN opened /\ opened[me.id].undone
    BY <1>1, <1>3, AtWork DEF Fine, Restores
  <2>2. me.id \in SessionId
    BY <2>1 DEF StoreInv, TypeInv, OpenedTypes
  <2>3. r \in Work /\ r.pc = "removing" /\ r.doomed = {me.id}
    BY <2>2, IdleWorks DEF Work, Phases
  <2>4. Become(self, r)
    BY <1>1, <1>3
  <2> HIDE DEF r
  <2>5. proc'[self] = r
    BY <2>4 DEF Become, StoreInv, TypeInv
  <2>6. Fine(self)'
    BY <1>1, <2>1, <2>3, <2>5 DEF Fine, Applies, Restores, Removes, Saves, Writes, InApply
  <2>7. QED
    BY <1>1, <1>2, <2>1, <2>3, <2>4, <2>6, ProcStepKeeps, AtWork
<1>4. CASE ~me.undo
  BY <1>1, <1>2, <1>4, GoesIdle, AtWork
<1>5. QED
  BY <1>3, <1>4

-----------------------------------------------------------------------------
(* An apply saves into its own session, which no other apply works on.     *)
LEMMA OwnSession ==
  ASSUME StoreInv, NEW self \in Proc, InApply(self), proc[self].id \in DOMAIN store,
         NEW s, store' = [store EXCEPT ![proc[self].id] = s]
  PROVE  \A q \in Proc \ {self} : Kept(q)
<1> SUFFICES ASSUME NEW q \in Proc \ {self}, InApply(q), proc[q].id \in DOMAIN store
             PROVE  /\ proc[q].id \in DOMAIN store'
                    /\ store'[proc[q].id] = store[proc[q].id]
  BY DEF Kept
<1>1. proc[q].id # proc[self].id
  BY DEF StoreInv, Fine, Applies
<1>2. QED
  BY <1>1

LEMMA SavingKeeps ==
  ASSUME StoreInv, NEW self \in Proc, InApply(self), proc[self].id \in DOMAIN store,
         NEW r \in Work, Become(self, r), r.id = proc[self].id, r.doomed = proc[self].doomed,
         NEW s \in Session, s.mtime = now,
         store' = store \/ store' = [store EXCEPT ![proc[self].id] = s],
         UNCHANGED <<tree, count, now, faults, opened, straight>>, Fine(self)'
  PROVE  StoreInv'
<1>1. \A q \in Proc \ {self} : Kept(q)
  BY OwnSession, SameStoreKept
<1>2. proc[self].pc # "idle"
  BY DEF InApply
<1>3. Frame(self) /\ proc'[self] = r
  BY <1>1, <1>2, FrameOf
<1>4. TypeInv'
  <2>1. proc' \in [Proc -> Work]
    BY DEF Become, StoreInv, TypeInv
  <2>2. StoreTypes'
    <3>1. now \in now..now /\ \A i \in DOMAIN store : i.at <= now /\ i.at \in Nat /\ now \in Nat
      BY Distinct DEF StoreInv, TypeInv, StoreTypes, OpenedTypes, SessionId
    <3>2. \A i \in DOMAIN store : now \in i.at..now
      BY <3>1
    <3>3. QED
      BY <3>2 DEF StoreInv, TypeInv, StoreTypes
  <2>3. OpenedTypes'
    BY DEF StoreInv, TypeInv, OpenedTypes
  <2>4. QED
    BY <2>1, <2>2, <2>3 DEF StoreInv, TypeInv
<1>5. QED
  BY <1>3, <1>4, StepKeeps DEF InApply

LEMMA SaveKeeps == ASSUME StoreInv, NEW self \in Proc, Save(self) PROVE StoreInv'
<1> DEFINE me == proc[self]
           p == First(me.left)
           act == Action(tree, me.plan, p)
           files == WithEntry(me.entries.files, p, act)
           r == [me EXCEPT !.left = @ \ {p}, !.entries.files = WithEntry(@, p, act)]
           blobs == WithEntry(store[me.id].blobs, p, tree.files[p])
           s == [store[me.id] EXCEPT !.blobs = blobs, !.mtime = now]
<1>1. /\ me.pc = "saving" /\ me.left # {}
      /\ store' = IF Exists(tree, p)
                  THEN [store EXCEPT ![me.id].blobs = WithEntry(@, p, tree.files[p]),
                                     ![me.id].mtime = now]
                  ELSE store
      /\ Become(self, r)
      /\ UNCHANGED <<tree, count, now, faults, opened, straight>>
  BY Zenon DEF Save
<1>2. /\ me \in Work /\ p \in me.left /\ p \in Path /\ me.entries \in Entries
      /\ InApply(self) /\ Fine(self)
  BY <1>1, AtWork, Choices DEF Work, InApply
<1>3. /\ me.id \in DOMAIN opened /\ me.id.by = self /\ me.plan \in Plan
      /\ ~me.undo /\ me.only = None
      /\ me.left \subseteq DOMAIN me.plan.changes
      /\ me.id \in DOMAIN store /\ store[me.id] \in Session /\ store[me.id].manifest = None
      /\ ~opened[me.id].undone
      /\ DOMAIN me.entries.files = DOMAIN me.plan.changes \ me.left
      /\ \A q \in DOMAIN me.entries.files : HasBlob(self, q)
      /\ straight => /\ \A q \in me.left : me.plan.changes[q] # tree.files[q]
                     /\ \A m \in me.moves : m[1] \in tree.dirs
  BY <1>1, <1>2, StoreAssumption DEF Fine, Applies, Saves, StoreInv, TypeInv, StoreTypes
<1>4. act \in {"modified", "created", "deleted"}
  BY DEF Action
<1> HIDE DEF act
<1>5. /\ DOMAIN files = DOMAIN me.entries.files \cup {p} /\ files[p] = act
      /\ \A q \in DOMAIN me.entries.files \ {p} : files[q] = me.entries.files[q]
  BY DEF WithEntry
<1>6. files \in PartialFns(Path, {"modified", "created", "deleted"})
  BY <1>2, <1>4, WithEntryKeeps DEF Entries
<1> HIDE DEF files
<1>7. /\ r \in Work /\ r.pc = "saving" /\ r.id = me.id /\ r.plan = me.plan /\ r.undo = me.undo
      /\ r.only = me.only /\ r.doomed = me.doomed /\ r.left = me.left \ {p}
      /\ r.entries.files = files /\ r.moves = me.moves
  <2>1. r = [me EXCEPT !.left = me.left \ {p}, !.entries = [me.entries EXCEPT !.files = files]]
    BY <1>2 DEF Work, Entries, files
  <2>2. [me.entries EXCEPT !.files = files] \in Entries
        /\ [me.entries EXCEPT !.files = files].files = files
    BY <1>2, <1>6 DEF Entries
  <2>3. QED
    BY <1>1, <1>2, <2>1, <2>2 DEF Work
<1> HIDE DEF r
<1>8. /\ Exists(tree, p) =>
           /\ s \in Session /\ s.mtime = now /\ s.manifest = None
           /\ DOMAIN s.blobs = DOMAIN store[me.id].blobs \cup {p}
           /\ store' = [store EXCEPT ![me.id] = s]
      /\ ~Exists(tree, p) => store' = store
  <2> SUFFICES ASSUME Exists(tree, p)
               PROVE  /\ s \in Session /\ s.mtime = now /\ s.manifest = None
                      /\ DOMAIN s.blobs = DOMAIN store[me.id].blobs \cup {p}
                      /\ store' = [store EXCEPT ![me.id] = s]
    BY <1>1
  <2>1. tree.files[p] \in Content /\ now \in 0..MaxTime
    BY <1>2 DEF Exists, StoreInv, TypeInv, Tree
  <2>2. blobs \in PartialFns(Path, Content) /\ DOMAIN blobs = DOMAIN store[me.id].blobs \cup {p}
    <3>1. store[me.id].blobs \in PartialFns(Path, Content)
      BY <1>3 DEF Session
    <3>2. blobs \in PartialFns(Path, Content)
      BY <1>2, <2>1, <3>1, WithEntryKeeps
    <3>3. DOMAIN blobs = DOMAIN store[me.id].blobs \cup {p}
      BY Zenon, WithEntryIs
    <3>4. QED
      BY <3>2, <3>3
  <2>3. store' = [store EXCEPT ![me.id].blobs = blobs, ![me.id].mtime = now]
    BY <1>1
  <2> HIDE DEF blobs
  <2>4. s \in Session /\ s.mtime = now /\ s.manifest = None /\ s.blobs = blobs
    BY <1>3, <2>1, <2>2 DEF Session
  <2>5. store' = [store EXCEPT ![me.id] = s]
    BY <1>3, <2>3
  <2>6. QED
    BY <2>2, <2>4, <2>5
<1> HIDE DEF s
<1>9. proc'[self] = r
  BY <1>1 DEF Become, StoreInv, TypeInv
<1>10. /\ me.id \in DOMAIN store' /\ store'[me.id].manifest = None
       /\ DOMAIN store[me.id].blobs \subseteq DOMAIN store'[me.id].blobs
       /\ Exists(tree, p) => p \in DOMAIN store'[me.id].blobs
  BY <1>3, <1>8
<1>11. Saves(self)'
  <2>1. ASSUME NEW q \in DOMAIN files PROVE HasBlob(self, q)'
    <3>1. CASE q = p
      <4>1. CASE Exists(tree, p)
        BY <1>7, <1>9, <1>10, <3>1, <4>1 DEF HasBlob
      <4>2. CASE ~Exists(tree, p) /\ me.plan.changes[p] = None
        <5>1. act = "deleted" /\ ~straight
          BY <1>2, <1>3, <4>2 DEF Action, Exists, act
        <5>2. QED
          BY <1>1, <1>5, <1>7, <1>9, <3>1, <5>1 DEF HasBlob
      <4>3. CASE ~Exists(tree, p) /\ me.plan.changes[p] # None
        <5>1. act = "created"
          BY <4>3 DEF Action, act
        <5>2. QED
          BY <1>5, <1>7, <1>9, <3>1, <5>1 DEF HasBlob
      <4>4. QED
        BY <4>1, <4>2, <4>3
    <3>2. CASE q # p
      BY <1>1, <1>3, <1>5, <1>7, <1>9, <1>10, <2>1, <3>2 DEF HasBlob
    <3>3. QED
      BY <3>1, <3>2
  <2>2. DOMAIN files = DOMAIN me.plan.changes \ (me.left \ {p})
    BY <1>2, <1>3, <1>5
  <2>3. QED
    BY <1>1, <1>3, <1>7, <1>9, <1>10, <2>1, <2>2 DEF Saves
<1>12. Fine(self)'
  BY <1>1, <1>2, <1>3, <1>7, <1>9, <1>11 DEF Fine, Applies, Restores, Removes, Writes, InApply
<1>13. CASE Exists(tree, p)
  BY <1>1, <1>2, <1>3, <1>7, <1>8, <1>12, <1>13, SavingKeeps
<1>14. CASE ~Exists(tree, p)
  <2>1. [store[me.id] EXCEPT !.mtime = now] \in Session
        /\ [store[me.id] EXCEPT !.mtime = now].mtime = now
    BY <1>3 DEF StoreInv, TypeInv, Session
  <2>2. QED
    BY <1>1, <1>2, <1>3, <1>7, <1>8, <1>12, <1>14, <2>1, SavingKeeps
<1>15. QED
  BY <1>13, <1>14

LEMMA FinalizeKeeps == ASSUME StoreInv, NEW self \in Proc, Finalize(self) PROVE StoreInv'
<1> DEFINE me == proc[self]
           marks == {m[2] : m \in {n \in me.moves : n[2] \in tree.dirs}}
           moves == {m \in me.moves : m[2] \notin marks /\ m[1] \in tree.dirs}
           made == MissingParents(tree, me.plan)
           entries == [me.entries EXCEPT !.marks = marks, !.moves = moves, !.made = made]
           r == [me EXCEPT !.pc = "writing", !.entries = entries,
                           !.left = DOMAIN me.plan.changes]
           s == [store[me.id] EXCEPT !.manifest = entries, !.mtime = now]
<1>1. /\ me.pc = "saving" /\ me.left = {}
      /\ store' = [store EXCEPT ![me.id].manifest = entries, ![me.id].mtime = now]
      /\ Become(self, r)
      /\ UNCHANGED <<tree, count, now, faults, opened, straight>>
  BY Zenon DEF Finalize
<1>2. me \in Work /\ me.entries \in Entries /\ InApply(self) /\ Fine(self)
  BY <1>1, AtWork DEF Work, InApply
<1>3. /\ me.id \in DOMAIN opened /\ me.id.by = self /\ me.plan \in Plan
      /\ ~me.undo /\ me.only = None
      /\ me.id \in DOMAIN store /\ store[me.id] \in Session
      /\ DOMAIN me.entries.files = DOMAIN me.plan.changes
      /\ \A q \in DOMAIN me.entries.files : HasBlob(self, q)
      /\ straight => \A m \in me.moves : m[1] \in tree.dirs
  BY <1>1, <1>2, StoreAssumption DEF Fine, Applies, Saves, StoreInv, TypeInv, StoreTypes
<1>4. DOMAIN me.plan.changes \subseteq Path
  BY <1>3, PartialFnsDef DEF Plan
<1>5. /\ marks \in SUBSET Dir /\ moves \in SUBSET (Dir \X Dir)
      /\ straight => me.moves \subseteq moves \cup (Dir \X marks)
  <2>1. me.moves \subseteq Dir \X Dir
    BY <1>2 DEF Work
  <2>2. marks \subseteq Dir
    BY <2>1
  <2>3. ASSUME straight, NEW m \in me.moves PROVE m \in moves \cup (Dir \X marks)
    <3>1. m \in Dir \X Dir /\ m[1] \in tree.dirs
      BY <1>3, <2>1, <2>3
    <3>2. CASE m[2] \in marks
      BY <3>1, <3>2
    <3>3. CASE m[2] \notin marks
      BY <3>1, <3>3
    <3>4. QED
      BY <3>2, <3>3
  <2>4. QED
    BY <2>1, <2>2, <2>3
<1>6. made \in SUBSET Dir
  <2>1. \A q \in DOMAIN me.plan.changes : q[1] \in Dir \cup {Root}
    BY <1>4, PathType
  <2>2. QED
    BY <2>1 DEF MissingParents
<1> HIDE DEF marks, moves, made
<1>7. /\ entries \in Entries /\ entries.files = me.entries.files
      /\ entries.moves = moves /\ entries.marks = marks
  BY <1>2, <1>5, <1>6 DEF Entries
<1> HIDE DEF entries
<1>8. /\ r \in Work /\ r.pc = "writing" /\ r.id = me.id /\ r.plan = me.plan /\ r.undo = me.undo
      /\ r.only = me.only /\ r.doomed = me.doomed /\ r.left = DOMAIN me.plan.changes
      /\ r.entries = entries /\ r.moves = me.moves
  BY <1>2, <1>4, <1>7 DEF Work, Phases
<1>9. /\ s \in Session /\ s.mtime = now /\ s.manifest = entries
      /\ s.blobs = store[me.id].blobs
  BY <1>3, <1>7 DEF Session, StoreInv, TypeInv
<1>10. store' = [store EXCEPT ![me.id] = s]
  BY <1>1, <1>3
<1> HIDE DEF r, s
<1>11. proc'[self] = r
  BY <1>1 DEF Become, StoreInv, TypeInv
<1>12. \A q \in DOMAIN me.plan.changes : HasBlob(self, q)'
  BY <1>1, <1>3, <1>7, <1>8, <1>9, <1>10, <1>11 DEF HasBlob
<1>13. Writes(self)'
  BY <1>1, <1>3, <1>5, <1>7, <1>8, <1>9, <1>10, <1>11, <1>12 DEF Writes
<1>14. Fine(self)'
  BY <1>1, <1>2, <1>3, <1>8, <1>11, <1>13
  DEF Fine, Applies, Restores, Removes, Saves, InApply
<1>15. QED
  BY <1>1, <1>2, <1>3, <1>8, <1>9, <1>10, <1>14, SavingKeeps

-----------------------------------------------------------------------------
(* A prune or a removal takes a session apart that no apply works on.      *)
LEMMA RemovePartKeeps == ASSUME StoreInv, NEW self \in Proc, RemovePart(self) PROVE StoreInv'
<1>1. PICK i \in proc[self].doomed :
        /\ i \in DOMAIN store
        /\ \/ store' = [store EXCEPT ![i].manifest = None, ![i].mtime = now]
           \/ store' = [store EXCEPT ![i].blobs = << >>, ![i].mtime = now]
           \/ store' = [j \in DOMAIN store \ {i} |-> store[j]]
        /\ UNCHANGED <<tree, proc, count, now, faults, opened, straight>>
  BY Zenon DEF RemovePart
<1>2. \A q \in Proc : InApply(q) /\ ~opened[proc[q].id].undone => proc[q].id # i
  BY DEF StoreInv, Spared
<1>3. /\ DOMAIN store' \subseteq DOMAIN store
      /\ \A j \in DOMAIN store \ {i} : j \in DOMAIN store' /\ store'[j] = store[j]
  BY <1>1
<1>4. \A q \in Proc : Kept(q)
  BY <1>2, <1>3 DEF Kept
<1>5. proc[self].pc # "idle"
  BY <1>1 DEF StoreInv, Fine, Removes
<1>6. Frame(self)
  BY <1>1, <1>4, <1>5 DEF StoreInv, OneByOne, Frame
<1>7. TypeInv'
  <2>1. StoreTypes'
    <3>1. ASSUME NEW j \in DOMAIN store' PROVE store'[j] \in Session /\ store'[j].mtime \in j.at..now
      <4>1. CASE j # i
        BY <1>1, <1>3, <3>1, <4>1 DEF StoreInv, TypeInv, StoreTypes
      <4>2. CASE j = i
        <5> DEFINE e == store[i]
        <5>1. /\ e \in Session /\ e.mtime \in i.at..now /\ i.at \in Nat /\ now \in 0..MaxTime
              /\ MaxTime \in Nat
          BY <1>1, Distinct DEF StoreInv, TypeInv, StoreTypes, OpenedTypes, SessionId
        <5>2. \/ store'[i] = [e EXCEPT !.manifest = None, !.mtime = now]
              \/ store'[i] = [e EXCEPT !.blobs = << >>, !.mtime = now]
          BY <1>1, <3>1, <4>2
        <5>3. /\ [e EXCEPT !.manifest = None, !.mtime = now] \in Session
              /\ [e EXCEPT !.manifest = None, !.mtime = now].mtime = now
          BY <5>1 DEF Session
        <5>4. /\ [e EXCEPT !.blobs = << >>, !.mtime = now] \in Session
              /\ [e EXCEPT !.blobs = << >>, !.mtime = now].mtime = now
          BY <5>1, EmptyFn DEF Session
        <5> HIDE DEF e
        <5>5. now \in i.at..now
          BY <5>1
        <5>6. QED
          BY <4>2, <5>2, <5>3, <5>4, <5>5
      <4>3. QED
        BY <4>1, <4>2
    <3>2. store' \in [DOMAIN store' -> Session]
      BY <1>1, <3>1 DEF StoreInv, TypeInv, StoreTypes
    <3>3. QED
      BY <1>1, <1>3, <3>1, <3>2 DEF StoreInv, TypeInv, StoreTypes
  <2>2. QED
    BY <1>1, <2>1 DEF StoreInv, TypeInv, OpenedTypes
<1>8. Fine(self)'
  <2>1. Applies(self)' /\ Restores(self)' /\ Removes(self)'
    BY <1>1, AtWork DEF Fine, Applies, Restores, Removes, InApply
  <2>2. ASSUME InApply(self), ~opened[proc[self].id].undone, proc[self].id \in DOMAIN store
        PROVE  proc[self].id \in DOMAIN store' /\ store'[proc[self].id] = store[proc[self].id]
    BY <1>4, <2>2 DEF Kept
  <2>3. Saves(self)' /\ Writes(self)'
    BY <1>1, <2>2, AtWork DEF Fine, Saves, Writes, HasBlob, InApply
  <2>4. QED
    BY <2>1, <2>3 DEF Fine
<1>9. QED
  BY <1>1, <1>6, <1>7, <1>8, StepKeeps DEF InApply

-----------------------------------------------------------------------------
(* An undo begins.                                                         *)
LEMMA BeginUndoKeeps ==
  ASSUME StoreInv, NEW self \in Proc, NEW i \in Listed, NEW only \in Path \cup {None},
         BeginUndo(self, i, only)
  PROVE  StoreInv'
<1> DEFINE full == only = None
           undone == opened[i].undone \/ full
           o == [opened[i] EXCEPT !.undone = undone]
           r == [Idle EXCEPT !.pc = "checking", !.id = i, !.undo = full, !.only = only]
<1>1. /\ proc[self].pc = "idle" /\ Become(self, r)
      /\ opened' = [opened EXCEPT ![i].undone = @ \/ only = None]
      /\ straight' = (straight /\ Alone(self) /\ i \in Newest(Listed))
      /\ UNCHANGED <<tree, store, count, now, faults>>
  BY Zenon DEF BeginUndo
<1>2. /\ i \in DOMAIN store /\ i \in DOMAIN opened /\ i \in SessionId /\ opened[i] \in Opened
      /\ opened \in [DOMAIN opened -> Opened]
  BY DEF Listed, StoreInv, TypeInv, StoreTypes, OpenedTypes
<1>3. full \in BOOLEAN /\ undone \in BOOLEAN /\ (opened[i].undone => undone) /\ (full => undone)
  BY Zenon
<1>4. opened' = [opened EXCEPT ![i] = o]
  BY <1>1, <1>2
<1> HIDE DEF undone, full
<1>5. o \in Opened /\ o.undone = undone
  BY <1>2, <1>3 DEF Opened
<1> HIDE DEF o
<1>6. /\ r \in Work /\ r.pc = "checking" /\ r.id = i /\ r.undo = full /\ r.doomed = {}
  BY <1>2, <1>3, IdleWorks DEF Work, Phases
<1> HIDE DEF r
<1>7. proc' = [proc EXCEPT ![self] = r] /\ proc'[self] = r
  BY <1>1 DEF Become, StoreInv, TypeInv
<1>8. /\ DOMAIN opened' = DOMAIN opened /\ opened' \in [DOMAIN opened -> Opened]
      /\ opened'[i] = o /\ \A j \in DOMAIN opened \ {i} : opened'[j] = opened[j]
  BY <1>2, <1>4, <1>5
<1>9. straight' \in BOOLEAN /\ (straight' => straight /\ Alone(self))
  BY Zenon, <1>1
<1>10. Frame(self)
  <2>1. \A q \in Proc : Kept(q)
    BY <1>1, SameStoreKept
  <2>2. \A j \in DOMAIN opened :
           /\ opened[j].undone => opened'[j].undone
           /\ opened'[j].undone => opened[j].undone \/ j \in Listed
    BY <1>3, <1>5, <1>8
  <2>3. QED
    BY <1>7, <1>8, <1>9, <2>1, <2>2 DEF Frame, Alone
<1>11. TypeInv'
  <2>1. proc' \in [Proc -> Work]
    BY <1>6, <1>7 DEF StoreInv, TypeInv
  <2>2. StoreTypes'
    BY <1>1, <1>8 DEF StoreInv, TypeInv, StoreTypes
  <2>3. OpenedTypes'
    BY <1>1, <1>8 DEF StoreInv, TypeInv, OpenedTypes
  <2>4. QED
    BY <1>1, <1>9, <2>1, <2>2, <2>3 DEF StoreInv, TypeInv
<1>12. Fine(self)'
  BY <1>2, <1>3, <1>5, <1>6, <1>7, <1>8
  DEF Fine, Applies, Restores, Removes, Saves, Writes, InApply
<1>13. QED
  BY <1>6, <1>7, <1>10, <1>11, <1>12, StepKeeps DEF InApply

LEMMA UndoBeginsKeeps ==
  ASSUME StoreInv, NEW self \in Proc,
         UndoNewest(self) \/ UndoNamed(self) \/ \E p \in Path : UndoPath(self, p)
  PROVE  StoreInv'
<1>1. CASE UndoNewest(self)
  <2>1. PICK i \in Newest(Listed) : BeginUndo(self, i, None)
    BY <1>1 DEF UndoNewest
  <2>2. i \in Listed
    BY DEF Newest
  <2>3. QED
    BY <2>1, <2>2, BeginUndoKeeps
<1>2. CASE UndoNamed(self)
  <2>1. PICK i \in Listed : BeginUndo(self, i, None)
    BY <1>2 DEF UndoNamed
  <2>2. QED
    BY <2>1, BeginUndoKeeps
<1>3. ASSUME NEW p \in Path, UndoPath(self, p) PROVE StoreInv'
  <2>1. PICK i \in {j \in Listed : p \in DOMAIN store[j].manifest.files} : BeginUndo(self, i, p)
    BY <1>3 DEF UndoPath
  <2>2. i \in Listed
    OBVIOUS
  <2>3. QED
    BY <2>1, <2>2, BeginUndoKeeps
<1>4. QED
  BY <1>1, <1>2, <1>3

-----------------------------------------------------------------------------
(* An apply begins: a session nobody has had, and a prune that leaves the  *)
(* sessions of the applies under way.                                      *)
LEMMA BeginApplyKeeps ==
  ASSUME StoreInv, NEW self \in Proc, NEW plan \in Plans, BeginApply(self, plan)
  PROVE  StoreInv'
<1> DEFINE me == proc[self]
<1>1. PICK t \in Times :
        LET id == NewSessionId(self, t)
        IN  /\ me.pc = "idle"
            /\ Accepts(plan)
            /\ store' = IF id \in DOMAIN store THEN store
                        ELSE WithEntry(store, id, [blobs |-> << >>, manifest |-> None, mtime |-> t])
            /\ count' = [count EXCEPT ![self] = @ + 1]
            /\ opened' = WithEntry(opened, id, [plan |-> plan, from |-> tree, undone |-> FALSE])
            /\ Become(self, [Idle EXCEPT !.pc = "pruning", !.id = id, !.plan = plan,
                                         !.left = DOMAIN plan.changes, !.moves = plan.moves,
                                         !.had = {p \in DOMAIN plan.changes : Exists(tree, p)},
                                         !.doomed = Expired(t)])
            /\ now' = t
            /\ straight' = (straight /\ Alone(self) /\ \A i \in DOMAIN opened : i.at # t)
            /\ UNCHANGED <<tree, faults>>
  BY Zenon DEF BeginApply
<1> DEFINE id == NewSessionId(self, t)
           e == [blobs |-> << >>, manifest |-> None, mtime |-> t]
           o == [plan |-> plan, from |-> tree, undone |-> FALSE]
           had == {p \in DOMAIN plan.changes : Exists(tree, p)}
           r == [Idle EXCEPT !.pc = "pruning", !.id = id, !.plan = plan,
                             !.left = DOMAIN plan.changes, !.moves = plan.moves,
                             !.had = had, !.doomed = Expired(t)]
<1>2. /\ t \in 0..MaxTime /\ t >= now /\ now \in Nat /\ t \in Nat /\ MaxTime \in Nat
      /\ \A q \in Proc : Applying(q) => t - proc[q].id.at <= MaxAge
  BY Distinct DEF Times, StoreInv, TypeInv
<1>3. /\ DOMAIN store \subseteq DOMAIN opened /\ DOMAIN opened \subseteq SessionId
      /\ store \in [DOMAIN store -> Session] /\ opened \in [DOMAIN opened -> Opened]
      /\ count \in [Proc -> Nat] /\ \A i \in DOMAIN opened : i.seq < count[i.by]
      /\ tree \in Tree /\ plan \in Plan
  BY StoreAssumption DEF StoreInv, TypeInv, StoreTypes, OpenedTypes
<1>4. id \in SessionId /\ id.at = t /\ id.by = self /\ id.seq = count[self]
  BY <1>2, <1>3 DEF NewSessionId, SessionId
<1>5. id \notin DOMAIN opened /\ id \notin DOMAIN store
  BY <1>3, <1>4
<1>6. /\ me.pc = "idle" /\ Accepts(plan)
      /\ store' = WithEntry(store, id, e)
      /\ count' = [count EXCEPT ![self] = @ + 1]
      /\ opened' = WithEntry(opened, id, o)
      /\ Become(self, r)
      /\ now' = t
      /\ straight' = (straight /\ Alone(self) /\ \A i \in DOMAIN opened : i.at # t)
      /\ UNCHANGED <<tree, faults>>
  BY <1>1, <1>5, Zenon
<1>7. straight' \in BOOLEAN /\ (straight' => straight /\ Alone(self))
  BY Zenon, <1>6
<1> HIDE DEF id
<1>8. /\ e \in Session /\ e.manifest = None /\ e.mtime = t
  BY <1>2, EmptyFn DEF Session
<1>9. o \in Opened /\ ~o.undone
  BY <1>3 DEF Opened
<1> HIDE DEF e, o
<1>10. /\ DOMAIN store' = DOMAIN store \cup {id} /\ store'[id] = e
       /\ \A i \in DOMAIN store : store'[i] = store[i]
       /\ store' \in [DOMAIN store' -> Session]
  BY <1>3, <1>5, <1>6, <1>8 DEF WithEntry
<1>11. /\ DOMAIN opened' = DOMAIN opened \cup {id} /\ opened'[id] = o
       /\ \A i \in DOMAIN opened : opened'[i] = opened[i]
       /\ opened' \in [DOMAIN opened' -> Opened]
  BY <1>3, <1>5, <1>6, <1>9 DEF WithEntry
<1>12. Expired(t) \subseteq DOMAIN store
  BY DEF Expired
<1>13. /\ r \in Work /\ r.pc = "pruning" /\ r.id = id /\ r.plan = plan
       /\ r.left = DOMAIN plan.changes /\ r.moves = plan.moves /\ r.doomed = Expired(t)
       /\ ~r.undo /\ r.only = None /\ r.entries = NoEntries
  <2>1. /\ DOMAIN plan.changes \subseteq Path /\ plan.moves \subseteq Dir \X Dir
        /\ had \subseteq Path /\ Expired(t) \subseteq SessionId
    BY <1>3, <1>12, PartialFnsDef DEF Plan
  <2> HIDE DEF had
  <2>2. /\ ~Idle.undo /\ Idle.only = None /\ Idle.entries = NoEntries
    BY DEF Idle
  <2>3. QED
    BY <1>4, <2>1, <2>2, IdleWorks DEF Work, Phases
<1> HIDE DEF r
<1>14. proc' = [proc EXCEPT ![self] = r] /\ proc'[self] = r
  BY <1>6 DEF Become, StoreInv, TypeInv
<1>15. Frame(self)
  <2>1. \A q \in Proc \ {self} : Kept(q)
    BY <1>10 DEF Kept
  <2>2. QED
    BY <1>7, <1>11, <1>14, <2>1 DEF Frame, Alone
<1>16. TypeInv'
  <2>1. proc' \in [Proc -> Work]
    BY <1>13, <1>14 DEF StoreInv, TypeInv
  <2>2. StoreTypes'
    <3>1. \A i \in DOMAIN store : store[i].mtime \in i.at..now /\ i.at \in Nat
      BY <1>3 DEF StoreInv, TypeInv, StoreTypes, SessionId
    <3>2. \A i \in DOMAIN store' : store'[i].mtime \in i.at..now'
      BY <1>2, <1>4, <1>6, <1>8, <1>10, <3>1
    <3>3. QED
      BY <1>3, <1>10, <1>11, <3>2 DEF StoreTypes
  <2>3. OpenedTypes'
    <3>1. count' \in [Proc -> Nat] /\ count'[self] = count[self] + 1
          /\ \A q \in Proc \ {self} : count'[q] = count[q]
      BY <1>3, <1>6
    <3>2. \A i \in DOMAIN opened : i.by \in Proc /\ i.seq \in Nat
      BY <1>3 DEF SessionId
    <3>3. \A i \in DOMAIN opened' : i.seq < count'[i.by]
      BY <1>3, <1>4, <1>11, <3>1, <3>2
    <3>4. QED
      BY <1>3, <1>4, <1>11, <3>1, <3>3 DEF OpenedTypes
  <2>4. QED
    BY <1>2, <1>6, <1>7, <2>1, <2>2, <2>3 DEF StoreInv, TypeInv
<1>17. Fine(self)'
  <2>1. Applies(self)' /\ Restores(self)'
    BY <1>4, <1>11, <1>13, <1>14 DEF Applies, Restores, InApply
  <2>2. Removes(self)' /\ Writes(self)'
    BY <1>3, <1>11, <1>12, <1>13, <1>14 DEF Removes, Writes
  <2>3. Saves(self)'
    <3>1. NoEntries.files = << >> /\ DOMAIN NoEntries.files = {}
      BY EmptyFn DEF NoEntries
    <3>2. /\ \A p \in DOMAIN plan.changes : plan.changes[p] # tree'.files[p]
          /\ \A m \in plan.moves : m[1] \in tree'.dirs
      BY <1>6 DEF Accepts
    <3>3. QED
      BY <1>8, <1>9, <1>10, <1>11, <1>13, <1>14, <3>1, <3>2 DEF Saves
  <2>4. QED
    BY <2>1, <2>2, <2>3 DEF Fine
<1>18. Spared'
  <2> SUFFICES ASSUME NEW q \in Proc, NEW s \in Proc, InApply(s)', ~opened'[proc'[s].id].undone
               PROVE  proc'[s].id \notin proc'[q].doomed
    BY DEF Spared
  <2>1. CASE s = self
    <3>1. CASE q = self
      BY <1>5, <1>12, <1>13, <1>14, <2>1, <3>1
    <3>2. CASE q # self
      BY <1>5, <1>13, <1>14, <2>1, <3>2 DEF StoreInv, Fine, Removes
    <3>3. QED
      BY <3>1, <3>2
  <2>2. CASE s # self
    <3>1. /\ InApply(s) /\ proc'[s] = proc[s] /\ proc[s].id \in DOMAIN opened
          /\ ~opened[proc[s].id].undone /\ ~proc[s].undo /\ proc[s].only = None
      BY <1>11, <1>14, <2>2 DEF StoreInv, TypeInv, Fine, Applies, InApply
    <3>2. CASE q = self
      <4>1. proc[s].id \in SessionId /\ proc[s].id # None
        BY <1>3, <3>1, StoreAssumption
      <4>2. t - proc[s].id.at <= MaxAge
        BY <1>2, <3>1, <4>1 DEF Applying
      <4>3. proc[s].id.at \in Nat /\ MaxAge \in Nat
        BY <4>1, Distinct DEF SessionId
      <4>4. proc[s].id \notin Expired(t)
        BY <1>2, <4>2, <4>3 DEF Expired
      <4>5. QED
        BY <1>13, <1>14, <3>1, <3>2, <4>4
    <3>3. CASE q # self
      BY <1>14, <3>1, <3>3 DEF StoreInv, TypeInv, Spared
    <3>4. QED
      BY <3>2, <3>3
  <2>3. QED
    BY <2>1, <2>2
<1>19. \A q \in Proc : Fine(q)'
  BY <1>15, <1>17, OthersStayFine
<1>20. OneByOne'
  BY <1>15, OneByOneKept DEF StoreInv
<1>21. QED
  BY <1>16, <1>18, <1>19, <1>20 DEF StoreInv

-----------------------------------------------------------------------------
LEMMA InitInv == Init => StoreInv
<1> SUFFICES ASSUME Init PROVE StoreInv
  OBVIOUS
<1>1. DOMAIN store = {} /\ DOMAIN opened = {}
  BY EmptyFn DEF Init
<1>2. proc = [self \in Proc |-> Idle] /\ \A self \in Proc : proc[self] = Idle
  BY DEF Init
<1>3. TypeInv
  <2>1. tree \in Tree /\ Placed(tree)
    BY StoreAssumption DEF Init, Placed, Exists
  <2>2. StoreTypes /\ OpenedTypes
    BY <1>1 DEF Init, StoreTypes, OpenedTypes
  <2>3. proc \in [Proc -> Work]
    BY <1>2, IdleWorks
  <2>4. now \in 0..MaxTime /\ faults \in 0..MaxFaults /\ straight \in BOOLEAN
    BY Distinct DEF Init
  <2>5. QED
    BY <2>1, <2>2, <2>3, <2>4 DEF TypeInv
<1>4. ASSUME NEW self \in Proc PROVE Fine(self) /\ ~InApply(self)
  BY <1>2, IdleWorks DEF Fine, Applies, Restores, Removes, Saves, Writes, InApply
<1>5. OneByOne /\ Spared
  BY <1>2, <1>4, IdleWorks DEF OneByOne, Spared
<1>6. QED
  BY <1>3, <1>4, <1>5 DEF StoreInv

LEMMA NextKeeps == StoreInv /\ [Next]_vars => StoreInv'
<1> SUFFICES ASSUME StoreInv, [Next]_vars PROVE StoreInv'
  OBVIOUS
<1>1. ASSUME NEW self \in Proc, Apply(self) PROVE StoreInv'
  <2>1. ASSUME NEW plan \in Plans, BeginApply(self, plan) PROVE StoreInv'
    BY <2>1, BeginApplyKeeps
  <2>2. CASE Save(self)
    BY <2>2, SaveKeeps
  <2>3. CASE Finalize(self)
    BY <2>3, FinalizeKeeps
  <2>4. CASE MoveDirs(self)
    BY <2>4, MoveDirsKeeps
  <2>5. CASE WriteOne(self)
    BY <2>5, WriteOneKeeps
  <2>6. CASE WriteFails(self)
    BY <2>6, WriteFailsKeeps
  <2>7. CASE EndApply(self)
    BY <2>7, EndingsKeep
  <2>8. QED
    BY <1>1, <2>1, <2>2, <2>3, <2>4, <2>5, <2>6, <2>7 DEF Apply
<1>2. ASSUME NEW self \in Proc, Undo(self) PROVE StoreInv'
  <2>1. CASE UndoNewest(self) \/ UndoNamed(self) \/ \E p \in Path : UndoPath(self, p)
    BY <2>1, UndoBeginsKeeps
  <2>2. CASE Check(self)
    BY <2>2, CheckKeeps
  <2>3. CASE RestoreFile(self)
    BY <2>3, RestoreFileKeeps
  <2>4. CASE RestoreDir(self)
    BY <2>4, RestoreDirKeeps
  <2>5. CASE RestoreEnds(self)
    BY <2>5, RestoreEndsKeeps
  <2>6. CASE RestoreFails(self)
    BY <2>6, EndingsKeep
  <2>7. QED
    BY <1>2, <2>1, <2>2, <2>3, <2>4, <2>5, <2>6 DEF Undo
<1>3. ASSUME NEW self \in Proc, RemovePart(self) \/ EndRemoval(self) \/ Crash(self)
      PROVE  StoreInv'
  BY <1>3, RemovePartKeeps, EndRemovalKeeps, EndingsKeep
<1>4. CASE UNCHANGED vars
  BY <1>4 DEF vars, StoreInv, TypeInv, StoreTypes, OpenedTypes, Fine, Applies, Restores,
              Removes, Saves, Writes, HasBlob, InApply, Spared, OneByOne, Placed, Exists
<1>5. QED
  BY <1>1, <1>2, <1>3, <1>4 DEF Next

LEMMA SpecInv == Spec => []StoreInv
BY InitInv, NextKeeps, PTL DEF Spec

-----------------------------------------------------------------------------
(* Whatever the processes do to each other, the store holds sessions of    *)
(* the documented shape, under names that an apply has taken, and every    *)
(* file of the workspace is in a directory that exists.                    *)
THEOREM StoreTypeCorrect == Spec => []StoreTypeOK
<1>1. StoreInv => StoreTypeOK
  <2> SUFFICES ASSUME StoreInv PROVE StoreTypeOK
    OBVIOUS
  <2>1. \A i \in DOMAIN store :
          /\ store[i].blobs \in PartialFns(Path, Content)
          /\ store[i].manifest \in Entries \cup {None}
          /\ store[i].mtime \in i.at..now
    BY DEF StoreInv, TypeInv, StoreTypes, Session
  <2>2. \A self \in Proc :
          /\ proc[self].pc \in Phases
          /\ proc[self].id \in SessionId \cup {None}
          /\ proc[self].entries \in Entries
    BY DEF StoreInv, TypeInv, Work
  <2>3. QED
    BY <2>1, <2>2 DEF StoreTypeOK, StoreInv, TypeInv, StoreTypes, OpenedTypes, Placed
<1>2. QED
  BY SpecInv, <1>1, PTL

(* Before any --apply write, the originals are saved (backup.rs): whatever *)
(* other processes write, undo, prune or leave half done, an apply that is *)
(* about to write has its session on disk, listed, with what takes every   *)
(* write of its plan back, unless an undo of that session has begun.       *)
THEOREM ApplyWritesAreCovered == Spec => []WritesAreCovered
<1>1. StoreInv => WritesAreCovered
  <2> SUFFICES ASSUME StoreInv, NEW self \in Proc,
                      proc[self].pc = "writing", ~opened[proc[self].id].undone
               PROVE  LET me == proc[self]
                          m == store[me.id].manifest
                      IN  /\ me.id \in Listed
                          /\ DOMAIN m.files = DOMAIN me.plan.changes
                          /\ straight => me.moves \subseteq m.moves \cup (Dir \X m.marks)
                          /\ \A p \in me.left :
                               \/ p \in DOMAIN store[me.id].blobs
                               \/ m.files[p] = "created"
                               \/ m.files[p] = "deleted" /\ ~straight
    BY DEF WritesAreCovered
  <2>1. Writes(self) /\ proc[self].entries # None
    BY StoreAssumption DEF StoreInv, TypeInv, Work, Fine
  <2>2. QED
    BY <2>1 DEF Writes, HasBlob, Listed
<1>2. QED
  BY SpecInv, <1>1, PTL

-----------------------------------------------------------------------------
(***************************************************************************)
(* A history that is a line unwinds.  Between the tree an apply started    *)
(* from and what it, or a failed or interrupted apply or undo of it, has   *)
(* left: some of the directories have moved, the files of the plan may     *)
(* hold anything, parents may have been made, and nothing else differs.    *)
(***************************************************************************)
Done(t, plan) == {m \in plan.moves : m[2] \in t.dirs}

Between(t, from, plan) ==
  LET done == Done(t, plan)
  IN  /\ \A m \in done, n \in Name : t.files[<<m[2], n>>] = from.files[<<m[1], n>>]
      /\ \A p \in Path \ DOMAIN plan.changes :
           (\A m \in done : p[1] \notin {m[1], m[2]}) => t.files[p] = from.files[p]
      /\ \A m, n \in done : m[1] = n[1] => m = n
      /\ t.dirs \ MissingParents(from, plan)
           = (from.dirs \ {m[1] : m \in done}) \cup {m[2] : m \in done}

(* A plan, and a tree staging accepts it on.                               *)
Suits(from, plan) ==
  /\ from \in Tree /\ Placed(from)
  /\ plan \in Plan /\ Plain(plan)
  /\ \A p \in DOMAIN plan.changes : plan.changes[p] # from.files[p]
  /\ \A m \in plan.moves : m[1] \in from.dirs /\ m[2] \notin from.dirs

LEMMA PathIs ==
  /\ Root \notin Dir
  /\ \A p \in Path : p[1] \in Dir \cup {Root} /\ p[2] \in Name /\ p = <<p[1], p[2]>>
  /\ \A d \in Dir, n \in Name : <<d, n>> \in Path /\ <<d, n>>[1] = d /\ <<d, n>>[2] = n
BY Distinct DEF Path

LEMMA MadeIs ==
  ASSUME NEW from, NEW plan, Suits(from, plan), NEW a \in MissingParents(from, plan)
  PROVE  /\ a \in Dir /\ a \notin from.dirs
         /\ \A m \in plan.moves : a \notin {m[1], m[2]}
<1>1. PICK p \in DOMAIN plan.changes : a = p[1] /\ a \notin from.dirs \cup {Root}
  BY DEF MissingParents
<1>2. p \in Path
  BY PartialFnsDef DEF Suits, Plan
<1>3. QED
  BY <1>1, <1>2, PathIs DEF Suits, Plain

LEMMA MoveIs ==
  ASSUME NEW from, NEW plan, Suits(from, plan), NEW m \in plan.moves
  PROVE  /\ m[1] \in Dir /\ m[2] \in Dir /\ m[1] \in from.dirs /\ m[2] \notin from.dirs
         /\ m[1] # m[2] /\ m = <<m[1], m[2]>>
         /\ \A n \in plan.moves : m[1] # n[2]
         /\ {m[1], m[2]} \cap MissingParents(from, plan) = {}
<1>1. m \in Dir \X Dir
  BY DEF Suits, Plan
<1>2. QED
  BY <1>1, MadeIs DEF Suits

(* A directory that has moved is not at its old name, one that has not is. *)
LEMMA DoneIs ==
  ASSUME NEW t, NEW from, NEW plan, Suits(from, plan), Between(t, from, plan),
         NEW m \in plan.moves
  PROVE  /\ m \in Done(t, plan) <=> m[2] \in t.dirs
         /\ m \in Done(t, plan) => m[1] \notin t.dirs
         /\ m[1] \notin t.dirs => \E n \in Done(t, plan) : n[1] = m[1]
<1> DEFINE done == Done(t, plan)
<1>1. t.dirs \ MissingParents(from, plan)
        = (from.dirs \ {n[1] : n \in done}) \cup {n[2] : n \in done}
  BY DEF Between
<1>2. done \subseteq plan.moves
  BY DEF Done
<1>3. m \in done <=> m[2] \in t.dirs
  BY DEF Done
<1> HIDE DEF done
<1>4. m[1] \in from.dirs /\ m[1] \notin MissingParents(from, plan) /\ \A n \in done : m[1] # n[2]
  BY <1>2, MoveIs
<1>5. QED
  BY <1>1, <1>3, <1>4 DEF done

LEMMA TidyIs ==
  ASSUME NEW u \in Tree, NEW from, NEW plan, Suits(from, plan), u.files = from.files,
         u.dirs \ MissingParents(from, plan) = from.dirs
  PROVE  [u EXCEPT !.dirs = @ \ {d \in MissingParents(from, plan) : IsEmptyDir(u, d)}] = from
<1> DEFINE made == MissingParents(from, plan)
<1>1. ASSUME NEW d \in made PROVE IsEmptyDir(u, d)
  <2> SUFFICES ASSUME NEW n \in Name PROVE from.files[<<d, n>>] = None
    BY DEF IsEmptyDir, Exists
  <2>1. d \in Dir /\ d \notin from.dirs
    BY MadeIs
  <2>2. <<d, n>> \in Path /\ <<d, n>>[1] = d /\ d # Root
    BY <2>1, PathIs
  <2>3. QED
    BY <2>1, <2>2 DEF Suits, Placed, Exists
<1>2. {d \in made : IsEmptyDir(u, d)} = made
  BY <1>1
<1> HIDE DEF made
<1>3. from \in Tree
  BY DEF Suits
<1>4. QED
  BY <1>2, <1>3 DEF Tree, made

LEMMA BetweenStart ==
  ASSUME NEW from, NEW plan, Suits(from, plan)
  PROVE  Between(from, from, plan) /\ Done(from, plan) = {}
<1>1. Done(from, plan) = {}
  BY DEF Done, Suits
<1>2. MissingParents(from, plan) \cap from.dirs = {}
  BY MadeIs
<1>3. QED
  BY <1>1, <1>2 DEF Between

(* A file of the plan changes, and its parent is made if it is missing.    *)
LEMMA BetweenWritten ==
  ASSUME NEW t \in Tree, NEW from, NEW plan, Suits(from, plan), Between(t, from, plan),
         NEW p \in DOMAIN plan.changes, NEW c,
         p[1] \in from.dirs \cup {Root} \cup MissingParents(from, plan)
  PROVE  /\ Between(Written(t, p, c), from, plan)
         /\ Done(Written(t, p, c), plan) = Done(t, plan)
<1> DEFINE u == Written(t, p, c)
           done == Done(t, plan)
           made == MissingParents(from, plan)
<1>1. p \in Path /\ p[1] \in Dir \cup {Root} /\ p = <<p[1], p[2]>>
  BY PathIs, PartialFnsDef DEF Suits, Plan
<1>2. \A m \in plan.moves : p[1] # m[1] /\ p[1] # m[2]
  BY DEF Suits, Plain
<1>3. /\ u.dirs = t.dirs \cup ({p[1]} \ {Root})
      /\ \A q \in Path : q # p => u.files[q] = t.files[q]
  BY <1>1 DEF Written, Tree
<1> HIDE DEF u
<1>4. Done(u, plan) = done
  BY <1>2, <1>3 DEF Done
<1>5. done \subseteq plan.moves
  BY DEF Done
<1>6. /\ \A m \in done, n \in Name : t.files[<<m[2], n>>] = from.files[<<m[1], n>>]
      /\ \A q \in Path \ DOMAIN plan.changes :
           (\A m \in done : q[1] \notin {m[1], m[2]}) => t.files[q] = from.files[q]
      /\ \A m, n \in done : m[1] = n[1] => m = n
      /\ t.dirs \ made = (from.dirs \ {m[1] : m \in done}) \cup {m[2] : m \in done}
  BY DEF Between
<1> HIDE DEF done, made
<1>7. u.dirs \ made = t.dirs \ made
  <2>1. p[1] \in from.dirs => p[1] \in t.dirs \ made \/ \E m \in done : p[1] = m[1]
    BY <1>6
  <2>2. QED
    BY <1>2, <1>3, <1>5, <2>1 DEF made
<1>8. \A m \in done, n \in Name : u.files[<<m[2], n>>] = t.files[<<m[2], n>>]
  <2> SUFFICES ASSUME NEW m \in done, NEW n \in Name PROVE <<m[2], n>> \in Path /\ <<m[2], n>> # p
    BY <1>3
  <2>1. m[2] \in Dir /\ m[2] # p[1]
    BY <1>2, <1>5, MoveIs
  <2>2. QED
    BY <2>1, PathIs
<1>9. \A q \in Path \ DOMAIN plan.changes : u.files[q] = t.files[q]
  BY <1>3
<1>10. Between(u, from, plan)
  BY <1>4, <1>6, <1>7, <1>8, <1>9 DEF Between, made
<1>11. QED
  BY <1>4, <1>10 DEF u, done

LEMMA BetweenUnlinked ==
  ASSUME NEW t \in Tree, NEW from, NEW plan, Suits(from, plan), Between(t, from, plan),
         NEW p \in DOMAIN plan.changes
  PROVE  /\ Between(Unlinked(t, p), from, plan)
         /\ Done(Unlinked(t, p), plan) = Done(t, plan)
<1> DEFINE u == Unlinked(t, p)
           done == Done(t, plan)
<1>1. p \in Path /\ p[1] \in Dir \cup {Root} /\ p = <<p[1], p[2]>>
  BY PathIs, PartialFnsDef DEF Suits, Plan
<1>2. \A m \in plan.moves : p[1] # m[1] /\ p[1] # m[2]
  BY DEF Suits, Plain
<1>3. u.dirs = t.dirs /\ \A q \in Path : q # p => u.files[q] = t.files[q]
  BY <1>1 DEF Unlinked, Tree
<1> HIDE DEF u
<1>4. Done(u, plan) = done
  BY <1>3 DEF Done
<1>5. done \subseteq plan.moves
  BY DEF Done
<1> HIDE DEF done
<1>6. \A m \in done, n \in Name : u.files[<<m[2], n>>] = t.files[<<m[2], n>>]
  <2> SUFFICES ASSUME NEW m \in done, NEW n \in Name PROVE <<m[2], n>> \in Path /\ <<m[2], n>> # p
    BY <1>3
  <2>1. m[2] \in Dir /\ m[2] # p[1]
    BY <1>2, <1>5, MoveIs
  <2>2. QED
    BY <2>1, PathIs
<1>7. \A q \in Path \ DOMAIN plan.changes : u.files[q] = t.files[q]
  BY <1>3
<1>8. Between(u, from, plan)
  BY <1>3, <1>4, <1>6, <1>7 DEF Between, done
<1>9. QED
  BY <1>4, <1>8 DEF u, done

(* A move of the plan, and one back.                                       *)
LEMMA MovedDirIs ==
  ASSUME NEW t \in Tree, NEW a \in Dir, NEW b \in Dir, a # b
  PROVE  LET u == MovedDir(t, a, b)
         IN  /\ u.dirs = (t.dirs \ {a}) \cup {b}
             /\ \A n \in Name : u.files[<<b, n>>] = t.files[<<a, n>>] /\ u.files[<<a, n>>] = None
             /\ \A p \in Path : p[1] # a /\ p[1] # b => u.files[p] = t.files[p]
<1> DEFINE u == MovedDir(t, a, b)
           f == [p \in Path |-> CASE p[1] = b -> t.files[<<a, p[2]>>]
                                  [] p[1] = a -> None
                                  [] OTHER -> t.files[p]]
<1>1. u.files = f /\ u.dirs = (t.dirs \ {a}) \cup {b}
  BY DEF MovedDir
<1>2. \A n \in Name : f[<<b, n>>] = t.files[<<a, n>>] /\ f[<<a, n>>] = None
  <2> SUFFICES ASSUME NEW n \in Name PROVE f[<<b, n>>] = t.files[<<a, n>>] /\ f[<<a, n>>] = None
    OBVIOUS
  <2>1. /\ <<b, n>> \in Path /\ <<b, n>>[1] = b /\ <<b, n>>[2] = n
        /\ <<a, n>> \in Path /\ <<a, n>>[1] = a
    BY PathIs
  <2>2. QED
    BY <2>1
<1>3. \A p \in Path : p[1] # a /\ p[1] # b => f[p] = t.files[p]
  OBVIOUS
<1> HIDE DEF f
<1>4. QED
  BY <1>1, <1>2, <1>3

LEMMA BetweenMoved ==
  ASSUME NEW t \in Tree, NEW from, NEW plan, Suits(from, plan), Between(t, from, plan),
         NEW m \in plan.moves, CanMove(t, m[1], m[2])
  PROVE  Between(MovedDir(t, m[1], m[2]), from, plan)
<1> DEFINE u == MovedDir(t, m[1], m[2])
           done == Done(t, plan)
           made == MissingParents(from, plan)
<1>1. /\ m[1] \in Dir /\ m[2] \in Dir /\ m[1] \in from.dirs /\ m[2] \notin from.dirs
      /\ m[1] # m[2] /\ \A n \in plan.moves : m[1] # n[2] /\ m[2] # n[1]
      /\ {m[1], m[2]} \cap made = {}
  BY MoveIs
<1>2. /\ u.dirs = (t.dirs \ {m[1]}) \cup {m[2]}
      /\ \A n \in Name : u.files[<<m[2], n>>] = t.files[<<m[1], n>>]
      /\ \A p \in Path : p[1] # m[1] /\ p[1] # m[2] => u.files[p] = t.files[p]
  BY <1>1, MovedDirIs
<1>3. m[1] \in t.dirs
  BY DEF CanMove
<1>4. /\ done \subseteq plan.moves
      /\ \A n \in plan.moves : n \in done <=> n[2] \in t.dirs
  BY DEF Done
<1>5. /\ \A k \in done, n \in Name : t.files[<<k[2], n>>] = from.files[<<k[1], n>>]
      /\ \A q \in Path \ DOMAIN plan.changes :
           (\A k \in done : q[1] \notin {k[1], k[2]}) => t.files[q] = from.files[q]
      /\ \A k, n \in done : k[1] = n[1] => k = n
      /\ t.dirs \ made = (from.dirs \ {k[1] : k \in done}) \cup {k[2] : k \in done}
  BY DEF Between
<1>6. /\ \A n \in done : n[1] # m[1]
      /\ m \notin done
  BY <1>3, DoneIs DEF Done
<1>7. \A k, n \in plan.moves : k[2] = n[2] => k = n
  BY DEF Suits, Plain
<1> HIDE DEF u, made, done
<1>8. Done(u, plan) = done \cup {m}
  BY <1>1, <1>2, <1>4, <1>7 DEF Done
<1>9. u.dirs \ made = (from.dirs \ {k[1] : k \in Done(u, plan)}) \cup {k[2] : k \in Done(u, plan)}
  BY <1>1, <1>2, <1>4, <1>5, <1>8
<1>10. \A k \in Done(u, plan), n \in Name : u.files[<<k[2], n>>] = from.files[<<k[1], n>>]
  <2> SUFFICES ASSUME NEW k \in Done(u, plan), NEW n \in Name
               PROVE  u.files[<<k[2], n>>] = from.files[<<k[1], n>>]
    OBVIOUS
  <2>1. CASE k = m
    <3>1. <<m[1], n>> \in Path /\ <<m[1], n>>[1] = m[1]
      BY <1>1, PathIs
    <3>2. <<m[1], n>> \notin DOMAIN plan.changes
      BY <3>1 DEF Suits, Plain
    <3>3. \A j \in done : m[1] # j[1] /\ m[1] # j[2]
      BY <1>1, <1>4, <1>6
    <3>4. QED
      BY <1>2, <1>5, <2>1, <3>1, <3>2, <3>3
  <2>2. CASE k # m
    <3>1. k \in done /\ k \in plan.moves
      BY <1>4, <1>8, <2>2
    <3>2. k[2] \in Dir /\ k[2] # m[1] /\ k[2] # m[2]
      BY <1>1, <1>7, <2>2, <3>1, MoveIs
    <3>3. <<k[2], n>> \in Path /\ <<k[2], n>>[1] = k[2]
      BY <3>2, PathIs
    <3>4. QED
      BY <1>2, <1>5, <3>1, <3>2, <3>3
  <2>3. QED
    BY <2>1, <2>2
<1>11. \A q \in Path \ DOMAIN plan.changes :
         (\A k \in Done(u, plan) : q[1] \notin {k[1], k[2]}) => u.files[q] = from.files[q]
  BY <1>2, <1>5, <1>8
<1>12. \A k, n \in Done(u, plan) : k[1] = n[1] => k = n
  BY <1>5, <1>6, <1>8
<1>13. Between(u, from, plan)
  BY <1>9, <1>10, <1>11, <1>12 DEF Between, made
<1>14. QED
  BY <1>13 DEF u

LEMMA BetweenMovedBack ==
  ASSUME NEW t \in Tree, NEW from, NEW plan, Suits(from, plan), Between(t, from, plan),
         NEW m \in plan.moves, m[2] \in t.dirs
  PROVE  /\ Between(MovedDir(t, m[2], m[1]), from, plan)
         /\ Done(MovedDir(t, m[2], m[1]), plan) = Done(t, plan) \ {m}
<1> DEFINE u == MovedDir(t, m[2], m[1])
           done == Done(t, plan)
           made == MissingParents(from, plan)
<1>1. /\ m[1] \in Dir /\ m[2] \in Dir /\ m[1] \in from.dirs /\ m[2] \notin from.dirs
      /\ m[1] # m[2] /\ \A n \in plan.moves : m[1] # n[2] /\ m[2] # n[1]
      /\ {m[1], m[2]} \cap made = {}
  BY MoveIs
<1>2. /\ u.dirs = (t.dirs \ {m[2]}) \cup {m[1]}
      /\ \A n \in Name : u.files[<<m[1], n>>] = t.files[<<m[2], n>>] /\ u.files[<<m[2], n>>] = None
      /\ \A p \in Path : p[1] # m[1] /\ p[1] # m[2] => u.files[p] = t.files[p]
  BY <1>1, MovedDirIs
<1>4. /\ done \subseteq plan.moves
      /\ \A n \in plan.moves : n \in done <=> n[2] \in t.dirs
  BY DEF Done
<1>5. /\ \A k \in done, n \in Name : t.files[<<k[2], n>>] = from.files[<<k[1], n>>]
      /\ \A q \in Path \ DOMAIN plan.changes :
           (\A k \in done : q[1] \notin {k[1], k[2]}) => t.files[q] = from.files[q]
      /\ \A k, n \in done : k[1] = n[1] => k = n
      /\ t.dirs \ made = (from.dirs \ {k[1] : k \in done}) \cup {k[2] : k \in done}
  BY DEF Between
<1>6. m \in done
  BY <1>4
<1>7. \A k, n \in plan.moves : k[2] = n[2] => k = n
  BY DEF Suits, Plain
<1> HIDE DEF u, made, done
<1>8. Done(u, plan) = done \ {m}
  BY <1>1, <1>2, <1>4, <1>7 DEF Done
<1>9. u.dirs \ made = (from.dirs \ {k[1] : k \in Done(u, plan)}) \cup {k[2] : k \in Done(u, plan)}
  <2>1. \A k \in done \ {m} : k[1] # m[1] /\ k[2] # m[2]
    BY <1>4, <1>5, <1>6, <1>7
  <2>2. QED
    BY <1>1, <1>2, <1>5, <1>6, <1>8, <2>1
<1>10. \A k \in Done(u, plan), n \in Name : u.files[<<k[2], n>>] = from.files[<<k[1], n>>]
  <2> SUFFICES ASSUME NEW k \in Done(u, plan), NEW n \in Name
               PROVE  u.files[<<k[2], n>>] = from.files[<<k[1], n>>]
    OBVIOUS
  <2>1. k \in done /\ k \in plan.moves /\ k # m
    BY <1>4, <1>8
  <2>2. k[2] \in Dir /\ k[2] # m[1] /\ k[2] # m[2]
    BY <1>1, <1>7, <2>1, MoveIs
  <2>3. <<k[2], n>> \in Path /\ <<k[2], n>>[1] = k[2]
    BY <2>2, PathIs
  <2>4. QED
    BY <1>2, <1>5, <2>1, <2>2, <2>3
<1>11. ASSUME NEW q \in Path \ DOMAIN plan.changes,
              \A k \in Done(u, plan) : q[1] \notin {k[1], k[2]}
       PROVE  u.files[q] = from.files[q]
  <2>1. CASE q[1] = m[1]
    <3>1. q[2] \in Name /\ q = <<m[1], q[2]>>
      BY <2>1, PathIs
    <3>2. u.files[<<m[1], q[2]>>] = from.files[<<m[1], q[2]>>]
      BY <1>2, <1>5, <1>6, <3>1
    <3>3. QED
      BY <3>1, <3>2
  <2>2. CASE q[1] = m[2]
    <3>1. q[2] \in Name /\ q = <<m[2], q[2]>> /\ q[1] \notin from.dirs \cup {Root}
      BY <1>1, <2>2, PathIs
    <3>2. u.files[q] = None
      BY <1>2, <3>1
    <3>3. from.files[q] = None
      BY <3>1 DEF Suits, Placed, Exists
    <3>4. QED
      BY <3>2, <3>3
  <2>3. CASE q[1] # m[1] /\ q[1] # m[2]
    BY <1>2, <1>5, <1>8, <1>11, <2>3
  <2>4. QED
    BY <2>1, <2>2, <2>3
<1>12. \A k, n \in Done(u, plan) : k[1] = n[1] => k = n
  BY <1>5, <1>8
<1>13. Between(u, from, plan)
  BY <1>9, <1>10, <1>11, <1>12 DEF Between, made
<1>14. QED
  BY <1>8, <1>13 DEF u, done

-----------------------------------------------------------------------------
(* What a session holds of the tree it was opened on.                      *)
HoldsFile(s, files, from, plan, p) ==
  /\ files[p] = Action(from, plan, p)
  /\ Exists(from, p) => p \in DOMAIN s.blobs /\ s.blobs[p] = from.files[p]

Holds(s, from, plan) ==
  LET m == s.manifest
  IN  /\ DOMAIN m.files = DOMAIN plan.changes
      /\ \A p \in DOMAIN m.files : HoldsFile(s, m.files, from, plan, p)
      /\ m.moves = plan.moves /\ m.marks = {}
      /\ m.made = MissingParents(from, plan)

LEMMA HeldIs ==
  ASSUME NEW s, NEW files, NEW from, NEW plan, Suits(from, plan), NEW p \in DOMAIN plan.changes,
         HoldsFile(s, files, from, plan, p)
  PROVE  /\ p \in Path
         /\ files[p] = "created" => from.files[p] = None
         /\ files[p] # "created" => /\ Exists(from, p) /\ s.blobs[p] = from.files[p]
                                    /\ p[1] \in from.dirs \cup {Root}
<1>1. p \in Path
  BY PartialFnsDef DEF Suits, Plan
<1>2. plan.changes[p] = None => Exists(from, p)
  BY DEF Suits, Exists
<1>3. files[p] = "created" <=> ~Exists(from, p)
  BY <1>2 DEF HoldsFile, Action
<1>4. QED
  BY <1>1, <1>3 DEF HoldsFile, Exists, Suits, Placed

(* Restoring a session on a tree its apply, or an undo of it, has left     *)
(* gives the tree the apply started from.                                  *)
LEMMA FilesBackIs ==
  ASSUME NEW t \in Tree, NEW from, NEW plan, Suits(from, plan), Between(t, from, plan),
         NEW s, Holds(s, from, plan)
  PROVE  LET u == FilesBack(t, s)
         IN  /\ Between(u, from, plan)
             /\ \A p \in DOMAIN plan.changes : u.files[p] = from.files[p]
             /\ u.dirs \subseteq Dir \cup t.dirs
<1> DEFINE saved == s.manifest.files
           copied == {p \in DOMAIN saved : saved[p] # "created"}
           f == [p \in Path |-> IF p \in copied THEN s.blobs[p]
                                ELSE IF p \in DOMAIN saved THEN None ELSE t.files[p]]
           u == FilesBack(t, s)
           made == MissingParents(from, plan)
           done == Done(t, plan)
<1>1. u.files = f /\ u.dirs = t.dirs \cup ({p[1] : p \in copied} \ {Root})
  BY DEF FilesBack
<1>2. DOMAIN saved = DOMAIN plan.changes
  BY DEF Holds
<1>3. \A p \in DOMAIN saved :
        /\ p \in Path
        /\ saved[p] = "created" => from.files[p] = None
        /\ saved[p] # "created" => s.blobs[p] = from.files[p] /\ p[1] \in from.dirs \cup {Root}
  BY <1>2, HeldIs DEF Holds
<1>4. \A p \in DOMAIN plan.changes : u.files[p] = from.files[p]
  BY <1>1, <1>2, <1>3
<1>5. \A p \in Path \ DOMAIN plan.changes : u.files[p] = t.files[p]
  BY <1>1, <1>2
<1>6. \A p \in copied : p[1] \in from.dirs \cup {Root} /\ p \in DOMAIN plan.changes
  BY <1>2, <1>3
<1> HIDE DEF u, f, copied, saved
<1>7. /\ done \subseteq plan.moves
      /\ \A m \in done, n \in Name : t.files[<<m[2], n>>] = from.files[<<m[1], n>>]
      /\ \A q \in Path \ DOMAIN plan.changes :
           (\A m \in done : q[1] \notin {m[1], m[2]}) => t.files[q] = from.files[q]
      /\ \A m, n \in done : m[1] = n[1] => m = n
      /\ t.dirs \ made = (from.dirs \ {m[1] : m \in done}) \cup {m[2] : m \in done}
  BY DEF Between, Done
<1>8. \A p \in DOMAIN plan.changes, m \in plan.moves : p[1] # m[1] /\ p[1] # m[2]
  BY DEF Suits, Plain
<1>9. u.dirs = t.dirs
  <2> SUFFICES ASSUME NEW p \in copied, p[1] # Root PROVE p[1] \in t.dirs
    BY <1>1
  <2>1. p[1] \in from.dirs /\ \A m \in done : p[1] # m[1]
    BY <1>6, <1>7, <1>8
  <2> HIDE DEF done, made
  <2>2. QED
    BY <1>7, <2>1
<1>10. Done(u, plan) = done
  BY <1>9 DEF Done
<1> HIDE DEF done, made
<1>11. \A m \in done, n \in Name : u.files[<<m[2], n>>] = from.files[<<m[1], n>>]
  <2> SUFFICES ASSUME NEW m \in done, NEW n \in Name
               PROVE  <<m[2], n>> \in Path /\ <<m[2], n>> \notin DOMAIN plan.changes
    BY <1>5, <1>7
  <2>1. m[2] \in Dir
    BY <1>7, MoveIs
  <2>2. <<m[2], n>> \in Path /\ <<m[2], n>>[1] = m[2]
    BY <2>1, PathIs
  <2>3. QED
    BY <1>7, <1>8, <2>2
<1>12. Between(u, from, plan)
  BY <1>5, <1>7, <1>9, <1>10, <1>11 DEF Between, made
<1>13. u.dirs \subseteq Dir \cup t.dirs
  BY <1>9
<1>14. QED
  BY <1>4, <1>12, <1>13 DEF u

LEMMA RestoredIs ==
  ASSUME NEW t \in Tree, NEW from, NEW plan, Suits(from, plan), Between(t, from, plan),
         NEW s, Holds(s, from, plan)
  PROVE  Restored(t, s) = from
<1> DEFINE v == FilesBack(t, s)
           back == Back(v, s)
           To(d) == CHOOSE m \in back : m[1] = d
           f == [p \in Path |->
                   IF \E m \in back : m[1] = p[1] THEN v.files[<<To(p[1])[2], p[2]>>]
                   ELSE IF \E m \in back : m[2] = p[1] THEN None ELSE v.files[p]]
           ds == (v.dirs \ {m[2] : m \in back}) \cup {m[1] : m \in back}
           u == DirsBack(v, s)
           made == MissingParents(from, plan)
<1>1. /\ Between(v, from, plan)
      /\ \A p \in DOMAIN plan.changes : v.files[p] = from.files[p]
      /\ v.dirs \subseteq Dir
  BY FilesBackIs DEF Tree
<1>2. u = [files |-> f, dirs |-> ds]
  BY DEF DirsBack
<1> HIDE DEF v, u
<1>3. back = Done(v, plan)
  <2>1. s.manifest.moves = plan.moves
    BY DEF Holds
  <2>2. QED
    BY <1>1, <2>1, DoneIs DEF Back, Done
<1> HIDE DEF back
<1>4. /\ \A m \in back, n \in Name : v.files[<<m[2], n>>] = from.files[<<m[1], n>>]
      /\ \A q \in Path \ DOMAIN plan.changes :
           (\A m \in back : q[1] \notin {m[1], m[2]}) => v.files[q] = from.files[q]
      /\ \A m, n \in back : m[1] = n[1] => m = n
      /\ v.dirs \ made = (from.dirs \ {m[1] : m \in back}) \cup {m[2] : m \in back}
      /\ back \subseteq plan.moves
  BY <1>1, <1>3 DEF Between, Done
<1>5. \A m \in back : /\ m[1] \in Dir /\ m[2] \in Dir /\ m[1] \in from.dirs /\ m[2] \notin from.dirs
                      /\ m[1] \notin made /\ m[2] \notin made
                      /\ \A n \in back : m[1] # n[2]
  BY <1>4, MoveIs
<1>6. \A m \in back : To(m[1]) = m
  BY <1>4
<1> HIDE DEF To, made
<1>7. ASSUME NEW p \in Path PROVE f[p] = from.files[p]
  <2>1. CASE \E m \in back : m[1] = p[1]
    <3>1. PICK m \in back : m[1] = p[1]
      BY <2>1
    <3>2. To(p[1]) = m /\ p[2] \in Name /\ p = <<m[1], p[2]>>
      BY <1>6, <3>1, PathIs
    <3>3. f[p] = v.files[<<m[2], p[2]>>]
      BY <2>1, <3>2
    <3> HIDE DEF f
    <3>4. f[p] = from.files[<<m[1], p[2]>>]
      BY <1>4, <3>2, <3>3
    <3>5. QED
      BY <3>2, <3>4
  <2>2. CASE (\A m \in back : m[1] # p[1]) /\ \E m \in back : m[2] = p[1]
    <3>1. f[p] = None
      BY <2>2
    <3>2. p[1] \notin from.dirs /\ p[1] # Root
      BY <1>5, <2>2, PathIs
    <3>3. QED
      BY <3>1, <3>2 DEF Suits, Placed, Exists
  <2>3. CASE \A m \in back : p[1] \notin {m[1], m[2]}
    <3>1. f[p] = v.files[p]
      BY <2>3
    <3> HIDE DEF f
    <3>2. QED
      BY <1>1, <1>4, <2>3, <3>1
  <2>4. QED
    BY <2>1, <2>2, <2>3
<1>8. f = from.files
  <2>1. from.files = [p \in Path |-> from.files[p]]
    BY DEF Suits, Tree
  <2>2. f = [p \in Path |-> f[p]]
    OBVIOUS
  <2> HIDE DEF f
  <2>3. QED
    BY <1>7, <2>1, <2>2
<1>9. ds \ made = from.dirs
  BY <1>4, <1>5
<1>10. ds \subseteq Dir
  BY <1>1, <1>5
<1> HIDE DEF f, ds
<1>11. u \in Tree /\ u.files = from.files /\ u.dirs = ds
  BY <1>2, <1>8, <1>10 DEF Suits, Tree
<1>12. [u EXCEPT !.dirs = @ \ {d \in MissingParents(from, plan) : IsEmptyDir(u, d)}] = from
  BY <1>9, <1>11, TidyIs DEF made
<1>13. s.manifest.made = MissingParents(from, plan)
  BY DEF Holds
<1>14. QED
  BY <1>12, <1>13 DEF Restored, u, v

-----------------------------------------------------------------------------
(* The history, as long as it is a line of plans that do not tangle.       *)
InOrder == straight /\ Untangled

Latest(i) == \A j \in Standing : j.at <= i.at

NextTo(i, j) == i.at < j.at /\ \A k \in Standing : k.at <= i.at \/ j.at <= k.at

(* A session that was opened; one an undo could be asked for, which holds  *)
(* what takes its apply back, from where the next one began or from here.  *)
Begun(i) == i.at <= now /\ Suits(opened[i].from, opened[i].plan)

Tied(i) ==
  LET o == opened[i]
  IN  /\ Holds(store[i], o.from, o.plan)
      /\ Latest(i) => Between(tree, o.from, o.plan)
      /\ \A j \in Standing : NextTo(i, j) => Between(opened[j].from, o.from, o.plan)

(* How far a restore of a whole session has come.                          *)
AsFound(t, from, plan, left) ==
  \A p \in DOMAIN plan.changes \ left : t.files[p] = from.files[p]

RestoredSoFar(me, t) ==
  LET o == opened[me.id]
  IN  me.only = None => AsFound(t, o.from, o.plan, me.left) /\ Done(t, o.plan) \subseteq me.moves

(* A process at work, on a workspace: it works on the newest session, and  *)
(* what a restore has done stays done.                                     *)
WorksAs(me, t) ==
  LET o == opened[me.id]
      s == store[me.id]
  IN  /\ me.pc \in {"pruning", "saving"} =>
           /\ Latest(me.id) /\ t = o.from /\ me.plan = o.plan /\ me.moves = o.plan.moves
           /\ \A p \in DOMAIN me.entries.files :
                HoldsFile(s, me.entries.files, o.from, o.plan, p)
      /\ me.pc \in {"writing", "checking", "restoring"} => me.id \in Standing /\ Latest(me.id)
      /\ me.pc = "writing" => me.plan = o.plan /\ me.moves \subseteq o.plan.moves
      /\ me.pc \in {"checking", "restoring"} =>
           /\ me.only = None \/ me.only \in DOMAIN o.plan.changes
           /\ me.undo => me.only = None
      /\ me.pc = "restoring" =>
           /\ me.entries = s.manifest
           /\ me.left \subseteq DOMAIN o.plan.changes /\ me.moves \subseteq o.plan.moves
           /\ RestoredSoFar(me, t)

Works(self) == WorksAs(proc[self], tree)

Line ==
  /\ \A i, j \in DOMAIN opened : i.at = j.at => i = j
  /\ \A i \in DOMAIN opened : Begun(i)
  /\ \A i \in Standing : Tied(i)
  /\ \A self \in Proc : Works(self)

HistoryInv == InOrder => Line

(* What the store's invariant says of the sessions, and of the process     *)
(* that is not idle.                                                       *)
LEMMA SessionFacts ==
  ASSUME StoreInv
  PROVE  /\ tree \in Tree /\ Placed(tree) /\ now \in Nat
         /\ Standing \subseteq Listed /\ Listed \subseteq DOMAIN store
         /\ DOMAIN store \subseteq DOMAIN opened
         /\ \A i \in DOMAIN opened : /\ i.at \in Nat /\ i.at \in 0..MaxTime
                                     /\ opened[i].from \in Tree /\ opened[i].plan \in Plan
         /\ \A i \in Listed : store[i].manifest # None
<1>1. Standing \subseteq Listed /\ Listed \subseteq DOMAIN store
  BY DEF Standing, Listed
<1>2. \A i \in DOMAIN opened : i \in SessionId /\ opened[i] \in Opened
  BY DEF StoreInv, TypeInv, OpenedTypes
<1>3. \A i \in DOMAIN opened : i.at \in Nat /\ i.at \in 0..MaxTime
  BY <1>2 DEF SessionId
<1>4. \A i \in DOMAIN opened : opened[i].from \in Tree /\ opened[i].plan \in Plan
  BY <1>2, StoreAssumption DEF Opened
<1>5. DOMAIN store \subseteq DOMAIN opened /\ tree \in Tree /\ Placed(tree) /\ now \in Nat
  BY DEF StoreInv, TypeInv, StoreTypes
<1>6. \A i \in Listed : store[i].manifest # None
  BY DEF Listed
<1>7. QED
  BY <1>1, <1>3, <1>4, <1>5, <1>6

LEMMA AtWorkAlone ==
  ASSUME StoreInv, straight, NEW self \in Proc, proc[self].pc # "idle"
  PROVE  \A q \in Proc \ {self} : proc[q].pc = "idle" /\ proc[q].doomed = {}
BY DEF StoreInv, OneByOne, Fine, Removes

LEMMA StandingOf ==
  ASSUME NEW self \in Proc, \A q \in Proc \ {self} : proc[q].doomed = {}
  PROVE  Standing = Listed \ proc[self].doomed
BY DEF Standing

LEMMA NewestIsOne ==
  ASSUME StoreInv, Line, NEW i \in Standing, Latest(i)
  PROVE  /\ \A j \in Standing : Latest(j) => j = i
         /\ \A j \in Standing \ {i} : j.at < i.at
<1>1. \A j \in Standing : j \in DOMAIN opened /\ j.at \in Nat
  BY SessionFacts
<1>2. QED
  BY <1>1 DEF Latest, Line

(* The tree the newest session stands for.                                 *)
LEMMA NewestBetween ==
  ASSUME StoreInv, Line, NEW i \in Standing, Latest(i)
  PROVE  /\ Suits(opened[i].from, opened[i].plan)
         /\ Between(tree, opened[i].from, opened[i].plan)
         /\ Holds(store[i], opened[i].from, opened[i].plan)
BY SessionFacts DEF Line, Tied, Begun

(* A step that leaves the sessions as they are, and the tree within the    *)
(* newest of them.                                                         *)
LEMMA LineKept ==
  ASSUME StoreInv, Line, NEW self \in Proc,
         \A q \in Proc \ {self} : proc'[q].pc = "idle",
         DOMAIN opened' = DOMAIN opened,
         \A i \in DOMAIN opened : opened'[i].from = opened[i].from /\ opened'[i].plan = opened[i].plan,
         now' = now, Standing' = Standing, \A i \in Standing : store'[i] = store[i],
         \A i \in Standing : Latest(i) => Between(tree', opened[i].from, opened[i].plan),
         Works(self)'
  PROVE  Line'
<1>1. \A i \in Standing : i \in DOMAIN opened
  BY SessionFacts
<1>2. \A i, j \in DOMAIN opened' : i.at = j.at => i = j
  BY DEF Line
<1>3. \A i \in DOMAIN opened' : Begun(i)'
  BY DEF Line, Begun
<1>4. ASSUME NEW i \in Standing PROVE Tied(i)'
  <2>1. Tied(i) /\ store'[i] = store[i]
    BY DEF Line
  <2>2. opened'[i].from = opened[i].from /\ opened'[i].plan = opened[i].plan
    BY <1>1
  <2>3. Latest(i)' <=> Latest(i)
    BY DEF Latest
  <2>4. \A j \in Standing : /\ NextTo(i, j)' <=> NextTo(i, j)
                            /\ opened'[j].from = opened[j].from
    BY <1>1 DEF NextTo
  <2>5. QED
    BY <2>1, <2>2, <2>3, <2>4 DEF Tied
<1>5. \A q \in Proc : Works(q)'
  BY DEF Works, WorksAs
<1>6. QED
  BY <1>2, <1>3, <1>4, <1>5 DEF Line

(* A step of the process at work on the workspace alone.                   *)
LEMMA WorkGoesOn ==
  ASSUME StoreInv, Line, straight, NEW self \in Proc, proc[self].pc # "idle",
         NEW r, Become(self, r), r.doomed = proc[self].doomed,
         UNCHANGED <<store, opened, now>>,
         \A i \in Standing : Latest(i) => Between(tree', opened[i].from, opened[i].plan),
         WorksAs(r, tree')
  PROVE  Line'
<1>1. proc'[self] = r /\ \A q \in Proc \ {self} : proc'[q] = proc[q] /\ proc[q].pc = "idle"
  BY AtWorkAlone DEF Become, StoreInv, TypeInv
<1>2. Standing' = Standing
  BY <1>1 DEF Standing, Listed
<1>3. Latest(r.id)' <=> Latest(r.id)
  BY <1>2 DEF Latest
<1>4. Works(self)'
  BY <1>1, <1>2, <1>3 DEF Works, WorksAs, RestoredSoFar
<1>5. QED
  BY <1>1, <1>2, <1>4, LineKept

(* And one that ends what it did, within the newest session.               *)
LEMMA IdleWorksAs == ASSUME NEW r, NEW t, r.pc \in {"idle", "removing"} PROVE WorksAs(r, t)
BY DEF WorksAs

LEMMA WorkEnds ==
  ASSUME StoreInv, Line, straight, NEW self \in Proc, proc[self].pc # "idle",
         Become(self, Idle), proc[self].doomed = {}, UNCHANGED <<tree, store, opened, now>>
  PROVE  Line'
<1>1. Idle.doomed = {} /\ WorksAs(Idle, tree')
  BY IdleWorksAs DEF Idle
<1>2. \A i \in Standing : Latest(i) => Between(tree', opened[i].from, opened[i].plan)
  BY DEF Line, Tied
<1>3. QED
  BY <1>1, <1>2, WorkGoesOn

LEMMA EndRemovalInLine ==
  ASSUME StoreInv, Line, straight, NEW self \in Proc, EndRemoval(self)
  PROVE  Line'
<1> DEFINE me == proc[self]
           r == [me EXCEPT !.pc = "saving", !.doomed = {}]
<1>1. /\ me.pc \in {"pruning", "removing"} /\ me.doomed \cap DOMAIN store = {}
      /\ Become(self, IF me.pc = "removing" THEN Idle ELSE r)
      /\ UNCHANGED <<tree, store, opened, now>>
  BY DEF EndRemoval
<1>2. me \in Work /\ \A q \in Proc \ {self} : proc[q].doomed = {}
  BY <1>1, AtWorkAlone DEF StoreInv, TypeInv
<1>3. /\ r.pc = "saving" /\ r.doomed = {} /\ r.id = me.id /\ r.plan = me.plan
      /\ r.moves = me.moves /\ r.entries = me.entries
  BY <1>2 DEF Work
<1> HIDE DEF r
<1>4. PICK v : /\ Become(self, v) /\ v.doomed = {}
               /\ me.pc = "removing" => v = Idle
               /\ me.pc = "pruning" => v = r
  BY <1>1, <1>3 DEF Idle
<1>5. proc'[self] = v /\ \A q \in Proc \ {self} : proc'[q] = proc[q] /\ proc[q].pc = "idle"
  BY <1>1, <1>4, AtWorkAlone DEF Become, StoreInv, TypeInv
<1>6. Standing' = Standing
  <2>1. Listed \ me.doomed = Listed
    BY <1>1 DEF Listed
  <2>2. Standing = Listed
    BY <1>2, <2>1, StandingOf
  <2>3. Standing' = Listed'
    BY <1>2, <1>4, <1>5 DEF Standing
  <2>4. QED
    BY <1>1, <2>2, <2>3 DEF Listed
<1>7. WorksAs(v, tree)
  <2>1. CASE me.pc = "removing"
    BY <1>4, <2>1, IdleWorksAs DEF Idle
  <2>2. CASE me.pc = "pruning"
    <3>1. WorksAs(me, tree)
      BY DEF Line, Works
    <3>2. QED
      BY <1>3, <1>4, <2>2, <3>1 DEF WorksAs
  <2>3. QED
    BY <1>1, <2>1, <2>2
<1>8. Works(self)'
  <2>1. Latest(v.id)' <=> Latest(v.id)
    BY <1>6 DEF Latest
  <2>2. QED
    BY <1>1, <1>5, <1>6, <1>7, <2>1 DEF Works, WorksAs, RestoredSoFar
<1>9. \A i \in Standing : Latest(i) => Between(tree', opened[i].from, opened[i].plan)
  BY <1>1 DEF Line, Tied
<1>10. QED
  BY <1>1, <1>5, <1>6, <1>8, <1>9, LineKept

-----------------------------------------------------------------------------
(* The writes of an apply.                                                 *)
LEMMA FailedWriteInLine ==
  ASSUME StoreInv, Line, straight, NEW self \in Proc, proc[self].pc = "writing",
         FailedWrite(self)
  PROVE  Line'
<1> DEFINE me == proc[self]
           r == StartRestore(me, NoEntries)
<1>1. Become(self, r) /\ UNCHANGED <<tree, store, opened, now>>
  BY DEF FailedWrite
<1>2. me \in Work /\ me.only = None /\ WorksAs(me, tree)
  BY DEF StoreInv, TypeInv, Fine, Applies, InApply, Line, Works
<1>3. r.pc = "checking" /\ r.doomed = me.doomed /\ r.id = me.id /\ r.only = None
  BY <1>2 DEF StartRestore, Work
<1> HIDE DEF r
<1>4. WorksAs(r, tree)
  BY <1>2, <1>3 DEF WorksAs
<1>5. \A i \in Standing : Latest(i) => Between(tree', opened[i].from, opened[i].plan)
  BY <1>1 DEF Line, Tied
<1>6. QED
  BY <1>1, <1>3, <1>4, <1>5, WorkGoesOn

LEMMA MoveDirsInLine ==
  ASSUME StoreInv, Line, straight, NEW self \in Proc, MoveDirs(self)
  PROVE  Line'
<1> DEFINE me == proc[self]
           o == opened[me.id]
<1>1. PICK m \in me.moves :
        \/ /\ CanMove(tree, m[1], m[2])
           /\ tree' = MovedDir(tree, m[1], m[2])
           /\ Become(self, [me EXCEPT !.moves = @ \ {m}])
           /\ UNCHANGED <<store, count, now, faults, opened, straight>>
        \/ FailedWrite(self)
  BY DEF MoveDirs
<1>2. me.pc = "writing"
  BY DEF MoveDirs
<1>3. me \in Work /\ WorksAs(me, tree)
  BY DEF StoreInv, TypeInv, Line, Works
<1>4. me.id \in Standing /\ Latest(me.id) /\ me.plan = o.plan /\ me.moves \subseteq o.plan.moves
  BY <1>2, <1>3 DEF WorksAs
<1>5. CASE FailedWrite(self)
  BY <1>2, <1>5, FailedWriteInLine
<1>6. CASE ~FailedWrite(self)
  <2> DEFINE r == [me EXCEPT !.moves = @ \ {m}]
  <2>1. /\ r.pc = "writing" /\ r.doomed = me.doomed /\ r.id = me.id /\ r.plan = me.plan
        /\ r.moves = me.moves \ {m}
    BY <1>2, <1>3 DEF Work
  <2>2. /\ CanMove(tree, m[1], m[2]) /\ tree' = MovedDir(tree, m[1], m[2])
        /\ Become(self, r) /\ UNCHANGED <<store, opened, now>>
    BY <1>1, <1>6
  <2> HIDE DEF r
  <2>3. Between(tree', o.from, o.plan)
    BY <1>4, <2>2, NewestBetween, BetweenMoved, SessionFacts
  <2>4. WorksAs(r, tree')
    BY <1>4, <2>1 DEF WorksAs
  <2>5. QED
    BY <1>2, <1>4, <2>1, <2>2, <2>3, <2>4, NewestIsOne, WorkGoesOn
<1>7. QED
  BY <1>5, <1>6

LEMMA WriteOneInLine ==
  ASSUME StoreInv, Line, straight, NEW self \in Proc, WriteOne(self)
  PROVE  Line'
<1> DEFINE me == proc[self]
           o == opened[me.id]
           p == First(me.left)
           c == me.plan.changes[p]
           r == [me EXCEPT !.left = @ \ {p}, !.wrote = @ \cup {p}]
<1>1. /\ me.pc = "writing" /\ me.left # {}
      /\ \/ /\ tree' = IF c = None THEN Unlinked(tree, p) ELSE Written(tree, p, c)
            /\ Become(self, r) /\ UNCHANGED <<store, opened, now>>
         \/ FailedWrite(self)
  BY DEF WriteOne
<1>2. /\ me \in Work /\ WorksAs(me, tree) /\ me.left \subseteq DOMAIN me.plan.changes
  BY <1>1 DEF StoreInv, TypeInv, Fine, Applies, InApply, Line, Works
<1>3. me.id \in Standing /\ Latest(me.id) /\ me.plan = o.plan /\ me.moves \subseteq o.plan.moves
  BY <1>1, <1>2 DEF WorksAs
<1>4. p \in me.left /\ p \in DOMAIN o.plan.changes
  BY <1>1, <1>2, <1>3, Choices
<1>5. CASE FailedWrite(self)
  BY <1>1, <1>5, FailedWriteInLine
<1>6. CASE ~FailedWrite(self)
  <2>1. /\ r.pc = "writing" /\ r.doomed = me.doomed /\ r.id = me.id /\ r.plan = me.plan
        /\ r.moves = me.moves
    BY <1>1, <1>2 DEF Work
  <2>2. /\ tree' = IF c = None THEN Unlinked(tree, p) ELSE Written(tree, p, c)
        /\ Become(self, r) /\ UNCHANGED <<store, opened, now>>
    BY <1>1, <1>6
  <2>3. Suits(o.from, o.plan) /\ Between(tree, o.from, o.plan) /\ tree \in Tree
    BY <1>3, NewestBetween, SessionFacts
  <2>4. c # None => p[1] \in o.from.dirs \cup {Root} \cup MissingParents(o.from, o.plan)
    BY <1>3, <1>4 DEF MissingParents
  <2> HIDE DEF r, p, c
  <2>5. Between(tree', o.from, o.plan)
    BY <1>4, <2>2, <2>3, <2>4, BetweenWritten, BetweenUnlinked
  <2>6. WorksAs(r, tree')
    BY <1>3, <2>1 DEF WorksAs
  <2>7. QED
    BY <1>1, <1>3, <2>1, <2>2, <2>5, <2>6, NewestIsOne, WorkGoesOn
<1>7. QED
  BY <1>5, <1>6

LEMMA WriteFailsInLine ==
  ASSUME StoreInv, Line, straight, NEW self \in Proc, WriteFails(self)
  PROVE  Line'
BY FailedWriteInLine DEF WriteFails

LEMMA EndApplyInLine ==
  ASSUME StoreInv, Line, straight, NEW self \in Proc, EndApply(self)
  PROVE  Line'
<1>1. proc[self].pc = "writing" /\ Become(self, Idle) /\ UNCHANGED <<tree, store, opened, now>>
  BY DEF EndApply
<1>2. proc[self].doomed = {}
  BY <1>1 DEF StoreInv, Fine, Removes
<1>3. QED
  BY <1>1, <1>2, WorkEnds

-----------------------------------------------------------------------------
(* The saves of an apply: its session is not listed yet.                   *)
LEMMA OwnUnlisted ==
  ASSUME StoreInv, Line, NEW self \in Proc, proc[self].pc \in {"pruning", "saving"}
  PROVE  LET me == proc[self]
             o == opened[me.id]
         IN  /\ me \in Work /\ me.plan = o.plan /\ me.moves = o.plan.moves /\ tree = o.from
             /\ me.id \in DOMAIN store /\ me.id \in DOMAIN opened /\ me.id \notin Listed
             /\ me.id \notin Standing /\ Latest(me.id) /\ ~o.undone
             /\ Suits(o.from, o.plan)
             /\ DOMAIN me.entries.files = DOMAIN o.plan.changes \ me.left
             /\ me.left \subseteq DOMAIN o.plan.changes
             /\ \A p \in DOMAIN me.entries.files :
                  HoldsFile(store[me.id], me.entries.files, o.from, o.plan, p)
<1> DEFINE me == proc[self]
           o == opened[me.id]
<1>1. /\ me \in Work /\ me.id \in DOMAIN opened /\ me.id \in DOMAIN store
      /\ store[me.id].manifest = None /\ ~o.undone
      /\ DOMAIN me.entries.files = DOMAIN me.plan.changes \ me.left
      /\ me.left \subseteq DOMAIN me.plan.changes
  BY DEF StoreInv, TypeInv, Fine, Applies, Saves, InApply
<1>2. WorksAs(me, tree) /\ Begun(me.id)
  BY <1>1 DEF Line, Works
<1>3. me.id \notin Listed /\ me.id \notin Standing
  BY <1>1 DEF Standing, Listed
<1>4. QED
  BY <1>1, <1>2, <1>3 DEF WorksAs, Begun

Saved(me, p, a) ==
  [me EXCEPT !.left = @ \ {p}, !.entries.files = WithEntry(@, p, a)]

LEMMA SavedIs ==
  ASSUME NEW me \in Work, NEW p, NEW a, NEW r, r = Saved(me, p, a)
  PROVE  /\ r.pc = me.pc /\ r.doomed = me.doomed /\ r.id = me.id /\ r.plan = me.plan
         /\ r.moves = me.moves /\ r.entries.files = WithEntry(me.entries.files, p, a)
BY DEF Work, Entries, Saved

(* A function with one entry more, or another one for p.                   *)
OneMore(f, g, p, a) ==
  /\ DOMAIN g = DOMAIN f \cup {p} /\ g[p] = a
  /\ \A q \in DOMAIN f \ {p} : g[q] = f[q]

LEMMA EntryIs == ASSUME NEW f, NEW p, NEW a PROVE OneMore(f, WithEntry(f, p, a), p, a)
BY DEF WithEntry, OneMore

(* One file more in a session, and in the record its process keeps.        *)
LEMMA HoldsOneMore ==
  ASSUME NEW s, NEW files, NEW from, NEW plan, NEW p, NEW z, NEW fs,
         \A q \in DOMAIN files : HoldsFile(s, files, from, plan, q),
         OneMore(files, fs, p, Action(from, plan, p)),
         Exists(from, p) => OneMore(s.blobs, z.blobs, p, from.files[p]),
         ~Exists(from, p) => z.blobs = s.blobs
  PROVE  \A q \in DOMAIN fs : HoldsFile(z, fs, from, plan, q)
<1> SUFFICES ASSUME NEW q \in DOMAIN fs PROVE HoldsFile(z, fs, from, plan, q)
  OBVIOUS
<1>1. CASE q = p
  BY <1>1 DEF HoldsFile, OneMore
<1>2. CASE q # p
  <2>1. q \in DOMAIN files /\ fs[q] = files[q]
    BY <1>2 DEF OneMore
  <2>2. HoldsFile(s, files, from, plan, q)
    BY <2>1
  <2>3. q \in DOMAIN s.blobs => q \in DOMAIN z.blobs /\ z.blobs[q] = s.blobs[q]
    BY <1>2 DEF OneMore
  <2>4. QED
    BY <2>1, <2>2, <2>3 DEF HoldsFile
<1>3. QED
  BY <1>1, <1>2

LEMMA SaveInLine ==
  ASSUME StoreInv, Line, straight, NEW self \in Proc, Save(self)
  PROVE  Line'
<1>1. PICK me, n, from, plan, s, p, r :
        /\ me = proc[self] /\ n = me.id /\ s = store[n]
        /\ from = opened[n].from /\ plan = opened[n].plan
        /\ p = First(me.left)
        /\ r = Saved(me, p, Action(tree, me.plan, p))
  OBVIOUS
<1>2. me.pc = "saving" /\ Become(self, r) /\ UNCHANGED <<tree, now, opened, straight>>
  BY <1>1 DEF Save, Saved
<1>2a. /\ Exists(tree, p) =>
            store' = [store EXCEPT ![n].blobs = WithEntry(@, p, tree.files[p]), ![n].mtime = now]
       /\ ~Exists(tree, p) => store' = store
  BY <1>1 DEF Save
<1>3. /\ me \in Work /\ me.plan = plan /\ me.moves = plan.moves /\ tree = from
      /\ n \in DOMAIN store /\ n \notin Listed /\ n \notin Standing /\ Latest(n)
  BY <1>1, <1>2, OwnUnlisted
<1>4. \A q \in DOMAIN me.entries.files : HoldsFile(s, me.entries.files, from, plan, q)
  BY <1>1, <1>2, OwnUnlisted
<1>5. s \in Session
  BY <1>1, <1>3 DEF StoreInv, TypeInv, StoreTypes
<1>6. /\ DOMAIN store' = DOMAIN store
      /\ \A i \in DOMAIN store \ {n} : store'[i] = store[i]
      /\ store'[n].manifest = s.manifest
      /\ Exists(from, p) => store'[n].blobs = WithEntry(s.blobs, p, from.files[p])
      /\ ~Exists(from, p) => store'[n].blobs = s.blobs
  <2>1. CASE Exists(from, p)
    <3>1. PICK bs : bs = WithEntry(s.blobs, p, from.files[p])
      BY Zenon
    <3>1a. store' = [store EXCEPT ![n].blobs = WithEntry(@, p, from.files[p]), ![n].mtime = now]
      BY <1>2a, <1>3, <2>1
    <3>2. store' = [store EXCEPT ![n] = [s EXCEPT !.blobs = bs, !.mtime = now]]
      <4>1. s = store[n] /\ n \in DOMAIN store
        BY <1>1, <1>3
      <4>2. QED
        BY <1>5, <3>1, <3>1a, <4>1 DEF Session
    <3>3. /\ [s EXCEPT !.blobs = bs, !.mtime = now].blobs = bs
          /\ [s EXCEPT !.blobs = bs, !.mtime = now].manifest = s.manifest
      BY <1>5 DEF Session
    <3>4. PICK z : z = [s EXCEPT !.blobs = bs, !.mtime = now]
      OBVIOUS
    <3>5. store' = [store EXCEPT ![n] = z]
      BY <3>2, <3>4
    <3>6. z.blobs = bs /\ z.manifest = s.manifest
      BY <3>3, <3>4
    <3>7. /\ DOMAIN store' = DOMAIN store /\ store'[n] = z
          /\ \A i \in DOMAIN store \ {n} : store'[i] = store[i]
      BY <1>3, <3>5
    <3>8. QED
      BY <2>1, <3>1, <3>6, <3>7
  <2>2. CASE ~Exists(from, p)
    <3>1. store' = store
      BY <1>2a, <1>3, <2>2
    <3>2. QED
      BY <1>1, <2>2, <3>1
  <2>3. QED
    BY <2>1, <2>2
<1>7. /\ r.pc = "saving" /\ r.doomed = me.doomed /\ r.id = n /\ r.plan = plan
      /\ r.moves = plan.moves
      /\ r.entries.files = WithEntry(me.entries.files, p, Action(from, plan, p))
  BY <1>1, <1>2, <1>3, SavedIs
<1>8. \A q \in DOMAIN r.entries.files :
        HoldsFile(store'[n], r.entries.files, from, plan, q)
  <2>1. PICK z, fs, a : z = store'[n] /\ fs = r.entries.files /\ a = Action(from, plan, p)
    OBVIOUS
  <2>2. OneMore(me.entries.files, fs, p, a)
    BY <1>7, <2>1, EntryIs
  <2>3. Exists(from, p) => OneMore(s.blobs, z.blobs, p, from.files[p])
    BY <1>6, <2>1, EntryIs
  <2>4. ~Exists(from, p) => z.blobs = s.blobs
    BY <1>6, <2>1
  <2>5. \A q \in DOMAIN fs : HoldsFile(z, fs, from, plan, q)
    BY <1>4, <2>1, <2>2, <2>3, <2>4, HoldsOneMore
  <2>6. QED
    BY <2>1, <2>5
<1>9. proc'[self] = r /\ \A q \in Proc \ {self} : proc'[q] = proc[q] /\ proc[q].pc = "idle"
  BY <1>1, <1>2, AtWorkAlone DEF Become, StoreInv, TypeInv
<1>10. Listed' = Listed
  BY <1>1, <1>3, <1>6 DEF Listed
<1>11. Standing' = Standing
  BY <1>1, <1>7, <1>9, <1>10 DEF Standing
<1>12. Works(self)'
  <2>1. Latest(n)'
    BY <1>3, <1>11 DEF Latest
  <2>2. tree' = opened'[n].from /\ plan = opened'[n].plan
    BY <1>1, <1>2, <1>3
  <2>3. proc'[self] = r /\ r.pc = "saving" /\ r.id = n /\ r.plan = plan /\ r.moves = plan.moves
    BY <1>7, <1>9
  <2>4. \A q \in DOMAIN r.entries.files :
          HoldsFile(store'[n], r.entries.files, opened'[n].from, opened'[n].plan, q)
    BY <1>1, <1>2, <1>8
  <2>5. QED
    BY <2>1, <2>2, <2>3, <2>4 DEF Works, WorksAs
<1>13. \A i \in Standing : Latest(i) => Between(tree', opened[i].from, opened[i].plan)
  BY <1>2 DEF Line, Tied
<1>14. \A i \in Standing : store'[i] = store[i]
  BY <1>3, <1>6, SessionFacts
<1>15. QED
  BY <1>2, <1>9, <1>11, <1>12, <1>13, <1>14, LineKept

(* The manifest: the session is one an undo could be asked for, the newest,*)
(* and the one before it is tied to where this one began.                  *)
LEMMA FinalizeInLine ==
  ASSUME StoreInv, Line, straight, NEW self \in Proc, Finalize(self)
  PROVE  Line'
<1> DEFINE me == proc[self]
           n == me.id
           o == opened[n]
           s == store[n]
           marks == {m[2] : m \in {k \in me.moves : k[2] \in tree.dirs}}
           moves == {m \in me.moves : m[2] \notin marks /\ m[1] \in tree.dirs}
           e == [me.entries EXCEPT !.marks = marks, !.moves = moves,
                                   !.made = MissingParents(tree, me.plan)]
           z == [s EXCEPT !.manifest = e, !.mtime = now]
           r == [me EXCEPT !.pc = "writing", !.entries = e, !.left = DOMAIN me.plan.changes]
<1>1. /\ me.pc = "saving" /\ me.left = {}
      /\ store' = [store EXCEPT ![n].manifest = e, ![n].mtime = now]
      /\ Become(self, r)
      /\ UNCHANGED <<tree, count, now, faults, opened, straight>>
  BY Zenon DEF Finalize
<1>2. /\ me \in Work /\ me.plan = o.plan /\ me.moves = o.plan.moves /\ tree = o.from
      /\ n \in DOMAIN store /\ n \in DOMAIN opened /\ n \notin Listed
      /\ n \notin Standing /\ Latest(n) /\ Suits(o.from, o.plan)
      /\ DOMAIN me.entries.files = DOMAIN o.plan.changes
      /\ \A q \in DOMAIN me.entries.files : HoldsFile(s, me.entries.files, o.from, o.plan, q)
  <2> HIDE DEF r, z, e
  <2>1. QED
    BY <1>1, OwnUnlisted
<1>3. s \in Session /\ store \in [DOMAIN store -> Session] /\ me.entries \in Entries
  <2> HIDE DEF r, z, e
  <2>1. QED
    BY <1>2 DEF StoreInv, TypeInv, StoreTypes, Work
<1>4. store' = [store EXCEPT ![n] = z]
  <2> HIDE DEF r, e
  <2>1. QED
    BY <1>1, <1>2, <1>3 DEF Session
<1>5. marks = {} /\ moves = o.plan.moves
  BY <1>2 DEF Suits
<1>6. /\ e.files = me.entries.files /\ e.moves = o.plan.moves /\ e.marks = {}
      /\ e.made = MissingParents(o.from, o.plan)
  <2> HIDE DEF marks, moves
  <2>1. QED
    BY <1>2, <1>3, <1>5 DEF Entries
<1>6a. e \in Entries
  <2>1. MissingParents(tree, me.plan) \subseteq Dir
    BY <1>2, MadeIs
  <2>2. marks \subseteq Dir /\ moves \subseteq Dir \X Dir
    BY <1>2, <1>5 DEF Suits, Plan
  <2> HIDE DEF marks, moves
  <2>3. QED
    BY <1>3, <2>1, <2>2 DEF Entries
<1> HIDE DEF e
<1>7. /\ r.pc = "writing" /\ r.doomed = me.doomed /\ r.id = n /\ r.plan = me.plan
      /\ r.moves = me.moves
  BY <1>2 DEF Work
<1>8. z.blobs = s.blobs /\ z.manifest = e
  BY <1>3 DEF Session
<1> HIDE DEF r, z
<1>9. /\ DOMAIN store' = DOMAIN store /\ store'[n] = z
      /\ \A i \in DOMAIN store \ {n} : store'[i] = store[i]
  BY <1>2, <1>4
<1>10. proc'[self] = r /\ \A q \in Proc \ {self} : /\ proc'[q] = proc[q] /\ proc[q].pc = "idle"
                                                  /\ proc[q].doomed = {}
  BY <1>1, AtWorkAlone DEF Become, StoreInv, TypeInv
<1>11. me.doomed = {}
  BY <1>1 DEF StoreInv, Fine, Removes
<1>12. e # None
  BY <1>6a, StoreAssumption
<1>13. Listed' = Listed \cup {n}
  BY <1>2, <1>8, <1>9, <1>12 DEF Listed
<1>14. Standing' = Standing \cup {n}
  <2>1. Standing = Listed
    BY <1>10, <1>11, StandingOf
  <2>2. Standing' = Listed'
    BY <1>7, <1>10, <1>11 DEF Standing
  <2>3. QED
    BY <1>13, <2>1, <2>2
<1>15. \A i \in Standing : i.at < n.at /\ store'[i] = store[i] /\ opened'[i] = opened[i]
  <2> SUFFICES ASSUME NEW i \in Standing
               PROVE  i.at < n.at /\ store'[i] = store[i]
    BY <1>1
  <2>1. i \in DOMAIN opened /\ i \in DOMAIN store /\ i # n /\ i.at \in Nat /\ n.at \in Nat
    BY <1>2, SessionFacts
  <2>2. i.at <= n.at /\ i.at # n.at
    BY <1>2, <2>1 DEF Latest, Line
  <2>3. QED
    BY <1>9, <2>1, <2>2
<1>16. n.at \in Nat /\ \A i \in Standing : i.at \in Nat
  BY <1>2, SessionFacts
<1>17. Holds(z, o.from, o.plan)
  BY <1>2, <1>6, <1>8 DEF Holds, HoldsFile
<1>18. /\ Latest(n)'
       /\ \A i \in Standing : ~Latest(i)'
  BY <1>7, <1>10, <1>14, <1>15, <1>16 DEF Latest
<1>19. ASSUME NEW i \in Standing' PROVE Tied(i)'
  <2>1. CASE i = n
    <3>1. Between(tree, o.from, o.plan)
      BY <1>2, BetweenStart
    <3>2. \A j \in Standing' : ~(i.at < j.at)
      BY <1>14, <1>15, <1>16, <2>1
    <3>3. QED
      BY <1>1, <1>9, <1>17, <2>1, <3>1, <3>2 DEF Tied, NextTo
  <2>2. CASE i # n
    <3>1. i \in Standing /\ Tied(i)
      BY <1>14, <2>2 DEF Line
    <3>2. store'[i] = store[i] /\ ~Latest(i)'
      BY <1>15, <1>18, <3>1
    <3>3. ASSUME NEW j \in Standing', NextTo(i, j)'
          PROVE  Between(opened[j].from, opened[i].from, opened[i].plan)
      <4>1. CASE j = n
        <5>1. \A k \in Standing : k.at <= i.at
          BY <1>14, <1>15, <1>16, <3>3, <4>1 DEF NextTo
        <5>2. QED
          BY <1>2, <3>1, <4>1, <5>1 DEF Tied, Latest
      <4>2. CASE j # n
        <5>1. j \in Standing /\ NextTo(i, j)
          BY <1>14, <3>3, <4>2 DEF NextTo
        <5>2. QED
          BY <3>1, <5>1 DEF Tied
      <4>3. QED
        BY <4>1, <4>2
    <3>4. QED
      BY <1>1, <3>1, <3>2, <3>3 DEF Tied
  <2>3. QED
    BY <2>1, <2>2
<1>20. Works(self)'
  BY <1>1, <1>2, <1>7, <1>10, <1>14, <1>18 DEF Works, WorksAs
<1>21. \A q \in Proc : Works(q)'
  BY <1>10, <1>20 DEF Works, WorksAs
<1>22. QED
  BY <1>1, <1>19, <1>21 DEF Line, Begun

-----------------------------------------------------------------------------
(* The steps of a restore, of the newest session.                          *)
LEMMA OwnStanding ==
  ASSUME StoreInv, Line, NEW self \in Proc, proc[self].pc \in {"writing", "checking", "restoring"}
  PROVE  LET me == proc[self]
             o == opened[me.id]
         IN  /\ me \in Work /\ me.doomed = {} /\ WorksAs(me, tree)
             /\ me.id \in Standing /\ me.id \in DOMAIN opened
             /\ \A i \in Standing : Latest(i) => i = me.id
             /\ \A i \in Standing \ {me.id} : i.at < me.id.at
             /\ Suits(o.from, o.plan) /\ Between(tree, o.from, o.plan)
             /\ Holds(store[me.id], o.from, o.plan)
             /\ tree \in Tree
<1>1. /\ proc[self] \in Work /\ proc[self].doomed = {} /\ WorksAs(proc[self], tree)
  BY DEF StoreInv, TypeInv, Fine, Removes, Line, Works
<1>2. proc[self].id \in Standing /\ Latest(proc[self].id)
  BY <1>1 DEF WorksAs
<1>3. QED
  BY <1>1, <1>2, NewestIsOne, NewestBetween, SessionFacts

LEMMA RestoringIs ==
  ASSUME NEW me, NEW t, me.pc = "restoring", WorksAs(me, t)
  PROVE  /\ me.id \in Standing /\ Latest(me.id)
         /\ me.only = None \/ me.only \in DOMAIN opened[me.id].plan.changes
         /\ me.undo => me.only = None
         /\ me.entries = store[me.id].manifest
         /\ me.left \subseteq DOMAIN opened[me.id].plan.changes
         /\ me.moves \subseteq opened[me.id].plan.moves
         /\ RestoredSoFar(me, t)
BY DEF WorksAs

(* Such a process, one file or one directory later.                        *)
OneLess(me, r) ==
  /\ r.pc = me.pc /\ r.doomed = me.doomed /\ r.id = me.id /\ r.only = me.only
  /\ r.undo = me.undo /\ r.entries = me.entries
  /\ r.left \subseteq me.left /\ r.moves \subseteq me.moves

LEMMA RestoresFurther ==
  ASSUME NEW me, NEW t, me.pc = "restoring", WorksAs(me, t),
         NEW r, NEW u, OneLess(me, r), RestoredSoFar(r, u)
  PROVE  WorksAs(r, u)
<1>1. /\ r.pc = me.pc /\ r.id = me.id /\ r.only = me.only /\ r.undo = me.undo
      /\ r.entries = me.entries /\ r.left \subseteq me.left /\ r.moves \subseteq me.moves
  BY DEF OneLess
<1>2. /\ r.id \in Standing /\ Latest(r.id)
      /\ r.only = None \/ r.only \in DOMAIN opened[r.id].plan.changes
      /\ r.undo => r.only = None
      /\ r.entries = store[r.id].manifest
  BY <1>1, RestoringIs
<1>3. /\ me.left \subseteq DOMAIN opened[me.id].plan.changes
      /\ me.moves \subseteq opened[me.id].plan.moves
  BY RestoringIs
<1>4. /\ r.left \subseteq DOMAIN opened[r.id].plan.changes
      /\ r.moves \subseteq opened[r.id].plan.moves
  BY <1>1, <1>3
<1>5. r.pc = "restoring"
  BY <1>1
<1>6. QED
  BY <1>2, <1>4, <1>5 DEF WorksAs

LEMMA LeftLess ==
  ASSUME NEW me \in Work, NEW p, NEW r, r = [me EXCEPT !.left = @ \ {p}]
  PROVE  OneLess(me, r) /\ r.left = me.left \ {p} /\ r.moves = me.moves
BY DEF Work, OneLess

LEMMA MovesLess ==
  ASSUME NEW me \in Work, NEW m, NEW r, r = [me EXCEPT !.moves = @ \ {m}]
  PROVE  OneLess(me, r) /\ r.left = me.left /\ r.moves = me.moves \ {m}
BY DEF Work, OneLess

LEMMA RestoreFailsInLine ==
  ASSUME StoreInv, Line, straight, NEW self \in Proc, RestoreFails(self)
  PROVE  Line'
<1>1. proc[self].pc = "restoring" /\ Become(self, Idle) /\ UNCHANGED <<tree, store, opened, now>>
  BY DEF RestoreFails
<1>2. QED
  BY <1>1, OwnStanding, WorkEnds

LEMMA CheckInLine ==
  ASSUME StoreInv, Line, straight, NEW self \in Proc, Check(self)
  PROVE  Line'
<1>1. PICK me, from, plan :
        me = proc[self] /\ from = opened[me.id].from /\ plan = opened[me.id].plan
  OBVIOUS
<1>1a. PICK m, left, moves, r :
        /\ m = store[me.id].manifest
        /\ left = IF me.only # None THEN {me.only} ELSE DOMAIN m.files
        /\ moves = IF me.only # None THEN {} ELSE m.moves
        /\ r = Checked(me, m, left, moves)
  OBVIOUS
<1>2. /\ me.pc = "checking" /\ UNCHANGED <<tree, store, opened, now>>
      /\ Become(self, r) \/ Become(self, Idle)
  BY <1>1, <1>1a DEF Check, Checked
<1>3. me \in Work /\ me.doomed = {} /\ WorksAs(me, tree)
  BY <1>1, <1>2, OwnStanding
<1>4. /\ me.id \in Standing /\ Latest(me.id)
      /\ me.only = None \/ me.only \in DOMAIN plan.changes
      /\ me.undo => me.only = None
  BY <1>1, <1>2, <1>3 DEF WorksAs
<1>5. CASE Become(self, Idle)
  BY <1>1, <1>2, <1>3, <1>5, WorkEnds
<1>6. CASE Become(self, r)
  <2>1. Holds(store[me.id], from, plan)
    BY <1>1, <1>2, OwnStanding
  <2>2. DOMAIN m.files = DOMAIN plan.changes /\ m.moves = plan.moves
    BY <1>1a, <2>1 DEF Holds
  <2>3. /\ left \subseteq DOMAIN plan.changes /\ moves \subseteq plan.moves
        /\ me.only = None => left = DOMAIN plan.changes /\ moves = plan.moves
    BY <1>1a, <1>4, <2>2
  <2>4. /\ r.pc = "restoring" /\ r.entries = m /\ r.left = left /\ r.moves = moves
        /\ r.id = me.id /\ r.undo = me.undo /\ r.only = me.only /\ r.doomed = me.doomed
    BY <1>1a, <1>3, CheckedIs
  <2>4a. m = store[me.id].manifest
    BY <1>1a
  <2>5. RestoredSoFar(r, tree')
    <3>1. Done(tree', plan) \subseteq plan.moves
      BY DEF Done
    <3>2. QED
      <4>1. r.only = None => r.left = DOMAIN plan.changes /\ r.moves = plan.moves
        BY <2>3, <2>4
      <4>2. r.only = None => AsFound(tree', from, plan, r.left)
        BY <4>1 DEF AsFound
      <4>3. from = opened[r.id].from /\ plan = opened[r.id].plan
        BY <1>1, <2>4
      <4>4. QED
        BY <3>1, <4>1, <4>2, <4>3 DEF RestoredSoFar
  <2>6. /\ r.id \in Standing /\ Latest(r.id)
        /\ r.only = None \/ r.only \in DOMAIN opened[r.id].plan.changes
        /\ r.undo => r.only = None
        /\ r.entries = store[r.id].manifest
        /\ r.left \subseteq DOMAIN opened[r.id].plan.changes
        /\ r.moves \subseteq opened[r.id].plan.moves
    <3>1. plan = opened[r.id].plan /\ m = store[r.id].manifest
      BY <1>1, <2>4, <2>4a
    <3>2. r.left \subseteq DOMAIN plan.changes /\ r.moves \subseteq plan.moves
      BY <2>3, <2>4
    <3>3. /\ r.id \in Standing /\ Latest(r.id)
          /\ r.only = None \/ r.only \in DOMAIN plan.changes
          /\ r.undo => r.only = None
      BY <1>4, <2>4
    <3>4. QED
      BY <2>4, <3>1, <3>2, <3>3
  <2>7. WorksAs(r, tree')
    BY <2>4, <2>5, <2>6 DEF WorksAs
  <2>8. \A i \in Standing : Latest(i) => Between(tree', opened[i].from, opened[i].plan)
    BY <1>2 DEF Line, Tied
  <2>9. proc[self].pc # "idle" /\ r.doomed = proc[self].doomed
    BY <1>1, <1>2, <2>4
  <2>10. QED
    BY <1>2, <1>6, <2>7, <2>8, <2>9, WorkGoesOn
<1>7. QED
  BY <1>2, <1>5, <1>6

LEMMA WrittenFiles ==
  ASSUME NEW t \in Tree, NEW p \in Path, NEW c
  PROVE  /\ Written(t, p, c).files[p] = c
         /\ \A q \in Path \ {p} : Written(t, p, c).files[q] = t.files[q]
BY DEF Written, Tree

LEMMA UnlinkedFiles ==
  ASSUME NEW t \in Tree, NEW p \in Path
  PROVE  /\ Unlinked(t, p).files[p] = None
         /\ \A q \in Path \ {p} : Unlinked(t, p).files[q] = t.files[q]
BY DEF Unlinked, Tree

(* One file of a restore: it is as the apply found it, and nothing else    *)
(* has changed.                                                            *)
FileBack(t, u, s, files, p) ==
  \/ files[p] = "created" /\ u = Unlinked(t, p)
  \/ files[p] # "created" /\ u = Written(t, p, s.blobs[p])

LEMMA FileRestored ==
  ASSUME NEW t \in Tree, NEW u, NEW from, NEW plan, NEW s, NEW files,
         Suits(from, plan), Between(t, from, plan), Holds(s, from, plan),
         files = s.manifest.files,
         NEW p \in DOMAIN plan.changes, FileBack(t, u, s, files, p)
  PROVE  /\ Between(u, from, plan) /\ Done(u, plan) = Done(t, plan)
         /\ \A left : AsFound(t, from, plan, left) => AsFound(u, from, plan, left \ {p})
<1>1. \A q \in DOMAIN plan.changes : q \in Path
  BY PartialFnsDef DEF Suits, Plan
<1>2. \/ u = Unlinked(t, p) /\ from.files[p] = None
      \/ u = Written(t, p, from.files[p]) /\ p[1] \in from.dirs \cup {Root}
  <2>1. HoldsFile(s, files, from, plan, p)
    BY DEF Holds
  <2>2. p \in Path
    BY PartialFnsDef DEF Suits, Plan
  <2>3. plan.changes[p] = None => Exists(from, p)
    BY DEF Suits, Exists
  <2>4. files[p] = "created" <=> ~Exists(from, p)
    BY <2>1, <2>3 DEF HoldsFile, Action
  <2>5. CASE files[p] = "created"
    BY <2>4, <2>5 DEF FileBack, Exists
  <2>6. CASE files[p] # "created"
    <3>1. s.blobs[p] = from.files[p]
      BY <2>1, <2>4, <2>6 DEF HoldsFile
    <3>2. p[1] \in from.dirs \cup {Root}
      BY <2>2, <2>4, <2>6 DEF Suits, Placed
    <3>3. QED
      BY <2>6, <3>1, <3>2 DEF FileBack
  <2>7. QED
    BY <2>5, <2>6
<1>3. /\ Between(u, from, plan) /\ Done(u, plan) = Done(t, plan)
      /\ u.files[p] = from.files[p] /\ \A q \in Path \ {p} : u.files[q] = t.files[q]
  <2>1. CASE u = Unlinked(t, p) /\ from.files[p] = None
    <3>1. Between(u, from, plan) /\ Done(u, plan) = Done(t, plan)
      BY <2>1, BetweenUnlinked
    <3>2. u.files[p] = None /\ \A q \in Path \ {p} : u.files[q] = t.files[q]
      BY <1>1, <2>1, UnlinkedFiles
    <3>3. QED
      BY <2>1, <3>1, <3>2
  <2>2. CASE u = Written(t, p, from.files[p]) /\ p[1] \in from.dirs \cup {Root}
    <3>1. Between(u, from, plan) /\ Done(u, plan) = Done(t, plan)
      BY <2>2, BetweenWritten
    <3>2. u.files[p] = from.files[p] /\ \A q \in Path \ {p} : u.files[q] = t.files[q]
      BY <1>1, <2>2, WrittenFiles
    <3>3. QED
      BY <3>1, <3>2
  <2>3. QED
    BY <1>2, <2>1, <2>2
<1>4. ASSUME NEW left, AsFound(t, from, plan, left)
      PROVE  AsFound(u, from, plan, left \ {p})
  BY <1>1, <1>3, <1>4 DEF AsFound
<1>5. QED
  BY <1>3, <1>4

LEMMA RestoreFileInLine ==
  ASSUME StoreInv, Line, straight, NEW self \in Proc, RestoreFile(self)
  PROVE  Line'
<1>1. PICK me, from, plan, s, files, p, r :
        /\ me = proc[self] /\ s = store[me.id] /\ files = me.entries.files
        /\ from = opened[me.id].from /\ plan = opened[me.id].plan
        /\ p = First(me.left) /\ r = [me EXCEPT !.left = @ \ {p}]
  OBVIOUS
<1>2. /\ me.pc = "restoring" /\ me.left # {} /\ UNCHANGED <<store, opened, now>>
      /\ \/ FileBack(tree, tree', s, files, p) /\ Become(self, r)
         \/ Become(self, Idle) /\ UNCHANGED tree
  BY <1>1 DEF RestoreFile, FileBack
<1>3. me \in Work /\ me.doomed = {} /\ WorksAs(me, tree)
  BY <1>1, <1>2, OwnStanding
<1>4. \A i \in Standing : Latest(i) => i = me.id
  BY <1>1, <1>2, OwnStanding
<1>5. /\ Suits(from, plan) /\ Between(tree, from, plan)
      /\ Holds(s, from, plan) /\ tree \in Tree
  BY <1>1, <1>2, OwnStanding
<1>6. CASE Become(self, Idle) /\ UNCHANGED tree
  BY <1>1, <1>2, <1>3, <1>6, WorkEnds
<1>7. CASE FileBack(tree, tree', s, files, p) /\ Become(self, r)
  <2>1. files = s.manifest.files /\ me.left \subseteq DOMAIN plan.changes
    BY <1>1, <1>2, <1>3, RestoringIs
  <2>2. p \in DOMAIN plan.changes
    BY <1>1, <1>2, <2>1, Choices
  <2>3. OneLess(me, r) /\ r.left = me.left \ {p} /\ r.moves = me.moves
    BY <1>1, <1>3, LeftLess
  <2>4. /\ Between(tree', from, plan) /\ Done(tree', plan) = Done(tree, plan)
        /\ AsFound(tree, from, plan, me.left) => AsFound(tree', from, plan, me.left \ {p})
    BY Zenon, <1>5, <1>7, <2>1, <2>2, FileRestored
  <2>5. RestoredSoFar(r, tree')
    <3>1. RestoredSoFar(me, tree)
      BY <1>2, <1>3, RestoringIs
    <3>2. r.id = me.id /\ r.only = me.only
      BY <2>3 DEF OneLess
    <3>3. QED
      BY <1>1, <2>3, <2>4, <3>1, <3>2 DEF RestoredSoFar
  <2>6. WorksAs(r, tree')
    BY <1>2, <1>3, <2>3, <2>5, RestoresFurther
  <2>7. \A i \in Standing : Latest(i) => Between(tree', opened[i].from, opened[i].plan)
    BY <1>1, <1>4, <2>4
  <2>8. proc[self].pc # "idle" /\ r.doomed = proc[self].doomed
    BY <1>1, <1>2, <2>3 DEF OneLess
  <2>9. QED
    BY <1>2, <1>7, <2>6, <2>7, <2>8, WorkGoesOn
<1>8. QED
  BY <1>2, <1>6, <1>7

LEMMA RestoreDirInLine ==
  ASSUME StoreInv, Line, straight, NEW self \in Proc, RestoreDir(self)
  PROVE  Line'
<1>1. PICK m \in proc[self].moves :
        /\ tree' = IF m[2] \in tree.dirs /\ m[1] \notin tree.dirs
                   THEN MovedDir(tree, m[2], m[1])
                   ELSE tree
        /\ Become(self, [proc[self] EXCEPT !.moves = @ \ {m}])
  BY Zenon DEF RestoreDir
<1>2. PICK me, from, plan, r :
        /\ me = proc[self] /\ from = opened[me.id].from /\ plan = opened[me.id].plan
        /\ r = [me EXCEPT !.moves = @ \ {m}]
  OBVIOUS
<1>3. me.pc = "restoring" /\ UNCHANGED <<store, opened, now>> /\ Become(self, r)
  BY <1>1, <1>2 DEF RestoreDir
<1>4. me \in Work /\ me.doomed = {} /\ WorksAs(me, tree)
  BY <1>2, <1>3, OwnStanding
<1>4a. \A i \in Standing : Latest(i) => i = me.id
  BY <1>2, <1>3, OwnStanding
<1>4b. Suits(from, plan) /\ Between(tree, from, plan) /\ tree \in Tree
  BY <1>2, <1>3, OwnStanding
<1>5. OneLess(me, r) /\ r.left = me.left /\ r.moves = me.moves \ {m}
  BY <1>2, <1>4, MovesLess
<1>6. m \in plan.moves
  BY <1>1, <1>2, <1>3, <1>4, RestoringIs
<1>7. /\ Between(tree', from, plan) /\ Done(tree', plan) \subseteq Done(tree, plan) \ {m}
      /\ \A q \in DOMAIN plan.changes : tree'.files[q] = tree.files[q]
  <2>1. CASE m[2] \in tree.dirs /\ m[1] \notin tree.dirs
    <3>1. m[1] \in Dir /\ m[2] \in Dir /\ m[1] # m[2]
      BY <1>4b, <1>6, MoveIs
    <3>2. \A q \in DOMAIN plan.changes : q \in Path /\ q[1] # m[1] /\ q[1] # m[2]
      BY <1>4b, <1>6, PartialFnsDef DEF Suits, Plan, Plain
    <3>3. tree' = MovedDir(tree, m[2], m[1])
      BY <1>1, <2>1
    <3>4. \A q \in DOMAIN plan.changes : tree'.files[q] = tree.files[q]
      BY <1>4b, <2>1, <3>1, <3>2, <3>3, MovedDirIs
    <3>5. QED
      BY <1>4b, <1>6, <2>1, <3>3, <3>4, BetweenMovedBack
  <2>2. CASE ~(m[2] \in tree.dirs /\ m[1] \notin tree.dirs)
    <3>1. tree' = tree
      BY <1>1, <2>2
    <3>2. m \notin Done(tree, plan)
      BY <1>4b, <1>6, <2>2, DoneIs
    <3>3. QED
      BY <1>4b, <3>1, <3>2
  <2>3. QED
    BY <2>1, <2>2
<1>8. WorksAs(r, tree')
  <2>1. RestoredSoFar(me, tree)
    BY <1>3, <1>4, RestoringIs
  <2>2. r.id = me.id /\ r.only = me.only
    BY <1>5 DEF OneLess
  <2>3. AsFound(tree, from, plan, me.left) => AsFound(tree', from, plan, me.left)
    BY <1>7 DEF AsFound
  <2>4. RestoredSoFar(r, tree')
    BY <1>2, <1>5, <1>7, <2>1, <2>2, <2>3 DEF RestoredSoFar
  <2>5. QED
    BY <1>3, <1>4, <1>5, <2>4, RestoresFurther
<1>9. \A i \in Standing : Latest(i) => Between(tree', opened[i].from, opened[i].plan)
  BY <1>2, <1>4a, <1>7
<1>10. proc[self].pc # "idle" /\ r.doomed = proc[self].doomed
  BY <1>2, <1>3, <1>5 DEF OneLess
<1>11. QED
  BY <1>3, <1>8, <1>9, <1>10, WorkGoesOn

(* The end of a restore: after a full one, the workspace is as the apply   *)
(* found it, and if it is an undo the session before is the newest.        *)
LEMMA AllBack ==
  ASSUME StoreInv, Line, NEW self \in Proc, proc[self].pc = "restoring", proc[self].only = None,
         proc[self].left = {}, proc[self].moves = {}
  PROVE  [tree EXCEPT !.dirs = @ \ {d \in proc[self].entries.made : IsEmptyDir(tree, d)}]
           = opened[proc[self].id].from
<1> DEFINE me == proc[self]
           o == opened[me.id]
           made == MissingParents(o.from, o.plan)
<1>1. /\ WorksAs(me, tree) /\ Suits(o.from, o.plan) /\ Between(tree, o.from, o.plan)
      /\ Holds(store[me.id], o.from, o.plan) /\ tree \in Tree
  BY OwnStanding
<1>2. /\ me.entries = store[me.id].manifest
      /\ \A p \in DOMAIN o.plan.changes : tree.files[p] = o.from.files[p]
      /\ Done(tree, o.plan) = {}
  BY <1>1, RestoringIs DEF RestoredSoFar, AsFound
<1>3. me.entries.made = made
  BY <1>1, <1>2 DEF Holds
<1>4. \A p \in Path : tree.files[p] = o.from.files[p]
  BY <1>1, <1>2 DEF Between
<1>5. tree.dirs \ made = o.from.dirs
  BY <1>1, <1>2 DEF Between
<1>6. tree.files = o.from.files
  <2>1. tree.files = [p \in Path |-> tree.files[p]]
    BY <1>1 DEF Tree
  <2>2. o.from.files = [p \in Path |-> o.from.files[p]]
    <3> HIDE DEF o
    <3>1. QED
      BY <1>1 DEF Suits, Tree
  <2> HIDE DEF o
  <2>3. QED
    BY <1>4, <2>1, <2>2
<1>7. [tree EXCEPT !.dirs = @ \ {d \in MissingParents(o.from, o.plan) : IsEmptyDir(tree, d)}] = o.from
  BY <1>1, <1>5, <1>6, TidyIs
<1>8. QED
  BY <1>3, <1>7

LEMMA RestoreEndsInLine ==
  ASSUME StoreInv, Line, straight, NEW self \in Proc, RestoreEnds(self)
  PROVE  Line'
<1> DEFINE me == proc[self]
           n == me.id
           o == opened[n]
           made == {d \in me.entries.made : IsEmptyDir(tree, d)}
           gone == [Idle EXCEPT !.pc = "removing", !.doomed = {me.id}]
<1>1. /\ me.pc = "restoring" /\ me.left = {} /\ me.moves = {}
      /\ tree' = IF me.only # None THEN tree ELSE [tree EXCEPT !.dirs = @ \ made]
      /\ Become(self, IF me.undo THEN gone ELSE Idle)
      /\ UNCHANGED <<store, opened, now>>
  BY DEF RestoreEnds
<1>2. /\ me \in Work /\ me.doomed = {} /\ WorksAs(me, tree)
      /\ n \in Standing /\ n \in DOMAIN opened
      /\ \A i \in Standing : Latest(i) => i = n
      /\ \A i \in Standing \ {n} : i.at < n.at
      /\ Suits(o.from, o.plan) /\ Between(tree, o.from, o.plan)
  BY <1>1, OwnStanding
<1>3. me.undo => me.only = None
  BY <1>1, <1>2 DEF WorksAs
<1>4. me.only = None => tree' = o.from
  BY <1>1, AllBack
<1>5. Idle.pc = "idle" /\ Idle.doomed = {} /\ gone.pc = "removing" /\ gone.doomed = {n}
  BY DEF Idle
<1> HIDE DEF gone, made
<1>6. CASE ~me.undo
  <2>1. Between(tree', o.from, o.plan)
    BY <1>1, <1>2, <1>4, BetweenStart
  <2>2. WorksAs(Idle, tree')
    BY <1>5, IdleWorksAs
  <2>3. Become(self, Idle)
    BY <1>1, <1>6
  <2>4. QED
    BY <1>1, <1>2, <1>5, <2>1, <2>2, <2>3, WorkGoesOn
<1>7. CASE me.undo
  <2>1. tree' = o.from /\ Become(self, gone)
    BY <1>1, <1>3, <1>4, <1>7
  <2>2. proc'[self] = gone /\ \A q \in Proc \ {self} : /\ proc'[q] = proc[q] /\ proc[q].pc = "idle"
                                                      /\ proc[q].doomed = {}
    BY <1>1, <2>1, AtWorkAlone DEF Become, StoreInv, TypeInv
  <2>3. Standing' = Standing \ {n}
    <3>1. Standing = Listed
      BY <1>2, <2>2, StandingOf
    <3>2. Standing' = Listed' \ {n}
      BY <1>5, <2>2 DEF Standing
    <3>3. QED
      BY <1>1, <3>1, <3>2 DEF Listed
  <2>4. n.at \in Nat /\ \A i \in Standing : i.at \in Nat
    BY <1>2, SessionFacts
  <2>5. ASSUME NEW i \in Standing \ {n} PROVE Tied(i)'
    <3>1. Tied(i) /\ i.at < n.at
      BY <1>2 DEF Line
    <3>2. Latest(i)' => NextTo(i, n)
      BY <2>3, <3>1, <2>4 DEF Latest, NextTo
    <3>3. Latest(i)' => Between(o.from, opened[i].from, opened[i].plan)
      BY <1>2, <3>1, <3>2 DEF Tied
    <3>4. ASSUME NEW j \in Standing \ {n}, NextTo(i, j)' PROVE NextTo(i, j)
      <4>1. j.at < n.at
        BY <1>2
      <4>2. \A k \in Standing \ {n} : k.at <= i.at \/ j.at <= k.at
        BY <2>3, <3>4 DEF NextTo
      <4>3. QED
        BY <2>4, <3>4, <4>1, <4>2 DEF NextTo
    <3>5. QED
      BY <1>1, <2>1, <2>3, <3>1, <3>3, <3>4 DEF Tied
  <2>6. \A q \in Proc : Works(q)'
    BY <1>5, <2>2, IdleWorksAs DEF Works, WorksAs
  <2>7. QED
    BY <1>1, <2>3, <2>5, <2>6 DEF Line, Begun
<1>8. QED
  BY <1>6, <1>7

-----------------------------------------------------------------------------
(* A session goes, part by part; a process dies.                           *)
LEMMA RemovePartInLine ==
  ASSUME StoreInv, Line, straight, NEW self \in Proc, RemovePart(self)
  PROVE  Line'
<1> DEFINE me == proc[self]
<1>1. PICK i \in me.doomed :
        /\ i \in DOMAIN store
        /\ \/ store' = [store EXCEPT ![i].manifest = None, ![i].mtime = now]
           \/ store' = [store EXCEPT ![i].blobs = << >>, ![i].mtime = now]
           \/ store' = [j \in DOMAIN store \ {i} |-> store[j]]
        /\ UNCHANGED <<tree, proc, count, now, faults, opened, straight>>
  BY DEF RemovePart
<1>2. store = [j \in DOMAIN store |-> store[j]] /\ me.pc \in {"pruning", "removing"}
  BY DEF StoreInv, TypeInv, StoreTypes, Fine, Removes
<1>3. /\ DOMAIN store' \subseteq DOMAIN store /\ DOMAIN store \ {i} \subseteq DOMAIN store'
      /\ \A j \in DOMAIN store \ {i} : store'[j] = store[j]
  BY <1>1, <1>2
<1>4. Standing' = Standing
  <2>1. Standing = Listed \ UNION {proc[q].doomed : q \in Proc}
    BY DEF Standing
  <2>2. Standing' = Listed' \ UNION {proc[q].doomed : q \in Proc}
    BY <1>1 DEF Standing
  <2>3. \A j : j # i => (j \in Listed' <=> j \in Listed)
    BY <1>3 DEF Listed
  <2>4. i \in UNION {proc[q].doomed : q \in Proc}
    OBVIOUS
  <2>5. QED
    BY <2>1, <2>2, <2>3, <2>4
<1>5. \A j \in Standing : store'[j] = store[j]
  <2>1. \A j \in Standing : j \in DOMAIN store /\ j # i
    BY SessionFacts DEF Standing
  <2>2. QED
    BY <1>3, <2>1
<1>6. \A q \in Proc \ {self} : proc'[q].pc = "idle"
  BY <1>1, <1>2, AtWorkAlone
<1>7. Works(self)'
  <2>1. CASE me.pc = "removing"
    BY <1>1, <2>1, IdleWorksAs DEF Works, WorksAs
  <2>2. CASE me.pc = "pruning"
    <3>1. /\ me.id \in DOMAIN store /\ ~opened[me.id].undone /\ WorksAs(me, tree)
      BY <2>2, OwnUnlisted DEF Line, Works
    <3>2. me.id # i
      BY <2>2, <3>1 DEF StoreInv, Spared, InApply
    <3>3. store'[me.id] = store[me.id] /\ (Latest(me.id) => Latest(me.id)')
      BY <1>1, <1>3, <1>4, <3>1, <3>2 DEF Latest
    <3>4. QED
      BY <1>1, <2>2, <3>1, <3>3 DEF Works, WorksAs
  <2>3. QED
    BY <1>2, <2>1, <2>2
<1>8. \A j \in Standing : Latest(j) => Between(tree', opened[j].from, opened[j].plan)
  BY <1>1 DEF Line, Tied
<1>9. QED
  BY <1>1, <1>4, <1>5, <1>6, <1>7, <1>8, LineKept

LEMMA CrashInLine ==
  ASSUME StoreInv, Line, straight, NEW self \in Proc, Crash(self), straight'
  PROVE  Line'
<1> DEFINE me == proc[self]
<1>1. /\ me.pc # "idle" /\ Become(self, Idle) /\ me.doomed \cap DOMAIN store = {}
      /\ UNCHANGED <<tree, store, now, opened>>
  BY DEF Crash
<1>2. proc'[self] = Idle /\ \A q \in Proc \ {self} : /\ proc'[q] = proc[q] /\ proc[q].pc = "idle"
                                                    /\ proc[q].doomed = {}
  BY <1>1, AtWorkAlone DEF Become, StoreInv, TypeInv
<1>3. Standing' = Standing
  <2>1. Standing = Listed
    BY <1>1, <1>2, StandingOf DEF Listed
  <2>2. Standing' = Listed'
    BY <1>2, IdleWorks DEF Standing
  <2>3. QED
    BY <1>1, <2>1, <2>2 DEF Listed
<1>4. Works(self)'
  BY <1>2, IdleWorks DEF Works, WorksAs
<1>5. \A i \in Standing : Latest(i) => Between(tree', opened[i].from, opened[i].plan)
  BY <1>1 DEF Line, Tied
<1>6. QED
  BY <1>1, <1>2, <1>3, <1>4, <1>5, LineKept

-----------------------------------------------------------------------------
(* An undo begins, of the newest session.                                  *)
LEMMA BeginUndoInLine ==
  ASSUME StoreInv, Line, straight, NEW self \in Proc, NEW i \in Listed,
         NEW only \in Path \cup {None}, only # None => only \in DOMAIN store[i].manifest.files,
         BeginUndo(self, i, only), straight'
  PROVE  Line'
<1> DEFINE full == only = None
           r == [Idle EXCEPT !.pc = "checking", !.id = i, !.undo = full, !.only = only]
<1>1. /\ proc[self].pc = "idle" /\ Become(self, r)
      /\ opened' = [opened EXCEPT ![i].undone = @ \/ only = None]
      /\ Alone(self) /\ i \in Newest(Listed)
      /\ UNCHANGED <<tree, store, count, now, faults>>
  BY Zenon DEF BeginUndo
<1>2. \A q \in Proc : proc[q].pc = "idle" /\ proc[q].doomed = {}
  BY <1>1 DEF Alone, StoreInv, Fine, Removes
<1>3. Standing = Listed
  BY <1>2 DEF Standing
<1>4. /\ r.pc = "checking" /\ r.id = i /\ r.undo = full /\ r.doomed = {} /\ r.only = only
  BY DEF Idle
<1> HIDE DEF r
<1>5. proc'[self] = r /\ \A q \in Proc \ {self} : proc'[q] = proc[q]
  BY <1>1 DEF Become, StoreInv, TypeInv
<1>6. Standing' = Standing
  BY <1>1, <1>2, <1>4, <1>5 DEF Standing, Listed
<1>7. /\ i \in DOMAIN opened /\ DOMAIN opened' = DOMAIN opened
      /\ \A j \in DOMAIN opened :
           opened'[j].from = opened[j].from /\ opened'[j].plan = opened[j].plan
  <2>1. i \in DOMAIN opened /\ opened \in [DOMAIN opened -> Opened]
    BY SessionFacts DEF StoreInv, TypeInv, OpenedTypes
  <2>2. DOMAIN opened' = DOMAIN opened /\ \A j \in DOMAIN opened \ {i} : opened'[j] = opened[j]
    BY <1>1, <2>1
  <2>3. opened'[i].from = opened[i].from /\ opened'[i].plan = opened[i].plan
    <3> DEFINE undone == opened[i].undone \/ full
    <3>1. opened'[i] = [opened[i] EXCEPT !.undone = undone]
      BY <1>1, <2>1
    <3> HIDE DEF undone
    <3>2. QED
      BY <2>1, <3>1 DEF Opened
  <2>4. QED
    BY <2>1, <2>2, <2>3
<1>8. Latest(i)
  <2> SUFFICES ASSUME NEW j \in Listed PROVE j.at <= i.at
    BY <1>3 DEF Latest
  <2>1. i.at \in Nat /\ j.at \in Nat /\ ~Newer(j, i)
    BY <1>1, SessionFacts DEF Newest
  <2>2. QED
    BY <2>1 DEF Newer
<1>9. only = None \/ only \in DOMAIN opened[i].plan.changes
  BY <1>3 DEF Line, Tied, Holds
<1>10. Works(self)'
  <2>1. Latest(i)'
    BY <1>6, <1>8 DEF Latest
  <2>2. QED
    BY <1>3, <1>4, <1>5, <1>6, <1>7, <1>9, <2>1 DEF Works, WorksAs
<1>11. \A j \in Standing : Latest(j) => Between(tree', opened[j].from, opened[j].plan)
  BY <1>1 DEF Line, Tied
<1>12. QED
  BY <1>1, <1>2, <1>5, <1>6, <1>7, <1>10, <1>11, LineKept

LEMMA UndoBeginsInLine ==
  ASSUME StoreInv, Line, straight, NEW self \in Proc, straight',
         UndoNewest(self) \/ UndoNamed(self) \/ \E p \in Path : UndoPath(self, p)
  PROVE  Line'
<1>1. CASE UndoNewest(self)
  <2>1. PICK i \in Newest(Listed) : BeginUndo(self, i, None)
    BY <1>1 DEF UndoNewest
  <2>2. i \in Listed
    BY DEF Newest
  <2>3. QED
    BY <2>1, <2>2, BeginUndoInLine
<1>2. CASE UndoNamed(self)
  <2>1. PICK i \in Listed : BeginUndo(self, i, None)
    BY <1>2 DEF UndoNamed
  <2>2. QED
    BY <2>1, BeginUndoInLine
<1>3. ASSUME NEW p \in Path, UndoPath(self, p) PROVE Line'
  <2>1. PICK i \in {j \in Listed : p \in DOMAIN store[j].manifest.files} : BeginUndo(self, i, p)
    BY <1>3 DEF UndoPath
  <2>2. i \in Listed /\ p \in DOMAIN store[i].manifest.files
    OBVIOUS
  <2>3. QED
    BY <2>1, <2>2, BeginUndoInLine
<1>4. QED
  BY <1>1, <1>2, <1>3

(* An apply begins: what it prunes is older than what it leaves.           *)
LEMMA BeginApplyInLine ==
  ASSUME StoreInv, Line, straight, NEW self \in Proc, NEW plan \in Plans,
         BeginApply(self, plan), straight', Untangled'
  PROVE  Line'
<1>1. PICK t \in Times :
        LET id == NewSessionId(self, t)
        IN  /\ proc[self].pc = "idle"
            /\ Accepts(plan)
            /\ store' = IF id \in DOMAIN store THEN store
                        ELSE WithEntry(store, id, [blobs |-> << >>, manifest |-> None, mtime |-> t])
            /\ opened' = WithEntry(opened, id, [plan |-> plan, from |-> tree, undone |-> FALSE])
            /\ Become(self, [Idle EXCEPT !.pc = "pruning", !.id = id, !.plan = plan,
                                         !.left = DOMAIN plan.changes, !.moves = plan.moves,
                                         !.had = {p \in DOMAIN plan.changes : Exists(tree, p)},
                                         !.doomed = Expired(t)])
            /\ now' = t
            /\ straight' = (straight /\ Alone(self) /\ \A i \in DOMAIN opened : i.at # t)
            /\ UNCHANGED <<tree, faults>>
  BY Zenon DEF BeginApply
<1> DEFINE id == NewSessionId(self, t)
           e == [blobs |-> << >>, manifest |-> None, mtime |-> t]
           o == [plan |-> plan, from |-> tree, undone |-> FALSE]
           r == [Idle EXCEPT !.pc = "pruning", !.id = id, !.plan = plan,
                             !.left = DOMAIN plan.changes, !.moves = plan.moves,
                             !.had = {p \in DOMAIN plan.changes : Exists(tree, p)},
                             !.doomed = Expired(t)]
<1>2. /\ t \in Nat /\ t >= now /\ now \in Nat /\ MaxAge \in Nat
  BY Distinct DEF Times, StoreInv, TypeInv
<1>3. id.at = t
  BY DEF NewSessionId
<1>4. /\ \A i \in DOMAIN opened : i.at # t /\ Alone(self)
      /\ Alone(self)
  BY <1>1, Zenon
<1>5. id \notin DOMAIN opened /\ id \notin DOMAIN store
  BY <1>3, <1>4, SessionFacts
<1>6. /\ Accepts(plan)
      /\ store' = WithEntry(store, id, e)
      /\ opened' = WithEntry(opened, id, o)
      /\ Become(self, r)
      /\ now' = t /\ UNCHANGED tree
  BY <1>1, <1>5, Zenon
<1>7. \A q \in Proc : q # self => proc[q].pc = "idle"
  BY <1>4 DEF Alone
<1>8. \A q \in Proc : proc[q].pc = "idle" /\ proc[q].doomed = {}
  BY <1>1, <1>7 DEF StoreInv, Fine, Removes
<1>9. Standing = Listed
  BY <1>8 DEF Standing
<1> HIDE DEF id
<1>10. /\ r.pc = "pruning" /\ r.id = id /\ r.plan = plan /\ r.moves = plan.moves
       /\ r.doomed = Expired(t) /\ DOMAIN r.entries.files = {}
  BY EmptyFn DEF Idle, NoEntries
<1>11. e.manifest = None /\ o.plan = plan /\ o.from = tree
  OBVIOUS
<1> HIDE DEF r, e, o
<1>12. /\ DOMAIN store' = DOMAIN store \cup {id} /\ store'[id] = e
       /\ \A i \in DOMAIN store : store'[i] = store[i]
       /\ DOMAIN opened' = DOMAIN opened \cup {id} /\ opened'[id] = o
       /\ \A i \in DOMAIN opened : opened'[i] = opened[i]
  BY <1>5, <1>6 DEF WithEntry
<1>13. proc'[self] = r /\ \A q \in Proc \ {self} : proc'[q] = proc[q]
  BY <1>6 DEF Become, StoreInv, TypeInv
<1>14. Listed' = Listed
  BY <1>5, <1>11, <1>12 DEF Listed
<1>15. Standing' = Standing \ Expired(t)
  BY <1>8, <1>9, <1>10, <1>13, <1>14 DEF Standing
<1>16. \A i \in Standing : /\ i \in DOMAIN store /\ i \in DOMAIN opened /\ i.at \in Nat /\ i.at <= now
                           /\ i \in Expired(t) <=> t - i.at > MaxAge
  BY SessionFacts DEF Line, Begun, Expired
<1>17. \A i, j \in DOMAIN opened' : i.at = j.at => i = j
  BY <1>3, <1>4, <1>12 DEF Line
<1>18. ASSUME NEW i \in DOMAIN opened' PROVE Begun(i)'
  <2>1. CASE i = id
    <3>1. plan \in Plan /\ Plain(plan)
      BY <1>11, <1>12, StoreAssumption DEF Untangled
    <3>2. Suits(tree, plan)
      BY <1>6, <3>1, SessionFacts DEF Suits, Accepts
    <3>3. QED
      BY <1>2, <1>3, <1>6, <1>11, <1>12, <2>1, <3>2 DEF Begun
  <2>2. CASE i # id
    <3>1. i \in DOMAIN opened /\ Begun(i) /\ i.at \in Nat
      BY <1>12, <2>2, SessionFacts DEF Line
    <3>2. QED
      BY <1>2, <1>6, <1>12, <3>1 DEF Begun
  <2>3. QED
    BY <2>1, <2>2
<1>19. ASSUME NEW i \in Standing' PROVE Tied(i)'
  <2>1. i \in Standing /\ Tied(i) /\ store'[i] = store[i] /\ opened'[i] = opened[i]
    BY <1>12, <1>15, <1>16 DEF Line
  <2>2. \A k \in Standing : k \in Standing' \/ k.at <= i.at
    BY <1>2, <1>15, <1>16, <2>1
  <2>3. Latest(i)' => Latest(i)
    BY <2>2 DEF Latest
  <2>4. \A j \in Standing' : /\ NextTo(i, j)' => NextTo(i, j)
                             /\ j \in Standing /\ opened'[j] = opened[j]
    BY <1>12, <1>15, <1>16, <2>2 DEF NextTo
  <2>5. QED
    BY <1>6, <2>1, <2>3, <2>4 DEF Tied
<1>20. Works(self)'
  <2>1. PICK v, w : v = r /\ w = o
    OBVIOUS
  <2>2. /\ proc'[self] = v /\ v.pc = "pruning" /\ v.plan = plan /\ v.moves = plan.moves
        /\ DOMAIN v.entries.files = {} /\ opened'[v.id] = w /\ v.id.at = t
        /\ w.plan = plan /\ w.from = tree'
    BY <1>3, <1>6, <1>10, <1>11, <1>12, <1>13, <2>1
  <2>3. Latest(v.id)'
    BY <1>2, <1>15, <1>16, <2>2 DEF Latest
  <2>4. QED
    BY <2>2, <2>3 DEF Works, WorksAs
<1>21. \A q \in Proc : Works(q)'
  BY <1>8, <1>13, <1>20 DEF Works, WorksAs
<1>22. QED
  BY <1>17, <1>18, <1>19, <1>21 DEF Line

-----------------------------------------------------------------------------
LEMMA OrderWas == StoreInv /\ [Next]_vars /\ InOrder' => InOrder
<1> SUFFICES ASSUME StoreInv, [Next]_vars, InOrder' PROVE InOrder
  OBVIOUS
<1> DEFINE Grows == /\ straight' => straight
                    /\ DOMAIN opened \subseteq DOMAIN opened'
                    /\ \A i \in DOMAIN opened : opened'[i].plan = opened[i].plan
<1>1. ASSUME NEW self \in Proc, NEW plan \in Plans, BeginApply(self, plan) PROVE Grows
  <2>1. PICK t \in Times :
          /\ opened' = WithEntry(opened, NewSessionId(self, t),
                                 [plan |-> plan, from |-> tree, undone |-> FALSE])
          /\ straight' => straight
    BY <1>1, Zenon DEF BeginApply
  <2>2. NewSessionId(self, t) \notin DOMAIN opened
    BY DEF NewSessionId, StoreInv, TypeInv, OpenedTypes
  <2>3. QED
    BY <2>1, <2>2 DEF WithEntry
<1>2. ASSUME NEW self \in Proc, NEW i \in Listed, NEW only, BeginUndo(self, i, only) PROVE Grows
  <2>1. i \in DOMAIN opened /\ opened \in [DOMAIN opened -> Opened]
    BY SessionFacts DEF StoreInv, TypeInv, OpenedTypes
  <2>2. /\ opened' = [opened EXCEPT ![i].undone = @ \/ only = None]
        /\ straight' => straight
    BY <1>2, Zenon DEF BeginUndo
  <2>3. \A j \in DOMAIN opened : opened'[j].plan = opened[j].plan
    <3> DEFINE undone == opened[i].undone \/ only = None
    <3>1. opened' = [opened EXCEPT ![i] = [opened[i] EXCEPT !.undone = undone]]
      BY <2>1, <2>2
    <3> HIDE DEF undone
    <3>2. QED
      BY <2>1, <3>1 DEF Opened
  <2>4. QED
    BY <2>2, <2>3
<1>3. ASSUME UNCHANGED opened, straight' => straight PROVE Grows
  BY <1>3
<1>4. Grows
  <2>1. ASSUME NEW self \in Proc, Apply(self) PROVE Grows
    <3>1. CASE \E plan \in Plans : BeginApply(self, plan)
      BY <1>1, <3>1
    <3>2. CASE ~\E plan \in Plans : BeginApply(self, plan)
      BY <1>3, <2>1, <3>2, Zenon
      DEF Apply, Save, Finalize, MoveDirs, WriteOne, WriteFails, FailedWrite, EndApply
    <3>3. QED
      BY <3>1, <3>2
  <2>2. ASSUME NEW self \in Proc, Undo(self) PROVE Grows
    <3>1. CASE UndoNewest(self) \/ UndoNamed(self) \/ \E p \in Path : UndoPath(self, p)
      BY <1>2, <3>1, Zenon DEF UndoNewest, UndoNamed, UndoPath, Newest
    <3>2. CASE ~(UndoNewest(self) \/ UndoNamed(self) \/ \E p \in Path : UndoPath(self, p))
      BY <1>3, <2>2, <3>2, Zenon
      DEF Undo, Check, RestoreFile, RestoreDir, RestoreEnds, RestoreFails
    <3>3. QED
      BY <3>1, <3>2
  <2>3. ASSUME NEW self \in Proc, RemovePart(self) \/ EndRemoval(self) \/ Crash(self)
        PROVE  Grows
    BY <1>3, <2>3, Zenon DEF RemovePart, EndRemoval, Crash
  <2>4. CASE UNCHANGED vars
    BY <2>4 DEF vars
  <2>5. QED
    BY <2>1, <2>2, <2>3, <2>4, Zenon DEF Next
<1>5. QED
  BY <1>4 DEF InOrder, Untangled

LEMMA HistoryNext == StoreInv /\ HistoryInv /\ [Next]_vars => HistoryInv'
<1> SUFFICES ASSUME StoreInv, Line, straight, [Next]_vars, straight', Untangled' PROVE Line'
  BY OrderWas DEF HistoryInv, InOrder
<1>1. ASSUME NEW self \in Proc, Apply(self) PROVE Line'
  <2>1. ASSUME NEW plan \in Plans, BeginApply(self, plan) PROVE Line'
    BY <2>1, BeginApplyInLine
  <2>2. CASE Save(self)
    BY <2>2, SaveInLine
  <2>3. CASE Finalize(self)
    BY <2>3, FinalizeInLine
  <2>4. CASE MoveDirs(self)
    BY <2>4, MoveDirsInLine
  <2>5. CASE WriteOne(self)
    BY <2>5, WriteOneInLine
  <2>6. CASE WriteFails(self)
    BY <2>6, WriteFailsInLine
  <2>7. CASE EndApply(self)
    BY <2>7, EndApplyInLine
  <2>8. QED
    BY <1>1, <2>1, <2>2, <2>3, <2>4, <2>5, <2>6, <2>7 DEF Apply
<1>2. ASSUME NEW self \in Proc, Undo(self) PROVE Line'
  <2>1. CASE UndoNewest(self) \/ UndoNamed(self) \/ \E p \in Path : UndoPath(self, p)
    BY <2>1, UndoBeginsInLine
  <2>2. CASE Check(self)
    BY <2>2, CheckInLine
  <2>3. CASE RestoreFile(self)
    BY <2>3, RestoreFileInLine
  <2>4. CASE RestoreDir(self)
    BY <2>4, RestoreDirInLine
  <2>5. CASE RestoreEnds(self)
    BY <2>5, RestoreEndsInLine
  <2>6. CASE RestoreFails(self)
    BY <2>6, RestoreFailsInLine
  <2>7. QED
    BY <1>2, <2>1, <2>2, <2>3, <2>4, <2>5, <2>6 DEF Undo
<1>3. ASSUME NEW self \in Proc, RemovePart(self) \/ EndRemoval(self) \/ Crash(self)
      PROVE  Line'
  BY <1>3, RemovePartInLine, EndRemovalInLine, CrashInLine
<1>4. CASE UNCHANGED vars
  BY <1>4 DEF vars, Line, Begun, Tied, Works, WorksAs, RestoredSoFar, Standing, Listed, Latest,
              NextTo
<1>5. QED
  BY <1>1, <1>2, <1>3, <1>4 DEF Next

LEMMA HistoryInit == Init => HistoryInv
<1> SUFFICES ASSUME Init PROVE Line
  BY DEF HistoryInv
<1>1. DOMAIN store = {} /\ DOMAIN opened = {}
  BY EmptyFn DEF Init
<1>2. \A self \in Proc : proc[self].pc = "idle"
  BY IdleWorks DEF Init
<1>3. Standing = {}
  BY <1>1 DEF Standing, Listed
<1>4. QED
  BY <1>1, <1>2, <1>3 DEF Line, Works, WorksAs

-----------------------------------------------------------------------------
(* The trees of the way back.  The least of a set of numbers; induction    *)
(* over them, of the set of those that have a property.                    *)
LEMMA LeastOf ==
  ASSUME NEW T, T \subseteq Nat, T # {}
  PROVE  \E m \in T : \A k \in T : m <= k
<1>1. PICK m \in T : \A k \in T : ~(<<k, m>> \in OpToRel(<, Nat))
  BY NatLessThanWellFounded, WFMin
<1>2. \A k \in T : ~(k < m)
  BY <1>1, Zenon DEF OpToRel
<1>3. QED
  BY <1>2

Since(t) == {i \in Standing : i.at >= t}

Oldest(T) == CHOOSE i \in T : \A j \in T : i.at <= j.at

TreeSince(t) == IF Since(t) = {} THEN tree ELSE opened[Oldest(Since(t))].from

LEMMA OldestIs ==
  ASSUME StoreInv, NEW t, Since(t) # {}
  PROVE  /\ Oldest(Since(t)) \in Since(t)
         /\ \A j \in Since(t) : Oldest(Since(t)).at <= j.at
<1> DEFINE T == Since(t)
<1>1. \A i \in T : i.at \in Nat
  BY SessionFacts DEF Since
<1> HIDE DEF T
<1>2. \E m \in {i.at : i \in T} : \A k \in {i.at : i \in T} : m <= k
  BY <1>1, LeastOf DEF T
<1>3. \E i \in T : \A j \in T : i.at <= j.at
  BY <1>2
<1>4. QED
  BY <1>3 DEF Oldest, T

(* A session is restored on the tree the next one was opened on, or on the *)
(* workspace.                                                              *)
LEMMA TreeSinceStep ==
  ASSUME StoreInv, Line, NEW t \in 0..MaxTime
  PROVE  TreeSince(t) = IF \A i \in Standing : i.at # t THEN TreeSince(t + 1)
                        ELSE Restored(TreeSince(t + 1), store[CHOOSE i \in Standing : i.at = t])
<1>1. \A i \in Standing : i \in DOMAIN opened /\ i.at \in Nat
  BY SessionFacts
<1>2. CASE \A i \in Standing : i.at # t
  <2>1. Since(t) = Since(t + 1)
    BY <1>1, <1>2 DEF Since
  <2>2. QED
    BY <1>2, <2>1 DEF TreeSince
<1>3. CASE \E i \in Standing : i.at = t
  <2>1. PICK i \in Standing : i.at = t
    BY <1>3
  <2>2. \A j \in Standing : j.at = t => j = i
    BY <1>1, <2>1 DEF Line
  <2>3. (CHOOSE j \in Standing : j.at = t) = i
    BY <2>1, <2>2
  <2>4. i \in Since(t) /\ \A j \in Since(t) : i.at <= j.at
    BY <1>1, <2>1 DEF Since
  <2>5. Oldest(Since(t)) = i
    <3>1. Oldest(Since(t)) \in Since(t) /\ Oldest(Since(t)).at <= i.at
      BY <2>4, OldestIs
    <3>2. QED
      BY <1>1, <2>1, <2>2, <3>1 DEF Since
  <2>6. TreeSince(t) = opened[i].from
    BY <2>4, <2>5 DEF TreeSince
  <2>7. /\ Suits(opened[i].from, opened[i].plan) /\ Tied(i)
        /\ Holds(store[i], opened[i].from, opened[i].plan)
    BY <1>1 DEF Line, Begun, Tied
  <2>8. TreeSince(t + 1) \in Tree /\ Between(TreeSince(t + 1), opened[i].from, opened[i].plan)
    <3>1. CASE Since(t + 1) = {}
      <4>1. Latest(i)
        BY <1>1, <2>1, <3>1 DEF Latest, Since
      <4>2. QED
        BY <2>7, <3>1, <4>1, SessionFacts DEF Tied, TreeSince
    <3>2. CASE Since(t + 1) # {}
      <4> DEFINE j == Oldest(Since(t + 1))
      <4>1. j \in Since(t + 1) /\ \A k \in Since(t + 1) : j.at <= k.at
        BY <3>2, OldestIs
      <4> HIDE DEF j
      <4>2. j \in Standing /\ NextTo(i, j)
        BY <1>1, <2>1, <4>1 DEF NextTo, Since
      <4>3. TreeSince(t + 1) = opened[j].from
        BY <3>2 DEF TreeSince, j
      <4>4. QED
        BY <1>1, <2>7, <4>2, <4>3, SessionFacts DEF Tied
    <3>3. QED
      BY <3>1, <3>2
  <2>9. Restored(TreeSince(t + 1), store[i]) = opened[i].from
    BY <2>7, <2>8, RestoredIs
  <2>10. QED
    BY <1>3, <2>3, <2>6, <2>9
<1>4. QED
  BY <1>2, <1>3

(* What the undos of the sessions since a time lead to.                    *)
LEMMA UndoneIs ==
  ASSUME StoreInv, Line
  PROVE  \A t \in 0..(MaxTime + 1) : UndoneSince[t] = TreeSince(t)
<1> DEFINE Times1 == 0..(MaxTime + 1)
           Step(f, t) == IF t > MaxTime THEN tree
                         ELSE IF \A i \in Standing : i.at # t THEN f[t + 1]
                         ELSE Restored(f[t + 1], store[CHOOSE i \in Standing : i.at = t])
           g == [t \in Times1 |-> TreeSince(t)]
<1>1. MaxTime \in Nat
  BY Distinct
<1>2. \A t \in Times1 : g[t] = Step(g, t)
  <2> SUFFICES ASSUME NEW t \in Times1 PROVE TreeSince(t) = Step(g, t)
    OBVIOUS
  <2>1. CASE t > MaxTime
    <3>1. Since(t) = {}
      BY <1>1, <2>1, SessionFacts DEF Since
    <3>2. QED
      BY <2>1, <3>1 DEF TreeSince
  <2>2. CASE ~(t > MaxTime)
    <3>1. t \in 0..MaxTime /\ t + 1 \in Times1
      BY <1>1, <2>2
    <3>2. g[t + 1] = TreeSince(t + 1)
      BY <3>1
    <3> HIDE DEF g
    <3>3. QED
      BY <2>2, <3>1, <3>2, TreeSinceStep
  <2>3. QED
    BY <2>1, <2>2
<1> HIDE DEF Step
<1>3. g = [t \in Times1 |-> Step(g, t)]
  BY <1>2, Zenon
<1> HIDE DEF g
<1>4. UndoneSince = [t \in Times1 |-> Step(UndoneSince, t)]
  <2>1. UndoneSince = CHOOSE f : f = [t \in Times1 |-> Step(f, t)]
    BY Zenon DEF UndoneSince, Step
  <2>2. QED
    BY <1>3, <2>1, Zenon
<1>5. \A t \in Times1 : UndoneSince[t] = Step(UndoneSince, t) /\ g[t] = TreeSince(t)
  BY <1>4, Zenon DEF g
<1>6. ASSUME NEW t \in Times1, t <= MaxTime => UndoneSince[t + 1] = g[t + 1]
      PROVE  UndoneSince[t] = g[t]
  <2>1. Step(UndoneSince, t) = Step(g, t)
    BY <1>1, <1>6 DEF Step
  <2>2. QED
    BY <1>2, <1>5, <2>1
<1> DEFINE Wrong == {t \in Times1 : UndoneSince[t] # g[t]}
<1>7. ASSUME NEW w \in Wrong PROVE FALSE
  <2> DEFINE K == {MaxTime + 1 - t : t \in Wrong}
  <2>1. K \subseteq Nat /\ MaxTime + 1 - w \in K
    BY <1>1
  <2>2. PICK k \in K : \A j \in K : k <= j
    BY <2>1, LeastOf
  <2>3. PICK t \in Wrong : k = MaxTime + 1 - t
    OBVIOUS
  <2>4. CASE t <= MaxTime
    <3>1. t + 1 \in Times1 /\ MaxTime + 1 - (t + 1) = k - 1 /\ k \in Nat
      BY <1>1, <2>3, <2>4
    <3>2. k - 1 \notin K
      BY <2>2, <3>1
    <3>3. t + 1 \notin Wrong
      BY <3>1, <3>2
    <3>4. QED
      BY <1>6, <3>1, <3>3
  <2>5. CASE ~(t <= MaxTime)
    BY <1>6, <2>5
  <2>6. QED
    BY <2>4, <2>5
<1>8. QED
  BY <1>5, <1>7

LEMMA LineUnwinds == StoreInv /\ HistoryInv => HistoryUnwinds
<1> SUFFICES ASSUME StoreInv, Line, NEW i \in Standing PROVE UndoneSince[i.at] = opened[i].from
  BY DEF HistoryInv, InOrder, HistoryUnwinds
<1>1. \A j \in Standing : j \in DOMAIN opened /\ j.at \in Nat /\ j.at \in 0..MaxTime
  BY SessionFacts
<1>2. UndoneSince[i.at] = TreeSince(i.at)
  BY <1>1, UndoneIs, Distinct
<1>3. i \in Since(i.at)
  BY <1>1 DEF Since
<1>4. Oldest(Since(i.at)) = i
  <2>1. Oldest(Since(i.at)) \in Since(i.at) /\ Oldest(Since(i.at)).at <= i.at
    BY <1>3, OldestIs
  <2>2. Oldest(Since(i.at)).at = i.at
    BY <1>1, <2>1 DEF Since
  <2>3. QED
    BY <1>1, <2>1, <2>2 DEF Since, Line
<1>5. QED
  BY <1>2, <1>3, <1>4 DEF TreeSince

(* As long as the history is a line, of plans that do not tangle, undoing  *)
(* the sessions that are listed, the newest first, gives back the tree     *)
(* each of them was opened on: whatever failed, died or was pruned in      *)
(* between.                                                                *)
THEOREM HistoryComesBack == Spec => []HistoryUnwinds
<1>1. Spec => []StoreInv
  BY SpecInv
<1>2. Spec => []HistoryInv
  BY HistoryInit, HistoryNext, SpecInv, PTL DEF Spec
<1>3. QED
  BY <1>1, <1>2, LineUnwinds, PTL
====
