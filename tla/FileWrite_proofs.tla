-------------------------- MODULE FileWrite_proofs --------------------------
(***************************************************************************)
(* For any number of processes, names, inodes and failing calls: files are *)
(* replaced whole, a file keeps its names, what an in-place write was to   *)
(* put there is somewhere, a move keeps the bytes it moves, and of several *)
(* that create one name one succeeds at most.                              *)
(***************************************************************************)
EXTENDS FileWrite, FiniteSetTheorems, SequenceTheorems, TLAPS

(* A name that is free has not been created since.                         *)
ExclusiveInv ==
  /\ entry \in [Name -> {entry[n] : n \in Name}]
  /\ created \in [Name -> Nat]
  /\ \A n \in Name : entry[n] = Missing => created[n] = 0
  /\ CreateIsExclusive

LEMMA FilesAreThere == \A i : File(i) # Missing
BY DEF File, Missing

(* Giving and taking names keeps it, if what is created was free.          *)
LEMMA EntriesKeep ==
  ASSUME ExclusiveInv, NEW e, NEW new, DOMAIN e = Name, e = [n \in Name |-> e[n]],
         Entries(e, new), \A n \in new \cap Name : entry[n] = Missing
  PROVE  ExclusiveInv'
<1>1. /\ entry' = e
      /\ created' = [n \in Name |-> IF e[n] = Missing THEN 0
                                    ELSE created[n] + (IF n \in new THEN 1 ELSE 0)]
  BY DEF Entries
<1>2. entry' \in [Name -> {entry'[n] : n \in Name}]
  BY <1>1
<1>3. \A n \in Name : created[n] \in Nat /\ created[n] <= 1
                      /\ (n \in new => created[n] = 0)
  BY DEF ExclusiveInv, CreateIsExclusive
<1>4. QED
  BY <1>1, <1>2, <1>3 DEF ExclusiveInv, CreateIsExclusive

LEMMA SameEntriesKeep == ExclusiveInv /\ SameEntries => ExclusiveInv'
BY DEF ExclusiveInv, SameEntries, CreateIsExclusive

(* One name after another.                                                 *)
LEMMA Updated ==
  ASSUME ExclusiveInv, NEW m, NEW v
  PROVE  LET e == [entry EXCEPT ![m] = v]
         IN  DOMAIN e = Name /\ e = [n \in Name |-> e[n]]
BY DEF ExclusiveInv

-----------------------------------------------------------------------------
LEMMA PersistKeeps == ASSUME ExclusiveInv, NEW p \in Proc, Persist(p) PROVE ExclusiveInv'
<1> DEFINE me == proc[p]
           e == [entry EXCEPT ![me.name] = File(me.tmp)]
           new == IF me.op.kind = "create" THEN {me.name} ELSE {}
<1>1. \/ SameEntries
      \/ Entries(e, new) /\ ~(me.op.kind = "create" /\ entry[me.name] # Missing)
  BY Zenon DEF Persist
<1>2. CASE SameEntries
  BY <1>2, SameEntriesKeep
<1>3. CASE Entries(e, new) /\ ~(me.op.kind = "create" /\ entry[me.name] # Missing)
  <2>1. \A n \in new \cap Name : entry[n] = Missing
    BY <1>3
  <2>2. DOMAIN e = Name /\ e = [n \in Name |-> e[n]]
    BY DEF ExclusiveInv
  <2> HIDE DEF e, new
  <2>3. QED
    BY <1>3, <2>1, <2>2, EntriesKeep
<1>4. QED
  BY <1>1, <1>2, <1>3

(* Names are taken, or moved: none is created.                             *)
LEMMA MovesKeep ==
  ASSUME ExclusiveInv, NEW m, NEW v, NEW k, NEW w,
         \/ Entries([entry EXCEPT ![m] = v], {})
         \/ Entries([entry EXCEPT ![m] = v, ![k] = w], {})
  PROVE  ExclusiveInv'
<1> DEFINE e == [entry EXCEPT ![m] = v]
           g == [entry EXCEPT ![m] = v, ![k] = w]
<1>1. DOMAIN e = Name /\ e = [n \in Name |-> e[n]]
  BY DEF ExclusiveInv
<1>2. DOMAIN g = Name /\ g = [n \in Name |-> g[n]]
  BY DEF ExclusiveInv
<1>3. Entries(e, {}) \/ Entries(g, {})
  OBVIOUS
<1> HIDE DEF e, g
<1>4. QED
  BY <1>1, <1>2, <1>3, EntriesKeep

(* A copy across devices makes a name, but creates none: it is answered as *)
(* a move.                                                                 *)
LEMMA CopyKeeps == ASSUME ExclusiveInv, NEW p \in Proc, StartCopy(p) PROVE ExclusiveInv'
<1>1. \/ SameEntries
      \/ \E to, i : entry' = [entry EXCEPT ![to] = File(i)] /\ UNCHANGED created
  BY Zenon DEF StartCopy
<1>2. ASSUME NEW to, NEW i, entry' = [entry EXCEPT ![to] = File(i)], UNCHANGED created
      PROVE  ExclusiveInv'
  <2>1. \A n \in Name : entry'[n] = Missing => entry[n] = Missing
    BY <1>2, FilesAreThere DEF ExclusiveInv
  <2>2. entry' \in [Name -> {entry'[n] : n \in Name}]
    BY <1>2 DEF ExclusiveInv
  <2>3. QED
    BY <1>2, <2>1, <2>2 DEF ExclusiveInv, CreateIsExclusive
<1>3. QED
  BY <1>1, <1>2, SameEntriesKeep

LEMMA RenamingKeeps ==
  ASSUME ExclusiveInv, NEW p \in Proc, Resolve(p) \/ Rename(p) \/ UnlinkSource(p) \/ UnlinkFails(p)
  PROVE  ExclusiveInv'
<1>1. CASE Resolve(p)
  BY <1>1, SameEntriesKeep, MovesKeep, Zenon DEF Resolve
<1>2. CASE Rename(p)
  BY <1>2, SameEntriesKeep, MovesKeep, Zenon DEF Rename
<1>3. CASE UnlinkSource(p)
  BY <1>3, MovesKeep, Zenon DEF UnlinkSource
<1>4. CASE UnlinkFails(p)
  BY <1>4, SameEntriesKeep, MovesKeep, Zenon DEF UnlinkFails
<1>5. QED
  BY <1>1, <1>2, <1>3, <1>4

LEMMA OthersKeep == ASSUME ExclusiveInv, OtherLinks \/ OtherUnlinks PROVE ExclusiveInv'
<1>1. CASE OtherLinks
  BY <1>1, MovesKeep, Zenon DEF OtherLinks
<1>2. CASE OtherUnlinks
  BY <1>2, MovesKeep, Zenon DEF OtherUnlinks
<1>3. QED
  BY <1>1, <1>2

(* The other steps leave the names alone.                                  *)
LEMMA StepsKeepEntries ==
  ASSUME NEW p \in Proc,
         \/ \E op \in Ops : Begin(p, op)
         \/ Stat(p) \/ CallFails(p) \/ Open(p) \/ WriteBlock(p) \/ SetLen(p)
         \/ InPlaceFails(p) \/ Fill(p) \/ CopyFails(p) \/ Crash(p)
  PROVE  SameEntries
BY Zenon DEF Begin, Stat, CallFails, Open, WriteBlock, SetLen, InPlaceFails, Fill, CopyFails,
             Crash, SameFiles

LEMMA StageKeeps == ASSUME ExclusiveInv, NEW p \in Proc, Stage(p) PROVE ExclusiveInv'
<1>1. UNCHANGED <<entry, created>>
  BY Zenon DEF Stage
<1>2. QED
  BY <1>1 DEF ExclusiveInv, CreateIsExclusive

-----------------------------------------------------------------------------
LEMMA ExclusiveInit == Init => ExclusiveInv
<1> SUFFICES ASSUME Init PROVE ExclusiveInv
  OBVIOUS
<1>1. entry \in [Name -> Entry] /\ created = [n \in Name |-> 0]
  BY EntriesAssumption DEF Init
<1>2. QED
  BY <1>1 DEF ExclusiveInv, CreateIsExclusive

LEMMA ExclusiveStep == ExclusiveInv /\ [Next]_vars => ExclusiveInv'
<1> SUFFICES ASSUME ExclusiveInv, [Next]_vars PROVE ExclusiveInv'
  OBVIOUS
<1>1. CASE UNCHANGED vars
  BY <1>1, SameEntriesKeep DEF vars, SameEntries
<1>2. CASE OtherLinks \/ OtherUnlinks
  BY <1>2, OthersKeep
<1>3. ASSUME NEW p \in Proc, Persist(p) PROVE ExclusiveInv'
  BY <1>3, PersistKeeps
<1>4. ASSUME NEW p \in Proc, Resolve(p) \/ Rename(p) \/ UnlinkSource(p) \/ UnlinkFails(p)
      PROVE  ExclusiveInv'
  BY <1>4, RenamingKeeps
<1>5. ASSUME NEW p \in Proc, Stage(p) \/ StartCopy(p) PROVE ExclusiveInv'
  BY <1>5, StageKeeps, CopyKeeps
<1>6. ASSUME NEW p \in Proc,
             \/ \E op \in Ops : Begin(p, op)
             \/ Stat(p) \/ CallFails(p) \/ Open(p) \/ WriteBlock(p) \/ SetLen(p)
             \/ InPlaceFails(p) \/ Fill(p) \/ CopyFails(p) \/ Crash(p)
      PROVE  ExclusiveInv'
  BY <1>6, StepsKeepEntries, SameEntriesKeep
<1>7. QED
  BY <1>1, <1>2, <1>3, <1>4, <1>5, <1>6, Zenon DEF Next

(***************************************************************************)
(* atomic_create_new: of those that create one name, as long as it is not  *)
(* free again, one at most is told that it did.                            *)
(***************************************************************************)
THEOREM OneCreates == Spec => []CreateIsExclusive
BY ExclusiveInit, ExclusiveStep, PTL DEF Spec, ExclusiveInv

-----------------------------------------------------------------------------
(* Types: of what a process is doing, by its step, and of the disk.        *)
Block == {None} \cup UNION {{w[j] : j \in DOMAIN w} : w \in Payload}

Writing == {"resolve", "stat", "stage", "stage_shared", "persist", "open", "overwrite",
            "reopen", "restore"}
Moving == {"rename", "copy", "fill", "unlink"}
Staged == {"persist", "open", "overwrite", "reopen", "restore"}
InPlace == {"overwrite", "restore"}
Copying == {"fill", "unlink"}

Ready(r) ==
  /\ r \in Process
  /\ r.pc \notin {"idle", "dead"} => r.op \in Ops /\ r.name \in Name
  /\ r.pc \in Writing => r.op.kind \in {"write", "create"}
  /\ r.pc \in Moving => r.op.kind = "move"
  /\ r.pc \in Staged => r.tmp \in Inode
  /\ r.pc \in InPlace => r.fd \in Inode /\ r.at <= Len(r.op.payload) + 1
  /\ r.pc \in Copying => r.fd \in Inode /\ r.tmp \in Inode

TypeInv ==
  /\ entry \in [Name -> Entry] /\ bytes \in [Inode -> Seq(Block)]
  /\ proc \in [Proc -> Process] /\ \A p \in Proc : Ready(proc[p])
  /\ kept \subseteq Inode /\ shared \subseteq Inode /\ copied \subseteq Inode
  /\ ops \in 0..MaxOps /\ faults \in 0..MaxFaults /\ others \in 0..MaxOthers

LEMMA PayloadIs ==
  ASSUME NEW w \in Payload
  PROVE  w \in Seq(Block) /\ Len(w) \in Nat /\ \A j \in 1..Len(w) : w[j] \in Block
<1>1. w \in Seq({w[j] : j \in DOMAIN w}) /\ {w[j] : j \in DOMAIN w} \subseteq Block
  BY FileAssumption DEF Block
<1>2. w \in Seq(Block)
  BY <1>1, SeqMonotonic
<1>3. QED
  BY <1>2, LenProperties, ElementOfSeq

LEMMA OpIs ==
  ASSUME NEW op \in Ops
  PROVE  /\ op.name \in Name /\ op.kind \in {"write", "create", "move"}
         /\ op.kind \in {"write", "create"} => op.payload \in Payload
         /\ op.kind = "move" => op.to \in Name
BY FileAssumption

LEMMA EntryIs ==
  ASSUME NEW e \in Entry
  PROVE  /\ e.kind \in {"file", "link", "missing"}
         /\ e.kind = "file" => e.inode \in Inode /\ e = File(e.inode)
         /\ e.kind = "link" => e.to \in Name /\ e.inode = None
         /\ e.kind = "missing" => e = Missing
         /\ e = Missing => e.kind = "missing" /\ e.inode = None
         /\ e.kind # "file" => e.inode = None
         /\ e.inode \in Inode \cup {None}
<1>1. CASE e = Missing
  BY <1>1 DEF Missing
<1>2. ASSUME NEW i \in Inode, e = File(i) PROVE e.kind = "file" /\ e.inode = i /\ e # Missing
  BY <1>2 DEF File, Missing
<1>3. ASSUME NEW n \in Name, e = Link(n)
      PROVE  e.kind = "link" /\ e.to = n /\ e.inode = None /\ e # Missing
  BY <1>3 DEF Link, Missing
<1>4. QED
  BY <1>1, <1>2, <1>3 DEF Entry

LEMMA FileIs == \A i : File(i).kind = "file" /\ File(i).inode = i
                       /\ (i \in Inode => File(i) \in Entry)
BY DEF File, Entry

LEMMA MissingIs == Missing \in Entry /\ Missing.kind = "missing" /\ Missing.inode = None
BY DEF Missing, Entry

(* What open(2) reaches is a file's inode, and of a name of the system.    *)
LEMMA OpensIs ==
  ASSUME entry \in [Name -> Entry], NEW n \in Name
  PROVE  /\ Target(n) \in Name
         /\ Opens(n) \in Inode \cup {None}
         /\ Opens(n) # None => IsFile(Target(n)) /\ Opens(n) = entry[Target(n)].inode
         /\ IsFile(n) => Target(n) = n /\ Opens(n) = entry[n].inode /\ Opens(n) \in Inode
<1>1. Target(n) \in Name
  BY EntryIs DEF Target
<1>2. IsFile(Target(n)) => entry[Target(n)].inode \in Inode
  BY <1>1, EntryIs DEF IsFile
<1>3. IsFile(n) => Target(n) = n
  BY DEF IsFile, Target
<1>4. QED
  BY <1>1, <1>2, <1>3 DEF Opens

LEMMA IdleReady == Ready(Idle) /\ Ready([Idle EXCEPT !.pc = "dead"]) /\ Idle.pc = "idle"
                   /\ [Idle EXCEPT !.pc = "dead"].pc = "dead"
<1>1. Idle \in Process /\ Idle.pc = "idle"
  BY DEF Idle, Process
<1>2. /\ [Idle EXCEPT !.pc = "dead"] \in Process
      /\ [Idle EXCEPT !.pc = "dead"].pc = "dead"
  BY <1>1 DEF Process
<1>3. QED
  BY <1>1, <1>2 DEF Ready, Writing, Moving, Staged, InPlace, Copying

LEMMA NewInodeIs == HasSpace => NewInode \in Inode /\ NewInode \notin Used
BY DEF HasSpace, NewInode

(* Names and blocks change within their types.                             *)
LEMMA EntriesType ==
  ASSUME TypeInv, NEW e \in [Name -> Entry], NEW new, Entries(e, new)
  PROVE  entry' \in [Name -> Entry] /\ shared' \subseteq Inode
BY DEF Entries, TypeInv

LEMMA OverwrittenIs ==
  ASSUME NEW old \in Seq(Block), NEW k \in Nat \ {0}, NEW b \in Block
  PROVE  LET new == Overwritten(old, k, b)
         IN  /\ new \in Seq(Block)
             /\ Len(new) = (IF k > Len(old) THEN k ELSE Len(old))
             /\ new[k] = b
             /\ \A j \in 1..Len(old) : j # k => new[j] = old[j]
<1> DEFINE m == IF k > Len(old) THEN k ELSE Len(old)
           new == Overwritten(old, k, b)
<1>1. Len(old) \in Nat /\ \A j \in 1..Len(old) : old[j] \in Block
  BY ElementOfSeq, LenProperties
<1>2. m \in Nat /\ k \in 1..m /\ 1..Len(old) \subseteq 1..m
  BY <1>1
<1>3. None \in Block
  BY DEF Block
<1>4. new = [j \in 1..m |-> IF j = k THEN b ELSE IF j > Len(old) THEN None ELSE old[j]]
  BY DEF Overwritten
<1> HIDE DEF new
<1>5. \A j \in 1..m : new[j] \in Block
  <2> SUFFICES ASSUME NEW j \in 1..m PROVE new[j] \in Block
    OBVIOUS
  <2>1. new[j] = IF j = k THEN b ELSE IF j > Len(old) THEN None ELSE old[j]
    BY <1>4
  <2>2. j <= Len(old) => j \in 1..Len(old)
    BY <1>1, <1>2
  <2>3. QED
    BY <1>1, <1>2, <1>3, <2>1, <2>2
<1>6. new \in [1..m -> Block]
  BY <1>4, <1>5
<1>7. new \in Seq(Block)
  BY <1>2, <1>6, SeqDef
<1>8. DOMAIN new = 1..m /\ DOMAIN new = 1..Len(new) /\ Len(new) \in Nat
  BY <1>6, <1>7, LenProperties
<1>9. Len(new) = m
  BY <1>2, <1>8
<1>10. new[k] = b /\ \A j \in 1..Len(old) : j # k => new[j] = old[j]
  BY <1>1, <1>2, <1>4
<1>11. QED
  BY <1>7, <1>9, <1>10 DEF new

-----------------------------------------------------------------------------
(* Each step keeps the types.                                              *)
LEMMA TypeKeeps ==
  ASSUME TypeInv, NEW p \in Proc, NEW r, Ready(r), Become(p, r),
         entry' \in [Name -> Entry], bytes' \in [Inode -> Seq(Block)],
         kept' \subseteq Inode, shared' \subseteq Inode, copied' \subseteq Inode,
         ops' = ops, faults' = faults \/ (faults < MaxFaults /\ faults' = faults + 1),
         others' = others
  PROVE  TypeInv'
<1>1. proc' = [proc EXCEPT ![p] = r] /\ r \in Process
  BY DEF Become, Ready
<1>2. proc' \in [Proc -> Process] /\ \A q \in Proc : proc'[q] = IF q = p THEN r ELSE proc[q]
  BY <1>1 DEF TypeInv
<1>3. \A q \in Proc : Ready(proc'[q])
  BY <1>2 DEF TypeInv
<1>4. faults' \in 0..MaxFaults
  BY FileAssumption DEF TypeInv
<1>5. QED
  BY <1>2, <1>3, <1>4 DEF TypeInv

LEMMA TypeKeepsSame ==
  ASSUME TypeInv, NEW p \in Proc, NEW r, Ready(r), Become(p, r), SameFiles,
         bytes' \in [Inode -> Seq(Block)], kept' \subseteq Inode, UNCHANGED <<copied, ops>>,
         faults' = faults \/ (faults < MaxFaults /\ faults' = faults + 1)
  PROVE  TypeInv'
<1>1. UNCHANGED <<entry, shared, others>>
  BY DEF SameFiles, SameEntries
<1>2. QED
  BY <1>1, TypeKeeps DEF TypeInv

LEMMA BeginType == ASSUME TypeInv, NEW p \in Proc, NEW op \in Ops, Begin(p, op) PROVE TypeInv'
<1> DEFINE busy == {q \in Proc \ {p} : ~Free(q)}
           r == [Idle EXCEPT !.op = op, !.name = op.name, !.alone = (busy = {}),
                   !.pc = CASE op.kind = "write" -> "resolve"
                            [] op.kind = "create" -> "stage"
                            [] op.kind = "move" -> "rename"]
           s(q) == [proc[q] EXCEPT !.alone = q \notin busy]
<1>1. /\ proc' = [q \in Proc |-> IF q = p THEN r ELSE s(q)]
      /\ ops < MaxOps /\ ops' = ops + 1
      /\ SameFiles /\ UNCHANGED <<bytes, kept, copied, faults>>
  BY Zenon DEF Begin
<1>2. Ready(r)
  <2>1. (busy = {}) \in BOOLEAN
    OBVIOUS
  <2> HIDE DEF busy
  <2>2. r \in Process /\ r.op = op /\ r.name = op.name
        /\ \/ op.kind = "write" /\ r.pc = "resolve"
           \/ op.kind = "create" /\ r.pc = "stage"
           \/ op.kind = "move" /\ r.pc = "rename"
    BY <2>1, OpIs, IdleReady DEF Process, Ready
  <2>3. QED
    BY <2>2, OpIs DEF Ready, Writing, Moving, Staged, InPlace, Copying
<1>3. \A q \in Proc : Ready(s(q))
  <2> SUFFICES ASSUME NEW q \in Proc PROVE Ready(s(q))
    OBVIOUS
  <2>1. (q \notin busy) \in BOOLEAN
    OBVIOUS
  <2> HIDE DEF busy
  <2>2. QED
    BY <2>1 DEF TypeInv, Ready, Process
<1> HIDE DEF r, s
<1>4. \A q \in Proc : Ready(proc'[q])
  BY <1>1, <1>2, <1>3
<1>5. proc' \in [Proc -> Process]
  BY <1>1, <1>4 DEF Ready
<1>6. ops' \in 0..MaxOps
  BY <1>1, FileAssumption DEF TypeInv
<1>7. QED
  BY <1>1, <1>4, <1>5, <1>6 DEF TypeInv, SameFiles, SameEntries

LEMMA ResolveType == ASSUME TypeInv, NEW p \in Proc, Resolve(p) PROVE TypeInv'
<1> DEFINE me == proc[p]
           n == IF IsFile(Target(me.name)) THEN Target(me.name) ELSE me.name
           e == [entry EXCEPT ![me.name] = Missing]
<1>1. /\ me.pc = "resolve"
      /\ Entries(e, {}) \/ SameEntries
      /\ Become(p, [me EXCEPT !.pc = "stat",
                      !.name = IF IsFile(Target(@)) THEN Target(@) ELSE @])
      /\ UNCHANGED <<bytes, kept, copied, ops, faults, others>>
  BY Zenon DEF Resolve
<1>2. Ready(me) /\ me.name \in Name
  BY <1>1 DEF TypeInv, Ready
<1>3. n \in Name
  BY <1>2, OpensIs DEF TypeInv
<1>4. Become(p, [me EXCEPT !.pc = "stat", !.name = n])
  BY <1>1, <1>2 DEF Ready, Process
<1> HIDE DEF n
<1>5. Ready([me EXCEPT !.pc = "stat", !.name = n])
  BY <1>1, <1>2, <1>3 DEF Ready, Process, Writing, Moving, Staged, InPlace, Copying
<1>6. entry' \in [Name -> Entry] /\ shared' \subseteq Inode
  <2>1. e \in [Name -> Entry]
    BY MissingIs DEF TypeInv
  <2>2. QED
    BY <1>1, <2>1, EntriesType DEF SameEntries, TypeInv
<1>7. QED
  BY <1>1, <1>4, <1>5, <1>6, TypeKeeps DEF TypeInv

LEMMA StatType == ASSUME TypeInv, NEW p \in Proc, Stat(p) PROVE TypeInv'
<1> DEFINE me == proc[p]
           c == IF IsFile(me.name) /\ Cardinality(NamesOf(entry[me.name].inode)) > 1
                THEN "stage_shared" ELSE "stage"
<1>1. /\ me.pc = "stat" /\ Become(p, [me EXCEPT !.pc = c])
      /\ SameFiles /\ UNCHANGED <<bytes, kept, copied, ops, faults>>
  BY Zenon DEF Stat
<1>2. c \in {"stage_shared", "stage"}
  OBVIOUS
<1> HIDE DEF c
<1>3. Ready(me)
  BY DEF TypeInv
<1>4. Ready([me EXCEPT !.pc = c])
  BY <1>1, <1>2, <1>3 DEF Ready, Process, Writing, Moving, Staged, InPlace, Copying
<1>5. QED
  BY <1>1, <1>4, TypeKeepsSame DEF TypeInv

LEMMA StageType == ASSUME TypeInv, NEW p \in Proc, Stage(p) PROVE TypeInv'
<1> DEFINE me == proc[p]
           i == NewInode
           c == IF me.pc = "stage" THEN "persist" ELSE "open"
<1>1. /\ me.pc \in {"stage", "stage_shared"} /\ HasSpace
      /\ bytes' = [bytes EXCEPT ![i] = me.op.payload]
      /\ Become(p, [me EXCEPT !.tmp = i, !.pc = c])
      /\ shared' = shared \ {i} /\ copied' = copied \ {i}
      /\ UNCHANGED <<entry, created, others, kept, ops, faults>>
  BY Zenon DEF Stage
<1>2. Ready(me) /\ i \in Inode /\ c \in {"persist", "open"}
  BY <1>1, NewInodeIs DEF TypeInv
<1> HIDE DEF c
<1>3. Ready([me EXCEPT !.tmp = i, !.pc = c])
  BY <1>1, <1>2 DEF Ready, Process, Writing, Moving, Staged, InPlace, Copying
<1>4. me.op.payload \in Seq(Block)
  BY <1>1, <1>2, OpIs, PayloadIs DEF Ready, Writing
<1>5. bytes' \in [Inode -> Seq(Block)]
  BY <1>1, <1>4 DEF TypeInv
<1>6. QED
  BY <1>1, <1>3, <1>5, TypeKeeps DEF TypeInv

LEMMA PersistType == ASSUME TypeInv, NEW p \in Proc, Persist(p) PROVE TypeInv'
<1> DEFINE me == proc[p]
           e == [entry EXCEPT ![me.name] = File(me.tmp)]
           new == IF me.op.kind = "create" THEN {me.name} ELSE {}
<1>1. /\ me.pc = "persist"
      /\ Entries(e, new) \/ SameEntries
      /\ Become(p, Idle) /\ UNCHANGED <<bytes, kept, copied, ops, faults, others>>
  BY Zenon DEF Persist, Return
<1>2. me.tmp \in Inode
  BY <1>1 DEF TypeInv, Ready, Staged
<1>3. e \in [Name -> Entry]
  BY <1>2, FileIs DEF TypeInv
<1> HIDE DEF e, new
<1>4. entry' \in [Name -> Entry] /\ shared' \subseteq Inode
  BY <1>1, <1>3, EntriesType DEF SameEntries, TypeInv
<1>5. QED
  BY <1>1, <1>4, IdleReady, TypeKeeps DEF TypeInv

LEMMA ReturnsType ==
  ASSUME TypeInv, NEW p \in Proc, CallFails(p) \/ CopyFails(p) \/ Crash(p)
  PROVE  TypeInv'
<1>1. /\ Become(p, Idle) \/ Become(p, [Idle EXCEPT !.pc = "dead"])
      /\ faults < MaxFaults /\ faults' = faults + 1
      /\ SameFiles /\ UNCHANGED <<bytes, kept, copied, ops>>
  BY Zenon DEF CallFails, CopyFails, Crash, Return
<1>2. QED
  BY <1>1, IdleReady, TypeKeepsSame DEF TypeInv

LEMMA OpenType == ASSUME TypeInv, NEW p \in Proc, Open(p) PROVE TypeInv'
<1> DEFINE me == proc[p]
           i == Opens(me.name)
           c == IF me.pc = "open" THEN "overwrite" ELSE "restore"
           r == [me EXCEPT !.fd = i, !.at = 1, !.pc = c]
<1>1. /\ me.pc \in {"open", "reopen"}
      /\ IF i = None
         THEN kept' = (IF me.pc = "reopen" THEN kept \cup {me.tmp} ELSE kept) /\ Become(p, Idle)
         ELSE Become(p, r) /\ UNCHANGED kept
      /\ SameFiles /\ UNCHANGED <<bytes, copied, ops, faults>>
  BY Zenon DEF Open, Return
<1>2. Ready(me) /\ me.name \in Name /\ me.tmp \in Inode /\ me.op.payload \in Payload
  BY <1>1, OpIs DEF TypeInv, Ready, Staged, Writing
<1>3. CASE i = None
  BY <1>1, <1>2, <1>3, IdleReady, TypeKeepsSame DEF TypeInv
<1>4. CASE i # None
  <2>1. i \in Inode /\ c \in InPlace /\ Len(me.op.payload) \in Nat
    BY <1>2, <1>4, OpensIs, PayloadIs DEF TypeInv, InPlace
  <2> HIDE DEF i, c
  <2>2. /\ r \in Process /\ r.pc = c /\ r.fd = i /\ r.at = 1 /\ r.op = me.op
        /\ r.name = me.name /\ r.tmp = me.tmp
    <3>1. me \in Process /\ 1 \in Nat \ {0} /\ c \in {"overwrite", "restore"}
          /\ i \in Inode
      BY <1>2, <2>1 DEF Ready, InPlace
    <3>2. QED
      BY <3>1 DEF Process
  <2> HIDE DEF r
  <2>3. Ready(r)
    BY <1>1, <1>2, <2>1, <2>2 DEF Ready, Writing, Moving, Staged, InPlace, Copying
  <2>4. QED
    BY <1>1, <1>4, <2>3, TypeKeepsSame DEF TypeInv
<1>5. QED
  BY <1>3, <1>4

LEMMA WriteBlockType == ASSUME TypeInv, NEW p \in Proc, WriteBlock(p) PROVE TypeInv'
<1> DEFINE me == proc[p]
           b == me.op.payload[me.at]
           new == Overwritten(bytes[me.fd], me.at, b)
           r == [me EXCEPT !.at = @ + 1]
<1>1. /\ me.pc \in {"overwrite", "restore"} /\ me.at <= Len(me.op.payload)
      /\ bytes' = [bytes EXCEPT ![me.fd] = Overwritten(@, me.at, b)]
      /\ Become(p, r)
      /\ SameFiles /\ UNCHANGED <<kept, copied, ops, faults>>
  BY Zenon DEF WriteBlock
<1>2. Ready(me) /\ me.fd \in Inode /\ me.at \in Nat \ {0} /\ me.op.payload \in Payload
  BY <1>1, OpIs DEF TypeInv, Ready, InPlace, Writing, Process
<1>3. Len(me.op.payload) \in Nat /\ b \in Block
  BY <1>1, <1>2, PayloadIs
<1>4. Ready(r)
  BY <1>1, <1>2, <1>3 DEF Ready, Process, Writing, Moving, Staged, InPlace, Copying
<1> HIDE DEF b
<1>5. bytes[me.fd] \in Seq(Block)
  BY <1>2 DEF TypeInv
<1>6. new \in Seq(Block)
  BY <1>2, <1>3, <1>5, OverwrittenIs
<1>7. bytes' = [bytes EXCEPT ![me.fd] = new]
  BY <1>1
<1> HIDE DEF new
<1>8. bytes' \in [Inode -> Seq(Block)]
  BY <1>6, <1>7 DEF TypeInv
<1> HIDE DEF r
<1>9. QED
  BY <1>1, <1>4, <1>8, TypeKeepsSame DEF TypeInv

(* A file cut to a length it has keeps its first blocks.                   *)
LEMMA CutIs ==
  ASSUME NEW old \in Seq(Block), NEW n \in Nat
  PROVE  LET new == IF Len(old) > n THEN SubSeq(old, 1, n) ELSE old
         IN  /\ new \in Seq(Block)
             /\ Len(new) = IF Len(old) > n THEN n ELSE Len(old)
             /\ \A j \in 1..Len(new) : new[j] = old[j]
<1>1. Len(old) \in Nat /\ \A j \in 1..Len(old) : old[j] \in Block
  BY ElementOfSeq, LenProperties
<1>2. CASE Len(old) > n
  <2>1. \A j \in 1..n : old[j] \in Block
    BY <1>1, <1>2
  <2>2. /\ SubSeq(old, 1, n) \in Seq(Block)
        /\ Len(SubSeq(old, 1, n)) = IF 1 <= n THEN n - 1 + 1 ELSE 0
        /\ \A j \in 1..(n - 1 + 1) : SubSeq(old, 1, n)[j] = old[1 + j - 1]
    BY <2>1, SubSeqProperties
  <2>3. Len(SubSeq(old, 1, n)) = n
    BY <2>2
  <2>4. \A j \in 1..n : SubSeq(old, 1, n)[j] = old[j]
    BY <2>2
  <2>5. QED
    BY <1>2, <2>2, <2>3, <2>4
<1>3. CASE ~(Len(old) > n)
  BY <1>3
<1>4. QED
  BY <1>2, <1>3

LEMMA SetLenType == ASSUME TypeInv, NEW p \in Proc, SetLen(p) PROVE TypeInv'
<1> DEFINE me == proc[p]
           n == Len(me.op.payload)
           new == IF Len(bytes[me.fd]) > n THEN SubSeq(bytes[me.fd], 1, n) ELSE bytes[me.fd]
<1>1. /\ me.pc \in {"overwrite", "restore"}
      /\ bytes' = [bytes EXCEPT ![me.fd] = IF Len(@) > n THEN SubSeq(@, 1, n) ELSE @]
      /\ Become(p, Idle)
      /\ SameFiles /\ UNCHANGED <<kept, copied, ops, faults>>
  BY Zenon DEF SetLen, Return
<1>2. me.fd \in Inode /\ me.op.payload \in Payload
  BY <1>1, OpIs DEF TypeInv, Ready, InPlace, Writing, Process
<1>3. n \in Nat /\ bytes[me.fd] \in Seq(Block)
  BY <1>2, PayloadIs DEF TypeInv
<1>4. bytes' = [bytes EXCEPT ![me.fd] = new]
  BY <1>1
<1> HIDE DEF n
<1>5. new \in Seq(Block)
  BY <1>3, CutIs
<1> HIDE DEF new
<1>6. bytes' \in [Inode -> Seq(Block)]
  BY <1>4, <1>5 DEF TypeInv
<1>7. QED
  BY <1>1, <1>6, IdleReady, TypeKeepsSame DEF TypeInv

LEMMA InPlaceFailsType == ASSUME TypeInv, NEW p \in Proc, InPlaceFails(p) PROVE TypeInv'
<1> DEFINE me == proc[p]
           r == [me EXCEPT !.pc = "reopen", !.fd = None]
<1>1. /\ me.pc \in {"overwrite", "restore"}
      /\ faults < MaxFaults /\ faults' = faults + 1
      /\ IF me.pc = "overwrite" THEN Become(p, r) /\ UNCHANGED kept
         ELSE kept' = kept \cup {me.tmp} /\ Become(p, Idle)
      /\ SameFiles /\ UNCHANGED <<bytes, copied, ops>>
  BY Zenon DEF InPlaceFails, Return
<1>2. Ready(me) /\ me.tmp \in Inode
  BY <1>1 DEF TypeInv, Ready, Staged
<1>3. Ready(r)
  BY <1>1, <1>2 DEF Ready, Process, Writing, Moving, Staged, InPlace, Copying
<1> HIDE DEF r
<1>4. QED
  BY <1>1, <1>2, <1>3, IdleReady, TypeKeepsSame DEF TypeInv

LEMMA RenameType == ASSUME TypeInv, NEW p \in Proc, Rename(p) PROVE TypeInv'
<1> DEFINE me == proc[p]
           op == me.op
           copies == Across(op) /\ ~Refused(op)
           e == [entry EXCEPT ![op.to] = entry[op.name], ![op.name] = Missing]
           x == entry[op.to] # Missing
           r == [me EXCEPT !.pc = "copy", !.existed = x]
<1>1. /\ me.pc = "rename"
      /\ SameEntries \/ Entries(e, {})
      /\ Become(p, r) \/ Become(p, Idle)
      /\ UNCHANGED <<bytes, kept, copied, ops, faults, others>>
  BY Zenon DEF Rename, Return
<1>2. Ready(me) /\ op \in Ops /\ op.name \in Name /\ op.to \in Name
  BY <1>1, OpIs DEF TypeInv, Ready, Moving
<1>3. Ready(r)
  <2>1. x \in BOOLEAN
    OBVIOUS
  <2> HIDE DEF x
  <2>2. QED
    BY <1>1, <1>2, <2>1 DEF Ready, Process, Writing, Moving, Staged, InPlace, Copying
<1>4. e \in [Name -> Entry]
  BY <1>2, MissingIs DEF TypeInv
<1> HIDE DEF e, r
<1>5. entry' \in [Name -> Entry] /\ shared' \subseteq Inode
  BY <1>1, <1>4, EntriesType DEF SameEntries, TypeInv
<1>6. QED
  BY <1>1, <1>3, <1>5, IdleReady, TypeKeeps DEF TypeInv

LEMMA StartCopyType == ASSUME TypeInv, NEW p \in Proc, StartCopy(p) PROVE TypeInv'
<1> DEFINE me == proc[p]
           from == Opens(me.op.name)
           to == Target(me.op.to)
           i == IF IsFile(to) THEN entry[to].inode ELSE NewInode
           r == [me EXCEPT !.pc = "fill", !.tmp = from, !.fd = i]
<1>1. /\ me.pc = "copy"
      /\ \/ Become(p, Idle) /\ SameEntries /\ UNCHANGED <<bytes, copied>>
         \/ /\ from # None
            /\ IsFile(to) \/ HasSpace
            /\ bytes' = [bytes EXCEPT ![i] = << >>]
            /\ entry' = [entry EXCEPT ![to] = File(i)]
            /\ shared' = IF IsFile(to) THEN shared ELSE shared \ {i}
            /\ copied' = copied \cup {i}
            /\ Become(p, r)
      /\ UNCHANGED <<kept, ops, faults, others>>
  BY Zenon DEF StartCopy, Return
<1>2. Ready(me) /\ me.op.name \in Name /\ to \in Name /\ from \in Inode \cup {None}
  BY <1>1, OpIs, OpensIs DEF TypeInv, Ready, Moving
<1>3. CASE Become(p, Idle) /\ SameEntries /\ UNCHANGED <<bytes, copied>>
  BY <1>1, <1>3, IdleReady, TypeKeeps DEF TypeInv, SameEntries
<1>4. CASE /\ from # None
           /\ IsFile(to) \/ HasSpace
           /\ bytes' = [bytes EXCEPT ![i] = << >>]
           /\ entry' = [entry EXCEPT ![to] = File(i)]
           /\ shared' = IF IsFile(to) THEN shared ELSE shared \ {i}
           /\ copied' = copied \cup {i}
           /\ Become(p, r)
  <2>1. i \in Inode
    BY <1>2, <1>4, EntryIs, NewInodeIs DEF TypeInv, IsFile
  <2> HIDE DEF i, from, to
  <2>2. Ready(r)
    BY <1>1, <1>2, <1>4, <2>1 DEF Ready, Process, Writing, Moving, Staged, InPlace, Copying
  <2>3. entry' \in [Name -> Entry] /\ bytes' \in [Inode -> Seq(Block)]
    BY <1>2, <1>4, <2>1, FileIs, EmptySeq DEF TypeInv
  <2>4. shared' \subseteq Inode /\ copied' \subseteq Inode
    BY <1>4, <2>1 DEF TypeInv
  <2> HIDE DEF r
  <2>5. QED
    BY <1>1, <1>4, <2>2, <2>3, <2>4, TypeKeeps DEF TypeInv
<1>5. QED
  BY <1>1, <1>3, <1>4

LEMMA FillType == ASSUME TypeInv, NEW p \in Proc, Fill(p) PROVE TypeInv'
<1> DEFINE me == proc[p]
           r == [me EXCEPT !.pc = "unlink"]
<1>1. /\ me.pc = "fill" /\ bytes' = [bytes EXCEPT ![me.fd] = bytes[me.tmp]]
      /\ Become(p, r)
      /\ SameFiles /\ UNCHANGED <<kept, copied, ops, faults>>
  BY Zenon DEF Fill
<1>2. Ready(me) /\ me.tmp \in Inode
  BY <1>1 DEF TypeInv, Ready, Copying
<1>3. Ready(r)
  BY <1>1, <1>2 DEF Ready, Process, Writing, Moving, Staged, InPlace, Copying
<1>4. bytes' \in [Inode -> Seq(Block)]
  BY <1>1, <1>2 DEF TypeInv
<1>5. QED
  BY <1>1, <1>3, <1>4, TypeKeepsSame DEF TypeInv

LEMMA UnlinkType ==
  ASSUME TypeInv, NEW p \in Proc, UnlinkSource(p) \/ UnlinkFails(p) PROVE TypeInv'
<1> DEFINE e(n) == [entry EXCEPT ![n] = Missing]
<1>1. /\ SameEntries \/ Entries(e(proc[p].op.name), {}) \/ Entries(e(proc[p].op.to), {})
      /\ Become(p, Idle)
      /\ faults' = faults \/ (faults < MaxFaults /\ faults' = faults + 1)
      /\ UNCHANGED <<bytes, kept, copied, ops, others>>
  BY Zenon DEF UnlinkSource, UnlinkFails, Return
<1>2. \A n : e(n) \in [Name -> Entry]
  BY MissingIs DEF TypeInv
<1> HIDE DEF e
<1>3. entry' \in [Name -> Entry] /\ shared' \subseteq Inode
  BY <1>1, <1>2, EntriesType DEF SameEntries, TypeInv
<1>4. QED
  BY <1>1, <1>3, IdleReady, TypeKeeps DEF TypeInv

LEMMA OthersType == ASSUME TypeInv, OtherLinks \/ OtherUnlinks PROVE TypeInv'
<1> DEFINE e(m, v) == [entry EXCEPT ![m] = v]
<1>1. /\ others < MaxOthers /\ others' = others + 1
      /\ \E m \in Name : \E v \in Entry : Entries(e(m, v), {})
      /\ UNCHANGED <<bytes, proc, kept, copied, ops, faults>>
  <2>1. \A n \in Name : entry[n] \in Entry
    BY DEF TypeInv
  <2>2. CASE OtherLinks
    BY <2>1, <2>2, Zenon DEF OtherLinks
  <2>3. CASE OtherUnlinks
    BY <2>3, MissingIs, Zenon DEF OtherUnlinks
  <2>4. QED
    BY <2>2, <2>3
<1>2. \A m \in Name : \A v \in Entry : e(m, v) \in [Name -> Entry]
  BY DEF TypeInv
<1> HIDE DEF e
<1>3. entry' \in [Name -> Entry] /\ shared' \subseteq Inode
  BY <1>1, <1>2, EntriesType
<1>4. others' \in 0..MaxOthers
  BY <1>1, FileAssumption DEF TypeInv
<1>5. QED
  BY <1>1, <1>3, <1>4 DEF TypeInv

LEMMA TypeStep == TypeInv /\ [Next]_vars => TypeInv'
<1> SUFFICES ASSUME TypeInv, [Next]_vars PROVE TypeInv'
  OBVIOUS
<1>1. ASSUME NEW p \in Proc, NEW op \in Ops, Begin(p, op) PROVE TypeInv'
  BY <1>1, BeginType
<1>2. ASSUME NEW p \in Proc,
             \/ Resolve(p) \/ Stat(p) \/ Stage(p) \/ Persist(p)
             \/ Open(p) \/ WriteBlock(p) \/ SetLen(p) \/ InPlaceFails(p)
      PROVE  TypeInv'
  BY <1>2, ResolveType, StatType, StageType, PersistType, OpenType, WriteBlockType, SetLenType,
     InPlaceFailsType
<1>3. ASSUME NEW p \in Proc,
             \/ Rename(p) \/ StartCopy(p) \/ Fill(p) \/ UnlinkSource(p) \/ UnlinkFails(p)
             \/ CallFails(p) \/ CopyFails(p) \/ Crash(p)
      PROVE  TypeInv'
  BY <1>3, RenameType, StartCopyType, FillType, UnlinkType, ReturnsType
<1>4. CASE OtherLinks \/ OtherUnlinks
  BY <1>4, OthersType
<1>5. CASE UNCHANGED vars
  BY <1>5 DEF vars, TypeInv
<1>6. QED
  BY <1>1, <1>2, <1>3, <1>4, <1>5, Zenon DEF Next

-----------------------------------------------------------------------------
(* A staged payload is whole, and nobody else reaches its inode.           *)
Secret(q) ==
  LET me == proc[q]
  IN  me.pc \in Staged =>
        /\ bytes[me.tmp] = me.op.payload
        /\ me.tmp \notin kept /\ me.fd # me.tmp
        /\ \A n \in Name : entry[n].inode # me.tmp
        /\ \A o \in Proc \ {q} : proc[o].tmp # me.tmp /\ proc[o].fd # me.tmp

Marked(q) == proc[q].pc = "fill" => proc[q].fd \in copied

SecretInv == \A q \in Proc : Secret(q) /\ Marked(q)

(* The inodes a step of p may touch: of the files that have names, its     *)
(* own, and those that nobody uses.                                        *)
Held(p) == {None} \cup {entry[n].inode : n \in Name} \cup {proc[p].tmp, proc[p].fd}
             \cup (Inode \ Used)

LEMMA SecretKeeps ==
  ASSUME TypeInv, SecretInv, NEW p \in Proc, NEW r, Become(p, r),
         r.tmp \in Held(p), r.fd \in Held(p),
         \A n \in Name : entry'[n].inode \in Held(p),
         kept' \subseteq kept \cup Held(p),
         \A i \in Inode : bytes'[i] = bytes[i] \/ i \in Held(p),
         copied \ copied' \subseteq Inode \ Used,
         Secret(p)', r.pc = "fill" => r.fd \in copied'
  PROVE  SecretInv'
<1> SUFFICES ASSUME NEW q \in Proc \ {p} PROVE Secret(q)' /\ Marked(q)'
  BY DEF SecretInv, Marked, Become, TypeInv
<1>1. proc'[q] = proc[q] /\ proc'[p] = r /\ \A o \in Proc \ {p} : proc'[o] = proc[o]
  BY DEF Become, TypeInv
<1>2. Marked(q)'
  <2>1. proc[q].fd \in Used
    BY DEF Used
  <2>2. QED
    BY <1>1, <2>1 DEF SecretInv, Marked
<1>3. ASSUME proc[q].pc \in Staged PROVE Secret(q)'
  <2> DEFINE t == proc[q].tmp
  <2>1. t \in Inode /\ t # None /\ t \in Used
    BY <1>3, FileAssumption DEF TypeInv, Ready, Used
  <2>2. t \notin Held(p)
    BY <1>3, <2>1 DEF SecretInv, Secret, Held
  <2>3. QED
    BY <1>1, <1>3, <2>1, <2>2 DEF SecretInv, Secret
<1>4. QED
  BY <1>1, <1>2, <1>3 DEF Secret

(* The steps by which p stops what it does.                                *)
LEMMA SecretReturns ==
  ASSUME TypeInv, SecretInv, NEW p \in Proc,
         Become(p, Idle) \/ Become(p, [Idle EXCEPT !.pc = "dead"]),
         \A n \in Name : entry'[n].inode \in Held(p),
         kept' \subseteq kept \cup Held(p),
         \A i \in Inode : bytes'[i] = bytes[i] \/ i \in Held(p),
         UNCHANGED copied
  PROVE  SecretInv'
<1>1. PICK r \in {Idle, [Idle EXCEPT !.pc = "dead"]} : Become(p, r)
  OBVIOUS
<1>2. r.tmp = None /\ r.fd = None /\ r.pc \in {"idle", "dead"}
  BY DEF Idle
<1>3. Secret(p)'
  <2>1. proc'[p] = r
    BY <1>1 DEF Become, TypeInv
  <2>2. QED
    BY <1>2, <2>1 DEF Secret, Staged
<1>4. QED
  BY <1>1, <1>2, <1>3, SecretKeeps DEF Held

LEMMA SameHeld ==
  ASSUME TypeInv, NEW p \in Proc
  PROVE  /\ None \in Held(p) /\ proc[p].tmp \in Held(p) /\ proc[p].fd \in Held(p)
         /\ \A n \in Name : entry[n].inode \in Held(p)
         /\ HasSpace => NewInode \in Held(p)
         /\ SameEntries => \A n \in Name : entry'[n].inode \in Held(p)
         /\ \A m, v, new : Entries([entry EXCEPT ![m] = v], new) /\ v.inode \in Held(p) =>
              \A n \in Name : entry'[n].inode \in Held(p)
         /\ \A n \in Name : Opens(n) \in Held(p)
<1>1. /\ None \in Held(p) /\ proc[p].tmp \in Held(p) /\ proc[p].fd \in Held(p)
      /\ \A n \in Name : entry[n].inode \in Held(p)
      /\ HasSpace => NewInode \in Held(p)
  BY NewInodeIs DEF Held
<1>2. SameEntries => \A n \in Name : entry'[n].inode \in Held(p)
  BY <1>1 DEF SameEntries
<1>3. ASSUME NEW m, NEW v, NEW new, Entries([entry EXCEPT ![m] = v], new), v.inode \in Held(p)
      PROVE  \A n \in Name : entry'[n].inode \in Held(p)
  <2>1. entry' = [entry EXCEPT ![m] = v]
    BY <1>3 DEF Entries
  <2>2. QED
    BY <1>1, <1>3, <2>1 DEF TypeInv
<1>4. \A n \in Name : Opens(n) \in Held(p)
  BY <1>1, OpensIs DEF TypeInv
<1>5. QED
  BY <1>1, <1>2, <1>3, <1>4

LEMMA ReturnsSecret ==
  ASSUME TypeInv, SecretInv, NEW p \in Proc,
         CallFails(p) \/ CopyFails(p) \/ Crash(p) \/ SetLen(p)
  PROVE  SecretInv'
<1>1. /\ Become(p, Idle) \/ Become(p, [Idle EXCEPT !.pc = "dead"])
      /\ SameFiles /\ UNCHANGED <<kept, copied>>
      /\ bytes' = bytes \/ \E v : bytes' = [bytes EXCEPT ![proc[p].fd] = v]
  BY Zenon DEF CallFails, CopyFails, Crash, SetLen, Return
<1>2. \A i \in Inode : bytes'[i] = bytes[i] \/ i \in Held(p)
  BY <1>1, SameHeld DEF TypeInv
<1>3. QED
  BY <1>1, <1>2, SameHeld, SecretReturns DEF SameFiles

LEMMA UnlinkSecret ==
  ASSUME TypeInv, SecretInv, NEW p \in Proc,
         UnlinkSource(p) \/ UnlinkFails(p) \/ Persist(p)
  PROVE  SecretInv'
<1>1. /\ Become(p, Idle) /\ UNCHANGED <<bytes, kept, copied>>
      /\ \/ SameEntries
         \/ \E n, new : Entries([entry EXCEPT ![n] = Missing], new)
         \/ \E n, new : Entries([entry EXCEPT ![n] = File(proc[p].tmp)], new)
  BY Zenon DEF UnlinkSource, UnlinkFails, Persist, Return
<1>2. \A n \in Name : entry'[n].inode \in Held(p)
  BY <1>1, SameHeld, MissingIs, FileIs
<1>3. QED
  BY <1>1, <1>2, SecretReturns

LEMMA ResolveSecret == ASSUME TypeInv, SecretInv, NEW p \in Proc, Resolve(p) PROVE SecretInv'
<1> DEFINE me == proc[p]
           n == IF IsFile(Target(me.name)) THEN Target(me.name) ELSE me.name
           r == [me EXCEPT !.pc = "stat",
                      !.name = IF IsFile(Target(@)) THEN Target(@) ELSE @]
<1>1. /\ Entries([entry EXCEPT ![me.name] = Missing], {}) \/ SameEntries
      /\ Become(p, r) /\ UNCHANGED <<bytes, kept, copied>>
  BY Zenon DEF Resolve
<1>2. \A m \in Name : entry'[m].inode \in Held(p)
  BY <1>1, SameHeld, MissingIs
<1>3. me \in Process
  BY DEF TypeInv
<1>4. r.pc = "stat" /\ r.tmp = me.tmp /\ r.fd = me.fd
  BY <1>3 DEF Process
<1> HIDE DEF r
<1>5. proc'[p] = r
  BY <1>1 DEF Become, TypeInv
<1>6. QED
  BY <1>1, <1>2, <1>4, <1>5, SameHeld, SecretKeeps DEF Secret, Staged

LEMMA StatSecret == ASSUME TypeInv, SecretInv, NEW p \in Proc, Stat(p) PROVE SecretInv'
<1> DEFINE me == proc[p]
           c == IF IsFile(me.name) /\ Cardinality(NamesOf(entry[me.name].inode)) > 1
                THEN "stage_shared" ELSE "stage"
           r == [me EXCEPT !.pc = c]
<1>1. Become(p, r) /\ SameEntries /\ UNCHANGED <<bytes, kept, copied>>
  BY Zenon DEF Stat, SameFiles
<1>2. c \in {"stage_shared", "stage"} /\ me \in Process
  BY DEF TypeInv
<1> HIDE DEF c
<1>3. r.pc = c /\ r.tmp = me.tmp /\ r.fd = me.fd /\ proc'[p] = r
  BY <1>1, <1>2 DEF Process, Become, TypeInv
<1> HIDE DEF r
<1>4. QED
  BY <1>1, <1>2, <1>3, SameHeld, SecretKeeps DEF Secret, Staged

LEMMA StageSecret == ASSUME TypeInv, SecretInv, NEW p \in Proc, Stage(p) PROVE SecretInv'
<1> DEFINE me == proc[p]
           i == NewInode
           c == IF me.pc = "stage" THEN "persist" ELSE "open"
           r == [me EXCEPT !.tmp = i, !.pc = c]
<1>1. /\ HasSpace /\ bytes' = [bytes EXCEPT ![i] = me.op.payload]
      /\ Become(p, r) /\ copied' = copied \ {i}
      /\ UNCHANGED <<entry, kept>>
  BY Zenon DEF Stage
<1>2. me \in Process /\ i \in Inode /\ i \notin Used /\ c \in {"persist", "open"}
  BY <1>1, NewInodeIs DEF TypeInv
<1> HIDE DEF c
<1>3. r.pc = c /\ r.tmp = i /\ r.fd = me.fd /\ r.op = me.op /\ proc'[p] = r
      /\ \A o \in Proc \ {p} : proc'[o] = proc[o]
  BY <1>1, <1>2 DEF Process, Become, TypeInv
<1> HIDE DEF r
<1>4. bytes'[i] = me.op.payload /\ \A j \in Inode \ {i} : bytes'[j] = bytes[j]
  BY <1>1, <1>2 DEF TypeInv
<1> HIDE DEF i
<1>5. Secret(p)'
  <2>1. /\ i \notin kept /\ \A n \in Name : entry[n].inode # i
        /\ \A o \in Proc : proc[o].tmp # i /\ proc[o].fd # i
    BY <1>2 DEF Used
  <2>2. QED
    BY <1>1, <1>2, <1>3, <1>4, <2>1 DEF Secret
<1>6. /\ r.tmp \in Held(p) /\ r.fd \in Held(p) /\ \A n \in Name : entry'[n].inode \in Held(p)
      /\ \A j \in Inode : bytes'[j] = bytes[j] \/ j \in Held(p)
  BY <1>1, <1>2, <1>3, <1>4 DEF Held
<1>7. QED
  BY <1>1, <1>2, <1>3, <1>5, <1>6, SecretKeeps

LEMMA OpenSecret == ASSUME TypeInv, SecretInv, NEW p \in Proc, Open(p) PROVE SecretInv'
<1> DEFINE me == proc[p]
           i == Opens(me.name)
           c == IF me.pc = "open" THEN "overwrite" ELSE "restore"
           r == [me EXCEPT !.fd = i, !.at = 1, !.pc = c]
<1>1. /\ me.pc \in {"open", "reopen"}
      /\ \/ kept' = (IF me.pc = "reopen" THEN kept \cup {me.tmp} ELSE kept) /\ Become(p, Idle)
         \/ i # None /\ Become(p, r) /\ UNCHANGED kept
      /\ SameEntries /\ UNCHANGED <<bytes, copied>>
  BY Zenon DEF Open, Return, SameFiles
<1>2. me \in Process /\ me.name \in Name /\ me.pc \in Staged /\ c \in {"overwrite", "restore"}
  BY <1>1 DEF TypeInv, Ready, Staged
<1>3. CASE kept' = (IF me.pc = "reopen" THEN kept \cup {me.tmp} ELSE kept) /\ Become(p, Idle)
  BY <1>1, <1>3, SameHeld, SecretReturns
<1>4. CASE i # None /\ Become(p, r) /\ UNCHANGED kept
  <2>1. i \in Held(p) /\ \E n \in Name : i = entry[n].inode
    BY <1>2, <1>4, SameHeld, OpensIs DEF TypeInv
  <2> HIDE DEF c, i
  <2>2. r.pc = c /\ r.tmp = me.tmp /\ r.fd = i /\ r.op = me.op /\ proc'[p] = r
        /\ \A o \in Proc \ {p} : proc'[o] = proc[o]
    BY <1>2, <1>4 DEF Process, Become, TypeInv
  <2> HIDE DEF r
  <2>3. Secret(p)'
    BY <1>1, <1>2, <1>4, <2>1, <2>2 DEF SecretInv, Secret, SameEntries
  <2>4. QED
    BY <1>1, <1>2, <1>4, <2>1, <2>2, <2>3, SameHeld, SecretKeeps
<1>5. QED
  BY <1>1, <1>3, <1>4

LEMMA WriteBlockSecret == ASSUME TypeInv, SecretInv, NEW p \in Proc, WriteBlock(p) PROVE SecretInv'
<1> DEFINE me == proc[p]
           r == [me EXCEPT !.at = @ + 1]
<1>1. /\ me.pc \in {"overwrite", "restore"} /\ Become(p, r)
      /\ \E v : bytes' = [bytes EXCEPT ![me.fd] = v]
      /\ SameEntries /\ UNCHANGED <<kept, copied>>
  BY Zenon DEF WriteBlock, SameFiles
<1>2. me \in Process /\ me.pc \in Staged
  BY <1>1 DEF TypeInv, Staged
<1>3. r.pc = me.pc /\ r.tmp = me.tmp /\ r.fd = me.fd /\ r.op = me.op /\ proc'[p] = r
      /\ \A o \in Proc \ {p} : proc'[o] = proc[o]
  BY <1>1, <1>2 DEF Process, Become, TypeInv
<1> HIDE DEF r
<1>4. \A i \in Inode : bytes'[i] = bytes[i] \/ i = me.fd
  BY <1>1 DEF TypeInv
<1>5. Secret(p)'
  <2>1. me.tmp \in Inode
    BY <1>2 DEF TypeInv, Ready
  <2>2. QED
    BY <1>1, <1>2, <1>3, <1>4, <2>1 DEF SecretInv, Secret, SameEntries
<1>6. QED
  BY <1>1, <1>3, <1>4, <1>5, SameHeld, SecretKeeps

LEMMA InPlaceFailsSecret ==
  ASSUME TypeInv, SecretInv, NEW p \in Proc, InPlaceFails(p) PROVE SecretInv'
<1> DEFINE me == proc[p]
           r == [me EXCEPT !.pc = "reopen", !.fd = None]
<1>1. /\ me.pc \in {"overwrite", "restore"}
      /\ \/ Become(p, r) /\ UNCHANGED kept
         \/ kept' = kept \cup {me.tmp} /\ Become(p, Idle)
      /\ SameEntries /\ UNCHANGED <<bytes, copied>>
  BY Zenon DEF InPlaceFails, Return, SameFiles
<1>2. me \in Process /\ me.pc \in Staged /\ me.tmp # None
  BY <1>1, FileAssumption DEF TypeInv, Ready, Staged
<1>3. CASE Become(p, r) /\ UNCHANGED kept
  <2>1. r.pc = "reopen" /\ r.tmp = me.tmp /\ r.fd = None /\ r.op = me.op /\ proc'[p] = r
        /\ \A o \in Proc \ {p} : proc'[o] = proc[o]
    BY <1>2, <1>3 DEF Process, Become, TypeInv
  <2> HIDE DEF r
  <2>2. Secret(p)'
    BY <1>1, <1>2, <1>3, <2>1 DEF SecretInv, Secret, SameEntries
  <2>3. QED
    BY <1>1, <1>3, <2>1, <2>2, SameHeld, SecretKeeps
<1>4. CASE kept' = kept \cup {me.tmp} /\ Become(p, Idle)
  BY <1>1, <1>4, SameHeld, SecretReturns
<1>5. QED
  BY <1>1, <1>3, <1>4

LEMMA RenameSecret == ASSUME TypeInv, SecretInv, NEW p \in Proc, Rename(p) PROVE SecretInv'
<1> DEFINE me == proc[p]
           op == me.op
           x == entry[op.to] # Missing
           r == [me EXCEPT !.pc = "copy", !.existed = x]
<1>1. /\ me.pc = "rename"
      /\ SameEntries \/ Entries([entry EXCEPT ![op.to] = entry[op.name], ![op.name] = Missing], {})
      /\ Become(p, r) \/ Become(p, Idle)
      /\ UNCHANGED <<bytes, kept, copied>>
  BY Zenon DEF Rename, Return
<1>2. me \in Process /\ op.name \in Name
  BY <1>1, OpIs DEF TypeInv, Ready
<1>3. \A n \in Name : entry'[n].inode \in Held(p)
  <2>1. CASE entry' = [entry EXCEPT ![op.to] = entry[op.name], ![op.name] = Missing]
    <3>1. \A n \in Name : entry'[n] \in {entry[n], entry[op.name], Missing}
      BY <2>1 DEF TypeInv
    <3>2. QED
      BY <1>2, <3>1, SameHeld, MissingIs
  <2>2. QED
    BY <1>1, <2>1, SameHeld DEF Entries
<1> HIDE DEF x
<1>4. r.pc = "copy" /\ r.tmp = me.tmp /\ r.fd = me.fd
  BY <1>2 DEF Process
<1> HIDE DEF r
<1>5. CASE Become(p, r)
  <2>1. proc'[p] = r
    BY <1>5 DEF Become, TypeInv
  <2>2. QED
    BY <1>1, <1>3, <1>4, <1>5, <2>1, SameHeld, SecretKeeps DEF Secret, Staged
<1>6. CASE Become(p, Idle)
  BY <1>1, <1>3, <1>6, SecretReturns
<1>7. QED
  BY <1>1, <1>5, <1>6

LEMMA StartCopySecret == ASSUME TypeInv, SecretInv, NEW p \in Proc, StartCopy(p) PROVE SecretInv'
<1> DEFINE me == proc[p]
           from == Opens(me.op.name)
           to == Target(me.op.to)
           i == IF IsFile(to) THEN entry[to].inode ELSE NewInode
           r == [me EXCEPT !.pc = "fill", !.tmp = from, !.fd = i]
<1>1. /\ me.pc = "copy"
      /\ \/ Become(p, Idle) /\ SameEntries /\ UNCHANGED <<bytes, copied>>
         \/ /\ IsFile(to) \/ HasSpace
            /\ bytes' = [bytes EXCEPT ![i] = << >>]
            /\ entry' = [entry EXCEPT ![to] = File(i)]
            /\ copied' = copied \cup {i}
            /\ Become(p, r)
      /\ UNCHANGED kept
  BY Zenon DEF StartCopy, Return
<1>2. me \in Process /\ me.op.name \in Name /\ to \in Name
  BY <1>1, OpIs, OpensIs DEF TypeInv, Ready, Moving
<1>3. CASE Become(p, Idle) /\ SameEntries /\ UNCHANGED <<bytes, copied>>
  BY <1>1, <1>3, SameHeld, SecretReturns
<1>4. CASE /\ IsFile(to) \/ HasSpace
           /\ bytes' = [bytes EXCEPT ![i] = << >>]
           /\ entry' = [entry EXCEPT ![to] = File(i)]
           /\ copied' = copied \cup {i}
           /\ Become(p, r)
  <2>1. i \in Held(p) /\ from \in Held(p)
    BY <1>2, <1>4, SameHeld
  <2> HIDE DEF i, from, to
  <2>2. r.pc = "fill" /\ r.tmp = from /\ r.fd = i
    BY <1>2 DEF Process
  <2> HIDE DEF r
  <2>3. proc'[p] = r
    BY <1>4 DEF Become, TypeInv
  <2>4. \A n \in Name : entry'[n].inode \in Held(p)
    BY <1>4, <2>1, SameHeld, FileIs DEF TypeInv
  <2>5. \A j \in Inode : bytes'[j] = bytes[j] \/ j \in Held(p)
    BY <1>4, <2>1 DEF TypeInv
  <2>6. Secret(p)'
    BY <2>2, <2>3 DEF Secret, Staged
  <2>7. QED
    BY <1>1, <1>4, <2>1, <2>2, <2>4, <2>5, <2>6, SecretKeeps
<1>5. QED
  BY <1>1, <1>3, <1>4

LEMMA FillSecret == ASSUME TypeInv, SecretInv, NEW p \in Proc, Fill(p) PROVE SecretInv'
<1> DEFINE me == proc[p]
           r == [me EXCEPT !.pc = "unlink"]
<1>1. /\ \E v : bytes' = [bytes EXCEPT ![me.fd] = v]
      /\ Become(p, r) /\ SameEntries /\ UNCHANGED <<kept, copied>>
  BY Zenon DEF Fill, SameFiles
<1>2. r.pc = "unlink" /\ r.tmp = me.tmp /\ r.fd = me.fd /\ proc'[p] = r
  BY <1>1 DEF Process, Become, TypeInv
<1> HIDE DEF r
<1>3. \A i \in Inode : bytes'[i] = bytes[i] \/ i = me.fd
  BY <1>1 DEF TypeInv
<1>4. QED
  BY <1>1, <1>2, <1>3, SameHeld, SecretKeeps DEF Secret, Staged

(* A process that begins says so to the others at work; it holds nothing.  *)
LEMMA BeginIs ==
  ASSUME TypeInv, NEW p \in Proc, NEW op \in Ops, Begin(p, op)
  PROVE  /\ Free(p) /\ SameFiles /\ UNCHANGED <<bytes, kept, copied, faults>>
         /\ LET me == proc'[p]
            IN  /\ me.pc \in {"resolve", "stage", "rename"} /\ me.tmp = None /\ me.fd = None
                /\ me.op = op /\ me.name = op.name
                /\ me.pc = "stage" => op.kind = "create"
                /\ me.pc = "rename" => op.kind = "move"
                /\ me.alone => \A q \in Proc \ {p} : Free(q)
         /\ \A q \in Proc \ {p} :
              /\ proc'[q].pc = proc[q].pc /\ proc'[q].tmp = proc[q].tmp
              /\ proc'[q].fd = proc[q].fd /\ proc'[q].op = proc[q].op
              /\ proc'[q].name = proc[q].name /\ proc'[q].at = proc[q].at
              /\ ~Free(q) => ~proc'[q].alone
<1> DEFINE busy == {q \in Proc \ {p} : ~Free(q)}
           x == busy = {}
           r == [Idle EXCEPT !.op = op, !.name = op.name, !.alone = x,
                   !.pc = CASE op.kind = "write" -> "resolve"
                            [] op.kind = "create" -> "stage"
                            [] op.kind = "move" -> "rename"]
           s(q) == [proc[q] EXCEPT !.alone = q \notin busy]
<1>1. /\ proc' = [q \in Proc |-> IF q = p THEN r ELSE s(q)]
      /\ Free(p) /\ SameFiles /\ UNCHANGED <<bytes, kept, copied, faults>>
  BY Zenon DEF Begin
<1>2. x \in BOOLEAN /\ (x => \A q \in Proc \ {p} : Free(q))
  OBVIOUS
<1>3. \A q \in Proc : (q \notin busy) \in BOOLEAN /\ (q # p /\ ~Free(q) => q \in busy)
  OBVIOUS
<1> HIDE DEF busy, x
<1>4. /\ r.op = op /\ r.name = op.name /\ r.tmp = None /\ r.fd = None /\ r.alone = x
      /\ \/ op.kind = "write" /\ r.pc = "resolve"
         \/ op.kind = "create" /\ r.pc = "stage"
         \/ op.kind = "move" /\ r.pc = "rename"
  BY OpIs DEF Idle
<1>5. \A q \in Proc :
        /\ s(q).pc = proc[q].pc /\ s(q).tmp = proc[q].tmp /\ s(q).fd = proc[q].fd
        /\ s(q).op = proc[q].op /\ s(q).name = proc[q].name /\ s(q).at = proc[q].at
        /\ q \in busy => ~s(q).alone
  BY DEF TypeInv, Process
<1> HIDE DEF r, s
<1>6. proc'[p] = r /\ \A q \in Proc \ {p} : proc'[q] = s(q)
  BY <1>1
<1>7. QED
  BY <1>1, <1>2, <1>3, <1>4, <1>5, <1>6

LEMMA BeginSecret ==
  ASSUME TypeInv, SecretInv, NEW p \in Proc, NEW op \in Ops, Begin(p, op) PROVE SecretInv'
<1>1. \A q \in Proc : proc[q].pc \in Staged => proc[q].tmp \in Inode /\ proc[q].tmp # None
  BY FileAssumption DEF TypeInv, Ready
<1>2. QED
  BY <1>1, BeginIs DEF SecretInv, Secret, Marked, SameFiles, SameEntries, Staged

LEMMA OthersSecret ==
  ASSUME TypeInv, SecretInv, OtherLinks \/ OtherUnlinks PROVE SecretInv'
<1>1. /\ \E m, v : entry' = [entry EXCEPT ![m] = v] /\ (v = Missing \/ \E n \in Name : v = entry[n])
      /\ UNCHANGED <<bytes, proc, kept, copied>>
  <2>1. CASE OtherLinks
    <3>1. PICK n \in Name, m \in Name : Entries([entry EXCEPT ![m] = entry[n]], {})
      BY <2>1, Zenon DEF OtherLinks
    <3>2. entry' = [entry EXCEPT ![m] = entry[n]]
      BY <3>1 DEF Entries
    <3>3. UNCHANGED <<bytes, proc, kept, copied>>
      BY <2>1 DEF OtherLinks
    <3>4. QED
      BY <3>2, <3>3
  <2>2. CASE OtherUnlinks
    BY <2>2, Zenon DEF OtherUnlinks, Entries
  <2>3. QED
    BY <2>1, <2>2
<1>2. \A n \in Name : entry'[n] = Missing \/ \E m \in Name : entry'[n] = entry[m]
  BY <1>1 DEF TypeInv
<1>3. \A q \in Proc : proc[q].pc \in Staged => proc[q].tmp # None
  BY FileAssumption DEF TypeInv, Ready
<1>4. QED
  BY <1>1, <1>2, <1>3, MissingIs DEF SecretInv, Secret, Marked

LEMMA SecretStep == TypeInv /\ SecretInv /\ [Next]_vars => SecretInv'
<1> SUFFICES ASSUME TypeInv, SecretInv, [Next]_vars PROVE SecretInv'
  OBVIOUS
<1>1. ASSUME NEW p \in Proc, NEW op \in Ops, Begin(p, op) PROVE SecretInv'
  BY <1>1, BeginSecret
<1>2. ASSUME NEW p \in Proc,
             \/ Resolve(p) \/ Stat(p) \/ Stage(p) \/ Persist(p)
             \/ Open(p) \/ WriteBlock(p) \/ SetLen(p) \/ InPlaceFails(p)
      PROVE  SecretInv'
  BY <1>2, ResolveSecret, StatSecret, StageSecret, UnlinkSecret, OpenSecret, WriteBlockSecret,
     ReturnsSecret, InPlaceFailsSecret
<1>3. ASSUME NEW p \in Proc,
             \/ Rename(p) \/ StartCopy(p) \/ Fill(p) \/ UnlinkSource(p) \/ UnlinkFails(p)
             \/ CallFails(p) \/ CopyFails(p) \/ Crash(p)
      PROVE  SecretInv'
  BY <1>3, RenameSecret, StartCopySecret, FillSecret, UnlinkSecret, ReturnsSecret
<1>4. CASE OtherLinks \/ OtherUnlinks
  BY <1>4, OthersSecret
<1>5. CASE UNCHANGED vars
  BY <1>5 DEF vars, SecretInv, Secret, Marked
<1>6. QED
  BY <1>1, <1>2, <1>3, <1>4, <1>5, Zenon DEF Next

-----------------------------------------------------------------------------
(* A step of a process at work, and what a step makes of the names.        *)
Step(p) ==
  \/ Resolve(p) \/ Stat(p) \/ Stage(p) \/ Persist(p) \/ CallFails(p)
  \/ Open(p) \/ WriteBlock(p) \/ SetLen(p) \/ InPlaceFails(p)
  \/ Rename(p) \/ StartCopy(p) \/ Fill(p) \/ CopyFails(p)
  \/ UnlinkSource(p) \/ UnlinkFails(p) \/ Crash(p)

LEMMA StepIs ==
  ASSUME TypeInv, NEW p \in Proc, Step(p)
  PROVE  /\ ~Free(p) /\ \A q \in Proc \ {p} : proc'[q] = proc[q]
         /\ Free(p)' \/ proc'[p].alone = proc[p].alone
         /\ proc'[p].pc \in InPlace => Open(p) \/ WriteBlock(p)
         /\ proc'[p].pc = "copy" => Rename(p)
         /\ proc'[p].pc = "fill" => StartCopy(p)
         /\ proc'[p].pc = "unlink" => Fill(p)
         /\ others' = others
<1> DEFINE me == proc[p]
<1>1. me \in Process
  BY DEF TypeInv
<1>2. CASE Return(p) \/ Crash(p)
  <2>1. proc'[p] = Idle \/ proc'[p] = [Idle EXCEPT !.pc = "dead"]
    BY <1>2 DEF Return, Crash, Become, TypeInv
  <2>2. /\ ~Free(p) /\ \A q \in Proc \ {p} : proc'[q] = proc[q]
        /\ others' = others
    <3>1. ~Free(p)
      BY Zenon DEF Step, Free, Resolve, Stat, Stage, Persist, CallFails, Open, WriteBlock, SetLen,
         InPlaceFails, Rename, StartCopy, Fill, CopyFails, UnlinkSource, UnlinkFails, Crash
    <3>2. others' = others
      BY Zenon DEF Step, SameFiles, Resolve, Stat, Stage, Persist, CallFails, Open, WriteBlock,
         SetLen, InPlaceFails, Rename, StartCopy, Fill, CopyFails, UnlinkSource, UnlinkFails, Crash
    <3>3. \A q \in Proc \ {p} : proc'[q] = proc[q]
      BY <1>2 DEF Return, Crash, Become, TypeInv
    <3>4. QED
      BY <3>1, <3>2, <3>3
  <2>3. QED
    BY <2>1, <2>2, IdleReady DEF InPlace, Free
<1>3. CASE Resolve(p)
  BY <1>1, <1>3 DEF Resolve, Become, TypeInv, Process, Free, InPlace
<1>4. CASE Stat(p)
  BY <1>1, <1>4 DEF Stat, Become, TypeInv, Process, Free, InPlace, SameFiles
<1>5. CASE Stage(p)
  <2> DEFINE r == [me EXCEPT !.tmp = NewInode,
                             !.pc = IF me.pc = "stage" THEN "persist" ELSE "open"]
  <2>1. Become(p, r) /\ me.pc \in {"stage", "stage_shared"} /\ others' = others
    BY Zenon, <1>5 DEF Stage
  <2>2. r.alone = me.alone /\ r.pc \in {"persist", "open"}
    BY <1>1 DEF Process
  <2> HIDE DEF r
  <2>3. QED
    BY <2>1, <2>2 DEF Free, Become, TypeInv, InPlace
<1>6. CASE Open(p) /\ ~Return(p)
  <2> DEFINE r == [me EXCEPT !.fd = Opens(me.name), !.at = 1,
                      !.pc = IF me.pc = "open" THEN "overwrite" ELSE "restore"]
  <2>1. Become(p, r) /\ me.pc \in {"open", "reopen"} /\ others' = others
    BY Zenon, <1>6 DEF Open, SameFiles
  <2>2. r.alone = me.alone /\ r.pc \in InPlace
    BY <1>1 DEF Process, InPlace
  <2> HIDE DEF r
  <2>3. QED
    BY <1>6, <2>1, <2>2 DEF Free, Become, TypeInv, InPlace
<1>7. CASE WriteBlock(p)
  <2> DEFINE r == [me EXCEPT !.at = @ + 1]
  <2>1. Become(p, r) /\ me.pc \in {"overwrite", "restore"} /\ others' = others
    BY Zenon, <1>7 DEF WriteBlock, SameFiles
  <2>2. r.alone = me.alone /\ r.pc \in InPlace
    BY <1>1, <2>1 DEF Process, InPlace
  <2> HIDE DEF r
  <2>3. QED
    BY <1>7, <2>1, <2>2 DEF Free, Become, TypeInv, InPlace
<1>8. CASE InPlaceFails(p) /\ ~Return(p)
  <2> DEFINE r == [me EXCEPT !.pc = "reopen", !.fd = None]
  <2>1. Become(p, r) /\ me.pc \in {"overwrite", "restore"} /\ others' = others
    BY Zenon, <1>8 DEF InPlaceFails, SameFiles
  <2>2. r.alone = me.alone /\ r.pc = "reopen"
    BY <1>1 DEF Process
  <2> HIDE DEF r
  <2>3. QED
    BY <2>1, <2>2 DEF Free, Become, TypeInv, InPlace
<1>9. CASE Rename(p) /\ ~Return(p)
  <2> DEFINE r == [me EXCEPT !.pc = "copy", !.existed = entry[me.op.to] # Missing]
  <2>1. Become(p, r) /\ me.pc = "rename" /\ others' = others
    BY Zenon, <1>9 DEF Rename
  <2>2. r.alone = me.alone /\ r.pc = "copy"
    BY <1>1 DEF Process
  <2> HIDE DEF r
  <2>3. QED
    BY <1>9, <2>1, <2>2 DEF Free, Become, TypeInv, InPlace
<1>10. CASE StartCopy(p) /\ ~Return(p)
  <2>1. PICK i : Become(p, [me EXCEPT !.pc = "fill", !.tmp = Opens(me.op.name), !.fd = i])
    BY Zenon, <1>10 DEF StartCopy
  <2> DEFINE r == [me EXCEPT !.pc = "fill", !.tmp = Opens(me.op.name), !.fd = i]
  <2>2. Become(p, r) /\ me.pc = "copy" /\ others' = others
    BY Zenon, <1>10, <2>1 DEF StartCopy
  <2>3. r.alone = me.alone /\ r.pc = "fill"
    BY <1>1 DEF Process
  <2> HIDE DEF r
  <2>4. QED
    BY <1>10, <2>2, <2>3 DEF Free, Become, TypeInv, InPlace
<1>11. CASE Fill(p)
  BY <1>1, <1>11 DEF Fill, Become, TypeInv, Process, Free, InPlace, SameFiles
<1>12. Return(p) \/ Crash(p) \/ Resolve(p) \/ Stat(p) \/ Stage(p) \/ (Open(p) /\ ~Return(p))
       \/ WriteBlock(p) \/ (InPlaceFails(p) /\ ~Return(p)) \/ (Rename(p) /\ ~Return(p))
       \/ (StartCopy(p) /\ ~Return(p)) \/ Fill(p)
  BY Zenon DEF Step, Persist, CallFails, SetLen, CopyFails, UnlinkSource, UnlinkFails
<1>13. QED
  BY <1>2, <1>3, <1>4, <1>5, <1>6, <1>7, <1>8, <1>9, <1>10, <1>11, <1>12


(* Who works alone, works alone till it ends or another begins.            *)
AloneInv == \A p, q \in Proc : p # q /\ ~Free(p) /\ proc[p].alone => Free(q)

LEMMA NextSteps ==
  ASSUME [Next]_vars
  PROVE  \/ UNCHANGED vars
         \/ \E p \in Proc, op \in Ops : Begin(p, op)
         \/ \E p \in Proc : Step(p)
         \/ OtherLinks \/ OtherUnlinks
BY Zenon DEF Next, Step

LEMMA AloneStep == TypeInv /\ AloneInv /\ [Next]_vars => AloneInv'
<1> SUFFICES ASSUME TypeInv, AloneInv, [Next]_vars PROVE AloneInv'
  OBVIOUS
<1>1. CASE UNCHANGED vars \/ OtherLinks \/ OtherUnlinks
  <2>1. proc' = proc
    BY <1>1 DEF vars, OtherLinks, OtherUnlinks
  <2>2. QED
    BY <2>1 DEF AloneInv, Free
<1>2. ASSUME NEW p \in Proc, NEW op \in Ops, Begin(p, op) PROVE AloneInv'
  BY <1>2, BeginIs DEF AloneInv, Free
<1>3. ASSUME NEW p \in Proc, Step(p) PROVE AloneInv'
  BY <1>3, StepIs DEF AloneInv, Free
<1>4. QED
  BY <1>1, <1>2, <1>3, NextSteps

(* Nobody else that is alone is at work while p is.                        *)
LEMMA OthersNotAlone ==
  ASSUME TypeInv, AloneInv, NEW p \in Proc, Step(p), NEW q \in Proc \ {p}, ~Free(q)'
  PROVE  ~proc'[q].alone
BY StepIs DEF AloneInv, Free

-----------------------------------------------------------------------------
(* Who overwrites a file alone has written all the blocks before the next. *)
Overwrites(p) ==
  LET me == proc[p]
  IN  me.pc \in InPlace /\ me.alone =>
        \A j \in 1..(me.at - 1) :
          j \in 1..Len(bytes[me.fd]) /\ bytes[me.fd][j] = me.op.payload[j]

OverwriteInv == \A p \in Proc : Overwrites(p)

LEMMA WriteBlockOverwrites ==
  ASSUME TypeInv, OverwriteInv, NEW p \in Proc, WriteBlock(p) PROVE Overwrites(p)'
<1> DEFINE me == proc[p]
           old == bytes[me.fd]
           b == me.op.payload[me.at]
           new == Overwritten(old, me.at, b)
           r == [me EXCEPT !.at = @ + 1]
<1>1. /\ me.pc \in InPlace /\ me.at <= Len(me.op.payload)
      /\ bytes' = [bytes EXCEPT ![me.fd] = Overwritten(@, me.at, b)]
      /\ Become(p, r)
  BY Zenon DEF WriteBlock, InPlace
<1>2. /\ me \in Process /\ me.fd \in Inode /\ me.at \in Nat \ {0} /\ me.op.payload \in Payload
  BY <1>1, OpIs DEF TypeInv, Ready, InPlace, Writing, Process
<1>3. old \in Seq(Block) /\ b \in Block
  BY <1>1, <1>2, PayloadIs DEF TypeInv
<1>4. /\ r.pc = me.pc /\ r.alone = me.alone /\ r.at = me.at + 1 /\ r.fd = me.fd /\ r.op = me.op
  BY <1>2 DEF Process
<1>5. proc'[p] = r /\ bytes'[me.fd] = new
  BY <1>1, <1>2 DEF Become, TypeInv
<1> HIDE DEF b, old
<1>6. /\ new \in Seq(Block) /\ Len(new) = (IF me.at > Len(old) THEN me.at ELSE Len(old))
      /\ new[me.at] = b /\ \A j \in 1..Len(old) : j # me.at => new[j] = old[j]
  BY <1>2, <1>3, OverwrittenIs, Zenon
<1>7. Len(old) \in Nat
  BY <1>3, LenProperties
<1> HIDE DEF r, new
<1>8. ASSUME me.alone, NEW j \in 1..me.at
      PROVE  j \in 1..Len(new) /\ new[j] = me.op.payload[j]
  <2>1. CASE j = me.at
    BY <1>2, <1>6, <1>7, <2>1 DEF b
  <2>2. CASE j # me.at
    <3>1. j \in 1..(me.at - 1)
      BY <1>2, <1>8, <2>2
    <3>2. j \in 1..Len(old) /\ old[j] = me.op.payload[j]
      BY <1>1, <1>8, <3>1 DEF OverwriteInv, Overwrites, old
    <3>3. QED
      BY <1>2, <1>6, <1>7, <2>2, <3>2
  <2>3. QED
    BY <2>1, <2>2
<1>9. QED
  BY <1>2, <1>4, <1>5, <1>8 DEF Overwrites

LEMMA OverwriteStep == TypeInv /\ AloneInv /\ OverwriteInv /\ [Next]_vars => OverwriteInv'
<1> SUFFICES ASSUME TypeInv, AloneInv, OverwriteInv, [Next]_vars PROVE OverwriteInv'
  OBVIOUS
<1>1. CASE UNCHANGED vars \/ OtherLinks \/ OtherUnlinks
  <2>1. proc' = proc /\ bytes' = bytes
    BY <1>1 DEF vars, OtherLinks, OtherUnlinks
  <2>2. QED
    BY <2>1 DEF OverwriteInv, Overwrites
<1>2. ASSUME NEW p \in Proc, NEW op \in Ops, Begin(p, op) PROVE OverwriteInv'
  BY <1>2, BeginIs DEF OverwriteInv, Overwrites, Free, InPlace
<1>3. ASSUME NEW p \in Proc, Step(p) PROVE OverwriteInv'
  <2> SUFFICES ASSUME NEW q \in Proc, proc'[q].pc \in InPlace, proc'[q].alone PROVE Overwrites(q)'
    BY DEF OverwriteInv, Overwrites
  <2>1. q = p
    BY <1>3, OthersNotAlone DEF InPlace, Free
  <2>2. CASE WriteBlock(p)
    BY <2>1, <2>2, WriteBlockOverwrites
  <2>3. CASE Open(p)
    <3> DEFINE me == proc[p]
               r == [me EXCEPT !.fd = Opens(me.name), !.at = 1,
                        !.pc = IF me.pc = "open" THEN "overwrite" ELSE "restore"]
    <3>1. Become(p, Idle) \/ Become(p, r)
      BY <2>3, Zenon DEF Open, Return
    <3>2. me \in Process
      BY DEF TypeInv
    <3>3. Idle.at = 1 /\ r.at = 1
      BY <3>2 DEF Idle, Process
    <3> HIDE DEF r
    <3>4. proc'[p].at = 1
      BY <3>1, <3>3 DEF Become, TypeInv
    <3>5. QED
      BY <2>1, <3>4 DEF Overwrites
  <2>4. QED
    BY <1>3, <2>1, <2>2, <2>3, StepIs
<1>4. QED
  BY <1>1, <1>2, <1>3, NextSteps

-----------------------------------------------------------------------------
(* No file has names on two devices.                                       *)
OneDevice == \A n, m \in Name : IsFile(n) /\ entry[n] = entry[m] => Device[n] = Device[m]

LEMMA DeviceKeeps ==
  ASSUME TypeInv, OneDevice,
         \/ SameEntries
         \/ \E m, new : Entries([entry EXCEPT ![m] = Missing], new)
         \/ \E m \in Name : \E i : /\ entry' = [entry EXCEPT ![m] = File(i)]
                                    /\ \A n \in Name : entry[n].inode # i
         \/ \E n, m \in Name : /\ entry' = [entry EXCEPT ![m] = entry[n]]
                               /\ Device[n] = Device[m]
         \/ \E n, m \in Name : /\ entry' = [entry EXCEPT ![m] = entry[n], ![n] = Missing]
                               /\ Device[n] = Device[m]
  PROVE  OneDevice'
<1>1. CASE SameEntries
  BY <1>1 DEF SameEntries, OneDevice, IsFile
<1>2. ASSUME NEW m, NEW new, Entries([entry EXCEPT ![m] = Missing], new) PROVE OneDevice'
  <2>1. \A n \in Name : entry'[n] = entry[n] \/ entry'[n] = Missing
    BY <1>2 DEF Entries, TypeInv
  <2>2. QED
    BY <2>1, MissingIs DEF OneDevice, IsFile
<1>3. ASSUME NEW m \in Name, NEW i, entry' = [entry EXCEPT ![m] = File(i)],
             \A n \in Name : entry[n].inode # i
      PROVE  OneDevice'
  <2>1. entry'[m] = File(i) /\ \A n \in Name \ {m} : entry'[n] = entry[n] /\ entry[n] # File(i)
    BY <1>3, FileIs DEF TypeInv
  <2>2. QED
    BY <2>1 DEF OneDevice, IsFile
<1>4. ASSUME NEW n \in Name, NEW m \in Name, Device[n] = Device[m],
             \/ entry' = [entry EXCEPT ![m] = entry[n]]
             \/ entry' = [entry EXCEPT ![m] = entry[n], ![n] = Missing]
      PROVE  OneDevice'
  <2>1. \A k \in Name : \/ entry'[k] = Missing
                        \/ k # m /\ entry'[k] = entry[k]
                        \/ k = m /\ entry'[k] = entry[n]
    BY <1>4 DEF TypeInv
  <2>2. ASSUME NEW k \in Name, NEW l \in Name, IsFile(k)', entry'[k] = entry'[l]
        PROVE  Device[k] = Device[l]
    <3>1. entry'[k] # Missing /\ entry'[l] # Missing /\ entry'[l].kind = "file"
          /\ entry'[k].kind = "file"
      BY <2>2, MissingIs DEF IsFile
    <3>2. CASE k = m /\ l # m
      BY <1>4, <2>1, <2>2, <3>1, <3>2 DEF OneDevice, IsFile
    <3>3. CASE k # m /\ l = m
      BY <1>4, <2>1, <2>2, <3>1, <3>3 DEF OneDevice, IsFile
    <3>4. CASE k # m /\ l # m
      BY <2>1, <2>2, <3>1, <3>4 DEF OneDevice, IsFile
    <3>5. QED
      BY <3>2, <3>3, <3>4
  <2>3. QED
    BY <2>2 DEF OneDevice
<1>5. QED
  BY <1>1, <1>2, <1>3, <1>4

(* A copy gives a name to a new file, or leaves the one it has.            *)
LEMMA CopyEntry ==
  ASSUME TypeInv, NEW p \in Proc, StartCopy(p), entry' # entry
  PROVE  \E m \in Name : \E i : /\ entry' = [entry EXCEPT ![m] = File(i)]
                                 /\ \A n \in Name : entry[n].inode # i
<1> DEFINE to == Target(proc[p].op.to)
           i == IF IsFile(to) THEN entry[to].inode ELSE NewInode
<1>1. /\ proc[p].pc = "copy" /\ entry' = [entry EXCEPT ![to] = File(i)]
      /\ IsFile(to) \/ HasSpace
  BY Zenon DEF StartCopy, SameEntries
<1>2. to \in Name
  BY <1>1, OpIs, OpensIs DEF TypeInv, Ready, Moving
<1>3. CASE IsFile(to)
  <2>1. entry[to] = File(i)
    BY <1>2, <1>3, EntryIs DEF TypeInv, IsFile
  <2>2. QED
    BY <1>1, <1>2, <2>1 DEF TypeInv
<1>4. CASE ~IsFile(to)
  <2>1. \A n \in Name : entry[n].inode # i
    BY <1>1, <1>4, NewInodeIs DEF Used
  <2>2. QED
    BY <1>1, <1>2, <2>1
<1>5. QED
  BY <1>3, <1>4

LEMMA DeviceStep == TypeInv /\ SecretInv /\ OneDevice /\ [Next]_vars => OneDevice'
<1> SUFFICES ASSUME TypeInv, SecretInv, OneDevice, [Next]_vars PROVE OneDevice'
  OBVIOUS
<1>1. CASE entry' = entry
  BY <1>1 DEF OneDevice, IsFile
<1>2. CASE \E m, new : Entries([entry EXCEPT ![m] = Missing], new)
  BY <1>2, DeviceKeeps
<1>3. ASSUME NEW p \in Proc, Persist(p) PROVE OneDevice'
  <2> DEFINE me == proc[p]
  <2>1. me.pc = "persist" /\ (SameEntries \/ entry' = [entry EXCEPT ![me.name] = File(me.tmp)])
    BY <1>3, Zenon DEF Persist, Entries
  <2>2. me.name \in Name /\ \A n \in Name : entry[n].inode # me.tmp
    BY <2>1 DEF TypeInv, Ready, SecretInv, Secret, Staged
  <2>3. QED
    BY <2>1, <2>2, DeviceKeeps
<1>4. ASSUME NEW p \in Proc, Rename(p) PROVE OneDevice'
  <2> DEFINE op == proc[p].op
  <2>1. /\ proc[p].pc = "rename"
        /\ \/ SameEntries
           \/ /\ ~Refused(op) /\ ~(Across(op) /\ ~Refused(op))
              /\ entry' = [entry EXCEPT ![op.to] = entry[op.name], ![op.name] = Missing]
    BY <1>4, Zenon DEF Rename, Entries
  <2>2. op.name \in Name /\ op.to \in Name
    BY <2>1, OpIs DEF TypeInv, Ready, Moving
  <2>3. QED
    BY <2>1, <2>2, DeviceKeeps DEF Across
<1>5. ASSUME NEW p \in Proc, StartCopy(p) PROVE OneDevice'
  BY <1>1, <1>5, CopyEntry, DeviceKeeps
<1>6. CASE OtherLinks
  <2>1. PICK n \in Name, m \in Name :
          Device[n] = Device[m] /\ Entries([entry EXCEPT ![m] = entry[n]], {})
    BY <1>6, Zenon DEF OtherLinks
  <2>2. entry' = [entry EXCEPT ![m] = entry[n]]
    BY <2>1 DEF Entries
  <2>3. QED
    BY <2>1, <2>2, DeviceKeeps
<1>7. \/ entry' = entry \/ OtherLinks
      \/ \E m, new : Entries([entry EXCEPT ![m] = Missing], new)
      \/ \E p \in Proc : Persist(p) \/ Rename(p) \/ StartCopy(p)
  <2>1. CASE UNCHANGED vars
    BY <2>1 DEF vars
  <2>2. CASE OtherUnlinks
    BY <2>2, Zenon DEF OtherUnlinks
  <2>3. ASSUME NEW p \in Proc, NEW op \in Ops, Begin(p, op) PROVE entry' = entry
    BY <2>3, BeginIs DEF SameFiles, SameEntries
  <2>4. ASSUME NEW p \in Proc, Stage(p) PROVE entry' = entry
    BY <2>4 DEF Stage
  <2>5. ASSUME NEW p \in Proc,
               \/ Stat(p) \/ CallFails(p) \/ Open(p) \/ WriteBlock(p) \/ SetLen(p)
               \/ InPlaceFails(p) \/ Fill(p) \/ CopyFails(p) \/ Crash(p)
        PROVE  entry' = entry
    BY <2>5, StepsKeepEntries DEF SameEntries
  <2>6. ASSUME NEW p \in Proc, Resolve(p) \/ UnlinkSource(p) \/ UnlinkFails(p)
        PROVE  entry' = entry \/ \E m, new : Entries([entry EXCEPT ![m] = Missing], new)
    BY <2>6, Zenon DEF Resolve, UnlinkSource, UnlinkFails, SameEntries
  <2>7. QED
    BY <2>1, <2>2, <2>3, <2>4, <2>5, <2>6, NextSteps DEF Step
<1>8. QED
  BY <1>1, <1>2, <1>3, <1>4, <1>5, <1>6, <1>7

-----------------------------------------------------------------------------
(* A move by copy, alone: the source keeps its name till the copy is whole *)
(* under the other.                                                        *)
Moves(p) ==
  LET me == proc[p]
  IN  me.alone /\ others = 0 =>
        /\ me.pc \in {"copy", "fill", "unlink"} => Across(me.op)
        /\ me.pc = "copy" => IsFile(me.op.name) /\ entry[me.op.to].kind # "link"
        /\ me.pc \in Copying =>
             /\ entry[me.op.name] = File(me.tmp) /\ entry[me.op.to] = File(me.fd)
             /\ me.tmp # me.fd
        /\ me.pc = "unlink" => bytes[me.fd] = bytes[me.tmp]

MoveInv == \A p \in Proc : Moves(p)

LEMMA RenameMoves == ASSUME TypeInv, NEW p \in Proc, Rename(p) PROVE Moves(p)'
<1> DEFINE me == proc[p]
           op == me.op
           x == entry[op.to] # Missing
           r == [me EXCEPT !.pc = "copy", !.existed = x]
<1>1. \/ Become(p, Idle)
      \/ /\ Across(op) /\ ~Refused(op) /\ IsFile(op.name) /\ SameEntries
         /\ Become(p, r)
  BY Zenon DEF Rename, Return
<1>2. CASE Become(p, Idle)
  <2>1. proc'[p] = Idle
    BY <1>2 DEF Become, TypeInv
  <2>2. QED
    BY <2>1, IdleReady DEF Moves, Copying
<1>3. CASE Across(op) /\ ~Refused(op) /\ IsFile(op.name) /\ SameEntries /\ Become(p, r)
  <2>1. r.pc = "copy" /\ r.op = op
    BY DEF Process, TypeInv
  <2> HIDE DEF r
  <2>2. proc'[p] = r /\ entry' = entry
    BY <1>3 DEF Become, TypeInv, SameEntries
  <2>3. entry[op.to].kind # "link"
    BY <1>3 DEF Refused
  <2>4. QED
    BY <1>3, <2>1, <2>2, <2>3 DEF Moves, Copying, Across, IsFile
<1>4. QED
  BY <1>1, <1>2, <1>3

LEMMA StartCopyMoves ==
  ASSUME TypeInv, OneDevice, MoveInv, NEW p \in Proc, StartCopy(p) PROVE Moves(p)'
<1> DEFINE me == proc[p]
           op == me.op
           from == Opens(op.name)
           to == Target(op.to)
           i == IF IsFile(to) THEN entry[to].inode ELSE NewInode
           r == [me EXCEPT !.pc = "fill", !.tmp = from, !.fd = i]
<1>1. /\ me.pc = "copy" /\ others' = others
      /\ \/ Become(p, Idle)
         \/ /\ IsFile(to) \/ HasSpace
            /\ entry' = [entry EXCEPT ![to] = File(i)]
            /\ Become(p, r)
  BY Zenon DEF StartCopy, Return
<1>2. CASE Become(p, Idle)
  <2>1. proc'[p] = Idle
    BY <1>2 DEF Become, TypeInv
  <2>2. QED
    BY <2>1, IdleReady DEF Moves, Copying
<1>3. CASE (IsFile(to) \/ HasSpace) /\ entry' = [entry EXCEPT ![to] = File(i)] /\ Become(p, r)
  <2>1. r.pc = "fill" /\ r.op = op /\ r.tmp = from /\ r.fd = i /\ r.alone = me.alone
    BY DEF Process, TypeInv
  <2>2. proc'[p] = r
    BY <1>3 DEF Become, TypeInv
  <2>3. op.name \in Name /\ op.to \in Name /\ to \in Name
    BY <1>1, OpIs, OpensIs DEF TypeInv, Ready, Moving
  <2>4. ASSUME me.alone, others = 0
        PROVE  /\ Across(op) /\ entry'[op.name] = File(from) /\ entry'[op.to] = File(i)
               /\ from # i
    <3>1. Across(op) /\ IsFile(op.name) /\ entry[op.to].kind # "link"
      BY <1>1, <2>4 DEF MoveInv, Moves
    <3>2. from = entry[op.name].inode /\ entry[op.name] = File(from)
      BY <2>3, <3>1, OpensIs, EntryIs DEF TypeInv, IsFile
    <3>3. to = op.to
      BY <3>1 DEF Target
    <3>4. op.to # op.name
      BY <3>1 DEF Across
    <3>5. from # i
      <4>1. CASE IsFile(to)
        <5>1. entry[to] = File(i)
          BY <2>3, <4>1, EntryIs DEF TypeInv, IsFile
        <5>2. SUFFICES ASSUME from = i PROVE FALSE
          OBVIOUS
        <5>3. entry[op.name] = entry[op.to] /\ entry[op.name].kind = "file"
          BY <3>1, <3>2, <3>3, <5>1, <5>2 DEF IsFile
        <5>4. Device[op.name] = Device[op.to]
          BY <2>3, <5>3 DEF OneDevice, IsFile
        <5>5. QED
          BY <3>1, <5>4 DEF Across
      <4>2. CASE ~IsFile(to)
        BY <1>3, <2>3, <3>2, <4>2, NewInodeIs DEF Used
      <4>3. QED
        BY <4>1, <4>2
    <3>6. QED
      BY <1>3, <2>3, <3>1, <3>2, <3>3, <3>4, <3>5 DEF TypeInv
  <2> HIDE DEF r, from, i
  <2>5. QED
    BY <1>1, <2>1, <2>2, <2>4 DEF Moves, Copying, Across
<1>4. QED
  BY <1>1, <1>2, <1>3

LEMMA FillMoves == ASSUME TypeInv, MoveInv, NEW p \in Proc, Fill(p) PROVE Moves(p)'
<1> DEFINE me == proc[p]
           r == [me EXCEPT !.pc = "unlink"]
<1>1. /\ me.pc = "fill" /\ bytes' = [bytes EXCEPT ![me.fd] = bytes[me.tmp]]
      /\ Become(p, r) /\ UNCHANGED <<entry, others>>
  BY Zenon DEF Fill, SameFiles, SameEntries
<1>2. r.pc = "unlink" /\ r.op = me.op /\ r.tmp = me.tmp /\ r.fd = me.fd /\ r.alone = me.alone
  BY DEF Process, TypeInv
<1> HIDE DEF r
<1>3. proc'[p] = r
  BY <1>1 DEF Become, TypeInv
<1>4. me.fd \in Inode /\ me.tmp \in Inode
  BY <1>1 DEF TypeInv, Ready, Copying
<1>5. bytes'[me.fd] = bytes[me.tmp] /\ (me.tmp # me.fd => bytes'[me.tmp] = bytes[me.tmp])
  BY <1>1, <1>4 DEF TypeInv
<1>6. QED
  BY <1>1, <1>2, <1>3, <1>5 DEF MoveInv, Moves, Copying, Across

LEMMA MoveStep == TypeInv /\ AloneInv /\ OneDevice /\ MoveInv /\ [Next]_vars => MoveInv'
<1> SUFFICES ASSUME TypeInv, AloneInv, OneDevice, MoveInv, [Next]_vars PROVE MoveInv'
  OBVIOUS
<1>1. CASE UNCHANGED vars
  BY <1>1 DEF vars, MoveInv, Moves, Across, IsFile
<1>2. CASE OtherLinks \/ OtherUnlinks
  <2>1. others' = others + 1 /\ others \in Nat
    BY <1>2 DEF OtherLinks, OtherUnlinks, TypeInv
  <2>2. others' # 0
    BY <2>1
  <2>3. QED
    BY <2>2 DEF MoveInv, Moves
<1>3. ASSUME NEW p \in Proc, NEW op \in Ops, Begin(p, op) PROVE MoveInv'
  BY <1>3, BeginIs DEF MoveInv, Moves, Free, Copying
<1>4. ASSUME NEW p \in Proc, Step(p) PROVE MoveInv'
  <2> SUFFICES ASSUME NEW q \in Proc, proc'[q].pc \in {"copy", "fill", "unlink"}, proc'[q].alone
               PROVE  Moves(q)'
    BY DEF MoveInv, Moves, Copying
  <2>1. q = p
    BY <1>4, OthersNotAlone DEF Free
  <2>2. QED
    BY <1>4, <2>1, StepIs, RenameMoves, StartCopyMoves, FillMoves
<1>5. QED
  BY <1>1, <1>2, <1>3, <1>4, NextSteps

-----------------------------------------------------------------------------
(* The last call of an in-place write: all blocks are there, and no others. *)
LEMMA SetLenWrites ==
  ASSUME TypeInv, OverwriteInv, NEW p \in Proc, SetLen(p), proc[p].alone
  PROVE  proc[p].fd # None /\ bytes'[proc[p].fd] = proc[p].op.payload
<1> DEFINE me == proc[p]
           w == me.op.payload
           n == Len(w)
           old == bytes[me.fd]
           new == IF Len(old) > n THEN SubSeq(old, 1, n) ELSE old
<1>1. /\ me.pc \in InPlace /\ me.at = n + 1
      /\ bytes' = [bytes EXCEPT ![me.fd] = IF Len(@) > n THEN SubSeq(@, 1, n) ELSE @]
  BY Zenon DEF SetLen, InPlace
<1>2. me.fd \in Inode /\ me.fd # None /\ w \in Payload
  BY <1>1, OpIs, FileAssumption DEF TypeInv, Ready, InPlace, Writing
<1>3. n \in Nat /\ w \in Seq(Block) /\ old \in Seq(Block)
  BY <1>2, PayloadIs DEF TypeInv
<1>4. bytes'[me.fd] = new
  BY <1>1, <1>2 DEF TypeInv
<1>5. \A j \in 1..n : j \in 1..Len(old) /\ old[j] = w[j]
  <2>1. \A j \in 1..(me.at - 1) : j \in 1..Len(old) /\ old[j] = w[j]
    BY <1>1 DEF OverwriteInv, Overwrites
  <2> HIDE DEF old, w, n
  <2>2. me.at - 1 = n
    BY <1>1, <1>3
  <2>3. QED
    BY <2>1, <2>2
<1> HIDE DEF old, n
<1>6. /\ new \in Seq(Block) /\ Len(new) = IF Len(old) > n THEN n ELSE Len(old)
      /\ \A j \in 1..Len(new) : new[j] = old[j]
  BY <1>3, CutIs
<1>7. Len(old) \in Nat
  BY <1>3, LenProperties
<1>8. n <= Len(old)
  <2>1. CASE n = 0
    BY <1>7, <2>1
  <2>2. CASE n # 0
    <3>1. n \in 1..n
      BY <1>3, <2>2
    <3>2. QED
      BY <1>5, <1>7, <3>1
  <2>3. QED
    BY <2>1, <2>2
<1> HIDE DEF new, w
<1>9. Len(new) = n
  BY <1>3, <1>6, <1>7, <1>8
<1>10. Len(new) = Len(w)
  BY <1>9 DEF n
<1>11. \A j \in 1..Len(new) : new[j] = w[j]
  BY <1>5, <1>6, <1>9
<1>12. new = w
  BY <1>3, <1>6, <1>10, <1>11, SeqEqual
<1>13. QED
  BY <1>2, <1>4, <1>12 DEF w

LEMMA SurvivesStep ==
  ASSUME TypeInv, SecretInv, OverwriteInv, [Next]_vars, NEW p \in Proc,
         proc[p].pc \in {"overwrite", "restore", "reopen"}, proc[p].alone, proc'[p].pc = "idle"
  PROVE  \/ proc[p].fd # None /\ bytes'[proc[p].fd] = proc[p].op.payload
         \/ proc[p].tmp \in kept' /\ bytes'[proc[p].tmp] = proc[p].op.payload
<1> DEFINE me == proc[p]
<1>1. bytes[me.tmp] = me.op.payload /\ me \in Process
  BY DEF SecretInv, Secret, Staged, TypeInv
<1>2. ~Free(p) /\ proc'[p].pc # me.pc
  BY DEF Free
<1>3. CASE SetLen(p)
  BY <1>3, SetLenWrites
<1>4. CASE InPlaceFails(p)
  <2> DEFINE r == [me EXCEPT !.pc = "reopen", !.fd = None]
  <2>1. Become(p, r) \/ kept' = kept \cup {me.tmp}
    BY <1>4, Zenon DEF InPlaceFails
  <2>2. bytes' = bytes
    BY <1>4 DEF InPlaceFails
  <2>3. r.pc = "reopen"
    BY <1>1 DEF Process
  <2> HIDE DEF r
  <2>4. ~Become(p, r)
    BY <2>3 DEF Become, TypeInv
  <2>5. QED
    BY <1>1, <2>1, <2>2, <2>4
<1>5. CASE Open(p)
  <2> DEFINE c == IF me.pc = "open" THEN "overwrite" ELSE "restore"
             r == [me EXCEPT !.fd = Opens(me.name), !.at = 1, !.pc = c]
  <2>1. /\ me.pc \in {"open", "reopen"} /\ bytes' = bytes
        /\ Become(p, r) \/ kept' = IF me.pc = "reopen" THEN kept \cup {me.tmp} ELSE kept
    BY <1>5, Zenon DEF Open
  <2>2. r.pc \in InPlace
    BY <1>1 DEF Process, InPlace
  <2> HIDE DEF r
  <2>3. ~Become(p, r)
    BY <2>2 DEF Become, TypeInv, InPlace
  <2>4. QED
    BY <1>1, <2>1, <2>3
<1>6. CASE WriteBlock(p)
  <2>1. Become(p, [me EXCEPT !.at = @ + 1])
    BY <1>6, Zenon DEF WriteBlock
  <2>2. [me EXCEPT !.at = @ + 1].pc = me.pc
    BY <1>1 DEF Process
  <2>3. QED
    BY <1>2, <2>1, <2>2 DEF Become, TypeInv
<1>7. CASE Crash(p)
  BY <1>7, IdleReady DEF Crash, Become, TypeInv
<1>8. CASE Step(p)
  BY <1>3, <1>4, <1>5, <1>6, <1>7, <1>8, Zenon
     DEF Step, Resolve, Stat, Stage, Persist, CallFails, Rename, StartCopy, Fill, CopyFails,
         UnlinkSource, UnlinkFails
<1>9. ASSUME ~Step(p) PROVE FALSE
  <2>1. CASE UNCHANGED vars \/ OtherLinks \/ OtherUnlinks
    BY <1>2, <2>1, Zenon DEF vars, OtherLinks, OtherUnlinks
  <2>2. ASSUME NEW q \in Proc, NEW op \in Ops, Begin(q, op) PROVE FALSE
    BY <1>2, <2>2, BeginIs
  <2>3. ASSUME NEW q \in Proc, Step(q) PROVE FALSE
    BY <1>2, <1>9, <2>3, StepIs
  <2>4. QED
    BY <2>1, <2>2, <2>3, NextSteps
<1>10. QED
  BY <1>8, <1>9

-----------------------------------------------------------------------------
(* What a move takes a name from is there under its other name.            *)
LEMMA MoveStepKeeps ==
  ASSUME TypeInv, MoveInv, NEW p \in Proc, Step(p), NEW n \in Name,
         proc[p].pc \in Moving, proc[p].alone, others = 0, IsFile(n), entry'[n] = Missing
  PROVE  \E m \in Name : /\ entry'[m].kind = "file"
                          /\ bytes'[entry'[m].inode] = bytes[entry[n].inode]
<1> DEFINE me == proc[p]
           op == me.op
<1>1. op.name \in Name /\ op.to \in Name
  BY OpIs DEF TypeInv, Ready, Moving
<1>2. entry[n] # Missing /\ entry'[n] # entry[n]
  BY MissingIs DEF IsFile
<1>3. CASE Rename(p)
  <2>1. /\ ~Refused(op) /\ entry[op.to] # entry[op.name] /\ bytes' = bytes
        /\ entry' = [entry EXCEPT ![op.to] = entry[op.name], ![op.name] = Missing]
    BY <1>2, <1>3, Zenon DEF Rename, SameEntries, Entries
  <2>2. op.to # op.name /\ entry'[op.to] = entry[op.name] /\ entry[op.name] # Missing
    BY <1>1, <2>1 DEF TypeInv, Refused
  <2>3. n = op.name
    BY <1>1, <1>2, <2>1, <2>2 DEF TypeInv
  <2>4. QED
    BY <1>1, <2>1, <2>2, <2>3 DEF IsFile
<1>4. CASE UnlinkSource(p)
  <2>1. /\ me.pc = "unlink" /\ bytes' = bytes
        /\ entry' = [entry EXCEPT ![op.name] = Missing]
    BY <1>4, Zenon DEF UnlinkSource, Entries
  <2>2. /\ Across(op) /\ entry[op.name] = File(me.tmp) /\ entry[op.to] = File(me.fd)
        /\ bytes[me.fd] = bytes[me.tmp]
    BY <2>1 DEF MoveInv, Moves, Copying
  <2>3. n = op.name /\ op.to # op.name /\ entry'[op.to] = entry[op.to]
    BY <1>1, <1>2, <2>1, <2>2 DEF TypeInv, Across
  <2>4. QED
    BY <1>1, <2>1, <2>2, <2>3, FileIs
<1>5. CASE UnlinkFails(p)
  <2>1. /\ me.pc = "unlink" /\ bytes' = bytes
        /\ entry' = [entry EXCEPT ![op.to] = Missing]
    BY <1>2, <1>5, Zenon DEF UnlinkFails, Entries, SameEntries
  <2>2. /\ Across(op) /\ entry[op.name] = File(me.tmp) /\ entry[op.to] = File(me.fd)
        /\ bytes[me.fd] = bytes[me.tmp]
    BY <2>1 DEF MoveInv, Moves, Copying
  <2>3. n = op.to /\ op.to # op.name /\ entry'[op.name] = entry[op.name]
    BY <1>1, <1>2, <2>1, <2>2 DEF TypeInv, Across
  <2>4. QED
    BY <1>1, <2>1, <2>2, <2>3, FileIs
<1>6. CASE StartCopy(p)
  <2>1. SameEntries \/ \E to, i : entry' = [entry EXCEPT ![to] = File(i)]
    BY <1>6, Zenon DEF StartCopy
  <2>2. QED
    BY <1>2, <2>1, FilesAreThere DEF TypeInv, SameEntries
<1>7. CASE Fill(p) \/ CopyFails(p) \/ Crash(p)
  BY <1>2, <1>7, StepsKeepEntries DEF SameEntries
<1>8. QED
  BY <1>3, <1>4, <1>5, <1>6, <1>7, Zenon
     DEF Step, Resolve, Stat, Stage, Persist, CallFails, Open, WriteBlock, SetLen, InPlaceFails,
         Moving

LEMMA KeepsStep ==
  ASSUME TypeInv, AloneInv, MoveInv, [Next]_vars, NEW p \in Proc, NEW n \in Name,
         proc[p].pc \in Moving, proc[p].alone, others' = 0, IsFile(n), entry'[n] = Missing
  PROVE  \E m \in Name : /\ entry'[m].kind = "file"
                          /\ bytes'[entry'[m].inode] = bytes[entry[n].inode]
<1>1. entry'[n] # entry[n] /\ ~Free(p)
  BY MissingIs DEF IsFile, Free, Moving
<1>2. CASE UNCHANGED vars
  BY <1>1, <1>2 DEF vars
<1>3. CASE OtherLinks \/ OtherUnlinks
  <2>1. others' = others + 1 /\ others \in Nat
    BY <1>3 DEF OtherLinks, OtherUnlinks, TypeInv
  <2>2. QED
    BY <2>1
<1>4. ASSUME NEW q \in Proc, NEW op \in Ops, Begin(q, op) PROVE FALSE
  BY <1>1, <1>4, BeginIs DEF SameFiles, SameEntries
<1>5. ASSUME NEW q \in Proc, Step(q) PROVE q = p /\ others = 0
  BY <1>1, <1>5, StepIs DEF AloneInv
<1>6. QED
  BY <1>2, <1>3, <1>4, <1>5, MoveStepKeeps, NextSteps

-----------------------------------------------------------------------------
(***************************************************************************)
(* While nobody else links or unlinks, and no operation moves a link or    *)
(* one of several names: a file that has several names keeps them all, and *)
(* so a write that has seen them, or seen that there are none, is right.   *)
(***************************************************************************)
SharedName(n) == IsFile(n) /\ entry[n].inode \in shared

CalmNames ==
  /\ \A n \in Moved : entry[n].kind # "link" /\ ~SharedName(n)
  /\ \A n, m \in Name : n # m /\ IsFile(n) /\ entry[n] = entry[m] => SharedName(n)
  /\ \E e \in InitialEntries : \A i \in shared :
       /\ \E n, m \in Name : n # m /\ e[n] = File(i) /\ e[m] = File(i)
       /\ \A n \in Name : e[n] = File(i) => entry[n] = File(i)

CalmProc(p) ==
  LET me == proc[p]
  IN  /\ me.pc \in {"stage_shared", "open", "overwrite", "reopen", "restore"} => SharedName(me.name)
      /\ me.pc \in {"stage", "persist"} /\ me.op.kind = "write" => ~SharedName(me.name)
      /\ me.pc \in InPlace => me.fd \in shared

CalmBytes ==
  \A n \in Name : IsFile(n) /\ bytes[entry[n].inode] \notin Payload =>
                    entry[n].inode \in shared \cup copied

CalmInv == others = 0 /\ Settled => CalmNames /\ (\A p \in Proc : CalmProc(p)) /\ CalmBytes

LEMMA Several ==
  ASSUME NEW S \in SUBSET Name
  PROVE  Cardinality(S) > 1 <=> \E n, m \in S : n # m
<1>1. IsFiniteSet(S) /\ Cardinality(S) \in Nat
  BY FileAssumption, FS_Subset, FS_CardinalityType
<1>2. ASSUME NEW n \in S, \A m \in S : m = n PROVE Cardinality(S) = 1
  <2>1. S = {n}
    BY <1>2
  <2>2. QED
    BY <2>1, FS_Singleton
<1>3. S = {} => Cardinality(S) = 0
  BY FS_EmptySet
<1>4. ASSUME NEW n \in S, NEW m \in S, n # m PROVE Cardinality(S) > 1
  <2>1. Cardinality(S) # 0
    BY <1>1, FS_EmptySet
  <2>2. Cardinality(S) # 1
    BY <1>1, <1>4, FS_Singleton
  <2>3. QED
    BY <1>1, <2>1, <2>2
<1>5. QED
  BY <1>1, <1>2, <1>3, <1>4

(* Names that are given or taken are not of a file with several.           *)
Changes ==
  \A n \in Name : entry'[n] # entry[n] =>
    /\ ~SharedName(n) /\ entry'[n].kind # "link"
    /\ entry'[n].kind = "file" =>
         /\ entry'[n].inode \notin shared
         /\ \A m \in Name \ {n} : entry'[m] # entry'[n]

LEMMA ChangesKeep ==
  ASSUME TypeInv, TypeInv', CalmNames, Changes,
         shared' = shared \/ \E new : Entries(entry', new)
  PROVE  /\ CalmNames' /\ shared' = shared
         /\ \A n \in Name : SharedName(n)' <=> SharedName(n)
<1>1. ASSUME NEW n \in Name, NEW m \in Name, n # m, IsFile(n)', entry'[n] = entry'[m]
      PROVE  entry[n] = entry'[n] /\ entry[m] = entry'[m] /\ SharedName(n)
  <2>1. entry[n] = entry'[n] /\ entry[m] = entry'[m]
    BY <1>1 DEF Changes, IsFile
  <2>2. QED
    BY <1>1, <2>1 DEF CalmNames, IsFile
<1>2. shared' = shared
  <2>1. ASSUME NEW i \in Inode, Cardinality({n \in Name : entry'[n] = File(i)}) > 1
        PROVE  i \in shared
    <3>1. PICK n, m \in {n \in Name : entry'[n] = File(i)} : n # m
      BY <2>1, Several
    <3>2. SharedName(n) /\ entry[n] = File(i)
      BY <1>1, <3>1, FileIs DEF IsFile
    <3>3. QED
      BY <3>2, FileIs DEF SharedName
  <2>2. QED
    BY <2>1 DEF Entries
<1>3. \A n \in Name : SharedName(n)' <=> SharedName(n)
  BY <1>2 DEF Changes, SharedName, IsFile
<1>4. \A n \in Moved : entry'[n].kind # "link" /\ ~SharedName(n)'
  <2>1. Moved \subseteq Name
    BY OpIs DEF Moved
  <2>2. QED
    BY <1>3, <2>1 DEF CalmNames, Changes
<1>5. \A n, m \in Name : n # m /\ IsFile(n)' /\ entry'[n] = entry'[m] => SharedName(n)'
  BY <1>1, <1>3
<1>6. \E e \in InitialEntries : \A i \in shared' :
        /\ \E n, m \in Name : n # m /\ e[n] = File(i) /\ e[m] = File(i)
        /\ \A n \in Name : e[n] = File(i) => entry'[n] = File(i)
  <2>1. ASSUME NEW i \in shared, NEW n \in Name, entry[n] = File(i) PROVE entry'[n] = File(i)
    BY <2>1, FileIs DEF Changes, SharedName, IsFile
  <2>2. QED
    BY <1>2, <2>1 DEF CalmNames
<1>7. QED
  BY <1>2, <1>3, <1>4, <1>5, <1>6 DEF CalmNames

(* A file with several names has one, and they are all seen.               *)
LEMMA SharedIs ==
  ASSUME TypeInv, CalmNames
  PROVE  /\ \A i \in shared : \E n, m \in Name : n # m /\ entry[n] = File(i) /\ entry[m] = File(i)
         /\ \A i : (\A n \in Name : entry[n].inode # i) => i \notin shared
         /\ \A n \in Name : IsFile(n) =>
              (Cardinality(NamesOf(entry[n].inode)) > 1 <=> SharedName(n))
<1>1. \A i \in shared : \E n, m \in Name : n # m /\ entry[n] = File(i) /\ entry[m] = File(i)
  BY DEF CalmNames
<1>2. \A i : (\A n \in Name : entry[n].inode # i) => i \notin shared
  BY <1>1, FileIs
<1>3. ASSUME NEW n \in Name, IsFile(n)
      PROVE  Cardinality(NamesOf(entry[n].inode)) > 1 <=> SharedName(n)
  <2> DEFINE i == entry[n].inode
  <2>1. entry[n] = File(i)
    BY <1>3, EntryIs DEF TypeInv, IsFile
  <2>2. Cardinality(NamesOf(i)) > 1 <=> \E k, m \in NamesOf(i) : k # m
    BY Several DEF NamesOf
  <2>3. ASSUME NEW k \in NamesOf(i), NEW m \in NamesOf(i), k # m PROVE SharedName(n)
    <3>1. PICK o \in {k, m} : o # n
      BY <2>3
    <3>2. entry[o] = entry[n] /\ o \in Name
      BY <2>1 DEF NamesOf
    <3>3. QED
      BY <1>3, <3>1, <3>2 DEF CalmNames
  <2>4. ASSUME SharedName(n) PROVE \E k, m \in NamesOf(i) : k # m
    BY <1>1, <2>4 DEF SharedName, NamesOf
  <2>5. QED
    BY <2>2, <2>3, <2>4
<1>4. QED
  BY <1>1, <1>2, <1>3

(* What a step of an operation does to the names.                          *)
StepChanges(p) == Changes /\ (shared' = shared \/ \E new : Entries(entry', new))

LEMMA SameChanges == ASSUME SameEntries PROVE Changes /\ shared' = shared
BY DEF SameEntries, Changes

(* One name is freed, or given to a file that has none.                    *)
LEMMA OneChanges ==
  ASSUME TypeInv, CalmNames, NEW k \in Name, ~SharedName(k), NEW v,
         entry' = [entry EXCEPT ![k] = v],
         v = Missing \/ \E i : v = File(i) /\ \A n \in Name : entry[n].inode # i
  PROVE  Changes
<1>1. entry'[k] = v /\ \A n \in Name \ {k} : entry'[n] = entry[n]
  BY DEF TypeInv
<1>2. CASE v = Missing
  BY <1>1, <1>2, MissingIs DEF Changes
<1>3. ASSUME NEW i, v = File(i), \A n \in Name : entry[n].inode # i PROVE Changes
  <2>1. i \notin shared
    BY <1>3, SharedIs
  <2>2. v.kind = "file" /\ v.inode = i
    BY <1>3, FileIs
  <2>3. \A m \in Name \ {k} : entry'[m] # v
    BY <1>1, <1>3, <2>2
  <2>4. QED
    BY <1>1, <2>1, <2>2, <2>3 DEF Changes
<1>4. QED
  BY <1>2, <1>3

LEMMA NewUsed ==
  ASSUME HasSpace
  PROVE  /\ \A n \in Name : entry[n].inode # NewInode
         /\ NewInode \notin kept
BY NewInodeIs DEF Used

LEMMA MovedIs ==
  ASSUME TypeInv, NEW p \in Proc, proc[p].pc \in Moving
  PROVE  /\ proc[p].op.name \in Moved /\ proc[p].op.to \in Moved
         /\ proc[p].op.name \in Name /\ proc[p].op.to \in Name
<1>1. proc[p].op \in Ops /\ proc[p].op.kind = "move"
  BY DEF TypeInv, Ready, Moving
<1>2. QED
  BY <1>1, OpIs DEF Moved

LEMMA ResolveChanges ==
  ASSUME TypeInv, CalmNames, NEW p \in Proc, Resolve(p) PROVE StepChanges(p)
<1> DEFINE me == proc[p]
<1>1. /\ me.pc = "resolve"
      /\ \/ SameEntries
         \/ /\ entry[me.name].kind = "link"
            /\ Entries([entry EXCEPT ![me.name] = Missing], {})
  BY Zenon DEF Resolve
<1>2. me.name \in Name
  BY <1>1 DEF TypeInv, Ready
<1>3. CASE entry[me.name].kind = "link" /\ Entries([entry EXCEPT ![me.name] = Missing], {})
  <2>1. entry' = [entry EXCEPT ![me.name] = Missing] /\ Entries(entry', {})
    BY <1>3 DEF Entries
  <2>2. ~SharedName(me.name)
    BY <1>3 DEF SharedName, IsFile
  <2>3. QED
    BY <1>2, <2>1, <2>2, OneChanges DEF StepChanges
<1>4. QED
  BY <1>1, <1>3, SameChanges DEF StepChanges

LEMMA PersistChanges ==
  ASSUME TypeInv, SecretInv, CalmNames, NEW p \in Proc, CalmProc(p), Persist(p)
  PROVE  StepChanges(p)
<1> DEFINE me == proc[p]
           new == IF me.op.kind = "create" THEN {me.name} ELSE {}
<1>1. /\ me.pc = "persist"
      /\ \/ SameEntries
         \/ /\ ~(me.op.kind = "create" /\ entry[me.name] # Missing)
            /\ Entries([entry EXCEPT ![me.name] = File(me.tmp)], new)
  BY Zenon DEF Persist
<1>2. /\ me.name \in Name /\ me.op.kind \in {"write", "create"}
      /\ \A n \in Name : entry[n].inode # me.tmp
  BY <1>1 DEF TypeInv, Ready, Writing, SecretInv, Secret, Staged
<1>3. CASE /\ ~(me.op.kind = "create" /\ entry[me.name] # Missing)
           /\ Entries([entry EXCEPT ![me.name] = File(me.tmp)], new)
  <2>1. entry' = [entry EXCEPT ![me.name] = File(me.tmp)] /\ Entries(entry', new)
    BY <1>3 DEF Entries
  <2>2. ~SharedName(me.name)
    <3>1. CASE me.op.kind = "write"
      BY <1>1, <3>1 DEF CalmProc
    <3>2. CASE me.op.kind = "create"
      BY <1>3, <3>2, MissingIs DEF SharedName, IsFile
    <3>3. QED
      BY <1>2, <3>1, <3>2
  <2>3. QED
    BY <1>2, <2>1, <2>2, OneChanges DEF StepChanges
<1>4. QED
  BY <1>1, <1>3, SameChanges DEF StepChanges

LEMMA UnlinkChanges ==
  ASSUME TypeInv, CalmNames, NEW p \in Proc, UnlinkSource(p) \/ UnlinkFails(p)
  PROVE  StepChanges(p)
<1> DEFINE op == proc[p].op
<1>1. /\ proc[p].pc = "unlink"
      /\ \/ SameEntries
         \/ Entries([entry EXCEPT ![op.name] = Missing], {})
         \/ Entries([entry EXCEPT ![op.to] = Missing], {})
  BY Zenon DEF UnlinkSource, UnlinkFails
<1>2. /\ op.name \in Name /\ op.to \in Name /\ ~SharedName(op.name) /\ ~SharedName(op.to)
  BY <1>1, MovedIs DEF Moving, CalmNames
<1>3. ASSUME NEW k \in {op.name, op.to}, Entries([entry EXCEPT ![k] = Missing], {})
      PROVE  StepChanges(p)
  <2>1. entry' = [entry EXCEPT ![k] = Missing] /\ Entries(entry', {})
    BY <1>3 DEF Entries
  <2>2. QED
    BY <1>2, <2>1, OneChanges DEF StepChanges
<1>4. QED
  BY <1>1, <1>3, SameChanges DEF StepChanges

LEMMA RenameChanges ==
  ASSUME TypeInv, CalmNames, NEW p \in Proc, Rename(p) PROVE StepChanges(p)
<1> DEFINE op == proc[p].op
           e == [entry EXCEPT ![op.to] = entry[op.name], ![op.name] = Missing]
<1>1. /\ proc[p].pc = "rename"
      /\ \/ SameEntries
         \/ ~Refused(op) /\ entry[op.to] # entry[op.name] /\ Entries(e, {})
  BY Zenon DEF Rename
<1>2. /\ op.name \in Name /\ op.to \in Name /\ ~SharedName(op.name) /\ ~SharedName(op.to)
      /\ entry[op.name].kind # "link"
  BY <1>1, MovedIs DEF Moving, CalmNames
<1>3. CASE ~Refused(op) /\ entry[op.to] # entry[op.name] /\ Entries(e, {})
  <2>1. entry' = e /\ Entries(entry', {})
    BY <1>3 DEF Entries
  <2>2. /\ op.to # op.name /\ entry'[op.name] = Missing /\ entry'[op.to] = entry[op.name]
        /\ \A n \in Name \ {op.name, op.to} : entry'[n] = entry[n]
    BY <1>2, <1>3, <2>1 DEF TypeInv
  <2>3. IsFile(op.name)
    BY <1>2, <1>3, EntryIs DEF Refused, IsFile, TypeInv
  <2>4. entry[op.name].inode \notin shared
    BY <1>2, <2>3 DEF SharedName
  <2>5. \A m \in Name \ {op.name} : entry[m] # entry[op.name]
    BY <1>2, <2>3 DEF CalmNames
  <2>6. Changes
    BY <1>2, <2>2, <2>3, <2>4, <2>5, MissingIs DEF Changes, IsFile
  <2>7. QED
    BY <2>1, <2>6 DEF StepChanges
<1>4. QED
  BY <1>1, <1>3, SameChanges DEF StepChanges

LEMMA StartCopyChanges ==
  ASSUME TypeInv, CalmNames, NEW p \in Proc, StartCopy(p) PROVE StepChanges(p)
<1> DEFINE op == proc[p].op
           to == Target(op.to)
           i == IF IsFile(to) THEN entry[to].inode ELSE NewInode
<1>1. /\ proc[p].pc = "copy"
      /\ \/ SameEntries
         \/ /\ IsFile(to) \/ HasSpace
            /\ entry' = [entry EXCEPT ![to] = File(i)]
            /\ shared' = IF IsFile(to) THEN shared ELSE shared \ {i}
  BY Zenon DEF StartCopy
<1>2. to = op.to /\ to \in Name /\ ~SharedName(to)
  BY <1>1, MovedIs DEF Moving, CalmNames, Target
<1>3. CASE IsFile(to) /\ entry' = [entry EXCEPT ![to] = File(i)] /\ shared' = shared
  <2>1. entry[to] = File(i)
    BY <1>2, <1>3, EntryIs DEF TypeInv, IsFile
  <2>2. entry' = entry
    BY <1>2, <1>3, <2>1 DEF TypeInv
  <2>3. QED
    BY <1>3, <2>2 DEF StepChanges, Changes
<1>4. CASE /\ ~IsFile(to) /\ HasSpace
           /\ entry' = [entry EXCEPT ![to] = File(i)] /\ shared' = shared \ {i}
  <2>1. \A n \in Name : entry[n].inode # i
    BY <1>4, NewUsed
  <2>2. shared' = shared
    BY <1>4, <2>1, SharedIs
  <2>3. QED
    BY <1>2, <1>4, <2>1, <2>2, OneChanges DEF StepChanges
<1>5. QED
  BY <1>1, <1>3, <1>4, SameChanges DEF StepChanges

LEMMA StepsChange ==
  ASSUME TypeInv, SecretInv, CalmNames, NEW p \in Proc, CalmProc(p), Step(p)
  PROVE  StepChanges(p)
<1>1. CASE Stage(p)
  <2>1. HasSpace /\ entry' = entry /\ shared' = shared \ {NewInode}
    BY <1>1, Zenon DEF Stage
  <2>2. shared' = shared
    BY <2>1, NewUsed, SharedIs
  <2>3. QED
    BY <2>1, <2>2 DEF StepChanges, Changes
<1>2. CASE \/ Stat(p) \/ CallFails(p) \/ Open(p) \/ WriteBlock(p) \/ SetLen(p)
           \/ InPlaceFails(p) \/ Fill(p) \/ CopyFails(p) \/ Crash(p)
  BY <1>2, StepsKeepEntries, SameChanges DEF StepChanges
<1>3. QED
  BY <1>1, <1>2, ResolveChanges, PersistChanges, UnlinkChanges, RenameChanges, StartCopyChanges
     DEF Step

(* What a write knows of its name stays true.                              *)
SameShared == shared' = shared /\ \A n \in Name : SharedName(n)' <=> SharedName(n)

LEMMA CalmProcKeeps ==
  ASSUME TypeInv, SameShared, NEW q \in Proc, CalmProc(q),
         proc'[q].pc \in {"idle", "dead"} \/
         /\ proc'[q].pc = proc[q].pc /\ proc'[q].name = proc[q].name
         /\ proc'[q].op = proc[q].op /\ proc'[q].fd = proc[q].fd
  PROVE  CalmProc(q)'
<1>1. CASE proc'[q].pc \in {"idle", "dead"}
  BY <1>1 DEF CalmProc, InPlace
<1>2. CASE /\ proc'[q].pc = proc[q].pc /\ proc'[q].name = proc[q].name
           /\ proc'[q].op = proc[q].op /\ proc'[q].fd = proc[q].fd
  <2>1. proc[q].pc \notin {"idle", "dead"} => proc[q].name \in Name
    BY DEF TypeInv, Ready
  <2>2. QED
    BY <1>2, <2>1 DEF CalmProc, InPlace, SameShared
<1>3. QED
  BY <1>1, <1>2

LEMMA StatCalm ==
  ASSUME TypeInv, CalmNames, SameShared, NEW p \in Proc, Stat(p) PROVE CalmProc(p)'
<1> DEFINE me == proc[p]
           c == IF IsFile(me.name) /\ Cardinality(NamesOf(entry[me.name].inode)) > 1
                THEN "stage_shared" ELSE "stage"
           r == [me EXCEPT !.pc = c]
<1>1. me.pc = "stat" /\ Become(p, r)
  BY Zenon DEF Stat
<1>2. me \in Process /\ me.name \in Name
  BY <1>1 DEF TypeInv, Ready
<1>3. c \in {"stage", "stage_shared"} /\ (c = "stage_shared" <=> SharedName(me.name))
  <2>1. SharedName(me.name) => IsFile(me.name)
    BY DEF SharedName
  <2>2. QED
    BY <1>2, <2>1, SharedIs
<1> HIDE DEF c
<1>4. r.pc = c /\ r.name = me.name /\ proc'[p] = r
  BY <1>1, <1>2, <1>3 DEF Process, Become, TypeInv
<1> HIDE DEF r
<1>5. QED
  BY <1>2, <1>3, <1>4 DEF CalmProc, InPlace, SameShared

LEMMA StageCalm ==
  ASSUME TypeInv, SameShared, NEW p \in Proc, CalmProc(p), Stage(p) PROVE CalmProc(p)'
<1> DEFINE me == proc[p]
           c == IF me.pc = "stage" THEN "persist" ELSE "open"
           r == [me EXCEPT !.tmp = NewInode, !.pc = c]
<1>1. me.pc \in {"stage", "stage_shared"} /\ Become(p, r)
  BY Zenon DEF Stage
<1>2. me \in Process /\ me.name \in Name
  BY <1>1 DEF TypeInv, Ready
<1>3. \/ me.pc = "stage" /\ c = "persist"
      \/ me.pc = "stage_shared" /\ c = "open"
  <2>1. me.pc \in {"stage", "stage_shared"}
    BY <1>1
  <2>2. QED
    BY <2>1
<1> HIDE DEF c
<1>4. r.pc = c /\ r.name = me.name /\ r.op = me.op /\ proc'[p] = r
  BY <1>1, <1>2, <1>3 DEF Process, Become, TypeInv
<1> HIDE DEF r
<1>5. QED
  BY <1>2, <1>3, <1>4 DEF CalmProc, InPlace, SameShared

LEMMA OpenCalm ==
  ASSUME TypeInv, SameShared, NEW p \in Proc, CalmProc(p), Open(p) PROVE CalmProc(p)'
<1> DEFINE me == proc[p]
           i == Opens(me.name)
           c == IF me.pc = "open" THEN "overwrite" ELSE "restore"
           r == [me EXCEPT !.fd = i, !.at = 1, !.pc = c]
<1>1. /\ me.pc \in {"open", "reopen"}
      /\ Become(p, Idle) \/ Become(p, r)
  BY Zenon DEF Open, Return
<1>2. me \in Process /\ me.name \in Name /\ c \in {"overwrite", "restore"}
  BY <1>1 DEF TypeInv, Ready
<1>3. SharedName(me.name) /\ i \in shared
  <2>1. SharedName(me.name)
    BY <1>1 DEF CalmProc
  <2>2. i = entry[me.name].inode
    BY <1>2, <2>1, OpensIs DEF SharedName, TypeInv
  <2>3. QED
    BY <2>1, <2>2 DEF SharedName
<1> HIDE DEF c, i
<1>4. r.pc = c /\ r.name = me.name /\ r.fd = i
  BY <1>2 DEF Process
<1> HIDE DEF r
<1>5. CASE Become(p, r)
  <2>1. proc'[p] = r
    BY <1>5 DEF Become, TypeInv
  <2>2. QED
    BY <1>2, <1>3, <1>4, <2>1 DEF CalmProc, SameShared
<1>6. CASE Become(p, Idle)
  <2>1. proc'[p] = Idle
    BY <1>6 DEF Become, TypeInv
  <2>2. QED
    BY <2>1, IdleReady, CalmProcKeeps
<1>7. QED
  BY <1>1, <1>5, <1>6

LEMMA InPlaceCalm ==
  ASSUME TypeInv, SameShared, NEW p \in Proc, CalmProc(p), WriteBlock(p) \/ InPlaceFails(p)
  PROVE  CalmProc(p)'
<1> DEFINE me == proc[p]
           s == [me EXCEPT !.at = @ + 1]
           r == [me EXCEPT !.pc = "reopen", !.fd = None]
<1>1. me.pc \in InPlace /\ (Become(p, s) \/ Become(p, r) \/ Become(p, Idle))
  BY Zenon DEF WriteBlock, InPlaceFails, Return, InPlace
<1>2. me \in Process /\ me.name \in Name
  BY <1>1 DEF TypeInv, Ready, InPlace
<1>3. /\ s.pc = me.pc /\ s.name = me.name /\ s.op = me.op /\ s.fd = me.fd
      /\ r.pc = "reopen" /\ r.name = me.name
  BY <1>2 DEF Process
<1> HIDE DEF s, r
<1>4. CASE Become(p, s) \/ Become(p, Idle)
  <2>1. proc'[p] = s \/ proc'[p] = Idle
    BY <1>4 DEF Become, TypeInv
  <2>2. QED
    BY <1>3, <2>1, IdleReady, CalmProcKeeps
<1>5. CASE Become(p, r)
  <2>1. proc'[p] = r
    BY <1>5 DEF Become, TypeInv
  <2>2. SharedName(me.name)
    BY <1>1 DEF CalmProc, InPlace
  <2>3. QED
    BY <1>2, <1>3, <2>1, <2>2 DEF CalmProc, SameShared, InPlace
<1>6. QED
  BY <1>1, <1>4, <1>5

(* A step of another kind leaves p with nothing to know.                   *)
LEMMA ElseCalm ==
  ASSUME TypeInv, NEW p \in Proc,
         \/ Resolve(p) \/ Persist(p) \/ CallFails(p) \/ SetLen(p) \/ Rename(p) \/ StartCopy(p)
         \/ Fill(p) \/ CopyFails(p) \/ UnlinkSource(p) \/ UnlinkFails(p) \/ Crash(p)
  PROVE  CalmProc(p)'
<1> DEFINE me == proc[p]
<1>1. me \in Process
  BY DEF TypeInv
<1>2. \E r \in {Idle, [Idle EXCEPT !.pc = "dead"]} : Become(p, r)
      \/ \E n : Become(p, [me EXCEPT !.pc = "stat", !.name = n])
      \/ \E x : Become(p, [me EXCEPT !.pc = "copy", !.existed = x])
      \/ \E i, j : Become(p, [me EXCEPT !.pc = "fill", !.tmp = i, !.fd = j])
      \/ Become(p, [me EXCEPT !.pc = "unlink"])
  <2>1. CASE Resolve(p)
    <3> DEFINE n == IF IsFile(Target(me.name)) THEN Target(me.name) ELSE me.name
    <3>1. Become(p, [me EXCEPT !.pc = "stat",
                      !.name = IF IsFile(Target(@)) THEN Target(@) ELSE @])
      BY <2>1, Zenon DEF Resolve
    <3>2. Become(p, [me EXCEPT !.pc = "stat", !.name = n])
      BY <1>1, <3>1 DEF Process
    <3>3. QED
      BY <3>2
  <2>2. CASE Rename(p)
    BY <2>2, Zenon DEF Rename, Return
  <2>3. CASE StartCopy(p)
    BY <2>3, Zenon DEF StartCopy, Return
  <2>4. CASE Fill(p)
    BY <2>4, Zenon DEF Fill
  <2>5. CASE \/ Persist(p) \/ CallFails(p) \/ SetLen(p)
             \/ CopyFails(p) \/ UnlinkSource(p) \/ UnlinkFails(p) \/ Crash(p)
    BY <2>5, Zenon DEF Persist, CallFails, SetLen, CopyFails, UnlinkSource, UnlinkFails, Crash, Return
  <2>6. QED
    BY <2>1, <2>2, <2>3, <2>4, <2>5
<1>3. proc'[p].pc \in {"idle", "dead", "stat", "copy", "fill", "unlink"}
  <2>1. ASSUME NEW r, Become(p, r) PROVE proc'[p] = r
    BY <2>1 DEF Become, TypeInv
  <2>2. CASE \E r \in {Idle, [Idle EXCEPT !.pc = "dead"]} : Become(p, r)
    BY <2>1, <2>2, IdleReady
  <2>3. ASSUME NEW n, Become(p, [me EXCEPT !.pc = "stat", !.name = n]) PROVE proc'[p].pc = "stat"
    BY <1>1, <2>3 DEF Become, TypeInv, Process
  <2>4. ASSUME NEW x, Become(p, [me EXCEPT !.pc = "copy", !.existed = x])
        PROVE  proc'[p].pc = "copy"
    BY <1>1, <2>4 DEF Become, TypeInv, Process
  <2>5. ASSUME NEW i, NEW j, Become(p, [me EXCEPT !.pc = "fill", !.tmp = i, !.fd = j])
        PROVE  proc'[p].pc = "fill"
    BY <1>1, <2>5 DEF Become, TypeInv, Process
  <2>6. ASSUME Become(p, [me EXCEPT !.pc = "unlink"]) PROVE proc'[p].pc = "unlink"
    BY <1>1, <2>6 DEF Become, TypeInv, Process
  <2>7. QED
    BY <1>2, <2>2, <2>3, <2>4, <2>5, <2>6, Zenon
<1>4. QED
  BY <1>3 DEF CalmProc, InPlace

LEMMA StepCalm ==
  ASSUME TypeInv, CalmNames, SameShared, \A q \in Proc : CalmProc(q), NEW p \in Proc, Step(p)
  PROVE  \A q \in Proc : CalmProc(q)'
<1>1. ASSUME NEW q \in Proc \ {p} PROVE CalmProc(q)'
  BY StepIs, CalmProcKeeps
<1>2. CalmProc(p)'
  BY StatCalm, StageCalm, OpenCalm, InPlaceCalm, ElseCalm DEF Step
<1>3. QED
  BY <1>1, <1>2

(* The bytes under a name: what is new there is a payload, or marked.      *)
LEMMA BytesKeep ==
  ASSUME CalmBytes, shared' = shared,
         \A n \in Name : IsFile(n)' =>
           LET i == entry'[n].inode
           IN  \/ i \in shared \cup copied'
               \/ bytes'[i] \in Payload
               \/ /\ bytes'[i] = bytes[i] /\ (i \in copied => i \in copied')
                  /\ \E m \in Name : IsFile(m) /\ entry[m].inode = i
  PROVE  CalmBytes'
BY DEF CalmBytes

LEMMA QuietBytes ==
  ASSUME TypeInv, CalmNames, SameShared, CalmBytes, NEW p \in Proc,
         \/ Resolve(p) \/ Stat(p) \/ CallFails(p) \/ Open(p) \/ InPlaceFails(p) \/ Rename(p)
         \/ CopyFails(p) \/ UnlinkSource(p) \/ UnlinkFails(p) \/ Crash(p)
  PROVE  CalmBytes'
<1> DEFINE op == proc[p].op
<1>1. /\ UNCHANGED <<bytes, copied>>
      /\ \/ SameEntries
         \/ \E k : entry' = [entry EXCEPT ![k] = Missing]
         \/ /\ proc[p].pc = "rename"
            /\ entry' = [entry EXCEPT ![op.to] = entry[op.name], ![op.name] = Missing]
  <2>1. CASE Resolve(p) \/ Rename(p) \/ UnlinkSource(p) \/ UnlinkFails(p)
    BY <2>1, Zenon DEF Resolve, Rename, UnlinkSource, UnlinkFails, Entries
  <2>2. CASE Stat(p) \/ CallFails(p) \/ Open(p) \/ InPlaceFails(p) \/ CopyFails(p) \/ Crash(p)
    BY <2>2, Zenon DEF Stat, CallFails, Open, InPlaceFails, CopyFails, Crash, SameFiles
  <2>3. QED
    BY <2>1, <2>2
<1>2. \A n \in Name : entry'[n] = Missing \/ \E m \in Name : entry'[n] = entry[m]
  <2>1. CASE SameEntries
    BY <2>1 DEF SameEntries
  <2>2. ASSUME NEW k, entry' = [entry EXCEPT ![k] = Missing]
        PROVE  \A n \in Name : entry'[n] = Missing \/ entry'[n] = entry[n]
    BY <2>2 DEF TypeInv
  <2>3. CASE /\ proc[p].pc = "rename"
             /\ entry' = [entry EXCEPT ![op.to] = entry[op.name], ![op.name] = Missing]
    <3>1. op.name \in Name
      BY <2>3, MovedIs DEF Moving
    <3>2. QED
      BY <2>3, <3>1 DEF TypeInv
  <2>4. QED
    BY <1>1, <2>1, <2>2, <2>3
<1>3. ASSUME NEW n \in Name, IsFile(n)'
      PROVE  \E m \in Name : IsFile(m) /\ entry[m].inode = entry'[n].inode
  BY <1>2, <1>3, MissingIs DEF IsFile
<1>4. QED
  BY <1>1, <1>3, BytesKeep DEF SameShared

LEMMA NewBytes ==
  ASSUME TypeInv, SecretInv, CalmNames, SameShared, CalmBytes, NEW p \in Proc,
         Stage(p) \/ Persist(p)
  PROVE  CalmBytes'
<1> DEFINE me == proc[p]
<1>1. CASE Stage(p)
  <2>1. /\ HasSpace /\ bytes' = [bytes EXCEPT ![NewInode] = me.op.payload]
        /\ copied' = copied \ {NewInode} /\ entry' = entry
    BY <1>1, Zenon DEF Stage
  <2>2. \A n \in Name : entry[n].inode # NewInode
    BY <2>1, NewUsed
  <2>3. \A n \in Name : IsFile(n) => entry[n].inode \in Inode
    BY EntryIs DEF TypeInv, IsFile
  <2>4. ASSUME NEW n \in Name, IsFile(n)'
        PROVE  /\ bytes'[entry'[n].inode] = bytes[entry'[n].inode]
               /\ entry'[n].inode \in copied => entry'[n].inode \in copied'
               /\ IsFile(n) /\ entry[n].inode = entry'[n].inode
    BY <2>1, <2>2, <2>3, <2>4 DEF TypeInv, IsFile
  <2>5. QED
    BY <2>4, BytesKeep DEF SameShared
<1>2. CASE Persist(p)
  <2>1. /\ me.pc = "persist" /\ UNCHANGED <<bytes, copied>>
        /\ SameEntries \/ entry' = [entry EXCEPT ![me.name] = File(me.tmp)]
    BY <1>2, Zenon DEF Persist, Entries
  <2>2. bytes[me.tmp] \in Payload
    BY <2>1, OpIs DEF SecretInv, Secret, Staged, TypeInv, Ready, Writing
  <2>3. \A n \in Name : entry'[n] = entry[n] \/ entry'[n] = File(me.tmp)
    BY <2>1 DEF TypeInv, SameEntries
  <2>4. ASSUME NEW n \in Name, IsFile(n)'
        PROVE  \/ bytes'[entry'[n].inode] \in Payload
               \/ IsFile(n) /\ entry[n].inode = entry'[n].inode
    BY <2>1, <2>2, <2>3, <2>4, FileIs DEF IsFile
  <2>5. QED
    BY <2>1, <2>4, BytesKeep DEF SameShared
<1>3. QED
  BY <1>1, <1>2

LEMMA MarkedBytes ==
  ASSUME TypeInv, SecretInv, CalmNames, SameShared, CalmBytes, NEW p \in Proc, CalmProc(p),
         WriteBlock(p) \/ SetLen(p) \/ Fill(p) \/ StartCopy(p)
  PROVE  CalmBytes'
<1> DEFINE me == proc[p]
<1>1. CASE WriteBlock(p) \/ SetLen(p) \/ Fill(p)
  <2>1. /\ me.pc \in InPlace \/ me.pc = "fill"
        /\ \E v : bytes' = [bytes EXCEPT ![me.fd] = v]
        /\ entry' = entry /\ copied' = copied
    BY <1>1, Zenon DEF WriteBlock, SetLen, Fill, InPlace, SameFiles, SameEntries
  <2>2. me.fd \in shared \cup copied
    BY <2>1 DEF CalmProc, SecretInv, Marked
  <2>3. \A i : i # me.fd => bytes'[i] = bytes[i]
    BY <2>1
  <2>4. ASSUME NEW n \in Name, IsFile(n)'
        PROVE  \/ entry'[n].inode \in shared \cup copied'
               \/ /\ bytes'[entry'[n].inode] = bytes[entry'[n].inode]
                  /\ IsFile(n) /\ entry[n].inode = entry'[n].inode
    BY <2>1, <2>2, <2>3, <2>4 DEF IsFile
  <2>5. QED
    BY <2>1, <2>4, BytesKeep DEF SameShared
<1>2. CASE StartCopy(p)
  <2> DEFINE to == Target(me.op.to)
             i == IF IsFile(to) THEN entry[to].inode ELSE NewInode
  <2>1. \/ SameEntries /\ UNCHANGED <<bytes, copied>>
        \/ /\ bytes' = [bytes EXCEPT ![i] = << >>]
           /\ entry' = [entry EXCEPT ![to] = File(i)]
           /\ copied' = copied \cup {i}
    BY <1>2, Zenon DEF StartCopy
  <2> HIDE DEF i, to
  <2>2. CASE SameEntries /\ UNCHANGED <<bytes, copied>>
    BY <2>2, BytesKeep DEF SameShared, SameEntries, IsFile
  <2>3. CASE /\ bytes' = [bytes EXCEPT ![i] = << >>]
             /\ entry' = [entry EXCEPT ![to] = File(i)]
             /\ copied' = copied \cup {i}
    <3>1. \A n \in Name : entry'[n] = entry[n] \/ entry'[n] = File(i)
      BY <2>3 DEF TypeInv
    <3>2. \A j : j # i => bytes'[j] = bytes[j]
      BY <2>3
    <3>3. ASSUME NEW n \in Name, IsFile(n)'
          PROVE  \/ entry'[n].inode \in shared \cup copied'
                 \/ /\ bytes'[entry'[n].inode] = bytes[entry'[n].inode]
                    /\ IsFile(n) /\ entry[n].inode = entry'[n].inode
      BY <2>3, <3>1, <3>2, <3>3, FileIs DEF IsFile
    <3>4. QED
      BY <2>3, <3>3, BytesKeep DEF SameShared
  <2>4. QED
    BY <2>1, <2>2, <2>3
<1>3. QED
  BY <1>1, <1>2

LEMMA CalmStep ==
  TypeInv /\ TypeInv' /\ SecretInv /\ CalmInv /\ [Next]_vars => CalmInv'
<1> SUFFICES ASSUME TypeInv, TypeInv', SecretInv, CalmInv, [Next]_vars, others' = 0, Settled
             PROVE  CalmNames' /\ (\A q \in Proc : CalmProc(q)') /\ CalmBytes'
  BY DEF CalmInv, Settled
<1>1. others = 0 /\ ~(OtherLinks \/ OtherUnlinks)
  <2>1. others' = others \/ others' = others + 1
    <3>1. ASSUME NEW p \in Proc, NEW op \in Ops, Begin(p, op) PROVE others' = others
      BY <3>1, BeginIs DEF SameFiles
    <3>2. ASSUME NEW p \in Proc, Step(p) PROVE others' = others
      BY <3>2, StepIs
    <3>3. QED
      BY <3>1, <3>2, NextSteps DEF vars, OtherLinks, OtherUnlinks
  <2>2. OtherLinks \/ OtherUnlinks => others' = others + 1
    BY DEF OtherLinks, OtherUnlinks
  <2>3. others \in Nat
    BY DEF TypeInv
  <2>4. QED
    BY <2>1, <2>2, <2>3
<1>2. CalmNames /\ (\A q \in Proc : CalmProc(q)) /\ CalmBytes
  BY <1>1 DEF CalmInv
<1>3. ASSUME Changes, shared' = shared \/ \E new : Entries(entry', new)
      PROVE  CalmNames' /\ SameShared
  BY <1>2, <1>3, ChangesKeep DEF SameShared
<1>4. CASE UNCHANGED vars
  BY <1>2, <1>4 DEF vars, CalmNames, CalmProc, CalmBytes, SharedName, IsFile
<1>5. ASSUME NEW p \in Proc, NEW op \in Ops, Begin(p, op)
      PROVE  CalmNames' /\ (\A q \in Proc : CalmProc(q)') /\ CalmBytes'
  <2>1. SameEntries /\ UNCHANGED <<bytes, copied>>
    BY <1>5, BeginIs DEF SameFiles
  <2>2. CalmNames' /\ SameShared
    BY <1>3, <2>1, SameChanges
  <2>3. CalmProc(p)'
    BY <1>5, BeginIs DEF CalmProc, InPlace
  <2>4. ASSUME NEW q \in Proc \ {p} PROVE CalmProc(q)'
    BY <1>2, <1>5, <2>2, BeginIs, CalmProcKeeps
  <2>5. CalmBytes'
    BY <1>2, <2>1 DEF CalmBytes, SameEntries, IsFile
  <2>6. QED
    BY <2>2, <2>3, <2>4, <2>5
<1>6. ASSUME NEW p \in Proc, Step(p)
      PROVE  CalmNames' /\ (\A q \in Proc : CalmProc(q)') /\ CalmBytes'
  <2>1. StepChanges(p)
    BY <1>2, <1>6, StepsChange
  <2>2. CalmNames' /\ SameShared
    BY <1>3, <2>1 DEF StepChanges
  <2>3. \A q \in Proc : CalmProc(q)'
    BY <1>2, <1>6, <2>2, StepCalm
  <2>4. CalmBytes'
    BY <1>2, <1>6, <2>2, QuietBytes, NewBytes, MarkedBytes DEF Step
  <2>5. QED
    BY <2>2, <2>3, <2>4
<1>7. QED
  BY <1>1, <1>4, <1>5, <1>6, NextSteps

-----------------------------------------------------------------------------
FileInv ==
  /\ TypeInv /\ ExclusiveInv /\ SecretInv /\ AloneInv /\ OverwriteInv
  /\ OneDevice /\ MoveInv /\ CalmInv

LEMMA TypeInit == Init => TypeInv
<1> SUFFICES ASSUME Init PROVE TypeInv
  OBVIOUS
<1>1. entry \in [Name -> Entry] /\ shared \subseteq Inode
  BY EntriesAssumption DEF Init
<1>2. bytes \in [Inode -> Seq(Block)]
  <2>1. InitialBytes \in Seq(Block)
    BY FileAssumption, PayloadIs
  <2>2. QED
    BY <2>1 DEF Init
<1>3. proc \in [Proc -> Process] /\ \A p \in Proc : Ready(proc[p])
  BY IdleReady DEF Init, Ready
<1>4. 0 \in 0..MaxOps /\ 0 \in 0..MaxFaults /\ 0 \in 0..MaxOthers
  BY FileAssumption
<1>5. QED
  BY <1>1, <1>2, <1>3, <1>4 DEF TypeInv, Init

LEMMA CalmInit == Init => CalmInv
<1> SUFFICES ASSUME Init, Settled PROVE CalmNames /\ (\A p \in Proc : CalmProc(p)) /\ CalmBytes
  BY DEF CalmInv
<1>1. entry \in InitialEntries /\ entry \in [Name -> Entry]
  BY EntriesAssumption DEF Init
<1>2. \A i \in Inode : i \in shared <=> \E n, m \in NamesOf(i) : n # m
  <2>1. \A i \in Inode : i \in shared <=> Cardinality(NamesOf(i)) > 1
    BY DEF Init
  <2>2. \A i \in Inode : NamesOf(i) \in SUBSET Name
    BY DEF NamesOf
  <2>3. QED
    BY <2>1, <2>2, Several
<1>3. \A n \in Name : IsFile(n) => entry[n].inode \in Inode /\ entry[n] = File(entry[n].inode)
  BY <1>1, EntryIs DEF IsFile
<1>4. \A n, m \in Name : n # m /\ IsFile(n) /\ entry[n] = entry[m] => SharedName(n)
  BY <1>2, <1>3 DEF SharedName, NamesOf
<1>5. \A n \in Moved : entry[n].kind # "link" /\ ~SharedName(n)
  <2> SUFFICES ASSUME NEW n \in Moved PROVE entry[n].kind # "link" /\ ~SharedName(n)
    OBVIOUS
  <2>1. n \in Name
    BY OpIs DEF Moved
  <2>2. /\ entry[n].kind # "link"
        /\ entry[n].kind = "file" => \A m \in Name \ {n} : entry[m] # entry[n]
    BY <1>1 DEF Settled
  <2>3. ASSUME SharedName(n) PROVE FALSE
    <3>1. IsFile(n) /\ entry[n].inode \in shared
      BY <2>3 DEF SharedName
    <3>2. PICK k, m \in NamesOf(entry[n].inode) : k # m
      BY <1>2, <1>3, <2>1, <3>1
    <3>3. QED
      BY <1>3, <2>1, <2>2, <3>1, <3>2 DEF NamesOf, IsFile
  <2>4. QED
    BY <2>2, <2>3
<1>6. \A i \in shared :
        /\ \E n, m \in Name : n # m /\ entry[n] = File(i) /\ entry[m] = File(i)
        /\ \A n \in Name : entry[n] = File(i) => entry[n] = File(i)
  <2>1. shared \subseteq Inode
    BY DEF Init
  <2>2. QED
    BY <1>2, <2>1 DEF NamesOf
<1>7. \A p \in Proc : CalmProc(p)
  BY IdleReady DEF CalmProc, InPlace, Init
<1>8. CalmBytes
  BY <1>3, FileAssumption DEF CalmBytes, Init
<1>9. QED
  BY <1>1, <1>4, <1>5, <1>6, <1>7, <1>8 DEF CalmNames

LEMMA FileInit == Init => FileInv
<1> SUFFICES ASSUME Init PROVE FileInv
  OBVIOUS
<1>1. \A p \in Proc : proc[p].pc = "idle"
  BY IdleReady DEF Init
<1>2. SecretInv /\ AloneInv /\ OverwriteInv /\ MoveInv
  BY <1>1 DEF SecretInv, Secret, Marked, Staged, AloneInv, Free, OverwriteInv, Overwrites, InPlace,
              MoveInv, Moves, Copying
<1>3. OneDevice
  BY EntriesAssumption DEF OneDevice, IsFile, Init
<1>4. QED
  BY <1>2, <1>3, TypeInit, ExclusiveInit, CalmInit DEF FileInv

LEMMA FileStep == FileInv /\ [Next]_vars => FileInv'
BY TypeStep, ExclusiveStep, SecretStep, AloneStep, OverwriteStep, DeviceStep, MoveStep, CalmStep
   DEF FileInv

(***************************************************************************)
(* Every process is at a step of an operation there is, on files there are.*)
(***************************************************************************)
THEOREM FilesTypeCorrect == Spec => []FilesTypeOK
<1>1. FileInv => FilesTypeOK
  BY DEF FileInv, TypeInv, ExclusiveInv, FilesTypeOK
<1>2. QED
  BY <1>1, FileInit, FileStep, PTL DEF Spec

(***************************************************************************)
(* atomic_write: whoever reads at whatever moment, and whoever died in     *)
(* whatever call, a file with one name that no copy across devices wrote   *)
(* holds a payload, whole.                                                 *)
(***************************************************************************)
THEOREM WritesAreAtomic == Spec => []OnlySharedTears
<1>1. FileInv => OnlySharedTears
  BY DEF FileInv, CalmInv, CalmBytes, OnlySharedTears
<1>2. QED
  BY <1>1, FileInit, FileStep, PTL DEF Spec

(***************************************************************************)
(* write_preserving_hardlinks: a file that has several names keeps them,   *)
(* whoever writes through which of them, fails and dies.                   *)
(***************************************************************************)
THEOREM WritesKeepLinks == Spec => []LinksStayTogether
<1>1. FileInv => LinksStayTogether
  <2> SUFFICES ASSUME FileInv, others = 0, Settled
               PROVE  \E e \in InitialEntries : \A i \in shared :
                        /\ Cardinality({n \in Name : e[n] = File(i)}) > 1
                        /\ \A n \in Name : e[n] = File(i) => entry[n] = File(i)
    BY DEF LinksStayTogether
  <2>1. PICK e \in InitialEntries : \A i \in shared :
          /\ \E n, m \in Name : n # m /\ e[n] = File(i) /\ e[m] = File(i)
          /\ \A n \in Name : e[n] = File(i) => entry[n] = File(i)
    BY DEF FileInv, CalmInv, CalmNames
  <2>2. ASSUME NEW i \in shared PROVE Cardinality({n \in Name : e[n] = File(i)}) > 1
    <3>1. \E n, m \in {n \in Name : e[n] = File(i)} : n # m
      BY <2>1
    <3>2. QED
      BY <3>1, Several
  <2>3. QED
    BY <2>1, <2>2
<1>2. QED
  BY <1>1, FileInit, FileStep, PTL DEF Spec

(***************************************************************************)
(* restore_shared_inode: an in-place write that is answered and met no     *)
(* other leaves its payload, in the file or beside it.                     *)
(***************************************************************************)
THEOREM PayloadsSurvive == Spec => PayloadSurvives
<1>1. FileInv /\ [Next]_vars =>
        [\A p \in Proc :
           LET me == proc[p]
           IN  me.pc \in {"overwrite", "restore", "reopen"} /\ me.alone /\ proc'[p].pc = "idle"
                 => \/ me.fd # None /\ bytes'[me.fd] = me.op.payload
                    \/ me.tmp \in kept' /\ bytes'[me.tmp] = me.op.payload]_vars
  BY SurvivesStep DEF FileInv
<1>2. QED
  BY <1>1, FileInit, FileStep, PTL DEF Spec, PayloadSurvives

(***************************************************************************)
(* rename_or_copy: what a move alone takes a name from has another, with   *)
(* the same bytes, at every step it makes.                                 *)
(***************************************************************************)
THEOREM MovesKeepBytes == Spec => MoveKeepsBytes
<1>1. FileInv /\ [Next]_vars =>
        [\A p \in Proc : \A n \in Name :
           /\ proc[p].pc \in {"rename", "copy", "fill", "unlink"} /\ proc[p].alone
           /\ others' = 0
           /\ IsFile(n) /\ entry'[n] = Missing
           => \E m \in Name : /\ entry'[m].kind = "file"
                               /\ bytes'[entry'[m].inode] = bytes[entry[n].inode]]_vars
  BY KeepsStep DEF FileInv, Moving
<1>2. QED
  BY <1>1, FileInit, FileStep, PTL DEF Spec, MoveKeepsBytes
=============================================================================
