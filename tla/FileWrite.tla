----------------------------- MODULE FileWrite -----------------------------
(***************************************************************************)
(* How patchloom puts bytes on disk: atomic_write, atomic_create_new and   *)
(* rename_or_copy, system call by system call, over names, inodes and      *)
(* symbolic links.  Several processes write at once and may die between    *)
(* two calls; others link and unlink names meanwhile.                      *)
(*                                                                         *)
(* A payload is a sequence of blocks.  A file is whole when it holds a     *)
(* payload somebody wrote, and torn otherwise.                             *)
(***************************************************************************)
EXTENDS Naturals, Sequences, FiniteSets

CONSTANTS
  Proc,
  Name,
  Inode,
  Device,           \* name -> the file system it is on
  Payload,          \* sequences of blocks, of different lengths
  None,
  Ops,              \* write, create: name and payload; move: two names
  InitialEntries,   \* name -> a file, a symbolic link, nothing
  InitialBytes,     \* what the files hold at the start
  MaxOps,           \* bound on the operations of a behaviour
  MaxFaults,        \* bound on failing calls and crashes
  MaxOthers         \* bound on what other programs do to the names

(* A payload is a sequence; a write or a creation has one, a move has a    *)
(* destination.                                                            *)
ASSUME FileAssumption ==
  /\ None \notin Inode /\ InitialBytes \in Payload
  /\ IsFiniteSet(Name)
  /\ {MaxOps, MaxFaults, MaxOthers} \subseteq Nat
  /\ \A w \in Payload : w \in Seq({w[j] : j \in DOMAIN w})
  /\ \A op \in Ops :
       /\ op.name \in Name
       /\ \/ op.kind \in {"write", "create"} /\ op.payload \in Payload
          \/ op.kind = "move" /\ op.to \in Name

VARIABLES
  entry,    \* name -> Entry
  bytes,    \* inode -> blocks
  proc,     \* what each process is doing
  kept,     \* inodes of staged payloads that were kept for the user
  shared,   \* inodes that have had several names
  copied,   \* inodes that a copy across devices has written
  created,  \* how often a name was created since it was last free
  ops, faults, others

vars == <<entry, bytes, proc, kept, shared, copied, created, ops, faults, others>>

-----------------------------------------------------------------------------
File(i) == [kind |-> "file", inode |-> i, to |-> None]
Link(n) == [kind |-> "link", inode |-> None, to |-> n]
Missing == [kind |-> "missing", inode |-> None, to |-> None]

Entry == {File(i) : i \in Inode} \cup {Link(n) : n \in Name} \cup {Missing}

(* No file has names on two file systems.                                  *)
ASSUME EntriesAssumption ==
  /\ InitialEntries \subseteq [Name -> Entry]
  /\ \A e \in InitialEntries : \A n, m \in Name :
       e[n].kind = "file" /\ e[n] = e[m] => Device[n] = Device[m]

NamesOf(i) == {n \in Name : entry[n] = File(i)}
IsFile(n) == entry[n].kind = "file"

(* What open(2) of a name reaches: the file, through a link.               *)
Target(n) == IF entry[n].kind = "link" THEN entry[n].to ELSE n
Opens(n) == IF IsFile(Target(n)) THEN entry[Target(n)].inode ELSE None

Idle == [pc |-> "idle", op |-> None, name |-> None, tmp |-> None, fd |-> None,
         at |-> 1, existed |-> FALSE, alone |-> TRUE]

Free(p) == proc[p].pc \in {"idle", "dead"}

Used == {entry[n].inode : n \in Name} \cup kept
          \cup UNION {{proc[p].tmp, proc[p].fd} : p \in Proc}

(* A bound: the disks are never full.                                      *)
HasSpace == Inode \ Used # {}

NewInode == CHOOSE i \in Inode \ Used : TRUE

Become(p, r) == proc' = [proc EXCEPT ![p] = r]

(* Names are given or taken.  new: those that were created.                *)
Entries(e, new) ==
  /\ entry' = e
  /\ shared' = shared \cup
       {i \in Inode : Cardinality({n \in Name : e[n] = File(i)}) > 1}
  /\ created' = [n \in Name |-> IF e[n] = Missing THEN 0
                                ELSE created[n] + (IF n \in new THEN 1 ELSE 0)]

SameEntries == UNCHANGED <<entry, shared, created>>
SameFiles == SameEntries /\ UNCHANGED others

(* The call returns: the temporary file, if any, is dropped.               *)
Return(p) == Become(p, Idle)

-----------------------------------------------------------------------------
Begin(p, op) ==
  /\ Free(p)
  /\ ops < MaxOps /\ ops' = ops + 1
  /\ LET busy == {q \in Proc \ {p} : ~Free(q)}
     IN  proc' = [q \in Proc |->
           IF q = p
           THEN [Idle EXCEPT !.op = op, !.name = op.name, !.alone = (busy = {}),
                   !.pc = CASE op.kind = "write" -> "resolve"
                            [] op.kind = "create" -> "stage"
                            [] op.kind = "move" -> "rename"]
           ELSE [proc[q] EXCEPT !.alone = q \notin busy]]
  /\ SameFiles /\ UNCHANGED <<bytes, kept, copied, faults>>

(* atomic_write: a live link is written through, a dangling one unlinked.  *)
Resolve(p) ==
  LET me == proc[p]
  IN  /\ me.pc = "resolve"
      /\ IF entry[me.name].kind = "link" /\ ~IsFile(Target(me.name))
         THEN Entries([entry EXCEPT ![me.name] = Missing], {})
         ELSE SameEntries
      /\ Become(p, [me EXCEPT !.pc = "stat",
                              !.name = IF IsFile(Target(@)) THEN Target(@) ELSE @])
      /\ UNCHANGED <<bytes, kept, copied, ops, faults, others>>

(* A mistake for TLC to find: any file there is, is rewritten in place.    *)
StatInPlace(p) ==
  LET me == proc[p]
  IN  /\ me.pc = "stat"
      /\ Become(p, [me EXCEPT !.pc = IF IsFile(me.name) THEN "stage_shared" ELSE "stage"])
      /\ SameFiles /\ UNCHANGED <<bytes, kept, copied, ops, faults>>

(* A mistake for TLC to find: links are not counted.                       *)
StatByName(p) ==
  LET me == proc[p]
  IN  /\ me.pc = "stat"
      /\ Become(p, [me EXCEPT !.pc = "stage"])
      /\ SameFiles /\ UNCHANGED <<bytes, kept, copied, ops, faults>>

(* metadata and hard_link_count: where the payload will go.                *)
Stat(p) ==
  LET me == proc[p]
  IN  /\ me.pc = "stat"
      /\ Become(p, [me EXCEPT !.pc = IF IsFile(me.name)
                                        /\ Cardinality(NamesOf(entry[me.name].inode)) > 1
                                     THEN "stage_shared" ELSE "stage"])
      /\ SameFiles /\ UNCHANGED <<bytes, kept, copied, ops, faults>>

(* The whole payload, in a temporary file beside the name.                 *)
Stage(p) ==
  LET me == proc[p]
      i == NewInode
  IN  /\ me.pc \in {"stage", "stage_shared"} /\ HasSpace
      /\ bytes' = [bytes EXCEPT ![i] = me.op.payload]
      /\ Become(p, [me EXCEPT !.tmp = i,
                              !.pc = IF me.pc = "stage" THEN "persist" ELSE "open"])
      /\ shared' = shared \ {i} /\ copied' = copied \ {i}
      /\ UNCHANGED <<entry, created, others, kept, ops, faults>>

(* A mistake for TLC to find: a new file is renamed over what is there.    *)
PersistOver(p) ==
  LET me == proc[p]
  IN  /\ me.pc = "persist"
      /\ Entries([entry EXCEPT ![me.name] = File(me.tmp)],
                 IF me.op.kind = "create" THEN {me.name} ELSE {})
      /\ Return(p)
      /\ UNCHANGED <<bytes, kept, copied, ops, faults, others>>

(* rename(2) over the name, or persist_noclobber for atomic_create_new.    *)
Persist(p) ==
  LET me == proc[p]
  IN  /\ me.pc = "persist"
      /\ IF me.op.kind = "create" /\ entry[me.name] # Missing
         THEN SameEntries
         ELSE Entries([entry EXCEPT ![me.name] = File(me.tmp)],
                      IF me.op.kind = "create" THEN {me.name} ELSE {})
      /\ Return(p)
      /\ UNCHANGED <<bytes, kept, copied, ops, faults, others>>

(* Any of these calls may fail: nothing of the name has changed by then.   *)
CallFails(p) ==
  /\ proc[p].pc \in {"stage", "stage_shared", "persist", "open"}
  /\ faults < MaxFaults /\ faults' = faults + 1
  /\ Return(p)
  /\ SameFiles /\ UNCHANGED <<bytes, kept, copied, ops>>

-----------------------------------------------------------------------------
(* write_preserving_hardlinks: open the name, write the blocks over those  *)
(* of the inode, cut it to length.  "restore" is restore_shared_inode: the *)
(* same once more, after a failure, and the call fails all the same.       *)
Open(p) ==
  LET me == proc[p]
  IN  /\ me.pc \in {"open", "reopen"}
      /\ IF Opens(me.name) = None
         THEN /\ kept' = IF me.pc = "reopen" THEN kept \cup {me.tmp} ELSE kept
              /\ Return(p)
         ELSE /\ Become(p, [me EXCEPT !.fd = Opens(me.name), !.at = 1,
                              !.pc = IF me.pc = "open" THEN "overwrite" ELSE "restore"])
              /\ UNCHANGED kept
      /\ SameFiles /\ UNCHANGED <<bytes, copied, ops, faults>>

(* A block past the end leaves a hole before it.                           *)
Overwritten(old, k, b) ==
  [j \in 1..(IF k > Len(old) THEN k ELSE Len(old)) |->
     IF j = k THEN b ELSE IF j > Len(old) THEN None ELSE old[j]]

WriteBlock(p) ==
  LET me == proc[p]
  IN  /\ me.pc \in {"overwrite", "restore"}
      /\ me.at <= Len(me.op.payload)
      /\ bytes' = [bytes EXCEPT ![me.fd] = Overwritten(@, me.at, me.op.payload[me.at])]
      /\ Become(p, [me EXCEPT !.at = @ + 1])
      /\ SameFiles /\ UNCHANGED <<kept, copied, ops, faults>>

SetLen(p) ==
  LET me == proc[p]
      n == Len(me.op.payload)
  IN  /\ me.pc \in {"overwrite", "restore"}
      /\ me.at = n + 1
      /\ bytes' = [bytes EXCEPT ![me.fd] = IF Len(@) > n THEN SubSeq(@, 1, n) ELSE @]
      /\ Return(p)
      /\ SameFiles /\ UNCHANGED <<kept, copied, ops, faults>>

(* A mistake for TLC to find: the staged payload is dropped with the call. *)
InPlaceFailsForGood(p) ==
  LET me == proc[p]
  IN  /\ me.pc \in {"overwrite", "restore"}
      /\ faults < MaxFaults /\ faults' = faults + 1
      /\ Return(p)
      /\ SameFiles /\ UNCHANGED <<bytes, kept, copied, ops>>

(* A mistake for TLC to find: the staged payload goes before the repair.   *)
InPlaceFailsUnstaged(p) ==
  LET me == proc[p]
  IN  /\ me.pc \in {"overwrite", "restore"}
      /\ faults < MaxFaults /\ faults' = faults + 1
      /\ IF me.pc = "overwrite"
         THEN Become(p, [me EXCEPT !.pc = "reopen", !.fd = None, !.tmp = None]) /\ UNCHANGED kept
         ELSE kept' = kept \cup {me.tmp} /\ Return(p)
      /\ SameFiles /\ UNCHANGED <<bytes, copied, ops>>

InPlaceFails(p) ==
  LET me == proc[p]
  IN  /\ me.pc \in {"overwrite", "restore"}
      /\ faults < MaxFaults /\ faults' = faults + 1
      /\ IF me.pc = "overwrite"
         THEN Become(p, [me EXCEPT !.pc = "reopen", !.fd = None]) /\ UNCHANGED kept
         ELSE kept' = kept \cup {me.tmp} /\ Return(p)
      /\ SameFiles /\ UNCHANGED <<bytes, copied, ops>>

-----------------------------------------------------------------------------
(* rename_or_copy: a rename, or across devices a copy and an unlink.       *)
Refused(op) == entry[op.to].kind = "link" \/ entry[op.name] = Missing
Across(op) == Device[op.name] # Device[op.to]

Rename(p) ==
  LET me == proc[p]
      op == me.op
      copies == Across(op) /\ ~Refused(op)
  IN  /\ me.pc = "rename"
      /\ IF Refused(op) \/ copies \/ entry[op.to] = entry[op.name] THEN SameEntries
         ELSE Entries([entry EXCEPT ![op.to] = entry[op.name], ![op.name] = Missing], {})
      /\ IF copies /\ IsFile(op.name)
         THEN Become(p, [me EXCEPT !.pc = "copy", !.existed = entry[op.to] # Missing])
         ELSE Return(p)
      /\ UNCHANGED <<bytes, kept, copied, ops, faults, others>>

(* std::fs::copy: the source is open before the destination is created or  *)
(* truncated, and then read.  tmp is the source's inode.                   *)
StartCopy(p) ==
  LET me == proc[p]
      from == Opens(me.op.name)
      to == Target(me.op.to)
      i == IF IsFile(to) THEN entry[to].inode ELSE NewInode
  IN  /\ me.pc = "copy"
      /\ IF from = None THEN Return(p) /\ SameEntries /\ UNCHANGED <<bytes, copied>>
         ELSE /\ IsFile(to) \/ HasSpace
              /\ bytes' = [bytes EXCEPT ![i] = << >>]
              /\ entry' = [entry EXCEPT ![to] = File(i)]
              /\ shared' = IF IsFile(to) THEN shared ELSE shared \ {i}
              /\ copied' = copied \cup {i}
              /\ Become(p, [me EXCEPT !.pc = "fill", !.tmp = from, !.fd = i])
              /\ UNCHANGED created
      /\ UNCHANGED <<kept, ops, faults, others>>

(* A mistake for TLC to find: the source goes before the copy is whole.    *)
FillUnlinksFirst(p) ==
  LET me == proc[p]
  IN  /\ me.pc = "fill"
      /\ Entries([entry EXCEPT ![me.op.name] = Missing], {})
      /\ Become(p, [me EXCEPT !.pc = "unlink"])
      /\ UNCHANGED <<bytes, kept, copied, ops, faults, others>>

Fill(p) ==
  LET me == proc[p]
  IN  /\ me.pc = "fill"
      /\ bytes' = [bytes EXCEPT ![me.fd] = bytes[me.tmp]]
      /\ Become(p, [me EXCEPT !.pc = "unlink"])
      /\ SameFiles /\ UNCHANGED <<kept, copied, ops, faults>>

UnlinkSource(p) ==
  LET me == proc[p]
  IN  /\ me.pc = "unlink"
      /\ entry[me.op.name] # Missing
      /\ Entries([entry EXCEPT ![me.op.name] = Missing], {})
      /\ Return(p)
      /\ UNCHANGED <<bytes, kept, copied, ops, faults, others>>

(* The unlink fails, or somebody else was faster: a copy that is new goes. *)
UnlinkFails(p) ==
  LET me == proc[p]
  IN  /\ me.pc = "unlink"
      /\ \/ entry[me.op.name] = Missing /\ UNCHANGED faults
         \/ entry[me.op.name] # Missing /\ faults < MaxFaults /\ faults' = faults + 1
      /\ IF me.existed THEN SameEntries
         ELSE Entries([entry EXCEPT ![me.op.to] = Missing], {})
      /\ Return(p)
      /\ UNCHANGED <<bytes, kept, copied, ops, others>>

CopyFails(p) ==
  /\ proc[p].pc = "fill"
  /\ faults < MaxFaults /\ faults' = faults + 1
  /\ Return(p)
  /\ SameFiles /\ UNCHANGED <<bytes, kept, copied, ops>>

-----------------------------------------------------------------------------
(* A process dies.  Its temporary file stays where it is, under a name     *)
(* nobody knows.                                                           *)
Crash(p) ==
  /\ ~Free(p)
  /\ faults < MaxFaults /\ faults' = faults + 1
  /\ Become(p, [Idle EXCEPT !.pc = "dead"])
  /\ SameFiles /\ UNCHANGED <<bytes, kept, copied, ops>>

(* Another program links a file under a free name, or unlinks a name.      *)
OtherLinks ==
  /\ others < MaxOthers /\ others' = others + 1
  /\ \E n, m \in Name :
       /\ IsFile(n) /\ entry[m] = Missing /\ Device[n] = Device[m]
       /\ Entries([entry EXCEPT ![m] = entry[n]], {})
  /\ UNCHANGED <<bytes, proc, kept, copied, ops, faults>>

OtherUnlinks ==
  /\ others < MaxOthers /\ others' = others + 1
  /\ \E n \in Name : entry[n] # Missing /\ Entries([entry EXCEPT ![n] = Missing], {})
  /\ UNCHANGED <<bytes, proc, kept, copied, ops, faults>>

Init ==
  /\ entry \in InitialEntries
  /\ bytes = [i \in Inode |-> InitialBytes]
  /\ proc = [p \in Proc |-> Idle]
  /\ kept = {}
  /\ shared = {i \in Inode : Cardinality(NamesOf(i)) > 1}
  /\ copied = {}
  /\ created = [n \in Name |-> 0]
  /\ ops = 0 /\ faults = 0 /\ others = 0

Next ==
  \/ \E p \in Proc :
       \/ \E op \in Ops : Begin(p, op)
       \/ Resolve(p) \/ Stat(p) \/ Stage(p) \/ Persist(p) \/ CallFails(p)
       \/ Open(p) \/ WriteBlock(p) \/ SetLen(p) \/ InPlaceFails(p)
       \/ Rename(p) \/ StartCopy(p) \/ Fill(p) \/ CopyFails(p)
       \/ UnlinkSource(p) \/ UnlinkFails(p)
       \/ Crash(p)
  \/ OtherLinks \/ OtherUnlinks

Spec == Init /\ [][Next]_vars
-----------------------------------------------------------------------------
(* Processes are at steps of the operations there are.                     *)
Process ==
  [pc : {"idle", "dead", "resolve", "stat", "stage", "stage_shared", "persist",
         "open", "overwrite", "reopen", "restore", "rename", "copy", "fill", "unlink"},
   op : Ops \cup {None}, name : Name \cup {None}, tmp : Inode \cup {None},
   fd : Inode \cup {None}, at : Nat \ {0}, existed : BOOLEAN, alone : BOOLEAN]

FilesTypeOK ==
  /\ entry \in [Name -> Entry]
  /\ proc \in [Proc -> Process]
  /\ kept \subseteq Inode /\ shared \subseteq Inode /\ copied \subseteq Inode
  /\ created \in [Name -> Nat]
  /\ ops \in 0..MaxOps /\ faults \in 0..MaxFaults /\ others \in 0..MaxOthers

(* Between the count of a file's links and the open of its name, another   *)
(* program, or a move of that name, can put another file there.  Settled:  *)
(* no operation moves a symbolic link or a name of a file with several.    *)
Moved == UNION {{op.name, op.to} : op \in {o \in Ops : o.kind = "move"}}

Settled ==
  \A e \in InitialEntries : \A n \in Moved :
    /\ e[n].kind # "link"
    /\ e[n].kind = "file" => \A m \in Name \ {n} : e[m] # e[n]

(* No reader and no crash ever sees a part of a file, nor the parts of     *)
(* two: what is torn had several names, or was copied across devices.      *)
OnlySharedTears ==
  others = 0 /\ Settled =>
    \A n \in Name : IsFile(n) /\ bytes[entry[n].inode] \notin Payload =>
                      entry[n].inode \in shared \cup copied

(* However many write, through whichever of its names and past whatever    *)
(* fails: a file that has several names keeps them, as long as nobody      *)
(* else links, unlinks or moves them.                                      *)
LinksStayTogether ==
  others = 0 /\ Settled =>
    \E e \in InitialEntries : \A i \in shared :
      /\ Cardinality({n \in Name : e[n] = File(i)}) > 1
      /\ \A n \in Name : e[n] = File(i) => entry[n] = File(i)

(* What is created was not there: of several that create one name, at most *)
(* one is told that it did.                                                *)
CreateIsExclusive == \A n \in Name : created[n] <= 1

(* An in-place write that is answered and met no other leaves its payload  *)
(* whole, in the file or in the temporary file that it keeps.              *)
PayloadSurvives ==
  [][\A p \in Proc :
       LET me == proc[p]
       IN  me.pc \in {"overwrite", "restore", "reopen"} /\ me.alone /\ proc'[p].pc = "idle"
             => \/ me.fd # None /\ bytes'[me.fd] = me.op.payload
                \/ me.tmp \in kept' /\ bytes'[me.tmp] = me.op.payload]_vars

(* Nothing that a move does or fails to do, and no crash in it, takes the  *)
(* last name of a file's bytes away, when nobody else is at it.            *)
MoveKeepsBytes ==
  [][\A p \in Proc : \A n \in Name :
       /\ proc[p].pc \in {"rename", "copy", "fill", "unlink"} /\ proc[p].alone
       /\ others' = 0
       /\ IsFile(n) /\ entry'[n] = Missing
       => \E m \in Name : /\ entry'[m].kind = "file"
                           /\ bytes'[entry'[m].inode] = bytes[entry[n].inode]]_vars
=============================================================================
