------------------------------- MODULE FileTx -------------------------------
(***************************************************************************)
(* Staging: the operations of a plan, executed in memory against the       *)
(* TxState of execute/mod.rs.  One action per operation; an operation that *)
(* returns an error ends the plan with nothing written (Refuse).           *)
(***************************************************************************)
EXTENDS TextTx

(* file.append (file.prepend adds its text at the other end).              *)
CanAppend(t, p) ==
  /\ p \notin t.deletions
  /\ CanLoad(t, p)
  /\ p \notin t.soft

FileAppend(p) ==
  /\ Uses("append")
  /\ LET t == FlushDocs(tx)
         l == Load(t, p)
     IN  /\ CanAppend(t, p)
         /\ tx' = WriteFile(l, p, Append(l.pending[p].cur, Edit))
  /\ Meant(CanEdit(want, p), DoAppend(want, p, Edit))
  /\ Advance

(* file.create, of the text b.                                             *)
CanFileCreate(t, p, force) == force \/ ~Exists(t, p)

FileCreate(p, b, force) ==
  /\ Uses("create")
  /\ LET t == FlushDocs(tx)
         l == IF force /\ Present(disk, p) THEN LoadForCreate(t, p) ELSE t
     IN  /\ CanFileCreate(t, p, force)
         /\ tx' = WriteFile(l, p, b)
  /\ Meant(CanCreate(want, p, force), DoPut(want, p, b))
  /\ Advance

(* file.delete; with if_exists a missing file is a soft success.  A path   *)
(* that is deleted already may be deleted again.                           *)
CanFileDelete(t, p) == p \in DOMAIN t.pending \/ Present(disk, p)

(* A mistake for TLC to find: the cache is not flushed before the delete.  *)
FileDeleteUnflushed(p, ifExists) ==
  /\ Uses("delete")
  /\ LET l == LoadForPathOp(tx, p)
     IN  IF ifExists /\ ~Exists(tx, p)
         THEN tx' = tx
         ELSE /\ CanFileDelete(tx, p)
              /\ tx' = [StageDelete(l, p) EXCEPT
                          !.renames = DropRenameChainEndingAt(@, p)]
  /\ Meant(ifExists \/ CanDelete(want, p), DoDelete(want, p))
  /\ Advance

FileDelete(p, ifExists) ==
  /\ Uses("delete")
  /\ LET t == FlushDocs(tx)
         l == LoadForPathOp(t, p)
     IN  IF ifExists /\ ~Exists(t, p)
         THEN tx' = t
         ELSE /\ CanFileDelete(t, p)
              /\ tx' = [StageDelete(l, p) EXCEPT
                          !.renames = DropRenameChainEndingAt(@, p)]
  /\ Meant(ifExists \/ CanDelete(want, p), DoDelete(want, p))
  /\ Advance

(* file.rename of a file (a directory is renamed as a path, see README).   *)
CanFileRename(t, p, q, force) ==
  /\ p \notin t.deletions
  /\ p \in DOMAIN t.pending \/ Present(disk, p)
  /\ force \/ ~Exists(t, q)

FileRename(p, q, force) ==
  /\ Uses("rename")
  /\ p # q
  /\ LET t    == FlushDocs(tx)
         l    == LoadForPathOp(t, p)
         m    == IF force /\ Present(disk, q) THEN LoadForPathOp(l, q) ELSE l
         kept == \/ Present(disk, p)
                 \/ p \in RenamedTo(t.renames)
         free == force \/ ~(Present(disk, q) /\ q \notin t.deletions)
         w    == WriteFile(m, q, l.pending[p].cur)
         s    == [w EXCEPT
                    !.soft = IF p \in m.soft THEN @ \cup {q} ELSE @,
                    !.renames = IF kept /\ free
                                THEN Append(@, [from |-> p, to |-> q]) ELSE @]
     IN  /\ CanFileRename(t, p, q, force)
         /\ tx' = StageDelete(s, p)
  /\ Meant(CanRename(want, p, q, force), DoRename(want, p, q))
  /\ Advance

(***************************************************************************)
(* patch.apply, one file section of the Begin Patch grammar.  What the     *)
(* hunks of an Update do to a text: nothing (no hunks), add a line, or     *)
(* remove every line.                                                      *)
(***************************************************************************)
Hunks == {"none", "add", "clear"}

Applies(h, b) == h = "clear" => b # << >>
Hunked(h, b) ==
  CASE h = "none"  -> b
    [] h = "add"   -> Append(b, Edit)
    [] h = "clear" -> << >>

PatchAdd(p, b) ==
  /\ Uses("patch")
  /\ LET t == FlushDocs(tx)
     IN  /\ ~Exists(t, p)
         /\ tx' = WriteFile(t, p, b)
  /\ Meant(CanCreate(want, p, FALSE), DoPut(want, p, b))
  /\ Advance

(* The text stays in pending: only the deletion mark says it is gone.      *)
PatchDelete(p) ==
  /\ Uses("patch")
  /\ LET t == FlushDocs(tx)
     IN  /\ Exists(t, p)
         /\ CanLoad(t, p)
         /\ tx' = [Load(t, p) EXCEPT !.deletions = @ \cup {p},
                                     !.writes = @ \cup {p}]
  /\ Meant(CanDelete(want, p), DoDelete(want, p))
  /\ Advance

CanPatchUpdate(t, p, h) ==
  /\ Exists(t, p)
  /\ CanLoad(t, p)
  /\ Applies(h, Load(t, p).pending[p].cur)

PatchUpdate(p, h) ==
  /\ Uses("patch")
  /\ LET t == FlushDocs(tx)
         l == Load(t, p)
     IN  /\ CanPatchUpdate(t, p, h)
         /\ tx' = WriteFile(l, p, Hunked(h, l.pending[p].cur))
  /\ Meant(CanEdit(want, p), DoPut(want, p, Hunked(h, want[p].body)))
  /\ Advance

(* Update with Move to.  The rename is recorded wherever p came from, and  *)
(* p is marked deleted without becoming a write target.                    *)
PatchMove(p, h, q) ==
  /\ Uses("patch")
  /\ LET t == FlushDocs(tx)
         l == Load(t, p)
         s == l.pending[p]
     IN  /\ CanPatchUpdate(t, p, h)
         /\ ~Exists(l, q)
         /\ tx' = [Put(WriteFile(l, q, Hunked(h, s.cur)), p,
                       [orig |-> s.orig, cur |-> << >>])
                     EXCEPT !.renames = Append(@, [from |-> p, to |-> q]),
                            !.deletions = @ \cup {p}]
  /\ Meant(/\ CanEdit(want, p)
           /\ CanRename(want, p, q, FALSE),
           DoRename(DoPut(want, p, Hunked(h, want[p].body)), p, q))
  /\ Advance

(***************************************************************************)
(* A doc operation: parse the file unless the cache has it, then change    *)
(* the tree (or find nothing to change).  The empty text parses, as the    *)
(* empty document.                                                         *)
(***************************************************************************)
CanDocEdit(t, p) == p \in DOMAIN t.docs \/ CanLoad(t, p)

DocRoot(t, p) ==
  IF p \in DOMAIN t.docs THEN t
  ELSE LET l == Load(t, p)
       IN  [l EXCEPT !.docs = [q \in DOMAIN t.docs \cup {p} |->
                                 IF q = p THEN l.pending[p].cur ELSE t.docs[q]]]

DocEdit(p, ifExists, change) ==
  /\ Uses("doc")
  /\ IF ifExists /\ ~Exists(tx, p)
     THEN tx' = tx
     ELSE LET r == DocRoot(tx, p)
          IN  /\ CanDocEdit(tx, p)
              /\ tx' = IF change
                       THEN [r EXCEPT !.docs[p] = Append(@, Edit)]
                       ELSE r
  /\ Meant(CanEdit(want, p) \/ (ifExists /\ ~Present(want, p)),
           IF change /\ CanEdit(want, p) THEN DoAppend(want, p, Edit) ELSE want)
  /\ Advance

-----------------------------------------------------------------------------
(* An operation fails: the plan ends, nothing has been written.            *)
Refuse ==
  /\ phase = "staging"
  /\ phase' = "refused"
  /\ UNCHANGED <<disk, tx, want, astray, ops>>

(* The plan has run: the cache is flushed one last time.                   *)
Collect ==
  /\ phase = "staging"
  /\ tx' = FlushDocs(tx)
  /\ phase' = "collected"
  /\ UNCHANGED <<disk, want, astray, ops>>

StagingInit ==
  /\ disk \in InitialDisks
  /\ tx = EmptyTx
  /\ phase = "staging"
  /\ want = disk
  /\ astray = FALSE
  /\ ops = 0

FileOp ==
  \E p \in Path :
    \/ FileAppend(p)
    \/ \E b \in Contents, force \in BOOLEAN : FileCreate(p, b, force)
    \/ \E ifExists \in BOOLEAN : FileDelete(p, ifExists)
    \/ \E q \in Path, force \in BOOLEAN : FileRename(p, q, force)

PatchOp ==
  \E p \in Path :
    \/ \E b \in Contents : PatchAdd(p, b)
    \/ PatchDelete(p)
    \/ \E h \in Hunks : PatchUpdate(p, h)
    \/ \E h \in Hunks, q \in Path \ {p} : PatchMove(p, h, q)

DocOp == \E p \in Path, ifExists, change \in BOOLEAN : DocEdit(p, ifExists, change)

StagingNext == FileOp \/ PatchOp \/ DocOp \/ TextOp \/ Refuse \/ Collect

StagingSpec == StagingInit /\ [][StagingNext]_stageVars

-----------------------------------------------------------------------------
(* Type invariant: TxState's maps and sets name paths of the plan, every   *)
(* staged text is one, and every path staged for deletion has an original. *)
StagingTypeOK ==
  /\ disk \in [Path -> File]
  /\ IsPartialFn(tx.pending, Path, Staged)
  /\ IsPartialFn(tx.docs, Path, Body)
  /\ tx.deletions \subseteq DOMAIN tx.pending
  /\ tx.existed \subseteq Path
  /\ tx.writes \subseteq Path
  /\ tx.soft \subseteq Path
  /\ want \in [Path -> File]
  /\ astray \in BOOLEAN
  /\ ops \in 0..MaxOps

NothingWritten == phase \in {"staging", "refused", "collected"}

(* ast.extract_to_file writes its target unread, also one that is on disk. *)
LoadsFirst == "extract" \notin OpKinds

(***************************************************************************)
(* Until the commit begins to write, the original staged with each path is *)
(* what is on disk there, and existed_before has the staged paths that     *)
(* are: through deletions, recreations, moves and flushes of any           *)
(* operations.                                                             *)
(* The preview's diff, the choice between create-new and overwrite, and    *)
(* what counts as a change all rest on it.                                 *)
(***************************************************************************)
OriginalsMatchDisk == NothingWritten /\ LoadsFirst =>
  \A p \in DOMAIN tx.pending :
    /\ tx.pending[p].orig = Snapshot(disk, p)
    /\ p \in tx.existed <=> Present(disk, p)

(* What the transaction says is at p, before anything is written: the view *)
(* every later operation of the plan, and the preview, has of the file.    *)
View(t, p) ==
  IF p \in t.deletions THEN NoFile
  ELSE IF p \in DOMAIN t.docs THEN Text(t.docs[p])
  ELSE IF p \notin DOMAIN t.pending THEN disk[p]
  ELSE IF p \in t.soft THEN Binary(<< >>)
  ELSE Text(t.pending[p].cur)

SameFile(v, w) == v.kind = w.kind /\ (v.kind = "text" => v.body = w.body)

(* A patch or doc operation that strays has an effect the files cannot     *)
(* have; a file operation that strays, the second delete, has none.        *)
KeptToFiles == astray => OpKinds \subseteq FileOpKinds

(***************************************************************************)
(* Read your writes: whatever sequence of operations ran, the transaction  *)
(* shows each path as the same operations run directly on the files would  *)
(* have left it (of a binary file, that it is one: staging holds no bytes  *)
(* of it).  It is what makes a plan of many steps mean what its steps      *)
(* mean, over read_file_content, write_file, the deletions set, the files  *)
(* the plan itself created and the soft loads.                             *)
(***************************************************************************)
ReadsItsWrites ==
  NothingWritten /\ KeptToFiles => \A p \in Path : SameFile(View(tx, p), want[p])

(***************************************************************************)
(* The document cache never goes stale: what it has of a file is the text  *)
(* that is pending, with the doc edits made since it was parsed, and no    *)
(* operation has staged another text, or a deletion, underneath.  So the   *)
(* flush before the next operation of another kind loses no edit and       *)
(* brings no deleted file back; and none is left to flush when the commit  *)
(* begins.  Of the texts this holds even when the plan went astray.        *)
(***************************************************************************)
CacheIsCurrent ==
  /\ phase \notin {"staging", "refused"} => DOMAIN tx.docs = {}
  /\ phase = "staging" =>
       \A p \in DOMAIN tx.docs :
         /\ p \in DOMAIN tx.pending
         /\ \E k \in 0..ops :
              tx.docs[p] = tx.pending[p].cur \o [i \in 1..k |-> Edit]
         /\ astray \/ p \notin tx.deletions

(***************************************************************************)
(* Staging accepts an operation exactly when the files it would find,      *)
(* running directly, allow it: no create over a file the plan put there,   *)
(* no edit of one it deleted, no rename onto one it made.  A second delete *)
(* of a file on disk is the one operation accepted beyond that.            *)
(***************************************************************************)
AcceptsWhatFilesAllow ==
  phase = "staging" /\ KeptToFiles =>
    LET t == FlushDocs(tx)
    IN  \A p \in Path :
          /\ CanAppend(t, p) <=> CanEdit(want, p)
          /\ CanFileDelete(t, p) /\ p \notin t.deletions <=> CanDelete(want, p)
          /\ \A force \in BOOLEAN :
               /\ CanFileCreate(t, p, force) <=> CanCreate(want, p, force)
               /\ \A q \in Path \ {p} :
                    CanFileRename(t, p, q, force) <=> CanRename(want, p, q, force)

=============================================================================
