---------------------------- MODULE FileTx_proofs ----------------------------
(***************************************************************************)
(* For any paths, texts, workspaces and number of operations of every      *)
(* kind: staging keeps its types; the renames it records stay pairs,       *)
(* whatever is dropped of them; a plan reads its own writes, and is        *)
(* accepted operation by operation exactly as the files would allow it.    *)
(***************************************************************************)
EXTENDS FileTx, SequenceTheorems, WellFoundedInduction, TLAPS

(***************************************************************************)
(* What the operations on texts have in common: each of them is one        *)
(* operation of the plan, and leaves the files of the workspace alone; and *)
(* the texts they make of texts are texts.                                 *)
(***************************************************************************)
TextOpKinds == {"read", "replace", "md", "tidy", "ast", "extract"}

(* Every operation on texts is one that the plan uses, and counts as one.  *)
LEMMA TextOpAdvances ==
  TextOp => Advance /\ \E k \in TextOpKinds : Uses(k)
<1>1. \A p : ReadOp(p) => Advance /\ Uses("read")
  BY Zenon DEF ReadOp
<1>2. \A p, ifExists : Replace(p, ifExists) => Advance /\ Uses("replace")
  BY Zenon DEF Replace
<1>3. \A S : ReplaceGlob(S) => Advance /\ Uses("replace")
  BY Zenon DEF ReplaceGlob
<1>4. \A p : MdEdit(p) => Advance /\ Uses("md")
  BY Zenon DEF MdEdit
<1>5. \A p : TidyFix(p) => Advance /\ Uses("tidy")
  BY Zenon DEF TidyFix
<1>6. \A p, q : MdMoveSection(p, q) => Advance /\ Uses("md")
  BY Zenon DEF MdMoveSection
<1>7. \A p, q : AstMove(p, q) => Advance /\ Uses("ast")
  BY Zenon DEF AstMove
<1>8. \A p, q, force : AstExtract(p, q, force) => Advance /\ Uses("extract")
  BY Zenon DEF AstExtract
<1>9. QED
  BY <1>1, <1>2, <1>3, <1>4, <1>5, <1>6, <1>7, <1>8, Zenon DEF TextOp, TextOpKinds

(* What an operation makes of a text is a text.                            *)
LEMMA EditedBodies ==
  ASSUME NEW b \in Body
  PROVE  /\ Replaced(b) \in Body
         /\ Append(b, Edit) \in Body
         /\ Tidied(b) \in Body
         /\ b # << >> => /\ Rest(b) \in Body
                         /\ Part(b) \in Body
                         /\ \A c \in Body : c \o Part(b) \in Body
<1>1. Edit \in Token
  BY StagingConstants
<1>2. Replaced(b) \in Body
  <2>1. Len(b) \in Nat /\ DOMAIN b = 1..Len(b)
    BY DEF Body
  <2>2. Replaced(b) \in [1..Len(b) -> Token]
    BY <1>1, <2>1 DEF Replaced
  <2>3. QED
    BY <2>1, <2>2, SeqDef DEF Body
<1>3. Append(b, Edit) \in Body
  BY <1>1 DEF Body
<1>4. Tidied(b) \in Body
  BY <1>3 DEF Tidied
<1>5. ASSUME b # << >> PROVE Rest(b) \in Body /\ Part(b) \in Body
  <2>1. Len(b) \in Nat \ {0} /\ b[Len(b)] \in Token
    BY <1>5, EmptySeq DEF Body
  <2>2. Rest(b) \in Body
    BY <2>1, SubSeqProperties DEF Rest, Body
  <2>3. Part(b) \in Body
    BY <2>1 DEF Part, Body
  <2>4. QED
    BY <2>2, <2>3
<1>6. QED
  BY <1>2, <1>3, <1>4, <1>5 DEF Body
-----------------------------------------------------------------------------

(* Type correctness, for every kind of operation.                          *)

TypedTx(t) ==
  /\ IsPartialFn(t.pending, Path, Staged)
  /\ IsPartialFn(t.docs, Path, Body)
  /\ t.deletions \subseteq DOMAIN t.pending
  /\ t.existed \subseteq Path
  /\ t.writes \subseteq Path
  /\ t.soft \subseteq Path

LEMMA Bodies ==
  /\ << >> \in Body
  /\ \A b \in Body : Append(b, Edit) \in Body
BY StagingConstants DEF Body

LEMMA PartialFnExcept ==
  ASSUME NEW f, NEW S, NEW T, IsPartialFn(f, S, T), NEW p \in DOMAIN f, NEW v \in T
  PROVE  IsPartialFn([f EXCEPT ![p] = v], S, T)
BY DEF IsPartialFn

LEMMA FilesTyped ==
  ASSUME NEW f \in [Path -> File], NEW p \in Path
  PROVE  /\ f[p].body \in Body
         /\ Snapshot(f, p) \in Body
         /\ NoFile \in File
         /\ \A b \in Body : Text(b) \in File
BY Bodies DEF File, Kind, Snapshot, NoFile, Text

LEMMA PutTyped ==
  ASSUME NEW t, NEW p \in Path, NEW s \in Staged, TypedTx(t)
  PROVE  /\ IsPartialFn(Put(t, p, s).pending, Path, Staged)
         /\ DOMAIN Put(t, p, s).pending = DOMAIN t.pending \cup {p}
         /\ Put(t, p, s).pending[p] = s
         /\ TypedTx(Put(t, p, s))
BY DEF Put, TypedTx, IsPartialFn

LEMMA StagedTyped ==
  ASSUME NEW t, NEW p \in DOMAIN t.pending, TypedTx(t)
  PROVE  /\ p \in Path
         /\ t.pending[p].orig \in Body
         /\ t.pending[p].cur \in Body
BY DEF TypedTx, IsPartialFn, Staged

LEMMA LoadForCreateTyped ==
  ASSUME NEW t, NEW p \in Path, TypedTx(t), disk \in [Path -> File]
  PROVE  /\ TypedTx(LoadForCreate(t, p))
         /\ p \in DOMAIN LoadForCreate(t, p).pending
<1> DEFINE s == [orig |-> Snapshot(disk, p), cur |-> Snapshot(disk, p)]
           u == Put(t, p, s)
           l == LoadForCreate(t, p)
<1>1. s \in Staged
  BY FilesTyped DEF Staged
<1>2. TypedTx(u) /\ p \in DOMAIN u.pending
  BY <1>1, PutTyped
<1>3. CASE p \notin DOMAIN t.pending
  <2>1. l = [u EXCEPT !.existed = u.existed \cup {p}]
    BY <1>3 DEF LoadForCreate
  <2>2. /\ l.pending = u.pending /\ l.docs = u.docs /\ l.deletions = u.deletions
        /\ l.existed = u.existed \cup {p} /\ l.writes = u.writes /\ l.soft = u.soft
    BY <2>1
  <2>3. QED
    BY <1>2, <2>2 DEF TypedTx
<1>4. CASE p \in DOMAIN t.pending
  BY <1>4 DEF LoadForCreate
<1>5. QED
  BY <1>3, <1>4

LEMMA LoadForPathOpTyped ==
  ASSUME NEW t, NEW p \in Path, TypedTx(t), disk \in [Path -> File]
  PROVE  /\ TypedTx(LoadForPathOp(t, p))
         /\ p \in DOMAIN LoadForPathOp(t, p).pending
BY LoadForCreateTyped DEF LoadForPathOp, TypedTx

LEMMA LoadTyped ==
  ASSUME NEW t, NEW p \in Path, TypedTx(t), disk \in [Path -> File]
  PROVE  /\ TypedTx(Load(t, p))
         /\ p \in DOMAIN Load(t, p).pending
<1> DEFINE s == [orig |-> disk[p].body, cur |-> disk[p].body]
<1>1. s \in Staged
  BY FilesTyped DEF Staged
<1>2. QED
  BY <1>1, PutTyped DEF Load, TypedTx

LEMMA WriteFileTyped ==
  ASSUME NEW t, NEW p \in Path, NEW b \in Body, TypedTx(t)
  PROVE  /\ TypedTx(WriteFile(t, p, b))
         /\ p \in DOMAIN WriteFile(t, p, b).pending
         /\ DOMAIN t.pending \subseteq DOMAIN WriteFile(t, p, b).pending
<1> DEFINE orig == IF p \in DOMAIN t.pending THEN t.pending[p].orig ELSE << >>
           s == [orig |-> orig, cur |-> b]
<1>1. s \in Staged
  BY Bodies, StagedTyped DEF Staged
<1>2. QED
  BY <1>1, PutTyped DEF WriteFile, TypedTx

LEMMA FlushTyped ==
  ASSUME NEW t, TypedTx(t)
  PROVE  TypedTx(FlushDocs(t))
BY Bodies DEF FlushDocs, TypedTx, IsPartialFn, Staged

LEMMA StageDeleteTyped ==
  ASSUME NEW t, NEW p \in Path, TypedTx(t), p \in DOMAIN t.pending
  PROVE  TypedTx(StageDelete(t, p))
<1>1. TypedTx(Forget(t, p))
  BY DEF Forget, TypedTx, IsPartialFn
<1>2. TypedTx(WriteFile(t, p, << >>)) /\ p \in DOMAIN WriteFile(t, p, << >>).pending
  BY WriteFileTyped, Bodies
<1>3. QED
  BY <1>1, <1>2 DEF StageDelete, TypedTx

LEMMA DocRootTyped ==
  ASSUME NEW t, NEW p \in Path, TypedTx(t), disk \in [Path -> File]
  PROVE  TypedTx(DocRoot(t, p)) /\ p \in DOMAIN DocRoot(t, p).docs
<1> DEFINE l == Load(t, p)
           r == DocRoot(t, p)
<1>1. CASE p \in DOMAIN t.docs
  BY <1>1 DEF DocRoot
<1>2. CASE p \notin DOMAIN t.docs
  <2>1. TypedTx(l) /\ l.pending[p].cur \in Body
    BY LoadTyped, StagedTyped
  <2>2. /\ r.docs = [q \in DOMAIN t.docs \cup {p} |->
                       IF q = p THEN l.pending[p].cur ELSE t.docs[q]]
        /\ r.pending = l.pending /\ r.deletions = l.deletions
        /\ r.existed = l.existed /\ r.writes = l.writes /\ r.soft = l.soft
    BY <1>2 DEF DocRoot
  <2>3. IsPartialFn(r.docs, Path, Body)
    BY <2>1, <2>2 DEF TypedTx, IsPartialFn
  <2>4. QED
    BY <2>1, <2>2, <2>3 DEF TypedTx
<1>3. QED
  BY <1>1, <1>2

LEMMA HunkedTyped ==
  ASSUME NEW h \in Hunks, NEW b \in Body
  PROVE  Hunked(h, b) \in Body
BY Bodies DEF Hunked, Hunks

LEMMA InitStagingTypeOK == StagingInit => StagingTypeOK
<1> SUFFICES ASSUME StagingInit PROVE StagingTypeOK
  OBVIOUS
<1>1. disk \in [Path -> File] /\ want \in [Path -> File]
  BY StagingConstants DEF StagingInit
<1>2. tx = EmptyTx /\ astray = FALSE /\ ops = 0
  BY DEF StagingInit
<1>3. IsPartialFn(tx.pending, Path, Staged) /\ IsPartialFn(tx.docs, Path, Body)
  BY <1>2 DEF IsPartialFn, EmptyTx
<1>4. /\ tx.deletions = {} /\ tx.existed = {} /\ tx.writes = {} /\ tx.soft = {}
  BY <1>2 DEF EmptyTx
<1>5. ops \in 0..MaxOps
  BY <1>2, StagingConstants
<1>6. QED
  BY <1>1, <1>2, <1>3, <1>4, <1>5 DEF StagingTypeOK

(* The history variables and the bound, over any operation.                *)
LEMMA MeantTyped ==
  ASSUME StagingTypeOK, NEW k, Uses(k), Advance,
         NEW allowed \in BOOLEAN, NEW files, allowed => files \in [Path -> File],
         Meant(allowed, files), TypedTx(tx')
  PROVE  StagingTypeOK'
<1>1. TypedTx(tx)'
  BY DEF TypedTx
<1>2. disk' = disk /\ ops' \in 0..MaxOps
  BY StagingConstants DEF StagingTypeOK, Advance, Uses
<1>3. want' \in [Path -> File] /\ astray' \in BOOLEAN
  BY DEF StagingTypeOK, Meant
<1>4. QED
  BY <1>1, <1>2, <1>3 DEF StagingTypeOK, TypedTx

LEMMA DoTyped ==
  ASSUME NEW f \in [Path -> File], NEW p \in Path
  PROVE  /\ DoAppend(f, p, Edit) \in [Path -> File]
         /\ \A b \in Body : DoPut(f, p, b) \in [Path -> File]
         /\ DoDelete(f, p) \in [Path -> File]
         /\ \A q \in Path : DoRename(f, p, q) \in [Path -> File]
BY FilesTyped, Bodies DEF DoAppend, DoPut, DoDelete, DoRename

LEMMA TypedFlushed ==
  ASSUME StagingTypeOK
  PROVE  TypedTx(tx) /\ TypedTx(FlushDocs(tx)) /\ disk \in [Path -> File] /\ want \in [Path -> File]
BY FlushTyped DEF StagingTypeOK, TypedTx

LEMMA FileOpTyped == StagingTypeOK /\ FileOp => StagingTypeOK'
<1> SUFFICES ASSUME StagingTypeOK, FileOp PROVE StagingTypeOK'
  OBVIOUS
<1> DEFINE t == FlushDocs(tx)
<1>0. TypedTx(t) /\ disk \in [Path -> File] /\ want \in [Path -> File]
  BY TypedFlushed
<1>1. ASSUME NEW p \in Path, FileAppend(p) PROVE StagingTypeOK'
  <2> DEFINE l == Load(t, p)
             b == Append(l.pending[p].cur, Edit)
  <2>1. tx' = WriteFile(l, p, b)
    BY <1>1 DEF FileAppend
  <2>2. TypedTx(l) /\ b \in Body
    BY <1>0, LoadTyped, StagedTyped, Bodies
  <2>3. TypedTx(tx')
    BY <2>1, <2>2, WriteFileTyped
  <2>4. /\ Uses("append") /\ Advance
        /\ Meant(CanEdit(want, p), DoAppend(want, p, Edit))
    BY <1>1 DEF FileAppend
  <2>5. QED
    BY <1>0, <2>3, <2>4, MeantTyped, DoTyped DEF CanEdit, IsText
<1>2. ASSUME NEW p \in Path, NEW b \in Contents, NEW force \in BOOLEAN, FileCreate(p, b, force)
      PROVE  StagingTypeOK'
  <2> DEFINE l == IF force /\ Present(disk, p) THEN LoadForCreate(t, p) ELSE t
  <2>1. tx' = WriteFile(l, p, b)
    BY <1>2 DEF FileCreate
  <2>2. TypedTx(l) /\ b \in Body
    BY <1>0, LoadForCreateTyped, StagingConstants
  <2>3. TypedTx(tx')
    BY <2>1, <2>2, WriteFileTyped
  <2>4. /\ Uses("create") /\ Advance
        /\ Meant(CanCreate(want, p, force), DoPut(want, p, b))
    BY <1>2 DEF FileCreate
  <2>5. QED
    BY <1>0, <2>2, <2>3, <2>4, MeantTyped, DoTyped DEF CanCreate, Present
<1>3. ASSUME NEW p \in Path, NEW ifExists \in BOOLEAN, FileDelete(p, ifExists)
      PROVE  StagingTypeOK'
  <2> DEFINE l == LoadForPathOp(t, p)
             s == StageDelete(l, p)
             r == DropRenameChainEndingAt(s.renames, p)
  <2>1. tx' = t \/ tx' = [s EXCEPT !.renames = r]
    BY <1>3 DEF FileDelete
  <2>2. TypedTx(s)
    BY <1>0, LoadForPathOpTyped, StageDeleteTyped
  <2>3. TypedTx([s EXCEPT !.renames = r])
    BY <2>2 DEF TypedTx
  <2>4. TypedTx(tx')
    BY <1>0, <2>1, <2>3
  <2>5. /\ Uses("delete") /\ Advance
        /\ Meant(ifExists \/ CanDelete(want, p), DoDelete(want, p))
    BY <1>3 DEF FileDelete
  <2>6. QED
    BY <1>0, <2>4, <2>5, MeantTyped, DoTyped DEF CanDelete, Present
<1>4. ASSUME NEW p \in Path, NEW q \in Path, NEW force \in BOOLEAN, FileRename(p, q, force)
      PROVE  StagingTypeOK'
  <2> DEFINE l == LoadForPathOp(t, p)
             m == IF force /\ Present(disk, q) THEN LoadForPathOp(l, q) ELSE l
             w == WriteFile(m, q, l.pending[p].cur)
             kept == Present(disk, p) \/ p \in RenamedTo(t.renames)
             free == force \/ ~(Present(disk, q) /\ q \notin t.deletions)
             s == [w EXCEPT
                     !.soft = IF p \in m.soft THEN @ \cup {q} ELSE @,
                     !.renames = IF kept /\ free
                                 THEN Append(@, [from |-> p, to |-> q]) ELSE @]
  <2>1. tx' = StageDelete(s, p)
    BY <1>4, Zenon DEF FileRename
  <2>2. TypedTx(l) /\ p \in DOMAIN l.pending /\ l.pending[p].cur \in Body
    BY <1>0, LoadForPathOpTyped, StagedTyped
  <2>3. DOMAIN l.pending \subseteq DOMAIN m.pending
    BY DEF LoadForPathOp, LoadForCreate, Put
  <2>4. TypedTx(m)
    BY <1>0, <2>2, LoadForPathOpTyped
  <2>5. TypedTx(w) /\ p \in DOMAIN w.pending
    BY <2>2, <2>3, <2>4, WriteFileTyped
  <2>6. TypedTx(s) /\ p \in DOMAIN s.pending
    BY <2>5 DEF TypedTx
  <2>7. TypedTx(tx')
    BY <2>1, <2>6, StageDeleteTyped
  <2>8. /\ Uses("rename") /\ Advance
        /\ Meant(CanRename(want, p, q, force), DoRename(want, p, q))
    BY <1>4, Zenon DEF FileRename
  <2>9. QED
    BY <1>0, <2>7, <2>8, MeantTyped, DoTyped DEF CanRename, Present
<1>5. QED
  BY <1>1, <1>2, <1>3, <1>4 DEF FileOp

LEMMA PatchOpTyped == StagingTypeOK /\ PatchOp => StagingTypeOK'
<1> SUFFICES ASSUME StagingTypeOK, PatchOp PROVE StagingTypeOK'
  OBVIOUS
<1> DEFINE t == FlushDocs(tx)
<1>0. TypedTx(t) /\ disk \in [Path -> File] /\ want \in [Path -> File]
  BY TypedFlushed
<1>1. ASSUME NEW p \in Path, NEW b \in Contents, PatchAdd(p, b)
      PROVE  StagingTypeOK'
  <2>1. tx' = WriteFile(t, p, b) /\ b \in Body
    BY <1>1, StagingConstants DEF PatchAdd
  <2>2. TypedTx(tx')
    BY <1>0, <2>1, WriteFileTyped
  <2>3. /\ Uses("patch") /\ Advance
        /\ Meant(CanCreate(want, p, FALSE), DoPut(want, p, b))
    BY <1>1 DEF PatchAdd
  <2>4. QED
    BY <1>0, <2>1, <2>2, <2>3, MeantTyped, DoTyped DEF CanCreate, Present
<1>2. ASSUME NEW p \in Path, PatchDelete(p) PROVE StagingTypeOK'
  <2> DEFINE l == Load(t, p)
             d == [l EXCEPT !.deletions = @ \cup {p}, !.writes = @ \cup {p}]
  <2>1. tx' = d
    BY <1>2, Zenon DEF PatchDelete
  <2>2. TypedTx(l) /\ p \in DOMAIN l.pending
    BY <1>0, LoadTyped
  <2>3. TypedTx(d)
    BY <2>2 DEF TypedTx
  <2>4. TypedTx(tx')
    BY <2>1, <2>3
  <2>5. /\ Uses("patch") /\ Advance /\ Meant(CanDelete(want, p), DoDelete(want, p))
    BY <1>2, Zenon DEF PatchDelete
  <2>6. QED
    BY <1>0, <2>4, <2>5, MeantTyped, DoTyped DEF CanDelete, Present
<1>3. ASSUME NEW p \in Path, NEW h \in Hunks, PatchUpdate(p, h)
      PROVE  StagingTypeOK'
  <2> DEFINE l == Load(t, p)
             b == Hunked(h, l.pending[p].cur)
  <2>1. tx' = WriteFile(l, p, b)
    BY <1>3, Zenon DEF PatchUpdate
  <2>2. TypedTx(l) /\ b \in Body
    BY <1>0, LoadTyped, StagedTyped, HunkedTyped
  <2>3. TypedTx(tx')
    BY <2>1, <2>2, WriteFileTyped
  <2>4. /\ Uses("patch") /\ Advance
        /\ Meant(CanEdit(want, p), DoPut(want, p, Hunked(h, want[p].body)))
    BY <1>3, Zenon DEF PatchUpdate
  <2>5. Hunked(h, want[p].body) \in Body
    BY <1>0, FilesTyped, HunkedTyped
  <2>6. QED
    BY <1>0, <2>3, <2>4, <2>5, MeantTyped, DoTyped DEF CanEdit, IsText
<1>4. ASSUME NEW p \in Path, NEW h \in Hunks, NEW q \in Path \ {p}, PatchMove(p, h, q)
      PROVE  StagingTypeOK'
  <2> DEFINE l == Load(t, p)
             b == Hunked(h, l.pending[p].cur)
             w == WriteFile(l, q, b)
             s == [orig |-> l.pending[p].orig, cur |-> << >>]
             u == Put(w, p, s)
             m == [u EXCEPT !.renames = Append(@, [from |-> p, to |-> q]),
                            !.deletions = @ \cup {p}]
  <2>1. tx' = m
    BY <1>4, Zenon DEF PatchMove
  <2>2. /\ TypedTx(l) /\ b \in Body /\ s \in Staged
    BY <1>0, LoadTyped, StagedTyped, HunkedTyped, Bodies DEF Staged
  <2>3. TypedTx(w)
    BY <2>2, WriteFileTyped
  <2>4. TypedTx(u) /\ p \in DOMAIN u.pending
    BY <2>2, <2>3, PutTyped
  <2>5. TypedTx(m)
    BY <2>4 DEF TypedTx
  <2>6. TypedTx(tx')
    BY <2>1, <2>5
  <2> DEFINE allowed == CanEdit(want, p) /\ CanRename(want, p, q, FALSE)
             files == DoRename(DoPut(want, p, Hunked(h, want[p].body)), p, q)
  <2>7. Uses("patch") /\ Advance /\ Meant(allowed, files)
    BY <1>4, Zenon DEF PatchMove
  <2>8. files \in [Path -> File]
    BY <1>0, FilesTyped, HunkedTyped, DoTyped
  <2>9. allowed \in BOOLEAN
    BY DEF CanEdit, IsText, CanRename, Present
  <2> HIDE DEF allowed, files
  <2>10. QED
    BY <2>6, <2>7, <2>8, <2>9, MeantTyped
<1>5. QED
  BY <1>1, <1>2, <1>3, <1>4, Zenon DEF PatchOp

LEMMA DocOpTyped == StagingTypeOK /\ DocOp => StagingTypeOK'
<1> SUFFICES ASSUME StagingTypeOK,
                    NEW p \in Path, NEW ifExists \in BOOLEAN, NEW change \in BOOLEAN,
                    DocEdit(p, ifExists, change)
             PROVE  StagingTypeOK'
  BY Zenon DEF DocOp
<1> DEFINE r == DocRoot(tx, p)
           e == [r EXCEPT !.docs[p] = Append(@, Edit)]
           allowed == CanEdit(want, p) \/ (ifExists /\ ~Present(want, p))
           files == IF change /\ CanEdit(want, p) THEN DoAppend(want, p, Edit) ELSE want
<1>0. TypedTx(tx) /\ disk \in [Path -> File] /\ want \in [Path -> File]
  BY TypedFlushed
<1>1. tx' = tx \/ tx' = e \/ tx' = r
  BY Zenon DEF DocEdit
<1>2. TypedTx(r) /\ p \in DOMAIN r.docs
  BY <1>0, DocRootTyped
<1>3. TypedTx(e)
  <2>1. /\ e.pending = r.pending /\ e.deletions = r.deletions
        /\ e.existed = r.existed /\ e.writes = r.writes /\ e.soft = r.soft
        /\ e.docs = [r.docs EXCEPT ![p] = Append(r.docs[p], Edit)]
    OBVIOUS
  <2>2. r.docs[p] \in Body /\ Append(r.docs[p], Edit) \in Body
    BY <1>2, Bodies DEF TypedTx, IsPartialFn
  <2> HIDE DEF e, r
  <2>3. IsPartialFn(r.docs, Path, Body)
    BY <1>2 DEF TypedTx
  <2>4. IsPartialFn([r.docs EXCEPT ![p] = Append(r.docs[p], Edit)], Path, Body)
    BY <1>2, <2>2, <2>3, PartialFnExcept
  <2>5. IsPartialFn(e.docs, Path, Body)
    BY <2>1, <2>4
  <2>6. QED
    BY <1>2, <2>1, <2>5 DEF TypedTx
<1>4. TypedTx(tx')
  BY <1>0, <1>1, <1>2, <1>3
<1>5. Uses("doc") /\ Advance /\ Meant(allowed, files)
  BY Zenon DEF DocEdit
<1>6. allowed \in BOOLEAN /\ files \in [Path -> File]
  BY <1>0, DoTyped DEF CanEdit, IsText, Present
<1> HIDE DEF allowed, files
<1>7. QED
  BY <1>4, <1>5, <1>6, MeantTyped

LEMMA LoadTwiceTyped ==
  ASSUME NEW t, NEW p \in Path, NEW q \in Path, TypedTx(t), disk \in [Path -> File]
  PROVE  /\ TypedTx(Load(Load(t, p), q))
         /\ p \in DOMAIN Load(Load(t, p), q).pending
         /\ q \in DOMAIN Load(Load(t, p), q).pending
<1> DEFINE l == Load(t, p)
<1>1. TypedTx(l) /\ p \in DOMAIN l.pending
  BY LoadTyped
<1> HIDE DEF l
<1>2. TypedTx(Load(l, q)) /\ q \in DOMAIN Load(l, q).pending
  BY <1>1, LoadTyped
<1>3. p \in DOMAIN Load(l, q).pending
  BY <1>1 DEF Load, Put
<1>4. QED
  BY <1>2, <1>3 DEF l

(* Every text of the plan after a glob's hits are written: H is loadable.   *)
LEMMA WriteHitsTyped ==
  ASSUME NEW t, TypedTx(t), disk \in [Path -> File], NEW H \in SUBSET Path
  PROVE  TypedTx(WriteHits(t, H))
<1> DEFINE u == WriteHits(t, H)
           New(p) == [orig |-> Load(t, p).pending[p].orig, cur |-> Replaced(Body0(t, p))]
<1>1. \A p \in H : New(p) \in Staged
  BY LoadTyped, StagedTyped, EditedBodies DEF Body0, Staged
<1> HIDE DEF New
<1>2. /\ u.pending = [p \in DOMAIN t.pending \cup H |-> IF p \in H THEN New(p) ELSE t.pending[p]]
      /\ u.docs = t.docs /\ u.deletions = t.deletions \ H
      /\ u.existed = t.existed \cup (H \ DOMAIN t.pending)
      /\ u.writes = t.writes \cup H /\ u.soft = t.soft \ H
  BY DEF WriteHits, New
<1> HIDE DEF u
<1>3. IsPartialFn(u.pending, Path, Staged)
  BY <1>1, <1>2 DEF TypedTx, IsPartialFn
<1>4. TypedTx(u)
  BY <1>2, <1>3 DEF TypedTx
<1>5. QED
  BY <1>4 DEF u

(* A text that moves from a file to another, of the loaded transaction m.  *)
LEMMA MoveTyped ==
  ASSUME NEW m, TypedTx(m), NEW p \in Path, NEW q \in Path,
         NEW b \in Body, NEW c \in Body, b # << >>
  PROVE  TypedTx(WriteFile(WriteFile(m, p, Rest(b)), q, c \o Part(b)))
BY WriteFileTyped, EditedBodies

LEMMA DoMoveTyped ==
  ASSUME NEW f \in [Path -> File], NEW p \in Path, NEW q \in Path, NEW onto \in Body,
         f[p].body # << >>
  PROVE  DoMove(f, p, q, onto) \in [Path -> File]
<1>1. f[p].body \in Body
  BY FilesTyped
<1>2. Rest(f[p].body) \in Body /\ onto \o Part(f[p].body) \in Body
  BY <1>1, EditedBodies
<1>3. QED
  BY <1>2, DoTyped DEF DoMove

LEMMA TextOpTyped == StagingTypeOK /\ TextOp => StagingTypeOK'
<1> SUFFICES ASSUME StagingTypeOK, TextOp PROVE StagingTypeOK'
  OBVIOUS
<1> DEFINE t == FlushDocs(tx)
<1>0. TypedTx(t) /\ disk \in [Path -> File] /\ want \in [Path -> File]
  BY TypedFlushed
<1>00. \A p \in Path : TypedTx(Load(t, p)) /\ Body0(t, p) \in Body
  BY <1>0, LoadTyped, StagedTyped DEF Body0
<1>1. ASSUME NEW p \in Path, ReadOp(p) PROVE StagingTypeOK'
  <2>1. tx' = Load(t, p)
    BY <1>1, Zenon DEF ReadOp
  <2>2. Uses("read") /\ Advance /\ Meant(CanEdit(want, p), want)
    BY <1>1, Zenon DEF ReadOp
  <2>3. QED
    BY <1>0, <1>00, <2>1, <2>2, MeantTyped DEF CanEdit, IsText
<1>2. ASSUME NEW p \in Path, NEW ifExists \in BOOLEAN, Replace(p, ifExists)
      PROVE  StagingTypeOK'
  <2> DEFINE w == WriteFile(Load(t, p), p, Replaced(Body0(t, p)))
             allowed == /\ CanEdit(want, p) \/ (ifExists /\ ~Present(want, p))
                        /\ ~Revives(t, p)
             files == IF CanEdit(want, p) THEN DoPut(want, p, Replaced(want[p].body)) ELSE want
  <2>1. tx' = w \/ tx' = Load(t, p) \/ tx' = t
    BY <1>2, Zenon DEF Replace
  <2>2. TypedTx(w)
    BY <1>00, WriteFileTyped, EditedBodies
  <2>3. TypedTx(tx')
    BY <1>0, <1>00, <2>1, <2>2
  <2>4. Uses("replace") /\ Advance /\ Meant(allowed, files)
    BY <1>2, Zenon DEF Replace
  <2>5. allowed \in BOOLEAN
    BY DEF CanEdit, IsText, Present, Revives
  <2>6. files \in [Path -> File]
    BY <1>0, FilesTyped, EditedBodies, DoTyped
  <2> HIDE DEF allowed, files
  <2>7. QED
    BY <2>3, <2>4, <2>5, <2>6, MeantTyped
<1>3. ASSUME NEW S \in SUBSET Path, ReplaceGlob(S) PROVE StagingTypeOK'
  <2> DEFINE allowed == \A p \in S : ~Revives(t, p)
             files == DoReplaceAll(want, S)
  <2>1. tx' = WriteHits(t, GlobHits(t, S))
    BY <1>3, Zenon DEF ReplaceGlob
  <2>2. GlobHits(t, S) \in SUBSET Path
    BY DEF GlobHits, Candidates
  <2>3. TypedTx(tx')
    BY <1>0, <2>1, <2>2, WriteHitsTyped
  <2>4. Uses("replace") /\ Advance /\ Meant(allowed, files)
    BY <1>3, Zenon DEF ReplaceGlob
  <2>5. allowed \in BOOLEAN
    OBVIOUS
  <2>6. \A p \in Path : Text(Replaced(want[p].body)) \in File /\ want[p] \in File
    BY <1>0, FilesTyped, EditedBodies
  <2>7. files \in [Path -> File]
    BY <2>6 DEF DoReplaceAll
  <2> HIDE DEF allowed, files
  <2>8. QED
    BY <2>3, <2>4, <2>5, <2>7, MeantTyped
<1>4. ASSUME NEW p \in Path, MdEdit(p) PROVE StagingTypeOK'
  <2> DEFINE w == WriteFile(Load(t, p), p, Append(Body0(t, p), Edit))
  <2>1. tx' = w
    BY <1>4, Zenon DEF MdEdit
  <2>2. TypedTx(w)
    BY <1>00, WriteFileTyped, EditedBodies
  <2>3. Uses("md") /\ Advance /\ Meant(CanEdit(want, p), DoAppend(want, p, Edit))
    BY <1>4, Zenon DEF MdEdit
  <2>4. QED
    BY <1>0, <2>1, <2>2, <2>3, MeantTyped, DoTyped DEF CanEdit, IsText
<1>5. ASSUME NEW p \in Path, TidyFix(p) PROVE StagingTypeOK'
  <2> DEFINE o == Load(t, p)
             l == [o EXCEPT !.writes = @ \cup {p}]
             s == [orig |-> l.pending[p].orig, cur |-> Tidied(Body0(t, p))]
             u == Put(l, p, s)
             w == [u EXCEPT !.deletions = @ \ {p}]
  <2>1. tx' = l \/ tx' = w
    BY <1>5, Zenon DEF TidyFix
  <2>2. TypedTx(o) /\ p \in DOMAIN o.pending
    BY <1>0, LoadTyped
  <2> HIDE DEF o
  <2>3. TypedTx(l) /\ p \in DOMAIN l.pending
    BY <2>2 DEF TypedTx
  <2>4. s \in Staged
    BY <1>00, <2>3, StagedTyped, EditedBodies DEF Staged
  <2> HIDE DEF l, s
  <2>5. TypedTx(u)
    BY <2>3, <2>4, PutTyped
  <2>6. TypedTx(w)
    BY <2>5 DEF TypedTx
  <2>7. Uses("tidy") /\ Advance /\ Meant(CanEdit(want, p), DoPut(want, p, Tidied(want[p].body)))
    BY <1>5, Zenon DEF TidyFix
  <2>8. DoPut(want, p, Tidied(want[p].body)) \in [Path -> File]
    BY <1>0, FilesTyped, EditedBodies, DoTyped
  <2>9. TypedTx(tx')
    BY <2>1, <2>3, <2>6
  <2>10. QED
    BY <2>7, <2>8, <2>9, MeantTyped DEF CanEdit, IsText
<1>6. ASSUME NEW p \in Path, NEW q \in Path \ {p}, MdMoveSection(p, q) PROVE StagingTypeOK'
  <2> DEFINE m == Load(Load(t, p), q)
             b == m.pending[p].cur
             c == m.pending[q].cur
             allowed == CanEdit(want, p) /\ CanEdit(want, q) /\ want[p].body # << >>
             files == DoMove(want, p, q, want[q].body)
  <2>1. b # << >> /\ tx' = WriteFile(WriteFile(m, p, Rest(b)), q, c \o Part(b))
    BY <1>6, Zenon DEF MdMoveSection
  <2>2. TypedTx(m) /\ p \in DOMAIN m.pending /\ q \in DOMAIN m.pending
    BY <1>0, LoadTwiceTyped
  <2>3. b \in Body /\ c \in Body
    BY <2>2, StagedTyped
  <2>4. TypedTx(tx')
    BY <2>1, <2>2, <2>3, MoveTyped
  <2>5. Uses("md") /\ Advance /\ Meant(allowed, files)
    BY <1>6, Zenon DEF MdMoveSection
  <2>6. allowed \in BOOLEAN
    BY DEF CanEdit, IsText
  <2>7. allowed => files \in [Path -> File]
    BY <1>0, FilesTyped, DoMoveTyped
  <2> HIDE DEF allowed, files
  <2>8. QED
    BY <2>4, <2>5, <2>6, <2>7, MeantTyped
<1>7. ASSUME NEW p \in Path, NEW q \in Path \ {p}, AstMove(p, q) PROVE StagingTypeOK'
  <2> DEFINE l == Load(t, p)
             m == IF Exists(t, q) THEN Load(l, q) ELSE l
             b == m.pending[p].cur
             c == IF Exists(t, q) THEN m.pending[q].cur ELSE << >>
             allowed == /\ CanEdit(want, p) /\ want[p].body # << >>
                        /\ CanEdit(want, q) \/ ~Present(want, q)
             files == DoMove(want, p, q, want[q].body)
  <2>1. b # << >> /\ tx' = WriteFile(WriteFile(m, p, Rest(b)), q, c \o Part(b))
    BY <1>7, Zenon DEF AstMove
  <2>2. /\ TypedTx(m) /\ p \in DOMAIN m.pending
        /\ Exists(t, q) => q \in DOMAIN m.pending
    BY <1>0, LoadTyped, LoadTwiceTyped
  <2>3. b \in Body /\ c \in Body
    BY <2>2, StagedTyped, Bodies
  <2>4. TypedTx(tx')
    BY <2>1, <2>2, <2>3, MoveTyped
  <2>5. Uses("ast") /\ Advance /\ Meant(allowed, files)
    BY <1>7, Zenon DEF AstMove
  <2>6. allowed \in BOOLEAN
    BY DEF CanEdit, IsText, Present
  <2>7. allowed => files \in [Path -> File]
    BY <1>0, FilesTyped, DoMoveTyped
  <2> HIDE DEF allowed, files
  <2>8. QED
    BY <2>4, <2>5, <2>6, <2>7, MeantTyped
<1>8. ASSUME NEW p \in Path, NEW q \in Path \ {p}, NEW force \in BOOLEAN,
             AstExtract(p, q, force)
      PROVE  StagingTypeOK'
  <2> DEFINE l == Load(t, p)
             b == l.pending[p].cur
             allowed == /\ CanEdit(want, p) /\ want[p].body # << >>
                        /\ CanCreate(want, q, force)
             files == DoMove(want, p, q, << >>)
  <2>1. b # << >> /\ tx' = WriteFile(WriteFile(l, p, Rest(b)), q, Part(b))
    BY <1>8, Zenon DEF AstExtract
  <2>2. TypedTx(l) /\ b \in Body
    BY <1>0, LoadTyped, StagedTyped
  <2>3. Rest(b) \in Body /\ Part(b) \in Body
    BY <2>1, <2>2, EditedBodies
  <2>4. TypedTx(tx')
    BY <2>1, <2>2, <2>3, WriteFileTyped
  <2>5. Uses("extract") /\ Advance /\ Meant(allowed, files)
    BY <1>8, Zenon DEF AstExtract
  <2>6. allowed \in BOOLEAN
    BY DEF CanEdit, IsText, CanCreate, Present
  <2>7. allowed => files \in [Path -> File]
    BY <1>0, Bodies, DoMoveTyped
  <2> HIDE DEF allowed, files
  <2>8. QED
    BY <2>4, <2>5, <2>6, <2>7, MeantTyped
<1>9. QED
  BY <1>1, <1>2, <1>3, <1>4, <1>5, <1>6, <1>7, <1>8, Zenon DEF TextOp

LEMMA StepStagingTypeOK == StagingTypeOK /\ [StagingNext]_stageVars => StagingTypeOK'
<1> SUFFICES ASSUME StagingTypeOK, [StagingNext]_stageVars PROVE StagingTypeOK'
  OBVIOUS
<1>1. CASE FileOp
  BY <1>1, FileOpTyped
<1>2. CASE PatchOp
  BY <1>2, PatchOpTyped
<1>3. CASE DocOp
  BY <1>3, DocOpTyped
<1>4. CASE Refuse
  BY <1>4 DEF Refuse, StagingTypeOK
<1>5. CASE Collect
  BY <1>5, TypedFlushed DEF Collect, StagingTypeOK, TypedTx
<1>6. CASE TextOp
  BY <1>6, TextOpTyped
<1>7. CASE UNCHANGED stageVars
  BY <1>7 DEF stageVars, StagingTypeOK
<1>8. QED
  BY <1>1, <1>2, <1>3, <1>4, <1>5, <1>6, <1>7 DEF StagingNext

(* Staging keeps its types, in plans of any operations.                    *)
THEOREM StagingTypeCorrect == StagingSpec => []StagingTypeOK
BY InitStagingTypeOK, StepStagingTypeOK, PTL DEF StagingSpec

-----------------------------------------------------------------------------
(* The recorded renames.  drop_rename_chain_ending_at is a recursion; that *)
(* it is well defined, and what it keeps, is proved by induction over the  *)
(* sets of numbers that have a property.                                   *)

(* The least of a set of numbers.                                          *)
LEMMA LeastOf ==
  ASSUME NEW T, T \subseteq Nat, T # {}
  PROVE  \E m \in T : \A k \in T : m <= k
<1>1. PICK m \in T : \A k \in T : ~(<<k, m>> \in OpToRel(<, Nat))
  BY NatLessThanWellFounded, WFMin
<1>2. \A k \in T : ~(k < m)
  BY <1>1, Zenon DEF OpToRel
<1>3. QED
  BY <1>2

(* Induction over the natural numbers, of the set of those that have a     *)
(* property.                                                               *)
LEMMA NatSetInduction ==
  ASSUME NEW S, 0 \in S, \A n \in Nat : n \in S => n + 1 \in S
  PROVE  Nat \subseteq S
<1> SUFFICES ASSUME NEW n \in Nat \ S PROVE FALSE
  OBVIOUS
<1>1. PICK m \in Nat \ S : \A k \in Nat \ S : m <= k
  BY LeastOf
<1>2. m \in Nat \ {0} /\ m - 1 \in S
  BY <1>1
<1>3. QED
  BY <1>2

(* A sequence of values, each made from the one before: the first n.       *)
Walks(w, n, rs, p) ==
  w = [k \in 0..n |-> IF k = 0 THEN [pairs |-> rs, at |-> p] ELSE DropLink(w[k - 1])]

LEMMA WalkSteps ==
  ASSUME NEW rs, NEW p, NEW n \in Nat, NEW w, Walks(w, n, rs, p)
  PROVE  \A k \in 0..n : w[k] = IF k = 0 THEN [pairs |-> rs, at |-> p] ELSE DropLink(w[k - 1])
BY DEF Walks

LEMMA WalkFor ==
  ASSUME NEW rs, NEW p
  PROVE  \A n \in Nat : \E w : Walks(w, n, rs, p)
<1> DEFINE S == {n \in Nat : \E w : Walks(w, n, rs, p)}
<1>1. 0 \in S
  <2>1. Walks([k \in 0..0 |-> [pairs |-> rs, at |-> p]], 0, rs, p)
    BY DEF Walks
  <2>2. QED
    BY <2>1
<1>2. ASSUME NEW n \in Nat, n \in S PROVE n + 1 \in S
  <2>1. PICK w : Walks(w, n, rs, p)
    BY <1>2
  <2> DEFINE v == [k \in 0..(n + 1) |-> IF k = n + 1 THEN DropLink(w[n]) ELSE w[k]]
  <2>2. \A k \in 0..(n + 1) :
          v[k] = IF k = 0 THEN [pairs |-> rs, at |-> p] ELSE DropLink(v[k - 1])
    BY <2>1 DEF Walks
  <2>3. Walks(v, n + 1, rs, p)
    BY <2>2, Zenon DEF Walks
  <2>4. QED
    BY <2>3
<1>3. Nat \subseteq S
  BY <1>1, <1>2, NatSetInduction
<1>4. QED
  BY <1>3

LEMMA WalksAgree ==
  ASSUME NEW rs, NEW p, NEW n \in Nat, NEW m \in Nat, NEW v, NEW w,
         Walks(v, n, rs, p), Walks(w, m, rs, p)
  PROVE  \A k \in Nat : k <= n /\ k <= m => v[k] = w[k]
<1> DEFINE S == {k \in Nat : k <= n /\ k <= m => v[k] = w[k]}
<1>1. 0 \in S
  BY DEF Walks
<1>2. ASSUME NEW k \in Nat, k \in S PROVE k + 1 \in S
  BY <1>2 DEF Walks
<1>3. Nat \subseteq S
  BY <1>1, <1>2, NatSetInduction
<1>4. QED
  BY <1>3

(* drop_rename_chain_ending_at, as a walk along the chain.                 *)
LEMMA DropWalks ==
  ASSUME NEW rs, NEW p
  PROVE  \E w : /\ w[0] = [pairs |-> rs, at |-> p]
                /\ \A n \in Nat : w[n + 1] = DropLink(w[n])
                /\ DropRenameChainEndingAt(rs, p) = w[Len(rs)].pairs
<1> DEFINE Of(n) == CHOOSE w : Walks(w, n, rs, p)
           g == [n \in Nat |-> Of(n)[n]]
<1>1. \A n \in Nat : Walks(Of(n), n, rs, p)
  BY WalkFor
<1> HIDE DEF Of
<1>2. \A n \in Nat : g[n] = IF n = 0 THEN [pairs |-> rs, at |-> p] ELSE DropLink(g[n - 1])
  <2> SUFFICES ASSUME NEW n \in Nat
               PROVE  Of(n)[n] = IF n = 0 THEN [pairs |-> rs, at |-> p] ELSE DropLink(Of(n - 1)[n - 1])
    OBVIOUS
  <2>1. Of(n)[n] = IF n = 0 THEN [pairs |-> rs, at |-> p] ELSE DropLink(Of(n)[n - 1])
    BY <1>1, WalkSteps
  <2>2. CASE n # 0
    <3>1. n - 1 \in Nat /\ Walks(Of(n), n, rs, p) /\ Walks(Of(n - 1), n - 1, rs, p)
      BY <1>1, <2>2
    <3>2. Of(n)[n - 1] = Of(n - 1)[n - 1]
      BY <3>1, WalksAgree
    <3>3. QED
      BY <2>1, <2>2, <3>2
  <2>3. QED
    BY <2>1, <2>2
<1> HIDE DEF Of
<1>3. g = [n \in Nat |-> IF n = 0 THEN [pairs |-> rs, at |-> p] ELSE DropLink(g[n - 1])]
  BY <1>2, Zenon
<1> HIDE DEF g
<1>4. \E w : /\ w = [n \in Nat |-> IF n = 0 THEN [pairs |-> rs, at |-> p] ELSE DropLink(w[n - 1])]
             /\ DropRenameChainEndingAt(rs, p) = w[Len(rs)].pairs
  BY <1>3, Zenon DEF DropRenameChainEndingAt
<1>5. PICK w : /\ w = [n \in Nat |-> IF n = 0 THEN [pairs |-> rs, at |-> p] ELSE DropLink(w[n - 1])]
               /\ DropRenameChainEndingAt(rs, p) = w[Len(rs)].pairs
  BY <1>4
<1>6. w[0] = [pairs |-> rs, at |-> p] /\ \A n \in Nat : w[n + 1] = DropLink(w[n])
  BY <1>5
<1>7. QED
  BY <1>5, <1>6

(* What is dropped is left out; the rest stays as it was.                  *)
LEMMA DropLinkTyped ==
  ASSUME NEW c, c.pairs \in Seq(Pair)
  PROVE  DropLink(c).pairs \in Seq(Pair)
<1> DEFINE I == EndsAt(c.pairs, c.at)
           i == CHOOSE k \in I : \A j \in I : k <= j
<1>1. CASE I = {}
  BY <1>1 DEF DropLink
<1>2. CASE I # {}
  <2>1. i \in I
    <3>1. I \subseteq Nat
      BY DEF EndsAt
    <3>2. \E k \in I : \A j \in I : k <= j
      BY <1>2, <3>1, LeastOf
    <3>3. QED
      BY <3>2
  <2> HIDE DEF i
  <2>2. i \in 1..Len(c.pairs)
    BY <2>1 DEF EndsAt
  <2>3. /\ SubSeq(c.pairs, 1, i - 1) \in Seq(Pair)
        /\ SubSeq(c.pairs, i + 1, Len(c.pairs)) \in Seq(Pair)
    BY <2>2, SubSeqProperties
  <2>4. DropLink(c).pairs = SubSeq(c.pairs, 1, i - 1) \o SubSeq(c.pairs, i + 1, Len(c.pairs))
    BY <1>2 DEF DropLink, i
  <2>5. QED
    BY <2>3, <2>4
<1>3. QED
  BY <1>1, <1>2

LEMMA DropTyped ==
  ASSUME NEW rs \in Seq(Pair), NEW p
  PROVE  DropRenameChainEndingAt(rs, p) \in Seq(Pair)
<1>1. PICK w : /\ w[0] = [pairs |-> rs, at |-> p]
               /\ \A n \in Nat : w[n + 1] = DropLink(w[n])
               /\ DropRenameChainEndingAt(rs, p) = w[Len(rs)].pairs
  BY DropWalks
<1> DEFINE S == {n \in Nat : w[n].pairs \in Seq(Pair)}
<1>2. 0 \in S
  BY <1>1
<1>3. ASSUME NEW n \in Nat, n \in S PROVE n + 1 \in S
  <2>1. w[n + 1] = DropLink(w[n]) /\ w[n].pairs \in Seq(Pair)
    BY <1>1, <1>3
  <2>2. w[n + 1].pairs \in Seq(Pair)
    BY <2>1, DropLinkTyped
  <2>3. QED
    BY <2>2
<1>4. Nat \subseteq S
  BY <1>2, <1>3, NatSetInduction
<1>5. QED
  BY <1>1, <1>4

(* A transaction has its fields, and its renames are pairs of paths.       *)
Shaped(t) == DOMAIN t = DOMAIN EmptyTx /\ t.renames \in Seq(Pair)

LEMMA HelpersShaped ==
  ASSUME NEW t, NEW p, NEW b, Shaped(t)
  PROVE  /\ Shaped(Put(t, p, b)) /\ Shaped(Forget(t, p)) /\ Shaped(Load(t, p))
         /\ Shaped(LoadForCreate(t, p)) /\ Shaped(LoadForPathOp(t, p))
         /\ Shaped(WriteFile(t, p, b)) /\ Shaped(FlushDocs(t))
         /\ Shaped(StageDelete(t, p)) /\ Shaped(DocRoot(t, p))
         /\ Shaped(WriteHits(t, b))
<1>1. Shaped(Put(t, p, b)) /\ Shaped(Forget(t, p)) /\ Shaped(FlushDocs(t)) /\ Shaped(WriteHits(t, b))
  BY DEF Shaped, Put, Forget, FlushDocs, WriteHits
<1>2. \A s : Shaped(Put(t, p, s))
  BY DEF Shaped, Put
<1>3. Shaped(Load(t, p)) /\ Shaped(LoadForCreate(t, p))
  BY <1>2 DEF Load, LoadForCreate, Shaped
<1>4. Shaped(LoadForPathOp(t, p))
  BY <1>3 DEF LoadForPathOp, Shaped
<1>5. \A c : Shaped(WriteFile(t, p, c))
  BY <1>2 DEF WriteFile, Shaped
<1>6. Shaped(StageDelete(t, p))
  BY <1>1, <1>5 DEF StageDelete, Shaped
<1>7. Shaped(DocRoot(t, p))
  BY <1>3 DEF DocRoot, Shaped
<1>8. QED
  BY <1>1, <1>3, <1>4, <1>5, <1>6, <1>7

(* What every operation but a doc one starts from and leaves: no document  *)
(* in the cache.                                                           *)
Flushed(t) == Shaped(t) /\ DOMAIN t.docs = {}

LEMMA HelpersFlushed ==
  /\ \A t : Shaped(t) => Flushed(FlushDocs(t))
  /\ \A t, p, b : Flushed(t) =>
       /\ Flushed(Put(t, p, b)) /\ Flushed(Load(t, p))
       /\ Flushed(LoadForCreate(t, p)) /\ Flushed(LoadForPathOp(t, p))
       /\ Flushed(WriteFile(t, p, b)) /\ Flushed(StageDelete(t, p))
       /\ Flushed(WriteHits(t, b))
<1>1. ASSUME NEW t, Shaped(t) PROVE Flushed(FlushDocs(t))
  <2>1. DOMAIN FlushDocs(t).docs = {}
    BY <1>1 DEF Shaped, EmptyTx, FlushDocs
  <2>2. QED
    BY <1>1, <2>1, HelpersShaped DEF Flushed
<1>2. ASSUME NEW t, NEW p, NEW b, Flushed(t)
      PROVE  /\ Flushed(Put(t, p, b)) /\ Flushed(Load(t, p))
             /\ Flushed(LoadForCreate(t, p)) /\ Flushed(LoadForPathOp(t, p))
             /\ Flushed(WriteFile(t, p, b)) /\ Flushed(StageDelete(t, p))
             /\ Flushed(WriteHits(t, b))
  <2>1. Shaped(t) /\ DOMAIN t.docs = {}
    BY <1>2 DEF Flushed
  <2>2. \A s : Put(t, p, s).docs = t.docs
    BY <2>1 DEF Shaped, EmptyTx, Put
  <2>3. Load(t, p).docs = t.docs /\ LoadForCreate(t, p).docs = t.docs
    BY <2>1, <2>2 DEF Shaped, EmptyTx, Load, LoadForCreate, Put
  <2>4. LoadForPathOp(t, p).docs = t.docs
    <3>1. Shaped(LoadForCreate(t, p))
      BY <2>1, HelpersShaped
    <3>2. QED
      BY <2>3, <3>1 DEF LoadForPathOp, Shaped, EmptyTx
  <2>5. \A c : WriteFile(t, p, c).docs = t.docs
    BY <2>1, <2>2 DEF WriteFile, Put, Shaped, EmptyTx
  <2>6. Forget(t, p).docs = t.docs /\ WriteHits(t, b).docs = t.docs
    BY <2>1 DEF Forget, WriteHits, Shaped, EmptyTx
  <2>7. StageDelete(t, p).docs = t.docs
    <3>1. Shaped(WriteFile(t, p, << >>))
      BY <2>1, HelpersShaped
    <3>2. QED
      BY <2>5, <2>6, <3>1 DEF StageDelete, Shaped, EmptyTx
  <2>8. QED
    BY <2>1, <2>2, <2>3, <2>4, <2>5, <2>6, <2>7, HelpersShaped DEF Flushed
<1>3. QED
  BY <1>1, <1>2

LEMMA FileOpFlushed == Shaped(tx) /\ FileOp => Flushed(tx')
<1> SUFFICES ASSUME Shaped(tx), FileOp PROVE Flushed(tx')
  OBVIOUS
<1> DEFINE t == FlushDocs(tx)
<1>0. Flushed(t)
  BY HelpersFlushed
<1> HIDE DEF t
<1>1. ASSUME NEW p \in Path, FileAppend(p) PROVE Flushed(tx')
  <2>1. tx' = WriteFile(Load(t, p), p, Append(Load(t, p).pending[p].cur, Edit))
    BY <1>1, Zenon DEF FileAppend, t
  <2>2. QED
    BY <1>0, <2>1, HelpersFlushed
<1>2. ASSUME NEW p \in Path, NEW b \in Contents, NEW force \in BOOLEAN, FileCreate(p, b, force)
      PROVE  Flushed(tx')
  <2> DEFINE l == IF force /\ Present(disk, p) THEN LoadForCreate(t, p) ELSE t
  <2>1. tx' = WriteFile(l, p, b)
    BY <1>2, Zenon DEF FileCreate, t
  <2>2. Flushed(l)
    BY <1>0, HelpersFlushed
  <2>3. QED
    BY <2>1, <2>2, HelpersFlushed
<1>3. ASSUME NEW p \in Path, NEW ifExists \in BOOLEAN, FileDelete(p, ifExists)
      PROVE  Flushed(tx')
  <2> DEFINE s == StageDelete(LoadForPathOp(t, p), p)
  <2>1. \/ tx' = t
        \/ tx' = [s EXCEPT !.renames = DropRenameChainEndingAt(@, p)]
    BY <1>3, Zenon DEF FileDelete, t
  <2>2. Flushed(s)
    BY <1>0, HelpersFlushed
  <2>3. DropRenameChainEndingAt(s.renames, p) \in Seq(Pair)
    BY <2>2, DropTyped DEF Flushed, Shaped
  <2> HIDE DEF s
  <2> DEFINE d == DropRenameChainEndingAt(s.renames, p)
             u == [s EXCEPT !.renames = d]
  <2>4. Flushed(u)
    <3> HIDE DEF d
    <3>1. DOMAIN u = DOMAIN s /\ u.renames = d /\ u.docs = s.docs
      BY <2>2 DEF Flushed, Shaped, EmptyTx
    <3>2. d \in Seq(Pair)
      BY <2>3 DEF d
    <3> HIDE DEF u
    <3>3. QED
      BY <2>2, <3>1, <3>2 DEF Flushed, Shaped
  <2>5. QED
    BY <1>0, <2>1, <2>4
<1>4. ASSUME NEW p \in Path, NEW q \in Path, NEW force \in BOOLEAN, FileRename(p, q, force)
      PROVE  Flushed(tx')
  <2> DEFINE l == LoadForPathOp(t, p)
             m == IF force /\ Present(disk, q) THEN LoadForPathOp(l, q) ELSE l
             w == WriteFile(m, q, l.pending[p].cur)
             kept == Present(disk, p) \/ p \in RenamedTo(t.renames)
             free == force \/ ~(Present(disk, q) /\ q \notin t.deletions)
             s == [w EXCEPT
                     !.soft = IF p \in m.soft THEN @ \cup {q} ELSE @,
                     !.renames = IF kept /\ free
                                 THEN Append(@, [from |-> p, to |-> q]) ELSE @]
  <2>1. tx' = StageDelete(s, p)
    BY <1>4, Zenon DEF FileRename, t
  <2>2. Flushed(m)
    BY <1>0, HelpersFlushed
  <2>3. Flushed(w)
    BY <2>2, HelpersFlushed
  <2> HIDE DEF w, m
  <2>4. Append(w.renames, [from |-> p, to |-> q]) \in Seq(Pair)
    BY <2>3 DEF Flushed, Shaped, Pair
  <2>5. Flushed(s)
    BY <2>3, <2>4 DEF Flushed, Shaped
  <2> HIDE DEF s
  <2>6. QED
    BY <2>1, <2>5, HelpersFlushed
<1>5. QED
  BY <1>1, <1>2, <1>3, <1>4, Zenon DEF FileOp

LEMMA PatchOpFlushed == Shaped(tx) /\ PatchOp => Flushed(tx')
<1> SUFFICES ASSUME Shaped(tx), PatchOp PROVE Flushed(tx')
  OBVIOUS
<1> DEFINE t == FlushDocs(tx)
<1>0. Flushed(t)
  BY HelpersFlushed
<1> HIDE DEF t
<1>1. ASSUME NEW p \in Path, NEW b \in Contents, PatchAdd(p, b) PROVE Flushed(tx')
  <2>1. tx' = WriteFile(t, p, b)
    BY <1>1, Zenon DEF PatchAdd, t
  <2>2. QED
    BY <1>0, <2>1, HelpersFlushed
<1>2. ASSUME NEW p \in Path, PatchDelete(p) PROVE Flushed(tx')
  <2>1. tx' = [Load(t, p) EXCEPT !.deletions = @ \cup {p}, !.writes = @ \cup {p}]
    BY <1>2, Zenon DEF PatchDelete, t
  <2>2. Flushed(Load(t, p))
    BY <1>0, HelpersFlushed
  <2>3. QED
    BY <2>1, <2>2 DEF Flushed, Shaped
<1>3. ASSUME NEW p \in Path, NEW h \in Hunks, PatchUpdate(p, h) PROVE Flushed(tx')
  <2>1. tx' = WriteFile(Load(t, p), p, Hunked(h, Load(t, p).pending[p].cur))
    BY <1>3, Zenon DEF PatchUpdate, t
  <2>2. QED
    BY <1>0, <2>1, HelpersFlushed
<1>4. ASSUME NEW p \in Path, NEW h \in Hunks, NEW q \in Path \ {p}, PatchMove(p, h, q)
      PROVE  Flushed(tx')
  <2> DEFINE l == Load(t, p)
             w == WriteFile(l, q, Hunked(h, l.pending[p].cur))
             u == Put(w, p, [orig |-> l.pending[p].orig, cur |-> << >>])
  <2>1. tx' = [u EXCEPT !.renames = Append(@, [from |-> p, to |-> q]),
                        !.deletions = @ \cup {p}]
    BY <1>4, Zenon DEF PatchMove, t
  <2>2. Flushed(u)
    BY <1>0, HelpersFlushed
  <2> HIDE DEF u
  <2>3. Append(u.renames, [from |-> p, to |-> q]) \in Seq(Pair)
    BY <2>2 DEF Flushed, Shaped, Pair
  <2>4. QED
    BY <2>1, <2>2, <2>3 DEF Flushed, Shaped
<1>5. QED
  BY <1>1, <1>2, <1>3, <1>4, Zenon DEF PatchOp

LEMMA TextOpFlushed == Shaped(tx) /\ TextOp => Flushed(tx')
<1> SUFFICES ASSUME Shaped(tx), TextOp PROVE Flushed(tx')
  OBVIOUS
<1> DEFINE t == FlushDocs(tx)
<1>0. Flushed(t) /\ \A p : Flushed(Load(t, p))
  BY HelpersFlushed
<1> HIDE DEF t
<1>1. ASSUME NEW p \in Path, ReadOp(p) PROVE Flushed(tx')
  <2>1. tx' = Load(t, p)
    BY <1>1, Zenon DEF ReadOp, t
  <2>2. QED
    BY <1>0, <2>1
<1>2. ASSUME NEW p \in Path, NEW ifExists \in BOOLEAN, Replace(p, ifExists) PROVE Flushed(tx')
  <2>1. tx' \in {WriteFile(Load(t, p), p, Replaced(Body0(t, p))), Load(t, p), t}
    BY <1>2, Zenon DEF Replace, t
  <2>2. QED
    BY <1>0, <2>1, HelpersFlushed
<1>3. ASSUME NEW S \in SUBSET Path, ReplaceGlob(S) PROVE Flushed(tx')
  <2>1. tx' = WriteHits(t, GlobHits(t, S))
    BY <1>3, Zenon DEF ReplaceGlob, t
  <2>2. QED
    BY <1>0, <2>1, HelpersFlushed
<1>4. ASSUME NEW p \in Path, MdEdit(p) PROVE Flushed(tx')
  <2>1. tx' = WriteFile(Load(t, p), p, Append(Body0(t, p), Edit))
    BY <1>4, Zenon DEF MdEdit, t
  <2>2. QED
    BY <1>0, <2>1, HelpersFlushed
<1>5. ASSUME NEW p \in Path, TidyFix(p) PROVE Flushed(tx')
  <2> DEFINE o == Load(t, p)
             l == [o EXCEPT !.writes = @ \cup {p}]
             u == Put(l, p, [orig |-> l.pending[p].orig, cur |-> Tidied(Body0(t, p))])
  <2>1. tx' \in {l, [u EXCEPT !.deletions = @ \ {p}]}
    BY <1>5, Zenon DEF TidyFix, t
  <2>2. Flushed(o)
    BY <1>0
  <2> HIDE DEF o
  <2>3. Flushed(l)
    BY <2>2 DEF Flushed, Shaped
  <2> HIDE DEF l
  <2>4. Flushed(u)
    BY <2>3, HelpersFlushed
  <2> HIDE DEF u
  <2>5. Flushed([u EXCEPT !.deletions = @ \ {p}])
    BY <2>4 DEF Flushed, Shaped
  <2>6. QED
    BY <2>1, <2>3, <2>5
<1>6. ASSUME NEW p \in Path, NEW q \in Path \ {p}, MdMoveSection(p, q) PROVE Flushed(tx')
  <2> DEFINE m == Load(Load(t, p), q)
  <2>1. tx' = WriteFile(WriteFile(m, p, Rest(m.pending[p].cur)), q,
                        m.pending[q].cur \o Part(m.pending[p].cur))
    BY <1>6, Zenon DEF MdMoveSection, t
  <2>2. Flushed(m)
    BY <1>0, HelpersFlushed
  <2> HIDE DEF m
  <2>3. QED
    BY <2>1, <2>2, HelpersFlushed
<1>7. ASSUME NEW p \in Path, NEW q \in Path \ {p}, AstMove(p, q) PROVE Flushed(tx')
  <2> DEFINE l == Load(t, p)
             m == IF Exists(t, q) THEN Load(l, q) ELSE l
             c == IF Exists(t, q) THEN m.pending[q].cur ELSE << >>
  <2>1. tx' = WriteFile(WriteFile(m, p, Rest(m.pending[p].cur)), q,
                        c \o Part(m.pending[p].cur))
    BY <1>7, Zenon DEF AstMove, t
  <2>2. Flushed(m)
    BY <1>0, HelpersFlushed
  <2> HIDE DEF m
  <2>3. QED
    BY <2>1, <2>2, HelpersFlushed
<1>8. ASSUME NEW p \in Path, NEW q \in Path \ {p}, NEW force \in BOOLEAN,
             AstExtract(p, q, force)
      PROVE  Flushed(tx')
  <2> DEFINE l == Load(t, p)
  <2>1. tx' = WriteFile(WriteFile(l, p, Rest(l.pending[p].cur)), q, Part(l.pending[p].cur))
    BY <1>8, Zenon DEF AstExtract, t
  <2>2. Flushed(l)
    BY <1>0
  <2> HIDE DEF l
  <2>3. QED
    BY <2>1, <2>2, HelpersFlushed
<1>9. QED
  BY <1>1, <1>2, <1>3, <1>4, <1>5, <1>6, <1>7, <1>8, Zenon DEF TextOp

LEMMA DocOpShaped == Shaped(tx) /\ DocOp => Shaped(tx')
<1> SUFFICES ASSUME Shaped(tx), DocOp PROVE Shaped(tx')
  OBVIOUS
<1>1. ASSUME NEW p \in Path, NEW ifExists \in BOOLEAN, NEW change \in BOOLEAN,
             DocEdit(p, ifExists, change)
      PROVE  Shaped(tx')
  <2> DEFINE r == DocRoot(tx, p)
  <2>1. tx' \in {tx, r, [r EXCEPT !.docs[p] = Append(@, Edit)]}
    BY <1>1, Zenon DEF DocEdit
  <2>2. Shaped(r)
    BY HelpersShaped
  <2> HIDE DEF r
  <2>3. Shaped([r EXCEPT !.docs[p] = Append(@, Edit)])
    BY <2>2 DEF Shaped
  <2>4. QED
    BY <2>1, <2>2, <2>3
<1>2. QED
  BY <1>1, Zenon DEF DocOp

LEMMA StepShaped == Shaped(tx) /\ StagingNext => Shaped(tx')
BY FileOpFlushed, PatchOpFlushed, TextOpFlushed, DocOpShaped, HelpersShaped
   DEF StagingNext, Refuse, Collect, Flushed

-----------------------------------------------------------------------------
(***************************************************************************)
(* What a transaction t, begun on the workspace d, has of the files f it   *)
(* stands for, path by path.  Of a path that is staged: the original, when *)
(* it was found on disk; and of its text, f, unless it is staged for       *)
(* deletion or was loaded softly.  What no operation wrote is as it was.   *)
(* A soft load that is pending no more was a file of the plan's own        *)
(* making.                                                                 *)
(***************************************************************************)
StagedAt(d, t, f, p) ==
  /\ p \in t.existed => Present(d, p) /\ t.pending[p].orig = Snapshot(d, p)
  /\ p \notin t.existed => t.pending[p].orig = << >>
  /\ p \in t.deletions => f[p] = NoFile
  /\ p \notin t.deletions /\ p \notin t.soft => f[p] = Text(t.pending[p].cur)
  /\ p \notin t.deletions /\ p \in t.soft =>
       f[p].kind = "binary" /\ t.pending[p].cur = << >>
  /\ p \notin t.deletions /\ p \notin t.writes =>
       p \in t.existed /\ t.pending[p].cur = t.pending[p].orig /\ f[p] = d[p]

UnstagedAt(d, t, f, p) ==
  /\ p \notin t.existed
  /\ p \notin t.deletions
  /\ p \in t.soft => ~Present(d, p)
  /\ f[p] = d[p]

At(d, t, f, p) ==
  /\ p \in DOMAIN t.pending => StagedAt(d, t, f, p)
  /\ p \notin DOMAIN t.pending => UnstagedAt(d, t, f, p)

Fits(d, t, f) == DOMAIN t.docs = {} /\ \A p \in Path : At(d, t, f, p)

(* Two transactions say the same of a path.                                *)
SameAt(t, u, p) ==
  /\ p \in DOMAIN u.pending <=> p \in DOMAIN t.pending
  /\ p \in DOMAIN t.pending => u.pending[p] = t.pending[p]
  /\ p \in u.existed <=> p \in t.existed
  /\ p \in u.deletions <=> p \in t.deletions
  /\ p \in u.writes <=> p \in t.writes
  /\ p \in u.soft <=> p \in t.soft

(* Two transactions that differ at most at one path.                       *)
SameBut(t, u, p) == u.docs = t.docs /\ u.renames = t.renames /\ \A q : q # p => SameAt(t, u, q)

LEMMA SameFits ==
  ASSUME NEW d, NEW t, NEW u, NEW f, NEW g, NEW p,
         At(d, t, f, p), SameAt(t, u, p), g[p] = f[p]
  PROVE  At(d, u, g, p)
BY DEF At, StagedAt, UnstagedAt, SameAt

(* The files are files, and nothing is at a path in one way.               *)
FilesOK(d) == d \in [Path -> File] /\ \A p \in Path : d[p].kind = "none" => d[p] = NoFile

LEMMA FileKinds ==
  ASSUME NEW d, FilesOK(d), NEW p \in Path
  PROVE  /\ d[p].kind = "text" => d[p] = Text(d[p].body)
         /\ d[p].kind \in {"none", "text", "binary"}
         /\ ~Present(d, p) => d[p] = NoFile
BY DEF FilesOK, File, Kind, Text, Present

-----------------------------------------------------------------------------
(* The helpers, one lemma each.                                            *)

LEMMA LoadForCreateAt ==
  ASSUME NEW t, NEW p
  PROVE  LET l == LoadForCreate(t, p)
         IN  /\ SameBut(t, l, p)
             /\ p \in DOMAIN l.pending
             /\ l.deletions = t.deletions /\ l.writes = t.writes /\ l.soft = t.soft
             /\ p \in DOMAIN t.pending => l = t
             /\ p \notin DOMAIN t.pending =>
                  /\ l.pending[p] = [orig |-> Snapshot(disk, p), cur |-> Snapshot(disk, p)]
                  /\ p \in l.existed
BY DEF LoadForCreate, Put, SameBut, SameAt

LEMMA LoadForPathOpAt ==
  ASSUME NEW t, NEW p
  PROVE  LET l == LoadForPathOp(t, p)
         IN  /\ SameBut(t, l, p)
             /\ p \in DOMAIN l.pending
             /\ l.deletions = t.deletions /\ l.writes = t.writes
             /\ p \in DOMAIN t.pending => l = t
             /\ p \notin DOMAIN t.pending =>
                  /\ l.pending[p] = [orig |-> Snapshot(disk, p), cur |-> Snapshot(disk, p)]
                  /\ p \in l.existed
                  /\ l.soft = IF disk[p].kind = "binary" THEN t.soft \cup {p} ELSE t.soft
BY DEF LoadForPathOp, LoadForCreate, Put, SameBut, SameAt

LEMMA LoadAt ==
  ASSUME NEW t, NEW p
  PROVE  LET l == Load(t, p)
         IN  /\ SameBut(t, l, p)
             /\ p \in DOMAIN l.pending
             /\ l.deletions = t.deletions /\ l.writes = t.writes /\ l.soft = t.soft
             /\ p \in DOMAIN t.pending => l = t
             /\ p \notin DOMAIN t.pending =>
                  /\ l.pending[p] = [orig |-> disk[p].body, cur |-> disk[p].body]
                  /\ p \in l.existed
BY DEF Load, Put, SameBut, SameAt

LEMMA WriteFileAt ==
  ASSUME NEW t, NEW p, NEW b
  PROVE  LET w == WriteFile(t, p, b)
         IN  /\ SameBut(t, w, p)
             /\ p \in DOMAIN w.pending
             /\ w.existed = t.existed
             /\ p \notin w.deletions /\ p \in w.writes /\ p \notin w.soft
             /\ w.pending[p].cur = b
             /\ p \in DOMAIN t.pending => w.pending[p].orig = t.pending[p].orig
             /\ p \notin DOMAIN t.pending => w.pending[p].orig = << >>
BY DEF WriteFile, Put, SameBut, SameAt

LEMMA PutAt ==
  ASSUME NEW t, NEW p, NEW s
  PROVE  LET u == Put(t, p, s)
         IN  /\ SameBut(t, u, p)
             /\ p \in DOMAIN u.pending
             /\ u.pending[p] = s
             /\ u.existed = t.existed /\ u.deletions = t.deletions
             /\ u.writes = t.writes /\ u.soft = t.soft
BY DEF Put, SameBut, SameAt

-----------------------------------------------------------------------------
(* What they leave of a transaction that fits.                             *)
FitsBut(d, t, f, p) == DOMAIN t.docs = {} /\ \A q \in Path : q # p => At(d, t, f, q)

Origin(d, t, p) ==
  /\ p \in t.existed =>
       p \in DOMAIN t.pending /\ Present(d, p) /\ t.pending[p].orig = Snapshot(d, p)
  /\ p \in DOMAIN t.pending /\ p \notin t.existed => t.pending[p].orig = << >>

(* What is written stays a change, what is staged stays staged, and no     *)
(* binary is newly staged.                                                 *)
Steady(t, u, f, g) ==
  /\ u.renames = t.renames
  /\ DOMAIN t.pending \subseteq DOMAIN u.pending
  /\ t.writes \subseteq u.writes
  /\ \A p \in DOMAIN u.pending :
       g[p].kind = "binary" => p \in DOMAIN t.pending /\ g[p] = f[p]

LEMMA FitsOrigin ==
  ASSUME NEW d, NEW t, NEW f, NEW p \in Path, Fits(d, t, f)
  PROVE  Origin(d, t, p) /\ FitsBut(d, t, f, p)
BY DEF Fits, FitsBut, At, StagedAt, UnstagedAt, Origin

LEMMA SameButFits ==
  ASSUME NEW d, NEW t, NEW u, NEW f, NEW g, NEW p,
         FitsBut(d, t, f, p), SameBut(t, u, p), \A q \in Path : q # p => g[q] = f[q]
  PROVE  FitsBut(d, u, g, p)
BY SameFits DEF FitsBut, SameBut

LEMMA FitsAll ==
  ASSUME NEW d, NEW t, NEW f, NEW p, FitsBut(d, t, f, p), At(d, t, f, p)
  PROVE  Fits(d, t, f)
BY DEF Fits, FitsBut

LEMMA FlushSame ==
  ASSUME NEW t, TypedTx(t), DOMAIN t.docs = {}
  PROVE  /\ \A p : SameAt(t, FlushDocs(t), p)
         /\ FlushDocs(t).renames = t.renames
         /\ DOMAIN FlushDocs(t).docs = {}
         /\ FlushDocs(t).pending = t.pending
         /\ FlushDocs(t).writes = t.writes
BY DEF FlushDocs, SameAt, TypedTx, IsPartialFn

(* A path that is loaded is what the files have.                           *)
LEMMA LoadFits ==
  ASSUME NEW t, NEW f, NEW p \in Path, FilesOK(disk), Fits(disk, t, f), CanLoad(t, p)
  PROVE  /\ Fits(disk, Load(t, p), f)
         /\ p \in DOMAIN Load(t, p).pending
         /\ DOMAIN Load(t, p).pending = DOMAIN t.pending \cup {p}
         /\ Steady(t, Load(t, p), f, f)
<1> DEFINE l == Load(t, p)
<1>1. CASE p \in DOMAIN t.pending
  BY <1>1 DEF Load, Steady
<1>2. CASE p \notin DOMAIN t.pending
  <2>1. /\ SameBut(t, l, p) /\ p \in DOMAIN l.pending
        /\ l.deletions = t.deletions /\ l.writes = t.writes /\ l.soft = t.soft
        /\ l.pending[p] = [orig |-> disk[p].body, cur |-> disk[p].body]
        /\ p \in l.existed
    BY <1>2, LoadAt
  <2>2. /\ disk[p].kind = "text" /\ Present(disk, p) /\ disk[p] = Text(disk[p].body)
        /\ Snapshot(disk, p) = disk[p].body
    BY <1>2, FileKinds DEF CanLoad, Present, Snapshot
  <2>3. p \notin t.deletions /\ p \notin t.soft /\ f[p] = disk[p]
    BY <1>2, <2>2 DEF Fits, At, UnstagedAt
  <2> HIDE DEF l
  <2>4. At(disk, l, f, p)
    BY <2>1, <2>2, <2>3 DEF At, StagedAt
  <2>5. FitsBut(disk, l, f, p)
    BY <2>1, SameButFits, FitsOrigin
  <2>6. Fits(disk, l, f)
    BY <2>4, <2>5, FitsAll
  <2>7. DOMAIN l.pending = DOMAIN t.pending \cup {p}
    BY <2>1 DEF SameBut, SameAt
  <2>8. Steady(t, l, f, f)
    BY <2>1, <2>2, <2>3, <2>7 DEF Steady, SameBut
  <2>9. QED
    BY <2>6, <2>7, <2>8 DEF l
<1>3. QED
  BY <1>1, <1>2

LEMMA LoadForPathOpFits ==
  ASSUME NEW t, NEW f, NEW p \in Path, FilesOK(disk), Fits(disk, t, f),
         p \in DOMAIN t.pending \/ Present(disk, p)
  PROVE  LET l == LoadForPathOp(t, p)
         IN  /\ Fits(disk, l, f)
             /\ DOMAIN l.pending = DOMAIN t.pending \cup {p}
             /\ SameBut(t, l, p)
             /\ l.renames = t.renames /\ l.writes = t.writes /\ l.deletions = t.deletions
<1> DEFINE l == LoadForPathOp(t, p)
<1>0. SameBut(t, l, p) /\ l.renames = t.renames /\ l.writes = t.writes /\ l.deletions = t.deletions
  BY LoadForPathOpAt DEF SameBut
<1>1. CASE p \in DOMAIN t.pending
  <2>1. l = t
    BY <1>1 DEF LoadForPathOp
  <2>2. QED
    BY <1>0, <1>1, <2>1
<1>2. CASE p \notin DOMAIN t.pending
  <2>1. /\ SameBut(t, l, p) /\ p \in DOMAIN l.pending
        /\ l.deletions = t.deletions /\ l.writes = t.writes
        /\ l.soft = IF disk[p].kind = "binary" THEN t.soft \cup {p} ELSE t.soft
        /\ l.pending[p] = [orig |-> Snapshot(disk, p), cur |-> Snapshot(disk, p)]
        /\ p \in l.existed
    BY <1>2, LoadForPathOpAt
  <2>2. /\ disk[p].kind = "text" => disk[p] = Text(disk[p].body) /\ Snapshot(disk, p) = disk[p].body
        /\ disk[p].kind = "binary" => Snapshot(disk, p) = << >>
        /\ disk[p].kind \in {"text", "binary"}
    BY <1>2, FileKinds DEF Present, Snapshot
  <2>3. p \notin t.deletions /\ p \notin t.soft /\ f[p] = disk[p]
    BY <1>2, <2>2 DEF Fits, At, UnstagedAt, Present
  <2> HIDE DEF l
  <2>4. At(disk, l, f, p)
    BY <1>2, <2>1, <2>2, <2>3 DEF At, StagedAt
  <2>5. FitsBut(disk, l, f, p)
    BY <2>1, SameButFits, FitsOrigin
  <2>6. Fits(disk, l, f)
    BY <2>4, <2>5, FitsAll
  <2>7. DOMAIN l.pending = DOMAIN t.pending \cup {p}
    BY <2>1 DEF SameBut, SameAt
  <2>8. QED
    BY <1>0, <2>6, <2>7 DEF l
<1>3. QED
  BY <1>1, <1>2

(* A path is written, loaded or not.                                       *)
LEMMA WriteFits ==
  ASSUME NEW d, NEW t, NEW f, NEW g, NEW p \in Path, NEW b,
         FitsBut(d, t, f, p), Origin(d, t, p),
         g[p] = Text(b), \A q \in Path : q # p => g[q] = f[q]
  PROVE  /\ Fits(d, WriteFile(t, p, b), g)
         /\ DOMAIN WriteFile(t, p, b).pending = DOMAIN t.pending \cup {p}
<1> DEFINE w == WriteFile(t, p, b)
<1>1. /\ SameBut(t, w, p) /\ p \in DOMAIN w.pending
      /\ w.existed = t.existed
      /\ p \notin w.deletions /\ p \in w.writes /\ p \notin w.soft
      /\ w.pending[p].cur = b
      /\ p \in DOMAIN t.pending => w.pending[p].orig = t.pending[p].orig
      /\ p \notin DOMAIN t.pending => w.pending[p].orig = << >>
  BY WriteFileAt
<1> HIDE DEF w
<1>2. At(d, w, g, p)
  BY <1>1 DEF At, StagedAt, Origin
<1>3. FitsBut(d, w, g, p)
  BY <1>1, SameButFits
<1>4. Fits(d, w, g)
  BY <1>2, <1>3, FitsAll
<1>5. DOMAIN w.pending = DOMAIN t.pending \cup {p}
  BY <1>1 DEF SameBut, SameAt
<1>6. QED
  BY <1>4, <1>5 DEF w

LEMMA WriteSteady ==
  ASSUME NEW t, NEW f, NEW g, NEW p \in Path, NEW b, TypedTx(t),
         g[p] = Text(b), \A q \in Path : q # p => g[q] = f[q]
  PROVE  Steady(t, WriteFile(t, p, b), f, g)
<1>1. /\ DOMAIN WriteFile(t, p, b).pending = DOMAIN t.pending \cup {p}
      /\ WriteFile(t, p, b).writes = t.writes \cup {p}
      /\ WriteFile(t, p, b).renames = t.renames
  BY DEF WriteFile, Put
<1>2. DOMAIN t.pending \subseteq Path
  BY DEF TypedTx, IsPartialFn
<1>3. QED
  BY <1>1, <1>2 DEF Steady, Text

LEMMA SteadyTrans ==
  ASSUME NEW t, NEW u, NEW v, NEW f, NEW g, NEW h, Steady(t, u, f, g), Steady(u, v, g, h)
  PROVE  Steady(t, v, f, h)
BY DEF Steady

(* What is staged for deletion is gone, whether it was on disk or not.     *)
LEMMA StageDeleteFits ==
  ASSUME NEW t, NEW f, NEW g, NEW p \in Path, FilesOK(disk),
         FitsBut(disk, t, f, p), Origin(disk, t, p), p \in DOMAIN t.pending,
         g[p] = NoFile, \A q \in Path : q # p => g[q] = f[q]
  PROVE  LET s == StageDelete(t, p)
         IN  /\ Fits(disk, s, g)
             /\ SameBut(t, s, p)
             /\ p \in DOMAIN s.pending => p \in s.deletions
             /\ p \in DOMAIN s.pending \/ ~Present(disk, p)
<1> DEFINE s == StageDelete(t, p)
           w == WriteFile(t, p, << >>)
<1>1. CASE Present(disk, p)
  <2>1. /\ s.pending = w.pending /\ s.soft = w.soft /\ s.docs = w.docs
        /\ s.existed = w.existed /\ s.writes = w.writes /\ s.renames = w.renames
        /\ s.deletions = w.deletions \cup {p}
    BY <1>1 DEF StageDelete, WriteFile, Put
  <2>2. /\ SameBut(t, w, p) /\ p \in DOMAIN w.pending
        /\ w.existed = t.existed /\ p \in w.writes
        /\ w.pending[p].orig = t.pending[p].orig
    BY WriteFileAt
  <2> HIDE DEF w, s
  <2>3. SameBut(t, s, p)
    BY <2>1, <2>2 DEF SameBut, SameAt
  <2>4. At(disk, s, g, p)
    BY <2>1, <2>2 DEF At, StagedAt, Origin
  <2>5. FitsBut(disk, s, g, p)
    BY <2>3, SameButFits
  <2>6. Fits(disk, s, g)
    BY <2>4, <2>5, FitsAll
  <2>7. QED
    BY <2>1, <2>2, <2>3, <2>6 DEF s
<1>2. CASE ~Present(disk, p)
  <2>1. t.pending[p].orig = << >> /\ p \notin t.existed
    BY <1>2 DEF Origin
  <2>2. s = Forget(t, p)
    BY <1>2, <2>1 DEF StageDelete
  <2>3. /\ s.pending = [q \in DOMAIN t.pending \ {p} |-> t.pending[q]]
        /\ s.deletions = t.deletions \ {p}
        /\ s.soft = t.soft /\ s.docs = t.docs /\ s.renames = t.renames
        /\ s.existed = t.existed /\ s.writes = t.writes
    BY <2>2 DEF Forget
  <2> HIDE DEF s
  <2>4. SameBut(t, s, p)
    BY <2>3 DEF SameBut, SameAt
  <2>5. g[p] = disk[p]
    BY <1>2, FileKinds
  <2>6. At(disk, s, g, p)
    BY <1>2, <2>1, <2>3, <2>5 DEF At, UnstagedAt
  <2>7. FitsBut(disk, s, g, p)
    BY <2>4, SameButFits
  <2>8. Fits(disk, s, g)
    BY <2>6, <2>7, FitsAll
  <2>9. p \notin DOMAIN s.pending
    BY <2>3
  <2>10. QED
    BY <1>2, <2>4, <2>8, <2>9 DEF s
<1>3. QED
  BY <1>1, <1>2

-----------------------------------------------------------------------------
(* What staging finds is what the files have.                              *)

LEMMA ExistsIsPresent ==
  ASSUME NEW t, NEW f, NEW p \in Path, FilesOK(disk), Fits(disk, t, f)
  PROVE  Exists(t, p) <=> Present(f, p)
<1>1. At(disk, t, f, p)
  BY DEF Fits
<1>2. CASE p \in DOMAIN t.pending
  BY <1>1, <1>2 DEF At, StagedAt, Exists, Present, NoFile, Text
<1>3. CASE p \notin DOMAIN t.pending
  BY <1>1, <1>3 DEF At, UnstagedAt, Exists, Present
<1>4. QED
  BY <1>2, <1>3

LEMMA EditableIsText ==
  ASSUME NEW t, NEW f, NEW p \in Path, FilesOK(disk), Fits(disk, t, f)
  PROVE  /\ CanAppend(t, p) <=> CanEdit(f, p)
         /\ CanEdit(f, p) => /\ CanLoad(t, p) /\ Exists(t, p) /\ p \notin t.soft
                             /\ Load(t, p).pending[p].cur = f[p].body
                             /\ Body0(t, p) = f[p].body
                             /\ f[p] = Text(f[p].body)
                             /\ p \notin t.deletions
<1>1. At(disk, t, f, p)
  BY DEF Fits
<1>2. CASE p \in DOMAIN t.pending
  BY <1>1, <1>2
     DEF At, StagedAt, CanAppend, CanLoad, CanEdit, IsText, NoFile, Text, Load, Exists, Body0
<1>3. CASE p \notin DOMAIN t.pending
  <2>1. p \notin t.deletions /\ f[p] = disk[p] /\ (p \in t.soft => disk[p].kind # "text")
    BY <1>1, <1>3, FileKinds DEF At, UnstagedAt, NoFile, Present
  <2>2. Load(t, p).pending[p] = [orig |-> disk[p].body, cur |-> disk[p].body]
    BY <1>3, LoadAt
  <2>3. disk[p].kind = "text" => disk[p] = Text(disk[p].body) /\ Present(disk, p)
    BY FileKinds DEF Present
  <2>4. QED
    BY <1>3, <2>1, <2>2, <2>3 DEF CanAppend, CanLoad, CanEdit, IsText, Exists, Body0
<1>4. QED
  BY <1>2, <1>3

LEMMA CreateAllowed ==
  ASSUME NEW t, NEW f, NEW p \in Path, NEW force \in BOOLEAN, FilesOK(disk), Fits(disk, t, f)
  PROVE  CanFileCreate(t, p, force) <=> CanCreate(f, p, force)
BY ExistsIsPresent DEF CanFileCreate, CanCreate

LEMMA DeleteAllowed ==
  ASSUME NEW t, NEW f, NEW p \in Path, FilesOK(disk), Fits(disk, t, f)
  PROVE  CanFileDelete(t, p) /\ p \notin t.deletions <=> CanDelete(f, p)
BY ExistsIsPresent DEF CanFileDelete, CanDelete, Exists

LEMMA RenameAllowed ==
  ASSUME NEW t, NEW f, NEW p \in Path, NEW q \in Path \ {p}, NEW force \in BOOLEAN,
         FilesOK(disk), Fits(disk, t, f)
  PROVE  CanFileRename(t, p, q, force) <=> CanRename(f, p, q, force)
<1>1. (Exists(t, p) <=> Present(f, p)) /\ (Exists(t, q) <=> Present(f, q))
  BY ExistsIsPresent
<1>2. QED
  BY <1>1 DEF CanFileRename, CanRename, Exists

-----------------------------------------------------------------------------
(* An edit of a text that the files have.                                  *)
LEMMA EditFits ==
  ASSUME NEW t, NEW f \in [Path -> File], NEW p \in Path, NEW b, FilesOK(disk), TypedTx(t),
         Fits(disk, t, f), CanEdit(f, p)
  PROVE  /\ Fits(disk, WriteFile(Load(t, p), p, b), DoPut(f, p, b))
         /\ Steady(t, WriteFile(Load(t, p), p, b), f, DoPut(f, p, b))
<1> DEFINE l == Load(t, p)
           g == DoPut(f, p, b)
<1>1. /\ Fits(disk, l, f) /\ Steady(t, l, f, f) /\ TypedTx(l)
  BY EditableIsText, LoadFits, LoadTyped DEF FilesOK
<1>2. g[p] = Text(b) /\ \A q \in Path : q # p => g[q] = f[q]
  BY DEF DoPut
<1> HIDE DEF l, g
<1>3. Fits(disk, WriteFile(l, p, b), g)
  BY <1>1, <1>2, FitsOrigin, WriteFits
<1>4. Steady(l, WriteFile(l, p, b), f, g)
  BY <1>1, <1>2, WriteSteady
<1>5. QED
  BY <1>1, <1>3, <1>4, SteadyTrans DEF l, g

(* A new text where the files have nothing.                                *)
LEMMA AddFits ==
  ASSUME NEW t, NEW f \in [Path -> File], NEW p \in Path, NEW b, FilesOK(disk), TypedTx(t),
         Fits(disk, t, f)
  PROVE  /\ Fits(disk, WriteFile(t, p, b), DoPut(f, p, b))
         /\ Steady(t, WriteFile(t, p, b), f, DoPut(f, p, b))
<1> DEFINE g == DoPut(f, p, b)
<1>1. g[p] = Text(b) /\ \A q \in Path : q # p => g[q] = f[q]
  BY DEF DoPut
<1> HIDE DEF g
<1>2. Fits(disk, WriteFile(t, p, b), g)
  BY <1>1, FitsOrigin, WriteFits
<1>3. Steady(t, WriteFile(t, p, b), f, g)
  BY <1>1, WriteSteady
<1>4. QED
  BY <1>2, <1>3 DEF g

(* A new text where a file may be, which is loaded first.                  *)
LEMMA ReplaceFits ==
  ASSUME NEW t, NEW f \in [Path -> File], NEW p \in Path, NEW b, FilesOK(disk), TypedTx(t),
         Fits(disk, t, f), Present(disk, p)
  PROVE  /\ Fits(disk, WriteFile(LoadForCreate(t, p), p, b), DoPut(f, p, b))
         /\ Steady(t, WriteFile(LoadForCreate(t, p), p, b), f, DoPut(f, p, b))
<1>1. CASE p \in DOMAIN t.pending
  <2>1. LoadForCreate(t, p) = t
    BY <1>1 DEF LoadForCreate
  <2>2. QED
    BY <2>1, AddFits
<1>2. CASE p \notin DOMAIN t.pending
  <2> DEFINE l == LoadForCreate(t, p)
             g == DoPut(f, p, b)
  <2>1. g[p] = Text(b) /\ \A q \in Path : q # p => g[q] = f[q]
    BY DEF DoPut
  <2>2. /\ SameBut(t, l, p) /\ p \in DOMAIN l.pending /\ p \in l.existed
        /\ l.writes = t.writes
        /\ l.pending[p] = [orig |-> Snapshot(disk, p), cur |-> Snapshot(disk, p)]
    BY <1>2, LoadForCreateAt
  <2>3. TypedTx(l)
    BY LoadForCreateTyped DEF FilesOK
  <2> HIDE DEF l, g
  <2>3a. FitsBut(disk, l, f, p)
    BY <2>2, FitsOrigin, SameButFits
  <2>4. FitsBut(disk, l, f, p) /\ Origin(disk, l, p)
    BY <2>2, <2>3a DEF Origin
  <2>5. Fits(disk, WriteFile(l, p, b), g)
    BY <2>1, <2>4, WriteFits
  <2>6. /\ DOMAIN WriteFile(l, p, b).pending = DOMAIN l.pending \cup {p}
        /\ WriteFile(l, p, b).writes = l.writes \cup {p}
        /\ WriteFile(l, p, b).renames = l.renames
    BY DEF WriteFile, Put
  <2>7. DOMAIN l.pending \subseteq Path
    BY <2>3 DEF TypedTx, IsPartialFn
  <2>8. Steady(t, WriteFile(l, p, b), f, g)
    BY <2>1, <2>2, <2>6, <2>7 DEF Steady, SameBut, SameAt, Text
  <2>9. QED
    BY <2>5, <2>8 DEF l, g
<1>3. QED
  BY <1>1, <1>2

LEMMA SteadyRefl == ASSUME NEW t, NEW f PROVE Steady(t, t, f, f)
BY DEF Steady

-----------------------------------------------------------------------------
(* The operations, each from its flushed cache t, when the files allow it. *)
Fitting(t) ==
  FilesOK(disk) /\ want \in [Path -> File] /\ TypedTx(t) /\ Fits(disk, t, want)

LEMMA AppendFits ==
  ASSUME NEW p \in Path, Fitting(FlushDocs(tx)), FileAppend(p)
  PROVE  Fits(disk, tx', want') /\ Steady(FlushDocs(tx), tx', want, want')
<1> DEFINE t == FlushDocs(tx)
           b == Append(want[p].body, Edit)
<1>1. /\ CanAppend(t, p)
      /\ tx' = WriteFile(Load(t, p), p, Append(Load(t, p).pending[p].cur, Edit))
      /\ Meant(CanEdit(want, p), DoAppend(want, p, Edit))
  BY Zenon DEF FileAppend
<1> HIDE DEF t
<1>2. Fitting(t)
  BY DEF t
<1>3. CanEdit(want, p) /\ Load(t, p).pending[p].cur = want[p].body
  BY <1>1, <1>2, EditableIsText DEF Fitting
<1>4. tx' = WriteFile(Load(t, p), p, b) /\ want' = DoPut(want, p, b)
  BY <1>1, <1>3 DEF Meant, DoAppend, DoPut
<1>5. QED
  BY <1>2, <1>3, <1>4, EditFits DEF Fitting, t

LEMMA CreateFits ==
  ASSUME NEW p \in Path, NEW b \in Contents, NEW force \in BOOLEAN,
         Fitting(FlushDocs(tx)), FileCreate(p, b, force)
  PROVE  Fits(disk, tx', want') /\ Steady(FlushDocs(tx), tx', want, want')
<1> DEFINE t == FlushDocs(tx)
<1>1. /\ CanFileCreate(t, p, force)
      /\ tx' = WriteFile(IF force /\ Present(disk, p) THEN LoadForCreate(t, p) ELSE t, p, b)
      /\ Meant(CanCreate(want, p, force), DoPut(want, p, b))
  BY Zenon DEF FileCreate
<1> HIDE DEF t
<1>2. Fitting(t)
  BY DEF t
<1>3. want' = DoPut(want, p, b)
  BY <1>1, <1>2, CreateAllowed DEF Meant, Fitting
<1>4. CASE force /\ Present(disk, p)
  BY <1>1, <1>2, <1>3, <1>4, ReplaceFits DEF Fitting, t
<1>5. CASE ~(force /\ Present(disk, p))
  BY <1>1, <1>2, <1>3, <1>5, AddFits DEF Fitting, t
<1>6. QED
  BY <1>4, <1>5

LEMMA PatchAddFits ==
  ASSUME NEW p \in Path, NEW b \in Contents, Fitting(FlushDocs(tx)), PatchAdd(p, b)
  PROVE  Fits(disk, tx', want') /\ Steady(FlushDocs(tx), tx', want, want')
<1> DEFINE t == FlushDocs(tx)
<1>1. /\ ~Exists(t, p)
      /\ tx' = WriteFile(t, p, b)
      /\ Meant(CanCreate(want, p, FALSE), DoPut(want, p, b))
  BY Zenon DEF PatchAdd
<1> HIDE DEF t
<1>2. Fitting(t)
  BY DEF t
<1>3. want' = DoPut(want, p, b)
  BY <1>1, <1>2, ExistsIsPresent DEF Meant, Fitting, CanCreate
<1>4. QED
  BY <1>1, <1>2, <1>3, AddFits DEF Fitting, t

LEMMA PatchDeleteFits ==
  ASSUME NEW p \in Path, Fitting(FlushDocs(tx)), PatchDelete(p)
  PROVE  Fits(disk, tx', want') /\ Steady(FlushDocs(tx), tx', want, want')
<1> DEFINE t == FlushDocs(tx)
           l == Load(t, p)
           g == DoDelete(want, p)
<1>1. /\ Exists(t, p) /\ CanLoad(t, p)
      /\ tx' = [l EXCEPT !.deletions = @ \cup {p}, !.writes = @ \cup {p}]
      /\ Meant(CanDelete(want, p), DoDelete(want, p))
  BY Zenon DEF PatchDelete
<1> HIDE DEF t
<1>2. Fitting(t)
  BY DEF t
<1>3. want' = g
  BY <1>1, <1>2, ExistsIsPresent DEF Meant, Fitting, CanDelete
<1>4. /\ Fits(disk, l, want) /\ p \in DOMAIN l.pending
      /\ DOMAIN l.pending = DOMAIN t.pending \cup {p}
      /\ Steady(t, l, want, want) /\ TypedTx(l)
  BY <1>1, <1>2, LoadFits, LoadTyped DEF Fitting, FilesOK
<1> HIDE DEF l, g
<1>5. /\ tx'.pending = l.pending /\ tx'.docs = l.docs /\ tx'.soft = l.soft
      /\ tx'.existed = l.existed /\ tx'.renames = l.renames
      /\ tx'.deletions = l.deletions \cup {p} /\ tx'.writes = l.writes \cup {p}
  BY <1>1, <1>4 DEF TypedTx
<1>6. g[p] = NoFile /\ \A q \in Path : q # p => g[q] = want[q]
  BY <1>2 DEF DoDelete, Fitting, g
<1>7. DOMAIN l.pending \subseteq Path
  BY <1>4 DEF TypedTx, IsPartialFn
<1>8. SameBut(l, tx', p)
  BY <1>5 DEF SameBut, SameAt
<1>9. At(disk, tx', g, p)
  BY <1>4, <1>5, <1>6 DEF Fits, At, StagedAt
<1>10. Fits(disk, tx', g)
  BY <1>4, <1>6, <1>8, <1>9, FitsOrigin, SameButFits, FitsAll
<1>11. Steady(l, tx', want, g)
  BY <1>5, <1>6, <1>7 DEF Steady, NoFile
<1>12. Steady(t, tx', want, g)
  BY <1>4, <1>11, SteadyTrans
<1>13. QED
  BY <1>3, <1>10, <1>12 DEF t

LEMMA PatchUpdateFits ==
  ASSUME NEW p \in Path, NEW h \in Hunks, Fitting(FlushDocs(tx)), CanEdit(want, p),
         PatchUpdate(p, h)
  PROVE  Fits(disk, tx', want') /\ Steady(FlushDocs(tx), tx', want, want')
<1> DEFINE t == FlushDocs(tx)
           b == Hunked(h, want[p].body)
<1>1. /\ tx' = WriteFile(Load(t, p), p, Hunked(h, Load(t, p).pending[p].cur))
      /\ Meant(CanEdit(want, p), DoPut(want, p, b))
  BY Zenon DEF PatchUpdate
<1> HIDE DEF t, b
<1>2. Fitting(t)
  BY DEF t
<1>3. tx' = WriteFile(Load(t, p), p, b) /\ want' = DoPut(want, p, b)
  BY <1>1, <1>2, EditableIsText DEF Fitting, Meant, b
<1>4. QED
  BY <1>2, <1>3, EditFits DEF Fitting, t

(* A file is deleted: nothing else of the transaction changes, but the     *)
(* chain of renames that ends at it.                                       *)
Deletes(t, u, f, g, p) ==
  /\ u.renames = DropRenameChainEndingAt(t.renames, p)
  /\ DOMAIN t.pending \ {p} \subseteq DOMAIN u.pending
  /\ p \in DOMAIN u.pending \/ ~Present(disk, p)
  /\ t.writes \subseteq u.writes
  /\ g[p] = NoFile
  /\ \A x \in DOMAIN u.pending :
       g[x].kind = "binary" => x \in DOMAIN t.pending /\ g[x] = f[x]

LEMMA DeleteFits ==
  ASSUME NEW p \in Path, NEW ifExists \in BOOLEAN, Fitting(FlushDocs(tx)), Shaped(FlushDocs(tx)),
         FileDelete(p, ifExists)
  PROVE  /\ Fits(disk, tx', want')
         /\ \/ Steady(FlushDocs(tx), tx', want, want')
            \/ Deletes(FlushDocs(tx), tx', want, want', p)
<1> DEFINE t == FlushDocs(tx)
           l == LoadForPathOp(t, p)
           s == StageDelete(l, p)
           g == DoDelete(want, p)
<1>1. \/ /\ ifExists /\ ~Exists(t, p)
         /\ tx' = t
      \/ /\ CanFileDelete(t, p)
         /\ tx' = [s EXCEPT !.renames = DropRenameChainEndingAt(@, p)]
  BY Zenon DEF FileDelete
<1>2. want' = IF ifExists \/ CanDelete(want, p) THEN g ELSE want
  BY Zenon DEF FileDelete, Meant
<1>3. Shaped(s) /\ TypedTx(l)
  BY HelpersShaped, LoadForPathOpTyped DEF Fitting, FilesOK
<1> HIDE DEF t
<1>4. Fitting(t) /\ At(disk, t, want, p) /\ t.deletions \subseteq DOMAIN t.pending
  BY DEF t, Fitting, Fits, TypedTx
<1>5. g \in [Path -> File] /\ g[p] = NoFile /\ \A q \in Path : q # p => g[q] = want[q]
  BY <1>4, FilesTyped DEF DoDelete, Fitting
<1>6. ~Exists(t, p) => want[p] = NoFile
  BY <1>4, FileKinds DEF At, StagedAt, UnstagedAt, Exists, Fitting
<1>7. CanFileDelete(t, p) /\ ~CanDelete(want, p) => want[p] = NoFile
  BY <1>4, <1>6, ExistsIsPresent DEF Fitting, CanDelete
<1>8. ASSUME want[p] = NoFile PROVE g = want
  BY <1>4, <1>5, <1>8 DEF Fitting, DoDelete
<1> HIDE DEF g
<1>9. CASE ifExists /\ ~Exists(t, p) /\ tx' = t
  <2>1. want' = want
    BY <1>2, <1>6, <1>8, <1>9
  <2>2. QED
    BY <1>4, <1>9, <2>1, SteadyRefl DEF Fitting, t
<1>10. CASE /\ CanFileDelete(t, p)
            /\ tx' = [s EXCEPT !.renames = DropRenameChainEndingAt(@, p)]
  <2>1. want' = g
    BY <1>2, <1>7, <1>8, <1>10
  <2>1a. p \in DOMAIN t.pending \/ Present(disk, p)
    BY <1>10 DEF CanFileDelete
  <2>2. Fits(disk, l, want) /\ p \in DOMAIN l.pending /\ l.renames = t.renames /\ l.writes = t.writes
        /\ DOMAIN l.pending = DOMAIN t.pending \cup {p}
    BY <1>4, <2>1a, LoadForPathOpFits DEF Fitting
  <2> HIDE DEF l
  <2>3. /\ Fits(disk, s, g) /\ SameBut(l, s, p)
        /\ p \in DOMAIN s.pending => p \in s.deletions
        /\ p \in DOMAIN s.pending \/ ~Present(disk, p)
    BY <1>4, <1>5, <2>2, FitsOrigin, StageDeleteFits DEF Fitting
  <2>4. l.writes \subseteq s.writes
    BY DEF StageDelete, Forget, WriteFile, Put
  <2> HIDE DEF s
  <2>5. /\ tx'.pending = s.pending /\ tx'.docs = s.docs /\ tx'.deletions = s.deletions
        /\ tx'.existed = s.existed /\ tx'.writes = s.writes /\ tx'.soft = s.soft
        /\ tx'.renames = DropRenameChainEndingAt(s.renames, p)
    BY <1>3, <1>10 DEF Shaped, EmptyTx
  <2>6. Fits(disk, tx', g)
    BY <2>3, <2>5, SameFits DEF Fits, SameAt
  <2>7. tx'.renames = DropRenameChainEndingAt(t.renames, p)
    BY <2>2, <2>3, <2>5 DEF SameBut
  <2>8. \A x : x # p => (x \in DOMAIN s.pending <=> x \in DOMAIN t.pending)
    BY <2>2, <2>3 DEF SameBut, SameAt
  <2>9. DOMAIN s.pending \subseteq Path
    BY <1>3, <2>2, <2>3 DEF SameBut, SameAt, TypedTx, IsPartialFn
  <2>10. Deletes(t, tx', want, g, p)
    BY <1>5, <2>2, <2>3, <2>4, <2>5, <2>7, <2>8, <2>9 DEF Deletes, NoFile
  <2>11. QED
    BY <2>1, <2>6, <2>10 DEF t
<1>11. QED
  BY <1>1, <1>9, <1>10

(* A file is moved.  The rename is recorded, but of a file the plan made.  *)
Moves(t, u, f, g, p, q) ==
  /\ \/ u.renames = Append(t.renames, [from |-> p, to |-> q])
     \/ /\ u.renames = t.renames
        /\ ~Present(disk, p) /\ p \notin RenamedTo(t.renames)
  /\ (DOMAIN t.pending \ {p}) \cup {q} \subseteq DOMAIN u.pending
  /\ p \in DOMAIN u.pending \/ ~Present(disk, p)
  /\ t.writes \cup {q} \subseteq u.writes
  /\ f[p] # NoFile /\ p \notin t.deletions
  /\ g[p] = NoFile
  /\ g[q].kind = "binary" => g[q] = f[p]
  /\ \A x \in DOMAIN u.pending \ {q} :
       g[x].kind = "binary" => x \in DOMAIN t.pending /\ g[x] = f[x]

LEMMA RenameFits ==
  ASSUME NEW p \in Path, NEW q \in Path, NEW force \in BOOLEAN,
         Fitting(FlushDocs(tx)), Shaped(FlushDocs(tx)), FileRename(p, q, force)
  PROVE  p # q /\ Fits(disk, tx', want') /\ Moves(FlushDocs(tx), tx', want, want', p, q)
<1> DEFINE t == FlushDocs(tx)
           l == LoadForPathOp(t, p)
           m == IF force /\ Present(disk, q) THEN LoadForPathOp(l, q) ELSE l
           kept == Present(disk, p) \/ p \in RenamedTo(t.renames)
           free == force \/ ~(Present(disk, q) /\ q \notin t.deletions)
           w == WriteFile(m, q, l.pending[p].cur)
           s == [w EXCEPT
                   !.soft = IF p \in m.soft THEN @ \cup {q} ELSE @,
                   !.renames = IF kept /\ free
                               THEN Append(@, [from |-> p, to |-> q]) ELSE @]
           f == [want EXCEPT ![q] = want[p]]
           g == DoRename(want, p, q)
<1>1. /\ p # q
      /\ CanFileRename(t, p, q, force)
      /\ tx' = StageDelete(s, p)
      /\ Meant(CanRename(want, p, q, force), g)
  BY Zenon DEF FileRename
<1>2. Shaped(w) /\ TypedTx(l)
  BY HelpersShaped, LoadForPathOpTyped DEF Fitting, FilesOK
<1>3. TypedTx(m)
  BY <1>2, LoadForPathOpTyped DEF Fitting, FilesOK
<1> HIDE DEF t
<1>4. Fitting(t)
  BY DEF t
<1>5. want' = g /\ Present(want, p)
  BY <1>1, <1>4, RenameAllowed DEF Fitting, Meant, CanRename
<1>6. /\ Fits(disk, l, want) /\ DOMAIN l.pending = DOMAIN t.pending \cup {p}
      /\ l.renames = t.renames /\ l.writes = t.writes /\ l.deletions = t.deletions
  BY <1>1, <1>4, LoadForPathOpFits DEF Fitting, CanFileRename
<1> HIDE DEF l
<1>7. /\ Fits(disk, m, want) /\ DOMAIN l.pending \subseteq DOMAIN m.pending
      /\ DOMAIN m.pending \subseteq DOMAIN l.pending \cup {q}
      /\ SameBut(l, m, q) /\ m.renames = t.renames /\ m.writes = t.writes
      /\ m.deletions = t.deletions
  <2>1. CASE force /\ Present(disk, q)
    <3>1. m = LoadForPathOp(l, q)
      BY <2>1
    <3> HIDE DEF m
    <3>2. /\ Fits(disk, m, want)
          /\ DOMAIN m.pending = DOMAIN l.pending \cup {q}
          /\ SameBut(l, m, q)
          /\ m.renames = l.renames /\ m.writes = l.writes /\ m.deletions = l.deletions
      BY <1>4, <1>6, <2>1, <3>1, LoadForPathOpFits DEF Fitting
    <3>3. QED
      BY <1>6, <3>2
  <2>2. CASE ~(force /\ Present(disk, q))
    BY <1>6, <2>2 DEF SameBut, SameAt
  <2>3. QED
    BY <2>1, <2>2
<1> HIDE DEF m
<1>8. /\ SameBut(m, w, q) /\ q \in DOMAIN w.pending
      /\ w.existed = m.existed
      /\ q \notin w.deletions /\ q \in w.writes /\ q \notin w.soft
      /\ w.pending[q].cur = l.pending[p].cur
      /\ q \in DOMAIN m.pending => w.pending[q].orig = m.pending[q].orig
      /\ q \notin DOMAIN m.pending => w.pending[q].orig = << >>
  BY WriteFileAt
<1> HIDE DEF w
<1>9. /\ s.pending = w.pending /\ s.docs = w.docs /\ s.existed = w.existed
      /\ s.deletions = w.deletions /\ s.writes = w.writes
      /\ s.soft = IF p \in m.soft THEN w.soft \cup {q} ELSE w.soft
      /\ s.renames = IF kept /\ free THEN Append(w.renames, [from |-> p, to |-> q])
                     ELSE w.renames
  BY <1>2 DEF Shaped, EmptyTx
<1> HIDE DEF s
<1>10. m.pending[p] = l.pending[p] /\ p \in DOMAIN m.pending /\ p \notin m.deletions
  BY <1>1, <1>6, <1>7 DEF SameBut, SameAt, CanFileRename
<1>11. /\ p \notin m.soft => want[p] = Text(l.pending[p].cur)
       /\ p \in m.soft => want[p].kind = "binary" /\ l.pending[p].cur = << >>
  BY <1>7, <1>10 DEF Fits, At, StagedAt
<1>12. f[q] = want[p] /\ \A x \in Path : x # q => f[x] = want[x]
  BY <1>4 DEF Fitting
<1>13. g[p] = NoFile /\ \A x \in Path : x # p => g[x] = f[x]
  BY <1>1, <1>4 DEF Fitting, DoRename
<1> HIDE DEF f, g
<1>14. SameBut(m, w, q) /\ \A x : x # q => SameAt(m, s, x)
  BY <1>8, <1>9 DEF SameBut, SameAt
<1>15. Origin(disk, m, q) /\ FitsBut(disk, m, want, q)
  BY <1>7, FitsOrigin
<1>16. At(disk, s, f, q)
  BY <1>8, <1>9, <1>11, <1>12, <1>15 DEF At, StagedAt, Origin
<1>17. \A x \in Path : x # q => At(disk, s, f, x)
  BY <1>12, <1>14, <1>15, SameFits DEF FitsBut
<1>18. Fits(disk, s, f) /\ p \in DOMAIN s.pending
  BY <1>8, <1>9, <1>10, <1>14, <1>15, <1>16, <1>17 DEF Fits, FitsBut, SameBut, SameAt
<1>19. /\ Fits(disk, tx', g) /\ SameBut(s, tx', p)
       /\ p \in DOMAIN tx'.pending \/ ~Present(disk, p)
  BY <1>1, <1>4, <1>13, <1>18, FitsOrigin, StageDeleteFits DEF Fitting
<1>20. s.writes \subseteq tx'.writes
  BY <1>1 DEF StageDelete, Forget, WriteFile, Put
<1>21. free /\ (~kept => ~Present(disk, p) /\ p \notin RenamedTo(t.renames))
  BY <1>1, <1>4 DEF CanFileRename, Exists, Fitting
<1>22. \/ tx'.renames = Append(t.renames, [from |-> p, to |-> q])
       \/ tx'.renames = t.renames /\ ~Present(disk, p) /\ p \notin RenamedTo(t.renames)
  BY <1>7, <1>8, <1>9, <1>19, <1>21 DEF SameBut
<1>23. (DOMAIN t.pending \ {p}) \cup {q} \subseteq DOMAIN tx'.pending
  BY <1>1, <1>6, <1>7, <1>8, <1>9, <1>14, <1>19 DEF SameBut, SameAt
<1>24. t.writes \cup {q} \subseteq tx'.writes
  BY <1>7, <1>8, <1>9, <1>14, <1>20 DEF SameBut, SameAt
<1>25. \A x : x # p /\ x # q => (x \in DOMAIN tx'.pending <=> x \in DOMAIN t.pending)
  BY <1>6, <1>7, <1>14, <1>19 DEF SameBut, SameAt
<1>26. DOMAIN tx'.pending \subseteq Path
  BY <1>3, <1>14, <1>19 DEF SameBut, SameAt, TypedTx, IsPartialFn
<1>27. want[p] # NoFile /\ p \notin t.deletions
  BY <1>1, <1>5 DEF Present, NoFile, CanFileRename
<1>28. \A x \in DOMAIN tx'.pending \ {q} :
         g[x].kind = "binary" => x \in DOMAIN t.pending /\ g[x] = want[x]
  BY <1>12, <1>13, <1>25, <1>26 DEF NoFile
<1>29. g[q].kind = "binary" => g[q] = want[p]
  BY <1>1, <1>12, <1>13
<1>30. Moves(t, tx', want, g, p, q)
  BY <1>13, <1>19, <1>22, <1>23, <1>24, <1>27, <1>28, <1>29 DEF Moves
<1>31. QED
  BY <1>1, <1>5, <1>19, <1>30 DEF t

LEMMA PatchMoveFits ==
  ASSUME NEW p \in Path, NEW h \in Hunks, NEW q \in Path \ {p},
         Fitting(FlushDocs(tx)), Shaped(FlushDocs(tx)), CanEdit(want, p),
         CanRename(want, p, q, FALSE), PatchMove(p, h, q)
  PROVE  Fits(disk, tx', want') /\ Moves(FlushDocs(tx), tx', want, want', p, q)
<1> DEFINE t == FlushDocs(tx)
           l == Load(t, p)
           b == Hunked(h, want[p].body)
           w == WriteFile(l, q, Hunked(h, l.pending[p].cur))
           u == Put(w, p, [orig |-> l.pending[p].orig, cur |-> << >>])
           f == [want EXCEPT ![q] = Text(b)]
           g == DoRename(DoPut(want, p, b), p, q)
<1>1. /\ CanPatchUpdate(t, p, h)
      /\ tx' = [u EXCEPT !.renames = Append(@, [from |-> p, to |-> q]),
                         !.deletions = @ \cup {p}]
      /\ Meant(CanEdit(want, p) /\ CanRename(want, p, q, FALSE), g)
  BY Zenon DEF PatchMove
<1>2. Shaped(u)
  BY HelpersShaped
<1> HIDE DEF t
<1>3. Fitting(t)
  BY DEF t
<1>4. want' = g
  BY <1>1 DEF Meant
<1>5. /\ CanLoad(t, p) /\ p \notin t.deletions
      /\ l.pending[p].cur = want[p].body
  BY <1>3, EditableIsText DEF Fitting
<1>6. /\ Fits(disk, l, want) /\ p \in DOMAIN l.pending
      /\ DOMAIN l.pending = DOMAIN t.pending \cup {p}
      /\ l.writes = t.writes /\ l.renames = t.renames /\ TypedTx(l)
  BY <1>3, <1>5, LoadFits, LoadAt, LoadTyped DEF Fitting, FilesOK, SameBut
<1>7. f[q] = Text(b) /\ \A x \in Path : x # q => f[x] = want[x]
  BY <1>3 DEF Fitting
<1>8. /\ g[p] = NoFile /\ g[q] = Text(b)
      /\ \A x \in Path : x # p => g[x] = f[x]
  BY <1>3 DEF Fitting, DoRename, DoPut
<1> HIDE DEF l, f, g
<1>9. w = WriteFile(l, q, b)
  BY <1>5
<1> HIDE DEF b
<1>10. /\ Fits(disk, w, f)
       /\ DOMAIN w.pending = DOMAIN l.pending \cup {q}
  BY <1>6, <1>7, <1>9, FitsOrigin, WriteFits
<1>11. /\ w.existed = l.existed /\ w.pending[p] = l.pending[p] /\ w.renames = l.renames
       /\ w.writes = l.writes \cup {q}
  BY <1>6, <1>9 DEF WriteFile, Put
<1> HIDE DEF w
<1>12. /\ SameBut(w, u, p) /\ p \in DOMAIN u.pending
       /\ u.pending[p] = [orig |-> l.pending[p].orig, cur |-> << >>]
       /\ u.existed = w.existed /\ u.deletions = w.deletions
       /\ u.writes = w.writes /\ u.soft = w.soft
  BY PutAt
<1> HIDE DEF u
<1>13. /\ tx'.pending = u.pending /\ tx'.docs = u.docs /\ tx'.soft = u.soft
       /\ tx'.existed = u.existed /\ tx'.writes = u.writes
       /\ tx'.deletions = u.deletions \cup {p}
       /\ tx'.renames = Append(u.renames, [from |-> p, to |-> q])
  BY <1>1, <1>2 DEF Shaped, EmptyTx
<1>14. Origin(disk, w, p) /\ FitsBut(disk, w, f, p)
  BY <1>10, FitsOrigin
<1>15. At(disk, tx', g, p)
  BY <1>6, <1>8, <1>10, <1>11, <1>12, <1>13, <1>14 DEF At, StagedAt, Origin
<1>16. \A x \in Path : x # p => At(disk, tx', g, x)
  <2> SUFFICES ASSUME NEW x \in Path, x # p PROVE At(disk, tx', g, x)
    OBVIOUS
  <2>1. SameAt(w, tx', x)
    BY <1>12, <1>13 DEF SameBut, SameAt
  <2>2. At(disk, w, f, x) /\ g[x] = f[x]
    BY <1>8, <1>14 DEF FitsBut
  <2>3. QED
    BY <2>1, <2>2, SameFits
<1>17. Fits(disk, tx', g)
  BY <1>12, <1>13, <1>14, <1>15, <1>16 DEF Fits, FitsBut, SameBut
<1>18. DOMAIN tx'.pending = DOMAIN t.pending \cup {p, q}
  BY <1>6, <1>10, <1>12, <1>13 DEF SameBut, SameAt
<1>19. DOMAIN tx'.pending \subseteq Path
  BY <1>3, <1>18 DEF Fitting, TypedTx, IsPartialFn
<1>20. want[p] # NoFile
  BY DEF CanEdit, IsText, NoFile
<1>21. \A x \in DOMAIN tx'.pending \ {q} :
         g[x].kind = "binary" => x \in DOMAIN t.pending /\ g[x] = want[x]
  BY <1>7, <1>8, <1>18, <1>19 DEF NoFile
<1>22. tx'.renames = Append(t.renames, [from |-> p, to |-> q]) /\ t.writes \cup {q} \subseteq tx'.writes
  BY <1>6, <1>11, <1>12, <1>13 DEF SameBut
<1>23. Moves(t, tx', want, g, p, q)
  BY <1>5, <1>8, <1>18, <1>20, <1>21, <1>22 DEF Moves, Text
<1>24. QED
  BY <1>4, <1>17, <1>23 DEF t

(***************************************************************************)
(* The cache of documents.  A document that is cached is of a text that    *)
(* the files have, so a flush of it is as an edit of that text.            *)
(***************************************************************************)
Clean(t) ==
  \A p \in DOMAIN t.docs : p \in DOMAIN t.pending /\ p \notin t.deletions /\ p \notin t.soft

LEMMA FlushAt ==
  ASSUME NEW t, NEW p
  PROVE  LET u == FlushDocs(t)
         IN  /\ DOMAIN u.docs = {} /\ u.renames = t.renames
             /\ DOMAIN u.pending = DOMAIN t.pending \cup DOMAIN t.docs
             /\ u.existed = t.existed /\ u.soft = t.soft
             /\ u.writes = t.writes \cup DOMAIN t.docs
             /\ u.deletions = t.deletions \ DOMAIN t.docs
             /\ p \notin DOMAIN t.docs => SameAt(t, u, p)
             /\ p \in DOMAIN t.docs => u.pending[p].cur = t.docs[p]
             /\ p \in DOMAIN t.docs \cap DOMAIN t.pending => u.pending[p].orig = t.pending[p].orig
BY DEF FlushDocs, SameAt

(* Two transactions that differ at most at one path, cache and all.        *)
LEMMA FlushBut ==
  ASSUME NEW t, NEW u, NEW p,
         \A q : q # p => SameAt(t, u, q),
         \A q : q # p => (q \in DOMAIN u.docs <=> q \in DOMAIN t.docs),
         \A q \in DOMAIN t.docs : q # p => u.docs[q] = t.docs[q]
  PROVE  \A q : q # p => SameAt(FlushDocs(t), FlushDocs(u), q)
BY DEF FlushDocs, SameAt

LEMMA CacheFits ==
  ASSUME NEW t, NEW u, NEW f, NEW g, NEW p \in Path, NEW b,
         Fits(disk, FlushDocs(t), f), Clean(t), DOMAIN u.pending \subseteq Path,
         u.renames = t.renames,
         \A q : q # p => SameAt(t, u, q),
         \A q : q # p => (q \in DOMAIN u.docs <=> q \in DOMAIN t.docs),
         \A q \in DOMAIN t.docs : q # p => u.docs[q] = t.docs[q],
         p \in DOMAIN u.docs, u.docs[p] = b, p \in DOMAIN u.pending,
         p \notin u.deletions, p \notin u.soft, Origin(disk, u, p),
         p \in t.writes => p \in u.writes,
         g[p] = Text(b), \A q \in Path : q # p => g[q] = f[q]
  PROVE  /\ Fits(disk, FlushDocs(u), g) /\ Clean(u)
         /\ Steady(FlushDocs(t), FlushDocs(u), f, g)
<1> DEFINE v == FlushDocs(t)
           w == FlushDocs(u)
<1>1. \A q : q # p => SameAt(v, w, q)
  BY FlushBut
<1>2. Clean(u)
  BY DEF Clean, SameAt
<1>3. /\ DOMAIN w.docs = {} /\ w.renames = u.renames /\ v.renames = t.renames
      /\ DOMAIN w.pending = DOMAIN u.pending \cup DOMAIN u.docs
      /\ w.existed = u.existed /\ w.soft = u.soft
      /\ w.writes = u.writes \cup DOMAIN u.docs
      /\ w.deletions = u.deletions \ DOMAIN u.docs
      /\ w.pending[p].cur = b
      /\ w.pending[p].orig = u.pending[p].orig
  BY FlushAt
<1> HIDE DEF v, w
<1>4. At(disk, w, g, p)
  BY <1>3 DEF At, StagedAt, Origin
<1>5. ASSUME NEW q \in Path, q # p PROVE At(disk, w, g, q)
  <2>1. At(disk, v, f, q)
    BY DEF Fits, v
  <2>2. QED
    BY <1>1, <1>5, <2>1, SameFits
<1>6. Fits(disk, w, g)
  BY <1>3, <1>4, <1>5 DEF Fits
<1>7. \A q \in DOMAIN w.pending : q # p => q \in Path /\ q \in DOMAIN v.pending
  BY <1>1, <1>2, <1>3 DEF SameAt, Clean
<1>8. v.writes \subseteq w.writes /\ DOMAIN v.pending \subseteq DOMAIN w.pending
  BY <1>1, <1>3 DEF SameAt
<1>9. Steady(v, w, f, g)
  BY <1>3, <1>7, <1>8 DEF Steady, Text
<1>10. QED
  BY <1>2, <1>6, <1>9 DEF v, w

(* What is found in the flushed cache is found in the cache.               *)
LEMMA CachedFile ==
  ASSUME NEW t, NEW f, NEW p \in Path, FilesOK(disk), Fits(disk, FlushDocs(t), f), Clean(t)
  PROVE  /\ Origin(disk, t, p)
         /\ Exists(t, p) <=> Present(f, p)
         /\ p \in DOMAIN t.docs => f[p] = Text(t.docs[p])
         /\ CanEdit(f, p) => p \notin t.deletions /\ p \notin t.soft
         /\ CanEdit(f, p) /\ p \notin DOMAIN t.docs => At(disk, t, f, p) /\ CanLoad(t, p)
<1> DEFINE u == FlushDocs(t)
<1>1. /\ DOMAIN u.pending = DOMAIN t.pending \cup DOMAIN t.docs
      /\ u.existed = t.existed /\ u.soft = t.soft
      /\ u.writes = t.writes \cup DOMAIN t.docs
      /\ u.deletions = t.deletions \ DOMAIN t.docs
      /\ p \notin DOMAIN t.docs => SameAt(t, u, p)
      /\ p \in DOMAIN t.docs => u.pending[p].cur = t.docs[p]
      /\ p \in DOMAIN t.docs \cap DOMAIN t.pending => u.pending[p].orig = t.pending[p].orig
  BY FlushAt
<1> HIDE DEF u
<1>2. Fits(disk, u, f) /\ At(disk, u, f, p) /\ Origin(disk, u, p)
  BY FitsOrigin DEF u, Fits
<1>3. Exists(u, p) <=> Present(f, p)
  BY <1>2, ExistsIsPresent
<1>4. p \in DOMAIN t.docs => p \in DOMAIN t.pending /\ p \notin t.deletions /\ p \notin t.soft
  BY DEF Clean
<1>5. Exists(t, p) <=> Exists(u, p)
  BY <1>1, <1>4 DEF Exists
<1>6. Origin(disk, t, p)
  BY <1>1, <1>2, <1>4 DEF Origin, SameAt
<1>7. p \in DOMAIN t.docs => f[p] = Text(t.docs[p])
  BY <1>1, <1>2, <1>4 DEF At, StagedAt
<1>8. CanEdit(f, p) => p \notin u.deletions /\ p \notin u.soft /\ CanLoad(u, p)
  BY <1>2, EditableIsText
<1>9. p \notin DOMAIN t.docs => At(disk, t, f, p)
  BY <1>1, <1>2 DEF At, StagedAt, UnstagedAt, SameAt
<1>10. p \notin DOMAIN t.docs /\ CanLoad(u, p) => CanLoad(t, p)
  BY <1>1 DEF CanLoad
<1>11. CanEdit(f, p) => p \notin t.deletions /\ p \notin t.soft
  BY <1>1, <1>4, <1>8
<1>12. QED
  BY <1>3, <1>5, <1>6, <1>7, <1>8, <1>9, <1>10, <1>11

LEMMA DocFits ==
  ASSUME NEW p \in Path, NEW ifExists \in BOOLEAN, NEW change \in BOOLEAN,
         Fitting(FlushDocs(tx)), Clean(tx), TypedTx(tx), Shaped(tx),
         DocEdit(p, ifExists, change),
         CanEdit(want, p) \/ (ifExists /\ ~Present(want, p))
  PROVE  /\ Fits(disk, FlushDocs(tx'), want') /\ Clean(tx')
         /\ Steady(FlushDocs(tx), FlushDocs(tx'), want, want')
<1> DEFINE r == DocRoot(tx, p)
           l == Load(tx, p)
<1>1. \/ ifExists /\ ~Exists(tx, p) /\ tx' = tx
      \/ /\ ~(ifExists /\ ~Exists(tx, p))
         /\ tx' = IF change THEN [r EXCEPT !.docs[p] = Append(@, Edit)] ELSE r
  BY Zenon DEF DocEdit
<1>2. want' = IF change /\ CanEdit(want, p) THEN DoAppend(want, p, Edit) ELSE want
  BY Zenon DEF DocEdit, Meant
<1>3. /\ Origin(disk, tx, p)
      /\ Exists(tx, p) <=> Present(want, p)
      /\ p \in DOMAIN tx.docs => want[p] = Text(tx.docs[p])
      /\ CanEdit(want, p) => p \notin tx.deletions /\ p \notin tx.soft
      /\ CanEdit(want, p) /\ p \notin DOMAIN tx.docs => At(disk, tx, want, p) /\ CanLoad(tx, p)
  BY CachedFile DEF Fitting
<1>4. CASE ifExists /\ ~Exists(tx, p) /\ tx' = tx
  <2>1. want' = want
    BY <1>2, <1>3, <1>4 DEF CanEdit, IsText, Present
  <2>2. QED
    BY <1>4, <2>1, SteadyRefl DEF Fitting
<1>5. CASE /\ ~(ifExists /\ ~Exists(tx, p))
           /\ tx' = IF change THEN [r EXCEPT !.docs[p] = Append(@, Edit)] ELSE r
  <2>1. CanEdit(want, p)
    BY <1>3, <1>5
  <2> DEFINE b == IF change THEN Append(want[p].body, Edit) ELSE want[p].body
  <2>2. want[p] = Text(want[p].body)
    BY <2>1, EditableIsText DEF Fitting
  <2>3. want'[p] = Text(b) /\ \A q \in Path : q # p => want'[q] = want[q]
    BY <1>2, <2>1, <2>2 DEF DoAppend, Fitting
  <2>4. TypedTx(r) /\ Shaped(r)
    BY DocRootTyped, HelpersShaped DEF Fitting, FilesOK
  <2>5. /\ r.renames = tx.renames /\ r.writes = tx.writes
        /\ r.deletions = tx.deletions /\ r.soft = tx.soft
        /\ \A q : q # p => SameAt(tx, r, q)
        /\ \A q : q # p => (q \in DOMAIN r.docs <=> q \in DOMAIN tx.docs)
        /\ \A q \in DOMAIN tx.docs : q # p => r.docs[q] = tx.docs[q]
        /\ p \in DOMAIN r.docs /\ r.docs[p] = want[p].body
        /\ p \in DOMAIN r.pending /\ Origin(disk, r, p)
    <3>1. CASE p \in DOMAIN tx.docs
      <4>1. r = tx
        BY <3>1 DEF DocRoot
      <4>2. p \in DOMAIN tx.pending
        BY <3>1 DEF Clean
      <4>3. tx.docs[p] = want[p].body
        BY <1>3, <3>1 DEF Text
      <4> HIDE DEF r
      <4>4. QED
        BY <1>3, <3>1, <4>1, <4>2, <4>3 DEF SameAt
    <3>2. CASE p \notin DOMAIN tx.docs
      <4>1. /\ SameBut(tx, l, p) /\ p \in DOMAIN l.pending
            /\ l.deletions = tx.deletions /\ l.writes = tx.writes /\ l.soft = tx.soft
            /\ p \in DOMAIN tx.pending => l = tx
            /\ p \notin DOMAIN tx.pending =>
                 /\ l.pending[p] = [orig |-> disk[p].body, cur |-> disk[p].body]
                 /\ p \in l.existed
        BY LoadAt
      <4>2. Shaped(l)
        BY HelpersShaped
      <4> HIDE DEF l
      <4>3. /\ r.docs = [q \in DOMAIN tx.docs \cup {p} |->
                           IF q = p THEN l.pending[p].cur ELSE tx.docs[q]]
            /\ r.pending = l.pending /\ r.deletions = l.deletions /\ r.soft = l.soft
            /\ r.existed = l.existed /\ r.writes = l.writes /\ r.renames = l.renames
        BY <3>2, <4>2 DEF DocRoot, l, Shaped, EmptyTx
      <4> HIDE DEF r
      <4>4. At(disk, tx, want, p) /\ p \notin tx.deletions /\ p \notin tx.soft
        BY <1>3, <2>1, <3>2
      <4>5. CASE p \in DOMAIN tx.pending
        <5>1. l.pending[p].cur = want[p].body
          BY <4>1, <4>4, <4>5 DEF At, StagedAt, Text
        <5>2. QED
          BY <1>3, <4>1, <4>3, <4>5, <5>1 DEF SameBut, SameAt, Origin
      <4>6. CASE p \notin DOMAIN tx.pending
        <5>1. want[p] = disk[p] /\ disk[p].kind = "text"
          BY <2>1, <4>4, <4>6 DEF At, UnstagedAt, CanEdit, IsText
        <5>2. Origin(disk, r, p)
          BY <4>1, <4>3, <4>6, <5>1 DEF Origin, Present, Snapshot
        <5>3. QED
          BY <4>1, <4>3, <4>6, <5>1, <5>2 DEF SameBut, SameAt
      <4>7. QED
        BY <4>5, <4>6
    <3>3. QED
      BY <3>1, <3>2
  <2> HIDE DEF r
  <2>6. /\ tx'.pending = r.pending /\ tx'.deletions = r.deletions /\ tx'.soft = r.soft
        /\ tx'.existed = r.existed /\ tx'.writes = r.writes /\ tx'.renames = r.renames
        /\ DOMAIN tx'.docs = DOMAIN r.docs
        /\ tx'.docs[p] = b
        /\ \A q \in DOMAIN r.docs : q # p => tx'.docs[q] = r.docs[q]
    <3>1. CASE change
      <4>1. tx' = [r EXCEPT !.docs[p] = Append(@, Edit)]
        BY <1>5, <3>1
      <4>2. r.docs = [q \in DOMAIN r.docs |-> r.docs[q]]
        BY <2>4 DEF TypedTx, IsPartialFn
      <4>3. QED
        BY <2>4, <2>5, <3>1, <4>1, <4>2 DEF Shaped, EmptyTx
    <3>2. CASE ~change
      BY <1>5, <2>5, <3>2
    <3>3. QED
      BY <3>1, <3>2
  <2> HIDE DEF b
  <2>7. \A q : q # p => SameAt(tx, tx', q)
    BY <2>5, <2>6 DEF SameAt
  <2>8. Origin(disk, tx', p)
    BY <2>5, <2>6 DEF Origin
  <2>9. DOMAIN tx'.pending \subseteq Path
    BY <2>4, <2>6 DEF TypedTx, IsPartialFn
  <2>10. Fits(disk, FlushDocs(tx), want)
    BY DEF Fitting
  <2>11. p \notin tx'.deletions /\ p \notin tx'.soft
    BY <1>3, <2>1, <2>5, <2>6
  <2>12. QED
    BY <2>3, <2>5, <2>6, <2>7, <2>8, <2>9, <2>10, <2>11, CacheFits
<1>6. QED
  BY <1>1, <1>4, <1>5

-----------------------------------------------------------------------------
(* The operations on texts.                                                *)
LEMMA ReadFits ==
  ASSUME NEW p \in Path, Fitting(FlushDocs(tx)), ReadOp(p)
  PROVE  Fits(disk, tx', want') /\ Steady(FlushDocs(tx), tx', want, want')
<1> DEFINE t == FlushDocs(tx)
<1>1. CanLoad(t, p) /\ tx' = Load(t, p) /\ want' = want
  BY Zenon DEF ReadOp, Meant
<1> HIDE DEF t
<1>2. Fitting(t)
  BY DEF t
<1>3. QED
  BY <1>1, <1>2, LoadFits DEF Fitting, t

(* Replacing nothing in the empty text.                                    *)
LEMMA ReplacedNothing == Replaced(<< >>) = << >>
<1>1. << >> \in Body
  BY Bodies
<1>2. Replaced(<< >>) \in Seq(Token)
  BY <1>1, EditedBodies DEF Body
<1>3. DOMAIN Replaced(<< >>) = {}
  BY DEF Replaced
<1>4. QED
  BY <1>2, <1>3

LEMMA ReplaceTextFits ==
  ASSUME NEW p \in Path, NEW ifExists \in BOOLEAN, Fitting(FlushDocs(tx)),
         Replace(p, ifExists), ~astray'
  PROVE  Fits(disk, tx', want') /\ Steady(FlushDocs(tx), tx', want, want')
<1> DEFINE t == FlushDocs(tx)
           g == IF CanEdit(want, p) THEN DoPut(want, p, Replaced(want[p].body)) ELSE want
<1>1. /\ p \notin t.soft
      /\ \/ /\ CanLoad(t, p)
            /\ tx' = IF Hits(Body0(t, p))
                     THEN WriteFile(Load(t, p), p, Replaced(Body0(t, p)))
                     ELSE Load(t, p)
         \/ /\ ~CanLoad(t, p)
            /\ ifExists /\ ~Present(disk, p)
            /\ tx' = t
      /\ Meant((CanEdit(want, p) \/ (ifExists /\ ~Present(want, p))) /\ ~Revives(t, p), g)
  BY Zenon DEF Replace
<1> HIDE DEF t
<1>2. Fitting(t) /\ At(disk, t, want, p) /\ t.deletions \subseteq DOMAIN t.pending
  BY DEF t, Fitting, Fits, TypedTx
<1>3. /\ CanEdit(want, p) \/ ~Present(want, p)
      /\ ~Revives(t, p)
      /\ want' = g
  BY <1>1 DEF Meant
<1>4. CanEdit(want, p) => /\ CanLoad(t, p) /\ Body0(t, p) = want[p].body
                          /\ want[p] = Text(want[p].body)
  BY <1>2, EditableIsText DEF Fitting
<1>5. CASE CanEdit(want, p)
  <2>1. CASE Hits(Body0(t, p))
    BY <1>1, <1>2, <1>3, <1>4, <1>5, <2>1, EditFits DEF Fitting, t
  <2>2. CASE ~Hits(Body0(t, p))
    <3>1. want[p] = Text(<< >>) /\ tx' = Load(t, p)
      BY <1>1, <1>4, <1>5, <2>2 DEF Hits
    <3>2. g = want
      BY <1>2, <1>4, <1>5, <2>2, <3>1, ReplacedNothing DEF Hits, Fitting, DoPut
    <3>3. QED
      BY <1>2, <1>3, <1>4, <1>5, <3>1, <3>2, LoadFits DEF Fitting, t
  <2>3. QED
    BY <2>1, <2>2
<1>6. CASE ~CanEdit(want, p)
  <2>1. want' = want /\ ~Exists(t, p)
    BY <1>2, <1>3, <1>6, ExistsIsPresent DEF Fitting
  <2>2. CASE CanLoad(t, p)
    <3>1. p \in DOMAIN t.pending /\ p \in t.deletions
      BY <1>2, <2>1, <2>2 DEF CanLoad, Exists, Present
    <3>2. Load(t, p) = t
      BY <3>1 DEF Load
    <3>3. ~Hits(Body0(t, p))
      BY <1>3, <3>1, <3>2 DEF Revives, Body0
    <3>4. tx' = t
      BY <1>1, <2>2, <3>2, <3>3
    <3>5. QED
      BY <1>2, <2>1, <3>4, SteadyRefl DEF Fitting, t
  <2>3. CASE ~CanLoad(t, p)
    BY <1>1, <1>2, <2>1, <2>3, SteadyRefl DEF Fitting, t
  <2>4. QED
    BY <2>2, <2>3
<1>7. QED
  BY <1>5, <1>6

LEMMA WriteHitsAt ==
  ASSUME NEW t, NEW H
  PROVE  LET u == WriteHits(t, H)
         IN  /\ DOMAIN u.pending = DOMAIN t.pending \cup H
             /\ \A p \in DOMAIN t.pending \ H : u.pending[p] = t.pending[p]
             /\ \A p \in H : u.pending[p] = [orig |-> Load(t, p).pending[p].orig,
                                           cur  |-> Replaced(Body0(t, p))]
             /\ u.existed = t.existed \cup (H \ DOMAIN t.pending)
             /\ u.deletions = t.deletions \ H /\ u.writes = t.writes \cup H
             /\ u.soft = t.soft \ H /\ u.docs = t.docs /\ u.renames = t.renames
BY DEF WriteHits

LEMMA ReplaceGlobFits ==
  ASSUME NEW S \in SUBSET Path, Fitting(FlushDocs(tx)), ReplaceGlob(S), ~astray'
  PROVE  Fits(disk, tx', want') /\ Steady(FlushDocs(tx), tx', want, want')
<1> DEFINE t == FlushDocs(tx)
           H == GlobHits(t, S)
           g == DoReplaceAll(want, S)
<1>1. tx' = WriteHits(t, H) /\ Meant(\A p \in S : ~Revives(t, p), g)
  BY Zenon DEF ReplaceGlob
<1>2. DOMAIN t.docs = {}
  BY FlushAt
<1> HIDE DEF t
<1>3. Fitting(t)
  BY DEF t
<1>4. (\A p \in S : ~Revives(t, p)) /\ want' = g
  BY <1>1 DEF Meant
<1>5. /\ DOMAIN tx'.pending = DOMAIN t.pending \cup H
      /\ \A p \in DOMAIN t.pending \ H : tx'.pending[p] = t.pending[p]
      /\ \A p \in H : tx'.pending[p] = [orig |-> Load(t, p).pending[p].orig,
                                        cur  |-> Replaced(Body0(t, p))]
      /\ tx'.existed = t.existed \cup (H \ DOMAIN t.pending)
      /\ tx'.deletions = t.deletions \ H /\ tx'.writes = t.writes \cup H
      /\ tx'.soft = t.soft \ H /\ tx'.docs = t.docs /\ tx'.renames = t.renames
  BY <1>1, WriteHitsAt
<1>6. H \subseteq S
  BY DEF GlobHits, Candidates
<1>7. \A p \in Path : g[p] = IF p \in S /\ IsText(want, p) THEN Text(Replaced(want[p].body))
                             ELSE want[p]
  BY DEF DoReplaceAll
<1>8. ASSUME NEW p \in H PROVE CanEdit(want, p) /\ At(disk, tx', g, p)
  <2>1. p \in Path /\ p \in S /\ p \notin t.soft /\ CanLoad(t, p) /\ Hits(Body0(t, p))
    BY <1>8 DEF GlobHits, Candidates
  <2>2. At(disk, t, want, p) /\ FilesOK(disk) /\ Fits(disk, t, want)
    BY <1>3, <2>1 DEF Fitting, Fits
  <2>3. p \in DOMAIN t.pending => p \notin t.deletions
    <3>1. p \in DOMAIN t.pending => Load(t, p) = t
      BY DEF Load
    <3>2. QED
      BY <1>4, <2>1, <3>1 DEF Revives, Body0
  <2>4. CanEdit(want, p)
    <3>1. CASE p \in DOMAIN t.pending
      BY <2>1, <2>2, <2>3, <3>1 DEF At, StagedAt, CanEdit, IsText, Text
    <3>2. CASE p \notin DOMAIN t.pending
      BY <2>1, <2>2, <3>2 DEF At, UnstagedAt, CanEdit, IsText, CanLoad
    <3>3. QED
      BY <3>1, <3>2
  <2>5. Body0(t, p) = want[p].body
    BY <2>1, <2>2, <2>4, EditableIsText
  <2>6. g[p] = Text(Replaced(Body0(t, p)))
    BY <1>7, <2>1, <2>4, <2>5 DEF CanEdit
  <2>7. Fits(disk, Load(t, p), want) /\ p \in DOMAIN Load(t, p).pending
    BY <2>1, <2>2, LoadFits
  <2>8. Origin(disk, Load(t, p), p)
    BY <2>1, <2>7, FitsOrigin
  <2>9. Load(t, p).existed = t.existed \cup ({p} \ DOMAIN t.pending)
    BY DEF Load, Put, FlushDocs, t
  <2>10. p \in tx'.existed <=> p \in Load(t, p).existed
    BY <1>5, <1>8, <2>9
  <2> HIDE DEF H, g
  <2>10a. /\ p \in DOMAIN tx'.pending /\ p \notin tx'.deletions
          /\ p \in tx'.writes /\ p \notin tx'.soft
          /\ tx'.pending[p].orig = Load(t, p).pending[p].orig
          /\ tx'.pending[p].cur = Replaced(Body0(t, p))
    <3>1. tx'.pending[p] = [orig |-> Load(t, p).pending[p].orig, cur |-> Replaced(Body0(t, p))]
      BY <1>5, <1>8
    <3>2. /\ p \in DOMAIN tx'.pending /\ p \notin tx'.deletions
          /\ p \in tx'.writes /\ p \notin tx'.soft
      BY <1>5, <1>8
    <3>3. QED
      BY <3>1, <3>2
  <2> DEFINE l == Load(t, p)
             b == Replaced(Body0(t, p))
  <2>10b. /\ p \in tx'.existed => Present(disk, p) /\ tx'.pending[p].orig = Snapshot(disk, p)
          /\ p \notin tx'.existed => tx'.pending[p].orig = << >>
    BY <2>7, <2>8, <2>10, <2>10a DEF Origin
  <2> HIDE DEF b
  <2>11. At(disk, tx', g, p)
    BY <2>6, <2>10a, <2>10b DEF At, StagedAt, b
  <2>12. QED
    BY <2>4, <2>11
<1>9. ASSUME NEW p \in Path \ H PROVE At(disk, tx', g, p) /\ g[p] = want[p]
  <2>1. SameAt(t, tx', p)
    BY <1>5 DEF SameAt
  <2>2. At(disk, t, want, p) /\ FilesOK(disk) /\ Fits(disk, t, want)
    BY <1>3 DEF Fitting, Fits
  <2>3. ASSUME p \in S, IsText(want, p) PROVE g[p] = want[p]
    <3>1. /\ CanLoad(t, p) /\ Exists(t, p) /\ p \notin t.soft /\ p \notin t.deletions
          /\ Body0(t, p) = want[p].body
          /\ want[p] = Text(want[p].body)
      BY <2>2, <2>3, EditableIsText DEF CanEdit
    <3>2. ~Hits(Body0(t, p))
      BY <1>9, <2>3, <3>1 DEF GlobHits, Candidates, Exists
    <3>3. want[p].body = << >>
      BY <3>1, <3>2 DEF Hits
    <3>4. g[p] = Text(Replaced(want[p].body))
      BY <1>7, <2>3
    <3>5. QED
      BY <3>1, <3>3, <3>4, ReplacedNothing
  <2>4. g[p] = want[p]
    BY <1>7, <2>3
  <2>5. QED
    BY <2>1, <2>2, <2>4, SameFits
<1>10. Fits(disk, tx', g)
  BY <1>2, <1>5, <1>8, <1>9 DEF Fits
<1>11. H \subseteq Path /\ DOMAIN t.pending \subseteq Path
  BY <1>3, <1>6 DEF Fitting, TypedTx, IsPartialFn
<1>12. \A p \in H : g[p].kind # "binary"
  <2> SUFFICES ASSUME NEW p \in H PROVE g[p].kind # "binary"
    OBVIOUS
  <2>1. p \in Path /\ p \in S /\ IsText(want, p)
    BY <1>6, <1>8 DEF CanEdit
  <2>2. g[p] = Text(Replaced(want[p].body))
    BY <1>7, <2>1
  <2>3. QED
    BY <2>2 DEF Text
<1> HIDE DEF H, g
<1>13. Steady(t, tx', want, g)
  BY <1>5, <1>9, <1>11, <1>12 DEF Steady
<1>14. QED
  BY <1>4, <1>10, <1>13 DEF t

LEMMA MdEditFits ==
  ASSUME NEW p \in Path, Fitting(FlushDocs(tx)), MdEdit(p), CanEdit(want, p)
  PROVE  Fits(disk, tx', want') /\ Steady(FlushDocs(tx), tx', want, want')
<1> DEFINE t == FlushDocs(tx)
           b == Append(want[p].body, Edit)
<1>1. /\ tx' = WriteFile(Load(t, p), p, Append(Body0(t, p), Edit))
      /\ Meant(CanEdit(want, p), DoAppend(want, p, Edit))
  BY Zenon DEF MdEdit
<1> HIDE DEF t
<1>2. Fitting(t)
  BY DEF t
<1>3. Body0(t, p) = want[p].body
  BY <1>2, EditableIsText DEF Fitting
<1>4. tx' = WriteFile(Load(t, p), p, b) /\ want' = DoPut(want, p, b)
  BY <1>1, <1>3 DEF Meant, DoAppend, DoPut
<1>5. QED
  BY <1>2, <1>4, EditFits DEF Fitting, t

LEMMA TidyFits ==
  ASSUME NEW p \in Path, Fitting(FlushDocs(tx)), TidyFix(p), CanEdit(want, p), Shaped(FlushDocs(tx))
  PROVE  Fits(disk, tx', want') /\ Steady(FlushDocs(tx), tx', want, want')
<1> DEFINE t == FlushDocs(tx)
           o == Load(t, p)
           l == [o EXCEPT !.writes = @ \cup {p}]
           b == Body0(t, p)
           u == Put(l, p, [orig |-> l.pending[p].orig, cur |-> Tidied(b)])
           g == DoPut(want, p, Tidied(want[p].body))
<1>1. /\ tx' = IF Tidied(b) = b THEN l ELSE [u EXCEPT !.deletions = @ \ {p}]
      /\ Meant(CanEdit(want, p), g)
  BY Zenon DEF TidyFix
<1>2. Shaped(o)
  BY HelpersShaped
<1> HIDE DEF t
<1>3. Fitting(t)
  BY DEF t
<1>4. want' = g
  BY <1>1 DEF Meant
<1>5. /\ CanLoad(t, p) /\ p \notin t.deletions /\ p \notin t.soft
      /\ o.pending[p].cur = want[p].body /\ b = want[p].body
  BY <1>3, EditableIsText DEF Fitting
<1>6. /\ Fits(disk, o, want) /\ p \in DOMAIN o.pending
      /\ DOMAIN o.pending = DOMAIN t.pending \cup {p}
      /\ Steady(t, o, want, want)
      /\ o.deletions = t.deletions /\ o.soft = t.soft
  BY <1>3, <1>5, LoadFits, LoadAt DEF Fitting
<1>7. g[p] = Text(Tidied(b)) /\ \A x \in Path : x # p => g[x] = want[x]
  BY <1>3, <1>5 DEF Fitting, DoPut
<1> HIDE DEF o, b, g
<1>8. /\ l.pending = o.pending /\ l.docs = o.docs /\ l.existed = o.existed
      /\ l.deletions = o.deletions /\ l.soft = o.soft /\ l.renames = o.renames
      /\ l.writes = o.writes \cup {p} /\ DOMAIN l = DOMAIN o
  BY <1>2 DEF Shaped, EmptyTx
<1> HIDE DEF l
<1>9. /\ SameBut(o, tx', p) /\ p \in DOMAIN tx'.pending
      /\ tx'.pending[p].orig = o.pending[p].orig /\ tx'.pending[p].cur = Tidied(b)
      /\ tx'.existed = o.existed
      /\ p \notin tx'.deletions /\ p \notin tx'.soft
      /\ tx'.writes = o.writes \cup {p}
  <2>1. CASE Tidied(b) = b
    <3>1. tx' = l
      BY <1>1, <2>1
    <3>2. QED
      BY <1>5, <1>6, <1>8, <2>1, <3>1 DEF SameBut, SameAt
  <2>2. CASE Tidied(b) # b
    <3>1. tx' = [u EXCEPT !.deletions = @ \ {p}]
      BY <1>1, <2>2
    <3>2. /\ SameBut(l, u, p)
          /\ p \in DOMAIN u.pending
          /\ u.pending[p] = [orig |-> l.pending[p].orig, cur |-> Tidied(b)]
          /\ u.existed = l.existed /\ u.deletions = l.deletions
          /\ u.writes = l.writes /\ u.soft = l.soft
      BY PutAt
    <3>3. DOMAIN u = DOMAIN l
      BY DEF Put
    <3> HIDE DEF u
    <3>4. /\ tx'.pending = u.pending /\ tx'.docs = u.docs /\ tx'.existed = u.existed
          /\ tx'.deletions = u.deletions \ {p} /\ tx'.soft = u.soft
          /\ tx'.renames = u.renames /\ tx'.writes = u.writes
      BY <1>2, <1>8, <3>1, <3>3 DEF Shaped, EmptyTx
    <3>5. QED
      BY <1>5, <1>6, <1>8, <3>2, <3>4 DEF SameBut, SameAt
  <2>3. QED
    BY <2>1, <2>2
<1>10. Origin(disk, o, p) /\ FitsBut(disk, o, want, p)
  BY <1>6, FitsOrigin
<1>11. At(disk, tx', g, p)
  BY <1>6, <1>7, <1>9, <1>10 DEF At, StagedAt, Origin
<1>12. Fits(disk, tx', g)
  BY <1>7, <1>9, <1>10, <1>11, SameButFits, FitsAll
<1>13. DOMAIN tx'.pending = DOMAIN o.pending
  BY <1>6, <1>9 DEF SameBut, SameAt
<1>14. DOMAIN o.pending \subseteq Path
  BY <1>3, <1>6 DEF Fitting, TypedTx, IsPartialFn
<1>15. Steady(o, tx', want, g)
  BY <1>7, <1>9, <1>13, <1>14 DEF Steady, Text, SameBut
<1>16. QED
  BY <1>4, <1>6, <1>12, <1>15, SteadyTrans DEF t

(* Two texts are written, one after the other.                             *)
LEMMA WriteTwiceFits ==
  ASSUME NEW t, NEW f, DOMAIN f = Path, NEW p \in Path, NEW q \in Path, NEW x, NEW y,
         Fits(disk, t, f), DOMAIN t.pending \subseteq Path
  PROVE  LET u == WriteFile(WriteFile(t, p, x), q, y)
             g == DoPut(DoPut(f, p, x), q, y)
         IN  Fits(disk, u, g) /\ Steady(t, u, f, g)
<1> DEFINE v == WriteFile(t, p, x)
           u == WriteFile(v, q, y)
           h == DoPut(f, p, x)
           g == DoPut(h, q, y)
<1>1. DOMAIN h = Path /\ h[p] = Text(x) /\ \A r \in Path : r # p => h[r] = f[r]
  BY DEF DoPut
<1>2. /\ DOMAIN v.pending = DOMAIN t.pending \cup {p}
      /\ v.writes = t.writes \cup {p} /\ v.renames = t.renames
  BY DEF WriteFile, Put
<1> HIDE DEF h
<1>3. g[q] = Text(y) /\ \A r \in Path : r # q => g[r] = h[r]
  BY <1>1 DEF DoPut
<1>4. /\ DOMAIN u.pending = DOMAIN v.pending \cup {q}
      /\ u.writes = v.writes \cup {q} /\ u.renames = v.renames
  BY DEF WriteFile, Put
<1> HIDE DEF g
<1>5. Fits(disk, v, h)
  BY <1>1, FitsOrigin, WriteFits
<1> HIDE DEF v
<1>6. Fits(disk, u, g)
  BY <1>3, <1>5, FitsOrigin, WriteFits
<1> HIDE DEF u
<1>7. Steady(t, v, f, h) /\ Steady(v, u, h, g)
  BY <1>1, <1>2, <1>3, <1>4 DEF Steady, Text
<1>8. QED
  BY <1>6, <1>7, SteadyTrans DEF g, h, u, v

LEMMA MdMoveFits ==
  ASSUME NEW p \in Path, NEW q \in Path \ {p}, Fitting(FlushDocs(tx)), MdMoveSection(p, q),
         CanEdit(want, p), CanEdit(want, q), want[p].body # << >>
  PROVE  Fits(disk, tx', want') /\ Steady(FlushDocs(tx), tx', want, want')
<1> DEFINE t == FlushDocs(tx)
           l == Load(t, p)
           m == Load(l, q)
           b == m.pending[p].cur
           c == m.pending[q].cur
           g == DoMove(want, p, q, want[q].body)
<1>1. /\ tx' = WriteFile(WriteFile(m, p, Rest(b)), q, c \o Part(b))
      /\ Meant(CanEdit(want, p) /\ CanEdit(want, q) /\ want[p].body # << >>, g)
  BY Zenon DEF MdMoveSection
<1> HIDE DEF t
<1>2. Fitting(t)
  BY DEF t
<1>3. want' = g
  BY <1>1 DEF Meant
<1>4. /\ Fits(disk, l, want) /\ Steady(t, l, want, want) /\ TypedTx(l)
  BY <1>2, EditableIsText, LoadFits, LoadTyped DEF Fitting, FilesOK
<1> HIDE DEF l
<1>5. /\ Fits(disk, m, want) /\ Steady(l, m, want, want) /\ TypedTx(m)
      /\ DOMAIN m.pending = DOMAIN l.pending \cup {q}
  BY <1>2, <1>4, EditableIsText, LoadFits, LoadTyped DEF Fitting, FilesOK
<1>6. p \in DOMAIN l.pending
  BY <1>2, LoadAt DEF l
<1> HIDE DEF m
<1>7. Load(m, p) = m /\ Load(m, q) = m
  BY <1>5, <1>6 DEF Load
<1>8. b = want[p].body /\ c = want[q].body
  <2>1. FilesOK(disk)
    BY <1>2 DEF Fitting
  <2>2. Load(m, p).pending[p].cur = want[p].body /\ Load(m, q).pending[q].cur = want[q].body
    BY <1>5, <2>1, EditableIsText
  <2>3. QED
    BY <1>7, <2>2
<1>9. DOMAIN want = Path /\ DOMAIN m.pending \subseteq Path
  BY <1>2, <1>5 DEF Fitting, TypedTx, IsPartialFn
<1>10. g = DoPut(DoPut(want, p, Rest(b)), q, c \o Part(b))
  BY <1>8 DEF DoMove
<1> HIDE DEF b, c
<1>11. Fits(disk, tx', g) /\ Steady(m, tx', want, g)
  BY <1>1, <1>5, <1>9, <1>10, WriteTwiceFits
<1>12. QED
  BY <1>3, <1>4, <1>5, <1>11, SteadyTrans DEF t

LEMMA AstMoveFits ==
  ASSUME NEW p \in Path, NEW q \in Path \ {p}, Fitting(FlushDocs(tx)), AstMove(p, q),
         CanEdit(want, p), want[p].body # << >>, CanEdit(want, q) \/ ~Present(want, q)
  PROVE  Fits(disk, tx', want') /\ Steady(FlushDocs(tx), tx', want, want')
<1> DEFINE t == FlushDocs(tx)
           l == Load(t, p)
           m == IF Exists(t, q) THEN Load(l, q) ELSE l
           b == m.pending[p].cur
           c == IF Exists(t, q) THEN m.pending[q].cur ELSE << >>
           g == DoMove(want, p, q, want[q].body)
<1>1. /\ tx' = WriteFile(WriteFile(m, p, Rest(b)), q, c \o Part(b))
      /\ Meant(/\ CanEdit(want, p) /\ want[p].body # << >>
               /\ CanEdit(want, q) \/ ~Present(want, q), g)
  BY Zenon DEF AstMove
<1> HIDE DEF t
<1>2. Fitting(t) /\ At(disk, t, want, q)
  BY DEF t, Fitting, Fits
<1>3. want' = g
  BY <1>1 DEF Meant
<1>4. Fits(disk, l, want) /\ Steady(t, l, want, want) /\ TypedTx(l) /\ p \in DOMAIN l.pending
  BY <1>2, EditableIsText, LoadFits, LoadTyped DEF Fitting, FilesOK
<1> HIDE DEF l
<1>5. /\ Exists(t, q) => CanEdit(want, q)
      /\ ~Exists(t, q) => want[q].body = << >>
  <2>1. Exists(t, q) <=> Present(want, q)
    BY <1>2, ExistsIsPresent DEF Fitting
  <2>2. ~Present(want, q) => want[q] = NoFile
    BY <1>2, <2>1, FileKinds DEF Fitting, At, StagedAt, UnstagedAt, Exists
  <2>3. QED
    BY <2>1, <2>2 DEF NoFile
<1>6. /\ Fits(disk, m, want) /\ Steady(l, m, want, want) /\ TypedTx(m)
      /\ p \in DOMAIN m.pending /\ c = want[q].body
  <2>1. CASE Exists(t, q)
    <3>1. m = Load(l, q) /\ c = m.pending[q].cur
      BY <2>1
    <3> HIDE DEF m, c
    <3>2. CanLoad(l, q) /\ Load(l, q).pending[q].cur = want[q].body
      BY <1>2, <1>4, <1>5, <2>1, EditableIsText DEF Fitting
    <3>3. /\ Fits(disk, m, want) /\ Steady(l, m, want, want) /\ TypedTx(m)
          /\ DOMAIN m.pending = DOMAIN l.pending \cup {q}
      BY <1>2, <1>4, <3>1, <3>2, LoadFits, LoadTyped DEF Fitting, FilesOK
    <3>4. QED
      BY <1>4, <3>1, <3>2, <3>3
  <2>2. CASE ~Exists(t, q)
    <3>1. m = l /\ c = << >>
      BY <2>2
    <3> HIDE DEF m, c
    <3>2. QED
      BY <1>4, <1>5, <2>2, <3>1, SteadyRefl
  <2>3. QED
    BY <2>1, <2>2
<1> HIDE DEF m, c
<1>7. Load(m, p) = m
  BY <1>6 DEF Load
<1>8. b = want[p].body
  BY <1>2, <1>6, <1>7, EditableIsText DEF Fitting
<1>9. DOMAIN want = Path /\ DOMAIN m.pending \subseteq Path
  BY <1>2, <1>6 DEF Fitting, TypedTx, IsPartialFn
<1>10. g = DoPut(DoPut(want, p, Rest(b)), q, c \o Part(b))
  BY <1>6, <1>8 DEF DoMove
<1> HIDE DEF b
<1>11. Fits(disk, tx', g) /\ Steady(m, tx', want, g)
  BY <1>1, <1>6, <1>9, <1>10, WriteTwiceFits
<1>12. QED
  BY <1>3, <1>4, <1>6, <1>11, SteadyTrans DEF t

LEMMA AstExtractFits ==
  ASSUME NEW p \in Path, NEW q \in Path \ {p}, NEW force \in BOOLEAN, Fitting(FlushDocs(tx)),
         AstExtract(p, q, force),
         CanEdit(want, p), want[p].body # << >>, CanCreate(want, q, force)
  PROVE  Fits(disk, tx', want') /\ Steady(FlushDocs(tx), tx', want, want')
<1> DEFINE t == FlushDocs(tx)
           l == Load(t, p)
           b == l.pending[p].cur
           g == DoMove(want, p, q, << >>)
<1>1. /\ tx' = WriteFile(WriteFile(l, p, Rest(b)), q, Part(b))
      /\ Meant(/\ CanEdit(want, p) /\ want[p].body # << >>
               /\ CanCreate(want, q, force), g)
  BY Zenon DEF AstExtract
<1> HIDE DEF t
<1>2. Fitting(t)
  BY DEF t
<1>3. want' = g
  BY <1>1 DEF Meant
<1>4. /\ Fits(disk, l, want) /\ Steady(t, l, want, want) /\ TypedTx(l)
      /\ b = want[p].body
  BY <1>2, EditableIsText, LoadFits, LoadTyped DEF Fitting, FilesOK
<1>5. << >> \o Part(b) = Part(b)
  <2>1. b \in Body /\ b # << >>
    BY <1>2, <1>4, FilesTyped DEF Fitting
  <2> HIDE DEF b
  <2>2. Part(b) \in Seq(Token)
    BY <2>1, EditedBodies DEF Body
  <2>3. QED
    BY <2>2
<1>6. DOMAIN want = Path /\ DOMAIN l.pending \subseteq Path
  BY <1>2, <1>4 DEF Fitting, TypedTx, IsPartialFn
<1>7. g = DoPut(DoPut(want, p, Rest(b)), q, Part(b))
  BY <1>4, <1>5 DEF DoMove
<1> HIDE DEF b, l
<1>8. Fits(disk, tx', g) /\ Steady(l, tx', want, g)
  BY <1>1, <1>4, <1>6, <1>7, WriteTwiceFits
<1>9. QED
  BY <1>3, <1>4, <1>8, SteadyTrans DEF t

-----------------------------------------------------------------------------
(***************************************************************************)
(* One step.  An operation keeps what was staged, or deletes a file, or    *)
(* moves one.                                                              *)
(***************************************************************************)
StepKind(t, u, f, g) ==
  \/ Steady(t, u, f, g)
  \/ \E p \in Path : Deletes(t, u, f, g, p)
  \/ \E p \in Path, q \in Path : p # q /\ Moves(t, u, f, g, p, q)

LEMMA FlushedStep ==
  ASSUME NEW t, NEW u, NEW f, NEW g, TypedTx(u), Fits(disk, u, g), StepKind(t, u, f, g)
  PROVE  /\ Fits(disk, FlushDocs(u), g) /\ Clean(u)
         /\ StepKind(t, FlushDocs(u), f, g)
<1> DEFINE v == FlushDocs(u)
<1>1. /\ \A p : SameAt(u, v, p)
      /\ v.renames = u.renames /\ DOMAIN v.docs = {}
      /\ v.pending = u.pending /\ v.writes = u.writes
  BY FlushSame DEF Fits
<1> HIDE DEF v
<1>2. Fits(disk, v, g)
  BY <1>1, SameFits DEF Fits
<1>3. Clean(u)
  BY DEF Clean, Fits
<1>4. /\ Steady(t, u, f, g) => Steady(t, v, f, g)
      /\ \A p : Deletes(t, u, f, g, p) => Deletes(t, v, f, g, p)
      /\ \A p, q : Moves(t, u, f, g, p, q) => Moves(t, v, f, g, p, q)
  BY <1>1 DEF Steady, Deletes, Moves
<1>5. StepKind(t, v, f, g)
  BY <1>4 DEF StepKind
<1>6. QED
  BY <1>2, <1>3, <1>5 DEF v

Stepped == Fits(disk, tx', want') /\ StepKind(FlushDocs(tx), tx', want, want')

LEMMA FileOpFits ==
  ASSUME Fitting(FlushDocs(tx)), Shaped(FlushDocs(tx)), FileOp
  PROVE  Stepped
<1>1. ASSUME NEW p \in Path, FileAppend(p) PROVE Stepped
  BY <1>1, AppendFits DEF Stepped, StepKind
<1>2. ASSUME NEW p \in Path, NEW b \in Contents, NEW force \in BOOLEAN, FileCreate(p, b, force)
      PROVE  Stepped
  BY <1>2, CreateFits DEF Stepped, StepKind
<1>3. ASSUME NEW p \in Path, NEW ifExists \in BOOLEAN, FileDelete(p, ifExists)
      PROVE  Stepped
  BY <1>3, DeleteFits DEF Stepped, StepKind
<1>4. ASSUME NEW p \in Path, NEW q \in Path, NEW force \in BOOLEAN, FileRename(p, q, force)
      PROVE  Stepped
  BY <1>4, RenameFits DEF Stepped, StepKind
<1>5. QED
  BY <1>1, <1>2, <1>3, <1>4, Zenon DEF FileOp

LEMMA PatchOpFits ==
  ASSUME Fitting(FlushDocs(tx)), Shaped(FlushDocs(tx)), PatchOp, ~astray'
  PROVE  Stepped
<1>1. ASSUME NEW p \in Path, NEW b \in Contents, PatchAdd(p, b) PROVE Stepped
  BY <1>1, PatchAddFits DEF Stepped, StepKind
<1>2. ASSUME NEW p \in Path, PatchDelete(p) PROVE Stepped
  BY <1>2, PatchDeleteFits DEF Stepped, StepKind
<1>3. ASSUME NEW p \in Path, NEW h \in Hunks, PatchUpdate(p, h) PROVE Stepped
  <2>1. CanEdit(want, p)
    BY <1>3, Zenon DEF PatchUpdate, Meant
  <2>2. QED
    BY <1>3, <2>1, PatchUpdateFits DEF Stepped, StepKind
<1>4. ASSUME NEW p \in Path, NEW h \in Hunks, NEW q \in Path \ {p}, PatchMove(p, h, q)
      PROVE  Stepped
  <2>1. CanEdit(want, p) /\ CanRename(want, p, q, FALSE)
    BY <1>4, Zenon DEF PatchMove, Meant
  <2>2. QED
    BY <1>4, <2>1, PatchMoveFits DEF Stepped, StepKind
<1>5. QED
  BY <1>1, <1>2, <1>3, <1>4, Zenon DEF PatchOp

LEMMA TextOpFits ==
  ASSUME Fitting(FlushDocs(tx)), Shaped(FlushDocs(tx)), TextOp, ~astray'
  PROVE  Stepped
<1> SUFFICES Fits(disk, tx', want') /\ Steady(FlushDocs(tx), tx', want, want')
  BY DEF Stepped, StepKind
<1> DEFINE Done == Fits(disk, tx', want') /\ Steady(FlushDocs(tx), tx', want, want')
<1>1. ASSUME NEW p \in Path, ReadOp(p) PROVE Done
  BY <1>1, ReadFits
<1>2. ASSUME NEW p \in Path, NEW ifExists \in BOOLEAN, Replace(p, ifExists) PROVE Done
  BY <1>2, ReplaceTextFits
<1>3. ASSUME NEW S \in SUBSET Path, ReplaceGlob(S) PROVE Done
  BY <1>3, ReplaceGlobFits
<1>4. ASSUME NEW p \in Path, MdEdit(p) PROVE Done
  <2>1. CanEdit(want, p)
    BY <1>4, Zenon DEF MdEdit, Meant
  <2>2. QED
    BY <1>4, <2>1, MdEditFits
<1>5. ASSUME NEW p \in Path, TidyFix(p) PROVE Done
  <2>1. CanEdit(want, p)
    BY <1>5, Zenon DEF TidyFix, Meant
  <2>2. QED
    BY <1>5, <2>1, TidyFits
<1>6. ASSUME NEW p \in Path, NEW q \in Path \ {p}, MdMoveSection(p, q) PROVE Done
  <2>1. CanEdit(want, p) /\ CanEdit(want, q) /\ want[p].body # << >>
    BY <1>6, Zenon DEF MdMoveSection, Meant
  <2>2. QED
    BY <1>6, <2>1, MdMoveFits
<1>7. ASSUME NEW p \in Path, NEW q \in Path \ {p}, AstMove(p, q) PROVE Done
  <2>1. /\ CanEdit(want, p) /\ want[p].body # << >>
        /\ CanEdit(want, q) \/ ~Present(want, q)
    BY <1>7, Zenon DEF AstMove, Meant
  <2>2. QED
    BY <1>7, <2>1, AstMoveFits
<1>8. ASSUME NEW p \in Path, NEW q \in Path \ {p}, NEW force \in BOOLEAN,
             AstExtract(p, q, force)
      PROVE  Done
  <2>1. CanEdit(want, p) /\ want[p].body # << >> /\ CanCreate(want, q, force)
    BY <1>8, Zenon DEF AstExtract, Meant
  <2>2. QED
    BY <1>8, <2>1, AstExtractFits
<1> HIDE DEF Done
<1>9. Done
  BY <1>1, <1>2, <1>3, <1>4, <1>5, <1>6, <1>7, <1>8, Zenon DEF TextOp
<1>10. QED
  BY <1>9 DEF Done

(***************************************************************************)
(* The invariant: the transaction, with its cache flushed, fits the files  *)
(* the plan means.                                                         *)
(***************************************************************************)
FitInv ==
  /\ Shaped(tx)
  /\ FilesOK(disk)
  /\ KeptToFiles => Fits(disk, FlushDocs(tx), want) /\ Clean(tx)

LEMMA InitFitInv == StagingInit => FitInv
<1> SUFFICES ASSUME StagingInit PROVE FitInv
  OBVIOUS
<1>1. tx = EmptyTx /\ want = disk /\ disk \in InitialDisks
  BY DEF StagingInit
<1>2. Shaped(tx)
  BY <1>1 DEF Shaped, EmptyTx
<1>3. FilesOK(disk)
  BY <1>1, StagingConstants DEF FilesOK
<1>4. /\ DOMAIN tx.pending = {} /\ tx.deletions = {} /\ tx.existed = {}
      /\ tx.soft = {} /\ DOMAIN tx.docs = {}
  BY <1>1 DEF EmptyTx
<1>5. Clean(tx)
  BY <1>4 DEF Clean
<1>6. Fits(disk, FlushDocs(tx), want)
  <2>1. \A p \in Path : At(disk, tx, want, p)
    BY <1>1, <1>4 DEF At, UnstagedAt
  <2>2. \A p : SameAt(tx, FlushDocs(tx), p)
    BY <1>4, FlushAt
  <2>3. DOMAIN FlushDocs(tx).docs = {}
    BY FlushAt
  <2>4. QED
    BY <2>1, <2>2, <2>3, SameFits DEF Fits
<1>7. QED
  BY <1>2, <1>3, <1>5, <1>6 DEF FitInv

(* Flushing twice.                                                         *)
LEMMA FlushTwice ==
  ASSUME NEW t, NEW f, TypedTx(t), FilesOK(disk), Fits(disk, FlushDocs(t), f)
  PROVE  /\ Fits(disk, FlushDocs(FlushDocs(t)), f) /\ Clean(FlushDocs(t))
         /\ StepKind(FlushDocs(t), FlushDocs(FlushDocs(t)), f, f)
<1> DEFINE u == FlushDocs(t)
<1>1. TypedTx(u)
  BY FlushTyped
<1>2. StepKind(u, u, f, f)
  BY SteadyRefl DEF StepKind
<1> HIDE DEF u
<1>3. Fits(disk, u, f)
  BY DEF u
<1>4. QED
  BY <1>1, <1>2, <1>3, FlushedStep DEF u

LEMMA FileOpAdvances ==
  FileOp => Advance /\ (astray => astray')
<1>1. \A p : FileAppend(p) => Advance /\ (astray => astray')
  BY Zenon DEF FileAppend, Meant
<1>2. \A p, b, force : FileCreate(p, b, force) => Advance /\ (astray => astray')
  BY Zenon DEF FileCreate, Meant
<1>3. \A p, ifExists : FileDelete(p, ifExists) => Advance /\ (astray => astray')
  BY Zenon DEF FileDelete, Meant
<1>4. ASSUME NEW p, NEW q, NEW force, FileRename(p, q, force)
      PROVE  Advance /\ (astray => astray')
  <2>1. Advance /\ Meant(CanRename(want, p, q, force), DoRename(want, p, q))
    BY <1>4, Zenon DEF FileRename
  <2>2. QED
    BY <2>1 DEF Meant
<1>5. QED
  BY <1>1, <1>2, <1>3, <1>4, Zenon DEF FileOp

(* Staging leaves the files alone, and what strayed has strayed.           *)
LEMMA StagingKeeps ==
  ASSUME StagingNext
  PROVE  disk' = disk /\ (astray => astray')
<1>1. disk' = disk
  <2>1. FileOp => UNCHANGED disk
    BY FileOpAdvances DEF Advance
  <2>2. PatchOp => UNCHANGED disk
    BY Zenon DEF PatchOp, PatchAdd, PatchDelete, PatchUpdate, PatchMove, Advance
  <2>3. DocOp => UNCHANGED disk
    BY Zenon DEF DocOp, DocEdit, Advance
  <2>4. TextOp => UNCHANGED disk
    BY TextOpAdvances DEF Advance
  <2>5. QED
    BY <2>1, <2>2, <2>3, <2>4 DEF StagingNext, Refuse, Collect
<1>2. astray => astray'
  <2>1. FileOp => (astray => astray')
    BY FileOpAdvances
  <2>2. PatchOp => (astray => astray')
    BY Zenon DEF PatchOp, PatchAdd, PatchDelete, PatchUpdate, PatchMove, Meant
  <2>3. DocOp => (astray => astray')
    BY Zenon DEF DocOp, DocEdit, Meant
  <2>4. TextOp => (astray => astray')
    <3>1. ASSUME NEW p \in Path, ReadOp(p) PROVE astray => astray'
      BY Zenon, <3>1 DEF ReadOp, Meant
    <3>2. ASSUME NEW p \in Path, NEW ifExists \in BOOLEAN, Replace(p, ifExists)
          PROVE  astray => astray'
      BY Zenon, <3>2 DEF Replace, Meant
    <3>3. ASSUME NEW S \in SUBSET Path, ReplaceGlob(S) PROVE astray => astray'
      BY Zenon, <3>3 DEF ReplaceGlob, Meant
    <3>4. ASSUME NEW p \in Path, MdEdit(p) \/ TidyFix(p) PROVE astray => astray'
      BY Zenon, <3>4 DEF MdEdit, TidyFix, Meant
    <3>5. ASSUME NEW p \in Path, NEW q \in Path, MdMoveSection(p, q) \/ AstMove(p, q)
          PROVE  astray => astray'
      BY Zenon, <3>5 DEF MdMoveSection, AstMove, Meant
    <3>6. ASSUME NEW p \in Path, NEW q \in Path, NEW force \in BOOLEAN, AstExtract(p, q, force)
          PROVE  astray => astray'
      BY Zenon, <3>6 DEF AstExtract, Meant
    <3>7. QED
      BY <3>1, <3>2, <3>3, <3>4, <3>5, <3>6 DEF TextOp
  <2>5. QED
    BY <2>1, <2>2, <2>3, <2>4 DEF StagingNext, Refuse, Collect
<1>3. QED
  BY <1>1, <1>2

LEMMA StepFits ==
  ASSUME StagingTypeOK, FitInv, StagingNext
  PROVE  /\ FitInv'
         /\ KeptToFiles' => StepKind(FlushDocs(tx), FlushDocs(tx'), want, want')
<1>1. Shaped(tx') /\ Shaped(FlushDocs(tx)) /\ Shaped(tx)
  BY StepShaped, HelpersShaped DEF FitInv
<1>2. StagingTypeOK' /\ TypedTx(tx) /\ TypedTx(FlushDocs(tx)) /\ want \in [Path -> File]
  BY StepStagingTypeOK, TypedFlushed
<1>3. TypedTx(tx')
  BY <1>2 DEF StagingTypeOK, TypedTx
<1>4. disk' = disk /\ astray' \in BOOLEAN /\ (KeptToFiles' => KeptToFiles)
  BY <1>2, StagingKeeps DEF StagingTypeOK, KeptToFiles
<1> SUFFICES ASSUME KeptToFiles'
             PROVE  /\ Fits(disk, FlushDocs(tx'), want') /\ Clean(tx')
                    /\ StepKind(FlushDocs(tx), FlushDocs(tx'), want, want')
  BY <1>1, <1>4 DEF FitInv, Clean, Fits, At, StagedAt, UnstagedAt, FilesOK
<1>5. Fitting(FlushDocs(tx)) /\ Clean(tx)
  BY <1>2, <1>4 DEF Fitting, FitInv
<1>6. ASSUME Stepped
      PROVE  /\ Fits(disk, FlushDocs(tx'), want') /\ Clean(tx')
             /\ StepKind(FlushDocs(tx), FlushDocs(tx'), want, want')
  BY <1>3, <1>6, FlushedStep DEF Stepped
<1>7. ASSUME NEW k \in OpKinds \ FileOpKinds PROVE ~astray'
  BY <1>7 DEF KeptToFiles
<1>8. CASE FileOp
  BY <1>1, <1>5, <1>6, <1>8, FileOpFits
<1>9. CASE PatchOp
  <2>1. "patch" \in OpKinds \ FileOpKinds
    <3>1. Uses("patch")
      BY <1>9, Zenon DEF PatchOp, PatchAdd, PatchDelete, PatchUpdate, PatchMove
    <3>2. QED
      BY <3>1 DEF Uses, FileOpKinds
  <2>2. QED
    BY <1>1, <1>5, <1>6, <1>7, <1>9, <2>1, PatchOpFits
<1>10. CASE TextOp
  <2>1. PICK k \in TextOpKinds : Uses(k)
    BY <1>10, TextOpAdvances
  <2>2. k \in OpKinds \ FileOpKinds
    BY <2>1 DEF Uses, FileOpKinds, TextOpKinds
  <2>3. QED
    BY <1>1, <1>5, <1>6, <1>7, <1>10, <2>2, TextOpFits
<1>11. CASE DocOp
  <2>1. PICK p \in Path, ifExists \in BOOLEAN, change \in BOOLEAN : DocEdit(p, ifExists, change)
    BY <1>11, Zenon DEF DocOp
  <2>2. /\ Uses("doc")
        /\ astray' = (astray \/ ~(CanEdit(want, p) \/ (ifExists /\ ~Present(want, p))))
    BY <2>1, Zenon DEF DocEdit, Meant
  <2>3. "doc" \in OpKinds \ FileOpKinds
    BY <2>2 DEF Uses, FileOpKinds
  <2>4. CanEdit(want, p) \/ (ifExists /\ ~Present(want, p))
    BY <1>7, <2>2, <2>3
  <2>5. QED
    BY <1>1, <1>2, <1>5, <2>1, <2>4, DocFits DEF StepKind
<1>12. CASE Refuse
  BY <1>5, <1>12, SteadyRefl DEF Refuse, Fitting, StepKind
<1>13. CASE Collect
  <2>1. tx' = FlushDocs(tx) /\ want' = want
    BY <1>13 DEF Collect
  <2>2. Fits(disk, FlushDocs(tx), want) /\ FilesOK(disk)
    BY <1>5 DEF Fitting
  <2>3. QED
    BY <1>2, <2>1, <2>2, FlushTwice
<1>14. QED
  BY <1>8, <1>9, <1>10, <1>11, <1>12, <1>13 DEF StagingNext

(* A step that changes nothing.                                            *)
LEMMA StutterFits ==
  ASSUME StagingTypeOK, FitInv, UNCHANGED stageVars
  PROVE  /\ FitInv'
         /\ KeptToFiles' => StepKind(FlushDocs(tx), FlushDocs(tx'), want, want')
<1>1. /\ disk' = disk /\ tx' = tx /\ want' = want /\ astray' = astray
  BY DEF stageVars
<1>2. FlushDocs(tx)' = FlushDocs(tx)
  BY <1>1 DEF FlushDocs
<1>3. FitInv'
  <2>1. Shaped(tx)' /\ FilesOK(disk)' /\ (KeptToFiles' => KeptToFiles)
    BY <1>1 DEF FitInv, Shaped, FilesOK, KeptToFiles
  <2>2. ASSUME Fits(disk, FlushDocs(tx), want) /\ Clean(tx)
        PROVE  Fits(disk, FlushDocs(tx), want)' /\ Clean(tx)'
    BY <1>1, <1>2, <2>2 DEF Fits, At, StagedAt, UnstagedAt, Clean, Snapshot, Present
  <2>3. QED
    BY <2>1, <2>2 DEF FitInv
<1>4. StepKind(FlushDocs(tx), FlushDocs(tx'), want, want')
  BY <1>1, SteadyRefl DEF StepKind
<1>5. QED
  BY <1>3, <1>4

(***************************************************************************)
(* What the invariant says to a reader: the view of every path is the file *)
(* the plan means, and an operation is accepted as those files allow it.   *)
(***************************************************************************)
LEMMA FitsRead ==
  ASSUME FitInv PROVE ReadsItsWrites
<1> SUFFICES ASSUME KeptToFiles, NEW p \in Path
             PROVE  SameFile(View(tx, p), want[p])
  BY DEF ReadsItsWrites
<1> DEFINE t == FlushDocs(tx)
<1>1. FilesOK(disk) /\ Fits(disk, t, want) /\ Clean(tx)
  BY DEF FitInv
<1>2. At(disk, t, want, p)
  BY <1>1 DEF Fits
<1>3. CASE p \in DOMAIN tx.docs
  <2>1. p \notin tx.deletions /\ want[p] = Text(tx.docs[p])
    BY <1>1, <1>3, CachedFile DEF Clean
  <2>2. QED
    BY <1>3, <2>1 DEF View, SameFile
<1>4. CASE p \notin DOMAIN tx.docs
  <2>1. At(disk, tx, want, p)
    BY <1>2, <1>4, FlushAt DEF SameAt, At, StagedAt, UnstagedAt
  <2>2. CASE p \in tx.deletions
    BY <2>1, <2>2 DEF At, StagedAt, UnstagedAt, View, SameFile
  <2>3. CASE p \notin tx.deletions /\ p \notin DOMAIN tx.pending
    BY <1>4, <2>1, <2>3 DEF At, UnstagedAt, View, SameFile
  <2>4. CASE p \notin tx.deletions /\ p \in DOMAIN tx.pending
    BY <1>4, <2>1, <2>4 DEF At, StagedAt, View, SameFile, Binary
  <2>5. QED
    BY <2>2, <2>3, <2>4
<1>5. QED
  BY <1>3, <1>4

LEMMA FitsAccepted ==
  ASSUME FitInv PROVE AcceptsWhatFilesAllow
<1> DEFINE t == FlushDocs(tx)
<1> HIDE DEF t
<1> SUFFICES ASSUME KeptToFiles, NEW p \in Path
             PROVE  /\ CanAppend(t, p) <=> CanEdit(want, p)
                    /\ CanFileDelete(t, p) /\ p \notin t.deletions <=> CanDelete(want, p)
                    /\ \A force \in BOOLEAN :
                         /\ CanFileCreate(t, p, force) <=> CanCreate(want, p, force)
                         /\ \A q \in Path \ {p} :
                              CanFileRename(t, p, q, force) <=> CanRename(want, p, q, force)
  BY DEF AcceptsWhatFilesAllow, t
<1>1. FilesOK(disk) /\ Fits(disk, t, want)
  BY DEF FitInv, t
<1>2. QED
  BY <1>1, EditableIsText, DeleteAllowed, CreateAllowed, RenameAllowed

(* FitInv is an invariant of staging, on the types.                        *)
LEMMA StagingFits == StagingSpec => [](StagingTypeOK /\ FitInv)
<1>1. StagingInit => StagingTypeOK /\ FitInv
  BY InitStagingTypeOK, InitFitInv
<1>2. StagingTypeOK /\ FitInv /\ [StagingNext]_stageVars => (StagingTypeOK /\ FitInv)'
  <2>1. ASSUME StagingTypeOK, FitInv, StagingNext PROVE (StagingTypeOK /\ FitInv)'
    BY <2>1, StepStagingTypeOK, StepFits
  <2>2. ASSUME StagingTypeOK, FitInv, UNCHANGED stageVars PROVE (StagingTypeOK /\ FitInv)'
    <3>1. StagingTypeOK'
      BY <2>2 DEF StagingTypeOK, stageVars, IsPartialFn
    <3>2. QED
      BY <2>2, <3>1, StutterFits
  <2>3. QED
    BY <2>1, <2>2
<1>3. QED
  BY <1>1, <1>2, PTL DEF StagingSpec

(***************************************************************************)
(* Read your writes, for plans of any number of operations of every kind,  *)
(* on any files: the transaction shows each path as the operations, run    *)
(* straight on the files, would have left it.  (StagingNext is the bare    *)
(* staging of execute_operation, without the commit of module PlanTx.)     *)
(***************************************************************************)
THEOREM StagingReadsItsWrites == StagingSpec => []ReadsItsWrites
<1>1. StagingTypeOK /\ FitInv => ReadsItsWrites
  BY FitsRead
<1>2. QED
  BY <1>1, StagingFits, PTL

(***************************************************************************)
(* Staging takes an append, a create, a delete or a rename exactly when    *)
(* the files, as the plan would have left them by now, allow it: what      *)
(* read_file_content, path_present_for_if_exists and the checks of         *)
(* file_ops.rs decide from the pending map and the disk together.          *)
(***************************************************************************)
THEOREM StagingAcceptsWhatFilesAllow == StagingSpec => []AcceptsWhatFilesAllow
<1>1. StagingTypeOK /\ FitInv => AcceptsWhatFilesAllow
  BY FitsAccepted
<1>2. QED
  BY <1>1, StagingFits, PTL

-----------------------------------------------------------------------------
(* The document cache, in plans of any operations.                         *)
Edits(k) == [i \in 1..k |-> Edit]

LEMMA OneMoreEdit ==
  ASSUME NEW b \in Body, NEW k \in Nat
  PROVE  /\ b \o Edits(0) = b
         /\ Append(b \o Edits(k), Edit) = b \o Edits(k + 1)
<1>1. b \in Seq(Token)
  BY DEF Body
<1>2. \A n \in Nat : Edits(n) \in Seq(Token) /\ Len(Edits(n)) = n
  BY StagingConstants DEF Edits
<1>3. \A n \in Nat : \A i \in 1..n : Edits(n)[i] = Edit
  BY DEF Edits
<1> HIDE DEF Edits
<1> DEFINE m == Edits(k)
           n == Edits(k + 1)
           o == b \o m
           l == Append(o, Edit)
           r == b \o n
<1>4. /\ m \in Seq(Token) /\ Len(m) = k /\ n \in Seq(Token) /\ Len(n) = k + 1
      /\ \A i \in 1..k : m[i] = Edit
      /\ \A i \in 1..(k + 1) : n[i] = Edit
      /\ Edit \in Token
  BY <1>2, <1>3, StagingConstants
<1> HIDE DEF m, n
<1>5. /\ o \in Seq(Token) /\ Len(o) = Len(b) + k
      /\ \A i \in 1..Len(b) : o[i] = b[i]
      /\ \A i \in (Len(b) + 1)..(Len(b) + k) : o[i] = Edit
  BY <1>1, <1>4
<1>6. /\ r \in Seq(Token) /\ Len(r) = Len(b) + k + 1
      /\ \A i \in 1..Len(b) : r[i] = b[i]
      /\ \A i \in (Len(b) + 1)..(Len(b) + k + 1) : r[i] = Edit
  BY <1>1, <1>4
<1> HIDE DEF o, r
<1>7. /\ l \in Seq(Token) /\ Len(l) = Len(b) + k + 1
      /\ \A i \in 1..(Len(b) + k + 1) : l[i] = r[i]
  <2>1. l \in Seq(Token) /\ Len(l) = Len(o) + 1 /\ l[Len(o) + 1] = Edit
    BY <1>4, <1>5
  <2>2. \A i \in 1..(Len(b) + k) : l[i] = o[i]
    BY <1>1, <1>4, <1>5
  <2> HIDE DEF l
  <2>3. QED
    BY <1>1, <1>5, <1>6, <2>1, <2>2
<1> HIDE DEF l
<1>8. l = r
  BY <1>6, <1>7, SeqEqual
<1>9. b \o Edits(0) = b
  BY <1>1, <1>2, ConcatEmptySeq, EmptySeq
<1>10. QED
  BY <1>8, <1>9 DEF l, r, o, m, n

(* The file p as the cache has it, no more than n edits ahead of its text. *)
Grown(c, b, n) == \E k \in 0..n : c = b \o Edits(k)

FreshAt(t, n, p) ==
  /\ p \in DOMAIN t.pending
  /\ Grown(t.docs[p], t.pending[p].cur, n)

Fresh(t, n) == \A p \in DOMAIN t.docs : FreshAt(t, n, p)

LEMMA Growing ==
  ASSUME NEW n \in Nat, NEW b
  PROVE  /\ \A c : Grown(c, b, n) => Grown(c, b, n + 1)
         /\ b \in Body => Grown(b, b, n)
         /\ b \in Body => \A c : Grown(c, b, n) => Grown(Append(c, Edit), b, n + 1)
<1>1. ASSUME NEW c, Grown(c, b, n) PROVE Grown(c, b, n + 1)
  <2>1. PICK k \in 0..n : c = b \o Edits(k)
    BY <1>1 DEF Grown
  <2>2. k \in 0..(n + 1)
    OBVIOUS
  <2>3. QED
    BY <2>1, <2>2, Zenon DEF Grown
<1>2. ASSUME b \in Body PROVE Grown(b, b, n)
  <2>1. b = b \o Edits(0) /\ 0 \in 0..n
    BY <1>2, OneMoreEdit
  <2>2. QED
    BY <2>1, Zenon DEF Grown
<1>3. ASSUME b \in Body, NEW c, Grown(c, b, n) PROVE Grown(Append(c, Edit), b, n + 1)
  <2>1. PICK k \in 0..n : c = b \o Edits(k)
    BY <1>3 DEF Grown
  <2>2. k \in Nat /\ k + 1 \in 0..(n + 1)
    OBVIOUS
  <2>3. Append(c, Edit) = b \o Edits(k + 1)
    BY <1>3, <2>1, <2>2, OneMoreEdit
  <2>4. QED
    BY <2>2, <2>3, Zenon DEF Grown
<1>4. QED
  BY <1>1, <1>2, <1>3

LEMMA DocFresh ==
  ASSUME TypedTx(tx), disk \in [Path -> File], Shaped(tx), ops \in Nat, Fresh(tx, ops),
         NEW p \in Path, NEW ifExists \in BOOLEAN, NEW change \in BOOLEAN,
         DocEdit(p, ifExists, change)
  PROVE  Fresh(tx', ops + 1)
<1> DEFINE r == DocRoot(tx, p)
           l == Load(tx, p)
           e == [r EXCEPT !.docs[p] = Append(@, Edit)]
<1>1. tx' = tx \/ tx' = r \/ tx' = e
  BY Zenon DEF DocEdit
<1>2. TypedTx(r) /\ p \in DOMAIN r.docs /\ Shaped(r)
  BY DocRootTyped, HelpersShaped
<1>3. Fresh(r, ops)
  <2>1. CASE p \in DOMAIN tx.docs
    BY <2>1 DEF DocRoot
  <2>2. CASE p \notin DOMAIN tx.docs
    <3>1. /\ p \in DOMAIN l.pending
          /\ \A q \in DOMAIN tx.pending : q \in DOMAIN l.pending /\ l.pending[q] = tx.pending[q]
      BY DEF Load, Put
    <3>2. TypedTx(l) /\ Shaped(l)
      BY LoadTyped, HelpersShaped
    <3> HIDE DEF l
    <3>3. /\ r.docs = [q \in DOMAIN tx.docs \cup {p} |->
                         IF q = p THEN l.pending[p].cur ELSE tx.docs[q]]
          /\ r.pending = l.pending
      BY <2>2, <3>2 DEF DocRoot, l, Shaped, EmptyTx
    <3>4. l.pending[p].cur \in Body
      BY <3>1, <3>2, StagedTyped
    <3> HIDE DEF r
    <3>5. FreshAt(r, ops, p)
      BY <3>1, <3>3, <3>4, Growing DEF FreshAt
    <3>6. \A q \in DOMAIN tx.docs : FreshAt(r, ops, q)
      BY <2>2, <3>1, <3>3 DEF Fresh, FreshAt
    <3>7. QED
      BY <3>3, <3>5, <3>6 DEF Fresh
  <2>3. QED
    BY <2>1, <2>2
<1>4. ASSUME NEW t, Fresh(t, ops) PROVE Fresh(t, ops + 1)
  BY <1>4, Growing DEF Fresh, FreshAt
<1>5. Fresh(e, ops + 1)
  <2>1. /\ e.pending = r.pending /\ DOMAIN e.docs = DOMAIN r.docs
        /\ e.docs[p] = Append(r.docs[p], Edit)
        /\ \A q \in DOMAIN r.docs : q # p => e.docs[q] = r.docs[q]
    <3>1. r.docs = [q \in DOMAIN r.docs |-> r.docs[q]]
      BY <1>2 DEF TypedTx, IsPartialFn
    <3> HIDE DEF r
    <3>2. QED
      BY <1>2, <3>1 DEF Shaped, EmptyTx
  <2> HIDE DEF e, r
  <2>2. p \in DOMAIN r.pending /\ r.pending[p].cur \in Body
    BY <1>2, <1>3, StagedTyped DEF Fresh, FreshAt
  <2>3. Grown(r.docs[p], r.pending[p].cur, ops)
    BY <1>2, <1>3 DEF Fresh, FreshAt
  <2>4. Grown(e.docs[p], e.pending[p].cur, ops + 1)
    BY <2>1, <2>2, <2>3, Growing
  <2>5. FreshAt(e, ops + 1, p)
    BY <2>1, <2>2, <2>4 DEF FreshAt
  <2>6. \A q \in DOMAIN r.docs : q # p => FreshAt(e, ops + 1, q)
    BY <1>3, <1>4, <2>1 DEF Fresh, FreshAt
  <2>7. QED
    BY <2>1, <2>5, <2>6 DEF Fresh
<1>6. QED
  BY <1>1, <1>3, <1>4, <1>5

LEMMA StepCached ==
  ASSUME StagingTypeOK, FitInv, FitInv', CacheIsCurrent, StagingNext
  PROVE  CacheIsCurrent'
<1>1. Shaped(tx) /\ TypedTx(tx) /\ disk \in [Path -> File] /\ ops \in Nat
  BY TypedFlushed, StagingConstants DEF FitInv, StagingTypeOK
<1>2. ASSUME DOMAIN tx'.docs = {} PROVE CacheIsCurrent'
  BY <1>2 DEF CacheIsCurrent
<1>3. CASE FileOp \/ PatchOp \/ TextOp
  BY <1>1, <1>2, <1>3, FileOpFlushed, PatchOpFlushed, TextOpFlushed DEF Flushed
<1>4. CASE Collect
  BY <1>1, <1>2, <1>4, HelpersFlushed DEF Collect, Flushed
<1>5. CASE Refuse
  BY <1>5 DEF Refuse, CacheIsCurrent
<1>6. CASE DocOp
  <2>1. PICK p \in Path, ifExists \in BOOLEAN, change \in BOOLEAN : DocEdit(p, ifExists, change)
    BY <1>6, Zenon DEF DocOp
  <2>2. phase = "staging" /\ ops' = ops + 1 /\ phase' = phase
    BY <2>1, Zenon DEF DocEdit, Uses, Advance
  <2>3. Fresh(tx', ops + 1)
    <3>1. Fresh(tx, ops)
      BY <2>2 DEF CacheIsCurrent, Fresh, FreshAt, Grown, Edits
    <3>2. QED
      BY <1>1, <2>1, <3>1, DocFresh
  <2>4. \A q \in DOMAIN tx'.docs : astray' \/ q \notin tx'.deletions
    BY DEF FitInv, KeptToFiles, Clean
  <2>5. QED
    BY <2>2, <2>3, <2>4 DEF CacheIsCurrent, Fresh, FreshAt, Grown, Edits
<1>7. QED
  BY <1>3, <1>4, <1>5, <1>6 DEF StagingNext

(***************************************************************************)
(* The document cache is current, for any paths, texts and workspaces and  *)
(* plans of any operations: parsed_doc_cache has of each file its pending  *)
(* text with the edits made since it was parsed, nothing is staged         *)
(* underneath, and flush_doc_cache leaves nothing for the commit.          *)
(***************************************************************************)
THEOREM CacheStaysCurrent == StagingSpec => []CacheIsCurrent
<1>1. StagingInit => CacheIsCurrent
  BY DEF StagingInit, CacheIsCurrent, EmptyTx
<1>2. /\ CacheIsCurrent /\ [StagingNext]_stageVars
      /\ StagingTypeOK /\ FitInv /\ FitInv'
      => CacheIsCurrent'
  <2>1. ASSUME CacheIsCurrent, UNCHANGED stageVars PROVE CacheIsCurrent'
    BY <2>1 DEF CacheIsCurrent, stageVars
  <2>2. QED
    BY <2>1, StepCached
<1>3. QED
  BY <1>1, <1>2, StagingFits, PTL DEF StagingSpec

-----------------------------------------------------------------------------
(***************************************************************************)
(* For any paths, texts, workspaces and plans of any operations: what is   *)
(* staged as the original of a path is what is on disk there.              *)
(***************************************************************************)

(***************************************************************************)
(* The invariant, of a transaction t.  A path that leaves the pending map  *)
(* may come back, so existed_before is right of those as well; and a       *)
(* deleted or cached path is pending, so that a write or a flush of it     *)
(* finds the original it must keep.                                        *)
(***************************************************************************)
OriginalsOK(t) ==
  /\ \A p \in DOMAIN t.pending :
       /\ t.pending[p].orig = Snapshot(disk, p)
       /\ p \in t.existed <=> Present(disk, p)
  /\ \A p \in t.existed : Present(disk, p)
  /\ t.deletions \subseteq DOMAIN t.pending
  /\ DOMAIN t.docs \subseteq DOMAIN t.pending

(* A path that may be written without being loaded.                        *)
Ready(t, p) == p \in DOMAIN t.pending \/ ~Present(disk, p)

-----------------------------------------------------------------------------
(* The helpers, one lemma each.                                            *)

LEMMA SameOriginals ==
  ASSUME NEW t, NEW u, OriginalsOK(t),
         u.pending = t.pending, u.existed = t.existed,
         u.deletions = t.deletions, u.docs = t.docs
  PROVE  OriginalsOK(u)
BY DEF OriginalsOK

LEMMA FlushOriginals ==
  ASSUME NEW t, OriginalsOK(t)
  PROVE  /\ OriginalsOK(FlushDocs(t))
         /\ DOMAIN FlushDocs(t).docs = {}
<1> DEFINE u == FlushDocs(t)
<1>1. /\ DOMAIN u.pending = DOMAIN t.pending
      /\ \A p \in DOMAIN t.pending : u.pending[p].orig = t.pending[p].orig
      /\ u.existed = t.existed
      /\ u.deletions \subseteq t.deletions
      /\ DOMAIN u.docs = {}
  BY DEF FlushDocs, OriginalsOK
<1>2. QED
  BY <1>1 DEF OriginalsOK

LEMMA LoadForCreateOriginals ==
  ASSUME NEW t, NEW p, OriginalsOK(t), p \in DOMAIN t.pending \/ Present(disk, p)
  PROVE  /\ OriginalsOK(LoadForCreate(t, p))
         /\ DOMAIN LoadForCreate(t, p).pending = DOMAIN t.pending \cup {p}
         /\ LoadForCreate(t, p).docs = t.docs
         /\ LoadForCreate(t, p).deletions = t.deletions
<1>1. CASE p \in DOMAIN t.pending
  BY <1>1 DEF LoadForCreate
<1>2. CASE p \notin DOMAIN t.pending
  <2> DEFINE l == LoadForCreate(t, p)
  <2>1. /\ l.pending = [q \in DOMAIN t.pending \cup {p} |->
                          IF q = p THEN [orig |-> Snapshot(disk, p), cur |-> Snapshot(disk, p)]
                          ELSE t.pending[q]]
        /\ l.existed = t.existed \cup {p}
        /\ l.deletions = t.deletions
        /\ l.docs = t.docs
    BY <1>2 DEF LoadForCreate, Put
  <2>2. QED
    BY <1>2, <2>1 DEF OriginalsOK
<1>3. QED
  BY <1>1, <1>2

LEMMA LoadForPathOpOriginals ==
  ASSUME NEW t, NEW p, OriginalsOK(t), p \in DOMAIN t.pending \/ Present(disk, p)
  PROVE  /\ OriginalsOK(LoadForPathOp(t, p))
         /\ DOMAIN LoadForPathOp(t, p).pending = DOMAIN t.pending \cup {p}
         /\ LoadForPathOp(t, p).docs = t.docs
         /\ LoadForPathOp(t, p).deletions = t.deletions
<1> DEFINE c == LoadForCreate(t, p)
           l == LoadForPathOp(t, p)
<1>1. CASE p \in DOMAIN t.pending
  BY <1>1 DEF LoadForPathOp
<1>2. CASE p \notin DOMAIN t.pending
  <2>1. /\ l.pending = c.pending /\ l.existed = c.existed
        /\ l.deletions = c.deletions /\ l.docs = c.docs
    BY <1>2 DEF LoadForPathOp
  <2> HIDE DEF c, l
  <2>2. QED
    BY <2>1, LoadForCreateOriginals, SameOriginals DEF c, l
<1>3. QED
  BY <1>1, <1>2

LEMMA LoadOriginals ==
  ASSUME NEW t, NEW p, OriginalsOK(t), CanLoad(t, p)
  PROVE  /\ OriginalsOK(Load(t, p))
         /\ DOMAIN Load(t, p).pending = DOMAIN t.pending \cup {p}
         /\ Load(t, p).docs = t.docs
         /\ Load(t, p).deletions = t.deletions
<1>1. CASE p \in DOMAIN t.pending
  BY <1>1 DEF Load
<1>2. CASE p \notin DOMAIN t.pending
  <2> DEFINE l == Load(t, p)
  <2>1. /\ l.pending = [q \in DOMAIN t.pending \cup {p} |->
                          IF q = p THEN [orig |-> disk[p].body, cur |-> disk[p].body]
                          ELSE t.pending[q]]
        /\ l.existed = t.existed \cup {p}
        /\ l.deletions = t.deletions
        /\ l.docs = t.docs
    BY <1>2 DEF Load, Put
  <2>2. Present(disk, p) /\ disk[p].body = Snapshot(disk, p)
    BY <1>2 DEF CanLoad, Present, Snapshot
  <2>3. QED
    BY <1>2, <2>1, <2>2 DEF OriginalsOK
<1>3. QED
  BY <1>1, <1>2

LEMMA WriteOriginals ==
  ASSUME NEW t, NEW p, NEW b, OriginalsOK(t), Ready(t, p)
  PROVE  /\ OriginalsOK(WriteFile(t, p, b))
         /\ DOMAIN WriteFile(t, p, b).pending = DOMAIN t.pending \cup {p}
         /\ WriteFile(t, p, b).docs = t.docs
<1> DEFINE w == WriteFile(t, p, b)
           orig == IF p \in DOMAIN t.pending THEN t.pending[p].orig ELSE << >>
<1>1. /\ w.pending = [q \in DOMAIN t.pending \cup {p} |->
                        IF q = p THEN [orig |-> orig, cur |-> b] ELSE t.pending[q]]
      /\ w.existed = t.existed
      /\ w.deletions = t.deletions \ {p}
      /\ w.docs = t.docs
  BY DEF WriteFile, Put
<1>2. orig = Snapshot(disk, p) /\ (p \in t.existed <=> Present(disk, p))
  BY DEF OriginalsOK, Ready, Snapshot, Present
<1>3. QED
  BY <1>1, <1>2 DEF OriginalsOK

LEMMA StageDeleteOriginals ==
  ASSUME NEW t, NEW p \in DOMAIN t.pending, OriginalsOK(t), DOMAIN t.docs = {}
  PROVE  OriginalsOK(StageDelete(t, p)) /\ DOMAIN StageDelete(t, p).docs = {}
<1> DEFINE f == Forget(t, p)
           w == WriteFile(t, p, << >>)
           m == [w EXCEPT !.deletions = @ \cup {p}]
<1>1. OriginalsOK(f) /\ DOMAIN f.docs = {}
  BY DEF Forget, OriginalsOK
<1>2. OriginalsOK(w) /\ p \in DOMAIN w.pending /\ DOMAIN w.docs = {}
  BY WriteOriginals DEF Ready
<1>3. /\ m.pending = w.pending /\ m.existed = w.existed
      /\ m.deletions = w.deletions \cup {p} /\ m.docs = w.docs
  BY DEF WriteFile, Put
<1>4. StageDelete(t, p) = f \/ StageDelete(t, p) = m
  BY DEF StageDelete
<1> HIDE DEF f, w, m
<1>5. OriginalsOK(m) /\ DOMAIN m.docs = {}
  BY <1>2, <1>3 DEF OriginalsOK
<1>6. QED
  BY <1>1, <1>4, <1>5

LEMMA DocRootOriginals ==
  ASSUME NEW t, NEW p, OriginalsOK(t), CanDocEdit(t, p)
  PROVE  OriginalsOK(DocRoot(t, p))
<1> DEFINE l == Load(t, p)
           r == DocRoot(t, p)
<1>1. CASE p \in DOMAIN t.docs
  BY <1>1 DEF DocRoot
<1>2. CASE p \notin DOMAIN t.docs
  <2>1. /\ OriginalsOK(l)
        /\ DOMAIN l.pending = DOMAIN t.pending \cup {p}
    BY <1>2, LoadOriginals DEF CanDocEdit
  <2>2. /\ DOMAIN r.docs = DOMAIN t.docs \cup {p}
        /\ r.pending = l.pending /\ r.deletions = l.deletions /\ r.existed = l.existed
    BY <1>2 DEF DocRoot
  <2> HIDE DEF l, r
  <2>3. QED
    BY <2>1, <2>2 DEF OriginalsOK, r
<1>3. QED
  BY <1>1, <1>2

-----------------------------------------------------------------------------
(* The operations.                                                         *)

OriginalsInv == OriginalsOK(tx)

(* The workspace does not change in staging.                               *)
LEMMA StagedOriginals ==
  ASSUME OriginalsOK(tx'), UNCHANGED disk
  PROVE  OriginalsInv'
BY DEF OriginalsInv, OriginalsOK, Snapshot, Present

LEMMA NotThereReady ==
  ASSUME NEW t, NEW p, OriginalsOK(t), ~Exists(t, p)
  PROVE  Ready(t, p)
BY DEF Exists, OriginalsOK, Ready

LEMMA AppendOriginals ==
  ASSUME OriginalsInv, NEW p \in Path, FileAppend(p)
  PROVE  OriginalsOK(tx')
<1> DEFINE t == FlushDocs(tx)
           l == Load(t, p)
           b == Append(l.pending[p].cur, Edit)
<1>1. CanLoad(t, p) /\ tx' = WriteFile(l, p, b)
  BY DEF FileAppend, CanAppend
<1>2. OriginalsOK(t)
  BY FlushOriginals DEF OriginalsInv
<1>3. OriginalsOK(l) /\ Ready(l, p)
  BY <1>1, <1>2, LoadOriginals DEF Ready
<1>4. QED
  BY <1>1, <1>3, WriteOriginals

LEMMA CreateOriginals ==
  ASSUME OriginalsInv, NEW p \in Path, NEW b, NEW force, FileCreate(p, b, force)
  PROVE  OriginalsOK(tx')
<1> DEFINE t == FlushDocs(tx)
           l == IF force /\ Present(disk, p) THEN LoadForCreate(t, p) ELSE t
<1>1. CanFileCreate(t, p, force) /\ tx' = WriteFile(l, p, b)
  BY DEF FileCreate
<1>2. OriginalsOK(t)
  BY FlushOriginals DEF OriginalsInv
<1>3. OriginalsOK(l) /\ Ready(l, p)
  <2>1. CASE force /\ Present(disk, p)
    BY <1>2, <2>1, LoadForCreateOriginals DEF Ready
  <2>2. CASE ~(force /\ Present(disk, p))
    BY <1>1, <1>2, <2>2, NotThereReady DEF CanFileCreate, Ready
  <2>3. QED
    BY <2>1, <2>2
<1>4. QED
  BY <1>1, <1>3, WriteOriginals

LEMMA DeleteOriginals ==
  ASSUME OriginalsInv, NEW p \in Path, NEW ifExists, FileDelete(p, ifExists)
  PROVE  OriginalsOK(tx')
<1> DEFINE t == FlushDocs(tx)
           l == LoadForPathOp(t, p)
           s == StageDelete(l, p)
           r == DropRenameChainEndingAt(s.renames, p)
<1>1. OriginalsOK(t) /\ DOMAIN t.docs = {}
  BY FlushOriginals DEF OriginalsInv
<1>2. CASE ifExists /\ ~Exists(t, p)
  BY <1>1, <1>2 DEF FileDelete
<1>3. CASE ~(ifExists /\ ~Exists(t, p))
  <2>1. CanFileDelete(t, p) /\ tx' = [s EXCEPT !.renames = r]
    BY <1>3 DEF FileDelete
  <2>2. OriginalsOK(l) /\ p \in DOMAIN l.pending /\ DOMAIN l.docs = {}
    BY <1>1, <2>1, LoadForPathOpOriginals DEF CanFileDelete
  <2>3. OriginalsOK(s)
    BY <2>2, StageDeleteOriginals
  <2>4. /\ tx'.pending = s.pending /\ tx'.existed = s.existed
        /\ tx'.deletions = s.deletions /\ tx'.docs = s.docs
    BY <2>1
  <2> HIDE DEF s
  <2>5. QED
    BY <2>3, <2>4, SameOriginals
<1>4. QED
  BY <1>2, <1>3

(* A rename writes its destination, and then deletes its source.           *)
LEMMA RenameOriginals ==
  ASSUME OriginalsInv, NEW p \in Path, NEW q \in Path, NEW force,
         FileRename(p, q, force)
  PROVE  OriginalsOK(tx')
<1> DEFINE t == FlushDocs(tx)
           l == LoadForPathOp(t, p)
           m == IF force /\ Present(disk, q) THEN LoadForPathOp(l, q) ELSE l
           kept == \/ Present(disk, p)
                   \/ p \in RenamedTo(t.renames)
           free == force \/ ~(Present(disk, q) /\ q \notin t.deletions)
           w == WriteFile(m, q, l.pending[p].cur)
           s == [w EXCEPT
                   !.soft = IF p \in m.soft THEN @ \cup {q} ELSE @,
                   !.renames = IF kept /\ free
                               THEN Append(@, [from |-> p, to |-> q]) ELSE @]
<1>1. CanFileRename(t, p, q, force) /\ tx' = StageDelete(s, p)
  BY DEF FileRename
<1>2. OriginalsOK(t) /\ DOMAIN t.docs = {}
  BY FlushOriginals DEF OriginalsInv
<1>3. /\ OriginalsOK(l) /\ DOMAIN l.pending = DOMAIN t.pending \cup {p}
      /\ DOMAIN l.docs = {} /\ l.deletions = t.deletions
  BY <1>1, <1>2, LoadForPathOpOriginals DEF CanFileRename
<1>4. /\ OriginalsOK(m) /\ Ready(m, q)
      /\ p \in DOMAIN m.pending /\ DOMAIN m.docs = {}
  <2>1. CASE force /\ Present(disk, q)
    <3>1. m = LoadForPathOp(l, q)
      BY <2>1
    <3>2. QED
      BY <1>3, <2>1, <3>1, LoadForPathOpOriginals DEF Ready
  <2>2. CASE ~(force /\ Present(disk, q))
    <3>1. m = l
      BY <2>2
    <3>2. Ready(t, q)
      BY <1>1, <1>2, <2>2, NotThereReady DEF CanFileRename, Ready
    <3>3. QED
      BY <1>3, <3>1, <3>2 DEF Ready
  <2>3. QED
    BY <2>1, <2>2
<1>5. OriginalsOK(w) /\ p \in DOMAIN w.pending /\ DOMAIN w.docs = {}
  BY <1>4, WriteOriginals
<1>6. /\ s.pending = w.pending /\ s.existed = w.existed
      /\ s.deletions = w.deletions /\ s.docs = w.docs
  BY DEF WriteFile, Put
<1> HIDE DEF w, s
<1>7. OriginalsOK(s) /\ p \in DOMAIN s.pending /\ DOMAIN s.docs = {}
  BY <1>5, <1>6, SameOriginals
<1>8. QED
  BY <1>1, <1>7, StageDeleteOriginals

LEMMA PatchAddOriginals ==
  ASSUME OriginalsInv, NEW p \in Path, NEW b, PatchAdd(p, b)
  PROVE  OriginalsOK(tx')
<1> DEFINE t == FlushDocs(tx)
<1>1. ~Exists(t, p) /\ tx' = WriteFile(t, p, b)
  BY DEF PatchAdd
<1>2. OriginalsOK(t)
  BY FlushOriginals DEF OriginalsInv
<1>3. Ready(t, p)
  BY <1>1, <1>2, NotThereReady
<1>4. QED
  BY <1>1, <1>2, <1>3, WriteOriginals

LEMMA PatchDeleteOriginals ==
  ASSUME OriginalsInv, NEW p \in Path, PatchDelete(p)
  PROVE  OriginalsOK(tx')
<1> DEFINE t == FlushDocs(tx)
           l == Load(t, p)
           m == [l EXCEPT !.deletions = @ \cup {p}, !.writes = @ \cup {p}]
<1>1. CanLoad(t, p) /\ tx' = m
  BY DEF PatchDelete
<1>2. OriginalsOK(l) /\ p \in DOMAIN l.pending
  BY <1>1, FlushOriginals, LoadOriginals DEF OriginalsInv
<1>3. /\ m.pending = l.pending /\ m.existed = l.existed
      /\ m.deletions = l.deletions \cup {p} /\ m.docs = l.docs
  BY DEF Load, Put, FlushDocs
<1> HIDE DEF l, m
<1>4. QED
  BY <1>1, <1>2, <1>3 DEF OriginalsOK

LEMMA PatchUpdateOriginals ==
  ASSUME OriginalsInv, NEW p \in Path, NEW h, PatchUpdate(p, h)
  PROVE  OriginalsOK(tx')
<1> DEFINE t == FlushDocs(tx)
           l == Load(t, p)
           b == Hunked(h, l.pending[p].cur)
<1>1. CanLoad(t, p) /\ tx' = WriteFile(l, p, b)
  BY DEF PatchUpdate, CanPatchUpdate
<1>2. OriginalsOK(l) /\ Ready(l, p)
  BY <1>1, FlushOriginals, LoadOriginals DEF OriginalsInv, Ready
<1>3. QED
  BY <1>1, <1>2, WriteOriginals

(* A patch's move keeps the source's entry, with its original.             *)
LEMMA PatchMoveOriginals ==
  ASSUME OriginalsInv, NEW p \in Path, NEW h, NEW q \in Path \ {p},
         PatchMove(p, h, q)
  PROVE  OriginalsOK(tx')
<1> DEFINE t == FlushDocs(tx)
           l == Load(t, p)
           o == l.pending[p]
           w == WriteFile(l, q, Hunked(h, o.cur))
           k == [orig |-> o.orig, cur |-> << >>]
           m == [Put(w, p, k) EXCEPT
                   !.renames = Append(@, [from |-> p, to |-> q]),
                   !.deletions = @ \cup {p}]
<1>1. CanLoad(t, p) /\ ~Exists(l, q) /\ tx' = m
  BY DEF PatchMove, CanPatchUpdate
<1>2. OriginalsOK(l) /\ p \in DOMAIN l.pending
  BY <1>1, FlushOriginals, LoadOriginals DEF OriginalsInv
<1>3. Ready(l, q)
  BY <1>1, <1>2, NotThereReady
<1>4. OriginalsOK(w) /\ p \in DOMAIN w.pending
  BY <1>2, <1>3, WriteOriginals
<1>5. k.orig = w.pending[p].orig
  <2>1. k.orig = l.pending[p].orig
    OBVIOUS
  <2>2. l.pending[p].orig = Snapshot(disk, p) /\ w.pending[p].orig = Snapshot(disk, p)
    BY <1>2, <1>4 DEF OriginalsOK
  <2>3. QED
    BY <2>1, <2>2
<1>6. /\ m.pending = [x \in DOMAIN w.pending \cup {p} |-> IF x = p THEN k ELSE w.pending[x]]
      /\ m.existed = w.existed
      /\ m.deletions = w.deletions \cup {p} /\ m.docs = w.docs
  BY DEF Put, WriteFile
<1> HIDE DEF w, k, m
<1>7. QED
  BY <1>1, <1>4, <1>5, <1>6 DEF OriginalsOK

LEMMA DocOriginals ==
  ASSUME OriginalsInv, NEW p \in Path, NEW ifExists, NEW change,
         DocEdit(p, ifExists, change)
  PROVE  OriginalsOK(tx')
<1> DEFINE r == DocRoot(tx, p)
           e == [r EXCEPT !.docs[p] = Append(@, Edit)]
<1>1. CASE ifExists /\ ~Exists(tx, p)
  BY <1>1 DEF DocEdit, OriginalsInv
<1>2. CASE ~(ifExists /\ ~Exists(tx, p))
  <2>1. CanDocEdit(tx, p) /\ (tx' = r \/ tx' = e)
    BY <1>2 DEF DocEdit
  <2>2. OriginalsOK(r)
    BY <2>1, DocRootOriginals DEF OriginalsInv
  <2>3. /\ e.pending = r.pending /\ e.existed = r.existed
        /\ e.deletions = r.deletions /\ DOMAIN e.docs = DOMAIN r.docs
    BY DEF DocRoot, Load, Put
  <2> HIDE DEF r, e
  <2>4. OriginalsOK(e)
    BY <2>2, <2>3 DEF OriginalsOK
  <2>5. QED
    BY <2>1, <2>2, <2>4
<1>3. QED
  BY <1>1, <1>2

-----------------------------------------------------------------------------
(* The operations on texts.                                                *)

(* A text that is loaded and written.                                      *)
LEMMA EditOriginals ==
  ASSUME NEW t, NEW p, NEW b, OriginalsOK(t), CanLoad(t, p)
  PROVE  OriginalsOK(WriteFile(Load(t, p), p, b))
<1>1. OriginalsOK(Load(t, p)) /\ Ready(Load(t, p), p)
  BY LoadOriginals DEF Ready
<1>2. QED
  BY <1>1, WriteOriginals

(* Two texts of which one has moved to the other.                          *)
LEMMA MoveOriginals ==
  ASSUME NEW t, NEW p, NEW q, NEW b, NEW c, OriginalsOK(t),
         p \in DOMAIN t.pending, Ready(t, q)
  PROVE  OriginalsOK(WriteFile(WriteFile(t, p, b), q, c))
<1> DEFINE w == WriteFile(t, p, b)
<1>1. OriginalsOK(w) /\ DOMAIN w.pending = DOMAIN t.pending \cup {p}
  BY WriteOriginals DEF Ready
<1> HIDE DEF w
<1>2. Ready(w, q)
  BY <1>1 DEF Ready
<1>3. OriginalsOK(WriteFile(w, q, c))
  BY <1>1, <1>2, WriteOriginals
<1>4. QED
  BY <1>3 DEF w

LEMMA ReadOriginals ==
  ASSUME OriginalsInv, NEW p \in Path, ReadOp(p)
  PROVE  OriginalsOK(tx')
BY FlushOriginals, LoadOriginals DEF ReadOp, OriginalsInv

LEMMA ReplaceOriginals ==
  ASSUME OriginalsInv, NEW p \in Path, NEW ifExists, Replace(p, ifExists)
  PROVE  OriginalsOK(tx')
<1> DEFINE t == FlushDocs(tx)
           w == WriteFile(Load(t, p), p, Replaced(Body0(t, p)))
<1>1. OriginalsOK(t)
  BY FlushOriginals DEF OriginalsInv
<1>2. tx' = t \/ (CanLoad(t, p) /\ (tx' = w \/ tx' = Load(t, p)))
  BY Zenon DEF Replace
<1>3. QED
  BY <1>1, <1>2, EditOriginals, LoadOriginals

(* The hits of a glob are loaded as they are written.                      *)
LEMMA ReplaceGlobOriginals ==
  ASSUME OriginalsInv, NEW S \in SUBSET Path, ReplaceGlob(S)
  PROVE  OriginalsOK(tx')
<1> DEFINE t == FlushDocs(tx)
           H == GlobHits(t, S)
           u == WriteHits(t, H)
           Cur(p) == Replaced(Body0(t, p))
<1>1. OriginalsOK(t) /\ DOMAIN t.docs = {}
  BY FlushOriginals DEF OriginalsInv
<1>2. tx' = u
  BY Zenon DEF ReplaceGlob
<1> HIDE DEF t
<1>3. \A p \in H : CanLoad(t, p)
  BY DEF GlobHits
<1>4. \A p \in H : Load(t, p).pending[p].orig = Snapshot(disk, p)
  BY <1>1, <1>3, LoadOriginals DEF OriginalsOK
<1>5. \A p \in H \ DOMAIN t.pending : Present(disk, p)
  BY <1>3 DEF CanLoad, Present
<1> HIDE DEF H, Cur
<1>6. /\ u.pending = [p \in DOMAIN t.pending \cup H |->
                        IF p \in H THEN [orig |-> Load(t, p).pending[p].orig, cur |-> Cur(p)]
                        ELSE t.pending[p]]
      /\ u.existed = t.existed \cup (H \ DOMAIN t.pending)
      /\ u.deletions = t.deletions \ H
      /\ u.docs = t.docs
  BY DEF WriteHits, Cur
<1> HIDE DEF u
<1>7. \A p \in DOMAIN u.pending : u.pending[p].orig = Snapshot(disk, p)
  BY <1>1, <1>4, <1>6 DEF OriginalsOK
<1>8. \A p \in DOMAIN u.pending : p \in u.existed <=> Present(disk, p)
  BY <1>1, <1>5, <1>6 DEF OriginalsOK
<1>9. QED
  BY <1>1, <1>2, <1>5, <1>6, <1>7, <1>8 DEF OriginalsOK

LEMMA MdEditOriginals ==
  ASSUME OriginalsInv, NEW p \in Path, MdEdit(p)
  PROVE  OriginalsOK(tx')
<1> DEFINE t == FlushDocs(tx)
<1>1. CanLoad(t, p) /\ tx' = WriteFile(Load(t, p), p, Append(Body0(t, p), Edit))
  BY Zenon DEF MdEdit, Markdown
<1>2. QED
  BY <1>1, FlushOriginals, EditOriginals DEF OriginalsInv

LEMMA TidyOriginals ==
  ASSUME OriginalsInv, NEW p \in Path, TidyFix(p)
  PROVE  OriginalsOK(tx')
<1> DEFINE t == FlushDocs(tx)
           o == Load(t, p)
           l == [o EXCEPT !.writes = @ \cup {p}]
           s == [orig |-> l.pending[p].orig, cur |-> Tidied(Body0(t, p))]
           w == [Put(l, p, s) EXCEPT !.deletions = @ \ {p}]
<1>1. CanLoad(t, p) /\ (tx' = l \/ tx' = w)
  BY Zenon DEF TidyFix
<1>2. OriginalsOK(o) /\ p \in DOMAIN o.pending
  BY <1>1, FlushOriginals, LoadOriginals DEF OriginalsInv
<1>3. /\ l.pending = o.pending /\ l.existed = o.existed
      /\ l.deletions = o.deletions /\ l.docs = o.docs
  BY DEF Load, Put, FlushDocs
<1> HIDE DEF o, l
<1>4. OriginalsOK(l) /\ p \in DOMAIN l.pending
  BY <1>2, <1>3, SameOriginals
<1>5. s.orig = l.pending[p].orig
  OBVIOUS
<1> HIDE DEF s
<1>6. /\ w.pending = [q \in DOMAIN l.pending \cup {p} |-> IF q = p THEN s ELSE l.pending[q]]
      /\ w.existed = l.existed /\ w.deletions = l.deletions \ {p} /\ w.docs = l.docs
  BY DEF Put, l, o, Load, FlushDocs
<1> HIDE DEF w
<1>7. OriginalsOK(w)
  BY <1>4, <1>5, <1>6 DEF OriginalsOK
<1>8. QED
  BY <1>1, <1>4, <1>7

LEMMA MdMoveOriginals ==
  ASSUME OriginalsInv, NEW p \in Path, NEW q \in Path \ {p}, MdMoveSection(p, q)
  PROVE  OriginalsOK(tx')
<1> DEFINE t == FlushDocs(tx)
           l == Load(t, p)
           m == Load(l, q)
           b == m.pending[p].cur
           c == m.pending[q].cur
<1>1. /\ CanLoad(t, p) /\ CanLoad(t, q)
      /\ tx' = WriteFile(WriteFile(m, p, Rest(b)), q, c \o Part(b))
  BY Zenon DEF MdMoveSection, Markdown
<1>2. OriginalsOK(l) /\ DOMAIN l.pending = DOMAIN t.pending \cup {p}
  BY <1>1, FlushOriginals, LoadOriginals DEF OriginalsInv
<1>3. CanLoad(l, q)
  BY <1>1, <1>2 DEF CanLoad
<1>4. OriginalsOK(m) /\ p \in DOMAIN m.pending /\ Ready(m, q)
  BY <1>2, <1>3, LoadOriginals DEF Ready
<1> HIDE DEF m
<1>5. QED
  BY <1>1, <1>4, MoveOriginals

LEMMA AstMoveOriginals ==
  ASSUME OriginalsInv, NEW p \in Path, NEW q \in Path \ {p}, AstMove(p, q)
  PROVE  OriginalsOK(tx')
<1> DEFINE t == FlushDocs(tx)
           l == Load(t, p)
           m == IF Exists(t, q) THEN Load(l, q) ELSE l
           b == m.pending[p].cur
           c == IF Exists(t, q) THEN m.pending[q].cur ELSE << >>
<1>1. /\ CanLoad(t, p) /\ (Exists(t, q) => CanLoad(t, q))
      /\ tx' = WriteFile(WriteFile(m, p, Rest(b)), q, c \o Part(b))
  BY Zenon DEF AstMove
<1>2. /\ OriginalsOK(t)
      /\ OriginalsOK(l) /\ DOMAIN l.pending = DOMAIN t.pending \cup {p}
  BY <1>1, FlushOriginals, LoadOriginals DEF OriginalsInv
<1> HIDE DEF t, l
<1>3. OriginalsOK(m) /\ p \in DOMAIN m.pending /\ Ready(m, q)
  <2>1. CASE Exists(t, q)
    <3>1. CanLoad(l, q) /\ m = Load(l, q)
      BY <1>1, <1>2, <2>1 DEF CanLoad
    <3>2. QED
      BY <1>2, <3>1, LoadOriginals DEF Ready
  <2>2. CASE ~Exists(t, q)
    <3>1. m = l /\ Ready(t, q)
      BY <1>2, <2>2, NotThereReady
    <3>2. QED
      BY <1>2, <3>1 DEF Ready
  <2>3. QED
    BY <2>1, <2>2
<1> HIDE DEF m
<1>4. QED
  BY <1>1, <1>3, MoveOriginals

-----------------------------------------------------------------------------
(* The specification.                                                      *)

LEMMA InitOriginals == StagingInit => OriginalsInv
BY DEF StagingInit, EmptyTx, OriginalsInv, OriginalsOK

LEMMA StepOriginals ==
  ASSUME LoadsFirst, OriginalsInv, [StagingNext]_stageVars
  PROVE  OriginalsInv'
<1>1. UNCHANGED disk
  <2>1. FileOp => UNCHANGED disk
    <3>1. \A p, b, force : FileAppend(p) \/ FileCreate(p, b, force) => Advance
      BY Zenon DEF FileAppend, FileCreate
    <3>2. \A p, ifExists : FileDelete(p, ifExists) => Advance
      BY Zenon DEF FileDelete
    <3>3. \A p, q, force : FileRename(p, q, force) => Advance
      BY DEF FileRename
    <3>4. QED
      BY <3>1, <3>2, <3>3, Zenon DEF FileOp, Advance
  <2>2. PatchOp => UNCHANGED disk
    <3>1. \A p, b : PatchAdd(p, b) \/ PatchDelete(p) => Advance
      BY Zenon DEF PatchAdd, PatchDelete
    <3>2. \A p, h, q : PatchUpdate(p, h) \/ PatchMove(p, h, q) => Advance
      BY Zenon DEF PatchUpdate, PatchMove
    <3>3. QED
      BY <3>1, <3>2, Zenon DEF PatchOp, Advance
  <2>3. DocOp => UNCHANGED disk
    <3>1. \A p, ifExists, change : DocEdit(p, ifExists, change) => Advance
      BY Zenon DEF DocEdit
    <3>2. QED
      BY <3>1, Zenon DEF DocOp, Advance
  <2>4. TextOp => UNCHANGED disk
    BY TextOpAdvances DEF Advance
  <2>5. QED
    BY <2>1, <2>2, <2>3, <2>4 DEF StagingNext, Refuse, Collect, stageVars
<1>2. CASE FileOp
  <2>1. OriginalsOK(tx')
    BY <1>2, AppendOriginals, CreateOriginals, DeleteOriginals, RenameOriginals, Zenon
       DEF FileOp
  <2>2. QED
    BY <1>1, <2>1, StagedOriginals
<1>3. CASE PatchOp
  <2>1. OriginalsOK(tx')
    BY <1>3, PatchAddOriginals, PatchDeleteOriginals, PatchUpdateOriginals,
       PatchMoveOriginals, Zenon DEF PatchOp
  <2>2. QED
    BY <1>1, <2>1, StagedOriginals
<1>4. CASE DocOp
  <2>1. OriginalsOK(tx')
    BY <1>4, DocOriginals, Zenon DEF DocOp
  <2>2. QED
    BY <1>1, <2>1, StagedOriginals
<1>5. CASE Refuse
  BY <1>5 DEF Refuse, OriginalsInv, OriginalsOK, Snapshot, Present
<1>6. CASE Collect
  <2>1. OriginalsOK(tx')
    BY <1>6, FlushOriginals DEF Collect, OriginalsInv
  <2>2. QED
    BY <1>1, <2>1, StagedOriginals
<1>7. CASE UNCHANGED stageVars
  BY <1>7 DEF stageVars, OriginalsInv, OriginalsOK, Snapshot, Present
<1>8. CASE TextOp
  <2>1. \A p, q, force : ~AstExtract(p, q, force)
    BY Zenon DEF LoadsFirst, AstExtract, Uses
  <2>2. OriginalsOK(tx')
    BY <1>8, <2>1, ReadOriginals, ReplaceOriginals, ReplaceGlobOriginals, MdEditOriginals,
       TidyOriginals, MdMoveOriginals, AstMoveOriginals, Zenon DEF TextOp
  <2>3. QED
    BY <1>1, <2>2, StagedOriginals
<1>9. QED
  BY <1>2, <1>3, <1>4, <1>5, <1>6, <1>7, <1>8 DEF StagingNext

(***************************************************************************)
(* Whatever operations but ast.extract_to_file a plan runs, the original   *)
(* staged with a path is the file on disk there, and existed_before has the staged paths that were   *)
(* there before the plan.                                                  *)
(***************************************************************************)
THEOREM StagedOriginalsMatchDisk == StagingSpec => []OriginalsMatchDisk
<1>1. CASE LoadsFirst
  <2>1. OriginalsInv => OriginalsMatchDisk
    BY DEF OriginalsInv, OriginalsOK, OriginalsMatchDisk
  <2>2. OriginalsInv /\ [StagingNext]_stageVars => OriginalsInv'
    BY <1>1, StepOriginals
  <2>3. QED
    BY <2>1, <2>2, InitOriginals, PTL DEF StagingSpec
<1>2. CASE ~LoadsFirst
  <2>1. OriginalsMatchDisk
    BY <1>2 DEF OriginalsMatchDisk
  <2>2. QED
    BY <2>1, PTL
<1>3. QED
  BY <1>1, <1>2
=============================================================================
