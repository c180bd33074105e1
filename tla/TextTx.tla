------------------------------- MODULE TextTx -------------------------------
(***************************************************************************)
(* Staging of the operations that edit texts: read, replace (of a path and *)
(* of a glob), md, tidy.fix, and those of the ast operations that move     *)
(* text between files.  What they do to a text is left to one edit each;   *)
(* here it is which text they find, and what they do to the transaction.   *)
(*                                                                         *)
(* None of them looks at the deletions before it reads: a text that Begin  *)
(* Patch staged for deletion is found, and staged for writing again.       *)
(***************************************************************************)
EXTENDS StagedTx

Body0(t, p) == Load(t, p).pending[p].cur

-----------------------------------------------------------------------------
(* read: loaded, and no write target.                                      *)
ReadOp(p) ==
  /\ Uses("read")
  /\ LET t == FlushDocs(tx)
     IN  CanLoad(t, p) /\ tx' = Load(t, p)
  /\ Meant(CanEdit(want, p), want)
  /\ Advance

(* The pattern of a replace matches every token, and the empty text never. *)
Hits(b) == b # << >>
Replaced(b) == [i \in DOMAIN b |-> Edit]

(* A text that is staged for deletion and is found all the same.           *)
Revives(t, p) == p \in t.deletions /\ Hits(t.pending[p].cur)

(* replace of a path.  A miss is a soft success, as is a missing file with *)
(* if_exists; require_change makes it an error, which Refuse stands for.   *)
Replace(p, ifExists) ==
  /\ Uses("replace")
  /\ LET t == FlushDocs(tx)
     IN  /\ p \notin t.soft
         /\ \/ /\ CanLoad(t, p)
               /\ tx' = IF Hits(Body0(t, p))
                        THEN WriteFile(Load(t, p), p, Replaced(Body0(t, p)))
                        ELSE Load(t, p)
            \/ /\ ~CanLoad(t, p)
               /\ ifExists /\ ~Present(disk, p)
               /\ tx' = t
         /\ Meant(/\ CanEdit(want, p) \/ (ifExists /\ ~Present(want, p))
                  /\ ~Revives(t, p),
                  IF CanEdit(want, p) THEN DoPut(want, p, Replaced(want[p].body)) ELSE want)
  /\ Advance

(* replace of a glob that matches the paths S: those on disk, and those    *)
(* that only the plan has.  A file without a match is not even loaded.     *)
Candidates(t, S) ==
  {p \in S : Present(disk, p) \/ (p \in DOMAIN t.pending \ t.deletions)}

GlobHits(t, S) ==
  {p \in Candidates(t, S) \ t.soft : CanLoad(t, p) /\ Hits(Body0(t, p))}

(* write_glob_hit of each of them.                                         *)
WriteHits(t, H) ==
  [t EXCEPT
     !.pending = [p \in DOMAIN t.pending \cup H |->
                    IF p \in H THEN [orig |-> Load(t, p).pending[p].orig,
                                     cur  |-> Replaced(Body0(t, p))]
                    ELSE t.pending[p]],
     !.existed = @ \cup (H \ DOMAIN t.pending),
     !.deletions = @ \ H,
     !.writes = @ \cup H,
     !.soft = @ \ H]

DoReplaceAll(f, S) ==
  [p \in Path |-> IF p \in S /\ IsText(f, p) THEN Text(Replaced(f[p].body)) ELSE f[p]]

ReplaceGlob(S) ==
  /\ Uses("replace")
  /\ LET t == FlushDocs(tx)
     IN  /\ tx' = WriteHits(t, GlobHits(t, S))
         /\ Meant(\A p \in S : ~Revives(t, p), DoReplaceAll(want, S))
  /\ Advance

-----------------------------------------------------------------------------
(* An md operation on one file: it needs a heading, and what is on disk,   *)
(* even under a text the plan has put there, must not be binary.           *)
Markdown(t, p) == disk[p].kind # "binary" /\ CanLoad(t, p)

MdEdit(p) ==
  /\ Uses("md")
  /\ LET t == FlushDocs(tx)
         b == Body0(t, p)
     IN  /\ Markdown(t, p) /\ b # << >>
         /\ tx' = WriteFile(Load(t, p), p, Append(b, Edit))
  /\ Meant(CanEdit(want, p), DoAppend(want, p, Edit))
  /\ Advance

(* The last part of a text: the section, or the symbol, that is moved.     *)
Rest(b) == SubSeq(b, 1, Len(b) - 1)
Part(b) == <<b[Len(b)]>>

DoMove(f, p, q, onto) ==
  DoPut(DoPut(f, p, Rest(f[p].body)), q, onto \o Part(f[p].body))

(* md.move_section to another file, below a heading that it has.           *)
MdMoveSection(p, q) ==
  /\ Uses("md")
  /\ LET t == FlushDocs(tx)
         l == Load(t, p)
         m == Load(l, q)
         b == m.pending[p].cur
         c == m.pending[q].cur
     IN  /\ Markdown(t, p) /\ Markdown(t, q)
         /\ b # << >> /\ c # << >>
         /\ tx' = WriteFile(WriteFile(m, p, Rest(b)), q, c \o Part(b))
  /\ Meant(CanEdit(want, p) /\ CanEdit(want, q) /\ want[p].body # << >>,
           DoMove(want, p, q, want[q].body))
  /\ Advance

(* tidy.fix: ensure_final_newline, the newline being an edit here.  The    *)
(* path is a write target whether or not the text changes.                 *)
Tidied(b) == IF b = << >> \/ b[Len(b)] = Edit THEN b ELSE Append(b, Edit)

TidyFix(p) ==
  /\ Uses("tidy")
  /\ LET t == FlushDocs(tx)
         l == [Load(t, p) EXCEPT !.writes = @ \cup {p}]
         b == Body0(t, p)
     IN  /\ CanLoad(t, p)
         /\ tx' = IF Tidied(b) = b THEN l
                  ELSE [Put(l, p, [orig |-> l.pending[p].orig, cur |-> Tidied(b)])
                          EXCEPT !.deletions = @ \ {p}]
  /\ Meant(CanEdit(want, p), DoPut(want, p, Tidied(want[p].body)))
  /\ Advance

-----------------------------------------------------------------------------
(* ast.move: the symbol goes to a file that is there, or to a new one.     *)
AstMove(p, q) ==
  /\ Uses("ast")
  /\ LET t == FlushDocs(tx)
         l == Load(t, p)
         m == IF Exists(t, q) THEN Load(l, q) ELSE l
         b == m.pending[p].cur
         c == IF Exists(t, q) THEN m.pending[q].cur ELSE << >>
     IN  /\ CanLoad(t, p) /\ (Exists(t, q) => CanLoad(t, q))
         /\ b # << >>
         /\ tx' = WriteFile(WriteFile(m, p, Rest(b)), q, c \o Part(b))
  /\ Meant(/\ CanEdit(want, p) /\ want[p].body # << >>
           /\ CanEdit(want, q) \/ ~Present(want, q),
           DoMove(want, p, q, want[q].body))
  /\ Advance

(* ast.extract_to_file: the symbol is the new file, and with force takes   *)
(* the place of an old one, which is not loaded.                           *)
AstExtract(p, q, force) ==
  /\ Uses("extract")
  /\ LET t == FlushDocs(tx)
         l == Load(t, p)
         b == l.pending[p].cur
     IN  /\ force \/ ~Exists(t, q)
         /\ CanLoad(t, p) /\ b # << >>
         /\ tx' = WriteFile(WriteFile(l, p, Rest(b)), q, Part(b))
  /\ Meant(/\ CanEdit(want, p) /\ want[p].body # << >>
           /\ CanCreate(want, q, force),
           DoMove(want, p, q, << >>))
  /\ Advance

TextOp ==
  \E p \in Path :
    \/ ReadOp(p)
    \/ \E ifExists \in BOOLEAN : Replace(p, ifExists)
    \/ \E S \in SUBSET Path : ReplaceGlob(S)
    \/ MdEdit(p)
    \/ TidyFix(p)
    \/ \E q \in Path \ {p} : MdMoveSection(p, q) \/ AstMove(p, q)
    \/ \E q \in Path \ {p}, force \in BOOLEAN : AstExtract(p, q, force)
=============================================================================
