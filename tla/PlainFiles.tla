----------------------------- MODULE PlainFiles -----------------------------
(***************************************************************************)
(* What a plan means: its operations run one after another, straight on    *)
(* the files.  Each operation has a precondition Can... on the files f it  *)
(* finds and a result Do..., the files it leaves.  Nothing here comes from *)
(* the transaction engine; this is the yardstick its staging and its       *)
(* commit are held against.                                                *)
(***************************************************************************)
EXTENDS TxState

IsText(f, p) == f[p].kind = "text"

CanEdit(f, p) == IsText(f, p)
DoAppend(f, p, e) == [f EXCEPT ![p] = Text(Append(f[p].body, e))]
DoPut(f, p, b) == [f EXCEPT ![p] = Text(b)]

CanCreate(f, p, force) == force \/ ~Present(f, p)

CanDelete(f, p) == Present(f, p)
DoDelete(f, p) == [f EXCEPT ![p] = NoFile]

CanRename(f, p, q, force) ==
  /\ Present(f, p)
  /\ p = q \/ force \/ ~Present(f, q)
DoRename(f, p, q) ==
  IF p = q THEN f ELSE [f EXCEPT ![q] = f[p], ![p] = NoFile]
=============================================================================
