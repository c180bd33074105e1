---------------------------- MODULE MCBackupStore ----------------------------
EXTENDS BackupUnwind, TLC

CONSTANTS p1, p2, d, e, x, y, root

F(k) == <<k, "f">>

Tree0(f, ds) == [files |-> [p \in Path |-> IF p \in DOMAIN f THEN f[p] ELSE None], dirs |-> ds]

(* A file at the root, one in d, and no e.                                 *)
MCTrees == {Tree0(F(root) :> x @@ F(d) :> x, {d})}

(* Writing a file, over one or with its directory; deleting a file and     *)
(* renaming a directory.                                                   *)
MCPlans ==
  {[changes |-> F(e) :> y, moves |-> {}],
   [changes |-> F(root) :> None, moves |-> {<<d, e>>}]}

(* Editing a file and renaming its directory; two files of one plan.       *)
TangledPlans == {[changes |-> F(d) :> y, moves |-> {<<d, e>>}]}
PairPlans == {[changes |-> F(root) :> y @@ F(e) :> y, moves |-> {}]}

Symmetry == Permutations({p1, p2})
=============================================================================
