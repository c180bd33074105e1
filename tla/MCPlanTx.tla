------------------------------ MODULE MCPlanTx ------------------------------
(* PlanTx for TLC.  A file of the workspace holds its own path as its text *)
(* or its bytes, so that a mix-up of files shows, or a text that another   *)
(* file may have too, so that a mix-up may look like no change.            *)
EXTENDS PlanClaims, TLC

CONSTANTS EditToken

MCToken == Path \cup {EditToken}

DiskEntries(p) ==
  {NoFile, Text(<< >>), Text(<<p>>), Text(<<EditToken>>), Binary(<<p>>)}

AllDisks == {d \in [Path -> UNION {DiskEntries(p) : p \in Path}] :
               \A p \in Path : d[p] \in DiskEntries(p)}

(* The empty text, a new one, and one equal to the text of each file.      *)
MCContents == {<< >>, <<EditToken>>} \cup {<<p>> : p \in Path}

(* No empty file, and no file with the text of another.                    *)
DistinctDisks ==
  {d \in AllDisks : \A p \in Path : d[p] \notin {Text(<< >>), Text(<<EditToken>>)}}
FewContents == {<< >>, <<EditToken>>}

Symmetry == Permutations(Path)
=============================================================================
