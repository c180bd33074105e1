------------------------------ MODULE TxState ------------------------------
(***************************************************************************)
(* The state a plan shares between staging and commit.                     *)
(*                                                                         *)
(* `disk` is the workspace: one entry per path.  `tx` is the Rust struct   *)
(* TxState that every operation of a plan mutates in memory; nothing in    *)
(* staging writes to `disk`.  `phase` is where the run of the plan stands. *)
(*                                                                         *)
(* A text is a sequence of tokens: an initial file holds its own token, an *)
(* edit appends one.  A binary (or invalid UTF-8) file keeps its bytes as  *)
(* such a sequence too, but no operation can read them as text.            *)
(***************************************************************************)
EXTENDS Sequences, FiniteSets, Integers

CONSTANTS
  Path,          \* the file paths a plan may name
  Token          \* what texts are made of

VARIABLES
  disk,          \* [Path -> File], the workspace
  tx,            \* the staged transaction, see TxRecord
  phase          \* "staging", "refused", "collected", then the commit's phases

Body == Seq(Token)
Kind == {"none", "text", "binary"}
File == [kind : Kind, body : Body]

NoFile    == [kind |-> "none", body |-> << >>]
Text(b)   == [kind |-> "text", body |-> b]
Binary(b) == [kind |-> "binary", body |-> b]

(* path_entry_exists: something is at the path, whatever its kind. *)
Present(d, p) == d[p].kind # "none"

(* What a soft load records of the file at p: its text, or the empty text  *)
(* when the bytes are not text (or, for a path not on disk, no bytes).     *)
Snapshot(d, p) == IF d[p].kind = "text" THEN d[p].body ELSE << >>

Staged == [orig : Body, cur : Body]
Pair   == [from : Path, to : Path]

(***************************************************************************)
(* TxState of execute/mod.rs.  `pending` is a partial function on Path     *)
(* from a path to its (original, current) text; `docs` is the cache of     *)
(* parsed documents, from a path to the text its tree would serialize to.  *)
(***************************************************************************)
IsPartialFn(f, S, T) ==
  /\ DOMAIN f \subseteq S
  /\ f = [p \in DOMAIN f |-> f[p]]
  /\ \A p \in DOMAIN f : f[p] \in T

EmptyTx ==
  [pending   |-> [p \in {} |-> [orig |-> << >>, cur |-> << >>]],
   deletions |-> {},
   existed   |-> {},
   writes    |-> {},
   renames   |-> << >>,
   soft      |-> {},
   docs      |-> [p \in {} |-> << >>]]

(* A mistake for TLC to find: a new file whose text is empty is no change. *)
ChangesOfText(t) ==
  {p \in t.writes \cap DOMAIN t.pending :
     t.pending[p].orig # t.pending[p].cur \/ p \in t.deletions}

(***************************************************************************)
(* The end of execute_and_collect: the paths whose staged text the commit  *)
(* must put on disk.  A path that no operation wrote is left out even when *)
(* it was loaded; one whose text did not change stays when the file is new *)
(* or is deleted.  (Write policy is the identity here: it rewrites a text  *)
(* it is given and touches no other part of the state.)                    *)
(***************************************************************************)
Changes(t) ==
  {p \in t.writes \cap DOMAIN t.pending :
     \/ t.pending[p].orig # t.pending[p].cur
     \/ p \notin t.existed
     \/ p \in t.deletions}

(* Deletions that staged no write: the commit unlinks them last. *)
BareDeletions(t) == t.deletions \ Changes(t)

NoEffectiveChanges(t) ==
  /\ Changes(t) = {}
  /\ BareDeletions(t) = {}
  /\ t.renames = << >>

RenamedFrom(rs) == {rs[i].from : i \in DOMAIN rs}
RenamedTo(rs)   == {rs[i].to : i \in DOMAIN rs}
=============================================================================
