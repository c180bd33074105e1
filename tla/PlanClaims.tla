----------------------------- MODULE PlanClaims -----------------------------
(***************************************************************************)
(* What the repository's docs and comments say of every plan, each stated  *)
(* as it is said, without the conditions under which PlanTx's properties   *)
(* hold.                                                                   *)
(***************************************************************************)
EXTENDS PlanTx

(* ast.extract_to_file, of its `force`: "Overwrite target if it exists."    *)
(* So a plan of extractions is not rolled back because the target of one   *)
(* was there, when no system call fails.                                   *)
ForceOverwrites ==
  faults = 0 /\ OpKinds = {"extract"} =>
    phase \notin {"restoring", "rolled_back", "rollback_failed"}

(* read_file_content_for_path_op: renames of what is no text leave "bytes  *)
(* on disk [...] never rewritten as empty".                                *)
BytesNeverRewrittenAsEmpty ==
  phase = "done" =>
    \A p \in Path : want[p].kind = "binary" => disk[p] # Text(<< >>)
=============================================================================
