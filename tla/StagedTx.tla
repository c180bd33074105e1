------------------------------ MODULE StagedTx ------------------------------
(***************************************************************************)
(* What the operations of a plan stage their files with: the helpers of    *)
(* execute/mod.rs on the pending map, the deletions and the document       *)
(* cache, and the history of what the plan means.                          *)
(*                                                                         *)
(* Two history variables follow the plan.  `want` is the files it means:   *)
(* the same operations run one after another on them (module PlainFiles).  *)
(* When staging accepts an operation those files do not allow, `want`      *)
(* stays as it is and `astray` says so.                                    *)
(***************************************************************************)
EXTENDS PlainFiles

CONSTANTS
  Edit,          \* the token an edit adds to a text
  MaxOps,        \* bound: how many operations a plan has
  OpKinds,       \* which of AllOpKinds a plan uses
  Contents,      \* the texts a plan creates files with
  InitialDisks   \* the workspaces a plan may start from

AllOpKinds == {"append", "create", "delete", "rename", "patch", "doc",
               "read", "replace", "md", "tidy", "ast", "extract"}
FileOpKinds == {"append", "create", "delete", "rename"}

ASSUME StagingConstants ==
  /\ Edit \in Token
  /\ MaxOps \in Nat
  /\ OpKinds \subseteq AllOpKinds
  /\ Contents \subseteq Body
  /\ InitialDisks \subseteq [Path -> File]
  /\ \A d \in InitialDisks : \A p \in Path :
       d[p].kind = "none" => d[p] = NoFile

VARIABLES
  want,          \* [Path -> File], the files the plan means so far
  astray,        \* an operation ran that those files do not allow
  ops            \* how many operations have run

stageVars == <<disk, tx, phase, want, astray, ops>>

-----------------------------------------------------------------------------
(* The helpers of execute/mod.rs on the pending map.                       *)

Put(t, p, s) ==
  [t EXCEPT !.pending =
     [q \in DOMAIN t.pending \cup {p} |-> IF q = p THEN s ELSE t.pending[q]]]

(* pending.remove and deletions.remove of a file the plan itself created.  *)
Forget(t, p) ==
  [t EXCEPT !.pending = [q \in DOMAIN t.pending \ {p} |-> t.pending[q]],
            !.deletions = @ \ {p}]

(* read_file_content, of a path that is pending or a text on disk.         *)
Load(t, p) ==
  IF p \in DOMAIN t.pending THEN t
  ELSE [Put(t, p, [orig |-> disk[p].body, cur |-> disk[p].body])
          EXCEPT !.existed = @ \cup {p}]

CanLoad(t, p) == p \in DOMAIN t.pending \/ disk[p].kind = "text"

(* A mistake for TLC to find: that the file was there is not noted.         *)
LoadForCreateUnmarked(t, p) ==
  IF p \in DOMAIN t.pending THEN t
  ELSE Put(t, p, [orig |-> Snapshot(disk, p), cur |-> Snapshot(disk, p)])

(* read_file_content_for_force_create, of a path that is pending or there. *)
LoadForCreate(t, p) ==
  IF p \in DOMAIN t.pending THEN t
  ELSE [Put(t, p, [orig |-> Snapshot(disk, p), cur |-> Snapshot(disk, p)])
          EXCEPT !.existed = @ \cup {p}]

(* read_file_content_for_path_op: as above, and a path whose bytes are not *)
(* text is remembered as a soft load.                                      *)
LoadForPathOp(t, p) ==
  IF p \in DOMAIN t.pending THEN t
  ELSE [LoadForCreate(t, p)
          EXCEPT !.soft = IF disk[p].kind = "binary" THEN @ \cup {p} ELSE @]

(* A mistake for TLC to find: a write leaves the deletion mark.            *)
WriteFileStillDeleted(t, p, b) ==
  LET orig == IF p \in DOMAIN t.pending THEN t.pending[p].orig ELSE << >>
  IN  [Put(t, p, [orig |-> orig, cur |-> b])
         EXCEPT !.writes = @ \cup {p},
                !.soft = @ \ {p}]

(* update_file_content and write_file.                                     *)
WriteFile(t, p, b) ==
  LET orig == IF p \in DOMAIN t.pending THEN t.pending[p].orig ELSE << >>
  IN  [Put(t, p, [orig |-> orig, cur |-> b])
         EXCEPT !.deletions = @ \ {p},
                !.writes = @ \cup {p},
                !.soft = @ \ {p}]

(* A mistake for TLC to find: a path staged for deletion still exists.     *)
ExistsUndeleted(t, p) == p \in DOMAIN t.pending \/ Present(disk, p)

(* path_present_for_if_exists, and dest_exists of patch_op.rs.             *)
Exists(t, p) ==
  /\ p \notin t.deletions
  /\ p \in DOMAIN t.pending \/ Present(disk, p)

(* flush_doc_cache: every cached document goes back to the pending text.   *)
FlushDocs(t) ==
  LET D == DOMAIN t.docs
      Orig(p) == IF p \in DOMAIN t.pending THEN t.pending[p].orig ELSE << >>
  IN  [t EXCEPT
         !.pending = [p \in DOMAIN t.pending \cup D |->
                        IF p \in D THEN [orig |-> Orig(p), cur |-> t.docs[p]]
                        ELSE t.pending[p]],
         !.deletions = @ \ D,
         !.writes = @ \cup D,
         !.docs = [p \in {} |-> << >>]]

(* A mistake for TLC to find: a file the plan made is forgotten and marked. *)
StageDeleteMarked(t, p) ==
  LET w == IF t.pending[p].orig = << >> /\ ~Present(disk, p)
           THEN Forget(t, p)
           ELSE WriteFile(t, p, << >>)
  IN  [w EXCEPT !.deletions = @ \cup {p}]

(* Staged for deletion, but the plan itself put the file there: nothing to *)
(* delete on disk, so the path is forgotten instead.                       *)
StageDelete(t, p) ==
  IF t.pending[p].orig = << >> /\ ~Present(disk, p)
  THEN Forget(t, p)
  ELSE LET w == WriteFile(t, p, << >>)
       IN  [w EXCEPT !.deletions = @ \cup {p}]

(***************************************************************************)
(* drop_rename_chain_ending_at: while some pair ends at the current path,  *)
(* remove the first such pair and go on from its source.                   *)
(***************************************************************************)
EndsAt(rs, p) == {i \in DOMAIN rs : rs[i].to = p}

DropLink(c) ==
  LET I == EndsAt(c.pairs, c.at)
  IN  IF I = {} THEN c
      ELSE LET i == CHOOSE i \in I : \A j \in I : i <= j
           IN  [pairs |-> SubSeq(c.pairs, 1, i - 1)
                            \o SubSeq(c.pairs, i + 1, Len(c.pairs)),
                at    |-> c.pairs[i].from]

DropRenameChainEndingAt(rs, dest) ==
  LET walk[n \in Nat] ==
        IF n = 0 THEN [pairs |-> rs, at |-> dest] ELSE DropLink(walk[n - 1])
  IN  walk[Len(rs)].pairs

-----------------------------------------------------------------------------
(* The operations.  Uses(k) is the bound on the plan and the dispatch of   *)
(* execute_operation; every operation but a doc one starts from the        *)
(* flushed cache.                                                          *)

Uses(k) == phase = "staging" /\ k \in OpKinds /\ ops < MaxOps

Advance == ops' = ops + 1 /\ UNCHANGED <<disk, phase>>

Meant(allowed, files) ==
  /\ want' = IF allowed THEN files ELSE want
  /\ astray' = (astray \/ ~allowed)
=============================================================================
