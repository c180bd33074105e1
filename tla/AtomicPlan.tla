----------------------------- MODULE AtomicPlan -----------------------------
(***************************************************************************)
(* What a plan promises its caller: it is prepared without touching the    *)
(* files, then it happens at once or not at all, and can be taken back at  *)
(* once.  Between the start of a commit and its end nothing is promised of *)
(* the files, and after a fault the outcome may be in doubt until an undo; *)
(* `files` therefore shows the workspace as of the last settled outcome.   *)
(***************************************************************************)
EXTENDS Sequences

CONSTANTS
  Files          \* the workspaces

VARIABLES
  files,         \* the workspace of the last settled outcome
  before,        \* the workspace the plan found
  goal,          \* the workspace the plan means to leave
  outcome        \* "preparing", "open", "kept", "dropped", "in doubt", "undone"

vars == <<files, before, goal, outcome>>

Init ==
  /\ files \in Files
  /\ before = files
  /\ goal = files
  /\ outcome = "preparing"

Prepare ==
  /\ outcome = "preparing"
  /\ goal' \in Files
  /\ UNCHANGED <<files, before, outcome>>

Open ==
  /\ outcome = "preparing"
  /\ outcome' = "open"
  /\ UNCHANGED <<files, before, goal>>

(* All of the plan happens.                                                *)
Keep ==
  /\ outcome = "open"
  /\ outcome' = "kept"
  /\ files' = goal
  /\ UNCHANGED <<before, goal>>

(* None of it does.                                                        *)
Drop ==
  /\ outcome \in {"preparing", "open"}
  /\ outcome' = "dropped"
  /\ UNCHANGED <<files, before, goal>>

(* A fault during the commit, or an undo that has begun: files shows the   *)
(* workspace the plan found, the only one still promised.                  *)
Doubt ==
  /\ outcome \in {"open", "kept", "dropped"}
  /\ outcome' = "in doubt"
  /\ files' = before
  /\ UNCHANGED <<before, goal>>

TakeBack ==
  /\ outcome = "in doubt"
  /\ outcome' = "undone"
  /\ files' = before
  /\ UNCHANGED <<before, goal>>

Next == Prepare \/ Open \/ Keep \/ Drop \/ Doubt \/ TakeBack

Spec == Init /\ [][Next]_vars
=============================================================================
