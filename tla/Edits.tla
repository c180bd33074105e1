------------------------------- MODULE Edits -------------------------------
(***************************************************************************)
(* What an edit operation does to the content of one file: a Markdown text *)
(* (TextEdits), a patched file (TextEdits) or a document (DocEdits).       *)
(***************************************************************************)
EXTENDS TextEdits, DocEdits

vars == <<textVars, docVars>>

Init == (TextInit /\ DocIdle) \/ (TextIdle /\ DocInit)

Next == (TextNext /\ UNCHANGED docVars) \/ (DocNext /\ UNCHANGED textVars)

Spec == Init /\ [][Next]_vars
=============================================================================
