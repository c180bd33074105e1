---------------------------- MODULE SerialTools ----------------------------
(***************************************************************************)
(* What the MCP server promises its clients: a tool call that succeeds     *)
(* takes effect at one instant, in every file, on a workspace that holds   *)
(* exactly what the write calls before it have left.  One that fails does  *)
(* so at one instant too, and leaves what it could not take back.          *)
(***************************************************************************)
CONSTANTS
  Call,          \* the tool calls
  Writer,        \* those of tools that write
  File           \* the files they touch

VARIABLES
  outcome,       \* [Call -> {"open", "ok", "error"}]
  answer,        \* [Call -> [File -> SUBSET Writer]], whose writes it found
  kept           \* [Call -> SUBSET File], the files that hold its write

vars == <<outcome, answer, kept>>

Effects == [f \in File |-> {c \in Writer : f \in kept[c]}]

Init ==
  /\ outcome = [c \in Call |-> "open"]
  /\ answer = [c \in Call |-> [f \in File |-> {}]]
  /\ kept = [c \in Call |-> {}]

Succeed(c) ==
  /\ outcome[c] = "open"
  /\ outcome' = [outcome EXCEPT ![c] = "ok"]
  /\ answer' = [answer EXCEPT ![c] = Effects]
  /\ kept' = [kept EXCEPT ![c] = IF c \in Writer THEN File ELSE {}]

Fail(c) ==
  /\ outcome[c] = "open"
  /\ outcome' = [outcome EXCEPT ![c] = "error"]
  /\ \E left \in SUBSET File :
       /\ c \notin Writer => left = {}
       /\ kept' = [kept EXCEPT ![c] = left]
  /\ UNCHANGED answer

Next == \E c \in Call : Succeed(c) \/ Fail(c)

Spec == Init /\ [][Next]_vars
=============================================================================
