----------------------------- MODULE MCMcpGate -----------------------------
(* McpGate for TLC: two write calls of two sessions, and a read call.      *)
EXTENDS McpGate

CONSTANTS w1, w2, r1, s1, s2

MCCall == {w1, w2, r1}
MCWriter == {w1, w2}
MCSessionOf == [c \in MCCall |-> IF c = w2 THEN s2 ELSE s1]
=============================================================================
