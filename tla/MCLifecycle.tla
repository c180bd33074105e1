---------------------------- MODULE MCLifecycle ----------------------------
EXTENDS TxLifecycle, TLC

CONSTANTS t, o, old, new

(* t is the plan's in most plans, o is not in any.                         *)
MCDisks == {t :> old @@ o :> old}

Format == [kind |-> "format", required |-> TRUE]
Validate == [kind |-> "validate", required |-> TRUE]
Hint == [kind |-> "validate", required |-> FALSE]

MCPlans ==
  {[strict |-> TRUE, writes |-> t :> new, steps |-> <<Format, Validate>>],
   [strict |-> FALSE, writes |-> t :> new, steps |-> <<Hint, Validate>>],
   [strict |-> TRUE, writes |-> << >>, steps |-> <<Hint>>]}
=============================================================================
