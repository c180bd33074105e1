---------------------------- MODULE MCFileWrite ----------------------------
(* An instance of FileWrite for TLC: a and b are two names of one file, s  *)
(* is a symbolic link to a, d is on another device, free is no file yet.   *)
EXTENDS FileWrite, TLC

CONSTANTS p1, p2, i1, i2, i3, i4, i5, i6, a, b, s, d, free, x, y, none

MCProc == {p1, p2}
MCName == {a, b, s, d, free}
MCInode == {i1, i2, i3, i4, i5, i6}
MCDevice == (d :> 2) @@ [m \in {a, b, s, free} |-> 1]
MCInitialBytes == <<x, x>>
MCPayload == {<<x, x>>, <<y>>, <<y, x, y>>}

Write(m, v) == [kind |-> "write", name |-> m, to |-> none, payload |-> v]
Create(m, v) == [kind |-> "create", name |-> m, to |-> none, payload |-> v]
Move(m, k) == [kind |-> "move", name |-> m, to |-> k, payload |-> << >>]

MCOps == {Write(s, <<y>>), Write(b, <<y, x, y>>), Write(free, <<x, x>>),
          Create(free, <<y, x, y>>), Move(free, d), Move(d, free)}

MCEntries == {(a :> File(i1)) @@ (b :> File(i1)) @@ (s :> Link(a)) @@ (free :> Missing)
                @@ (d :> e) : e \in {Missing, File(i2)}}

Symmetries == Permutations(MCProc)
=============================================================================
