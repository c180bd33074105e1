----------------------------- MODULE PatchEdits -----------------------------
(***************************************************************************)
(* Applying and merging a unified diff, ops/patch.rs: a hunk is looked for *)
(* near its line, and a hunk that is stale is merged.  A text is its lines *)
(* and whether the last of them ends.                                      *)
(***************************************************************************)
EXTENDS Naturals, Integers, Sequences, FiniteSets, SequencesExt, FiniteSetsExt

CONSTANT FUZZ_RANGE

ASSUME FuzzAssumption == FUZZ_RANGE \in Nat

PatchLine(k, l) == [kind |-> k, line |-> l]    \* "context", "remove", "add"

(* The lines of a body but those of one kind.                              *)
LinesBut(body, kind) ==
  LET kept[i \in 0..Len(body)] ==
        IF i = 0 THEN << >>
        ELSE IF body[i].kind = kind THEN kept[i-1] ELSE Append(kept[i-1], body[i].line)
  IN  kept[Len(body)]

OldLines(body) == LinesBut(body, "add")
NewLines(body) == LinesBut(body, "remove")

(* The last line that is not of one kind, or 0.                            *)
LastOf(s, but) == Max({i \in DOMAIN s : s[i].kind # but} \cup {0})

Hunk(start, body, oldBare, newBare) ==
  [start |-> start, body |-> body, old |-> OldLines(body), new |-> NewLines(body),
   oldBare |-> oldBare, newBare |-> newBare]

(* Positions count from 0, as in the code; Nowhere is None.                *)
Nowhere == -1

AtPos(src, p, needle) == /\ p >= 0 /\ p + Len(needle) <= Len(src)
                         /\ SubSeq(src, p + 1, p + Len(needle)) = needle

Clamp(p, src) == IF p < 0 THEN 0 ELSE IF p > Len(src) THEN Len(src) ELSE p

(* find_match: at the expected line, then ever farther, below before above. *)
FindMatch(src, needle, expected) ==
  IF needle = << >> THEN Clamp(expected, src)
  ELSE LET near == {d \in 0..FUZZ_RANGE : \/ AtPos(src, expected + d, needle)
                                          \/ AtPos(src, expected - d, needle)}
       IN  IF near = {} THEN Nowhere
           ELSE IF AtPos(src, expected + Min(near), needle)
                THEN expected + Min(near) ELSE expected - Min(near)

FindMatchGlobal(src, needle) ==
  LET found == {p \in 0..Len(src) : AtPos(src, p, needle)}
  IN  IF found = {} THEN Nowhere ELSE Min(found)

Expected(h, offset) ==
  IF h.start = 0 THEN 0
  ELSE IF h.old = << >> THEN h.start + offset ELSE h.start - 1 + offset

Splice(src, p, n, lines) == SubSeq(src, 1, p) \o lines \o SubSeq(src, p + n + 1, Len(src))

-----------------------------------------------------------------------------
(* apply_hunks: a state [ok, lines, eol, offset] goes through the hunks.   *)
Failed == [ok |-> FALSE, lines |-> << >>, eol |-> TRUE, offset |-> 0, conflicts |-> 0]
Start(x) == [ok |-> TRUE, lines |-> x.lines, eol |-> x.eol, offset |-> 0, conflicts |-> 0]

(* Whether the result of a hunk that reaches the end ends with a newline.  *)
FinalEol(h, eol) ==
  LET last == IF h.new = << >> THEN "none" ELSE h.body[LastOf(h.body, "remove")].kind
  IN  CASE last = "add" -> IF h.newBare THEN FALSE ELSE h.oldBare \/ eol
        [] last = "context" -> ~h.oldBare /\ ~h.newBare /\ eol
        [] last = "none" -> eol

(* A mistake for TLC to find: a hunk is looked for where the old text had it. *)
ApplyHunkUnshifted(s, h) ==
  LET p == FindMatch(s.lines, h.old, Expected(h, 0))
  IN  IF ~s.ok \/ p = Nowhere THEN Failed
      ELSE [s EXCEPT !.lines = Splice(@, p, Len(h.old), h.new),
                     !.eol = IF p + Len(h.old) >= Len(s.lines) THEN FinalEol(h, @) ELSE @]

ApplyHunk(s, h) ==
  LET p == FindMatch(s.lines, h.old, Expected(h, s.offset))
  IN  IF ~s.ok \/ p = Nowhere THEN Failed
      ELSE [s EXCEPT !.lines = Splice(@, p, Len(h.old), h.new),
                     !.eol = IF p + Len(h.old) >= Len(s.lines) THEN FinalEol(h, @) ELSE @,
                     !.offset = @ + Len(h.new) - Len(h.old)]

(* A mistake for TLC to find: a missing last line end is kept for no lines. *)
JoinedAsItIs(s) == s

(* No lines are no text, and no text ends.                                 *)
Joined(s) == IF s.lines = << >> THEN [s EXCEPT !.eol = TRUE] ELSE s

ApplyHunks(x, hunks) == Joined(FoldLeft(ApplyHunk, Start(x), hunks))

-----------------------------------------------------------------------------
(* merge_hunks: where a stale hunk belongs, by its first and last context. *)
Prefix(h) == LET n == Min({i \in DOMAIN h.body : h.body[i].kind # "context"}
                            \cup {Len(h.body) + 1})
             IN  OldLines(SubSeq(h.body, 1, n - 1))
Suffix(h) == LET n == Max({i \in DOMAIN h.body : h.body[i].kind # "context"} \cup {0})
             IN  OldLines(SubSeq(h.body, n + 1, Len(h.body)))

OrElse(p, q) == IF p # Nowhere THEN p ELSE q
Back(p, k) == IF p = Nowhere THEN Nowhere ELSE IF p > k THEN p - k ELSE 0

Find(src, needle, expected) ==
  OrElse(FindMatch(src, needle, expected), FindMatchGlobal(src, needle))

(* n lines from p on, the last context being the last of them.             *)
Fits(src, p, n, last) ==
  IF /\ p # Nowhere /\ p + n <= Len(src)
     /\ last = << >> \/ AtPos(src, p + n - Len(last), last)
  THEN p ELSE Nowhere

Anchored(src, h, expected) ==
  LET n == Len(h.old)
      first == Prefix(h)
      last == Suffix(h)
      more == n - Len(last)
      byFirst == IF first = << >> THEN Nowhere ELSE Find(src, first, expected)
      byLast == IF last = << >> THEN Nowhere
                ELSE Back(Find(src, last, expected + more), more)
  IN  Fits(src, OrElse(byFirst, byLast), n, last)

Locate(src, h, expected) ==
  OrElse(Find(src, h.old, expected), Anchored(src, h, expected))

(* merge_three_way, line by line or as one block.                          *)
Ours == "ours marker"
Sep == "separator"
Theirs == "theirs marker"
Conflict(o, t) == <<Ours>> \o o \o <<Sep>> \o t \o <<Theirs>>

MergeLines(base, ours, theirs) ==
  LET clash(i) == ours[i] # base[i] /\ theirs[i] # base[i] /\ ours[i] # theirs[i]
      line(i) == IF clash(i) THEN Conflict(<<ours[i]>>, <<theirs[i]>>)
                 ELSE IF ours[i] = base[i] THEN <<theirs[i]>> ELSE <<ours[i]>>
  IN  [lines |-> FlattenSeq([i \in DOMAIN base |-> line(i)]),
       conflicts |-> Cardinality({i \in DOMAIN base : clash(i)})]

MergeBlock(base, ours, theirs) ==
  CASE ours = base -> [lines |-> theirs, conflicts |-> 0]
    [] theirs \in {base, ours} -> [lines |-> ours, conflicts |-> 0]
    [] OTHER -> [lines |-> Conflict(ours, theirs), conflicts |-> 1]

(* A mistake for TLC to find: what stands in the file is kept.             *)
MergeOurs(base, ours, theirs) == [lines |-> ours, conflicts |-> 0]

(* A mistake for TLC to find: what the patch says is taken.                *)
MergeTheirs(base, ours, theirs) == [lines |-> theirs, conflicts |-> 0]

Merge(base, ours, theirs) ==
  IF Len(base) = Len(theirs) THEN MergeLines(base, ours, theirs)
  ELSE MergeBlock(base, ours, theirs)

MergeAt(s, h, p) ==
  LET n == Len(h.old)
      m == Merge(h.old, SubSeq(s.lines, p + 1, p + n), h.new)
  IN  IF p = Nowhere THEN Failed
      ELSE [s EXCEPT !.lines = Splice(@, p, n, m.lines),
                     !.offset = @ + Len(m.lines) - n,
                     !.conflicts = @ + m.conflicts]

MergeHunk(s, h) ==
  IF s.ok THEN MergeAt(s, h, Locate(s.lines, h, Expected(h, s.offset))) ELSE Failed

MergeHunks(x, hunks) == Joined(FoldLeft(MergeHunk, Start(x), hunks))

(* apply_hunks_with_options                                                *)
ApplyOrMerge(x, hunks, onStale, allowConflicts) ==
  LET applied == ApplyHunks(x, hunks)
      merged == MergeHunks(x, hunks)
  IN  IF applied.ok \/ onStale = "fail" THEN applied
      ELSE IF merged.ok /\ merged.conflicts > 0 /\ ~allowConflicts THEN Failed
      ELSE merged
=============================================================================
