---------------------------- MODULE OutlineEdits ----------------------------
(***************************************************************************)
(* What a Markdown edit promises, over an outline: the headings of a text  *)
(* in order, each with the lines that are its own, those up to the next    *)
(* heading.  Part 1 has level 0: what stands before the first heading.     *)
(* Blank lines do not count.                                               *)
(***************************************************************************)
EXTENDS Naturals, Sequences, FiniteSets, SequencesExt, FiniteSetsExt

Part(l, t, own) == [level |-> l, words |-> t, own |-> own]

AddOwn(o, k, ls) == [o EXCEPT ![k].own = @ \o ls]

(* A text is read line by line.  A line opens a part, or it adds what it   *)
(* says to the last one.                                                   *)
Opening(l, t) == [opens |-> TRUE, part |-> Part(l, t, << >>)]
Adding(ls) == [opens |-> FALSE, part |-> Part(0, "", ls)]

PartsOf(said) ==
  LET o[i \in 0..Len(said)] ==
        IF i = 0 THEN <<Part(0, "", << >>)>>
        ELSE IF said[i].opens THEN Append(o[i-1], said[i].part)
        ELSE AddOwn(o[i-1], Len(o[i-1]), said[i].part.own)
  IN  o[Len(said)]

(* The part after the last of k's: its own and those nested in it.         *)
EndOf(o, k) == Min({j \in (k+1)..Len(o) : o[j].level <= o[k].level} \cup {Len(o) + 1})

At(o, q) == {k \in 2..Len(o) : o[k].words = q.words /\ q.level \in {0, o[k].level}}
The(o, q) == CHOOSE k \in At(o, q) : TRUE

From(o, i, j) == SubSeq(o, i, j - 1)

(* The body of a section, and what is nested in it, becomes ls.            *)
Replaced(o, q, ls) ==
  LET k == The(o, q)
  IN  From(o, 1, k) \o <<[o[k] EXCEPT !.own = ls]>> \o From(o, EndOf(o, k), Len(o) + 1)

UnderHeading(o, q, ls) == LET k == The(o, q) IN [o EXCEPT ![k].own = ls \o @]
BehindSection(o, q, ls) == AddOwn(o, EndOf(o, The(o, q)) - 1, ls)
BeforeHeading(o, q, ls) == AddOwn(o, The(o, q) - 1, ls)

(* A section moves with all that is nested in it, and nothing else does.   *)
Moved(o, q, where, to) ==
  LET k == The(o, q)
      e == EndOf(o, k)
      rest == From(o, 1, k) \o From(o, e, Len(o) + 1)
      g == The(rest, to)
      at == IF where = "before" THEN g ELSE EndOf(rest, g)
  IN  From(rest, 1, at) \o From(o, k, e) \o From(rest, at, Len(rest) + 1)

(* A bullet goes to the end of the heading's own lines, unless it is there. *)
Upserted(o, q, b) ==
  LET k == The(o, q)
  IN  IF b \in ToSet(o[k].own) THEN o ELSE AddOwn(o, k, <<b>>)

(* Of the parts with one heading the first stays, unless it is nested in   *)
(* one that goes.                                                          *)
Deduped(o) ==
  LET again == {k \in 2..Len(o) : \E j \in 2..(k-1) :
                  o[j].level = o[k].level /\ o[j].words = o[k].words}
      gone == UNION {k..(EndOf(o, k) - 1) : k \in again}
      kept == {k \in 1..Len(o) : k \notin gone}
  IN  [i \in 1..Cardinality(kept) |->
         o[CHOOSE k \in kept : Cardinality({j \in kept : j < k}) = i - 1]]

(* A row goes below a row of the section, and all else stays.              *)
RowAdded(o, q, row, IsRow(_)) ==
  LET k == The(o, q)
      rows(j) == {i \in DOMAIN o[j].own : IsRow(o[j].own[i])}
  IN  UNION {{[o EXCEPT ![j].own = InsertAt(@, i + 1, row)] : i \in rows(j)} :
               j \in k..(EndOf(o, k) - 1)}
=============================================================================
