------------------------------- MODULE MdEdits -------------------------------
(***************************************************************************)
(* The Markdown edits of ops/md.rs, over lines.  A line is what the parser *)
(* tells lines apart by; a text is its lines and whether the last of them  *)
(* ends.  Line numbers are 1-based, and a range is its first line and the  *)
(* one after its last.                                                     *)
(*                                                                         *)
(* Left out: HTML comments, and fences of several lengths and characters.  *)
(***************************************************************************)
EXTENDS Naturals, Sequences, FiniteSets, SequencesExt, FiniteSetsExt

Line(k, l, t) == [kind |-> k, level |-> l, words |-> t]
Atx(l, t) == Line("atx", l, t)         \* "## words"
Underline(l) == Line("underline", l, "")   \* "===" or "---"
Plain(t) == Line("plain", 0, t)
Bullet(t) == Line("bullet", 0, t)
Row(n) == Line("row", n, "")           \* a table row of n cells
Separator(n) == Line("separator", n, "")
Fence == Line("fence", 0, "")
Blank == Line("blank", 0, "")

Text(ls, e) == [lines |-> ls, eol |-> e]
Empty == Text(<< >>, TRUE)
Lines(x) == Len(x.lines)

InOrder(nums) == [i \in 1..Cardinality(nums) |->
                    CHOOSE n \in nums : Cardinality({m \in nums : m < n}) = i - 1]

(* The lines of x from i up to, and not including, j.                      *)
Slice(x, i, j) == IF i >= j THEN Empty
                  ELSE Text(SubSeq(x.lines, i, j - 1), j <= Lines(x) \/ x.eol)

(* Strings are put together: a last line that does not end goes on.        *)
Cat(x, y) ==
  IF y.lines = << >> THEN x
  ELSE IF x.eol THEN Text(x.lines \o y.lines, y.eol)
  ELSE Text(Front(x.lines)
              \o <<Plain(<<Last(x.lines), Head(y.lines)>>)>> \o Tail(y.lines), y.eol)

PushEol(x) == IF x.eol THEN Text(Append(x.lines, Blank), TRUE) ELSE [x EXCEPT !.eol = TRUE]
EnsureEol(x) == [x EXCEPT !.eol = TRUE]
EndsBlank(x) == x.eol /\ x.lines # << >> /\ Last(x.lines) = Blank
EnsureBlank(x) == IF EndsBlank(x) THEN x ELSE PushEol(x)

-----------------------------------------------------------------------------
(* non_fenced_lines: where the parser is after a line, and after line i.   *)
After(at, l) ==
  CASE at = "start" /\ l = Underline(2) -> "frontmatter"
    [] at = "frontmatter" -> IF l = Underline(2) THEN "body" ELSE "frontmatter"
    [] at = "fence" -> IF l = Fence THEN "body" ELSE "fence"
    [] OTHER -> IF l = Fence THEN "fence" ELSE "body"

Scan(ls) ==
  LET at[i \in 0..Len(ls)] == IF i = 0 THEN "start" ELSE After(at[i-1], ls[i])
  IN  at

Visible(ls) == LET at == Scan(ls)
               IN  {i \in 1..Len(ls) : at[i] = "body" /\ at[i-1] \in {"start", "body"}}

(* parse_headings.  An underline makes a heading of the plain line it is   *)
(* under; a section ends at the next heading of its level or above.        *)
HeadingAt(ls, i) ==
  IF ls[i].kind = "atx"
  THEN [level |-> ls[i].level, words |-> ls[i].words, start |-> i, body |-> i + 1]
  ELSE [level |-> ls[i+1].level, words |-> ls[i].words, start |-> i, body |-> i + 2]

Headings(x) ==
  LET ls == x.lines
      seen == Visible(ls)
      hs == {HeadingAt(ls, i) : i \in {j \in seen :
               \/ ls[j].kind = "atx"
               \/ /\ ls[j].kind = "plain"
                  /\ j + 1 \in seen /\ ls[j+1].kind = "underline"}}
      End(h) == Min({g.start : g \in {k \in hs : k.start > h.start /\ k.level <= h.level}}
                      \cup {Len(ls) + 1})
  IN  {[level |-> h.level, words |-> h.words, start |-> h.start, body |-> h.body,
        end |-> End(h)] : h \in hs}

(* A query has a text and, unless it is 0, a level.                        *)
Matches(x, q) == {h \in Headings(x) : h.words = q.words /\ q.level \in {0, h.level}}
IsUnique(x, q) == Cardinality(Matches(x, q)) = 1
Section(x, q) == CHOOSE h \in Matches(x, q) : TRUE

-----------------------------------------------------------------------------
(* replace_section_in.  The heading may be given again with the body.      *)
StripHeading(r, q) ==
  IF r.lines # << >> /\ Head(r.lines).kind = "atx" /\ Head(r.lines).words = q.words
       /\ q.level \in {0, Head(r.lines).level}
  THEN Slice(r, 2, Lines(r) + 1) ELSE r

Replace(x, q, given) ==
  LET h == Section(x, q)
      r == StripHeading(given, q)
      put == EnsureEol(Cat(EnsureEol(Slice(x, 1, h.body)), r))
      spaced == IF /\ EndsBlank(Slice(x, h.body, h.end)) /\ ~EndsBlank(r)
                   /\ h.end <= Lines(x)
                THEN PushEol(put) ELSE put
  IN  Cat(IF r = Empty THEN Slice(x, 1, h.body) ELSE spaced,
          Slice(x, h.end, Lines(x) + 1))

(* insert_after_heading_in, insert_after_section_in, insert_before_heading_in *)
InsertAfterHeading(x, q, r) ==
  LET h == Section(x, q)
  IN  Cat(EnsureEol(Cat(EnsureEol(Slice(x, 1, h.body)), r)), Slice(x, h.body, Lines(x) + 1))

InsertAfterSection(x, q, r) ==
  LET h == Section(x, q)
      to == Slice(x, 1, h.end)
  IN  Cat(EnsureEol(Cat(IF EndsBlank(to) THEN to ELSE PushEol(EnsureEol(to)), r)),
          Slice(x, h.end, Lines(x) + 1))

InsertBefore(x, q, r) ==
  LET h == Section(x, q)
  IN  Cat(EnsureBlank(EnsureEol(Cat(Slice(x, 1, h.start), r))),
          Slice(x, h.start, Lines(x) + 1))

(* move_section_in: the section goes before a heading, or after the whole  *)
(* of another section.                                                     *)
WithoutSection(x, h) == Cat(Slice(x, 1, h.start), Slice(x, h.end, Lines(x) + 1))

PutAfter(y, to, r) ==
  LET h == Section(y, to)
      before == Slice(y, 1, h.end)
  IN  Cat(EnsureEol(Cat(EnsureBlank(before), r)), Slice(y, h.end, Lines(y) + 1))

Put(y, where, to, r) == IF where = "before" THEN InsertBefore(y, to, r) ELSE PutAfter(y, to, r)

CanMove(x, q, to) == IsUnique(x, q) /\ IsUnique(WithoutSection(x, Section(x, q)), to)

(* A mistake for TLC to find: the target is looked up before the section   *)
(* is taken out.                                                           *)
MoveByOldLines(x, q, where, to) ==
  LET h == Section(x, q)
      at == IF IsUnique(x, to) THEN Section(x, to) ELSE h
      rest == WithoutSection(x, h)
      line == IF where = "before" THEN at.start ELSE at.end
  IN  Cat(EnsureBlank(EnsureEol(Cat(Slice(rest, 1, line), Slice(x, h.start, h.end)))),
          Slice(rest, line, Lines(rest) + 1))

Move(x, q, where, to) ==
  LET h == Section(x, q)
  IN  Put(WithoutSection(x, h), where, to, Slice(x, h.start, h.end))

(* upsert_bullet_in: into the heading's own list, before the headings      *)
(* nested in its section, unless a bullet says the same.                   *)
DirectEnd(x, h) ==
  LET nested == {g \in Headings(x) : g.start > h.start /\ g.start < h.end}
  IN  IF nested = {} THEN h.end ELSE Min({g.start : g \in nested})

OwnLines(x, h) == h.body..(DirectEnd(x, h) - 1)

(* A mistake for TLC to find: the first line of the section is passed by.  *)
SaysItLater(x, h, t) == \E i \in OwnLines(x, h) \ {h.body} : x.lines[i] = Bullet(t)

SaysIt(x, h, t) == \E i \in OwnLines(x, h) : x.lines[i] = Bullet(t)

Upsert(x, q, t) ==
  LET h == Section(x, q)
      own == OwnLines(x, h)
      full == {i \in own : x.lines[i] # Blank}
      at == IF full # {} THEN Max(full) + 1 ELSE IF own # {} THEN h.body + 1 ELSE h.body
      put == Cat(EnsureEol(Slice(x, 1, at)), Text(<<Bullet(t)>>, TRUE))
      rest == Slice(x, at, Lines(x) + 1)
  IN  IF SaysIt(x, h, t) THEN x
      ELSE Cat(IF rest # Empty /\ Head(rest.lines).kind = "atx" THEN EnsureBlank(put) ELSE put,
               rest)

(* dedupe_headings_in: a heading that was seen at its level goes, with its *)
(* section.  A heading in such a section has been seen all the same.       *)
Again(x) ==
  {h \in Headings(x) : \E g \in Headings(x) :
     g.start < h.start /\ g.level = h.level /\ g.words = h.words}

Dedupe(x) ==
  LET gone == UNION {h.start..(h.end - 1) : h \in Again(x)}
      kept == InOrder((1..Lines(x)) \ gone)
  IN  IF kept = << >> THEN Empty
      ELSE Text([i \in 1..Len(kept) |-> x.lines[kept[i]]],
                Lines(x) \in gone \/ x.eol)

(* table_append_in: below the last row of the section's first table.       *)
TableRows(x, h) ==
  LET body == h.body..(h.end - 1)
      row(i) == x.lines[i].kind \in {"row", "separator"}
      first == Min({i \in body : row(i)})
  IN  {i \in body : i >= first /\ \A j \in first..i : row(j)}

HasTable(x, h) ==
  /\ \E i \in h.body..(h.end - 1) : x.lines[i].kind \in {"row", "separator"}
  /\ \E i \in TableRows(x, h) : x.lines[i].kind = "separator"

(* The columns are those of the first separator there is.                  *)
Columns(x, h) ==
  x.lines[Min({i \in h.body..(h.end - 1) : x.lines[i].kind = "separator"})].level

CanAppendRow(x, q, n) ==
  /\ IsUnique(x, q)
  /\ HasTable(x, Section(x, q))
  /\ Columns(x, Section(x, q)) = n

AppendRow(x, q, n) ==
  LET last == Max(TableRows(x, Section(x, q)))
  IN  Cat(Cat(EnsureEol(Slice(x, 1, last + 1)), Text(<<Row(n)>>, TRUE)),
          Slice(x, last + 1, Lines(x) + 1))
=============================================================================
