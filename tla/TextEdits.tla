------------------------------ MODULE TextEdits ------------------------------
(***************************************************************************)
(* Texts under edit.  A Markdown text goes through the edits of ops/md.rs; *)
(* another file drifts away from the text that a diff was made of, and is  *)
(* then patched.                                                           *)
(***************************************************************************)
EXTENDS MdEdits, PatchEdits, OutlineEdits

CONSTANTS
  MdTexts,          \* the Markdown texts that are edited
  Queries, Payloads, Words, Widths,  \* what the edits are given
  MaxEdits,         \* bound on the edits of a text
  Scripts,          \* whole files as diffs: every line kept, removed, added
  Contexts,         \* lines of context around a change
  Mine,             \* a line that only a drift puts into a file
  MaxDrift          \* bound on the lines that drift

(* A diff is made of lines that no drift puts there, nor a merge.          *)
ASSUME ScriptsAssumption ==
  /\ \A s \in Scripts :
       /\ s \in Seq(ToSet(s))
       /\ \A i \in DOMAIN s :
            /\ s[i] = PatchLine(s[i].kind, s[i].line)
            /\ s[i].kind \in {"context", "remove", "add"}
            /\ s[i].line \notin {Mine, Ours, Sep, Theirs}
  /\ Mine \notin {Ours, Sep, Theirs}
  /\ Contexts \subseteq Nat /\ MaxDrift \in Nat

ASSUME TextsAssumption ==
  /\ \A x \in MdTexts \cup Payloads :
       /\ x = Text(x.lines, x.eol) /\ x.eol \in BOOLEAN
       /\ x.lines \in Seq(ToSet(x.lines))
       /\ x.lines = << >> => x.eol
  /\ MaxEdits \in Nat

VARIABLES
  text,    \* the Markdown text
  edit,    \* its last edit
  edits,
  script,  \* what the patch changes in the text it was made of
  hunks,   \* the patch
  file,    \* the text it is applied to
  drifted, \* base lines whose place in the file another line has
  status

mdVars == <<text, edit, edits>>
patchVars == <<script, hunks, file, drifted, status>>
textVars == <<text, edit, edits, script, hunks, file, drifted, status>>

-----------------------------------------------------------------------------
NoEdit == [kind |-> "none", query |-> [level |-> 0, words |-> ""], where |-> "",
           to |-> [level |-> 0, words |-> ""], given |-> Empty]

Edited(kind, q, where, to, given, result) ==
  /\ edits' = edits + 1
  /\ text' = result
  /\ edit' = [kind |-> kind, query |-> q, where |-> where, to |-> to, given |-> given]
  /\ UNCHANGED patchVars

NoQuery == NoEdit.query
MdMayEdit == edits < MaxEdits

ReplaceSection == MdMayEdit /\ \E q \in Queries, r \in Payloads :
  IsUnique(text, q) /\ Edited("replace", q, "", NoQuery, r, Replace(text, q, r))

InsertUnderHeading == MdMayEdit /\ \E q \in Queries, r \in Payloads \ {Empty} :
  IsUnique(text, q) /\ Edited("under", q, "", NoQuery, r, InsertAfterHeading(text, q, r))

InsertBehindSection == MdMayEdit /\ \E q \in Queries, r \in Payloads \ {Empty} :
  IsUnique(text, q) /\ Edited("behind", q, "", NoQuery, r, InsertAfterSection(text, q, r))

InsertBeforeHeading == MdMayEdit /\ \E q \in Queries, r \in Payloads \ {Empty} :
  IsUnique(text, q) /\ Edited("before", q, "", NoQuery, r, InsertBefore(text, q, r))

MoveSection == MdMayEdit /\ \E q, to \in Queries, where \in {"before", "after"} :
  /\ IsUnique(text, q) /\ CanMove(text, q, to)
  /\ Edited("move", q, where, to, Empty, Move(text, q, where, to))

UpsertBullet == MdMayEdit /\ \E q \in Queries, t \in Words :
  IsUnique(text, q)
    /\ Edited("upsert", q, "", NoQuery, Text(<<Bullet(t)>>, TRUE), Upsert(text, q, t))

DedupeHeadings == MdMayEdit /\ Edited("dedupe", NoQuery, "", NoQuery, Empty, Dedupe(text))

TableAppend == MdMayEdit /\ \E q \in Queries, n \in Widths :
  CanAppendRow(text, q, n)
    /\ Edited("row", q, "", NoQuery, Text(<<Row(n)>>, TRUE), AppendRow(text, q, n))

-----------------------------------------------------------------------------
(* A diff of a whole file, cut into hunks with u lines of context.         *)
Changed(s) == {i \in DOMAIN s : s[i].kind # "context"}
Near(s, u) == {i \in DOMAIN s : \E j \in Changed(s) : i - j \in (0 - u)..u}
Starts(s, u) == {i \in Near(s, u) : i - 1 \notin Near(s, u)}
RunFrom(s, u, i) == SubSeq(s, i, Max({j \in Near(s, u) : i..j \subseteq Near(s, u)}))

Diff(s, u, oldEol, newEol) ==
  LET starts == InOrder(Starts(s, u))
      hunk(i) ==
        LET body == RunFrom(s, u, i)
            end == i + Len(body) - 1
            before == Len(OldLines(SubSeq(s, 1, i - 1)))
        IN  Hunk(IF OldLines(body) = << >> THEN before ELSE before + 1, body,
                 ~oldEol /\ LastOf(s, "add") \in i..end,
                 ~newEol /\ LastOf(s, "remove") \in i..end
                   /\ s[LastOf(s, "remove")].kind = "add")
  IN  [k \in DOMAIN starts |-> hunk(starts[k])]

(* A line that is kept ends in both texts or in neither.                   *)
EolsOf(s) ==
  LET o == LastOf(s, "add")
      n == LastOf(s, "remove")
  IN  {e \in BOOLEAN \X BOOLEAN :
         /\ o = 0 => e[1]
         /\ n = 0 => e[2]
         /\ o = n => e[1] = e[2]
         /\ o # n /\ o # 0 /\ s[o].kind = "context" => e[1]
         /\ o # n /\ n # 0 /\ s[n].kind = "context" => e[2]}

PatchIdle == script = << >> /\ hunks = << >> /\ file = Empty
               /\ drifted = {} /\ status = [how |-> "none", newEol |-> TRUE]

PatchInit ==
  /\ script \in {s \in Scripts : Changed(s) # {}}
  /\ \E u \in Contexts, e \in EolsOf(script) :
       /\ hunks = Diff(script, u, e[1], e[2])
       /\ file = Text(OldLines(script), e[1])
       /\ status = [how |-> "made", newEol |-> e[2]]
  /\ drifted = {}

(* Somebody changes a line of the file, or puts one above all others.      *)
Drift ==
  /\ status.how = "made" /\ Cardinality(drifted) < MaxDrift
  /\ \/ \E k \in (DOMAIN file.lines) \ drifted :
          /\ 0 \notin drifted
          /\ file' = [file EXCEPT !.lines[k] = Mine]
          /\ drifted' = drifted \cup {k}
     \/ /\ 0 \notin drifted /\ file.lines # << >>
        /\ file' = [file EXCEPT !.lines = <<Mine>> \o @]
        /\ drifted' = drifted \cup {0}
  /\ UNCHANGED <<mdVars, script, hunks, status>>

Patched(r) ==
  /\ file' = IF r.ok THEN Text(r.lines, r.eol) ELSE file
  /\ status' = [status EXCEPT !.how =
       IF ~r.ok THEN "refused"
       ELSE IF ApplyHunks(file, hunks).ok THEN "clean"
       ELSE IF r.conflicts = 0 THEN "merged" ELSE "conflict"]

PatchApply ==
  /\ status.how = "made"
  /\ \E onStale \in {"fail", "merge"} : Patched(ApplyOrMerge(file, hunks, onStale, TRUE))
  /\ UNCHANGED <<mdVars, script, hunks, drifted>>

-----------------------------------------------------------------------------
(* No Markdown text is under edit.                                         *)
MdIdle == text = Empty /\ edit = NoEdit /\ edits = MaxEdits
MdInit == text \in MdTexts /\ edit = NoEdit /\ edits = 0

TextIdle == MdIdle /\ PatchIdle
TextInit == (MdInit /\ PatchIdle) \/ (MdIdle /\ PatchInit)

TextNext ==
  \/ ReplaceSection \/ InsertUnderHeading \/ InsertBehindSection \/ InsertBeforeHeading
  \/ MoveSection \/ UpsertBullet \/ DedupeHeadings \/ TableAppend
  \/ Drift \/ PatchApply

TextSpec == TextInit /\ [][TextNext]_textVars

-----------------------------------------------------------------------------
(* Texts are texts: a text without lines ends, and edits come from these.  *)
IsText(x) == /\ DOMAIN x.lines = 1..Len(x.lines) /\ x.eol \in BOOLEAN
             /\ x.lines = << >> => x.eol

EditsTypeOK ==
  /\ IsText(text) /\ IsText(file)
  /\ edits \in 0..MaxEdits
  /\ edit.query \in Queries \cup {NoQuery} /\ edit.to \in Queries \cup {NoQuery}
  /\ status.how \in {"none", "made", "refused", "clean", "merged", "conflict"}
  /\ drifted \subseteq Nat

(* The outline of a Markdown text: what every line of it says.             *)
Counted(l) == IF l = Blank THEN << >> ELSE <<l>>
NonBlank(ls) == FlattenSeq([i \in DOMAIN ls |-> Counted(ls[i])])

Said(x) ==
  LET all == Headings(x)
      starts == {h.start : h \in all}
      unders == UNION {(h.start + 1)..(h.body - 1) : h \in all}
      heading(i) == CHOOSE h \in all : h.start = i
  IN  [i \in DOMAIN x.lines |->
         CASE i \in starts -> Opening(heading(i).level, heading(i).words)
           [] i \in unders -> Adding(<< >>)
           [] OTHER -> Adding(Counted(x.lines[i]))]

Outline(x) == PartsOf(Said(x))

(* An outline cannot tell what a fence that is open at the end, or a line  *)
(* under which an insertion puts an underline, makes of the rest.          *)
Closed(x) == Scan(x.lines)[Lines(x)] \in {"start", "body"}
Underlines(x, q) == LET h == Section(x, q)
                    IN  h.body <= Lines(x) /\ x.lines[h.body].kind = "underline"

(* What is given makes no heading, but for the one that it repeats: not of *)
(* the line above it, nor of what a fence hides in what is given alone.    *)
MakesNoHeading(e) ==
  LET r == IF e.kind = "replace" THEN StripHeading(e.given, e.query) ELSE e.given
  IN  /\ Headings(r) = {} /\ Closed(r)
      /\ r.lines # << >> => Head(r.lines).kind # "underline"

Promised(o, e, x) ==
  LET given == NonBlank(StripHeading(e.given, e.query).lines)
      all == NonBlank(e.given.lines)
  IN  CASE e.kind = "replace" -> {Replaced(o, e.query, given)}
        [] e.kind = "under" -> {UnderHeading(o, e.query, all)}
        [] e.kind = "behind" -> {BehindSection(o, e.query, all)}
        [] e.kind = "before" -> {BeforeHeading(o, e.query, all)}
        [] e.kind = "move" -> {Moved(o, e.query, e.where, e.to)}
        [] e.kind = "upsert" -> {Upserted(o, e.query, Head(all))}
        [] e.kind = "dedupe" -> {Deduped(o)}
        [] e.kind = "row" -> RowAdded(o, e.query, Head(all),
                               LAMBDA l : l.kind \in {"row", "separator"})

(* Every Markdown edit does to the outline what it is meant to do, and     *)
(* nothing to any other section: whatever the line ends, blank lines,      *)
(* fences, levels and headings of the same words.                          *)
EditsMeanOutline ==
  [][edits' = edits + 1 /\ Closed(text) /\ MakesNoHeading(edit')
       /\ ~(edit'.kind = "under" /\ Underlines(text, edit'.query))
       => Outline(text') \in Promised(Outline(text), edit', text)]_textVars

(* What an edit has put right is right: a second upsert of a bullet and a  *)
(* second dedupe leave the text as it is, to the last line end.            *)
EditsSettle ==
  /\ edit.kind = "upsert" /\ IsUnique(text, edit.query)
       => Upsert(text, edit.query, Head(edit.given.lines).words) = text
  /\ edit.kind = "dedupe" => Dedupe(text) = text

(* A patch of the text it was made of gives the text it was made for.      *)
(* Where the last line, which does not end, is removed and the one before  *)
(* it is kept, the code leaves that one without its end.                   *)
LastLineGoes ==
  LET n == LastOf(script, "remove")
  IN  \E h \in ToSet(hunks) : h.oldBare /\ n # LastOf(script, "add")
        /\ (n = 0 \/ script[n].kind = "context")

PatchGivesNewText ==
  status.how = "clean" /\ drifted = {} /\ ~LastLineGoes =>
    file = Text(NewLines(script), status.newEol)

(* A patch takes nothing from a file that it does not name: what others    *)
(* have put there since is there, merged or in a conflict.                 *)
DriftSurvives ==
  status.how # "none" =>
    Cardinality({k \in DOMAIN file.lines : file.lines[k] = Mine}) = Cardinality(drifted)

(* Every line that one side has changed is as that side has it.            *)
ThreeWayOf(s, d) ==
  LET old(i) == Len(OldLines(SubSeq(s, 1, i)))
      line(i) == CASE s[i].kind = "add" -> <<s[i].line>>
                   [] s[i].kind = "remove" -> << >>
                   [] OTHER -> <<IF old(i) \in d THEN Mine ELSE s[i].line>>
  IN  FlattenSeq([i \in DOMAIN s |-> line(i)])

ThreeWay == ThreeWayOf(script, drifted)

(* Each line that goes has another that comes in its place.                *)
LineForLine(body) ==
  \A i \in DOMAIN body :
    /\ body[i].kind = "remove" => /\ i < Len(body) /\ body[i+1].kind = "add"
                                 /\ body[i+1].line # body[i].line
    /\ body[i].kind = "add" => i > 1 /\ body[i-1].kind = "remove"

(* A hunk may be found where an earlier one has put the line it looks for. *)
OldLinesAreUnlike ==
  \A i, j \in DOMAIN script :
    script[i].kind # "add" /\ script[i].line = script[j].line => i = j

(* A patch whose hunks change lines in place, applied or merged without a  *)
(* conflict, is the three-way merge, when a line of the old text is like   *)
(* no other line of it and like none that the patch adds.                  *)
MergeIsThreeWay ==
  /\ status.how \in {"clean", "merged"}
  /\ \A h \in ToSet(hunks) : LineForLine(h.body)
  /\ 0 \notin drifted /\ OldLinesAreUnlike
  => file.lines = ThreeWay

(* PATCHLOOM.md: "Stale patch recovery via three-way merge".               *)
CleanMergeIsThreeWay ==
  status.how = "merged" /\ 0 \notin drifted => file.lines = ThreeWay
=============================================================================
