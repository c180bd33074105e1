------------------------------ MODULE DocEdits ------------------------------
(***************************************************************************)
(* The edits of a JSON, YAML or TOML document, apply_doc_mutation over the *)
(* tree that ops/doc parses it to.  The children of an object keep their   *)
(* order; those of an array have no key.  A selector is a sequence of      *)
(* segments; of a predicate's comparisons, equality is modelled.           *)
(***************************************************************************)
EXTENDS Naturals, Integers, Sequences, FiniteSets, SequencesExt, FiniteSetsExt, TLC

CONSTANTS
  Number,         \* the keys that parse as an index, and the index of each
  Docs,           \* the documents that are edited
  Selectors,      \* those of one path
  ManySelectors,  \* those with a wildcard or a predicate
  Values,         \* what is put in
  Overlays,       \* what is merged in
  MaxDocEdits     \* bound on the edits of a document

VARIABLES
  doc,       \* the document
  was,       \* the document before its last edit
  docEdit,   \* that edit
  docEdits

docVars == <<doc, was, docEdit, docEdits>>

Node(kind, val, kids) == [kind |-> kind, val |-> val, kids |-> kids]
Scalar(v) == Node("scalar", v, << >>)
Null == Scalar("null")
Object(kids) == Node("object", "", kids)
Array(nodes) == Node("array", "", [i \in DOMAIN nodes |-> <<"", nodes[i]>>])

Segment(kind, key, at, eq) == [kind |-> kind, key |-> key, at |-> at, eq |-> eq]
Key(k) == Segment("key", k, 0, "")
Index(i) == Segment("index", "", i, "")
Wildcard == Segment("wildcard", "", 0, "")
Predicate(k, v) == Segment("predicate", k, 0, v)

NoIndex == -1
IndexOf(seg) ==    \* array_index_of
  CASE seg.kind = "index" -> seg.at
    [] seg.kind = "key" /\ seg.key \in DOMAIN Number -> Number[seg.key]
    [] OTHER -> NoIndex

Kids(n) == Len(n.kids)
KeyPos(n, k) == Max({i \in DOMAIN n.kids : n.kids[i][1] = k} \cup {0})

(* The place among n's children that a segment names, or 0.                *)
Child(n, seg) ==
  CASE n.kind = "array" -> IF IndexOf(seg) \in 0..(Kids(n) - 1) THEN IndexOf(seg) + 1 ELSE 0
    [] n.kind = "object" /\ seg.kind = "key" -> KeyPos(n, seg.key)
    [] OTHER -> 0

(* A location is the places on the way down from the root.                 *)
RECURSIVE Sub(_, _)
Sub(n, loc) == IF loc = << >> THEN n ELSE Sub(n.kids[Head(loc)][2], Tail(loc))

RECURSIVE PutAt(_, _, _)
PutAt(n, loc, new) ==
  IF loc = << >> THEN new
  ELSE [n EXCEPT !.kids[Head(loc)][2] = PutAt(@, Tail(loc), new)]

-----------------------------------------------------------------------------
(* get_nested of one key, and item_matches_predicate with an equality.     *)
Has(n, k, v) ==
  LET i == Child(n, Key(k))
  IN  i # 0 /\ n.kids[i][2].kind = "scalar" /\ n.kids[i][2].val = v

IsContainer(n) == n.kind # "scalar"
MapOfRecords(n) == \E i \in DOMAIN n.kids : IsContainer(n.kids[i][2])
TestsSelf(n, k) == Child(n, Key(k)) # 0 \/ ~MapOfRecords(n)

(* eval_result: the locations that a selector finds.                       *)
RECURSIVE Eval(_, _)
Eval(n, segs) ==
  IF segs = << >> THEN {<< >>}
  ELSE LET seg == Head(segs)
           Below(is) == UNION {{<<i>> \o loc : loc \in Eval(n.kids[i][2], Tail(segs))} : i \in is}
           fits == {i \in DOMAIN n.kids : Has(n.kids[i][2], seg.key, seg.eq)}
       IN  CASE seg.kind = "wildcard" -> Below(DOMAIN n.kids)
             [] seg.kind = "predicate" /\ n.kind = "array" -> Below(fits)
             [] seg.kind = "predicate" /\ n.kind = "object" ->
                  Below({i \in fits : IsContainer(n.kids[i][2])})
                    \cup IF TestsSelf(n, seg.key) /\ Has(n, seg.key, seg.eq)
                         THEN Eval(n, Tail(segs)) ELSE {}
             [] OTHER -> Below({Child(n, seg)} \ {0})

(* navigate_mut: what it finds, or why it does not: a key that is missing  *)
(* from what is no array may be found missing by a delete.                 *)
Navigable(segs) == \A i \in DOMAIN segs : segs[i].kind \in {"key", "index"}
Nav(n, segs) == IF Navigable(segs) THEN Eval(n, segs) ELSE {}
Only(locs) == CHOOSE loc \in locs : TRUE

Reach(n, segs) ==
  LET found == {i \in 0..Len(segs) : Nav(n, SubSeq(segs, 1, i)) # {}}
  IN  Only(Nav(n, SubSeq(segs, 1, Max(found))))

MissingKey(n, segs) ==
  /\ Nav(n, segs) = {}
  /\ segs[Len(Reach(n, segs)) + 1].kind = "key"
  /\ Sub(n, Reach(n, segs)).kind # "array"

(* navigate_mut that creates: the trees, one or none, in which segs is.    *)
NullToObject(n, seg) == IF n = Null /\ seg.kind = "key" THEN Object(<< >>) ELSE n

RECURSIVE Grow(_, _)
Grow(n, segs) ==
  IF segs = << >> THEN {n}
  ELSE LET seg == Head(segs)
           base == NullToObject(n, seg)
           made == IF base.kind = "object" /\ seg.kind = "key" /\ KeyPos(base, seg.key) = 0
                   THEN Object(Append(base.kids, <<seg.key, Object(<< >>)>>)) ELSE base
           i == Child(made, seg)
       IN  IF i = 0 THEN {}
           ELSE {[made EXCEPT !.kids[i][2] = new] : new \in Grow(made.kids[i][2], Tail(segs))}

-----------------------------------------------------------------------------
(* set_at_path                                                             *)
Assign(n, seg, v) ==
  LET i == Child(n, seg)
  IN  CASE i # 0 -> {[n EXCEPT !.kids[i][2] = v]}
        [] i = 0 /\ n.kind = "object" /\ seg.kind = "key" -> {Object(Append(n.kids, <<seg.key, v>>))}
        [] OTHER -> {}

SetAt(root, segs, v) ==
  IF segs = << >> THEN {v}
  ELSE UNION {LET at == Only(Nav(g, Front(segs)))
                  parent == NullToObject(Sub(g, at), Last(segs))
              IN  {PutAt(g, at, new) : new \in Assign(parent, Last(segs), v)} :
              g \in Grow(root, Front(segs))}

(* A mistake for TLC to find: an array element is removed as a key is.     *)
RemoveSwapping(n, i) == [n EXCEPT !.kids = Front([@ EXCEPT ![i] = Last(n.kids)])]

(* Vec::remove; serde_json's Map::remove moves the last key to the place.  *)
RemoveKid(n, i) ==
  [n EXCEPT !.kids = IF n.kind = "array" THEN RemoveAt(@, i)
                     ELSE Front([@ EXCEPT ![i] = Last(n.kids)])]

RemoveLoc(root, loc) == PutAt(root, Front(loc), RemoveKid(Sub(root, Front(loc)), Last(loc)))

(* delete_at_selector: a key that is missing, or an index beyond the end,  *)
(* matches nothing; a name where an array is, or a predicate, is refused.  *)
DeleteRefused(root, segs) ==
  LET up == Front(segs)
      parent == Sub(root, Only(Nav(root, up)))
  IN  /\ segs # << >>
      /\ IF Nav(root, up) = {} THEN ~MissingKey(root, up)
         ELSE \/ ~Navigable(<<Last(segs)>>)
              \/ parent.kind = "array" /\ IndexOf(Last(segs)) = NoIndex

(* delete_where                                                            *)
Retain(n, k, v) == [n EXCEPT !.kids = SelectSeq(@, LAMBDA kid : ~Has(kid[2], k, v))]

(* deep_merge                                                              *)
RECURSIVE DeepMerge(_, _)
DeepMerge(base, other) ==
  IF base.kind # "object" \/ other.kind # "object" THEN other
  ELSE LET both(k) == DeepMerge(base.kids[KeyPos(base, k)][2], other.kids[KeyPos(other, k)][2])
       IN  Object([i \in DOMAIN base.kids |->
                     IF KeyPos(other, base.kids[i][1]) = 0 THEN base.kids[i]
                     ELSE <<base.kids[i][1], both(base.kids[i][1])>>]
                    \o SelectSeq(other.kids, LAMBDA kid : KeyPos(base, kid[1]) = 0))

(* update_matching.  On an object a predicate is put to the object itself  *)
(* and then, if that had containers before, to the containers of what has  *)
(* become of it.                                                           *)
RECURSIVE Update(_, _, _)
Update(n, segs, v) ==
  LET seg == Head(segs)
      In(m, is) == [m EXCEPT !.kids = [i \in DOMAIN @ |->
                      IF i \in is THEN <<@[i][1], Update(@[i][2], Tail(segs), v)>> ELSE @[i]]]
      fits(m) == {i \in DOMAIN m.kids : Has(m.kids[i][2], seg.key, seg.eq)}
      self == TestsSelf(n, seg.key) /\ Has(n, seg.key, seg.eq)
      first == IF self THEN Update(n, Tail(segs), v) ELSE n
  IN  CASE segs = << >> -> v
        [] segs # << >> /\ seg.kind = "wildcard" -> In(n, DOMAIN n.kids)
        [] segs # << >> /\ seg.kind = "predicate" /\ n.kind = "array" -> In(n, fits(n))
        [] segs # << >> /\ seg.kind = "predicate" /\ n.kind = "object" ->
             IF (self /\ Len(segs) = 1) \/ ~MapOfRecords(n) \/ first.kind # "object" THEN first
             ELSE In(first, {i \in fits(first) : IsContainer(first.kids[i][2])})
        [] OTHER -> In(n, {Child(n, seg)} \ {0})

-----------------------------------------------------------------------------
(* move_at_path.  A path is the same as another if an index is spelt in    *)
(* two ways, as in `rows[0]`, `rows.0` and `rows.00`.                      *)
SlotsSame(n, a, b) ==
  IF n.kind = "array" THEN IndexOf(a) # NoIndex /\ IndexOf(a) = IndexOf(b)
  ELSE a = b \/ \E i \in {a.at, b.at} : {a, b} = {Index(i), Key(ToString(i))}

PathsMatch(root, l, r) ==
  /\ Len(l) = Len(r)
  /\ \A i \in DOMAIN l :
       /\ Nav(root, SubSeq(l, 1, i - 1)) # {}
       /\ SlotsSame(Sub(root, Only(Nav(root, SubSeq(l, 1, i - 1)))), l[i], r[i])

(* bump_source_after_insert                                                *)
SameSlot(a, b) == IF "index" \in {a.kind, b.kind}
                  THEN IndexOf(a) # NoIndex /\ IndexOf(a) = IndexOf(b) ELSE a = b

(* A mistake for TLC to find: the source is not followed.                  *)
NotBumped(from, parent, at) == from

Bumped(from, parent, at) ==
  LET n == Len(parent)
  IN  IF /\ Len(from) > n /\ \A i \in 1..n : SameSlot(from[i], parent[i])
         /\ IndexOf(from[n+1]) >= at
      THEN [from EXCEPT ![n+1] = Index(IndexOf(@) + 1)] ELSE from

(* Within one array: removed, then put in.                                 *)
WithinArray(root, from, to) ==
  LET up == Only(Nav(root, Front(from)))
      arr == Sub(root, up)
      f == IndexOf(Last(from)) + 1
      t == IndexOf(Last(to)) + 1
  IN  IF {f, t} \subseteq DOMAIN arr.kids
      THEN {PutAt(root, up, [arr EXCEPT !.kids = InsertAt(RemoveAt(@, f), t, @[f])])} ELSE {}

(* Into another place: put in, and then removed from where it was.         *)
Insert(n, seg, v) ==
  IF n.kind = "array"
  THEN IF IndexOf(seg) \in 0..Kids(n)
       THEN {[n EXCEPT !.kids = InsertAt(@, IndexOf(seg) + 1, <<"", v>>)]} ELSE {}
  ELSE IF n.kind = "object" /\ seg.kind = "key" /\ KeyPos(n, seg.key) = 0
       THEN {Object(Append(n.kids, <<seg.key, v>>))} ELSE {}

(* Where nothing is under the source any more, nothing is removed.         *)
TakenFrom(root, from) ==
  IF Nav(root, Front(from)) = {} THEN {}
  ELSE {IF Nav(root, from) = {} THEN root ELSE RemoveLoc(root, Only(Nav(root, from)))}

Across(root, from, to) ==
  LET v == Sub(root, Only(Nav(root, from)))
      Puts(g) == LET at == Only(Nav(g, Front(to)))
                 IN  {[into |-> Sub(g, at), tree |-> PutAt(g, at, n)] :
                        n \in Insert(Sub(g, at), Last(to), v)}
  IN  UNION {TakenFrom(r.tree, IF r.into.kind = "array"
                               THEN Bumped(from, Front(to), IndexOf(Last(to))) ELSE from) :
             r \in UNION {Puts(g) : g \in Grow(root, Front(to))}}

MoveAt(root, from, to) ==
  IF << >> \in {from, to} \/ ~Navigable(from \o to) THEN {}
  ELSE IF PathsMatch(root, from, to) THEN {root}
  ELSE IF Len(to) > Len(from) /\ PathsMatch(root, SubSeq(to, 1, Len(from)), from) THEN {}
  ELSE IF Nav(root, Front(from)) = {} THEN {}
  ELSE IF /\ PathsMatch(root, Front(from), Front(to))
          /\ NoIndex \notin {IndexOf(Last(from)), IndexOf(Last(to))}
          /\ Sub(root, Only(Nav(root, Front(from)))).kind = "array"
       THEN WithinArray(root, from, to)
  ELSE IF Nav(root, from) = {} THEN {} ELSE Across(root, from, to)

-----------------------------------------------------------------------------
(* apply_doc_mutation.  What is refused, or matches nothing, leaves the    *)
(* document as it is.                                                      *)
MayEdit == docEdits < MaxDocEdits

NoDocEdit == [kind |-> "none", sel |-> << >>, to |-> << >>, value |-> Null,
              outcome |-> "none"]

Mutated(kind, sel, to, value, outcome, new) ==
  /\ docEdits' = docEdits + 1
  /\ was' = doc /\ doc' = new
  /\ docEdit' = [kind |-> kind, sel |-> sel, to |-> to, value |-> value, outcome |-> outcome]

(* One of the trees, or none: then the edit is refused.                    *)
Outcome(kind, sel, to, value, trees) ==
  IF trees = {} THEN Mutated(kind, sel, to, value, "refused", doc)
  ELSE Mutated(kind, sel, to, value, "applied", Only(trees))

DocSet == MayEdit /\ \E sel \in Selectors \cup ManySelectors, v \in Values :
  Outcome("set", sel, << >>, v, SetAt(doc, sel, v))

DocEnsure == MayEdit /\ \E sel \in Selectors \cup ManySelectors, v \in Values :
  IF Navigable(sel) /\ Eval(doc, sel) # {}
  THEN Mutated("ensure", sel, << >>, v, "exists", doc)
  ELSE Outcome("ensure", sel, << >>, v, SetAt(doc, sel, v))

DocDelete == MayEdit /\ \E sel \in Selectors \cup ManySelectors :
  IF DeleteRefused(doc, sel) THEN Mutated("delete", sel, << >>, Null, "refused", doc)
  ELSE IF sel = << >> \/ Nav(doc, sel) = {}
       THEN Mutated("delete", sel, << >>, Null, "no_match", doc)
  ELSE Mutated("delete", sel, << >>, Null, "applied", RemoveLoc(doc, Only(Nav(doc, sel))))

DocMerge == MayEdit /\ \E sel \in Selectors, v \in Overlays :
  LET at == Nav(doc, sel)
  IN  Outcome("merge", sel, << >>, v,
              {PutAt(doc, loc, DeepMerge(Sub(doc, loc), v)) :
                 loc \in {l \in at : Sub(doc, l).kind # "array"}})

(* A mistake for TLC to find: a value put first is put last.               *)
PutLast(kids, v) == Append(kids, <<"", v>>)

PutFirst(kids, v) == <<<<"", v>>>> \o kids

Arrays(sel) == {loc \in Nav(doc, sel) : Sub(doc, loc).kind = "array"}

DocAppend == MayEdit /\ \E sel \in Selectors, v \in Values :
  Outcome("append", sel, << >>, v,
          {PutAt(doc, loc, [Sub(doc, loc) EXCEPT !.kids = Append(@, <<"", v>>)]) :
             loc \in Arrays(sel)})

DocPrepend == MayEdit /\ \E sel \in Selectors, v \in Values :
  Outcome("prepend", sel, << >>, v,
          {PutAt(doc, loc, [Sub(doc, loc) EXCEPT !.kids = PutFirst(@, v)]) :
             loc \in Arrays(sel)})

(* array_root_bare_key_hint: a name at the root, where an array is.        *)
NamesInArray(n, segs) ==
  segs # << >> /\ n.kind = "array" /\ Head(segs).kind = "key" /\ IndexOf(Head(segs)) = NoIndex

(* Whether anything was updated is counted on the way.                     *)
DocUpdate == MayEdit /\ \E sel \in Selectors \cup ManySelectors, v \in Values :
  IF Update(doc, sel, v) = doc /\ Eval(doc, sel) = {}
  THEN Mutated("update", sel, << >>, v,
               IF NamesInArray(doc, sel) THEN "refused" ELSE "no_match", doc)
  ELSE Mutated("update", sel, << >>, v, "applied", Update(doc, sel, v))

DocMove == MayEdit /\ \E from, to \in Selectors :
  Outcome("move", from, to, Null, MoveAt(doc, from, to))

DocDeleteWhere == MayEdit /\ \E sel \in Selectors, p \in {Last(m) : m \in ManySelectors} :
  /\ p.kind = "predicate"
  /\ LET keep == {PutAt(doc, loc, Retain(Sub(doc, loc), p.key, p.eq)) : loc \in Arrays(sel)}
     IN  IF keep = {doc} THEN Mutated("delete_where", sel, <<p>>, Null, "no_match", doc)
         ELSE Outcome("delete_where", sel, <<p>>, Null, keep)

(* No document is under edit.                                              *)
DocIdle == doc = Null /\ was = Null /\ docEdit = NoDocEdit /\ docEdits = MaxDocEdits
DocInit == doc \in Docs /\ was = doc /\ docEdit = NoDocEdit /\ docEdits = 0

DocNext ==
  \/ DocSet \/ DocEnsure \/ DocDelete \/ DocMerge \/ DocAppend \/ DocPrepend
  \/ DocUpdate \/ DocMove \/ DocDeleteWhere

-----------------------------------------------------------------------------
(* What a document says: its scalars, each with its trail, the keys on the *)
(* way to it and a star for each array.                                    *)
RECURSIVE LeavesOf(_)
LeavesOf(n) ==
  IF n.kind = "scalar" THEN {<< >>}
  ELSE UNION {{<<i>> \o loc : loc \in LeavesOf(n.kids[i][2])} : i \in DOMAIN n.kids}

Step(n, seg) == IF n.kind = "array" THEN "*" ELSE seg
Trail(n, loc) ==
  [i \in DOMAIN loc |-> LET up == Sub(n, SubSeq(loc, 1, i - 1))
                        IN  Step(up, up.kids[loc[i]][1])]

SaysAt(n, locs) == {[leaf |-> Sub(n, l).val, trail |-> Trail(n, l)] : l \in locs}
Says(n) == SaysAt(n, LeavesOf(n))
Under(n, locs) == {l \in LeavesOf(n) : \E loc \in locs : IsPrefix(loc, l)}
PutUnder(says, trail) == {[s EXCEPT !.trail = trail \o @] : s \in says}

(* The trail of a selector, and the null that has to go for it.            *)
TrailTo(n, segs) ==
  LET r == Reach(n, segs)
  IN  Trail(n, r) \o [i \in 1..(Len(segs) - Len(r)) |->
        IF i = 1 THEN Step(Sub(n, r), segs[Len(r) + i].key) ELSE segs[Len(r) + i].key]

NullOn(n, segs) == {l \in {Reach(n, segs)} : Sub(n, l) = Null}

(* A scalar is spared by an overlay that has objects on the way to it, or  *)
(* nothing from a key on.                                                  *)
RECURSIVE Spared(_, _, _)
Spared(n, overlay, loc) ==
  /\ {n.kind, overlay.kind} = {"object"}
  /\ LET kid == n.kids[Head(loc)]
         i == KeyPos(overlay, kid[1])
     IN  i = 0 \/ Spared(kid[2], overlay.kids[i][2], Tail(loc))

Meant(n, e) ==
  LET under == Under(n, Eval(n, e.sel))
      kept(locs) == Says(n) \ SaysAt(n, locs)
      new(t) == PutUnder(Says(e.value), t)
      hit == {l \in under : LET at == Reach(n, e.sel)
                            IN  ~Spared(Sub(n, at), e.value, SubSeq(l, Len(at) + 1, Len(l)))}
  IN  IF e.outcome # "applied" THEN Says(n)
      ELSE
      CASE e.kind \in {"set", "ensure"} ->
             kept(under \cup NullOn(n, e.sel)) \cup new(TrailTo(n, e.sel))
        [] e.kind = "delete" -> kept(under)
        [] e.kind = "merge" -> kept(hit) \cup new(TrailTo(n, e.sel))
        [] e.kind \in {"append", "prepend"} -> Says(n) \cup new(Append(TrailTo(n, e.sel), "*"))
        [] e.kind = "update" ->
             kept(under) \cup UNION {new(Trail(n, loc)) : loc \in
                                       {l \in Eval(n, e.sel) : \A m \in Eval(n, e.sel) \ {l} :
                                          ~IsPrefix(m, l)}}
        [] e.kind = "delete_where" -> kept(Under(n, Eval(n, e.sel \o e.to)))
        [] e.kind = "move" ->
             IF PathsMatch(n, e.sel, e.to) THEN Says(n)
             ELSE kept(under \cup NullOn(n, e.to))
                    \cup PutUnder(Says(Sub(n, Only(Eval(n, e.sel)))), TrailTo(n, e.to))

(* An index with a leading zero.                                           *)
Padded(segs) == \E i \in DOMAIN segs :
  segs[i].kind = "key" /\ IndexOf(segs[i]) # NoIndex /\ segs[i].key # ToString(IndexOf(segs[i]))

(* An object with containers that is updated itself, and then once more    *)
(* through one of them in which the first update was, if the predicate     *)
(* holds of what that has become.                                          *)
MeetsItself(n, e) ==
  e.kind = "update" /\ \E i \in 1..(Len(e.sel) - 1) :
    LET seg == e.sel[i]
        rest == SubSeq(e.sel, i + 1, Len(e.sel))
    IN  /\ seg.kind = "predicate"
        /\ \E o \in {Sub(n, l) : l \in Eval(n, SubSeq(e.sel, 1, i - 1))} :
             /\ o.kind = "object" /\ MapOfRecords(o)
             /\ TestsSelf(o, seg.key) /\ Has(o, seg.key, seg.eq)
             /\ LET first == Update(o, rest, e.value)
                IN  /\ first.kind = "object"
                    /\ \E put \in Eval(o, rest), j \in DOMAIN first.kids :
                         LET kid == first.kids[j][2]
                         IN  /\ put # << >> => Head(put) = j
                             /\ IsContainer(kid) /\ Has(kid, seg.key, seg.eq)
                             /\ Eval(kid, rest) # {}

(* Every edit does to the document what it is meant to do: what a selector *)
(* finds when it is read is what it edits, the rest keeps its place below  *)
(* the same keys, and a value that moves is neither lost nor doubled,      *)
(* though indices shift on the way.                                        *)
DocEditsMeanWhatTheySay ==
  ~Padded(docEdit.sel \o docEdit.to) /\ ~MeetsItself(was, docEdit) => Says(doc) = Meant(was, docEdit)

(* What was put in is what its selector then finds.                        *)
EditsReadBack ==
  LET found == {Sub(doc, l) : l \in Eval(doc, docEdit.sel)}
      ends(i) == {n.kids[IF i = 0 THEN Kids(n) ELSE i][2] : n \in found}
  IN  docEdit.outcome = "applied" =>
        /\ docEdit.kind \in {"set", "ensure"} => found = {docEdit.value}
        /\ docEdit.kind = "append" => ends(0) = {docEdit.value}
        /\ docEdit.kind = "prepend" => ends(1) = {docEdit.value}
        /\ docEdit.kind = "delete_where" => Eval(doc, docEdit.sel \o docEdit.to) = {}

(* What stays in an array stays in its order.                              *)
Before(n) ==
  LET first(l, m) == Min({i \in 1..Min({Len(l), Len(m)}) : l[i] # m[i]})
  IN  {[l |-> Sub(n, l).val, m |-> Sub(n, m).val] : <<l, m>> \in
         {<<l, m>> \in LeavesOf(n) \X LeavesOf(n) :
            /\ l # m
            /\ LET i == first(l, m)
               IN  l[i] < m[i] /\ Sub(n, SubSeq(l, 1, i - 1)).kind = "array"}}

ArraysKeepOrder ==
  LET moved == {Sub(was, l).val : l \in Under(was, Eval(was, docEdit.sel))}
                 \cup {s.leaf : s \in Says(docEdit.value)}
  IN  \A b \in Before(was) :
        {b.l, b.m} \cap moved = {} => [l |-> b.m, m |-> b.l] \notin Before(doc)

(* PATCHLOOM.md: "doc.move: Move a value from one selector path to another *)
(* within the same file", whichever way its indices are spelt.             *)
MovesInEverySpelling == docEdit.kind = "move" => Says(doc) = Meant(was, docEdit)
=============================================================================
