------------------------------ MODULE MCEdits ------------------------------
(* Texts, patches and documents for TLC: all short ones, and some long ones. *)
EXTENDS Edits, TLC

CONSTANTS MaxLines, MaxScript, MaxUnlike

Alphabet == {Atx(1, "a"), Atx(2, "a"), Atx(2, "b"), Plain("p"), Bullet("t"),
             Underline(2), Fence, Blank, Separator(2)}

Short == UNION {[1..n -> Alphabet] : n \in 1..MaxLines}

Long == {
  <<Atx(1, "a"), Blank, Atx(2, "b"), Plain("p"), Blank, Atx(2, "c"), Bullet("t"), Plain("a"), Underline(2)>>,
  <<Atx(2, "b"), Fence, Atx(2, "c"), Fence, Atx(2, "c"), Row(2), Separator(2), Row(2), Blank, Plain("p")>>,
  <<Atx(2, "a"), Atx(2, "b"), Atx(2, "a"), Atx(1, "b"), Plain("p"), Atx(2, "c"), Atx(2, "b"), Plain("p")>>,
  <<Underline(2), Atx(2, "a"), Underline(2), Plain("p"), Atx(2, "a"), Bullet("t"), Blank, Blank, Atx(1, "c")>>}

MCTexts == {Text(ls, e) : ls \in {s \in Short : \E i \in DOMAIN s : s[i].kind = "atx"} \cup Long,
                          e \in BOOLEAN}
             \ {Text(ls, FALSE) : ls \in {s \in Short \cup Long : s[Len(s)] = Blank}}

MCQueries == {[level |-> 0, words |-> "a"], [level |-> 0, words |-> "b"],
              [level |-> 2, words |-> "a"], [level |-> 2, words |-> "c"]}

MCPayloads == {Empty, Text(<<Plain("q")>>, FALSE), Text(<<Atx(2, "a"), Plain("q"), Blank>>, TRUE),
               Text(<<Fence, Atx(1, "a"), Fence>>, FALSE)}

Names == <<"x", "y", "z", "u", "v", "w">>
Kinds == {"context", "remove", "add"}
Every == UNION {[1..n -> {PatchLine(k, l) : k \in Kinds, l \in {"x", "y"}}] : n \in 1..MaxScript}

C(l) == PatchLine("context", l)
R(l) == PatchLine("remove", l)
A(l) == PatchLine("add", l)

Whole == {
  <<C("x"), R("y"), A("z"), C("x"), C("u"), C("v"), C("x"), R("x"), A("y"), C("w")>>,
  <<A("z"), C("x"), C("y"), C("u"), C("v"), R("w"), C("x"), C("x"), A("y")>>,
  <<C("u"), R("x"), C("y"), C("y"), A("w"), C("v")>>,
  <<C("u"), R("x"), A("z"), R("y"), A("w"), C("v")>>}

(* No two lines are alike.                                                 *)
Unlike == {[i \in 1..MaxUnlike |-> PatchLine(k[i], Names[i])] :
             k \in [1..MaxUnlike -> Kinds]}

MCScripts == Every \cup Unlike \cup Whole

-----------------------------------------------------------------------------
MCNumber == [k \in {"0", "00", "1"} |-> IF k = "1" THEN 1 ELSE 0]

S(v) == Scalar(v)
O(k, v) == Object(<<<<k, v>>>>)
O2(k, v, l, w) == Object(<<<<k, v>>, <<l, w>>>>)

MCDocs == {
  Null, S("s"), O("k", Null), O("k", S("s")), O2("k", S("s"), "l", S("t")),
  Object(<<<<"k", S("s")>>, <<"l", S("t")>>, <<"0", S("u")>>>>),
  O2("k", S("s"), "l", O2("k", S("t"), "l", S("u"))),
  O2("k", S("s"), "l", O2("k", S("s"), "l", S("u"))),
  O2("k", O2("k", S("s"), "l", S("t")), "l", O("k", S("u"))),
  O2("k", Array(<<S("s"), S("t"), S("v")>>), "l", Array(<<S("u")>>)),
  O("k", Array(<<O("k", S("s")), O2("k", S("t"), "l", S("u"))>>)),
  O("k", Array(<<Array(<<O("k", S("s")), O("k", S("t"))>>), O("l", S("u"))>>)),
  Array(<<S("s"), S("t"), S("u")>>),
  Array(<<O("k", S("s")), O("k", S("t")), O("l", S("u"))>>),
  Array(<<Array(<<S("s"), S("t")>>), Array(<<S("u"), S("v")>>)>>)}

Segments == {Key("k"), Key("l"), Key("0"), Index(0), Index(1)}

(* Those of up to two segments, the longer ones that find something, and   *)
(* some that spell an index with a zero too many.                          *)
Longer == {<<a, b, c>> : a, b, c \in Segments}
MCSelectors ==
  UNION {[1..n -> Segments] : n \in 0..2}
    \cup {sel \in Longer : \E d \in MCDocs : Nav(d, sel) # {}}
    \cup {<<Key("00")>>, <<Key("k"), Key("00"), Key("1"), Key("k")>>}

MCManySelectors == {
  <<Wildcard>>, <<Key("k"), Wildcard>>, <<Wildcard, Key("k")>>, <<Predicate("k", "s")>>,
  <<Key("k"), Predicate("k", "s")>>, <<Predicate("k", "s"), Key("l")>>,
  <<Predicate("k", "s"), Key("k")>>, <<Wildcard, Predicate("k", "s")>>,
  <<Predicate("k", "s"), Predicate("k", "s")>>, <<Predicate("k", "s"), Wildcard>>}

MCValues == {S("new"), Array(<<S("new")>>), O2("k", S("s"), "l", S("new"))}
MCOverlays == {S("new"), Object(<< >>), O("l", Array(<<S("new")>>)),
               O("k", O2("l", S("new"), "m", S("too")))}
=============================================================================
