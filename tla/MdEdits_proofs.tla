--------------------------- MODULE MdEdits_proofs ---------------------------
(***************************************************************************)
(* For any texts, queries and numbers of edits: the texts under edit stay  *)
(* texts, and an upsert or a dedupe that is done is not done again.        *)
(***************************************************************************)
EXTENDS TextEdits_proofs

(***************************************************************************)
(* Texts, their parts, and texts that are put together.                    *)
(***************************************************************************)
Proper(x) ==
  /\ x = Text(x.lines, x.eol) /\ x.eol \in BOOLEAN
  /\ x.lines \in Seq(ToSet(x.lines))
  /\ x.lines = << >> => x.eol

LEMMA ProperIs ==
  ASSUME NEW L, NEW ls \in Seq(L), NEW e \in BOOLEAN, ls = << >> => e
  PROVE  Proper(Text(ls, e)) /\ Text(ls, e).lines = ls /\ Text(ls, e).eol = e
<1>1. ls \in [1..Len(ls) -> ToSet(ls)] /\ Len(ls) \in Nat
  <2>1. ls \in [1..Len(ls) -> L] /\ DOMAIN ls = 1..Len(ls) /\ Len(ls) \in Nat
    BY LenProperties
  <2> QED
    BY <2>1 DEF ToSet
<1>2. ls \in Seq(ToSet(ls))
  BY <1>1
<1> QED
  BY <1>2 DEF Proper, Text

LEMMA ProperFacts ==
  ASSUME NEW x, Proper(x)
  PROVE  /\ Lines(x) \in Nat /\ Lines(x) = Len(x.lines) /\ DOMAIN x.lines = 1..Lines(x)
         /\ x.lines = << >> <=> Lines(x) = 0
         /\ x = Text(x.lines, x.eol) /\ x.eol \in BOOLEAN
         /\ x.lines \in Seq(ToSet(x.lines))
<1>1. x.lines \in Seq(ToSet(x.lines))
  BY DEF Proper
<1>2. x.lines = << >> <=> Len(x.lines) = 0
  BY <1>1, EmptySeq
<1> QED
  BY <1>1, <1>2, LenProperties DEF Proper, Lines

LEMMA EmptyIsProper ==
  Proper(Empty) /\ Lines(Empty) = 0 /\ Empty.lines = << >> /\ Empty.eol
<1>1. << >> \in Seq({}) /\ Len(<< >>) = 0
  BY EmptySeq
<1> QED
  BY <1>1, ProperIs DEF Empty, Lines

LEMMA SliceFacts ==
  ASSUME NEW x, Proper(x), NEW i \in 1..(Lines(x) + 1), NEW j \in 1..(Lines(x) + 1)
  PROVE  LET y == Slice(x, i, j)
         IN  /\ Proper(y) /\ Lines(y) = (IF i < j THEN j - i ELSE 0)
             /\ \A k \in 1..Lines(y) : y.lines[k] = x.lines[k + i - 1]
             /\ y.eol <=> i >= j \/ j <= Lines(x) \/ x.eol
<1> DEFINE ls == x.lines
           n == Lines(x)
           e == (j <= n \/ x.eol)
           p == SubSeq(ls, i, j - 1)
           y == Slice(x, i, j)
<1>1. /\ n \in Nat /\ n = Len(ls) /\ ls \in Seq(ToSet(ls)) /\ x.eol \in BOOLEAN
  BY ProperFacts
<1>2. CASE i >= j
  <2>1. y = Empty
    BY <1>2 DEF Slice
  <2> QED
    BY <1>1, <1>2, <2>1, EmptyIsProper
<1>3. CASE i < j
  <2> DEFINE L == ToSet(ls)
  <2>1. i \in 1..(Len(ls) + 1) /\ j - 1 \in (i-1)..Len(ls)
    BY <1>1, <1>3
  <2>2. ls \in Seq(L)
    BY <1>1
  <2> HIDE DEF L, ls
  <2>3. /\ p \in Seq(L) /\ Len(p) = (j - 1) - i + 1
        /\ \A m \in 1..((j - 1) - i + 1) : p[m] = ls[m + i - 1]
    BY <2>1, <2>2, PartOfScript
  <2>4. y = Text(p, e)
    BY <1>3 DEF Slice, ls
  <2> HIDE DEF p, e, y
  <2>5. Len(p) = j - i /\ Len(p) # 0
    BY <1>1, <1>3, <2>3
  <2>6. p # << >>
    BY <2>3, <2>5, EmptySeq
  <2>7. e \in BOOLEAN
    BY DEF e
  <2>8. Proper(Text(p, e)) /\ Text(p, e).lines = p /\ Text(p, e).eol = e
    BY <2>3, <2>6, <2>7, ProperIs
  <2>9. Lines(y) = j - i /\ y.lines = p /\ y.eol = e /\ Proper(y)
    BY <2>4, <2>5, <2>8 DEF Lines
  <2>10. \A k \in 1..Lines(y) : y.lines[k] = ls[k + i - 1]
    BY <1>1, <1>3, <2>3, <2>9
  <2>11. ~ (i >= j)
    BY <1>3
  <2>12. y.eol <=> i >= j \/ j <= Lines(x) \/ x.eol
    BY <2>9, <2>11, Zenon DEF e, n
  <2>13. y = Slice(x, i, j)
    BY DEF y
  <2> QED
    BY <1>3, <2>9, <2>10, <2>12, <2>13 DEF ls
<1> QED
  BY <1>1, <1>2, <1>3

(* A text that ends is gone on by another, line by line.                   *)
LEMMA CatOfEnded ==
  ASSUME NEW x, NEW y, Proper(x), Proper(y), x.eol
  PROVE  LET z == Cat(x, y)
         IN  /\ Proper(z) /\ Lines(z) = Lines(x) + Lines(y)
             /\ \A k \in 1..Lines(z) :
                  z.lines[k] = IF k <= Lines(x) THEN x.lines[k] ELSE y.lines[k - Lines(x)]
             /\ z.eol <=> y.eol
<1> DEFINE a == x.lines
           b == y.lines
           z == Cat(x, y)
<1>1. /\ Lines(x) \in Nat /\ Lines(x) = Len(a) /\ Lines(y) \in Nat /\ Lines(y) = Len(b)
      /\ a \in Seq(ToSet(a)) /\ b \in Seq(ToSet(b)) /\ y.eol \in BOOLEAN
      /\ b = << >> <=> Lines(y) = 0
      /\ x = Text(a, x.eol) /\ y = Text(b, y.eol)
  BY ProperFacts
<1>2. CASE b = << >>
  <2>1. z = x /\ y.eol
    BY <1>2 DEF Cat, Proper
  <2> QED
    BY <1>1, <1>2, <2>1
<1>3. CASE b # << >>
  <2> DEFINE L == ToSet(a) \cup ToSet(b)
             c == a \o b
  <2>1. a \in Seq(L) /\ b \in Seq(L)
    <3>1. ToSet(a) \subseteq L /\ ToSet(b) \subseteq L
      OBVIOUS
    <3> HIDE DEF L, a, b
    <3> QED
      BY <1>1, <3>1, SeqGrows
  <2>2. z = Text(c, y.eol)
    BY <1>3 DEF Cat
  <2> HIDE DEF L, a, b, z
  <2>3. /\ c \in Seq(L) /\ Len(c) = Len(a) + Len(b)
        /\ \A i \in 1..(Len(a) + Len(b)) : c[i] = IF i <= Len(a) THEN a[i] ELSE b[i - Len(a)]
    BY <2>1, ConcatProperties
  <2> HIDE DEF c
  <2>4. c # << >>
    BY <1>1, <1>3, <2>3, EmptySeq
  <2>5. Proper(Text(c, y.eol)) /\ Text(c, y.eol).lines = c /\ Text(c, y.eol).eol = y.eol
    BY <1>1, <2>3, <2>4, ProperIs
  <2> QED
    BY <1>1, <2>2, <2>3, <2>5 DEF Lines, a, b, z
<1> QED
  BY <1>2, <1>3

LEMMA CatIsProper ==
  ASSUME NEW x, NEW y, Proper(x), Proper(y)
  PROVE  Proper(Cat(x, y))
<1> DEFINE a == x.lines
           b == y.lines
<1>1. CASE x.eol \/ b = << >>
  BY <1>1, CatOfEnded DEF Cat
<1>2. CASE ~x.eol /\ b # << >>
  <2> DEFINE l == Plain(<<Last(a), Head(b)>>)
             L == ToSet(a) \cup ToSet(b) \cup {l}
             f == Front(a)
             m == <<l>>
             t == Tail(b)
  <2>1. a # << >> /\ a \in Seq(ToSet(a)) /\ b \in Seq(ToSet(b)) /\ y.eol \in BOOLEAN
    BY <1>2 DEF Proper
  <2>2. Cat(x, y) = Text((f \o m) \o t, y.eol)
    BY <1>2 DEF Cat
  <2>3. a \in Seq(L) /\ b \in Seq(L) /\ m \in Seq(L) /\ Len(m) = 1
    <3>1. ToSet(a) \subseteq L /\ ToSet(b) \subseteq L /\ l \in L
      OBVIOUS
    <3> HIDE DEF L, a, b, l
    <3> QED
      BY <2>1, <3>1, SeqGrows
  <2> HIDE DEF L, m, l, a, b
  <2>4. f \in Seq(L)
    <3>1. f = SubSeq(a, 1, Len(a) - 1)
      BY DEF f, Front
    <3>2. Len(a) \in Nat /\ Len(a) # 0
      BY <2>1, LenProperties, EmptySeq
    <3>3. 1 \in 1..(Len(a) + 1) /\ Len(a) - 1 \in (1-1)..Len(a)
      BY <3>2
    <3> QED
      BY <2>3, <3>1, <3>3, PartOfScript
  <2>5. t \in Seq(L)
    BY <1>2, <2>3, HeadTailProperties
  <2> HIDE DEF f, t
  <2>6. f \o m \in Seq(L) /\ Len(f \o m) = Len(f) + 1
    <3>1. m \in Seq(L) /\ Len(m) = 1
      BY <2>3
    <3>2. f \o m \in Seq(L) /\ Len(f \o m) = Len(f) + Len(m)
      BY <2>4, <3>1, ConcatProperties
    <3> QED
      BY <3>1, <3>2
  <2> DEFINE g == f \o m
  <2> HIDE DEF g
  <2>7. g \o t \in Seq(L) /\ Len(g \o t) = Len(f) + 1 + Len(t)
    <3>1. g \in Seq(L) /\ Len(g) = Len(f) + 1
      BY <2>6 DEF g
    <3>2. g \o t \in Seq(L) /\ Len(g \o t) = Len(g) + Len(t)
      BY <2>5, <3>1, ConcatProperties
    <3> QED
      BY <3>1, <3>2
  <2>8. g \o t # << >>
    BY <2>4, <2>5, <2>7, LenProperties, EmptySeq
  <2> DEFINE c == g \o t
  <2>9. c \in Seq(L) /\ c # << >>
    BY <2>7, <2>8
  <2> HIDE DEF c
  <2>10. Proper(Text(c, y.eol))
    BY <2>1, <2>9, ProperIs
  <2> QED
    BY <2>2, <2>10 DEF c, g
<1> QED
  BY <1>1, <1>2 DEF Proper

LEMMA EnsureEolFacts ==
  ASSUME NEW x, Proper(x)
  PROVE  /\ Proper(EnsureEol(x)) /\ EnsureEol(x).lines = x.lines /\ EnsureEol(x).eol
         /\ Lines(EnsureEol(x)) = Lines(x) /\ (x.eol => EnsureEol(x) = x)
<1>1. EnsureEol(x) = Text(x.lines, TRUE)
  <2>1. x = [lines |-> x.lines, eol |-> x.eol]
    BY DEF Proper, Text
  <2>2. \A v : [x EXCEPT !.eol = v] = [lines |-> x.lines, eol |-> v]
    BY <2>1
  <2> QED
    BY <2>2, Zenon DEF EnsureEol, Text
<1>2. Proper(Text(x.lines, TRUE)) /\ Text(x.lines, TRUE).lines = x.lines
  <2> DEFINE a == x.lines
             L == ToSet(a)
  <2>1. a \in Seq(L)
    BY DEF Proper
  <2> HIDE DEF a, L
  <2>2. Proper(Text(a, TRUE)) /\ Text(a, TRUE).lines = a
    BY <2>1, ProperIs
  <2> QED
    BY <2>2 DEF a
<1> QED
  BY <1>1, <1>2 DEF Text, Lines, Proper

LEMMA PushEolFacts ==
  ASSUME NEW x, Proper(x)
  PROVE  /\ Proper(PushEol(x)) /\ PushEol(x).eol
         /\ x.eol => /\ Lines(PushEol(x)) = Lines(x) + 1
                     /\ PushEol(x).lines[Lines(x) + 1] = Blank
                     /\ \A k \in 1..Lines(x) : PushEol(x).lines[k] = x.lines[k]
<1>1. CASE ~x.eol
  <2>1. PushEol(x) = EnsureEol(x)
    BY <1>1 DEF PushEol, EnsureEol
  <2> QED
    BY <1>1, <2>1, EnsureEolFacts
<1>2. CASE x.eol
  <2> DEFINE a == x.lines
             L == ToSet(a) \cup {Blank}
             b == Append(a, Blank)
  <2>1. PushEol(x) = Text(b, TRUE)
    BY <1>2 DEF PushEol
  <2>2. a \in Seq(L) /\ Blank \in L
    <3>1. ToSet(a) \subseteq L /\ a \in Seq(ToSet(a))
      BY DEF Proper
    <3> HIDE DEF L, a
    <3> QED
      BY <3>1, SeqGrows DEF L
  <2> HIDE DEF L, a
  <2>3. b \in Seq(L) /\ Len(b) = Len(a) + 1 /\ b[Len(a) + 1] = Blank
        /\ \A k \in 1..Len(a) : b[k] = a[k]
    BY <2>2, AppendProperties
  <2>4. Proper(Text(b, TRUE)) /\ Text(b, TRUE).lines = b /\ Text(b, TRUE).eol
    <3> HIDE DEF b
    <3> QED
      BY <2>3, ProperIs
  <2> QED
    BY <1>2, <2>1, <2>3, <2>4 DEF Lines, a
<1> QED
  BY <1>1, <1>2 DEF Proper

LEMMA EnsureBlankFacts ==
  ASSUME NEW x, Proper(x)
  PROVE  /\ Proper(EnsureBlank(x)) /\ EnsureBlank(x).eol
         /\ EnsureBlank(x) = x \/ EnsureBlank(x) = PushEol(x)
BY PushEolFacts DEF EnsureBlank, EndsBlank

-----------------------------------------------------------------------------
(***************************************************************************)
(* Where the parser is, and the headings it sees.                          *)
(***************************************************************************)
States == {"start", "frontmatter", "fence", "body"}

LEMMA AfterType ==
  ASSUME NEW at \in States, NEW l
  PROVE  After(at, l) \in States \ {"start"}
BY DEF After, States

LEMMA ScanSteps ==
  ASSUME NEW ls, Len(ls) \in Nat
  PROVE  /\ Scan(ls)[0] = "start"
         /\ \A i \in 1..Len(ls) : Scan(ls)[i] = After(Scan(ls)[i-1], ls[i])
         /\ \A i \in 0..Len(ls) : Scan(ls)[i] \in States
         /\ \A i \in 1..Len(ls) : Scan(ls)[i] # "start"
<1> DEFINE rec(f) == [i \in 0..Len(ls) |-> IF i = 0 THEN "start" ELSE After(f[i-1], ls[i])]
           at == CHOOSE f : f = rec(f)
           Up(f, n) == f[0] = "start" /\ \A i \in 1..n : f[i] = After(f[i-1], ls[i])
           S == {n \in Nat : \E f : Up(f, n)}
<1>1. 0 \in S
  <2>1. Up([i \in {0} |-> "start"], 0)
    OBVIOUS
  <2> QED
    BY <2>1
<1>2. ASSUME NEW n \in Nat, n \in S
      PROVE  n + 1 \in S
  <2>1. PICK f : Up(f, n)
    BY <1>2
  <2> DEFINE g == [i \in 0..(n+1) |-> IF i = n + 1 THEN After(f[n], ls[n+1]) ELSE f[i]]
  <2>2. g[0] = "start" /\ \A i \in 0..n : g[i] = f[i]
    BY <2>1
  <2>3. g[n+1] = After(f[n], ls[n+1])
    OBVIOUS
  <2>4. ASSUME NEW i \in 1..(n+1)
        PROVE  g[i] = After(g[i-1], ls[i])
    <3> HIDE DEF g
    <3>1. CASE i = n + 1
      <4>1. i - 1 = n /\ n \in 0..n
        BY <3>1
      <4> QED
        BY <2>2, <2>3, <3>1, <4>1
    <3>2. CASE i \in 1..n
      <4>1. i - 1 \in 0..n /\ i \in 0..n
        BY <3>2
      <4>2. f[i] = After(f[i-1], ls[i])
        BY <2>1, <3>2
      <4> QED
        BY <2>2, <4>1, <4>2
    <3> QED
      BY <3>1, <3>2
  <2> HIDE DEF g
  <2>5. Up(g, n + 1)
    BY <2>2, <2>4
  <2> HIDE DEF Up
  <2> QED
    BY <2>5
<1>3. Nat \subseteq S
  <2> HIDE DEF S
  <2> QED
    BY <1>1, <1>2, NumberInduction
<1>4. PICK f : Up(f, Len(ls))
  BY <1>3
<1> DEFINE h == [i \in 0..Len(ls) |-> f[i]]
<1>5. h = rec(h)
  <2>1. ASSUME NEW i \in 0..Len(ls)
        PROVE  h[i] = IF i = 0 THEN "start" ELSE After(h[i-1], ls[i])
    <3>1. i = 0 \/ (i \in 1..Len(ls) /\ i - 1 \in 0..Len(ls))
      OBVIOUS
    <3> QED
      BY <1>4, <3>1
  <2> HIDE DEF h
  <2>2. h = [i \in 0..Len(ls) |-> h[i]]
    BY DEF h
  <2> QED
    BY <2>1, <2>2
<1>6. at = rec(at)
  <2> HIDE DEF rec
  <2> QED
    BY <1>5
<1>7. Scan(ls) = at
  BY DEF Scan
<1> HIDE DEF at
<1>8. \A i \in 0..Len(ls) : at[i] = IF i = 0 THEN "start" ELSE After(at[i-1], ls[i])
  BY <1>6
<1> HIDE DEF rec
<1>9. \A i \in 1..Len(ls) : at[i] = After(at[i-1], ls[i])
  BY <1>8
<1> DEFINE T == {n \in Nat : n <= Len(ls) => at[n] \in States}
<1>10. 0 \in T /\ at[0] = "start"
  BY <1>8 DEF States
<1>11. ASSUME NEW n \in Nat, n \in T
       PROVE  n + 1 \in T
  <2> SUFFICES ASSUME n + 1 <= Len(ls)
               PROVE  at[n+1] \in States
    OBVIOUS
  <2>1. n + 1 \in 1..Len(ls) /\ (n + 1) - 1 = n
    OBVIOUS
  <2> QED
    BY <1>9, <1>11, <2>1, AfterType
<1>12. Nat \subseteq T
  <2> HIDE DEF T
  <2> QED
    BY <1>10, <1>11, NumberInduction
<1>13. \A i \in 0..Len(ls) : at[i] \in States
  BY <1>12
<1>14. ASSUME NEW i \in 1..Len(ls)
       PROVE  at[i] # "start"
  <2>1. i - 1 \in 0..Len(ls)
    OBVIOUS
  <2> QED
    BY <1>9, <1>13, <2>1, AfterType
<1> QED
  BY <1>7, <1>9, <1>10, <1>13, <1>14

(* Two texts are read alike as far as they are alike.                      *)
LEMMA ScanOfPrefix ==
  ASSUME NEW a, NEW b, Len(a) \in Nat, Len(b) \in Nat, NEW n \in 0..Len(a), n <= Len(b),
         \A i \in 1..n : a[i] = b[i]
  PROVE  \A i \in 0..n : Scan(a)[i] = Scan(b)[i]
<1> DEFINE S == {i \in Nat : i <= n => Scan(a)[i] = Scan(b)[i]}
<1>1. 0 \in S
  BY ScanSteps
<1>2. ASSUME NEW i \in Nat, i \in S
      PROVE  i + 1 \in S
  <2> SUFFICES ASSUME i + 1 <= n
               PROVE  Scan(a)[i+1] = Scan(b)[i+1]
    OBVIOUS
  <2>1. i + 1 \in 1..n /\ i + 1 \in 1..Len(a) /\ i + 1 \in 1..Len(b) /\ (i + 1) - 1 = i
    OBVIOUS
  <2>2. Scan(a)[i+1] = After(Scan(a)[i], a[i+1]) /\ Scan(b)[i+1] = After(Scan(b)[i], b[i+1])
    BY <2>1, ScanSteps
  <2> QED
    BY <1>2, <2>1, <2>2
<1>3. Nat \subseteq S
  <2> HIDE DEF S
  <2> QED
    BY <1>1, <1>2, NumberInduction
<1> QED
  BY <1>3

(* The lines that a heading begins on, and the heading.                    *)
HeadLines(ls) ==
  {j \in Visible(ls) : \/ ls[j].kind = "atx"
                       \/ /\ ls[j].kind = "plain"
                          /\ j + 1 \in Visible(ls) /\ ls[j+1].kind = "underline"}

Closers(ls, i) == {j \in HeadLines(ls) : j > i /\ HeadingAt(ls, j).level <= HeadingAt(ls, i).level}
EndAt(ls, i) == Min(Closers(ls, i) \cup {Len(ls) + 1})

HeadingOf(ls, i) ==
  [level |-> HeadingAt(ls, i).level, words |-> HeadingAt(ls, i).words, start |-> i,
   body |-> HeadingAt(ls, i).body, end |-> EndAt(ls, i)]

LEMMA StartOfHeadingAt ==
  ASSUME NEW ls, NEW i
  PROVE  /\ HeadingAt(ls, i).start = i
         /\ HeadingAt(ls, i).body = IF ls[i].kind = "atx" THEN i + 1 ELSE i + 2
BY DEF HeadingAt

LEMMA HeadingsAre ==
  ASSUME NEW x
  PROVE  Headings(x) = {HeadingOf(x.lines, i) : i \in HeadLines(x.lines)}
<1> DEFINE ls == x.lines
           H == HeadLines(ls)
           hs == {HeadingAt(ls, i) : i \in H}
           E(h) == {g.start : g \in {k \in hs : k.start > h.start /\ k.level <= h.level}}
                      \cup {Len(ls) + 1}
           R(h) == [level |-> h.level, words |-> h.words, start |-> h.start, body |-> h.body,
                    end |-> Min(E(h))]
<1>1. Headings(x) = {R(h) : h \in hs}
  BY DEF Headings, HeadLines
<1>2. ASSUME NEW i \in H
      PROVE  E(HeadingAt(ls, i)) = Closers(ls, i) \cup {Len(ls) + 1}
  <2> DEFINE P == HeadingAt(ls, i)
             K == {k \in hs : k.start > P.start /\ k.level <= P.level}
  <2>1. \A j \in H : HeadingAt(ls, j).start = j
    BY StartOfHeadingAt
  <2>2. P.start = i
    BY StartOfHeadingAt
  <2>3. ASSUME NEW j \in Closers(ls, i)
        PROVE  j \in {g.start : g \in K}
    <3>1. j \in H /\ j > i /\ HeadingAt(ls, j).level <= P.level
      BY DEF Closers
    <3>2. HeadingAt(ls, j) \in K /\ HeadingAt(ls, j).start = j
      BY <2>1, <2>2, <3>1
    <3> QED
      BY <3>2
  <2>4. ASSUME NEW g \in K
        PROVE  g.start \in Closers(ls, i)
    <3>1. PICK j \in H : g = HeadingAt(ls, j)
      OBVIOUS
    <3> QED
      BY <2>1, <2>2, <3>1 DEF Closers
  <2> HIDE DEF K
  <2>5. {g.start : g \in K} = Closers(ls, i)
    BY <2>3, <2>4
  <2>6. E(P) = {g.start : g \in K} \cup {Len(ls) + 1}
    BY DEF K
  <2> HIDE DEF E, P
  <2> QED
    BY <2>5, <2>6 DEF P
<1>3. ASSUME NEW i \in H
      PROVE  R(HeadingAt(ls, i)) = HeadingOf(ls, i)
  <2>1. HeadingAt(ls, i).start = i
    BY StartOfHeadingAt
  <2>2. Min(E(HeadingAt(ls, i))) = EndAt(ls, i)
    BY <1>2 DEF EndAt
  <2> HIDE DEF E
  <2> QED
    BY <2>1, <2>2 DEF HeadingOf
<1>4. {R(h) : h \in hs} = {R(HeadingAt(ls, i)) : i \in H}
  <2> HIDE DEF R, H
  <2> QED
    OBVIOUS
<1> HIDE DEF R
<1> QED
  BY <1>1, <1>3, <1>4

LEMMA VisibleFacts ==
  ASSUME NEW ls, Len(ls) \in Nat
  PROVE  /\ Visible(ls) \subseteq 1..Len(ls)
         /\ \A i \in 1..Len(ls) :
              i \in Visible(ls) <=> Scan(ls)[i] = "body" /\ Scan(ls)[i-1] \in {"start", "body"}
BY DEF Visible

LEMMA HeadLineFacts ==
  ASSUME NEW ls, Len(ls) \in Nat, NEW i \in HeadLines(ls)
  PROVE  /\ i \in 1..Len(ls) /\ i \in Visible(ls)
         /\ ls[i].kind \in {"atx", "plain"}
         /\ ls[i].kind = "plain" =>
              i + 1 \in Visible(ls) /\ i + 1 \in 1..Len(ls) /\ ls[i+1].kind = "underline"
         /\ HeadingAt(ls, i).body = IF ls[i].kind = "atx" THEN i + 1 ELSE i + 2
         /\ HeadingAt(ls, i).body \in (i+1)..(Len(ls) + 1)
         /\ EndAt(ls, i) \in HeadingAt(ls, i).body..(Len(ls) + 1)
         /\ EndAt(ls, i) \in HeadLines(ls) \/ EndAt(ls, i) = Len(ls) + 1
         /\ \A j \in Closers(ls, i) : EndAt(ls, i) <= j
<1> DEFINE n == Len(ls)
           body == HeadingAt(ls, i).body
           C == Closers(ls, i)
<1>1. \A j \in HeadLines(ls) : /\ j \in 1..n /\ j \in Visible(ls) /\ ls[j].kind \in {"atx", "plain"}
                               /\ ls[j].kind = "plain" =>
                                    j + 1 \in Visible(ls) /\ ls[j+1].kind = "underline"
  BY VisibleFacts DEF HeadLines
<1>2. ls[i].kind = "plain" => i + 1 \in 1..n
  BY <1>1, VisibleFacts
<1>3. body = IF ls[i].kind = "atx" THEN i + 1 ELSE i + 2
  BY StartOfHeadingAt
<1>10. i \in 1..n
  BY <1>1
<1> HIDE DEF body
<1>4. i \in 1..n /\ body \in (i+1)..(n+1)
  BY <1>1, <1>2, <1>3
<1>5. \A j \in C : j \in HeadLines(ls) /\ j \in body..n
  <2> SUFFICES ASSUME NEW j \in C
               PROVE  j \in HeadLines(ls) /\ j \in body..n
    OBVIOUS
  <2>1. j \in HeadLines(ls) /\ j > i /\ j \in 1..n
    BY <1>1 DEF Closers
  <2>2. body = i + 2 => j # i + 1
    <3>1. ls[i].kind = "plain" => j # i + 1
      BY <1>1, <2>1
    <3>2. body = i + 2 => ls[i].kind = "plain"
      BY <1>1, <1>3, <1>10
    <3> QED
      BY <3>1, <3>2
  <2> QED
    BY <1>1, <1>3, <1>4, <2>1, <2>2
<1>6. C \cup {n + 1} \in SUBSET Nat /\ C \cup {n + 1} # {}
  BY <1>4, <1>5
<1> DEFINE T == C \cup {n + 1}
<1>7. Min(T) \in T /\ \A j \in T : Min(T) <= j
  <2> HIDE DEF T
  <2> QED
    BY <1>6, MinOf DEF T
<1>8. EndAt(ls, i) = Min(T)
  BY DEF EndAt
<1> HIDE DEF C
<1>9. /\ EndAt(ls, i) \in body..(n+1)
      /\ EndAt(ls, i) \in HeadLines(ls) \/ EndAt(ls, i) = n + 1
      /\ \A j \in C : EndAt(ls, i) <= j
  <2> DEFINE m == EndAt(ls, i)
  <2>1. m \in C \cup {n + 1} /\ \A j \in C : m <= j
    BY <1>7, <1>8, Zenon
  <2> HIDE DEF m
  <2>2. m \in body..(n+1) /\ (m \in HeadLines(ls) \/ m = n + 1)
    BY <1>4, <1>5, <2>1
  <2> QED
    BY <1>4, <1>5, <2>1, <2>2 DEF m
<1> QED
  BY <1>1, <1>2, <1>3, <1>4, <1>9 DEF body, C

LEMMA HeadingOfFacts ==
  ASSUME NEW ls, NEW i
  PROVE  LET h == HeadingOf(ls, i)
         IN  /\ h.start = i /\ h.body = HeadingAt(ls, i).body /\ h.end = EndAt(ls, i)
             /\ h.level = HeadingAt(ls, i).level /\ h.words = HeadingAt(ls, i).words
BY DEF HeadingOf

(* What every line that starts a heading is, and where its body starts.    *)
LEMMA HeadKinds ==
  ASSUME NEW ls, Len(ls) \in Nat
  PROVE  \A i \in HeadLines(ls) :
           /\ i \in 1..Len(ls) /\ i \in Visible(ls)
           /\ ls[i].kind \in {"atx", "plain"}
           /\ ls[i].kind = "plain" => i + 1 \in Visible(ls) /\ ls[i+1].kind = "underline"
           /\ HeadingAt(ls, i).body = IF ls[i].kind = "atx" THEN i + 1 ELSE i + 2
<1> SUFFICES ASSUME NEW i \in HeadLines(ls)
             PROVE  /\ i \in 1..Len(ls) /\ i \in Visible(ls)
                    /\ ls[i].kind \in {"atx", "plain"}
                    /\ ls[i].kind = "plain" => i + 1 \in Visible(ls) /\ ls[i+1].kind = "underline"
                    /\ HeadingAt(ls, i).body = IF ls[i].kind = "atx" THEN i + 1 ELSE i + 2
  OBVIOUS
<1> QED
  BY HeadLineFacts

(* The headings of a text, by their lines.                                 *)
LEMMA HeadingFacts ==
  ASSUME NEW x, Proper(x)
  PROVE  /\ IsFiniteSet(Headings(x))
         /\ \A i \in HeadLines(x.lines) : HeadingOf(x.lines, i) \in Headings(x)
         /\ \A h \in Headings(x) :
              /\ h.start \in HeadLines(x.lines) /\ h = HeadingOf(x.lines, h.start)
              /\ h.start \in 1..Lines(x) /\ h.body \in (h.start + 1)..(Lines(x) + 1)
              /\ h.end \in h.body..(Lines(x) + 1)
<1> DEFINE ls == x.lines
           H == HeadLines(ls)
           f == [i \in H |-> HeadingOf(ls, i)]
<1>1. Len(ls) \in Nat /\ Lines(x) = Len(ls)
  BY ProperFacts
<1>2. Headings(x) = {HeadingOf(ls, i) : i \in H}
  BY HeadingsAre
<1>3. \A i \in H : i \in 1..Len(ls)
  BY <1>1, HeadLineFacts
<1>4. IsFiniteSet(H)
  <2>1. H \in SUBSET Nat /\ \A i \in H : i <= Len(ls)
    BY <1>1, <1>3
  <2> HIDE DEF H
  <2> QED
    BY <1>1, <2>1, FS_BoundedSetOfNaturals
<1>5. f \in Surjection(H, Headings(x))
  <2> HIDE DEF H
  <2>1. f \in [H -> Headings(x)]
    BY <1>2
  <2>2. \A h \in Headings(x) : \E i \in H : f[i] = h
    BY <1>2
  <2> QED
    BY <2>1, <2>2 DEF Surjection
<1>6. IsFiniteSet(Headings(x))
  BY <1>4, <1>5, FS_Surjection
<1>7. ASSUME NEW h \in Headings(x)
      PROVE  /\ h.start \in H /\ h = HeadingOf(ls, h.start)
             /\ h.start \in 1..Lines(x) /\ h.body \in (h.start + 1)..(Lines(x) + 1)
             /\ h.end \in h.body..(Lines(x) + 1)
  <2>1. PICK i \in H : h = HeadingOf(ls, i)
    BY <1>2
  <2>2. h.start = i /\ h.body = HeadingAt(ls, i).body /\ h.end = EndAt(ls, i)
    BY <2>1, HeadingOfFacts
  <2>3. /\ i \in 1..Len(ls) /\ HeadingAt(ls, i).body \in (i+1)..(Len(ls) + 1)
        /\ EndAt(ls, i) \in HeadingAt(ls, i).body..(Len(ls) + 1)
    BY <1>1, HeadLineFacts
  <2> QED
    BY <1>1, <2>1, <2>2, <2>3
<1> QED
  BY <1>2, <1>6, <1>7

(* The one heading that a query names.                                     *)
LEMMA SectionFacts ==
  ASSUME NEW x, Proper(x), NEW q, IsUnique(x, q)
  PROVE  LET h == Section(x, q)
         IN  /\ h \in Headings(x) /\ h \in Matches(x, q) /\ Matches(x, q) = {h}
             /\ h.start \in HeadLines(x.lines) /\ h = HeadingOf(x.lines, h.start)
             /\ Lines(x) \in Nat
             /\ h.start \in 1..Lines(x) /\ h.body \in (h.start + 1)..(Lines(x) + 1)
             /\ h.end \in h.body..(Lines(x) + 1)
             /\ h.start \in 1..(Lines(x) + 1) /\ h.body \in 1..(Lines(x) + 1)
             /\ h.end \in 1..(Lines(x) + 1)
             /\ 1 \in 1..(Lines(x) + 1) /\ Lines(x) + 1 \in 1..(Lines(x) + 1)
<1> DEFINE M == Matches(x, q)
           h == Section(x, q)
<1>1. M \in SUBSET Headings(x) /\ IsFiniteSet(Headings(x))
  BY HeadingFacts DEF Matches
<1>2. IsFiniteSet(M) /\ Cardinality(M) = 1
  <2> HIDE DEF M
  <2> QED
    BY <1>1, FS_Subset DEF IsUnique, M
<1>3. PICK g : M = {g}
  <2> HIDE DEF M
  <2> QED
    BY <1>2, FS_Singleton
<1>4. h \in M
  BY <1>3 DEF Section
<1>5. h \in Headings(x) /\ M = {h}
  BY <1>1, <1>3, <1>4
<1> HIDE DEF h
<1>6. /\ h.start \in HeadLines(x.lines) /\ h = HeadingOf(x.lines, h.start)
      /\ h.start \in 1..Lines(x) /\ h.body \in (h.start + 1)..(Lines(x) + 1)
      /\ h.end \in h.body..(Lines(x) + 1)
  BY <1>5, HeadingFacts
<1>7. Lines(x) \in Nat
  BY ProperFacts
<1>8. /\ h.start \in 1..(Lines(x) + 1) /\ h.body \in 1..(Lines(x) + 1)
      /\ h.end \in 1..(Lines(x) + 1)
      /\ 1 \in 1..(Lines(x) + 1) /\ Lines(x) + 1 \in 1..(Lines(x) + 1)
  BY <1>6, <1>7
<1> QED
  BY <1>4, <1>5, <1>6, <1>7, <1>8 DEF h

-----------------------------------------------------------------------------
(***************************************************************************)
(* Upsert.  The bullet goes below the heading and above the headings       *)
(* nested in its section, and so it is found by the next upsert.           *)
(***************************************************************************)
LEMMA DirectEndFacts ==
  ASSUME NEW x, Proper(x), NEW h \in Headings(x)
  PROVE  /\ DirectEnd(x, h) \in h.body..h.end
         /\ \A j \in HeadLines(x.lines) : j > h.start => DirectEnd(x, h) <= j
<1> DEFINE ls == x.lines
           N == {g \in Headings(x) : g.start > h.start /\ g.start < h.end}
           T == {g.start : g \in N}
           d == DirectEnd(x, h)
<1>1. Lines(x) \in Nat /\ Lines(x) = Len(ls)
  BY ProperFacts
<1>2. /\ h.start \in HeadLines(ls) /\ h.start \in 1..Lines(x)
      /\ h.body \in (h.start + 1)..(Lines(x) + 1) /\ h.end \in h.body..(Lines(x) + 1)
      /\ h = HeadingOf(ls, h.start)
  BY HeadingFacts
<1>3. \A j \in HeadLines(ls) : j > h.start => j >= h.body
  <2> SUFFICES ASSUME NEW j \in HeadLines(ls), j > h.start
               PROVE  j >= h.body
    OBVIOUS
  <2>1. j \in 1..Len(ls) /\ ls[j].kind \in {"atx", "plain"}
    BY <1>1, HeadKinds
  <2>2. h.body = HeadingAt(ls, h.start).body
    BY <1>2, HeadingOfFacts
  <2>3. /\ h.body = h.start + 1 \/ h.body = h.start + 2
        /\ h.body = h.start + 2 => ls[h.start + 1].kind = "underline"
    <3>1. /\ h.body = (IF ls[h.start].kind = "atx" THEN h.start + 1 ELSE h.start + 2)
          /\ ls[h.start].kind \in {"atx", "plain"}
          /\ ls[h.start].kind = "plain" => ls[h.start + 1].kind = "underline"
      BY <1>1, <1>2, <2>2, HeadKinds
    <3> QED
      BY <1>2, <3>1
  <2>4. j # h.start + 1 \/ h.body = h.start + 1
    BY <2>1, <2>3
  <2> QED
    BY <1>2, <2>1, <2>3, <2>4
<1>4. \A g \in Headings(x) : g.start \in HeadLines(ls) /\ g.start \in 1..Lines(x)
  BY HeadingFacts
<1>5. \A j \in HeadLines(ls) : /\ j \in 1..Len(ls)
                               /\ \E g \in Headings(x) : g.start = j
  <2> SUFFICES ASSUME NEW j \in HeadLines(ls)
               PROVE  j \in 1..Len(ls) /\ \E g \in Headings(x) : g.start = j
    OBVIOUS
  <2>1. HeadingOf(ls, j) \in Headings(x) /\ HeadingOf(ls, j).start = j
    BY HeadingFacts, HeadingOfFacts
  <2>2. j \in 1..Len(ls)
    BY <1>1, HeadLineFacts
  <2> QED
    BY <2>1, <2>2
<1>6. CASE N = {}
  <2>1. d = h.end
    BY <1>6 DEF DirectEnd
  <2>2. ASSUME NEW j \in HeadLines(ls), j > h.start
        PROVE  h.end <= j
    <3>1. PICK g \in Headings(x) : g.start = j
      BY <1>5
    <3>2. ~ (j < h.end)
      BY <1>6, <2>2, <3>1
    <3> QED
      BY <1>1, <1>2, <1>5, <2>2, <3>2
  <2> QED
    BY <1>1, <1>2, <2>1, <2>2
<1>7. CASE N # {}
  <2>1. d = Min(T)
    BY <1>7 DEF DirectEnd
  <2>2. T \in SUBSET Nat /\ T # {} /\ \A j \in T : j > h.start /\ j < h.end /\ j \in HeadLines(ls)
    BY <1>4, <1>7
  <2>3. ASSUME NEW j \in HeadLines(ls), j > h.start, j < h.end
        PROVE  j \in T
    <3>1. PICK g \in Headings(x) : g.start = j
      BY <1>5
    <3> QED
      BY <2>3, <3>1
  <2> HIDE DEF T
  <2>4. Min(T) \in T /\ \A j \in T : Min(T) <= j
    BY <2>2, MinOf
  <2> HIDE DEF d
  <2>5. d \in h.body..h.end
    <3>1. d \in HeadLines(ls) /\ d > h.start /\ d < h.end
      BY <2>1, <2>2, <2>4
    <3>2. d >= h.body /\ d \in 1..Len(ls)
      BY <1>3, <1>5, <3>1
    <3> QED
      BY <1>1, <1>2, <3>1, <3>2
  <2>6. ASSUME NEW j \in HeadLines(ls), j > h.start
        PROVE  d <= j
    <3>1. CASE j < h.end
      BY <2>1, <2>3, <2>4, <2>6, <3>1
    <3>2. CASE ~ (j < h.end)
      BY <1>1, <1>2, <1>5, <2>5, <3>2
    <3> QED
      BY <3>1, <3>2
  <2> QED
    BY <2>5, <2>6 DEF d
<1> QED
  BY <1>6, <1>7

(* What an upsert puts where: below the last line of the heading's own     *)
(* that is not blank.                                                      *)
LEMMA UpsertPuts ==
  ASSUME NEW x, Proper(x), NEW q, IsUnique(x, q), NEW t
  PROVE  LET h == Section(x, q)
             y == Upsert(x, q, t)
         IN  /\ Proper(y)
             /\ SaysIt(x, h, t) => y = x
             /\ ~SaysIt(x, h, t) =>
                  \E at \in h.body..DirectEnd(x, h) :
                    /\ at <= Lines(y) /\ y.lines[at] = Bullet(t)
                    /\ \A k \in 1..(at - 1) : y.lines[k] = x.lines[k]
<1> DEFINE h == Section(x, q)
           y == Upsert(x, q, t)
           d == DirectEnd(x, h)
           own == OwnLines(x, h)
           full == {i \in own : x.lines[i] # Blank}
           at == IF full # {} THEN Max(full) + 1 ELSE IF own # {} THEN h.body + 1 ELSE h.body
           bullet == Text(<<Bullet(t)>>, TRUE)
           put == Cat(EnsureEol(Slice(x, 1, at)), bullet)
           rest == Slice(x, at, Lines(x) + 1)
           more == rest # Empty /\ Head(rest.lines).kind = "atx"
           up == IF more THEN EnsureBlank(put) ELSE put
<1>1. /\ h \in Headings(x) /\ Lines(x) \in Nat
      /\ h.body \in 1..(Lines(x) + 1) /\ h.end \in h.body..(Lines(x) + 1)
      /\ 1 \in 1..(Lines(x) + 1) /\ Lines(x) + 1 \in 1..(Lines(x) + 1)
  BY SectionFacts
<1> HIDE DEF h
<1>2. d \in h.body..h.end
  BY <1>1, DirectEndFacts
<1>3. own = h.body..(d - 1)
  BY DEF OwnLines
<1> HIDE DEF d, own
<1>4. at \in h.body..d
  <2>1. CASE full # {}
    <3>4. d \in Nat /\ h.body \in Nat /\ h.body <= d
      BY <1>1, <1>2
    <3>1. full \in SUBSET Nat /\ \A i \in full : i <= d /\ i \in h.body..(d-1)
      BY <1>3, <3>4
    <3>5. full # {}
      BY <2>1
    <3> HIDE DEF full
    <3>2. Max(full) \in full
      BY <3>1, <3>4, <3>5, MaxOf
    <3>3. at = Max(full) + 1
      BY <2>1
    <3>6. Max(full) \in h.body..(d-1)
      BY <3>1, <3>2
    <3> QED
      BY <3>3, <3>4, <3>6
  <2>2. CASE full = {} /\ own # {}
    <3>1. at = h.body + 1
      BY <2>2
    <3>2. h.body <= d - 1
      BY <1>1, <1>2, <1>3, <2>2
    <3> QED
      BY <1>1, <1>2, <3>1, <3>2
  <2>3. CASE full = {} /\ own = {}
    <3>1. at = h.body
      BY <2>3
    <3> QED
      BY <1>1, <1>2, <3>1
  <2> QED
    BY <2>1, <2>2, <2>3
<1>5. y = IF SaysIt(x, h, t) THEN x ELSE Cat(up, rest)
  BY DEF Upsert, h, own
<1> HIDE DEF at
<1>6. at \in 1..(Lines(x) + 1)
  BY <1>1, <1>2, <1>4
<1> DEFINE top == Slice(x, 1, at)
<1>7. /\ Proper(top) /\ Lines(top) = at - 1 /\ \A k \in 1..(at - 1) : top.lines[k] = x.lines[k]
  <2>1. Proper(top) /\ Lines(top) = IF 1 < at THEN at - 1 ELSE 0
    BY <1>1, <1>6, SliceFacts
  <2>2. \A k \in 1..Lines(top) : top.lines[k] = x.lines[k + 1 - 1]
    BY <1>1, <1>6, SliceFacts
  <2> HIDE DEF top
  <2>3. Lines(top) = at - 1
    BY <1>6, <2>1
  <2>4. ASSUME NEW k \in 1..(at - 1)
        PROVE  top.lines[k] = x.lines[k]
    <3>1. k + 1 - 1 = k /\ k \in 1..Lines(top)
      BY <1>6, <2>3
    <3> QED
      BY <2>2, <3>1
  <2> QED
    BY <2>1, <2>3, <2>4
<1>8. Proper(rest)
  BY <1>1, <1>6, SliceFacts
<1>9. Proper(bullet) /\ Lines(bullet) = 1 /\ bullet.lines[1] = Bullet(t) /\ bullet.eol
  <2> DEFINE b == <<Bullet(t)>>
             L == {Bullet(t)}
  <2>1. b \in Seq(L) /\ Len(b) = 1 /\ b[1] = Bullet(t) /\ b # << >>
    OBVIOUS
  <2> HIDE DEF b, L
  <2>2. Proper(Text(b, TRUE)) /\ Text(b, TRUE).lines = b /\ Text(b, TRUE).eol
    BY <2>1, ProperIs
  <2> QED
    BY <2>1, <2>2 DEF b, Lines
<1> HIDE DEF top, bullet, rest
<1>10. /\ Proper(put) /\ put.eol /\ Lines(put) = at /\ put.lines[at] = Bullet(t)
       /\ \A k \in 1..(at - 1) : put.lines[k] = x.lines[k]
  <2> DEFINE a == EnsureEol(top)
  <2>1. Proper(a) /\ a.lines = top.lines /\ a.eol /\ Lines(a) = at - 1
    BY <1>7, EnsureEolFacts
  <2>2. put = Cat(a, bullet)
    BY DEF top
  <2> HIDE DEF a, put
  <2>3. /\ Proper(put) /\ Lines(put) = (at - 1) + 1 /\ put.eol
        /\ \A k \in 1..Lines(put) :
             put.lines[k] = IF k <= at - 1 THEN a.lines[k] ELSE bullet.lines[k - (at - 1)]
    BY <1>9, <2>1, <2>2, CatOfEnded
  <2>4. Lines(put) = at
    BY <1>6, <2>3
  <2>5. put.lines[at] = Bullet(t)
    <3>1. at \in 1..Lines(put) /\ ~ (at <= at - 1) /\ at - (at - 1) = 1
      BY <1>6, <2>4
    <3> QED
      BY <1>9, <2>3, <3>1
  <2>6. \A k \in 1..(at - 1) : put.lines[k] = x.lines[k]
    BY <1>6, <1>7, <2>1, <2>3, <2>4
  <2> QED
    BY <2>3, <2>4, <2>5, <2>6
<1> HIDE DEF put
<1>11. /\ Proper(up) /\ up.eol /\ Lines(up) \in Nat /\ at <= Lines(up) /\ up.lines[at] = Bullet(t)
       /\ \A k \in 1..(at - 1) : up.lines[k] = x.lines[k]
  <2>1. CASE up = put
    BY <1>6, <1>10, <2>1
  <2>2. CASE up = PushEol(put)
    <3>1. /\ Proper(up) /\ up.eol /\ Lines(up) = at + 1
          /\ \A k \in 1..at : up.lines[k] = put.lines[k]
      BY <1>10, <2>2, PushEolFacts
    <3> QED
      BY <1>6, <1>10, <3>1
  <2>3. EnsureBlank(put) = put \/ EnsureBlank(put) = PushEol(put)
    BY <1>10, EnsureBlankFacts
  <2> HIDE DEF more
  <2> QED
    BY <2>1, <2>2, <2>3
<1> HIDE DEF up
<1> DEFINE z == Cat(up, rest)
<1>12. /\ Proper(z) /\ at <= Lines(z) /\ z.lines[at] = Bullet(t)
       /\ \A k \in 1..(at - 1) : z.lines[k] = x.lines[k]
  <2>1. /\ Proper(z) /\ Lines(z) = Lines(up) + Lines(rest)
        /\ \A k \in 1..Lines(z) :
             z.lines[k] = IF k <= Lines(up) THEN up.lines[k] ELSE rest.lines[k - Lines(up)]
    BY <1>8, <1>11, CatOfEnded
  <2>2. Lines(rest) \in Nat
    BY <1>8, ProperFacts
  <2> HIDE DEF z
  <2>3. \A k \in 1..at : z.lines[k] = up.lines[k]
    BY <1>6, <1>11, <2>1, <2>2
  <2> QED
    BY <1>6, <1>11, <2>1, <2>2, <2>3
<1> HIDE DEF z, y
<1>13. Proper(y) /\ (SaysIt(x, h, t) => y = x) /\ (~SaysIt(x, h, t) => y = z)
  BY <1>5, <1>12 DEF z
<1> QED
  BY <1>4, <1>12, <1>13 DEF y, h, d

LEMMA UpsertSettles ==
  ASSUME NEW x, Proper(x), NEW q, IsUnique(x, q), NEW t, IsUnique(Upsert(x, q, t), q)
  PROVE  Upsert(Upsert(x, q, t), q, t) = Upsert(x, q, t)
<1> DEFINE y == Upsert(x, q, t)
           h == Section(x, q)
           g == Section(y, q)
           a == x.lines
           b == y.lines
           i == h.start
<1>1. /\ Proper(y)
      /\ SaysIt(x, h, t) => y = x
      /\ ~SaysIt(x, h, t) =>
           \E at \in h.body..DirectEnd(x, h) :
             /\ at <= Lines(y) /\ b[at] = Bullet(t)
             /\ \A k \in 1..(at - 1) : b[k] = a[k]
  BY UpsertPuts, SMTT(30)
<1>2. CASE SaysIt(x, h, t)
  <2>1. y = x
    BY <1>1, <1>2
  <2> QED
    BY <2>1
<1>3. CASE ~SaysIt(x, h, t)
  <2>0. \E at \in h.body..DirectEnd(x, h) :
          /\ at <= Lines(y) /\ b[at] = Bullet(t)
          /\ \A k \in 1..(at - 1) : b[k] = a[k]
    BY <1>1, <1>3
  <2>1. PICK at \in h.body..DirectEnd(x, h) :
          /\ at <= Lines(y) /\ b[at] = Bullet(t)
          /\ \A k \in 1..(at - 1) : b[k] = a[k]
    BY <2>0, Zenon
  <2> HIDE DEF y
  <2>2. /\ h \in Headings(x) /\ h \in Matches(x, q) /\ i \in HeadLines(a)
        /\ h = HeadingOf(a, i) /\ Lines(x) \in Nat /\ i \in 1..Lines(x)
        /\ h.body \in (i + 1)..(Lines(x) + 1) /\ h.end \in h.body..(Lines(x) + 1)
    BY SectionFacts
  <2>3. /\ DirectEnd(x, h) \in h.body..h.end
        /\ \A j \in HeadLines(a) : j > i => DirectEnd(x, h) <= j
    BY <2>2, DirectEndFacts
  <2>4. /\ Matches(y, q) = {g} /\ g \in Headings(y)
    BY <1>1, SectionFacts DEF y
  <2>5. Len(a) \in Nat /\ Len(b) \in Nat /\ Lines(x) = Len(a) /\ Lines(y) = Len(b)
    BY <1>1, ProperFacts
  <2> HIDE DEF h, g, a, b
  <2>6. at \in 2..Len(b) /\ at <= Len(a) + 1 /\ at - 1 \in 0..Len(a) /\ at - 1 <= Len(b)
    BY <2>1, <2>2, <2>3, <2>5
  <2>7. \A k \in 0..(at - 1) : Scan(b)[k] = Scan(a)[k]
    <3>1. at - 1 \in 0..Len(a) /\ at - 1 \in 0..Len(b)
      BY <2>5, <2>6
    <3>2. \A k \in 1..(at - 1) : b[k] = a[k]
      BY <2>1
    <3> QED
      BY <2>5, <2>6, <3>1, <3>2, ScanOfPrefix
  <2>8. ASSUME NEW k \in 1..(at - 1)
        PROVE  b[k] = a[k] /\ (k \in Visible(b) <=> k \in Visible(a))
    <3>1. /\ k \in 1..Len(a) /\ k \in 1..Len(b) /\ k - 1 \in 0..(at - 1) /\ k \in 0..(at - 1)
      BY <2>6
    <3>2. b[k] = a[k]
      BY <2>1
    <3>3. Scan(b)[k] = Scan(a)[k] /\ Scan(b)[k-1] = Scan(a)[k-1]
      BY <2>7, <3>1
    <3>4. /\ k \in Visible(a) <=> Scan(a)[k] = "body" /\ Scan(a)[k-1] \in {"start", "body"}
          /\ k \in Visible(b) <=> Scan(b)[k] = "body" /\ Scan(b)[k-1] \in {"start", "body"}
      <4>1. \A j \in 1..Len(a) :
              j \in Visible(a) <=> Scan(a)[j] = "body" /\ Scan(a)[j-1] \in {"start", "body"}
        BY <2>5, VisibleFacts
      <4>2. \A j \in 1..Len(b) :
              j \in Visible(b) <=> Scan(b)[j] = "body" /\ Scan(b)[j-1] \in {"start", "body"}
        BY <2>5, VisibleFacts
      <4> QED
        BY <3>1, <4>1, <4>2
    <3> QED
      BY <3>2, <3>3, <3>4
  <2>9. i \in HeadLines(b) /\ HeadingAt(b, i) = HeadingAt(a, i) /\ i < at
    <3>1. /\ i \in 1..Len(a) /\ i \in Visible(a) /\ a[i].kind \in {"atx", "plain"}
          /\ a[i].kind = "plain" => i + 1 \in Visible(a) /\ a[i+1].kind = "underline"
          /\ HeadingAt(a, i).body = IF a[i].kind = "atx" THEN i + 1 ELSE i + 2
      <4>1. \A j \in HeadLines(a) :
              /\ j \in 1..Len(a) /\ j \in Visible(a)
              /\ a[j].kind \in {"atx", "plain"}
              /\ a[j].kind = "plain" => j + 1 \in Visible(a) /\ a[j+1].kind = "underline"
              /\ HeadingAt(a, j).body = IF a[j].kind = "atx" THEN j + 1 ELSE j + 2
        BY <2>5, HeadKinds
      <4>2. i \in HeadLines(a)
        BY <2>2
      <4> HIDE DEF i
      <4> QED
        BY <4>1, <4>2
    <3>2. h.body = HeadingAt(a, i).body
      BY <2>2, HeadingOfFacts
    <3>3. h.body <= at /\ i + 1 <= h.body
      BY <2>2, <2>6
    <3>4. i \in 1..(at - 1) /\ (a[i].kind = "plain" => i + 1 \in 1..(at - 1))
      BY <2>2, <2>6, <3>1, <3>2, <3>3
    <3>5. b[i] = a[i] /\ i \in Visible(b)
      BY <2>8, <3>1, <3>4
    <3>6. a[i].kind = "plain" => b[i+1] = a[i+1] /\ i + 1 \in Visible(b)
      BY <2>8, <3>1, <3>4
    <3>7. i \in HeadLines(b)
      BY <3>1, <3>5, <3>6 DEF HeadLines
    <3>8. HeadingAt(b, i) = HeadingAt(a, i)
      BY <3>1, <3>5, <3>6 DEF HeadingAt
    <3> QED
      BY <2>6, <3>4, <3>7, <3>8
  <2>10. ASSUME NEW j \in HeadLines(b), j > i
         PROVE  j > at
    <3>9. j \in 1..Len(b)
      BY <2>5, HeadLineFacts
    <3> SUFFICES ASSUME j <= at
                 PROVE  FALSE
      BY <2>6, <3>9
    <3>1. /\ j \in 1..Len(b) /\ j \in Visible(b) /\ b[j].kind \in {"atx", "plain"}
          /\ b[j].kind = "plain" => j + 1 \in Visible(b) /\ b[j+1].kind = "underline"
      BY <2>5, HeadLineFacts
    <3>2. b[at].kind = "bullet"
      BY <2>1 DEF Bullet, Line
    <3>3. j \in 1..(at - 1)
      BY <2>6, <3>1, <3>2
    <3>4. a[j] = b[j] /\ j \in Visible(a)
      BY <2>8, <3>1, <3>3
    <3>5. b[j].kind = "plain" => j + 1 \in Visible(a) /\ a[j+1] = b[j+1]
      <4>1. b[j].kind = "plain" => j + 1 # at
        BY <3>1, <3>2
      <4>2. b[j].kind = "plain" => j + 1 \in 1..(at - 1)
        BY <2>6, <3>3, <4>1
      <4> QED
        BY <2>8, <3>1, <4>2
    <3>6. j \in HeadLines(a)
      BY <3>1, <3>4, <3>5 DEF HeadLines
    <3>7. DirectEnd(x, h) <= j /\ DirectEnd(x, h) \in h.body..h.end /\ at <= DirectEnd(x, h)
      BY <2>1, <2>3, <2>10, <3>6
    <3> QED
      BY <2>2, <2>6, <3>3, <3>7
  <2>11. g = HeadingOf(b, i)
    <3>1. HeadingOf(b, i) \in Headings(y)
      BY <1>1, <2>9, HeadingFacts DEF b
    <3>2. /\ HeadingOf(b, i).words = HeadingOf(a, i).words
          /\ HeadingOf(b, i).level = HeadingOf(a, i).level
      BY <2>9, HeadingOfFacts
    <3>3. h.words = q.words /\ q.level \in {0, h.level}
      BY <2>2 DEF Matches
    <3>4. HeadingOf(b, i) \in Matches(y, q)
      BY <2>2, <3>1, <3>2, <3>3 DEF Matches
    <3> QED
      BY <2>4, <3>4
  <2>12. g.start = i /\ g.body = h.body
    BY <2>2, <2>9, <2>11, HeadingOfFacts
  <2>13. /\ DirectEnd(y, g) \in g.body..g.end /\ g.end \in HeadLines(b) \cup {Len(b) + 1}
         /\ g.end > i
    <3>1. DirectEnd(y, g) \in g.body..g.end
      BY <1>1, <2>4, DirectEndFacts
    <3>2. g.end = EndAt(b, i)
      BY <2>11, HeadingOfFacts
    <3>3. /\ HeadingAt(b, i).body \in (i+1)..(Len(b) + 1)
          /\ EndAt(b, i) \in HeadingAt(b, i).body..(Len(b) + 1)
          /\ EndAt(b, i) \in HeadLines(b) \/ EndAt(b, i) = Len(b) + 1
      BY <2>5, <2>9, HeadLineFacts
    <3> QED
      BY <2>2, <2>5, <3>1, <3>2, <3>3
  <2>14. DirectEnd(y, g) > at
    <3> DEFINE N == {k \in Headings(y) : k.start > g.start /\ k.start < g.end}
               T == {k.start : k \in N}
    <3>1. g.end > at
      BY <2>5, <2>6, <2>10, <2>13
    <3>2. CASE N = {}
      BY <3>1, <3>2 DEF DirectEnd
    <3>3. CASE N # {}
      <4>1. DirectEnd(y, g) = Min(T)
        BY <3>3 DEF DirectEnd
      <4>2. \A k \in Headings(y) : k.start \in HeadLines(b) /\ k.start \in 1..Lines(y)
        BY <1>1, HeadingFacts DEF b
      <4>3. T \in SUBSET Nat /\ T # {} /\ \A j \in T : j \in HeadLines(b) /\ j > i
        BY <2>12, <3>3, <4>2
      <4> HIDE DEF T
      <4>4. Min(T) \in T
        BY <4>3, MinOf
      <4> QED
        BY <2>10, <4>1, <4>3, <4>4
    <3> QED
      BY <3>2, <3>3
  <2>15. at \in OwnLines(y, g)
    <3>1. /\ at \in Nat /\ g.body <= at /\ g.body \in Nat /\ DirectEnd(y, g) \in Int
      <4>1. g.body \in Nat /\ at \in Nat /\ g.body <= at
        BY <2>2, <2>6, <2>12
      <4>3. \A k \in HeadLines(b) : k \in 1..Len(b)
        BY <2>5, HeadLineFacts
      <4>2. g.end \in Int
        BY <2>5, <2>13, <4>3
      <4> QED
        BY <2>13, <4>1, <4>2
    <3> QED
      BY <2>14, <3>1 DEF OwnLines
  <2>16. SaysIt(y, g, t)
    BY <2>1, <2>15 DEF SaysIt, b
  <2> QED
    BY <2>16 DEF Upsert, g, y
<1> QED
  BY <1>2, <1>3

-----------------------------------------------------------------------------
(***************************************************************************)
(* Dedupe.  What goes begins with a heading and goes on to a heading, so   *)
(* the lines that stay are read as they were; and of headings that stay no *)
(* two are alike.                                                          *)
(***************************************************************************)
Gone(x) == UNION {h.start..(h.end - 1) : h \in Again(x)}
Stays(x) == InOrder((1..Lines(x)) \ Gone(x))

LEMMA StaysFacts ==
  ASSUME NEW x, Proper(x)
  PROVE  LET f == Stays(x)
             K == (1..Lines(x)) \ Gone(x)
         IN  /\ f \in Seq(K) /\ Len(f) \in Nat /\ \A i \in 1..Len(f) : f[i] \in K
             /\ \A i, j \in 1..Len(f) : i < j => f[i] < f[j]
             /\ \A k \in K : \E i \in 1..Len(f) : f[i] = k
             /\ Dedupe(x) = IF f = << >> THEN Empty
                            ELSE Text([i \in 1..Len(f) |-> x.lines[f[i]]],
                                      Lines(x) \in Gone(x) \/ x.eol)
<1> DEFINE f == Stays(x)
           K == (1..Lines(x)) \ Gone(x)
<1>1. Lines(x) \in Nat
  BY ProperFacts
<1>2. K \in SUBSET Nat /\ IsFiniteSet(K)
  <2>1. IsFiniteSet(1..Lines(x)) /\ K \in SUBSET (1..Lines(x))
    BY <1>1, FS_Interval
  <2>2. 1..Lines(x) \subseteq Nat
    BY <1>1
  <2> HIDE DEF K
  <2> QED
    BY <2>1, <2>2, FS_Subset
<1>3. /\ f \in Seq(K)
      /\ \A i, j \in 1..Len(f) : i < j => f[i] < f[j]
      /\ \A k \in K : \E i \in 1..Len(f) : f[i] = k
  <2>1. f = InOrder(K)
    BY DEF Stays
  <2> HIDE DEF f, K
  <2> QED
    BY <1>2, <2>1, InOrderEnumerates
<1>4. Len(f) \in Nat /\ \A i \in 1..Len(f) : f[i] \in K
  <2> HIDE DEF f, K
  <2> QED
    BY <1>3, LenProperties, ElementOfSeq
<1>5. Dedupe(x) = IF f = << >> THEN Empty
                  ELSE Text([i \in 1..Len(f) |-> x.lines[f[i]]], Lines(x) \in Gone(x) \/ x.eol)
  BY DEF Dedupe, Stays, Gone
<1> QED
  BY <1>3, <1>4, <1>5

LEMMA DedupeIsProper ==
  ASSUME NEW x, Proper(x)
  PROVE  /\ Proper(Dedupe(x))
         /\ Lines(Dedupe(x)) = Len(Stays(x))
         /\ \A i \in 1..Len(Stays(x)) : Dedupe(x).lines[i] = x.lines[Stays(x)[i]]
<1> DEFINE f == Stays(x)
           b == [i \in 1..Len(f) |-> x.lines[f[i]]]
           K == (1..Lines(x)) \ Gone(x)
           e == (Lines(x) \in Gone(x) \/ x.eol)
<1>1. /\ f \in Seq(K) /\ Len(f) \in Nat /\ \A i \in 1..Len(f) : f[i] \in K
      /\ Dedupe(x) = IF f = << >> THEN Empty ELSE Text(b, e)
  BY StaysFacts
<1>2. /\ DOMAIN x.lines = 1..Lines(x) /\ x.eol \in BOOLEAN
  BY ProperFacts
<1>3. \A i \in 1..Len(f) : x.lines[f[i]] \in ToSet(x.lines)
  BY <1>1, <1>2 DEF ToSet
<1> HIDE DEF f
<1>4. CASE f = << >>
  <2>1. Len(f) = 0
    BY <1>4
  <2> QED
    BY <1>1, <1>4, <2>1, EmptyIsProper DEF f
<1>5. CASE f # << >>
  <2>1. Len(f) # 0
    BY <1>1, <1>5, EmptySeq
  <2> DEFINE L == ToSet(x.lines)
  <2>2. b \in Seq(L) /\ Len(b) = Len(f) /\ \A i \in 1..Len(f) : b[i] = x.lines[f[i]]
    <3> HIDE DEF L
    <3> QED
      BY <1>1, <1>3 DEF L
  <2>3. e \in BOOLEAN
    BY <1>2
  <2> HIDE DEF b, e, L
  <2>4. b # << >>
    BY <1>1, <2>1, <2>2, EmptySeq
  <2>5. Proper(Text(b, e)) /\ Text(b, e).lines = b
    BY <2>2, <2>3, <2>4, ProperIs
  <2>6. Dedupe(x) = Text(b, e)
    BY <1>1, <1>5
  <2> QED
    BY <2>2, <2>5, <2>6 DEF Lines, f
<1> QED
  BY <1>4, <1>5

(* Where something that goes begins or ends there is a heading.            *)
LEMMA GapsAreHeadings ==
  ASSUME NEW x, Proper(x), NEW k \in 1..Lines(x)
  PROVE  /\ k \in Gone(x) /\ k - 1 \notin Gone(x) => k \in HeadLines(x.lines)
         /\ k \notin Gone(x) /\ k - 1 \in Gone(x) => k \in HeadLines(x.lines)
<1> DEFINE ls == x.lines
<1>1. Len(ls) \in Nat /\ Lines(x) = Len(ls)
  BY ProperFacts
<1>2. \A h \in Again(x) :
        /\ h.start \in HeadLines(ls) /\ h.start \in 1..Lines(x)
        /\ h.end \in HeadLines(ls) \/ h.end = Lines(x) + 1
        /\ h.end \in Int
        /\ h.start..(h.end - 1) \subseteq Gone(x)
  <2> SUFFICES ASSUME NEW h \in Again(x)
               PROVE  /\ h.start \in HeadLines(ls) /\ h.start \in 1..Lines(x)
                      /\ h.end \in HeadLines(ls) \/ h.end = Lines(x) + 1
                      /\ h.end \in Int
                      /\ h.start..(h.end - 1) \subseteq Gone(x)
    OBVIOUS
  <2>1. h \in Headings(x)
    BY DEF Again
  <2>2. /\ h.start \in HeadLines(ls) /\ h.start \in 1..Lines(x) /\ h = HeadingOf(ls, h.start)
        /\ h.body \in (h.start + 1)..(Lines(x) + 1) /\ h.end \in h.body..(Lines(x) + 1)
    BY <2>1, HeadingFacts
  <2>3. h.end = EndAt(ls, h.start)
    BY <2>2, HeadingOfFacts
  <2>4. h.end \in HeadLines(ls) \/ h.end = Lines(x) + 1
    BY <1>1, <2>2, <2>3, HeadLineFacts
  <2>5. h.start..(h.end - 1) \subseteq Gone(x)
    BY DEF Gone
  <2>6. h.end \in Int
    BY <1>1, <2>2
  <2> QED
    BY <2>2, <2>4, <2>5, <2>6
<1>3. \A j \in Gone(x) : \E h \in Again(x) : j \in h.start..(h.end - 1)
  BY DEF Gone
<1>4. ASSUME k \in Gone(x), k - 1 \notin Gone(x)
      PROVE  k \in HeadLines(ls)
  <2>1. PICK h \in Again(x) : k \in h.start..(h.end - 1)
    BY <1>3, <1>4
  <2>2. k - 1 \notin h.start..(h.end - 1)
    BY <1>2, <1>4
  <2>3. k = h.start
    BY <1>1, <1>2, <2>1, <2>2
  <2> QED
    BY <1>2, <2>3
<1>5. ASSUME k \notin Gone(x), k - 1 \in Gone(x)
      PROVE  k \in HeadLines(ls)
  <2>1. PICK h \in Again(x) : k - 1 \in h.start..(h.end - 1)
    BY <1>3, <1>5
  <2>2. k \notin h.start..(h.end - 1)
    BY <1>2, <1>5
  <2>3. k = h.end
    BY <1>1, <1>2, <2>1, <2>2
  <2>4. k # Lines(x) + 1
    BY <1>1
  <2> QED
    BY <1>2, <2>3, <2>4
<1> QED
  BY <1>4, <1>5

(* A heading begins where the parser reads the text as such, and so it     *)
(* does after it.                                                          *)
LEMMA AfterHeading ==
  ASSUME NEW at \in {"start", "body"}, NEW l, l.kind \in {"atx", "plain"}
  PROVE  After(at, l) = "body"
<1>1. Fence.kind = "fence" /\ Underline(2).kind = "underline"
  BY DEF Fence, Underline, Line
<1>2. l # Fence /\ l # Underline(2)
  BY <1>1
<1> QED
  BY <1>2 DEF After

LEMMA DedupeReads ==
  ASSUME NEW x, Proper(x), NEW b, Len(b) = Len(Stays(x)),
         \A i \in 1..Len(b) : b[i] = x.lines[Stays(x)[i]]
  PROVE  \A i \in 1..Len(b) :
           /\ Scan(b)[i] = Scan(x.lines)[Stays(x)[i]]
           /\ i \in Visible(b) <=> Stays(x)[i] \in Visible(x.lines)
<1> DEFINE a == x.lines
           n == Lines(x)
           f == Stays(x)
           m == Len(b)
           G == Gone(x)
<1>1. /\ n \in Nat /\ Len(a) = n /\ m \in Nat /\ Len(b) = m
  BY ProperFacts, StaysFacts
<1>2. /\ \A i \in 1..m : f[i] \in 1..n /\ f[i] \notin G
      /\ \A i, j \in 1..m : i < j => f[i] < f[j]
      /\ \A k \in 1..n : k \notin G => \E i \in 1..m : f[i] = k
  <2> DEFINE K == (1..n) \ G
  <2>1. /\ \A i \in 1..Len(f) : f[i] \in K
        /\ \A i, j \in 1..Len(f) : i < j => f[i] < f[j]
        /\ \A k \in K : \E i \in 1..Len(f) : f[i] = k
    BY StaysFacts
  <2>2. m = Len(f)
    OBVIOUS
  <2> HIDE DEF f, n, G, m
  <2> QED
    BY <2>1, <2>2
<1>3. \A i \in 1..m : b[i] = a[f[i]]
  OBVIOUS
<1>4. \A k \in 1..n : /\ k \in G /\ k - 1 \notin G => k \in HeadLines(a)
                      /\ k \notin G /\ k - 1 \in G => k \in HeadLines(a)
  BY GapsAreHeadings
<1>5. 0 \notin G
  <2>1. \A h \in Again(x) : h.start \in 1..n
    BY HeadingFacts DEF Again
  <2>2. \A h \in Again(x) : 0 \notin h.start..(h.end - 1)
    BY <1>1, <2>1
  <2> QED
    BY <2>2 DEF Gone
<1>6. /\ Scan(a)[0] = "start" /\ Scan(b)[0] = "start"
      /\ \A i \in 1..n : Scan(a)[i] = After(Scan(a)[i-1], a[i])
      /\ \A i \in 1..m : Scan(b)[i] = After(Scan(b)[i-1], b[i])
  BY <1>1, ScanSteps
<1>7. \A k \in HeadLines(a) : /\ k \in 1..n /\ a[k].kind \in {"atx", "plain"}
                              /\ Scan(a)[k] = "body" /\ Scan(a)[k-1] \in {"start", "body"}
  <2> SUFFICES ASSUME NEW k \in HeadLines(a)
               PROVE  /\ k \in 1..n /\ a[k].kind \in {"atx", "plain"}
                      /\ Scan(a)[k] = "body" /\ Scan(a)[k-1] \in {"start", "body"}
    OBVIOUS
  <2> HIDE DEF a
  <2>1. k \in 1..n /\ k \in Visible(a) /\ a[k].kind \in {"atx", "plain"}
    BY <1>1, HeadLineFacts
  <2> QED
    BY <1>1, <2>1, VisibleFacts
<1> HIDE DEF a, n, f, m, G
(* Either the line before stays, and is before it still, or there is a gap. *)
<1>8. ASSUME NEW i \in 1..m
      PROVE  \/ f[i] = 1 /\ i = 1
             \/ i > 1 /\ f[i] = f[i-1] + 1
             \/ f[i] > 1 /\ f[i] - 1 \in G
  <2>1. f[i] \in 1..n /\ f[i] \notin G
    BY <1>2
  <2>2. CASE f[i] = 1
    <3>1. ~ (1 < i)
      <4> SUFFICES ASSUME 1 < i
                   PROVE  FALSE
        OBVIOUS
      <4>1. 1 \in 1..m
        BY <1>1
      <4>2. f[1] < f[i] /\ f[1] \in 1..n
        BY <1>2, <4>1
      <4> QED
        BY <2>2, <4>2
    <3> QED
      BY <1>1, <2>2, <3>1
  <2>3. CASE f[i] > 1 /\ f[i] - 1 \notin G
    <3>1. f[i] - 1 \in 1..n
      BY <1>1, <2>1, <2>3
    <3>2. PICK j \in 1..m : f[j] = f[i] - 1
      BY <1>2, <2>3, <3>1
    <3>3. j < i
      <4>1. ~ (i < j)
        BY <1>2, <2>1, <3>2
      <4>2. i # j
        BY <2>1, <3>2
      <4> QED
        BY <1>1, <4>1, <4>2
    <3>4. ~ (j < i - 1)
      <4> SUFFICES ASSUME j < i - 1
                   PROVE  FALSE
        OBVIOUS
      <4>1. i - 1 \in 1..m /\ i - 1 < i
        BY <1>1, <3>3
      <4>2. f[j] < f[i-1] /\ f[i-1] < f[i] /\ f[i-1] \in 1..n
        BY <1>2, <4>1
      <4> QED
        BY <2>1, <3>2, <4>2
    <3>5. j = i - 1 /\ i > 1
      BY <1>1, <3>3, <3>4
    <3>6. f[i-1] = f[i] - 1 /\ f[i] \in Int
      BY <1>1, <2>1, <3>2, <3>5
    <3> QED
      BY <3>5, <3>6
  <2> QED
    BY <1>1, <2>1, <2>2, <2>3
<1> DEFINE Ready(i) == Scan(b)[i] = Scan(a)[f[i]]
(* At a gap the parser is in the body before it and after it.              *)
<1>9. ASSUME NEW i \in 1..m, i = 1 \/ Ready(i - 1), f[i] > 1, f[i] - 1 \in G
      PROVE  /\ Scan(b)[i-1] \in {"start", "body"} /\ Ready(i) /\ f[i] \in HeadLines(a)
  <2>1. f[i] \in 1..n /\ f[i] \notin G
    BY <1>2
  <2>2. f[i] \in HeadLines(a)
    BY <1>4, <1>9, <2>1
  <2>3. /\ a[f[i]].kind \in {"atx", "plain"} /\ Scan(a)[f[i]] = "body"
    BY <1>7, <2>2
  <2>4. Scan(b)[i-1] \in {"start", "body"}
    <3>1. CASE i = 1
      <4>1. i - 1 = 0
        BY <3>1
      <4> QED
        BY <1>6, <4>1
    <3>2. CASE i # 1
      <4>1. i - 1 \in 1..m /\ i - 1 < i
        BY <1>1, <3>2
      <4>2. f[i-1] \in 1..n /\ f[i-1] \notin G /\ f[i-1] < f[i]
        BY <1>2, <4>1
      <4>3. f[i-1] + 1 \in 1..n
        BY <1>1, <2>1, <4>2
      <4>4. f[i-1] + 1 \in G
        <5> SUFFICES ASSUME f[i-1] + 1 \notin G
                     PROVE  FALSE
          OBVIOUS
        <5>1. PICK j \in 1..m : f[j] = f[i-1] + 1
          BY <1>2, <4>3
        <5>2. f[j] # f[i]
          BY <1>9, <2>1, <4>2, <5>1
        <5>3. f[j] < f[i] /\ f[i-1] < f[j]
          BY <2>1, <4>2, <5>1, <5>2
        <5>4. ~ (j < i - 1) /\ ~ (i < j) /\ j # i /\ j # i - 1
          <6>1. j < i - 1 => f[j] < f[i-1]
            BY <1>2, <4>1
          <6>2. i < j => f[i] < f[j]
            BY <1>2
          <6>3. f[j] \in 1..n
            BY <1>2
          <6> QED
            BY <2>1, <4>2, <5>3, <6>1, <6>2, <6>3
        <5> QED
          BY <1>1, <5>4
      <4>5. (f[i-1] + 1) - 1 = f[i-1]
        BY <4>2
      <4>6. f[i-1] + 1 \in HeadLines(a)
        BY <1>4, <4>2, <4>3, <4>4, <4>5
      <4>7. Scan(a)[f[i-1]] \in {"start", "body"}
        BY <1>7, <4>5, <4>6
      <4> QED
        BY <1>9, <3>2, <4>7
    <3> QED
      BY <3>1, <3>2
  <2>5. Scan(b)[i] = "body"
    <3>1. Scan(b)[i] = After(Scan(b)[i-1], b[i])
      BY <1>6
    <3>2. b[i].kind \in {"atx", "plain"}
      BY <1>3, <2>3
    <3> QED
      BY <2>4, <3>1, <3>2, AfterHeading
  <2> QED
    BY <2>2, <2>3, <2>4, <2>5
<1> DEFINE S == {i \in Nat : i \in 1..m => Ready(i)}
<1>10. ASSUME NEW i \in 1..m, i = 1 \/ Ready(i - 1)
       PROVE  /\ Ready(i)
              /\ Scan(b)[i-1] \in {"start", "body"} /\ Scan(b)[i] = "body"
                   <=> Scan(a)[f[i]-1] \in {"start", "body"} /\ Scan(a)[f[i]] = "body"
  <2>1. f[i] \in 1..n /\ Scan(a)[f[i]] = After(Scan(a)[f[i]-1], a[f[i]])
        /\ Scan(b)[i] = After(Scan(b)[i-1], a[f[i]])
    BY <1>2, <1>3, <1>6
  <2>2. CASE f[i] = 1 /\ i = 1
    <3>1. f[i] - 1 = 0 /\ i - 1 = 0
      BY <2>2
    <3> QED
      BY <1>6, <2>1, <3>1
  <2>3. CASE i > 1 /\ f[i] = f[i-1] + 1
    <3>1. i - 1 \in 1..m
      BY <1>1, <2>3
    <3>2. f[i-1] \in 1..n
      BY <1>2, <3>1
    <3>3. f[i] - 1 = f[i-1]
      BY <2>3, <3>2
    <3>4. Scan(b)[i-1] = Scan(a)[f[i]-1]
      BY <1>10, <2>3, <3>3
    <3> QED
      BY <2>1, <3>4
  <2>4. CASE f[i] > 1 /\ f[i] - 1 \in G
    <3>1. Scan(b)[i-1] \in {"start", "body"} /\ Ready(i) /\ f[i] \in HeadLines(a)
      BY <1>9, <1>10, <2>4
    <3>2. Scan(a)[f[i]] = "body" /\ Scan(a)[f[i]-1] \in {"start", "body"}
      BY <1>7, <3>1
    <3> QED
      BY <3>1, <3>2
  <2> QED
    BY <1>8, <2>2, <2>3, <2>4
<1>11. 0 \in S
  OBVIOUS
<1>12. ASSUME NEW i \in Nat, i \in S
       PROVE  i + 1 \in S
  <2> SUFFICES ASSUME i + 1 \in 1..m
               PROVE  Ready(i + 1)
    OBVIOUS
  <2>1. (i + 1) - 1 = i /\ (i + 1 = 1 \/ i \in 1..m)
    BY <1>1
  <2>2. i + 1 = 1 \/ Ready((i + 1) - 1)
    BY <1>12, <2>1
  <2> HIDE DEF Ready
  <2> QED
    BY <1>10, <2>2
<1>13. Nat \subseteq S
  <2> HIDE DEF S
  <2> QED
    BY <1>11, <1>12, NumberInduction
<1>14. \A i \in 1..m : Ready(i)
  BY <1>1, <1>13
<1>15. ASSUME NEW i \in 1..m
       PROVE  i \in Visible(b) <=> f[i] \in Visible(a)
  <2>1. i = 1 \/ Ready(i - 1)
    <3>1. i = 1 \/ i - 1 \in 1..m
      BY <1>1
    <3> QED
      BY <1>14, <3>1
  <2>2. f[i] \in 1..n
    BY <1>2
  <2>3. i \in Visible(b) <=> Scan(b)[i] = "body" /\ Scan(b)[i-1] \in {"start", "body"}
    BY <1>1, VisibleFacts
  <2>4. f[i] \in Visible(a) <=> Scan(a)[f[i]] = "body" /\ Scan(a)[f[i]-1] \in {"start", "body"}
    BY <1>1, <2>2, VisibleFacts
  <2> QED
    BY <1>10, <2>1, <2>3, <2>4
<1> QED
  BY <1>14, <1>15 DEF m, f, a

LEMMA AllInOrder ==
  ASSUME NEW m \in Nat, NEW f, Len(f) \in Nat,
         \A i \in 1..Len(f) : f[i] \in 1..m,
         \A i, j \in 1..Len(f) : i < j => f[i] < f[j],
         \A k \in 1..m : \E i \in 1..Len(f) : f[i] = k
  PROVE  Len(f) = m /\ \A i \in 1..m : f[i] = i
<1> DEFINE n == Len(f)
           S == {k \in Nat : \A i \in 1..n : i <= k => f[i] = i}
<1> HIDE DEF n
<1>1. 0 \in S
  BY DEF n
<1>2. ASSUME NEW k \in Nat, k \in S
      PROVE  k + 1 \in S
  <2> SUFFICES ASSUME k + 1 \in 1..n
               PROVE  f[k+1] = k + 1
    BY <1>2 DEF n
  <2>1. f[k+1] \in 1..m
    BY DEF n
  <2>2. \A i \in 1..n : i <= k => f[i] = i
    BY <1>2
  <2>3. f[k+1] >= k + 1
    <3>1. CASE k = 0
      BY <2>1, <3>1
    <3>2. CASE k # 0
      <4>1. k \in 1..n /\ k < k + 1
        BY <3>2 DEF n
      <4>2. f[k] = k /\ f[k] < f[k+1]
        BY <2>2, <4>1 DEF n
      <4> QED
        BY <2>1, <4>2
    <3> QED
      BY <3>1, <3>2
  <2>4. ~ (f[k+1] > k + 1)
    <3> SUFFICES ASSUME f[k+1] > k + 1
                 PROVE  FALSE
      OBVIOUS
    <3>1. k + 1 \in 1..m
      BY <2>1
    <3>2. PICK j \in 1..n : f[j] = k + 1
      BY <3>1 DEF n
    <3>3. j # k + 1 /\ ~ (j <= k)
      BY <2>1, <2>2, <3>2
    <3>4. k + 1 < j
      BY <3>3
    <3>5. f[k+1] < f[j]
      BY <3>4 DEF n
    <3> QED
      BY <2>1, <3>2, <3>5
  <2> QED
    BY <2>1, <2>3, <2>4
<1>3. Nat \subseteq S
  <2> HIDE DEF S
  <2> QED
    BY <1>1, <1>2, NumberInduction
<1>4. n \in Nat
  BY DEF n
<1>5. \A i \in 1..n : f[i] = i
  BY <1>3, <1>4
<1>6. n = m
  <2>1. n <= m
    <3>1. CASE n = 0
      BY <3>1
    <3>2. CASE n # 0
      <4>1. n \in 1..n
        BY <1>4, <3>2
      <4>2. f[n] = n /\ f[n] \in 1..m
        BY <1>5, <4>1 DEF n
      <4> QED
        BY <4>2
    <3> QED
      BY <3>1, <3>2
  <2>2. ~ (n < m)
    <3> SUFFICES ASSUME n < m
                 PROVE  FALSE
      OBVIOUS
    <3>1. m \in 1..m
      BY <1>4
    <3>2. PICK j \in 1..n : f[j] = m
      BY <3>1 DEF n
    <3> QED
      BY <1>4, <1>5, <3>2
  <2> QED
    BY <1>4, <2>1, <2>2
<1> QED
  BY <1>5, <1>6 DEF n

LEMMA DedupeKeepsHeadings ==
  ASSUME NEW x, Proper(x), NEW b, Len(b) = Len(Stays(x)),
         \A i \in 1..Len(b) : b[i] = x.lines[Stays(x)[i]],
         NEW i \in HeadLines(b)
  PROVE  /\ i \in 1..Len(b) /\ Stays(x)[i] \in HeadLines(x.lines)
         /\ HeadingAt(b, i).level = HeadingAt(x.lines, Stays(x)[i]).level
         /\ HeadingAt(b, i).words = HeadingAt(x.lines, Stays(x)[i]).words
<1> DEFINE a == x.lines
           n == Lines(x)
           f == Stays(x)
           m == Len(b)
           G == Gone(x)
<1>1. /\ n \in Nat /\ Len(a) = n /\ m \in Nat /\ m = Len(f)
  BY ProperFacts, StaysFacts
<1>2. /\ \A k \in 1..m : f[k] \in 1..n /\ f[k] \notin G
      /\ \A k, j \in 1..m : k < j => f[k] < f[j]
      /\ \A k \in 1..n : k \notin G => \E j \in 1..m : f[j] = k
  <2> DEFINE K == (1..n) \ G
  <2>1. /\ \A k \in 1..Len(f) : f[k] \in K
        /\ \A k, j \in 1..Len(f) : k < j => f[k] < f[j]
        /\ \A k \in K : \E j \in 1..Len(f) : f[j] = k
    BY StaysFacts
  <2> HIDE DEF f, n, G, m
  <2> QED
    BY <1>1, <2>1
<1>3. \A k \in 1..m : b[k] = a[f[k]] /\ (k \in Visible(b) <=> f[k] \in Visible(a))
  BY DedupeReads
<1>4. \A k \in 1..n : k \notin G /\ k - 1 \in G => k \in HeadLines(a)
  BY GapsAreHeadings
<1>5. /\ i \in 1..m /\ i \in Visible(b) /\ b[i].kind \in {"atx", "plain"}
      /\ b[i].kind = "plain" =>
           i + 1 \in Visible(b) /\ i + 1 \in 1..m /\ b[i+1].kind = "underline"
  <2> HIDE DEF a
  <2> QED
    BY <1>1, HeadLineFacts DEF m
<1>6. \A k \in HeadLines(a) : a[k].kind \in {"atx", "plain"}
  <2> HIDE DEF a
  <2> QED
    BY <1>1, HeadLineFacts
<1> HIDE DEF a, n, f, m, G
<1>7. b[i] = a[f[i]] /\ f[i] \in Visible(a) /\ f[i] \in 1..n /\ f[i] \notin G
  BY <1>2, <1>3, <1>5
<1>8. ASSUME b[i].kind = "plain"
      PROVE  /\ f[i] + 1 \in Visible(a) /\ a[f[i] + 1] = b[i+1]
             /\ a[f[i] + 1].kind = "underline"
  <2>1. /\ i + 1 \in 1..m /\ b[i+1].kind = "underline" /\ i + 1 \in Visible(b)
        /\ b[i+1] = a[f[i+1]] /\ f[i+1] \in Visible(a)
        /\ f[i+1] \in 1..n /\ f[i+1] \notin G /\ f[i] < f[i+1]
    <3>1. i + 1 \in 1..m /\ i < i + 1
      BY <1>1, <1>5, <1>8
    <3> QED
      BY <1>2, <1>3, <1>5, <1>8, <3>1
  <2>2. f[i+1] - 1 \notin G
    <3>1. f[i+1] \notin HeadLines(a)
      BY <1>6, <2>1
    <3> QED
      BY <1>4, <2>1, <3>1
  <2>3. f[i+1] - 1 \in 1..n
    BY <1>1, <1>7, <2>1
  <2>4. PICK j \in 1..m : f[j] = f[i+1] - 1
    BY <1>2, <2>2, <2>3
  <2>5. ~ (i + 1 < j) /\ j # i + 1
    <3>1. i + 1 < j => f[i+1] < f[j]
      BY <1>2, <2>1
    <3> QED
      BY <1>1, <2>1, <2>4, <3>1
  <2>6. ~ (j < i)
    <3>1. j < i => f[j] < f[i]
      BY <1>2, <1>5
    <3> QED
      BY <1>1, <1>7, <2>1, <2>4, <3>1
  <2>7. j = i
    BY <1>1, <1>5, <2>5, <2>6
  <2>8. f[i] + 1 = f[i+1]
    BY <1>1, <1>7, <2>1, <2>4, <2>7
  <2> QED
    BY <2>1, <2>8
<1>9. f[i] \in HeadLines(a)
  BY <1>5, <1>7, <1>8 DEF HeadLines
<1>10. /\ HeadingAt(b, i).level = HeadingAt(a, f[i]).level
       /\ HeadingAt(b, i).words = HeadingAt(a, f[i]).words
  <2>1. CASE b[i].kind = "atx"
    BY <1>7, <2>1 DEF HeadingAt
  <2>2. CASE b[i].kind = "plain"
    <3>1. a[f[i] + 1] = b[i+1]
      BY <1>8, <2>2
    <3> QED
      BY <1>7, <2>2, <3>1 DEF HeadingAt
  <2> QED
    BY <1>5, <2>1, <2>2
<1> QED
  BY <1>5, <1>9, <1>10 DEF m, a, f

LEMMA NothingAgain ==
  ASSUME NEW x, Proper(x)
  PROVE  Again(Dedupe(x)) = {}
<1> DEFINE y == Dedupe(x)
           a == x.lines
           b == y.lines
           f == Stays(x)
<1>1. /\ Proper(y) /\ Lines(y) = Len(f)
      /\ \A i \in 1..Len(f) : b[i] = a[f[i]]
  BY DedupeIsProper
<1>2. Len(b) = Len(f)
  BY <1>1, ProperFacts
<1> HIDE DEF y
<1> SUFFICES ASSUME NEW h \in Again(y)
             PROVE  FALSE
  BY DEF y
<1>3. PICK g \in Headings(y) : g.start < h.start /\ g.level = h.level /\ g.words = h.words
  BY DEF Again
<1>4. /\ h.start \in HeadLines(b) /\ h = HeadingOf(b, h.start)
      /\ g.start \in HeadLines(b) /\ g = HeadingOf(b, g.start)
  BY <1>1, HeadingFacts DEF Again
<1> DEFINE i == h.start
           j == g.start
<1>5. /\ i \in 1..Len(f) /\ f[i] \in HeadLines(a)
      /\ HeadingAt(b, i).level = HeadingAt(a, f[i]).level
      /\ HeadingAt(b, i).words = HeadingAt(a, f[i]).words
      /\ j \in 1..Len(f) /\ f[j] \in HeadLines(a)
      /\ HeadingAt(b, j).level = HeadingAt(a, f[j]).level
      /\ HeadingAt(b, j).words = HeadingAt(a, f[j]).words
  <2> HIDE DEF b
  <2>1. \A k \in HeadLines(b) :
          /\ k \in 1..Len(b) /\ f[k] \in HeadLines(a)
          /\ HeadingAt(b, k).level = HeadingAt(a, f[k]).level
          /\ HeadingAt(b, k).words = HeadingAt(a, f[k]).words
    <3>1. \A k \in 1..Len(b) : b[k] = a[f[k]]
      BY <1>1, <1>2
    <3> QED
      BY <1>2, <3>1, DedupeKeepsHeadings
  <2>2. i \in HeadLines(b) /\ j \in HeadLines(b)
    BY <1>4
  <2> HIDE DEF i, j, f, a
  <2> QED
    BY <1>2, <2>1, <2>2
<1>6. /\ h.level = HeadingAt(b, i).level /\ h.words = HeadingAt(b, i).words
      /\ g.level = HeadingAt(b, j).level /\ g.words = HeadingAt(b, j).words
  BY <1>4, HeadingOfFacts
<1> HIDE DEF b, i, j, f
<1> DEFINE u == HeadingOf(a, f[i])
           v == HeadingOf(a, f[j])
<1>7. /\ u \in Headings(x) /\ v \in Headings(x) /\ u.start = f[i] /\ v.start = f[j]
      /\ u.level = HeadingAt(a, f[i]).level /\ u.words = HeadingAt(a, f[i]).words
      /\ v.level = HeadingAt(a, f[j]).level /\ v.words = HeadingAt(a, f[j]).words
      /\ u.end = EndAt(a, f[i])
  <2>1. \A k \in HeadLines(a) : HeadingOf(a, k) \in Headings(x)
    BY HeadingFacts
  <2> HIDE DEF a
  <2>2. u \in Headings(x) /\ v \in Headings(x)
    BY <1>5, <2>1
  <2> QED
    BY <2>2, HeadingOfFacts
<1> HIDE DEF u, v
<1>8. f[j] < f[i] /\ f[i] \notin Gone(x)
  <2>1. j < i
    BY <1>3 DEF i, j
  <2> QED
    BY <1>5, <2>1, StaysFacts DEF f
<1>9. u \in Again(x)
  BY <1>3, <1>5, <1>6, <1>7, <1>8 DEF Again
<1>10. u.start \in u.start..(u.end - 1)
  <2>1. Lines(x) \in Nat /\ u.start \in 1..Lines(x) /\ u.body \in (u.start + 1)..(Lines(x) + 1)
        /\ u.end \in u.body..(Lines(x) + 1)
    BY <1>7, HeadingFacts, ProperFacts
  <2> QED
    BY <2>1
<1>11. f[i] \in Gone(x)
  BY <1>7, <1>9, <1>10 DEF Gone
<1> QED
  BY <1>8, <1>11

LEMMA DedupeSettles ==
  ASSUME NEW x, Proper(x)
  PROVE  Dedupe(Dedupe(x)) = Dedupe(x)
<1> DEFINE y == Dedupe(x)
           m == Lines(y)
           f == Stays(y)
           b == y.lines
<1>1. Proper(y)
  BY DedupeIsProper
<1>2. Gone(y) = {}
  BY NothingAgain DEF Gone
<1> HIDE DEF y
<1>3. /\ m \in Nat /\ m = Len(b) /\ DOMAIN b = 1..m /\ b \in Seq(ToSet(b))
      /\ y = Text(b, y.eol) /\ y.eol \in BOOLEAN /\ (b = << >> => y.eol)
  BY <1>1, ProperFacts DEF Proper
<1>4. /\ Len(f) \in Nat /\ \A i \in 1..Len(f) : f[i] \in 1..m
      /\ \A i, j \in 1..Len(f) : i < j => f[i] < f[j]
      /\ \A k \in 1..m : \E i \in 1..Len(f) : f[i] = k
      /\ f \in Seq(1..m)
  <2> DEFINE K == (1..m) \ Gone(y)
  <2>1. /\ Len(f) \in Nat /\ \A i \in 1..Len(f) : f[i] \in K
        /\ \A i, j \in 1..Len(f) : i < j => f[i] < f[j]
        /\ \A k \in K : \E i \in 1..Len(f) : f[i] = k
        /\ f \in Seq(K)
    BY <1>1, StaysFacts
  <2>2. K = 1..m
    BY <1>2
  <2> HIDE DEF K, f
  <2> QED
    BY <2>1, <2>2
<1>5. Dedupe(y) = IF f = << >> THEN Empty
                  ELSE Text([i \in 1..Len(f) |-> b[f[i]]], m \in Gone(y) \/ y.eol)
  BY <1>1, StaysFacts
<1> HIDE DEF f, m, b
<1>6. Len(f) = m /\ \A i \in 1..m : f[i] = i
  BY <1>3, <1>4, AllInOrder
<1>7. CASE f = << >>
  <2>1. m = 0 /\ b = << >>
    BY <1>3, <1>6, <1>7, EmptySeq
  <2>2. y = Text(<< >>, y.eol) /\ y.eol = TRUE
    BY <1>3, <2>1
  <2> QED
    BY <1>5, <1>7, <2>2 DEF Empty, y
<1>8. CASE f # << >>
  <2> DEFINE c == [i \in 1..Len(f) |-> b[f[i]]]
  <2>1. c = b
    <3>1. c = [i \in 1..m |-> b[i]]
      BY <1>6
    <3> QED
      BY <1>3, <3>1
  <2>2. Dedupe(y) = Text(b, m \in Gone(y) \/ y.eol)
    BY <1>5, <1>8, <2>1
  <2>3. (m \in Gone(y) \/ y.eol) = y.eol
    BY <1>2, <1>3
  <2> QED
    BY <1>3, <2>2, <2>3 DEF y
<1> QED
  BY <1>7, <1>8

-----------------------------------------------------------------------------
(***************************************************************************)
(* The other edits make texts of texts.                                    *)
(***************************************************************************)
LEMMA AroundSection ==
  ASSUME NEW x, Proper(x), NEW q, IsUnique(x, q)
  PROVE  LET h == Section(x, q)
             n == Lines(x) + 1
         IN  /\ Proper(Slice(x, 1, h.start)) /\ Proper(Slice(x, h.start, n))
             /\ Proper(Slice(x, h.start, h.end))
             /\ Proper(Slice(x, 1, h.body)) /\ Proper(Slice(x, h.body, n))
             /\ Proper(Slice(x, 1, h.end)) /\ Proper(Slice(x, h.end, n))
<1> DEFINE h == Section(x, q)
           n == Lines(x) + 1
<1>1. 1 \in 1..n /\ n \in 1..n /\ h.start \in 1..n /\ h.body \in 1..n /\ h.end \in 1..n
  BY SectionFacts
<1> HIDE DEF h
<1>2. \A i, j \in 1..n : Proper(Slice(x, i, j))
  BY SliceFacts
<1> QED
  BY <1>1, <1>2 DEF h

LEMMA StripIsProper ==
  ASSUME NEW r, Proper(r), NEW q
  PROVE  Proper(StripHeading(r, q))
<1>1. CASE r.lines # << >>
  <2>1. 2 \in 1..(Lines(r) + 1) /\ Lines(r) + 1 \in 1..(Lines(r) + 1)
    BY <1>1, ProperFacts
  <2>2. Proper(Slice(r, 2, Lines(r) + 1))
    BY <2>1, SliceFacts
  <2> QED
    BY <2>2 DEF StripHeading
<1>2. CASE r.lines = << >>
  BY <1>2 DEF StripHeading
<1> QED
  BY <1>1, <1>2

LEMMA ReplaceIsProper ==
  ASSUME NEW x, Proper(x), NEW q, IsUnique(x, q), NEW given, Proper(given)
  PROVE  Proper(Replace(x, q, given))
<1> DEFINE h == Section(x, q)
           r == StripHeading(given, q)
           top == Slice(x, 1, h.body)
           rest == Slice(x, h.end, Lines(x) + 1)
           put == EnsureEol(Cat(EnsureEol(top), r))
           blank == EndsBlank(Slice(x, h.body, h.end)) /\ ~EndsBlank(r) /\ h.end <= Lines(x)
           spaced == IF blank THEN PushEol(put) ELSE put
           all == IF r = Empty THEN top ELSE spaced
<1>1. Proper(r) /\ Proper(top) /\ Proper(rest)
  BY StripIsProper, AroundSection
<1>2. Replace(x, q, given) = Cat(all, rest)
  BY DEF Replace
<1> HIDE DEF h, r, top, rest, blank
<1>3. Proper(put)
  BY <1>1, CatIsProper, EnsureEolFacts
<1> HIDE DEF put
<1>4. Proper(spaced)
  BY <1>3, PushEolFacts
<1> HIDE DEF spaced
<1>5. Proper(all)
  BY <1>1, <1>4
<1> HIDE DEF all
<1> QED
  BY <1>1, <1>2, <1>5, CatIsProper

LEMMA InsertsAreProper ==
  ASSUME NEW x, Proper(x), NEW q, IsUnique(x, q), NEW r, Proper(r)
  PROVE  /\ Proper(InsertAfterHeading(x, q, r)) /\ Proper(InsertAfterSection(x, q, r))
         /\ Proper(InsertBefore(x, q, r))
<1> DEFINE h == Section(x, q)
           n == Lines(x) + 1
<1>1. /\ Proper(Slice(x, 1, h.start)) /\ Proper(Slice(x, h.start, n))
      /\ Proper(Slice(x, 1, h.body)) /\ Proper(Slice(x, h.body, n))
      /\ Proper(Slice(x, 1, h.end)) /\ Proper(Slice(x, h.end, n))
  BY AroundSection
<1>2. Proper(InsertAfterHeading(x, q, r))
  <2> DEFINE a == Slice(x, 1, h.body)
             b == Slice(x, h.body, n)
  <2>1. InsertAfterHeading(x, q, r) = Cat(EnsureEol(Cat(EnsureEol(a), r)), b)
    BY DEF InsertAfterHeading
  <2>2. Proper(a) /\ Proper(b)
    BY <1>1
  <2> HIDE DEF a, b
  <2> QED
    BY <2>1, <2>2, CatIsProper, EnsureEolFacts
<1>3. Proper(InsertAfterSection(x, q, r))
  <2> DEFINE to == Slice(x, 1, h.end)
             a == IF EndsBlank(to) THEN to ELSE PushEol(EnsureEol(to))
             b == Slice(x, h.end, n)
  <2>1. InsertAfterSection(x, q, r) = Cat(EnsureEol(Cat(a, r)), b)
    BY DEF InsertAfterSection
  <2>2. Proper(to) /\ Proper(b)
    BY <1>1
  <2> HIDE DEF to, b
  <2>3. Proper(a)
    BY <2>2, PushEolFacts, EnsureEolFacts
  <2> HIDE DEF a
  <2> QED
    BY <2>1, <2>2, <2>3, CatIsProper, EnsureEolFacts
<1>4. Proper(InsertBefore(x, q, r))
  <2> DEFINE a == Slice(x, 1, h.start)
             b == Slice(x, h.start, n)
  <2>1. InsertBefore(x, q, r) = Cat(EnsureBlank(EnsureEol(Cat(a, r))), b)
    BY DEF InsertBefore
  <2>2. Proper(a) /\ Proper(b)
    BY <1>1
  <2> HIDE DEF a, b
  <2> QED
    BY <2>1, <2>2, CatIsProper, EnsureEolFacts, EnsureBlankFacts
<1> QED
  BY <1>2, <1>3, <1>4

LEMMA MoveIsProper ==
  ASSUME NEW x, Proper(x), NEW q, IsUnique(x, q), NEW to, CanMove(x, q, to), NEW where
  PROVE  Proper(Move(x, q, where, to))
<1> DEFINE h == Section(x, q)
           y == WithoutSection(x, h)
           r == Slice(x, h.start, h.end)
           z == PutAfter(y, to, r)
<1>1. Proper(y) /\ Proper(r)
  <2> DEFINE a == Slice(x, 1, h.start)
             b == Slice(x, h.end, Lines(x) + 1)
  <2>1. y = Cat(a, b)
    BY DEF WithoutSection
  <2>2. Proper(a) /\ Proper(b) /\ Proper(r)
    BY AroundSection
  <2> HIDE DEF a, b
  <2> QED
    BY <2>1, <2>2, CatIsProper
<1>2. IsUnique(y, to)
  BY DEF CanMove
<1>3. Move(x, q, where, to) = IF where = "before" THEN InsertBefore(y, to, r) ELSE z
  BY DEF Move, Put
<1> HIDE DEF y, r
<1>4. Proper(z)
  <2> DEFINE g == Section(y, to)
             a == Slice(y, 1, g.end)
             b == Slice(y, g.end, Lines(y) + 1)
  <2>1. z = Cat(EnsureEol(Cat(EnsureBlank(a), r)), b)
    BY DEF PutAfter
  <2>2. Proper(a) /\ Proper(b)
    BY <1>1, <1>2, AroundSection
  <2> HIDE DEF a, b, z
  <2> QED
    BY <1>1, <2>1, <2>2, CatIsProper, EnsureEolFacts, EnsureBlankFacts
<1>5. Proper(InsertBefore(y, to, r))
  BY <1>1, <1>2, InsertsAreProper
<1> QED
  BY <1>3, <1>4, <1>5

LEMMA AppendRowIsProper ==
  ASSUME NEW x, Proper(x), NEW q, NEW n, CanAppendRow(x, q, n)
  PROVE  Proper(AppendRow(x, q, n))
<1> DEFINE h == Section(x, q)
           T == TableRows(x, h)
           last == Max(T)
           row == Text(<<Row(n)>>, TRUE)
<1>1. /\ Lines(x) \in Nat /\ h.body \in 1..(Lines(x) + 1) /\ h.end \in h.body..(Lines(x) + 1)
      /\ 1 \in 1..(Lines(x) + 1) /\ Lines(x) + 1 \in 1..(Lines(x) + 1)
  BY SectionFacts DEF CanAppendRow
<1> HIDE DEF h
<1>2. T \in SUBSET (h.body..(h.end - 1)) /\ T # {}
  BY DEF CanAppendRow, HasTable, TableRows, h
<1>3. last \in 1..Lines(x)
  <2>1. \A i \in T : i \in 1..Lines(x)
    BY <1>1, <1>2
  <2>2. T \in SUBSET Nat /\ \A i \in T : i <= Lines(x)
    BY <1>1, <2>1
  <2> HIDE DEF T
  <2>3. Max(T) \in T
    BY <1>1, <1>2, <2>2, MaxOf
  <2> QED
    BY <2>1, <2>3
<1> HIDE DEF last
<1>4. last + 1 \in 1..(Lines(x) + 1)
  BY <1>1, <1>3
<1> DEFINE a == Slice(x, 1, last + 1)
           b == Slice(x, last + 1, Lines(x) + 1)
<1>5. Proper(a) /\ Proper(b)
  BY <1>1, <1>4, SliceFacts
<1>6. Proper(row)
  <2> DEFINE s == <<Row(n)>>
             L == {Row(n)}
  <2>1. s \in Seq(L) /\ Len(s) = 1 /\ s # << >>
    OBVIOUS
  <2> HIDE DEF s, L
  <2>2. Proper(Text(s, TRUE))
    BY <2>1, ProperIs
  <2> QED
    BY <2>2 DEF s
<1>7. AppendRow(x, q, n) = Cat(Cat(EnsureEol(a), row), b)
  BY DEF AppendRow, h, last
<1> HIDE DEF a, b, row
<1> QED
  BY <1>5, <1>6, <1>7, CatIsProper, EnsureEolFacts

-----------------------------------------------------------------------------
(***************************************************************************)
(* The Markdown text.                                                      *)
(***************************************************************************)
MdInv ==
  /\ Proper(text) /\ edits \in 0..MaxEdits
  /\ edit.query \in Queries \cup {NoQuery} /\ edit.to \in Queries \cup {NoQuery}
  /\ EditsSettle

LEMMA PayloadsAreProper ==
  /\ \A r \in Payloads : Proper(r)
  /\ \A r \in MdTexts : Proper(r)
  /\ MaxEdits \in Nat
BY TextsAssumption DEF Proper

LEMMA MdInvInit ==
  ASSUME TextInit
  PROVE  MdInv
<1>1. edit = NoEdit /\ Proper(text) /\ edits \in 0..MaxEdits
  BY PayloadsAreProper, EmptyIsProper DEF TextInit, MdInit, MdIdle
<1>2. edit.kind = "none" /\ edit.query = NoQuery /\ edit.to = NoQuery
  BY <1>1 DEF NoEdit, NoQuery
<1> QED
  BY <1>1, <1>2 DEF MdInv, EditsSettle

(* An edit that keeps the text a text, and has put right what it says.     *)
LEMMA EditedKeeps ==
  ASSUME MdInv, MdMayEdit, NEW kind, NEW q \in Queries \cup {NoQuery}, NEW where,
         NEW to \in Queries \cup {NoQuery}, NEW given, NEW result,
         Edited(kind, q, where, to, given, result), Proper(result),
         kind = "upsert" /\ IsUnique(result, q)
           => Upsert(result, q, Head(given.lines).words) = result,
         kind = "dedupe" => Dedupe(result) = result
  PROVE  MdInv'
<1>1. edits' \in 0..MaxEdits
  BY PayloadsAreProper DEF MdInv, MdMayEdit, Edited
<1>2. text' = result /\ edit'.kind = kind /\ edit'.query = q /\ edit'.to = to
      /\ edit'.given = given
  BY DEF Edited
<1>3. Proper(text')
  BY <1>2
<1>4. EditsSettle'
  BY <1>2 DEF EditsSettle
<1> QED
  BY <1>1, <1>2, <1>3, <1>4 DEF MdInv, Proper

LEMMA MdInvStep ==
  ASSUME MdInv, [TextNext]_textVars
  PROVE  MdInv'
<1>1. Proper(text) /\ NoQuery \in Queries \cup {NoQuery}
  BY DEF MdInv
<1>2. ASSUME ReplaceSection
      PROVE  MdInv'
  <2>1. MdMayEdit
    BY <1>2 DEF ReplaceSection
  <2>2. PICK q \in Queries, r \in Payloads :
          IsUnique(text, q) /\ Edited("replace", q, "", NoQuery, r, Replace(text, q, r))
    BY <1>2 DEF ReplaceSection
  <2>3. Proper(Replace(text, q, r))
    BY <1>1, <2>2, PayloadsAreProper, ReplaceIsProper
  <2> QED
    BY <1>1, <2>1, <2>2, <2>3, EditedKeeps
<1>3. ASSUME InsertUnderHeading
      PROVE  MdInv'
  <2>1. MdMayEdit
    BY <1>3 DEF InsertUnderHeading
  <2>2. PICK q \in Queries, r \in Payloads \ {Empty} :
          IsUnique(text, q) /\ Edited("under", q, "", NoQuery, r, InsertAfterHeading(text, q, r))
    BY <1>3 DEF InsertUnderHeading
  <2>3. Proper(InsertAfterHeading(text, q, r))
    BY <1>1, <2>2, PayloadsAreProper, InsertsAreProper
  <2> QED
    BY <1>1, <2>1, <2>2, <2>3, EditedKeeps
<1>4. ASSUME InsertBehindSection
      PROVE  MdInv'
  <2>1. MdMayEdit
    BY <1>4 DEF InsertBehindSection
  <2>2. PICK q \in Queries, r \in Payloads \ {Empty} :
          IsUnique(text, q) /\ Edited("behind", q, "", NoQuery, r, InsertAfterSection(text, q, r))
    BY <1>4 DEF InsertBehindSection
  <2>3. Proper(InsertAfterSection(text, q, r))
    BY <1>1, <2>2, PayloadsAreProper, InsertsAreProper
  <2> QED
    BY <1>1, <2>1, <2>2, <2>3, EditedKeeps
<1>5. ASSUME InsertBeforeHeading
      PROVE  MdInv'
  <2>1. MdMayEdit
    BY <1>5 DEF InsertBeforeHeading
  <2>2. PICK q \in Queries, r \in Payloads \ {Empty} :
          IsUnique(text, q) /\ Edited("before", q, "", NoQuery, r, InsertBefore(text, q, r))
    BY <1>5 DEF InsertBeforeHeading
  <2>3. Proper(InsertBefore(text, q, r))
    BY <1>1, <2>2, PayloadsAreProper, InsertsAreProper
  <2> QED
    BY <1>1, <2>1, <2>2, <2>3, EditedKeeps
<1>6. ASSUME MoveSection
      PROVE  MdInv'
  <2>1. MdMayEdit
    BY <1>6 DEF MoveSection
  <2>2. PICK q, to \in Queries, where \in {"before", "after"} :
          /\ IsUnique(text, q) /\ CanMove(text, q, to)
          /\ Edited("move", q, where, to, Empty, Move(text, q, where, to))
    BY <1>6 DEF MoveSection
  <2>3. Proper(Move(text, q, where, to))
    BY <1>1, <2>2, MoveIsProper
  <2> QED
    BY <1>1, <2>1, <2>2, <2>3, EditedKeeps
<1>7. ASSUME UpsertBullet
      PROVE  MdInv'
  <2>1. MdMayEdit
    BY <1>7 DEF UpsertBullet
  <2>2. PICK q \in Queries, t \in Words :
          IsUnique(text, q)
            /\ Edited("upsert", q, "", NoQuery, Text(<<Bullet(t)>>, TRUE), Upsert(text, q, t))
    BY <1>7 DEF UpsertBullet
  <2> DEFINE given == Text(<<Bullet(t)>>, TRUE)
             result == Upsert(text, q, t)
  <2>3. Proper(result)
    BY <1>1, <2>2, UpsertPuts
  <2>4. Head(given.lines).words = t
    <3>1. given.lines = <<Bullet(t)>> /\ Head(<<Bullet(t)>>) = Bullet(t)
      BY DEF Text
    <3>2. Bullet(t).words = t
      BY DEF Bullet, Line
    <3> QED
      BY <3>1, <3>2
  <2>5. IsUnique(result, q) => Upsert(result, q, Head(given.lines).words) = result
    <3>1. ASSUME IsUnique(Upsert(text, q, t), q)
          PROVE  Upsert(Upsert(text, q, t), q, t) = Upsert(text, q, t)
      BY <1>1, <2>2, <3>1, UpsertSettles
    <3>2. IsUnique(result, q) => Upsert(result, q, t) = result
      BY <3>1
    <3> HIDE DEF given, result
    <3> QED
      BY <2>4, <3>2
  <2> HIDE DEF given, result
  <2>6. Edited("upsert", q, "", NoQuery, given, result)
    BY <2>2 DEF given, result
  <2> QED
    BY <1>1, <2>1, <2>3, <2>5, <2>6, EditedKeeps
<1>8. ASSUME DedupeHeadings
      PROVE  MdInv'
  <2>1. MdMayEdit /\ Edited("dedupe", NoQuery, "", NoQuery, Empty, Dedupe(text))
    BY <1>8 DEF DedupeHeadings
  <2>2. Proper(Dedupe(text)) /\ Dedupe(Dedupe(text)) = Dedupe(text)
    BY <1>1, DedupeIsProper, DedupeSettles
  <2> QED
    BY <1>1, <2>1, <2>2, EditedKeeps
<1>9. ASSUME TableAppend
      PROVE  MdInv'
  <2>1. MdMayEdit
    BY <1>9 DEF TableAppend
  <2>2. PICK q \in Queries, n \in Widths :
          CanAppendRow(text, q, n)
            /\ Edited("row", q, "", NoQuery, Text(<<Row(n)>>, TRUE), AppendRow(text, q, n))
    BY <1>9 DEF TableAppend
  <2>3. Proper(AppendRow(text, q, n))
    BY <1>1, <2>2, AppendRowIsProper
  <2> QED
    BY <1>1, <2>1, <2>2, <2>3, EditedKeeps
<1>10. ASSUME UNCHANGED mdVars
       PROVE  MdInv'
  BY <1>10 DEF mdVars, MdInv, EditsSettle, Proper
<1>11. Drift \/ PatchApply \/ UNCHANGED textVars => UNCHANGED mdVars
  BY DEF Drift, PatchApply, textVars, mdVars
<1> QED
  BY <1>2, <1>3, <1>4, <1>5, <1>6, <1>7, <1>8, <1>9, <1>10, <1>11 DEF TextNext

(* What an edit has put right is right: whatever the text, its headings,   *)
(* fences and line ends, an upsert of the bullet that was just upserted    *)
(* and a dedupe of the headings that were just deduped change nothing.     *)
THEOREM EditsAreSettled == TextSpec => []EditsSettle
<1>1. TextInit => MdInv
  BY MdInvInit
<1>2. MdInv /\ [TextNext]_textVars => MdInv'
  BY MdInvStep
<1>3. MdInv => EditsSettle
  BY DEF MdInv
<1> QED
  BY <1>1, <1>2, <1>3, PTL DEF TextSpec

-----------------------------------------------------------------------------
(***************************************************************************)
(* Texts are texts.                                                        *)
(***************************************************************************)
(* A hunk leaves it said whether the file ends with a newline.             *)
SaysEol(h) == \A eol \in BOOLEAN : FinalEol(h, eol) \in BOOLEAN
HasEol(st) ==
  /\ st = [ok |-> st.ok, lines |-> st.lines, eol |-> st.eol,
           offset |-> st.offset, conflicts |-> st.conflicts]
  /\ st.eol \in BOOLEAN

LEMMA DiffSaysEol ==
  ASSUME NEW s \in Scripts, NEW u \in Nat, NEW oe \in BOOLEAN, NEW ne \in BOOLEAN
  PROVE  \A k \in 1..Len(Diff(s, u, oe, ne)) : SaysEol(Diff(s, u, oe, ne)[k])
<1> DEFINE D == Diff(s, u, oe, ne)
           B == ToSet(s)
<1>1. s \in Seq(B) /\ \A x \in B : x.kind \in {"context", "remove", "add"}
  BY ScriptFacts
<1> SUFFICES ASSUME NEW k \in 1..Len(D)
             PROVE  SaysEol(D[k])
  OBVIOUS
<1> DEFINE b == RunFirst(s, u, k)
           e == RunLast(s, u, k)
           before == Len(OldPart(s, 1, b - 1))
           start == IF OldPart(s, b, e) = << >> THEN before ELSE before + 1
           ob == ~oe /\ LastOf(s, "add") \in b..e
           nb == ~ne /\ LastOf(s, "remove") \in b..e /\ s[LastOf(s, "remove")].kind = "add"
<1> HIDE DEF B
<1>2. k \in 1..Len(Order(s, u))
  BY <1>1, DiffHunks
<1>3. b \in 1..Len(s) /\ e \in b..Len(s) /\ D[k] = Hunk(start, SubSeq(s, b, e), ob, nb)
  BY <1>1, <1>2, DiffHunks
<1>4. Len(s) \in Nat
  BY <1>1, LenProperties
<1>5. ob \in BOOLEAN /\ nb \in BOOLEAN
  OBVIOUS
<1> HIDE DEF b, e, ob, nb, D, start
<1>6. SubSeq(s, b, e) \in Seq(B)
  <2>1. b \in 1..(Len(s) + 1) /\ e \in (b-1)..Len(s)
    BY <1>3, <1>4
  <2> QED
    BY <1>1, <2>1, PartOfScript
<1> DEFINE h == D[k]
<1>7. /\ h.body = SubSeq(s, b, e) /\ h.new = NewLines(h.body)
      /\ h.oldBare = ob /\ h.newBare = nb
  BY <1>3 DEF Hunk
<1> HIDE DEF h
<1> DEFINE n == LastOf(h.body, "remove")
           last == IF h.new = << >> THEN "none" ELSE h.body[n].kind
<1>8. last \in {"none", "context", "add"}
  <2>1. CASE h.new = << >>
    BY <2>1
  <2>2. CASE h.new # << >>
    <3>1. h.body \in Seq(B)
      BY <1>6, <1>7
    <3>2. PICK i \in 1..Len(h.body) : h.body[i].kind # "remove"
      BY <1>7, <2>2, <3>1, LinesButNone DEF NewLines
    <3>3. n \in 0..Len(h.body) /\ Len(h.body) \in Nat /\ i <= n
          /\ (n # 0 => h.body[n].kind # "remove")
      BY <3>1, <3>2, LastOfFacts, LenProperties
    <3>4. n \in 1..Len(h.body)
      BY <3>3
    <3> HIDE DEF n
    <3>5. h.body[n] \in B
      BY <3>1, <3>4, ElementOfSeq
    <3>6. h.body[n].kind \in {"context", "remove", "add"}
      BY <1>1, <3>5
    <3> QED
      BY <2>2, <3>3, <3>4, <3>6
  <2> QED
    BY <2>1, <2>2
<1> SUFFICES ASSUME NEW eol \in BOOLEAN
             PROVE  FinalEol(h, eol) \in BOOLEAN
  BY DEF SaysEol, h
<1>9. FinalEol(h, eol) = CASE last = "add" -> IF h.newBare THEN FALSE ELSE h.oldBare \/ eol
                           [] last = "context" -> ~h.oldBare /\ ~h.newBare /\ eol
                           [] last = "none" -> eol
  BY DEF FinalEol
<1> HIDE DEF last
<1>10. CASE last = "add"
  <2>1. FinalEol(h, eol) = IF h.newBare THEN FALSE ELSE h.oldBare \/ eol
    BY <1>9, <1>10
  <2> QED
    BY <1>5, <1>7, <2>1
<1>11. CASE last = "context"
  <2>1. FinalEol(h, eol) = (~h.oldBare /\ ~h.newBare /\ eol)
    BY <1>9, <1>11
  <2> QED
    BY <2>1
<1>12. CASE last = "none"
  <2>1. FinalEol(h, eol) = eol
    BY <1>9, <1>12
  <2> QED
    BY <2>1
<1> QED
  BY <1>8, <1>10, <1>11, <1>12

LEMMA HunkHasEol ==
  ASSUME NEW st, HasEol(st), NEW h, SaysEol(h), NEW merging
  PROVE  HasEol(HunkStep(merging, st, h))
<1>0. st = [ok |-> st.ok, lines |-> st.lines, eol |-> st.eol,
            offset |-> st.offset, conflicts |-> st.conflicts]
  BY DEF HasEol
<1>1. HasEol(Failed)
  BY DEF HasEol, Failed
<1>2. ApplyHunk(st, h) = Failed \/ HasEol(ApplyHunk(st, h))
  <2> DEFINE p == FindMatch(st.lines, h.old, Expected(h, st.offset))
             ls == Splice(st.lines, p, Len(h.old), h.new)
             eol == IF p + Len(h.old) >= Len(st.lines) THEN FinalEol(h, st.eol) ELSE st.eol
             offset == st.offset + Len(h.new) - Len(h.old)
  <2>1. eol \in BOOLEAN
    BY DEF HasEol, SaysEol
  <2>2. \/ ApplyHunk(st, h) = Failed
        \/ ApplyHunk(st, h) = [st EXCEPT !.lines = ls, !.eol = eol, !.offset = offset]
    BY DEF ApplyHunk
  <2> HIDE DEF ls, eol, offset, p
  <2>3. ASSUME NEW x, x = [st EXCEPT !.lines = ls, !.eol = eol, !.offset = offset]
        PROVE  x = [ok |-> st.ok, lines |-> ls, eol |-> eol,
                    offset |-> offset, conflicts |-> st.conflicts]
    BY <1>0, <2>3
  <2> DEFINE r == [ok |-> st.ok, lines |-> ls, eol |-> eol,
                   offset |-> offset, conflicts |-> st.conflicts]
  <2>4. HasEol(r)
    BY <2>1 DEF HasEol
  <2> QED
    BY <2>2, <2>3, <2>4
<1>3. MergeHunk(st, h) = Failed \/ HasEol(MergeHunk(st, h))
  <2> DEFINE p == Locate(st.lines, h, Expected(h, st.offset))
             n == Len(h.old)
             m == Merge(h.old, SubSeq(st.lines, p + 1, p + n), h.new)
             ls == Splice(st.lines, p, n, m.lines)
             offset == st.offset + Len(m.lines) - n
             conflicts == st.conflicts + m.conflicts
  <2>1. \/ MergeHunk(st, h) = Failed
        \/ MergeHunk(st, h)
             = [st EXCEPT !.lines = ls, !.offset = offset, !.conflicts = conflicts]
    BY DEF MergeHunk, MergeAt
  <2> HIDE DEF ls, offset, conflicts, p
  <2>2. ASSUME NEW x, x = [st EXCEPT !.lines = ls, !.offset = offset, !.conflicts = conflicts]
        PROVE  x = [ok |-> st.ok, lines |-> ls, eol |-> st.eol,
                    offset |-> offset, conflicts |-> conflicts]
    BY <1>0, <2>2
  <2> DEFINE r == [ok |-> st.ok, lines |-> ls, eol |-> st.eol,
                   offset |-> offset, conflicts |-> conflicts]
  <2>3. HasEol(r)
    BY DEF HasEol
  <2> QED
    BY <2>1, <2>2, <2>3
<1> QED
  BY <1>1, <1>2, <1>3 DEF HunkStep

LEMMA FoldHasEol ==
  ASSUME NEW H, NEW hs \in Seq(H), \A k \in 1..Len(hs) : SaysEol(hs[k]),
         NEW merging, NEW base, HasEol(base), NEW F, Through(F, merging, base, hs)
  PROVE  HasEol(F[Len(hs)])
<1> DEFINE n == Len(hs)
           S == {k \in Nat : k <= n => HasEol(F[k])}
<1>1. n \in Nat
  BY LenProperties
<1>2. 0 \in S
  BY DEF Through
<1>3. ASSUME NEW k \in Nat, k \in S
      PROVE  k + 1 \in S
  <2> SUFFICES ASSUME k + 1 <= n
               PROVE  HasEol(F[k+1])
    OBVIOUS
  <2>1. k + 1 \in 1..n /\ (k + 1) - 1 = k /\ k <= n
    BY <1>1
  <2>2. HasEol(F[k])
    BY <1>3, <2>1
  <2>3. F[k+1] = HunkStep(merging, F[k], hs[k+1])
    BY <2>1 DEF Through
  <2>4. SaysEol(hs[k+1])
    BY <2>1
  <2> QED
    BY <2>2, <2>3, <2>4, HunkHasEol
<1>4. Nat \subseteq S
  <2> HIDE DEF S
  <2> QED
    BY <1>2, <1>3, NumberInduction
<1> QED
  BY <1>1, <1>4

(* What a patch gives says how it ends, and ends if it has no lines.       *)
LEMMA PatchHasEol ==
  ASSUME NEW ls, NEW eol \in BOOLEAN, NEW H, NEW hs \in Seq(H),
         \A k \in 1..Len(hs) : SaysEol(hs[k]), NEW onStale
  PROVE  LET r == ApplyOrMerge(Text(ls, eol), hs, onStale, TRUE)
         IN  r.eol \in BOOLEAN /\ (r.lines = << >> => r.eol)
<1> DEFINE x == Text(ls, eol)
           base == Start(x)
           a == FoldLeft(ApplyHunk, base, hs)
           m == FoldLeft(MergeHunk, base, hs)
<1>1. HasEol(base)
  BY DEF HasEol, Start, Text
<1> HIDE DEF base
<1>2. HasEol(a)
  <2>1. PICK F : Through(F, FALSE, base, hs) /\ FoldLeft(ApplyHunk, base, hs) = F[Len(hs)]
    BY ApplyFold
  <2>2. HasEol(F[Len(hs)])
    BY <1>1, <2>1, FoldHasEol
  <2> QED
    BY <2>1, <2>2
<1>3. HasEol(m)
  <2>1. PICK F : Through(F, TRUE, base, hs) /\ FoldLeft(MergeHunk, base, hs) = F[Len(hs)]
    BY MergeFold
  <2>2. HasEol(F[Len(hs)])
    BY <1>1, <2>1, FoldHasEol
  <2> QED
    BY <2>1, <2>2
<1>4. ApplyHunks(x, hs) = Joined(a) /\ MergeHunks(x, hs) = Joined(m)
  BY DEF ApplyHunks, MergeHunks, base
<1> HIDE DEF a, m, x
<1>5. \A st : HasEol(st) =>
        Joined(st).eol \in BOOLEAN /\ (Joined(st).lines = << >> => Joined(st).eol)
  <2> SUFFICES ASSUME NEW st, HasEol(st)
               PROVE  Joined(st).eol \in BOOLEAN /\ (Joined(st).lines = << >> => Joined(st).eol)
    OBVIOUS
  <2>1. CASE st.lines = << >>
    <3>1. Joined(st) = [st EXCEPT !.eol = TRUE]
      BY <2>1 DEF Joined
    <3>2. \A v : [st EXCEPT !.eol = v].eol = v
      BY DEF HasEol
    <3>3. Joined(st).eol = TRUE
      BY <3>1, <3>2
    <3> QED
      BY <3>3
  <2>2. CASE st.lines # << >>
    BY <2>2 DEF Joined, HasEol
  <2> QED
    BY <2>1, <2>2
<1> DEFINE r == ApplyOrMerge(x, hs, onStale, TRUE)
<1>6. r = ApplyHunks(x, hs) \/ r = MergeHunks(x, hs)
  BY DEF ApplyOrMerge
<1> HIDE DEF r
<1>7. r.eol \in BOOLEAN /\ (r.lines = << >> => r.eol)
  BY <1>2, <1>3, <1>4, <1>5, <1>6
<1> QED
  BY <1>7 DEF r, x

(* The file that is patched: the states its patch goes through, and its    *)
(* lines, those of scripts and what drifts and conflicts put there.        *)
FileInv ==
  /\ file.lines \in Seq(AllLines) /\ file.eol \in BOOLEAN
  /\ file.lines = << >> => file.eol
  /\ status.how \in {"none", "made", "refused", "clean", "merged", "conflict"}
  /\ drifted \subseteq Nat

LEMMA FileInvInit ==
  ASSUME TextInit
  PROVE  FileInv
<1>1. CASE PatchIdle
  BY <1>1, EmptyIsProper DEF PatchIdle, FileInv
<1>2. CASE PatchInit
  <2>1. PICK u \in Contexts, e \in EolsOf(script) :
          /\ hunks = Diff(script, u, e[1], e[2])
          /\ file = Text(OldLines(script), e[1])
          /\ status = [how |-> "made", newEol |-> e[2]]
    BY <1>2 DEF PatchInit
  <2>2. script \in Scripts /\ drifted = {}
    BY <1>2 DEF PatchInit
  <2> DEFINE B == ToSet(script)
  <2>3. script \in Seq(B) /\ \A x \in B : x.line \in ScriptLines
    BY <2>2, ScriptFacts, LinesFacts
  <2> HIDE DEF B
  <2>4. OldLines(script) \in Seq(ScriptLines)
    BY <2>3, LinesButType DEF OldLines
  <2>5. OldLines(script) \in Seq(AllLines)
    BY <2>4, ScriptCounts
  <2>6. /\ e[1] \in BOOLEAN /\ e[2] \in BOOLEAN /\ <<e[1], e[2]>> \in EolsOf(script)
    <3>1. e \in BOOLEAN \X BOOLEAN
      BY DEF EolsOf
    <3>2. e = <<e[1], e[2]>> /\ e[1] \in BOOLEAN /\ e[2] \in BOOLEAN
      BY <3>1
    <3> QED
      BY <3>2
  <2>7. OldLines(script) = << >> => e[1] = TRUE
    <3> SUFFICES ASSUME OldLines(script) = << >>
                 PROVE  e[1] = TRUE
      OBVIOUS
    <3> DEFINE o == LastOf(script, "add")
    <3>1. \A i \in 1..Len(script) : script[i].kind = "add"
      BY <2>3, LinesButNone DEF OldLines
    <3>2. o \in 0..Len(script) /\ (o # 0 => script[o].kind # "add") /\ Len(script) \in Nat
      BY <2>3, LastOfFacts, LenProperties
    <3> HIDE DEF o
    <3>3. o = 0
      BY <3>1, <3>2
    <3> QED
      BY <2>6, <3>3, EolsFacts DEF o
  <2>8. file.lines = OldLines(script) /\ file.eol = e[1] /\ status.how = "made"
    BY <2>1 DEF Text
  <2> QED
    BY <2>2, <2>5, <2>6, <2>7, <2>8 DEF FileInv
<1> QED
  BY <1>1, <1>2 DEF TextInit

LEMMA FileInvDrift ==
  ASSUME FileInv, DriftInv, DriftInv', Drift
  PROVE  FileInv'
<1>1. /\ status' = status /\ status.how = "made"
      /\ \/ \E k \in (DOMAIN file.lines) \ drifted :
              /\ file' = [file EXCEPT !.lines[k] = Mine] /\ drifted' = drifted \cup {k}
         \/ file' = [file EXCEPT !.lines = <<Mine>> \o @] /\ drifted' = drifted \cup {0}
  BY Zenon DEF Drift
<1>2. Adrift' /\ file = Text(file.lines, file.eol)
  BY <1>1 DEF DriftInv
<1>3. file'.eol = file.eol
  BY <1>1, <1>2 DEF Text
<1>4. /\ file'.lines \in Seq(AllLines) /\ IsFiniteSet(drifted') /\ drifted' \subseteq Nat
      /\ Cardinality({k \in DOMAIN file'.lines : file'.lines[k] = Mine}) = Cardinality(drifted')
  BY <1>2 DEF Adrift, Count, Mines
<1>5. drifted' # {}
  BY <1>1
<1>6. file'.lines # << >>
  <2> SUFFICES ASSUME file'.lines = << >>
               PROVE  FALSE
    OBVIOUS
  <2>1. {k \in DOMAIN file'.lines : file'.lines[k] = Mine} = {}
    OBVIOUS
  <2>2. Cardinality(drifted') = 0
    BY <1>4, <2>1, FS_EmptySet
  <2> QED
    BY <1>4, <1>5, <2>2, FS_EmptySet
<1> QED
  BY <1>1, <1>3, <1>4, <1>6 DEF FileInv

LEMMA FileInvPatch ==
  ASSUME FileInv, DriftInv, PatchApply
  PROVE  FileInv'
<1> DEFINE ls == file.lines
<1>1. /\ drifted' = drifted /\ status.how = "made"
      /\ \E onStale : Patched(ApplyOrMerge(file, hunks, onStale, TRUE))
  BY Zenon DEF PatchApply
<1>2. PICK onStale : Patched(ApplyOrMerge(file, hunks, onStale, TRUE))
  BY <1>1
<1> DEFINE r == ApplyOrMerge(file, hunks, onStale, TRUE)
           a == ApplyHunks(file, hunks)
           how == IF ~r.ok THEN "refused" ELSE IF a.ok THEN "clean"
                  ELSE IF r.conflicts = 0 THEN "merged" ELSE "conflict"
<1>3. /\ file' = IF r.ok THEN Text(r.lines, r.eol) ELSE file
      /\ status' = [status EXCEPT !.how = how]
  BY <1>2 DEF Patched
<1>4. how = "refused" \/ how = "clean" \/ how = "merged" \/ how = "conflict"
  <2> HIDE DEF r, a
  <2> QED
    OBVIOUS
<1>5. /\ Adrift /\ file = Text(ls, file.eol)
      /\ status = [how |-> status.how, newEol |-> status.newEol]
  BY <1>1 DEF DriftInv
<1>6. /\ r.ok => r.lines \in Seq(AllLines)
      /\ r.eol \in BOOLEAN /\ (r.lines = << >> => r.eol)
  <2>1. PICK s \in Scripts, u \in Contexts, oe, ne \in BOOLEAN : hunks = Diff(s, u, oe, ne)
    BY <1>5 DEF Adrift
  <2>2. u \in Nat /\ s \in Seq(ToSet(s))
    BY ScriptsAssumption
  <2> DEFINE B == ToSet(s)
  <2>3. s \in Seq(B)
    BY <2>2
  <2> HIDE DEF B
  <2>4. PICK H : Diff(s, u, oe, ne) \in Seq(H)
    BY <2>2, <2>3, DiffHunks
  <2>5. \A k \in 1..Len(hunks) : GoodHunk(hunks[k]) /\ SaysEol(hunks[k])
    BY <2>1, <2>2, DiffIsGood, DiffSaysEol
  <2> DEFINE eol == file.eol
  <2>6. hunks \in Seq(H) /\ ls \in Seq(AllLines) /\ eol \in BOOLEAN
    BY <2>1, <2>4 DEF FileInv
  <2> DEFINE q == ApplyOrMerge(Text(ls, eol), hunks, onStale, TRUE)
  <2>7. q.ok => q.lines \in Seq(AllLines) /\ Count(q.lines) = Count(ls)
    BY <2>5, <2>6, PatchKeeps
  <2>8. q.eol \in BOOLEAN /\ (q.lines = << >> => q.eol)
    <3> HIDE DEF ls, eol
    <3> QED
      BY <2>5, <2>6, PatchHasEol
  <2>9. q = r
    BY <1>5
  <2> QED
    BY <2>7, <2>8, <2>9
<1> HIDE DEF r, a, how
<1>7. status'.how = how
  BY <1>3, <1>5
<1>8. CASE r.ok
  <2>1. file'.lines = r.lines /\ file'.eol = r.eol
    BY <1>3, <1>8 DEF Text
  <2> QED
    BY <1>1, <1>4, <1>6, <1>7, <1>8, <2>1 DEF FileInv
<1>9. CASE ~r.ok
  <2>1. file' = file
    BY <1>3, <1>9
  <2> QED
    BY <1>1, <1>4, <1>7, <2>1 DEF FileInv
<1> QED
  BY <1>8, <1>9

(* Both texts are texts at every step: lines one after the other, an end   *)
(* where there are no lines, and edits and patches of the kinds there are; *)
(* no edit and no patch leaves a file that is not one.                     *)
THEOREM EditsAreTyped == TextSpec => []EditsTypeOK
<1> DEFINE I == MdInv /\ DriftInv /\ FileInv
<1>1. TextInit => I
  BY MdInvInit, DriftInvInit, FileInvInit
<1>2. I /\ [TextNext]_textVars => I'
  <2> SUFFICES ASSUME I, [TextNext]_textVars
               PROVE  I'
    OBVIOUS
  <2>1. MdInv' /\ DriftInv'
    BY MdInvStep, DriftInvStep
  <2>2. ASSUME UNCHANGED patchVars
        PROVE  FileInv'
    BY <2>2 DEF patchVars, FileInv
  <2>3. FileInv'
    BY <2>1, <2>2, StepsOfText, FileInvDrift, FileInvPatch
  <2> QED
    BY <2>1, <2>3
<1>3. I => EditsTypeOK
  <2> SUFFICES ASSUME I
               PROVE  EditsTypeOK
    OBVIOUS
  <2>1. IsText(text)
    <3>1. Proper(text)
      BY DEF MdInv
    <3> QED
      BY <3>1, LenProperties DEF Proper, IsText
  <2>2. IsText(file)
    BY LenProperties DEF FileInv, IsText
  <2> QED
    BY <2>1, <2>2 DEF MdInv, FileInv, EditsTypeOK
<1> QED
  BY <1>1, <1>2, <1>3, PTL DEF TextSpec
=============================================================================
