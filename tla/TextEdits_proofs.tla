-------------------------- MODULE TextEdits_proofs --------------------------
(***************************************************************************)
(* For any texts, diffs, drifts and numbers of context lines: a diff that  *)
(* is applied to the text it was made of gives the text it was made for;   *)
(* applied or merged elsewhere it keeps what others have put there; and    *)
(* one that changes lines in place gives the three-way merge.              *)
(***************************************************************************)
EXTENDS TextEdits, SequenceTheorems, FunctionTheorems, FiniteSetTheorems,
        WellFoundedInduction, TLAPS

(***************************************************************************)
(* Numbers.  Induction is over a set of numbers: a property's induction is *)
(* that of the set of those that have it.                                  *)
(***************************************************************************)
LEMMA LeastNumber ==
  ASSUME NEW S \in SUBSET Nat, S # {}
  PROVE  \E x \in S : \A y \in S : x <= y
<1>1. PICK x \in S : \A y \in S : ~ (<<y, x>> \in OpToRel(<, Nat))
  BY NatLessThanWellFounded, WFMin
<1>2. \A y \in S : ~ (y < x)
  BY <1>1 DEF OpToRel
<1> QED
  BY <1>2

LEMMA NumberInduction ==
  ASSUME NEW S, 0 \in S, \A n \in Nat : n \in S => n + 1 \in S
  PROVE  Nat \subseteq S
<1> SUFFICES ASSUME Nat \ S # {}
             PROVE  FALSE
  OBVIOUS
<1>1. PICK x \in Nat \ S : \A y \in Nat \ S : x <= y
  BY LeastNumber
<1>2. x - 1 \in Nat /\ x - 1 \in S
  BY <1>1
<1> QED
  BY <1>1, <1>2

LEMMA MinOf ==
  ASSUME NEW S \in SUBSET Nat, S # {}
  PROVE  Min(S) \in S /\ \A y \in S : Min(S) <= y
<1>1. \E x \in S : \A y \in S : x <= y
  BY LeastNumber
<1> QED
  BY <1>1 DEF Min

LEMMA MaxOf ==
  ASSUME NEW S \in SUBSET Nat, S # {}, NEW b \in Nat, \A y \in S : y <= b
  PROVE  Max(S) \in S /\ \A y \in S : y <= Max(S)
<1> DEFINE T == {n \in Nat : \A y \in S : y <= n}
<1>1. PICK n \in T : \A m \in T : n <= m
  BY LeastNumber
<1>2. n \in S
  <2> SUFFICES ASSUME n \notin S
               PROVE  FALSE
    OBVIOUS
  <2>1. PICK y \in S : TRUE
    OBVIOUS
  <2>2. n # 0
    BY <1>1, <2>1
  <2>3. n - 1 \in T
    BY <1>1, <2>2
  <2> QED
    BY <1>1, <2>3
<1>3. \E x \in S : \A y \in S : x >= y
  BY <1>1, <1>2
<1> QED
  BY <1>3 DEF Max

-----------------------------------------------------------------------------
(***************************************************************************)
(* The lines of a body but those of one kind.  The recursive function of   *)
(* LinesBut exists: one for the first n lines gives one for n + 1.         *)
(***************************************************************************)
KeptUpTo(f, n, body, kind) ==
  \A i \in 0..n :
    f[i] = IF i = 0 THEN << >>
           ELSE IF body[i].kind = kind THEN f[i-1] ELSE Append(f[i-1], body[i].line)

LEMMA KeptExists ==
  ASSUME NEW body, NEW kind, NEW n \in Nat
  PROVE  \E f : KeptUpTo(f, n, body, kind)
<1> DEFINE S == {m \in Nat : \E f : KeptUpTo(f, m, body, kind)}
<1>1. 0 \in S
  <2>1. KeptUpTo([i \in {0} |-> << >>], 0, body, kind)
    BY DEF KeptUpTo
  <2> QED
    BY <2>1
<1>2. ASSUME NEW m \in Nat, m \in S
      PROVE  m + 1 \in S
  <2>1. PICK g : KeptUpTo(g, m, body, kind)
    BY <1>2
  <2> DEFINE f == [i \in 0..(m+1) |->
                     IF i = 0 THEN << >>
                     ELSE IF body[i].kind = kind THEN g[i-1] ELSE Append(g[i-1], body[i].line)]
  <2>2. \A i \in 0..m : f[i] = g[i]
    BY <2>1 DEF KeptUpTo
  <2>3. KeptUpTo(f, m + 1, body, kind)
    <3> SUFFICES ASSUME NEW i \in 0..(m+1)
                 PROVE  f[i] = IF i = 0 THEN << >>
                               ELSE IF body[i].kind = kind THEN f[i-1]
                               ELSE Append(f[i-1], body[i].line)
      BY DEF KeptUpTo
    <3>1. i # 0 => i - 1 \in 0..m
      OBVIOUS
    <3>2. i # 0 => f[i-1] = g[i-1]
      BY <2>2, <3>1
    <3> QED
      BY <3>2
  <2> QED
    BY <2>3
<1>3. Nat \subseteq S
  BY <1>1, <1>2, NumberInduction
<1> QED
  BY <1>3

(* What has been kept of the first i lines.                                *)
KeptOf(body, kind) ==
  CHOOSE f : f = [i \in 0..Len(body) |->
                    IF i = 0 THEN << >>
                    ELSE IF body[i].kind = kind THEN f[i-1] ELSE Append(f[i-1], body[i].line)]

LEMMA KeptSteps ==
  ASSUME NEW body, NEW kind, Len(body) \in Nat
  PROVE  /\ LinesBut(body, kind) = KeptOf(body, kind)[Len(body)]
         /\ KeptUpTo(KeptOf(body, kind), Len(body), body, kind)
<1> DEFINE rec(f) == [i \in 0..Len(body) |->
                        IF i = 0 THEN << >>
                        ELSE IF body[i].kind = kind THEN f[i-1] ELSE Append(f[i-1], body[i].line)]
<1>1. PICK g : KeptUpTo(g, Len(body), body, kind)
  BY KeptExists, SMTT(30)
<1> DEFINE h == [i \in 0..Len(body) |-> g[i]]
<1>2. \A i \in 0..Len(body) : i # 0 => i - 1 \in 0..Len(body)
  OBVIOUS
<1>3. h = rec(h)
  BY <1>1, <1>2 DEF KeptUpTo
<1>4. KeptOf(body, kind) = rec(KeptOf(body, kind))
  BY <1>3 DEF KeptOf
<1>5. KeptUpTo(KeptOf(body, kind), Len(body), body, kind)
  BY <1>4 DEF KeptUpTo
<1>6. LinesBut(body, kind) = KeptOf(body, kind)[Len(body)]
  BY DEF LinesBut, KeptOf
<1> QED
  BY <1>5, <1>6

LEMMA LinesButEmpty ==
  ASSUME NEW kind
  PROVE  LinesBut(<< >>, kind) = << >>
<1>1. Len(<< >>) = 0
  OBVIOUS
<1> QED
  BY <1>1, KeptSteps DEF KeptUpTo

(* What is kept of the first lines depends on no other.                    *)
LEMMA KeptOfPrefix ==
  ASSUME NEW B, NEW b \in Seq(B), NEW c \in Seq(B), NEW kind,
         Len(b) <= Len(c), \A i \in 1..Len(b) : b[i] = c[i]
  PROVE  KeptOf(c, kind)[Len(b)] = LinesBut(b, kind)
<1> DEFINE kb == KeptOf(b, kind)
           kc == KeptOf(c, kind)
           S == {n \in Nat : n <= Len(b) => kb[n] = kc[n]}
<1>1. /\ KeptUpTo(kb, Len(b), b, kind) /\ LinesBut(b, kind) = kb[Len(b)]
      /\ KeptUpTo(kc, Len(c), c, kind)
      /\ Len(b) \in Nat /\ Len(c) \in Nat
  BY KeptSteps
<1> HIDE DEF kb, kc
<1>2. 0 \in S
  BY <1>1 DEF KeptUpTo
<1>3. ASSUME NEW n \in Nat, n \in S
      PROVE  n + 1 \in S
  <2> SUFFICES ASSUME n + 1 <= Len(b)
               PROVE  kb[n+1] = kc[n+1]
    OBVIOUS
  <2>1. kb[n] = kc[n] /\ b[n+1] = c[n+1]
    BY <1>1, <1>3
  <2>2. n + 1 \in 0..Len(b) /\ n + 1 \in 0..Len(c) /\ n + 1 # 0 /\ (n + 1) - 1 = n
    BY <1>1
  <2>3. kb[n+1] = IF b[n+1].kind = kind THEN kb[n] ELSE Append(kb[n], b[n+1].line)
    BY <1>1, <2>2 DEF KeptUpTo
  <2>4. kc[n+1] = IF c[n+1].kind = kind THEN kc[n] ELSE Append(kc[n], c[n+1].line)
    BY <1>1, <2>2 DEF KeptUpTo
  <2> QED
    BY <2>1, <2>3, <2>4
<1>4. Len(b) \in S
  BY <1>1, <1>2, <1>3, NumberInduction
<1> QED
  BY <1>1, <1>4 DEF kb, kc

(* One line more.                                                          *)
LEMMA LinesButOneMore ==
  ASSUME NEW B, NEW b \in Seq(B), NEW e \in B, NEW kind
  PROVE  LinesBut(Append(b, e), kind) =
           IF e.kind = kind THEN LinesBut(b, kind) ELSE Append(LinesBut(b, kind), e.line)
<1> DEFINE c == Append(b, e)
<1>1. /\ c \in Seq(B) /\ Len(c) = Len(b) + 1 /\ Len(b) \in Nat
      /\ \A i \in 1..Len(b) : b[i] = c[i]
      /\ c[Len(c)] = e
  BY AppendProperties, LenProperties
<1> HIDE DEF c
<1>2. KeptOf(c, kind)[Len(b)] = LinesBut(b, kind)
  BY <1>1, KeptOfPrefix
<1>3. /\ LinesBut(c, kind) = KeptOf(c, kind)[Len(c)]
      /\ KeptUpTo(KeptOf(c, kind), Len(c), c, kind)
  BY <1>1, KeptSteps
<1>4. Len(c) \in 0..Len(c) /\ Len(c) # 0 /\ Len(c) - 1 = Len(b)
  BY <1>1
<1>5. KeptOf(c, kind)[Len(c)] =
        IF c[Len(c)].kind = kind THEN KeptOf(c, kind)[Len(c) - 1]
        ELSE Append(KeptOf(c, kind)[Len(c) - 1], c[Len(c)].line)
  BY <1>3, <1>4 DEF KeptUpTo
<1>6. LinesBut(c, kind) =
        IF e.kind = kind THEN LinesBut(b, kind) ELSE Append(LinesBut(b, kind), e.line)
  BY <1>1, <1>2, <1>3, <1>4, <1>5
<1> QED
  BY <1>6 DEF c

(* The lines of the first n of a body, or of a body and another's first n. *)
LEMMA FirstAndNext ==
  ASSUME NEW B, NEW b \in Seq(B), NEW n \in Nat, n < Len(b)
  PROVE  /\ SubSeq(b, 1, n) \in Seq(B) /\ b[n+1] \in B
         /\ SubSeq(b, 1, n + 1) = Append(SubSeq(b, 1, n), b[n+1])
<1>1. n + 1 \in 1..Len(b) /\ Len(b) \in Nat
  BY LenProperties
<1>2. b[n+1] \in B /\ \A i \in 1..n : b[i] \in B
  BY <1>1, ElementOfSeq
<1>3. SubSeq(b, 1, n) \in Seq(B)
  BY <1>2, SubSeqProperties
<1>4. SubSeq(b, 1, n + 1) = SubSeq(b, 1, (n + 1) - 1) \o <<b[n+1]>>
  BY <1>1, SubSeqRecursiveSecond
<1>5. (n + 1) - 1 = n
  OBVIOUS
<1> QED
  BY <1>2, <1>3, <1>4, <1>5, AppendIsConcat

LEMMA LinesButType ==
  ASSUME NEW B, NEW L, \A e \in B : e.line \in L, NEW b \in Seq(B), NEW kind
  PROVE  LinesBut(b, kind) \in Seq(L)
<1> DEFINE S == {n \in Nat : n <= Len(b) => LinesBut(SubSeq(b, 1, n), kind) \in Seq(L)}
<1>1. SubSeq(b, 1, 0) = << >> /\ << >> \in Seq(L)
  BY SubSeqEmpty, EmptySeq
<1>2. 0 \in S
  BY <1>1, LinesButEmpty
<1>3. ASSUME NEW n \in Nat, n \in S
      PROVE  n + 1 \in S
  <2> SUFFICES ASSUME n + 1 <= Len(b)
               PROVE  LinesBut(SubSeq(b, 1, n + 1), kind) \in Seq(L)
    OBVIOUS
  <2>1. n < Len(b) /\ Len(b) \in Nat
    BY LenProperties
  <2>2. LinesBut(SubSeq(b, 1, n), kind) \in Seq(L)
    BY <1>3, <2>1
  <2>3. b[n+1] \in B /\ SubSeq(b, 1, n) \in Seq(B)
        /\ SubSeq(b, 1, n + 1) = Append(SubSeq(b, 1, n), b[n+1])
    BY <2>1, FirstAndNext
  <2>4. b[n+1].line \in L
    BY <2>3
  <2>5. LinesBut(SubSeq(b, 1, n + 1), kind) =
          IF b[n+1].kind = kind THEN LinesBut(SubSeq(b, 1, n), kind)
          ELSE Append(LinesBut(SubSeq(b, 1, n), kind), b[n+1].line)
    BY <2>3, LinesButOneMore, ZenonT(60)
  <2> QED
    BY <2>2, <2>4, <2>5, AppendProperties
<1>4. Len(b) \in S /\ Len(b) \in Nat
  BY <1>2, <1>3, NumberInduction, LenProperties
<1>5. SubSeq(b, 1, Len(b)) = b
  BY SubSeqFull
<1>6. LinesBut(SubSeq(b, 1, Len(b)), kind) \in Seq(L)
  BY <1>4
<1> QED
  BY <1>5, <1>6

LEMMA AppendConcat ==
  ASSUME NEW S, NEW s \in Seq(S), NEW t \in Seq(S), NEW e \in S
  PROVE  s \o Append(t, e) = Append(s \o t, e)
<1>1. s \o t \in Seq(S) /\ <<e>> \in Seq(S)
  BY ConcatProperties
<1>2. Append(s \o t, e) = (s \o t) \o <<e>>
  BY <1>1, AppendIsConcat
<1>3. Append(t, e) = t \o <<e>>
  BY AppendIsConcat
<1>4. (s \o t) \o <<e>> = s \o (t \o <<e>>)
  BY <1>1, ConcatAssociative
<1> QED
  BY <1>2, <1>3, <1>4

(* Of two bodies together.                                                 *)
LEMMA LinesButConcat ==
  ASSUME NEW B, NEW a \in Seq(B), NEW b \in Seq(B), NEW kind
  PROVE  LinesBut(a \o b, kind) = LinesBut(a, kind) \o LinesBut(b, kind)
<1> DEFINE L == {e.line : e \in B}
           first(n) == SubSeq(b, 1, n)
           S == {n \in Nat : n <= Len(b) =>
                   LinesBut(a \o first(n), kind) = LinesBut(a, kind) \o LinesBut(first(n), kind)}
<1>0. LinesBut(a, kind) \in Seq(L) /\ Len(b) \in Nat
  BY LinesButType, LenProperties
<1>1. SubSeq(b, 1, 0) = << >> /\ a \o << >> = a
  BY SubSeqEmpty, ConcatEmptySeq
<1>2. 0 \in S
  <2>1. LinesBut(a, kind) \o << >> = LinesBut(a, kind)
    BY <1>0, ConcatEmptySeq
  <2>2. LinesBut(<< >>, kind) = << >>
    BY LinesButEmpty
  <2> QED
    BY <1>1, <2>1, <2>2
<1>3. ASSUME NEW n \in Nat, n \in S
      PROVE  n + 1 \in S
  <2> SUFFICES ASSUME n + 1 <= Len(b)
               PROVE  LinesBut(a \o first(n + 1), kind)
                        = LinesBut(a, kind) \o LinesBut(first(n + 1), kind)
    OBVIOUS
  <2> DEFINE f == SubSeq(b, 1, n)
             e == b[n+1]
             la == LinesBut(a, kind)
             lf == LinesBut(f, kind)
             af == a \o f
             lalf == la \o lf
  <2>1. e \in B /\ f \in Seq(B) /\ first(n + 1) = Append(f, e)
    BY <1>0, FirstAndNext
  <2>2. LinesBut(af, kind) = lalf
    BY <1>3, <1>0
  <2>3. lf \in Seq(L) /\ la \in Seq(L) /\ e.line \in L
    BY <2>1, LinesButType
  <2>4. af \in Seq(B)
    BY <2>1, ConcatProperties
  <2>5. a \o first(n + 1) = a \o Append(f, e)
    BY <2>1
  <2>6. a \o first(n + 1) = Append(af, e)
    BY <2>1, <2>5, AppendConcat
  <2>7. la \o Append(lf, e.line) = Append(lalf, e.line)
    BY <2>3, AppendConcat
  <2>8. LinesBut(first(n + 1), kind) = IF e.kind = kind THEN lf ELSE Append(lf, e.line)
    BY <2>1, LinesButOneMore, ZenonT(60)
  <2> HIDE DEF e, la, lf, L, af, lalf
  <2>9. LinesBut(Append(af, e), kind) =
          IF e.kind = kind THEN lalf ELSE Append(lalf, e.line)
    BY <2>1, <2>2, <2>4, LinesButOneMore
  <2>10. la \o LinesBut(first(n + 1), kind) = LinesBut(a \o first(n + 1), kind)
    BY <2>6, <2>7, <2>8, <2>9 DEF lalf
  <2> QED
    BY <2>10 DEF la
<1>4. Len(b) \in S
  BY <1>0, <1>2, <1>3, NumberInduction
<1>5. SubSeq(b, 1, Len(b)) = b
  BY SubSeqFull
<1>6. LinesBut(a \o first(Len(b)), kind) = LinesBut(a, kind) \o LinesBut(first(Len(b)), kind)
  BY <1>0, <1>4
<1> QED
  BY <1>5, <1>6

LEMMA FirstOfFirst ==
  ASSUME NEW B, NEW b \in Seq(B)
  PROVE  SubSeq(b, 1, Len(b)) = b /\ SubSeq(b, 1, 0) = << >>
BY SubSeqFull, SubSeqEmpty

LEMMA AppendIsSome ==
  ASSUME NEW S, NEW s \in Seq(S), NEW e \in S
  PROVE  Append(s, e) # << >>
<1>1. Len(Append(s, e)) = Len(s) + 1 /\ Len(s) \in Nat
  BY AppendProperties, LenProperties
<1>2. Len(<< >>) = 0
  OBVIOUS
<1> QED
  BY <1>1, <1>2

(* Nothing is kept where every line is of the one kind.                    *)
LEMMA LinesButNone ==
  ASSUME NEW B, NEW b \in Seq(B), NEW kind
  PROVE  LinesBut(b, kind) = << >> <=> \A i \in 1..Len(b) : b[i].kind = kind
<1> DEFINE L == {e.line : e \in B}
           S == {n \in Nat : n <= Len(b) =>
                   (LinesBut(SubSeq(b, 1, n), kind) = << >>
                      <=> \A i \in 1..n : b[i].kind = kind)}
<1>1. 0 \in S
  <2>1. SubSeq(b, 1, 0) = << >> /\ LinesBut(<< >>, kind) = << >>
    BY FirstOfFirst, LinesButEmpty
  <2>2. LinesBut(SubSeq(b, 1, 0), kind) = << >>
    BY <2>1
  <2>3. \A i \in 1..0 : b[i].kind = kind
    OBVIOUS
  <2> QED
    BY <2>2, <2>3
<1>2. ASSUME NEW n \in Nat, n \in S
      PROVE  n + 1 \in S
  <2> SUFFICES ASSUME n + 1 <= Len(b)
               PROVE  LinesBut(SubSeq(b, 1, n + 1), kind) = << >>
                        <=> \A i \in 1..(n+1) : b[i].kind = kind
    OBVIOUS
  <2>1. n < Len(b) /\ Len(b) \in Nat
    BY LenProperties
  <2>2. LinesBut(SubSeq(b, 1, n), kind) = << >> <=> \A i \in 1..n : b[i].kind = kind
    BY <1>2, <2>1
  <2>3. b[n+1] \in B /\ SubSeq(b, 1, n) \in Seq(B)
        /\ SubSeq(b, 1, n + 1) = Append(SubSeq(b, 1, n), b[n+1])
    BY <2>1, FirstAndNext
  <2>4. LinesBut(SubSeq(b, 1, n), kind) \in Seq(L) /\ b[n+1].line \in L
    BY <2>3, LinesButType
  <2>5. LinesBut(SubSeq(b, 1, n + 1), kind) =
          IF b[n+1].kind = kind THEN LinesBut(SubSeq(b, 1, n), kind)
          ELSE Append(LinesBut(SubSeq(b, 1, n), kind), b[n+1].line)
    BY <2>3, LinesButOneMore, ZenonT(60)
  <2>6. Append(LinesBut(SubSeq(b, 1, n), kind), b[n+1].line) # << >>
    BY <2>4, AppendIsSome
  <2>7. \A i \in 1..(n+1) : i \in 1..n \/ i = n + 1
    BY <2>1
  <2>8. n + 1 \in 1..(n+1) /\ \A i \in 1..n : i \in 1..(n+1)
    BY <2>1
  <2> QED
    BY <2>2, <2>5, <2>6, <2>7, <2>8
<1>3. Len(b) \in S /\ Len(b) \in Nat
  BY <1>1, <1>2, NumberInduction, LenProperties
<1>4. LinesBut(SubSeq(b, 1, Len(b)), kind) = << >> <=> \A i \in 1..Len(b) : b[i].kind = kind
  BY <1>3
<1> QED
  BY <1>4, FirstOfFirst

(* Lines that are kept are in the old text and in the new.                 *)
LEMMA ContextIsSame ==
  ASSUME NEW B, NEW b \in Seq(B), \A i \in 1..Len(b) : b[i].kind = "context"
  PROVE  OldLines(b) = NewLines(b)
<1> DEFINE S == {n \in Nat : n <= Len(b) =>
                   OldLines(SubSeq(b, 1, n)) = NewLines(SubSeq(b, 1, n))}
<1>1. 0 \in S
  BY FirstOfFirst, LinesButEmpty DEF OldLines, NewLines
<1>2. ASSUME NEW n \in Nat, n \in S
      PROVE  n + 1 \in S
  <2> SUFFICES ASSUME n + 1 <= Len(b)
               PROVE  OldLines(SubSeq(b, 1, n + 1)) = NewLines(SubSeq(b, 1, n + 1))
    OBVIOUS
  <2>1. n < Len(b) /\ Len(b) \in Nat
    BY LenProperties
  <2>2. OldLines(SubSeq(b, 1, n)) = NewLines(SubSeq(b, 1, n))
    BY <1>2, <2>1
  <2>3. b[n+1] \in B /\ SubSeq(b, 1, n) \in Seq(B)
        /\ SubSeq(b, 1, n + 1) = Append(SubSeq(b, 1, n), b[n+1])
    BY <2>1, FirstAndNext
  <2>4. b[n+1].kind = "context"
    BY <2>1
  <2>5. \A kind : LinesBut(SubSeq(b, 1, n + 1), kind) =
          IF b[n+1].kind = kind THEN LinesBut(SubSeq(b, 1, n), kind)
          ELSE Append(LinesBut(SubSeq(b, 1, n), kind), b[n+1].line)
    <3> TAKE kind
    <3> DEFINE f == SubSeq(b, 1, n)
    <3>1. LinesBut(Append(f, b[n+1]), kind) =
            IF b[n+1].kind = kind THEN LinesBut(f, kind)
            ELSE Append(LinesBut(f, kind), b[n+1].line)
      BY <2>3, LinesButOneMore
    <3> QED
      BY <2>3, <3>1
  <2> QED
    BY <2>2, <2>4, <2>5 DEF OldLines, NewLines
<1>3. Len(b) \in S /\ Len(b) \in Nat
  BY <1>1, <1>2, NumberInduction, LenProperties
<1>4. OldLines(SubSeq(b, 1, Len(b))) = NewLines(SubSeq(b, 1, Len(b)))
  BY <1>3
<1> QED
  BY <1>4, FirstOfFirst

-----------------------------------------------------------------------------
(***************************************************************************)
(* The numbers of a finite set, in order.                                  *)
(***************************************************************************)
Below(S, x) == {m \in S : m < x}

LEMMA BelowGrows ==
  ASSUME NEW S \in SUBSET Nat, IsFiniteSet(S), NEW x \in S
  PROVE  /\ Cardinality(Below(S, x)) \in 0..(Cardinality(S) - 1)
         /\ \A y \in S : x < y => Cardinality(Below(S, x)) < Cardinality(Below(S, y))
<1>1. ASSUME NEW T, IsFiniteSet(T), Below(S, x) \subseteq T, x \in T
      PROVE  /\ Cardinality(Below(S, x)) \in Nat /\ Cardinality(T) \in Nat
             /\ Cardinality(Below(S, x)) < Cardinality(T)
  <2>1. IsFiniteSet(T \ {x}) /\ Cardinality(T \ {x}) = Cardinality(T) - 1
    BY <1>1, FS_RemoveElement
  <2>2. Below(S, x) \in SUBSET (T \ {x})
    BY <1>1 DEF Below
  <2>3. IsFiniteSet(Below(S, x)) /\ Cardinality(Below(S, x)) <= Cardinality(T \ {x})
    BY <2>1, <2>2, FS_Subset
  <2>4. Cardinality(Below(S, x)) \in Nat /\ Cardinality(T) \in Nat
    BY <1>1, <2>3, FS_CardinalityType
  <2> QED
    BY <2>1, <2>3, <2>4
<1>2. Below(S, x) \subseteq S
  BY DEF Below
<1>3. Cardinality(Below(S, x)) \in 0..(Cardinality(S) - 1)
  BY <1>1, <1>2
<1>4. ASSUME NEW y \in S, x < y
      PROVE  Cardinality(Below(S, x)) < Cardinality(Below(S, y))
  <2>0. \A m \in S : m < x => m < y
    BY <1>4
  <2>1. Below(S, x) \subseteq Below(S, y) /\ x \in Below(S, y)
    BY <1>4, <2>0 DEF Below
  <2>2. Below(S, y) \in SUBSET S
    BY DEF Below
  <2>3. IsFiniteSet(Below(S, y))
    BY <2>2, FS_Subset
  <2> QED
    BY <1>1, <2>1, <2>3
<1> QED
  BY <1>3, <1>4

LEMMA InOrderEnumerates ==
  ASSUME NEW S \in SUBSET Nat, IsFiniteSet(S)
  PROVE  /\ InOrder(S) \in Seq(S) /\ Len(InOrder(S)) = Cardinality(S)
         /\ \A i, j \in 1..Len(InOrder(S)) : i < j => InOrder(S)[i] < InOrder(S)[j]
         /\ \A x \in S : \E i \in 1..Len(InOrder(S)) : InOrder(S)[i] = x
<1> DEFINE n == Cardinality(S)
           rank == [x \in S |-> Cardinality(Below(S, x))]
<1>1. n \in Nat
  BY FS_CardinalityType
<1> HIDE DEF n
<1>2. rank \in [S -> 0..(n-1)] /\ \A x, y \in S : x < y => rank[x] < rank[y]
  BY BelowGrows DEF n
<1>3. \A x, y \in S : rank[x] = rank[y] => x = y
  <2> SUFFICES ASSUME NEW x \in S, NEW y \in S, rank[x] = rank[y], x # y
               PROVE  FALSE
    OBVIOUS
  <2>1. x < y \/ y < x
    OBVIOUS
  <2>2. rank[x] \in Int /\ rank[y] \in Int
    BY <1>1, <1>2
  <2>3. rank[x] < rank[y] \/ rank[y] < rank[x]
    BY <1>2, <2>1
  <2> QED
    BY <2>2, <2>3
<1>4. \A i \in 0..(n-1) : \E x \in S : rank[x] = i
  <2> HIDE DEF rank
  <2>1. rank \in Injection(S, 0..(n-1))
    BY <1>2, <1>3, Fun_IsInj
  <2>2. IsFiniteSet(0..(n-1)) /\ Cardinality(0..(n-1)) = n
    <3>1. n - 1 \in Int /\ 0 \in Int
      BY <1>1
    <3>2. /\ IsFiniteSet(0..(n-1))
          /\ Cardinality(0..(n-1)) = IF 0 > n - 1 THEN 0 ELSE (n - 1) - 0 + 1
      BY <3>1, FS_Interval
    <3> QED
      BY <1>1, <3>2
  <2>3. rank \in Surjection(S, 0..(n-1))
    BY <2>1, <2>2, FS_Injection DEF n
  <2>4. \A i \in 0..(n-1) : \E x \in S : rank[x] = i
    BY <2>3, Fun_SurjectionProperties, ZenonT(60)
  <2> QED
    BY <2>4
<1>5. InOrder(S) = [i \in 1..n |-> CHOOSE x \in S : Cardinality(Below(S, x)) = i - 1]
  BY DEF InOrder, Below, n
<1>6. ASSUME NEW i \in 1..n
      PROVE  InOrder(S)[i] \in S /\ rank[InOrder(S)[i]] = i - 1
  <2>1. i - 1 \in 0..(n-1)
    BY <1>1
  <2>2. \E x \in S : Cardinality(Below(S, x)) = i - 1
    BY <1>4, <2>1
  <2>3. /\ InOrder(S)[i] \in S
        /\ Cardinality(Below(S, InOrder(S)[i])) = i - 1
    BY <1>5, <2>2
  <2> QED
    BY <2>3
<1>7. InOrder(S) \in [1..n -> S]
  BY <1>5, <1>6
<1> HIDE DEF rank
<1>8. InOrder(S) \in Seq(S) /\ Len(InOrder(S)) = n
  BY <1>1, <1>7
<1>9. ASSUME NEW i \in 1..n, NEW j \in 1..n, i < j
      PROVE  InOrder(S)[i] < InOrder(S)[j]
  <2> DEFINE x == InOrder(S)[i]
             y == InOrder(S)[j]
  <2>1. x \in S /\ y \in S /\ rank[x] = i - 1 /\ rank[y] = j - 1
    BY <1>6
  <2>2. i \in Int /\ j \in Int
    BY <1>1
  <2> HIDE DEF x, y
  <2>3. y < x => j - 1 < i - 1
    BY <1>2, <2>1
  <2>4. x = y => j - 1 = i - 1
    BY <2>1
  <2>5. x \in Int /\ y \in Int
    BY <2>1
  <2>6. x < y
    BY <1>9, <2>2, <2>3, <2>4, <2>5
  <2> QED
    BY <2>6 DEF x, y
<1>10. ASSUME NEW x \in S
       PROVE  \E i \in 1..n : InOrder(S)[i] = x
  <2>1. rank[x] \in 0..(n-1)
    BY <1>2
  <2>2. rank[x] + 1 \in 1..n /\ (rank[x] + 1) - 1 = rank[x]
    BY <1>1, <2>1
  <2>3. InOrder(S)[rank[x] + 1] = x
    BY <1>3, <1>6, <2>2
  <2> QED
    BY <2>2, <2>3
<1> QED
  BY <1>8, <1>9, <1>10 DEF n

-----------------------------------------------------------------------------
(***************************************************************************)
(* A diff of script s with u lines of context.  Its hunks are the runs of  *)
(* lines that are near a change; between them, and behind a run, is no     *)
(* such line.                                                              *)
(***************************************************************************)
StopOf(s, u, i) == Max({j \in Near(s, u) : i..j \subseteq Near(s, u)})

LEMMA NearFacts ==
  ASSUME NEW B, NEW s \in Seq(B), NEW u \in Nat
  PROVE  /\ DOMAIN s = 1..Len(s) /\ Len(s) \in Nat
         /\ Near(s, u) \subseteq 1..Len(s) /\ Changed(s) \subseteq Near(s, u)
         /\ IsFiniteSet(Starts(s, u)) /\ Starts(s, u) \in SUBSET Nat
         /\ Starts(s, u) \subseteq Near(s, u)
<1>1. DOMAIN s = 1..Len(s) /\ Len(s) \in Nat
  BY LenProperties
<1>2. Near(s, u) \subseteq 1..Len(s) /\ Starts(s, u) \subseteq Near(s, u)
  BY <1>1 DEF Near, Starts
<1>3. ASSUME NEW i \in Changed(s)
      PROVE  i \in Near(s, u)
  <2>1. i \in DOMAIN s /\ i \in Int /\ i - i = 0
    BY <1>1 DEF Changed
  <2>2. i - i \in (0 - u)..u
    BY <2>1
  <2> QED
    BY <2>1, <2>2 DEF Near
<1>4. Starts(s, u) \in SUBSET Nat /\ \A i \in Starts(s, u) : i <= Len(s)
  BY <1>1, <1>2
<1>5. IsFiniteSet(Starts(s, u))
  BY <1>1, <1>4, FS_BoundedSetOfNaturals
<1> QED
  BY <1>1, <1>2, <1>3, <1>4, <1>5

(* A run goes from its start to its stop.                                  *)
LEMMA RunFacts ==
  ASSUME NEW B, NEW s \in Seq(B), NEW u \in Nat, NEW i \in Starts(s, u)
  PROVE  /\ i \in 1..Len(s) /\ StopOf(s, u, i) \in i..Len(s)
         /\ i..StopOf(s, u, i) \subseteq Near(s, u)
         /\ StopOf(s, u, i) + 1 \notin Near(s, u)
         /\ i - 1 \notin Near(s, u)
<1> DEFINE N == Near(s, u)
           T == {j \in N : i..j \subseteq N}
           e == StopOf(s, u, i)
<1>1. N \subseteq 1..Len(s) /\ Len(s) \in Nat /\ i \in N /\ i - 1 \notin N
  BY NearFacts DEF Starts
<1> HIDE DEF N
<1>2. T \in SUBSET Nat /\ \A j \in T : j <= Len(s)
  <2>1. \A j \in N : j \in Nat /\ j <= Len(s)
    BY <1>1
  <2>2. \A j \in T : j \in N
    OBVIOUS
  <2> HIDE DEF T
  <2> QED
    BY <2>1, <2>2
<1>3. i \in T
  <2>1. i \in Nat
    BY <1>1
  <2>2. i..i = {i}
    BY <2>1
  <2> QED
    BY <1>1, <2>2
<1>4. e \in T /\ \A j \in T : j <= e
  <2> HIDE DEF T
  <2>1. Max(T) \in T /\ \A j \in T : j <= Max(T)
    BY <1>1, <1>2, <1>3, MaxOf
  <2>2. e = Max(T)
    BY DEF StopOf, T, N
  <2> QED
    BY <2>1, <2>2
<1> HIDE DEF e
<1>5. e + 1 \notin N
  <2> SUFFICES ASSUME e + 1 \in N
               PROVE  FALSE
    OBVIOUS
  <2>1. i \in Nat /\ e \in Nat
    BY <1>1, <1>4
  <2>2. \A m \in i..(e+1) : m \in i..e \/ m = e + 1
    BY <2>1
  <2>3. e + 1 \in T
    BY <1>4, <2>2
  <2> QED
    BY <1>4, <2>1, <2>3
<1>6. e \in i..Len(s)
  BY <1>1, <1>3, <1>4
<1> QED
  BY <1>1, <1>4, <1>5, <1>6 DEF e, N

LEMMA RunsAreApart ==
  ASSUME NEW B, NEW s \in Seq(B), NEW u \in Nat, NEW i \in Starts(s, u), NEW j \in Starts(s, u),
         i < j
  PROVE  StopOf(s, u, i) + 1 < j
<1> DEFINE e == StopOf(s, u, i)
<1>1. /\ i \in Nat /\ j \in Nat /\ e \in Nat /\ j \in Near(s, u)
      /\ i..e \subseteq Near(s, u) /\ e + 1 \notin Near(s, u) /\ j - 1 \notin Near(s, u)
  BY RunFacts, NearFacts
<1> HIDE DEF e
<1>2. j <= e => j - 1 \in i..e
  BY <1>1
<1>3. j # e + 1
  BY <1>1
<1> QED
  BY <1>1, <1>2, <1>3 DEF e

LEMMA NearIsInRun ==
  ASSUME NEW B, NEW s \in Seq(B), NEW u \in Nat, NEW x \in Near(s, u)
  PROVE  \E i \in Starts(s, u) : i <= x /\ x <= StopOf(s, u, i)
<1> DEFINE N == Near(s, u)
           T == {i \in 1..x : i..x \subseteq N}
<1>1. N \subseteq 1..Len(s) /\ Len(s) \in Nat /\ x \in N
  BY NearFacts
<1> HIDE DEF N
<1>2. T \in SUBSET Nat /\ x \in T
  BY <1>1
<1>3. PICK i \in T : \A j \in T : i <= j
  BY <1>2, LeastNumber
<1>4. i - 1 \notin N
  <2> SUFFICES ASSUME i - 1 \in N
               PROVE  FALSE
    OBVIOUS
  <2>1. i \in Nat /\ x \in Nat /\ i - 1 \in 1..x
    BY <1>1, <1>3
  <2>2. \A m \in (i-1)..x : m \in i..x \/ m = i - 1
    BY <2>1
  <2>3. i - 1 \in T
    BY <1>3, <2>1, <2>2
  <2> QED
    BY <1>3, <2>1, <2>3
<1>5. i \in N
  BY <1>1, <1>3
<1>6. i \in Starts(s, u)
  BY <1>4, <1>5 DEF N, Starts
<1>7. /\ i \in Nat /\ x \in Nat /\ StopOf(s, u, i) \in Nat
      /\ StopOf(s, u, i) + 1 \notin N /\ StopOf(s, u, i) \in i..Len(s)
  BY <1>1, <1>3, <1>6, RunFacts DEF N
<1>8. x <= StopOf(s, u, i)
  <2> SUFFICES ASSUME ~ (x <= StopOf(s, u, i))
               PROVE  FALSE
    OBVIOUS
  <2>1. StopOf(s, u, i) + 1 \in i..x
    BY <1>7
  <2> QED
    BY <1>3, <1>7, <2>1
<1> QED
  BY <1>3, <1>6, <1>7, <1>8

(* The runs in order: where the k-th starts, and where it stops.           *)
Order(s, u) == InOrder(Starts(s, u))
RunFirst(s, u, k) == IF k \in 1..Len(Order(s, u)) THEN Order(s, u)[k] ELSE Len(s) + 1
RunLast(s, u, k) == IF k = 0 THEN 0 ELSE StopOf(s, u, Order(s, u)[k])

LEMMA OrderFacts ==
  ASSUME NEW B, NEW s \in Seq(B), NEW u \in Nat
  PROVE  /\ Order(s, u) \in Seq(Starts(s, u)) /\ Len(Order(s, u)) \in Nat
         /\ \A k \in 1..Len(Order(s, u)) : Order(s, u)[k] \in Starts(s, u)
         /\ \A i, j \in 1..Len(Order(s, u)) : i < j => Order(s, u)[i] < Order(s, u)[j]
         /\ \A x \in Starts(s, u) : \E i \in 1..Len(Order(s, u)) : Order(s, u)[i] = x
<1>1. IsFiniteSet(Starts(s, u)) /\ Starts(s, u) \in SUBSET Nat
  BY NearFacts
<1>2. /\ Order(s, u) \in Seq(Starts(s, u))
      /\ \A i, j \in 1..Len(Order(s, u)) : i < j => Order(s, u)[i] < Order(s, u)[j]
      /\ \A x \in Starts(s, u) : \E i \in 1..Len(Order(s, u)) : Order(s, u)[i] = x
  BY <1>1, InOrderEnumerates DEF Order
<1>3. Len(Order(s, u)) \in Nat
      /\ \A k \in 1..Len(Order(s, u)) : Order(s, u)[k] \in Starts(s, u)
  BY <1>2, LenProperties, ElementOfSeq
<1> QED
  BY <1>2, <1>3

(* Between two runs, before the first and behind the last all is context.  *)
LEMMA GapsAreContext ==
  ASSUME NEW B, NEW s \in Seq(B), NEW u \in Nat, NEW k \in 0..Len(Order(s, u))
  PROVE  /\ RunLast(s, u, k) \in 0..Len(s) /\ RunFirst(s, u, k + 1) \in 1..(Len(s) + 1)
         /\ RunLast(s, u, k) < RunFirst(s, u, k + 1)
         /\ k > 0 => RunLast(s, u, k) + 1 < RunFirst(s, u, k + 1) \/ RunLast(s, u, k) = Len(s)
         /\ \A j \in (RunLast(s, u, k) + 1)..(RunFirst(s, u, k + 1) - 1) :
              j \notin Near(s, u) /\ s[j].kind = "context"
<1> DEFINE q == Order(s, u)
           e == RunLast(s, u, k)
           b == RunFirst(s, u, k + 1)
<1>1. /\ DOMAIN s = 1..Len(s) /\ Len(s) \in Nat /\ Len(q) \in Nat
      /\ Changed(s) \subseteq Near(s, u)
  BY NearFacts, OrderFacts
<1>2. \A x \in 1..Len(q) : /\ q[x] \in Starts(s, u)
                           /\ q[x] \in 1..Len(s) /\ StopOf(s, u, q[x]) \in q[x]..Len(s)
  BY OrderFacts, RunFacts
<1>3. \A x, y \in 1..Len(q) : x < y => StopOf(s, u, q[x]) + 1 < q[y]
  BY <1>2, OrderFacts, RunsAreApart
<1> HIDE DEF q
<1>4. e \in 0..Len(s) /\ (k # 0 => k \in 1..Len(q) /\ e = StopOf(s, u, q[k]))
  BY <1>1, <1>2 DEF RunLast, q
<1>5. b \in 1..(Len(s) + 1) /\ (b # Len(s) + 1 => k + 1 \in 1..Len(q) /\ b = q[k+1])
      /\ (k + 1 \in 1..Len(q) => b = q[k+1])
  BY <1>1, <1>2 DEF RunFirst, q
<1>6. k + 1 \in 1..Len(q) \/ k = Len(q)
  BY <1>1 DEF q
<1> HIDE DEF e, b
<1>7. e < b /\ (k > 0 => e + 1 < b \/ e = Len(s))
  <2>1. CASE k + 1 \in 1..Len(q) /\ k # 0
    <3>1. StopOf(s, u, q[k]) + 1 < q[k+1] /\ k < k + 1
      BY <1>1, <1>3, <1>4, <2>1
    <3> QED
      BY <1>4, <1>5, <2>1, <3>1
  <2>2. CASE k = 0
    <3>1. e = 0
      BY <2>2 DEF e, RunLast
    <3> QED
      BY <1>1, <1>4, <1>5, <2>2, <3>1
  <2>3. CASE k = Len(q)
    <3>1. k + 1 \notin 1..Len(q)
      BY <1>1, <2>3
    <3>2. b = Len(s) + 1
      BY <1>5, <3>1
    <3>3. e \in 0..Len(s) /\ Len(s) \in Nat
      BY <1>1, <1>4
    <3> QED
      BY <3>2, <3>3
  <2> QED
    BY <1>6, <2>1, <2>2, <2>3
<1>8. ASSUME NEW j \in (e+1)..(b-1)
      PROVE  j \notin Near(s, u)
  <2> SUFFICES ASSUME j \in Near(s, u)
               PROVE  FALSE
    OBVIOUS
  <2>1. PICK i \in Starts(s, u) : i <= j /\ j <= StopOf(s, u, i)
    BY NearIsInRun
  <2>2. PICK x \in 1..Len(q) : q[x] = i
    BY OrderFacts DEF q
  <2>3. /\ j \in Int /\ e \in Int /\ b \in Int /\ k \in Int /\ x \in Int
        /\ e < j /\ j < b
    BY <1>4, <1>5
  <2>4. CASE x = k
    BY <1>4, <2>1, <2>2, <2>3, <2>4
  <2>5. CASE x < k
    <3>1. k \in 1..Len(q)
      BY <1>1, <1>4, <2>2, <2>3, <2>5
    <3>2. StopOf(s, u, q[x]) + 1 < q[k] /\ q[k] <= e
      BY <1>2, <1>3, <1>4, <2>5, <3>1
    <3>3. StopOf(s, u, q[x]) \in Int /\ q[k] \in Int
      BY <1>2, <3>1
    <3> QED
      BY <2>1, <2>2, <2>3, <3>2, <3>3
  <2>6. CASE x = k + 1
    BY <1>5, <2>1, <2>2, <2>3, <2>6
  <2>7. CASE x > k + 1
    <3>1. k + 1 \in 1..Len(q) /\ k + 1 < x
      BY <1>1, <2>2, <2>3, <2>7
    <3>2. StopOf(s, u, q[k+1]) + 1 < q[x] /\ b = q[k+1]
      BY <1>3, <1>5, <3>1
    <3>3. StopOf(s, u, q[k+1]) >= q[k+1] /\ StopOf(s, u, q[k+1]) \in Int /\ q[x] \in Int
          /\ q[k+1] \in Int
      BY <1>2, <3>1
    <3> QED
      BY <2>1, <2>2, <2>3, <3>2, <3>3
  <2> QED
    BY <2>3, <2>4, <2>5, <2>6, <2>7
<1>9. ASSUME NEW j \in (e+1)..(b-1)
      PROVE  s[j].kind = "context"
  <2>1. j \in DOMAIN s
    BY <1>1, <1>4, <1>5
  <2>2. j \notin Changed(s)
    BY <1>1, <1>8
  <2> QED
    BY <2>1, <2>2 DEF Changed
<1> QED
  BY <1>4, <1>5, <1>7, <1>8, <1>9 DEF e, b

-----------------------------------------------------------------------------
(***************************************************************************)
(* The lines of a part of the script, in the old text and in the new.      *)
(***************************************************************************)
OldPart(s, i, j) == OldLines(SubSeq(s, i, j))
NewPart(s, i, j) == NewLines(SubSeq(s, i, j))

LEMMA PartOfScript ==
  ASSUME NEW B, NEW s \in Seq(B), NEW i \in 1..(Len(s) + 1), NEW j \in (i-1)..Len(s)
  PROVE  /\ SubSeq(s, i, j) \in Seq(B) /\ Len(SubSeq(s, i, j)) = j - i + 1
         /\ \A m \in 1..(j - i + 1) : SubSeq(s, i, j)[m] = s[m + i - 1] /\ m + i - 1 \in i..j
<1>1. i \in Int /\ j \in Int /\ Len(s) \in Nat /\ \A m \in i..j : s[m] \in B
  BY LenProperties, ElementOfSeq
<1>2. /\ SubSeq(s, i, j) \in Seq(B)
      /\ Len(SubSeq(s, i, j)) = IF i <= j THEN j - i + 1 ELSE 0
      /\ \A m \in 1..(j - i + 1) : SubSeq(s, i, j)[m] = s[i + m - 1]
  BY <1>1, SubSeqProperties
<1>3. \A m \in 1..(j - i + 1) : m + i - 1 = i + m - 1 /\ m + i - 1 \in i..j
  BY <1>1
<1>4. i <= j \/ j - i + 1 = 0
  BY <1>1
<1> QED
  BY <1>1, <1>2, <1>3, <1>4

LEMMA PartType ==
  ASSUME NEW B, NEW s \in Seq(B), NEW i \in 1..(Len(s) + 1), NEW j \in (i-1)..Len(s),
         NEW L, \A e \in B : e.line \in L
  PROVE  /\ OldPart(s, i, j) \in Seq(L) /\ NewPart(s, i, j) \in Seq(L)
         /\ Len(OldPart(s, i, j)) \in Nat /\ Len(NewPart(s, i, j)) \in Nat
<1>1. SubSeq(s, i, j) \in Seq(B)
  BY PartOfScript
<1>2. OldPart(s, i, j) \in Seq(L) /\ NewPart(s, i, j) \in Seq(L)
  BY <1>1, LinesButType DEF OldPart, NewPart, OldLines, NewLines
<1> QED
  BY <1>2, LenProperties

LEMMA PartsJoin ==
  ASSUME NEW B, NEW s \in Seq(B), NEW i \in 1..(Len(s) + 1), NEW j \in (i-1)..Len(s),
         NEW k \in j..Len(s)
  PROVE  /\ OldPart(s, i, k) = OldPart(s, i, j) \o OldPart(s, j + 1, k)
         /\ NewPart(s, i, k) = NewPart(s, i, j) \o NewPart(s, j + 1, k)
<1>1. Len(s) \in Nat
  BY LenProperties
<1>2. j + 1 \in 1..(Len(s) + 1) /\ k \in ((j + 1) - 1)..Len(s)
  BY <1>1
<1>3. SubSeq(s, i, j) \in Seq(B) /\ SubSeq(s, j + 1, k) \in Seq(B)
  BY <1>2, PartOfScript
<1>4. SubSeq(s, i, j) \o SubSeq(s, j + 1, k) = SubSeq(s, i, k)
  BY ConcatAdjacentSubSeq
<1> DEFINE a == SubSeq(s, i, j)
           b == SubSeq(s, j + 1, k)
<1> HIDE DEF a, b
<1>5. \A kind : LinesBut(a \o b, kind) = LinesBut(a, kind) \o LinesBut(b, kind)
  <2> TAKE kind
  <2>1. a \in Seq(B) /\ b \in Seq(B)
    BY <1>3 DEF a, b
  <2> QED
    BY <2>1, LinesButConcat
<1>6. a \o b = SubSeq(s, i, k)
  BY <1>4 DEF a, b
<1> QED
  BY <1>5, <1>6 DEF a, b, OldPart, NewPart, OldLines, NewLines

LEMMA PartOfContext ==
  ASSUME NEW B, NEW s \in Seq(B), NEW i \in 1..(Len(s) + 1), NEW j \in (i-1)..Len(s),
         \A m \in i..j : s[m].kind = "context"
  PROVE  OldPart(s, i, j) = NewPart(s, i, j)
<1> DEFINE b == SubSeq(s, i, j)
<1>1. b \in Seq(B) /\ \A m \in 1..Len(b) : b[m].kind = "context"
  BY PartOfScript
<1> HIDE DEF b
<1>2. OldLines(b) = NewLines(b)
  BY <1>1, ContextIsSame
<1> QED
  BY <1>2 DEF b, OldPart, NewPart

LEMMA PartIsSome ==
  ASSUME NEW B, NEW s \in Seq(B), NEW i \in 1..(Len(s) + 1), NEW j \in (i-1)..Len(s)
  PROVE  /\ OldPart(s, i, j) = << >> <=> \A m \in i..j : s[m].kind = "add"
         /\ NewPart(s, i, j) = << >> <=> \A m \in i..j : s[m].kind = "remove"
<1> DEFINE b == SubSeq(s, i, j)
<1>1. i \in Int /\ j \in Int
  BY LenProperties
<1>2. /\ b \in Seq(B) /\ Len(b) = j - i + 1
      /\ \A m \in 1..(j - i + 1) : b[m] = s[m + i - 1] /\ m + i - 1 \in i..j
  BY PartOfScript
<1> HIDE DEF b
<1>3. ASSUME NEW kind
      PROVE  (\A m \in 1..Len(b) : b[m].kind = kind) <=> (\A m \in i..j : s[m].kind = kind)
  <2>1. ASSUME \A m \in i..j : s[m].kind = kind
        PROVE  \A m \in 1..Len(b) : b[m].kind = kind
    <3> SUFFICES ASSUME NEW m \in 1..Len(b)
                 PROVE  b[m].kind = kind
      OBVIOUS
    <3>1. b[m] = s[m + i - 1] /\ m + i - 1 \in i..j
      BY <1>2
    <3> QED
      BY <2>1, <3>1
  <2>2. ASSUME \A m \in 1..Len(b) : b[m].kind = kind, NEW m \in i..j
        PROVE  s[m].kind = kind
    <3>1. m - i + 1 \in 1..(j - i + 1) /\ (m - i + 1) + i - 1 = m
      BY <1>1
    <3> QED
      BY <1>2, <2>2, <3>1
  <2> QED
    BY <2>1, <2>2
<1>4. \A kind : LinesBut(b, kind) = << >> <=> \A m \in 1..Len(b) : b[m].kind = kind
  BY <1>2, LinesButNone
<1>5. LinesBut(b, "add") = << >> <=> \A m \in i..j : s[m].kind = "add"
  BY <1>3, <1>4
<1>6. LinesBut(b, "remove") = << >> <=> \A m \in i..j : s[m].kind = "remove"
  BY <1>3, <1>4
<1> QED
  BY <1>5, <1>6 DEF b, OldPart, NewPart, OldLines, NewLines

LEMMA WholeScript ==
  ASSUME NEW B, NEW s \in Seq(B)
  PROVE  /\ OldPart(s, 1, Len(s)) = OldLines(s) /\ NewPart(s, 1, Len(s)) = NewLines(s)
         /\ OldPart(s, 1, 0) = << >> /\ NewPart(s, 1, 0) = << >>
<1>1. SubSeq(s, 1, Len(s)) = s /\ SubSeq(s, 1, 0) = << >>
  BY FirstOfFirst
<1>2. LinesBut(<< >>, "add") = << >> /\ LinesBut(<< >>, "remove") = << >>
  BY LinesButEmpty
<1> QED
  BY <1>1, <1>2 DEF OldPart, NewPart, OldLines, NewLines

(* The last line that is not of one kind.                                  *)
LEMMA LastOfFacts ==
  ASSUME NEW B, NEW s \in Seq(B), NEW but
  PROVE  /\ LastOf(s, but) \in 0..Len(s)
         /\ LastOf(s, but) # 0 => s[LastOf(s, but)].kind # but
         /\ \A i \in 1..Len(s) : s[i].kind # but => i <= LastOf(s, but)
<1> DEFINE T == {i \in DOMAIN s : s[i].kind # but} \cup {0}
<1>1. DOMAIN s = 1..Len(s) /\ Len(s) \in Nat
  BY LenProperties
<1>2. T \in SUBSET Nat /\ T # {} /\ \A i \in T : i <= Len(s)
  BY <1>1
<1>3. Max(T) \in T /\ \A i \in T : i <= Max(T)
  <2> HIDE DEF T
  <2> QED
    BY <1>1, <1>2, MaxOf
<1>4. LastOf(s, but) = Max(T)
  BY DEF LastOf
<1> QED
  BY <1>1, <1>3, <1>4

LEMMA LastOfIs ==
  ASSUME NEW B, NEW s \in Seq(B), NEW but, NEW m \in 0..Len(s),
         m # 0 => s[m].kind # but, \A i \in 1..Len(s) : s[i].kind # but => i <= m
  PROVE  LastOf(s, but) = m
<1>1. /\ LastOf(s, but) \in 0..Len(s) /\ Len(s) \in Nat
      /\ LastOf(s, but) # 0 => s[LastOf(s, but)].kind # but
      /\ \A i \in 1..Len(s) : s[i].kind # but => i <= LastOf(s, but)
  BY LastOfFacts, LenProperties
<1> DEFINE x == LastOf(s, but)
<1> HIDE DEF x
<1>2. x # 0 => x <= m
  BY <1>1 DEF x
<1>3. m # 0 => m <= x
  BY <1>1 DEF x
<1> QED
  BY <1>1, <1>2, <1>3 DEF x

-----------------------------------------------------------------------------
(***************************************************************************)
(* A fold of the hunks of a patch, applied or merged.  The recursive       *)
(* function of the fold exists on the sets of the first n hunks' numbers:  *)
(* one for n gives one for n + 1.                                          *)
(***************************************************************************)
HunkStep(merging, s, h) == IF merging THEN MergeHunk(s, h) ELSE ApplyHunk(s, h)

Folded(f, n, merging, base, hs) ==
  \A S \in SUBSET (1..n) :
    f[S] = IF S = {} THEN base ELSE HunkStep(merging, f[S \ {Max(S)}], hs[Max(S)])

LEMMA MaxOfFirst ==
  ASSUME NEW n \in Nat, NEW S \in SUBSET (1..n)
  PROVE  /\ S # {} => Max(S) \in S /\ Max(S) \in 1..n
         /\ n \in S => Max(S) = n
<1>1. S # {} => Max(S) \in S /\ \A y \in S : y <= Max(S)
  <2>1. S \in SUBSET Nat /\ \A y \in S : y <= n
    OBVIOUS
  <2> QED
    BY <2>1, MaxOf
<1>2. \A y \in S : y \in Nat /\ y \in 1..n /\ y <= n
  OBVIOUS
<1> DEFINE x == Max(S)
<1> HIDE DEF x
<1>3. /\ S # {} => x \in S /\ \A y \in S : y <= x
      /\ n \in S => S # {}
  BY <1>1 DEF x
<1>4. S # {} => x \in S /\ x \in 1..n
  BY <1>2, <1>3
<1>5. n \in S => x = n
  <2> SUFFICES ASSUME n \in S
               PROVE  x = n
    OBVIOUS
  <2>1. x \in S /\ n <= x
    BY <1>3
  <2>2. x \in Nat /\ x <= n
    BY <1>2, <2>1
  <2> QED
    BY <2>1, <2>2
<1> QED
  BY <1>4, <1>5 DEF x

LEMMA FoldExists ==
  ASSUME NEW merging, NEW base, NEW hs, NEW n \in Nat
  PROVE  \E f : Folded(f, n, merging, base, hs)
<1> DEFINE T == {m \in Nat : \E f : Folded(f, m, merging, base, hs)}
<1>1. 0 \in T
  <2>1. 1..0 = {}
    OBVIOUS
  <2>2. Folded([S \in SUBSET (1..0) |-> base], 0, merging, base, hs)
    BY <2>1 DEF Folded
  <2> QED
    BY <2>2
<1>2. ASSUME NEW m \in Nat, m \in T
      PROVE  m + 1 \in T
  <2>1. PICK g : Folded(g, m, merging, base, hs)
    BY <1>2
  <2> DEFINE f == [S \in SUBSET (1..(m+1)) |->
                     IF m + 1 \in S THEN HunkStep(merging, g[S \ {m+1}], hs[m+1]) ELSE g[S]]
  <2>2. ASSUME NEW S \in SUBSET (1..m)
        PROVE  f[S] = g[S] /\ S \in SUBSET (1..(m+1))
    BY <2>1
  <2>3. ASSUME NEW S \in SUBSET (1..(m+1))
        PROVE  f[S] = IF S = {} THEN base
                      ELSE HunkStep(merging, f[S \ {Max(S)}], hs[Max(S)])
    <3>1. CASE m + 1 \in S
      <4>1. Max(S) = m + 1 /\ S # {}
        BY <3>1, MaxOfFirst
      <4>2. S \ {m+1} \in SUBSET (1..m)
        OBVIOUS
      <4>3. f[S \ {m+1}] = g[S \ {m+1}]
        BY <2>2, <4>2
      <4>4. f[S] = HunkStep(merging, g[S \ {m+1}], hs[m+1])
        BY <3>1
      <4> QED
        BY <4>1, <4>3, <4>4
    <3>2. CASE m + 1 \notin S
      <4>1. S \in SUBSET (1..m)
        BY <3>2
      <4>2. S \ {Max(S)} \in SUBSET (1..m)
        BY <4>1
      <4>3. f[S] = g[S] /\ f[S \ {Max(S)}] = g[S \ {Max(S)}]
        BY <2>2, <4>1, <4>2
      <4>4. g[S] = IF S = {} THEN base
                   ELSE HunkStep(merging, g[S \ {Max(S)}], hs[Max(S)])
        BY <2>1, <4>1 DEF Folded
      <4> HIDE DEF f
      <4> QED
        BY <4>3, <4>4
    <3> QED
      BY <3>1, <3>2
  <2>4. Folded(f, m + 1, merging, base, hs)
    <3> HIDE DEF f
    <3> QED
      BY <2>3 DEF Folded
  <2> QED
    BY <2>4
<1>3. Nat \subseteq T
  BY <1>1, <1>2, NumberInduction
<1> QED
  BY <1>3

(* The states that a fold goes through.                                    *)
Through(F, merging, base, hs) ==
  /\ F[0] = base
  /\ \A k \in 1..Len(hs) : F[k] = HunkStep(merging, F[k-1], hs[k])

LEMMA FoldThrough ==
  ASSUME NEW merging, NEW base, NEW hs, Len(hs) \in Nat,
         NEW f, Folded(f, Len(hs), merging, base, hs)
  PROVE  \E F : Through(F, merging, base, hs) /\ F[Len(hs)] = f[1..Len(hs)]
<1> DEFINE n == Len(hs)
           F == [k \in 0..n |-> f[1..k]]
<1>1. F[n] = f[1..n]
  OBVIOUS
<1>2. F[0] = base
  <2>1. 1..0 = {} /\ {} \in SUBSET (1..n)
    OBVIOUS
  <2>2. f[{}] = base
    BY <2>1 DEF Folded
  <2> QED
    BY <2>1, <2>2
<1>3. ASSUME NEW k \in 1..n
      PROVE  F[k] = HunkStep(merging, F[k-1], hs[k])
  <2>1. 1..k \in SUBSET (1..n) /\ k \in 1..k /\ k \in Nat
    OBVIOUS
  <2>2. Max(1..k) = k /\ 1..k # {}
    <3>1. 1..k \in SUBSET (1..k)
      OBVIOUS
    <3> QED
      BY <2>1, <3>1, MaxOfFirst
  <2>3. (1..k) \ {k} = 1..(k-1)
    OBVIOUS
  <2>4. f[1..k] = HunkStep(merging, f[(1..k) \ {Max(1..k)}], hs[Max(1..k)])
    BY <2>1, <2>2 DEF Folded
  <2>5. k - 1 \in 0..n /\ k \in 0..n
    OBVIOUS
  <2> QED
    BY <2>2, <2>3, <2>4, <2>5
<1> HIDE DEF F
<1>4. Through(F, merging, base, hs)
  BY <1>2, <1>3 DEF Through
<1> QED
  BY <1>1, <1>4

LEMMA ApplyFold ==
  ASSUME NEW base, NEW H, NEW hs \in Seq(H)
  PROVE  \E F : Through(F, FALSE, base, hs) /\ FoldLeft(ApplyHunk, base, hs) = F[Len(hs)]
<1> DEFINE n == Len(hs)
           rec(f) == [S \in SUBSET (DOMAIN hs) |->
                        IF S = {} THEN base ELSE ApplyHunk(f[S \ {Max(S)}], hs[Max(S)])]
           iter == CHOOSE f : f = rec(f)
<1>1. n \in Nat /\ DOMAIN hs = 1..n
  BY LenProperties
<1>2. PICK g : Folded(g, n, FALSE, base, hs)
  BY <1>1, FoldExists
<1> DEFINE h == [S \in SUBSET (1..n) |-> g[S]]
<1>3. h = rec(h)
  <2>1. \A S \in SUBSET (1..n) : S \ {Max(S)} \in SUBSET (1..n)
    OBVIOUS
  <2>2. \A S \in SUBSET (1..n) : h[S] = IF S = {} THEN base
                                   ELSE ApplyHunk(h[S \ {Max(S)}], hs[Max(S)])
    BY <1>2, <2>1 DEF Folded, HunkStep
  <2> QED
    BY <1>1, <2>2
<1>4. iter = rec(iter)
  BY <1>3
<1>5. FoldLeft(ApplyHunk, base, hs) = iter[1..n]
  BY <1>1 DEF FoldLeft, MapThenFoldSet
<1> HIDE DEF iter
<1>6. Folded(iter, n, FALSE, base, hs)
  BY <1>1, <1>4 DEF Folded, HunkStep
<1>7. \E F : Through(F, FALSE, base, hs) /\ F[Len(hs)] = iter[1..Len(hs)]
  BY <1>1, <1>6, FoldThrough, Zenon
<1> QED
  BY <1>5, <1>7

LEMMA MergeFold ==
  ASSUME NEW base, NEW H, NEW hs \in Seq(H)
  PROVE  \E F : Through(F, TRUE, base, hs) /\ FoldLeft(MergeHunk, base, hs) = F[Len(hs)]
<1> DEFINE n == Len(hs)
           rec(f) == [S \in SUBSET (DOMAIN hs) |->
                        IF S = {} THEN base ELSE MergeHunk(f[S \ {Max(S)}], hs[Max(S)])]
           iter == CHOOSE f : f = rec(f)
<1>1. n \in Nat /\ DOMAIN hs = 1..n
  BY LenProperties
<1>2. PICK g : Folded(g, n, TRUE, base, hs)
  BY <1>1, FoldExists
<1> DEFINE h == [S \in SUBSET (1..n) |-> g[S]]
<1>3. h = rec(h)
  <2>1. \A S \in SUBSET (1..n) : S \ {Max(S)} \in SUBSET (1..n)
    OBVIOUS
  <2>2. \A S \in SUBSET (1..n) : h[S] = IF S = {} THEN base
                                   ELSE MergeHunk(h[S \ {Max(S)}], hs[Max(S)])
    BY <1>2, <2>1 DEF Folded, HunkStep
  <2> QED
    BY <1>1, <2>2
<1>4. iter = rec(iter)
  BY <1>3
<1>5. FoldLeft(MergeHunk, base, hs) = iter[1..n]
  BY <1>1 DEF FoldLeft, MapThenFoldSet
<1> HIDE DEF iter
<1>6. Folded(iter, n, TRUE, base, hs)
  BY <1>1, <1>4 DEF Folded, HunkStep
<1>7. \E F : Through(F, TRUE, base, hs) /\ F[Len(hs)] = iter[1..Len(hs)]
  BY <1>1, <1>6, FoldThrough, Zenon
<1> QED
  BY <1>5, <1>7

-----------------------------------------------------------------------------
(***************************************************************************)
(* A hunk in its place.                                                    *)
(***************************************************************************)
LEMMA FoundAtOnce ==
  ASSUME NEW L, NEW src \in Seq(L), NEW needle \in Seq(L), NEW p \in Nat,
         AtPos(src, p, needle)
  PROVE  FindMatch(src, needle, p) = p
<1>1. Len(src) \in Nat /\ Len(needle) \in Nat /\ p <= Len(src)
  BY LenProperties DEF AtPos
<1>2. CASE needle = << >>
  BY <1>1, <1>2 DEF FindMatch, Clamp
<1>3. CASE needle # << >>
  <2> DEFINE near == {d \in 0..FUZZ_RANGE : \/ AtPos(src, p + d, needle)
                                            \/ AtPos(src, p - d, needle)}
  <2>1. 0 \in near
    <3>1. p + 0 = p /\ 0 \in 0..FUZZ_RANGE
      BY FuzzAssumption
    <3> QED
      BY <3>1
  <2>2. Min(near) = 0
    <3>1. near \in SUBSET Nat
      BY FuzzAssumption
    <3>2. Min(near) \in near /\ Min(near) <= 0
      <4> HIDE DEF near
      <4> QED
        BY <2>1, <3>1, MinOf
    <3>3. Min(near) \in Nat
      <4> HIDE DEF near
      <4> QED
        BY <3>1, <3>2
    <3> QED
      BY <3>2, <3>3
  <2>3. FindMatch(src, needle, p) =
          IF near = {} THEN Nowhere
          ELSE IF AtPos(src, p + Min(near), needle) THEN p + Min(near) ELSE p - Min(near)
    BY <1>3 DEF FindMatch
  <2> HIDE DEF near
  <2>4. near # {} /\ p + Min(near) = p
    BY <2>1, <2>2
  <2> QED
    BY <2>3, <2>4
<1> QED
  BY <1>2, <1>3

LEMMA SpliceMiddle ==
  ASSUME NEW L, NEW A \in Seq(L), NEW M \in Seq(L), NEW C \in Seq(L), NEW N \in Seq(L)
  PROVE  /\ AtPos((A \o M) \o C, Len(A), M)
         /\ Splice((A \o M) \o C, Len(A), Len(M), N) = (A \o N) \o C
         /\ Len((A \o M) \o C) = Len(A) + Len(M) + Len(C)
         /\ (A \o M) \o C \in Seq(L)
<1> DEFINE a == Len(A)
           m == Len(M)
           c == Len(C)
           AM == A \o M
           X == AM \o C
<1>1. a \in Nat /\ m \in Nat /\ c \in Nat
  BY LenProperties
<1>2. AM \in Seq(L) /\ Len(AM) = a + m
      /\ \A i \in 1..(a + m) : AM[i] = IF i <= a THEN A[i] ELSE M[i - a]
  BY ConcatProperties
<1>3. X \in Seq(L) /\ Len(X) = a + m + c
      /\ \A i \in 1..(a + m + c) : X[i] = IF i <= a + m THEN AM[i] ELSE C[i - (a + m)]
  BY <1>2, ConcatProperties
<1> HIDE DEF a, m, c, AM, X
<1>4. \A i \in 1..a : i \in 1..(a+m) /\ i \in 1..(a+m+c)
  BY <1>1
<1>5. \A i \in 1..m : a + i \in 1..(a+m) /\ a + i \in 1..(a+m+c) /\ ~(a + i <= a) /\ a + i - a = i
  BY <1>1
<1>6. \A i \in 1..c : a + m + i \in 1..(a+m+c) /\ ~(a + m + i <= a + m) /\ a + m + i - (a + m) = i
  BY <1>1
<1>7. \A i \in 1..a : X[i] = A[i]
  BY <1>1, <1>2, <1>3, <1>4
<1>8. \A i \in 1..m : X[a + i] = M[i]
  BY <1>1, <1>2, <1>3, <1>5
<1>9. \A i \in 1..c : X[a + m + i] = C[i]
  BY <1>1, <1>3, <1>6
<1>10. \A i \in 1..(a+m+c) : X[i] \in L
  BY <1>3, ElementOfSeq
<1>11. SubSeq(X, 1, a) = A
  <2>1. /\ SubSeq(X, 1, a) \in Seq(L)
        /\ Len(SubSeq(X, 1, a)) = a
        /\ \A i \in 1..a : SubSeq(X, 1, a)[i] = X[i]
    <3>1. 1 \in 1..(Len(X) + 1) /\ a \in (1-1)..Len(X) /\ X \in Seq(L)
      BY <1>1, <1>3
    <3>2. /\ SubSeq(X, 1, a) \in Seq(L) /\ Len(SubSeq(X, 1, a)) = a - 1 + 1
          /\ \A i \in 1..(a - 1 + 1) : SubSeq(X, 1, a)[i] = X[i + 1 - 1]
      BY <3>1, PartOfScript
    <3> QED
      BY <1>1, <3>2
  <2>2. Len(SubSeq(X, 1, a)) = Len(A)
    BY <1>1, <2>1 DEF a
  <2>3. \A i \in 1..Len(A) : SubSeq(X, 1, a)[i] = A[i]
    BY <1>1, <1>7, <2>1 DEF a
  <2> QED
    BY <2>1, <2>2, <2>3, SeqEqual
<1>12. SubSeq(X, a + 1, a + m) = M
  <2> DEFINE b == a + 1
             e == a + m
  <2>1. /\ SubSeq(X, a + 1, a + m) \in Seq(L)
        /\ Len(SubSeq(X, a + 1, a + m)) = m
        /\ \A i \in 1..m : SubSeq(X, a + 1, a + m)[i] = X[a + i]
    <3>1. b \in 1..(Len(X) + 1) /\ e \in (b-1)..Len(X) /\ X \in Seq(L)
      BY <1>1, <1>3
    <3> HIDE DEF b, e
    <3>2. /\ SubSeq(X, b, e) \in Seq(L) /\ Len(SubSeq(X, b, e)) = e - b + 1
          /\ \A i \in 1..(e - b + 1) : SubSeq(X, b, e)[i] = X[i + b - 1]
      BY <3>1, PartOfScript
    <3>3. e - b + 1 = m /\ \A i \in 1..m : i + b - 1 = a + i
      BY <1>1 DEF b, e
    <3>4. /\ SubSeq(X, b, e) \in Seq(L) /\ Len(SubSeq(X, b, e)) = m
          /\ \A i \in 1..m : SubSeq(X, b, e)[i] = X[a + i]
      BY <3>2, <3>3
    <3> QED
      BY <3>4 DEF b, e
  <2>2. Len(SubSeq(X, a + 1, a + m)) = Len(M)
    BY <1>1, <2>1 DEF m
  <2>3. \A i \in 1..Len(M) : SubSeq(X, a + 1, a + m)[i] = M[i]
    BY <1>8, <2>1 DEF m
  <2> QED
    BY <2>1, <2>2, <2>3, SeqEqual
<1>13. SubSeq(X, a + m + 1, Len(X)) = C
  <2> DEFINE z == a + m + c
  <2>0. Len(X) = z /\ z \in Int
    BY <1>1, <1>3
  <2>1. /\ SubSeq(X, a + m + 1, z) \in Seq(L)
        /\ Len(SubSeq(X, a + m + 1, z)) = IF a + m + 1 <= z THEN z - (a + m + 1) + 1 ELSE 0
        /\ \A i \in 1..(z - (a + m + 1) + 1) : SubSeq(X, a + m + 1, z)[i] = X[a + m + 1 + i - 1]
    <3>1. a + m + 1 \in Int /\ z \in Int /\ \A i \in (a+m+1)..z : X[i] \in L
      BY <1>1, <1>10
    <3> QED
      BY <3>1, SubSeqProperties
  <2>2. Len(SubSeq(X, a + m + 1, z)) = Len(C)
    BY <1>1, <2>1 DEF c
  <2>3. \A i \in 1..Len(C) : SubSeq(X, a + m + 1, z)[i] = C[i]
    <3>1. \A i \in 1..c : i \in 1..(z - (a + m + 1) + 1) /\ a + m + 1 + i - 1 = a + m + i
      BY <1>1
    <3> QED
      BY <1>9, <2>1, <3>1 DEF c
  <2> QED
    BY <2>0, <2>1, <2>2, <2>3, SeqEqual
<1>14. AtPos(X, a, M)
  BY <1>1, <1>3, <1>12 DEF AtPos, m
<1>15. Splice(X, a, m, N) = (A \o N) \o C
  BY <1>11, <1>13 DEF Splice
<1> QED
  BY <1>3, <1>14, <1>15 DEF a, m, c, AM, X

(* The k-th hunk of a diff.                                                *)
LEMMA DiffHunks ==
  ASSUME NEW B, NEW s \in Seq(B), NEW u \in Nat, NEW oe, NEW ne
  PROVE  /\ \E H : Diff(s, u, oe, ne) \in Seq(H)
         /\ DOMAIN Diff(s, u, oe, ne) = 1..Len(Order(s, u))
         /\ Len(Diff(s, u, oe, ne)) = Len(Order(s, u))
         /\ \A k \in 1..Len(Order(s, u)) :
              LET b == RunFirst(s, u, k)
                  e == RunLast(s, u, k)
                  before == Len(OldPart(s, 1, b - 1))
              IN  /\ b \in 1..Len(s) /\ e \in b..Len(s)
                  /\ Diff(s, u, oe, ne)[k] =
                       Hunk(IF OldPart(s, b, e) = << >> THEN before ELSE before + 1,
                            SubSeq(s, b, e),
                            ~oe /\ LastOf(s, "add") \in b..e,
                            ~ne /\ LastOf(s, "remove") \in b..e
                              /\ s[LastOf(s, "remove")].kind = "add")
<1> DEFINE q == Order(s, u)
           n == Len(q)
           D == Diff(s, u, oe, ne)
           hunk(i) == Hunk(IF OldLines(RunFrom(s, u, i)) = << >>
                           THEN Len(OldLines(SubSeq(s, 1, i - 1)))
                           ELSE Len(OldLines(SubSeq(s, 1, i - 1))) + 1,
                           RunFrom(s, u, i),
                           ~oe /\ LastOf(s, "add") \in i..(i + Len(RunFrom(s, u, i)) - 1),
                           ~ne /\ LastOf(s, "remove") \in i..(i + Len(RunFrom(s, u, i)) - 1)
                             /\ s[LastOf(s, "remove")].kind = "add")
<1>1. q \in Seq(Starts(s, u)) /\ n \in Nat /\ DOMAIN q = 1..n
  BY OrderFacts, LenProperties
<1>2. D = [k \in 1..n |-> hunk(q[k])]
  BY <1>1 DEF Diff, Order
<1>3. DOMAIN D = 1..n /\ Len(D) = n /\ \E H : D \in Seq(H)
  <2> DEFINE H == {hunk(q[k]) : k \in 1..n}
  <2>1. D \in [1..n -> H]
    BY <1>2
  <2> HIDE DEF D, H, n
  <2>2. D \in Seq(H) /\ Len(D) = n /\ DOMAIN D = 1..n
    BY <1>1, <2>1
  <2> QED
    BY <2>2
<1>4. ASSUME NEW k \in 1..n
      PROVE  LET b == RunFirst(s, u, k)
                 e == RunLast(s, u, k)
                 before == Len(OldPart(s, 1, b - 1))
             IN  /\ b \in 1..Len(s) /\ e \in b..Len(s)
                 /\ D[k] =
                      Hunk(IF OldPart(s, b, e) = << >> THEN before ELSE before + 1,
                           SubSeq(s, b, e),
                           ~oe /\ LastOf(s, "add") \in b..e,
                           ~ne /\ LastOf(s, "remove") \in b..e
                             /\ s[LastOf(s, "remove")].kind = "add")
  <2> DEFINE b == RunFirst(s, u, k)
             e == RunLast(s, u, k)
  <2>1. q[k] \in Starts(s, u) /\ k # 0
    BY <1>1, OrderFacts
  <2>2. b = q[k] /\ e = StopOf(s, u, q[k])
    BY <1>1, <2>1 DEF RunFirst, RunLast
  <2>3. b \in 1..Len(s) /\ e \in b..Len(s)
    BY <2>1, <2>2, RunFacts
  <2>4. RunFrom(s, u, q[k]) = SubSeq(s, b, e)
    BY <2>2 DEF RunFrom, StopOf
  <2> HIDE DEF b, e
  <2>5. b \in 1..(Len(s) + 1) /\ e \in (b-1)..Len(s) /\ Len(s) \in Nat
    BY <2>3, LenProperties
  <2>6. Len(SubSeq(s, b, e)) = e - b + 1
    BY <2>5, PartOfScript
  <2>7. b + Len(SubSeq(s, b, e)) - 1 = e
    BY <2>5, <2>6
  <2>8. D[k] = hunk(q[k])
    BY <1>2
  <2> HIDE DEF D
  <2>9. D[k] = Hunk(IF OldPart(s, b, e) = << >> THEN Len(OldPart(s, 1, b - 1))
                    ELSE Len(OldPart(s, 1, b - 1)) + 1,
                    SubSeq(s, b, e),
                    ~oe /\ LastOf(s, "add") \in b..e,
                    ~ne /\ LastOf(s, "remove") \in b..e
                      /\ s[LastOf(s, "remove")].kind = "add")
    BY <2>2, <2>4, <2>7, <2>8 DEF OldPart
  <2> QED
    BY <2>3, <2>9 DEF b, e
<1> QED
  BY <1>3, <1>4

Regroups(T) == \A x, y, z \in Seq(T) : (x \o y) \o z = x \o (y \o z)

LEMMA Regrouped == \A T : Regroups(T)
BY ConcatAssociative DEF Regroups

(* The text when the hunks up to line e are applied, and a hunk's place.   *)
Midway(s, e) == NewPart(s, 1, e) \o OldPart(s, e + 1, Len(s))

LEMMA HunkInPlace ==
  ASSUME NEW B, NEW s \in Seq(B), NEW u \in Nat, NEW k \in 1..Len(Order(s, u))
  PROVE  LET a == RunLast(s, u, k - 1)
             b == RunFirst(s, u, k)
             e == RunLast(s, u, k)
             p == Len(NewPart(s, 1, b - 1))
             old == OldPart(s, b, e)
             new == NewPart(s, b, e)
         IN  /\ \E L : Midway(s, a) \in Seq(L) /\ old \in Seq(L)
             /\ p \in Nat /\ AtPos(Midway(s, a), p, old)
             /\ Splice(Midway(s, a), p, Len(old), new) = Midway(s, e)
             /\ p + Len(old) >= Len(Midway(s, a)) <=> e = Len(s)
             /\ p = Len(OldPart(s, 1, b - 1)) + (Len(NewPart(s, 1, a)) - Len(OldPart(s, 1, a)))
             /\ Len(NewPart(s, 1, e)) = p + Len(new)
             /\ Len(OldPart(s, 1, e)) = Len(OldPart(s, 1, b - 1)) + Len(old)
             /\ old = << >> /\ Len(OldPart(s, 1, b - 1)) = 0 => p = 0
             /\ a \in Nat /\ a < Len(s)
<1> DEFINE n == Len(s)
           L == {x.line : x \in B}
           a == RunLast(s, u, k - 1)
           b == RunFirst(s, u, k)
           e == RunLast(s, u, k)
           p1 == NewPart(s, 1, a)
           gap == NewPart(s, a + 1, b - 1)
           old == OldPart(s, b, e)
           new == NewPart(s, b, e)
           rest == OldPart(s, e + 1, n)
           head == NewPart(s, 1, b - 1)
<1>1. n \in Nat /\ b \in 1..n /\ e \in b..n
  BY LenProperties, DiffHunks
<1>2. /\ a \in 0..n /\ a < b
      /\ \A j \in (a + 1)..(b - 1) : s[j].kind = "context" /\ j \notin Near(s, u)
  <2>1. k - 1 \in 0..Len(Order(s, u)) /\ (k - 1) + 1 = k
    BY OrderFacts
  <2> QED
    BY <2>1, GapsAreContext
<1>3. e < n => s[e+1].kind = "context"
  <2>1. k \in 0..Len(Order(s, u)) /\ k > 0
    BY OrderFacts
  <2>2. /\ RunFirst(s, u, k + 1) \in 1..(n + 1)
        /\ e + 1 < RunFirst(s, u, k + 1) \/ e = n
        /\ \A j \in (e + 1)..(RunFirst(s, u, k + 1) - 1) : s[j].kind = "context"
    BY <2>1, GapsAreContext
  <2> QED
    BY <1>1, <2>2
<1> HIDE DEF n, a, b, e
<1>4. /\ 1 \in 1..(n + 1) /\ a + 1 \in 1..(n + 1) /\ b \in 1..(n + 1) /\ e + 1 \in 1..(n + 1)
      /\ b - 1 \in (1-1)..n /\ a \in (1-1)..n /\ e \in (1-1)..n /\ n \in ((e+1)-1)..n
      /\ b - 1 \in ((a+1)-1)..n /\ e \in (b-1)..n /\ n \in (b-1)..n /\ n \in ((a+1)-1)..n
      /\ b - 1 \in a..n /\ e \in (b-1)..n /\ n \in (b-1)..n /\ n \in e..n
      /\ (b - 1) + 1 = b
  BY <1>1, <1>2
<1>5. \A i \in 1..(n + 1) : \A j \in (i-1)..n :
        /\ OldPart(s, i, j) \in Seq(L) /\ NewPart(s, i, j) \in Seq(L)
        /\ Len(OldPart(s, i, j)) \in Nat /\ Len(NewPart(s, i, j)) \in Nat
  BY PartType DEF n
<1>6. \A i \in 1..(n + 1) : \A j \in (i-1)..n : \A l \in j..n :
        /\ OldPart(s, i, l) = OldPart(s, i, j) \o OldPart(s, j + 1, l)
        /\ NewPart(s, i, l) = NewPart(s, i, j) \o NewPart(s, j + 1, l)
  BY PartsJoin DEF n
<1>25. \A i \in 1..(n + 1) : \A j \in (i-1)..n :
         /\ OldPart(s, i, j) = << >> <=> \A m \in i..j : s[m].kind = "add"
         /\ NewPart(s, i, j) = << >> <=> \A m \in i..j : s[m].kind = "remove"
  BY PartIsSome DEF n
<1>7. OldPart(s, a + 1, b - 1) = gap
  BY <1>2, <1>4, PartOfContext DEF n
<1>8. /\ head = p1 \o gap
      /\ NewPart(s, 1, e) = head \o new
      /\ OldPart(s, 1, e) = OldPart(s, 1, b - 1) \o old
      /\ OldPart(s, 1, b - 1) = OldPart(s, 1, a) \o gap
      /\ OldPart(s, a + 1, n) = gap \o OldPart(s, b, n)
      /\ OldPart(s, b, n) = old \o rest
  <2>1. head = p1 \o NewPart(s, a + 1, b - 1)
    BY <1>4, <1>6
  <2>2. NewPart(s, 1, e) = head \o NewPart(s, (b - 1) + 1, e)
    BY <1>4, <1>6
  <2>3. OldPart(s, 1, e) = OldPart(s, 1, b - 1) \o OldPart(s, (b - 1) + 1, e)
    BY <1>4, <1>6
  <2>4. OldPart(s, 1, b - 1) = OldPart(s, 1, a) \o OldPart(s, a + 1, b - 1)
    BY <1>4, <1>6
  <2>5. OldPart(s, a + 1, n) = OldPart(s, a + 1, b - 1) \o OldPart(s, (b - 1) + 1, n)
    BY <1>4, <1>6
  <2>6. OldPart(s, b, n) = OldPart(s, b, e) \o OldPart(s, e + 1, n)
    BY <1>4, <1>6
  <2> QED
    BY <1>4, <1>7, <2>1, <2>2, <2>3, <2>4, <2>5, <2>6
<1>9. /\ p1 \in Seq(L) /\ gap \in Seq(L) /\ old \in Seq(L) /\ new \in Seq(L)
      /\ rest \in Seq(L) /\ head \in Seq(L)
      /\ OldPart(s, 1, a) \in Seq(L) /\ OldPart(s, 1, b - 1) \in Seq(L)
      /\ OldPart(s, b, n) \in Seq(L)
  BY <1>4, <1>5
<1>10. old = << >> => \A m \in b..e : s[m].kind = "add"
  BY <1>4, <1>25
<1>11. rest = << >> => e = n
  <2>1. rest = << >> => \A m \in (e+1)..n : s[m].kind = "add"
    BY <1>4, <1>25
  <2> QED
    BY <1>1, <1>3, <2>1
<1>12. e = n => rest = << >>
  <2>1. e = n => \A m \in (e+1)..n : s[m].kind = "add"
    BY <1>1
  <2> QED
    BY <1>4, <1>25, <2>1
<1>13. OldPart(s, 1, b - 1) = << >> => b = 1 \/ gap = << >>
  <2>1. OldPart(s, 1, a) \o gap = << >> => gap = << >>
    <3> HIDE DEF gap
    <3> QED
      BY <1>9, ConcatEqualIffEmpty DEF gap
  <2> QED
    BY <1>8, <2>1
<1>14. gap = << >> => a = b - 1
  <2>1. gap = << >> => \A m \in (a+1)..(b-1) : s[m].kind = "remove"
    BY <1>4, <1>25
  <2>2. gap = << >> => ~ (a + 1 \in (a+1)..(b-1))
    BY <1>2, <2>1
  <2> QED
    BY <1>1, <1>2, <2>2
<1>15. k = 1 => a = 0
  BY DEF a, RunLast
<1> HIDE DEF L, p1, gap, old, new, rest, head
<1>16. Midway(s, a) = (head \o old) \o rest
  <2>1. Midway(s, a) = p1 \o (gap \o (old \o rest))
    BY <1>8 DEF Midway, p1, n
  <2> DEFINE t == old \o rest
  <2>2. t \in Seq(L)
    BY <1>9, ConcatProperties
  <2> HIDE DEF t
  <2>3. p1 \in Seq(L) /\ gap \in Seq(L) /\ old \in Seq(L) /\ rest \in Seq(L) /\ head \in Seq(L)
    BY <1>9
  <2>6. Regroups(L)
    BY Regrouped, Zenon
  <2>4. (p1 \o gap) \o t = p1 \o (gap \o t)
    <3>1. p1 \in Seq(L) /\ gap \in Seq(L)
      BY <2>3
    <3>2. \A y, z \in Seq(L) : (p1 \o y) \o z = p1 \o (y \o z)
      BY <2>6, <3>1, Zenon DEF Regroups
    <3> QED
      BY <2>2, <3>1, <3>2, Zenon
  <2>5. (head \o old) \o rest = head \o (old \o rest)
    BY <2>3, <2>6, Zenon DEF Regroups
  <2> QED
    BY <1>8, <2>1, <2>4, <2>5 DEF t
<1>17. Midway(s, e) = (head \o new) \o rest
  BY <1>8 DEF Midway, rest, n
<1>18. /\ AtPos((head \o old) \o rest, Len(head), old)
       /\ Splice((head \o old) \o rest, Len(head), Len(old), new) = (head \o new) \o rest
       /\ Len((head \o old) \o rest) = Len(head) + Len(old) + Len(rest)
       /\ (head \o old) \o rest \in Seq(L)
  <2>1. head \in Seq(L) /\ old \in Seq(L) /\ rest \in Seq(L) /\ new \in Seq(L)
    BY <1>9
  <2> QED
    BY <2>1, SpliceMiddle
<1>19. /\ Len(head) \in Nat /\ Len(old) \in Nat /\ Len(rest) \in Nat
       /\ Len(gap) \in Nat /\ Len(p1) \in Nat /\ Len(new) \in Nat
       /\ Len(OldPart(s, 1, a)) \in Nat /\ Len(OldPart(s, 1, b - 1)) \in Nat
  BY <1>9, LenProperties
<1>20. /\ Len(head) = Len(p1) + Len(gap)
       /\ Len(OldPart(s, 1, b - 1)) = Len(OldPart(s, 1, a)) + Len(gap)
       /\ Len(NewPart(s, 1, e)) = Len(head) + Len(new)
       /\ Len(OldPart(s, 1, e)) = Len(OldPart(s, 1, b - 1)) + Len(old)
  BY <1>8, <1>9, ConcatProperties
<1>21. Len(head) + Len(old) >= Len(Midway(s, a)) <=> e = n
  <2>1. Len(rest) = 0 <=> rest = << >>
    BY <1>9, EmptySeq, LenProperties
  <2> HIDE DEF rest
  <2> QED
    BY <1>11, <1>12, <1>16, <1>18, <1>19, <2>1, SMTT(30)
<1>22. Len(head) = Len(OldPart(s, 1, b - 1)) + (Len(p1) - Len(OldPart(s, 1, a)))
  BY <1>19, <1>20
<1>23. ASSUME old = << >>, Len(OldPart(s, 1, b - 1)) = 0
       PROVE  Len(head) = 0
  <2>1. gap = << >>
    <3>1. OldPart(s, 1, b - 1) = << >>
      BY <1>9, <1>23, EmptySeq
    <3>2. CASE b = 1
      <4>1. a = b - 1
        BY <1>1, <1>2, <3>2
      <4>2. \A m \in (a+1)..(b-1) : s[m].kind = "remove"
        BY <1>1, <1>2, <4>1
      <4> QED
        BY <1>4, <1>25, <4>2 DEF gap
    <3> QED
      BY <1>13, <3>1, <3>2
  <2>2. b = 1
    <3> SUFFICES ASSUME b # 1
                 PROVE  FALSE
      OBVIOUS
    <3>1. a = b - 1 /\ a # 0 /\ k # 1
      BY <1>1, <1>2, <1>14, <1>15, <2>1
    <3>2. k - 1 \in 0..Len(Order(s, u)) /\ (k - 1) + 1 = k /\ k - 1 > 0
      BY <3>1, OrderFacts
    <3>3. a + 1 < b \/ a = n
      BY <3>2, GapsAreContext DEF a, b, n
    <3> QED
      BY <1>1, <1>2, <3>1, <3>3
  <2>3. head = << >>
    BY <2>2, WholeScript DEF head
  <2> QED
    BY <2>3
<1>24. a < n /\ a \in Nat
  BY <1>1, <1>2
<1> QED
  BY <1>16, <1>17, <1>18, <1>19, <1>20, <1>21, <1>22, <1>23, <1>24, <1>9
     DEF n, a, b, e, p1, old, new, head

(* Whether the last line ends, when a hunk reaches it.                     *)
LEMMA EolsFacts ==
  ASSUME NEW s, NEW oe \in BOOLEAN, NEW ne \in BOOLEAN, <<oe, ne>> \in EolsOf(s),
         NEW o, NEW n, o = LastOf(s, "add"), n = LastOf(s, "remove")
  PROVE  /\ o = 0 => oe = TRUE
         /\ n = 0 => ne = TRUE
         /\ o = n => oe = ne
         /\ o # n /\ o # 0 /\ s[o].kind = "context" => oe = TRUE
         /\ o # n /\ n # 0 /\ s[n].kind = "context" => ne = TRUE
<1> DEFINE e == <<oe, ne>>
<1>1. e[1] = oe /\ e[2] = ne
  OBVIOUS
<1>2. /\ LastOf(s, "add") = 0 => e[1]
      /\ LastOf(s, "remove") = 0 => e[2]
      /\ LastOf(s, "add") = LastOf(s, "remove") => e[1] = e[2]
      /\ LastOf(s, "add") # LastOf(s, "remove") /\ LastOf(s, "add") # 0
           /\ s[LastOf(s, "add")].kind = "context" => e[1]
      /\ LastOf(s, "add") # LastOf(s, "remove") /\ LastOf(s, "remove") # 0
           /\ s[LastOf(s, "remove")].kind = "context" => e[2]
  <2> HIDE DEF e
  <2>1. e \in EolsOf(s)
    BY DEF e
  <2> QED
    BY <2>1, Zenon DEF EolsOf
<1> HIDE DEF e
<1>3. (e[1] <=> e[1] = TRUE) /\ (e[2] <=> e[2] = TRUE)
  BY <1>1
<1> QED
  BY <1>1, <1>2, <1>3

Removed(s, u, k) == \A m \in RunFirst(s, u, k)..RunLast(s, u, k) : s[m].kind = "remove"

LEMMA LastHunkEnds ==
  ASSUME NEW B, NEW s \in Seq(B), \A x \in B : x.kind \in {"context", "remove", "add"},
         NEW u \in Nat, NEW k \in 1..Len(Order(s, u)), RunLast(s, u, k) = Len(s)
  PROVE  LET h == SubSeq(s, RunFirst(s, u, k), RunLast(s, u, k))
             o == LastOf(s, "add")
             n == LastOf(s, "remove")
             b == RunFirst(s, u, k)
         IN  /\ o \in 0..Len(s) /\ n \in 0..Len(s)
             /\ n < b => /\ Removed(s, u, k) /\ o = Len(s)
                         /\ n # 0 => s[n].kind = "context"
             /\ n >= b => /\ ~Removed(s, u, k)
                          /\ h[LastOf(h, "remove")] = s[n]
                          /\ s[n].kind \in {"add", "context"}
                          /\ s[n].kind = "context" => o >= n
                          /\ o < b /\ o # 0 => s[o].kind = "context"
<1> DEFINE h == SubSeq(s, RunFirst(s, u, k), RunLast(s, u, k))
           o == LastOf(s, "add")
           n == LastOf(s, "remove")
           b == RunFirst(s, u, k)
           e == Len(s)
<1>1. e \in Nat /\ b \in 1..e /\ RunLast(s, u, k) = e
  BY LenProperties, DiffHunks
<1>2. \A m \in 1..e : s[m].kind \in {"context", "remove", "add"}
  BY ElementOfSeq
<1>3. /\ o \in 0..e /\ (o # 0 => s[o].kind # "add")
      /\ \A i \in 1..e : s[i].kind # "add" => i <= o
  BY LastOfFacts
<1>4. /\ n \in 0..e /\ (n # 0 => s[n].kind # "remove")
      /\ \A i \in 1..e : s[i].kind # "remove" => i <= n
  BY LastOfFacts
<1>5. b > 1 => b - 1 \in 1..e /\ s[b-1].kind = "context"
  <2>1. k - 1 \in 0..Len(Order(s, u)) /\ (k - 1) + 1 = k
    BY OrderFacts
  <2>2. /\ RunLast(s, u, k - 1) \in 0..e /\ RunLast(s, u, k - 1) < b
        /\ k - 1 > 0 => RunLast(s, u, k - 1) + 1 < b \/ RunLast(s, u, k - 1) = e
        /\ \A j \in (RunLast(s, u, k - 1) + 1)..(b - 1) : s[j].kind = "context"
    BY <2>1, GapsAreContext
  <2>3. k - 1 = 0 => RunLast(s, u, k - 1) = 0
    BY DEF RunLast
  <2> DEFINE a == RunLast(s, u, k - 1)
  <2> HIDE DEF a, b
  <2>4. k \in Nat
    BY <2>1, OrderFacts
  <2>5. b > 1 => b - 1 \in (a + 1)..(b - 1)
    BY <1>1, <2>2, <2>3, <2>4 DEF a
  <2> QED
    BY <1>1, <2>2, <2>5 DEF a
<1>6. h \in Seq(B) /\ Len(h) = e - b + 1
      /\ \A m \in 1..(e - b + 1) : h[m] = s[m + b - 1] /\ m + b - 1 \in b..e
  <2>1. b \in 1..(Len(s) + 1) /\ e \in (b-1)..Len(s)
    BY <1>1
  <2> QED
    BY <1>1, <2>1, PartOfScript, SMTT(30)
<1> HIDE DEF h, o, n, b, e
<1>7. ASSUME n < b
      PROVE  Removed(s, u, k) /\ o = e /\ (n # 0 => s[n].kind = "context")
  <2>1. \A m \in b..e : m \in 1..e /\ ~(m <= n)
    BY <1>1, <1>4, <1>7
  <2>2. \A m \in b..e : s[m].kind = "remove"
    BY <1>4, <2>1
  <2>3. Removed(s, u, k)
    BY <1>1, <2>2 DEF Removed, b
  <2>4. o = e
    <3>1. e \in b..e /\ e \in 1..e
      BY <1>1
    <3>2. e <= o
      BY <1>3, <2>2, <3>1
    <3> QED
      BY <1>1, <1>3, <3>2
  <2>5. n # 0 => n = b - 1 /\ b > 1
    BY <1>1, <1>4, <1>5, <1>7
  <2> QED
    BY <1>5, <2>3, <2>4, <2>5
<1>8. ASSUME n >= b
      PROVE  /\ ~Removed(s, u, k)
             /\ h[LastOf(h, "remove")] = s[n]
             /\ s[n].kind \in {"add", "context"}
             /\ s[n].kind = "context" => o >= n
             /\ o < b /\ o # 0 => s[o].kind = "context"
  <2>1. n \in b..e /\ n # 0 /\ n \in 1..e
    BY <1>1, <1>4, <1>8
  <2>2. s[n].kind \in {"add", "context"}
    BY <1>2, <1>4, <2>1
  <2>3. ~Removed(s, u, k)
    BY <1>1, <2>1, <2>2 DEF Removed, b
  <2>4. s[n].kind = "context" => o >= n
    BY <1>3, <2>1
  <2>5. LastOf(h, "remove") = n - b + 1 /\ h[n - b + 1] = s[n]
    <3>1. n - b + 1 \in 1..(e - b + 1) /\ (n - b + 1) + b - 1 = n
      BY <1>1, <2>1
    <3>2. h[n - b + 1] = s[n]
      BY <1>6, <3>1
    <3>3. n - b + 1 \in 0..Len(h) /\ h[n - b + 1].kind # "remove"
      BY <1>4, <1>6, <2>1, <3>1, <3>2
    <3>4. \A i \in 1..Len(h) : h[i].kind # "remove" => i <= n - b + 1
      <4> SUFFICES ASSUME NEW i \in 1..Len(h), h[i].kind # "remove"
                   PROVE  i <= n - b + 1
        OBVIOUS
      <4>1. i \in 1..(e - b + 1) /\ h[i] = s[i + b - 1] /\ i + b - 1 \in b..e
        BY <1>6
      <4>2. i + b - 1 <= n
        BY <1>1, <1>4, <4>1
      <4> QED
        BY <1>1, <2>1, <4>1, <4>2
    <3> DEFINE m == n - b + 1
    <3> HIDE DEF m
    <3>5. m \in 0..Len(h) /\ (m # 0 => h[m].kind # "remove")
          /\ \A i \in 1..Len(h) : h[i].kind # "remove" => i <= m
      BY <3>3, <3>4 DEF m
    <3>6. LastOf(h, "remove") = m
      BY <1>6, <3>5, LastOfIs
    <3> QED
      BY <3>2, <3>6 DEF m
  <2>6. o < b /\ o # 0 => s[o].kind = "context"
    <3>1. o < b /\ o # 0 => o = b - 1 /\ b > 1
      BY <1>1, <1>3, <1>5
    <3> QED
      BY <1>5, <3>1
  <2> QED
    BY <2>2, <2>3, <2>4, <2>5, <2>6
<1>9. o \in 0..e /\ n \in 0..e
  BY <1>3, <1>4
<1> QED
  BY <1>1, <1>7, <1>8, <1>9 DEF h, o, n, b, e

LastGoes(s, h) ==
  h.oldBare /\ LastOf(s, "remove") # LastOf(s, "add")
    /\ (LastOf(s, "remove") = 0 \/ s[LastOf(s, "remove")].kind = "context")

LEMMA LastHunkEol ==
  ASSUME NEW B, NEW s \in Seq(B), \A x \in B : x.kind \in {"context", "remove", "add"},
         NEW u \in Nat, NEW k \in 1..Len(Order(s, u)), RunLast(s, u, k) = Len(s),
         NEW oe \in BOOLEAN, NEW ne \in BOOLEAN, <<oe, ne>> \in EolsOf(s),
         ~LastGoes(s, Diff(s, u, oe, ne)[k])
  PROVE  FinalEol(Diff(s, u, oe, ne)[k], oe) = ne \/ LastOf(s, "remove") = 0
<1> DEFINE h == Diff(s, u, oe, ne)[k]
           b == RunFirst(s, u, k)
           e == RunLast(s, u, k)
           o == LastOf(s, "add")
           n == LastOf(s, "remove")
<1>1. /\ b \in 1..Len(s) /\ e \in b..Len(s) /\ e = Len(s)
      /\ h.body = SubSeq(s, b, e) /\ h.new = NewPart(s, b, e)
      /\ h.oldBare = (~oe /\ o \in b..e)
      /\ h.newBare = (~ne /\ n \in b..e /\ s[n].kind = "add")
  <2> DEFINE start == IF OldPart(s, b, e) = << >> THEN Len(OldPart(s, 1, b - 1))
                      ELSE Len(OldPart(s, 1, b - 1)) + 1
             ob == ~oe /\ o \in b..e
             nb == ~ne /\ n \in b..e /\ s[n].kind = "add"
  <2>1. b \in 1..Len(s) /\ e \in b..Len(s) /\ h = Hunk(start, SubSeq(s, b, e), ob, nb)
    BY DiffHunks
  <2> HIDE DEF b, e, o, n, h, start
  <2>2. /\ h.body = SubSeq(s, b, e) /\ h.new = NewLines(SubSeq(s, b, e))
        /\ h.oldBare = ob /\ h.newBare = nb
    BY <2>1 DEF Hunk
  <2>3. e = Len(s)
    BY DEF e
  <2> QED
    BY <2>1, <2>2, <2>3 DEF NewPart
<1>2. h.new = << >> <=> Removed(s, u, k)
  <2>1. b \in 1..(Len(s) + 1) /\ e \in (b-1)..Len(s)
    BY <1>1, LenProperties
  <2>2. NewPart(s, b, e) = << >> <=> \A m \in b..e : s[m].kind = "remove"
    BY <2>1, PartIsSome
  <2> QED
    BY <1>1, <2>2 DEF Removed
<1>3. /\ o \in 0..Len(s) /\ n \in 0..Len(s)
      /\ n < b => /\ Removed(s, u, k) /\ o = Len(s)
                  /\ n # 0 => s[n].kind = "context"
      /\ n >= b => /\ ~Removed(s, u, k)
                   /\ h.body[LastOf(h.body, "remove")] = s[n]
                   /\ s[n].kind \in {"add", "context"}
                   /\ s[n].kind = "context" => o >= n
                   /\ o < b /\ o # 0 => s[o].kind = "context"
  BY <1>1, LastHunkEnds
<1>4. /\ o = 0 => oe = TRUE
      /\ n = 0 => ne = TRUE
      /\ o = n => oe = ne
      /\ o # n /\ o # 0 /\ s[o].kind = "context" => oe = TRUE
      /\ o # n /\ n # 0 /\ s[n].kind = "context" => ne = TRUE
  BY EolsFacts, Zenon
<1>5. ~(h.oldBare /\ n # o /\ (n = 0 \/ s[n].kind = "context"))
  BY DEF LastGoes
<1>6. Len(s) \in Nat
  BY LenProperties
<1> HIDE DEF h, b, e, o, n
<1>7. CASE n < b /\ n # 0
  <2>1. o \in b..e /\ n # o
    BY <1>1, <1>3, <1>6, <1>7
  <2>2. ne = TRUE
    BY <1>3, <1>4, <1>7, <2>1
  <2>3. oe = TRUE
    BY <1>1, <1>3, <1>5, <1>7, <2>1
  <2>4. h.new = << >>
    BY <1>2, <1>3, <1>7
  <2>5. FinalEol(h, oe) = oe
    BY <2>4 DEF FinalEol
  <2> QED
    BY <2>2, <2>3, <2>5 DEF h
<1>8. CASE n >= b
  <2>1. h.new # << >> /\ n \in b..e /\ n # 0
    BY <1>1, <1>2, <1>3, <1>6, <1>8
  <2> DEFINE last == s[n].kind
  <2>2. (IF h.new = << >> THEN "none" ELSE h.body[LastOf(h.body, "remove")].kind) = last
    BY <1>3, <1>8, <2>1
  <2>3. FinalEol(h, oe) =
          CASE last = "add" -> IF h.newBare THEN FALSE ELSE h.oldBare \/ oe
            [] last = "context" -> ~h.oldBare /\ ~h.newBare /\ oe
            [] last = "none" -> oe
    BY <2>2 DEF FinalEol
  <2>4. last \in {"add", "context"}
    BY <1>3, <1>8
  <2> HIDE DEF last
  <2>5. CASE last = "add"
    <3>1. FinalEol(h, oe) = IF h.newBare THEN FALSE ELSE h.oldBare \/ oe
      BY <2>3, <2>5
    <3>2. h.newBare = ~ne
      BY <1>1, <2>1, <2>5 DEF last
    <3>3. ASSUME ne = TRUE
          PROVE  (h.oldBare \/ oe) = TRUE
      <4>1. CASE o \in b..e
        BY <1>1, <4>1
      <4>2. CASE o \notin b..e
        <5>1. o < b
          BY <1>1, <1>3, <1>6, <4>2
        <5>2. o # n
          BY <2>1, <4>2
        <5>3. oe = TRUE
          BY <1>3, <1>4, <1>8, <5>1, <5>2
        <5> QED
          BY <5>3
      <4> QED
        BY <4>1, <4>2
    <3>4. CASE ne = TRUE
      <4>1. h.newBare = FALSE
        BY <3>2, <3>4
      <4>2. (h.oldBare \/ oe) = TRUE
        BY <3>3, <3>4
      <4> QED
        BY <3>1, <3>4, <4>1, <4>2 DEF h
    <3>5. CASE ne = FALSE
      BY <3>1, <3>2, <3>5 DEF h
    <3> QED
      BY <3>4, <3>5
  <2>6. CASE last = "context"
    <3>1. FinalEol(h, oe) = (~h.oldBare /\ ~h.newBare /\ oe)
      BY <2>3, <2>6
    <3>2. h.newBare = FALSE
      BY <1>1, <2>6 DEF last
    <3>3. o \in b..e
      BY <1>1, <1>3, <1>6, <1>8, <2>1, <2>6 DEF last
    <3>4. h.oldBare = ~oe
      BY <1>1, <3>3
    <3>5. FinalEol(h, oe) = oe
      <4>1. CASE oe = TRUE
        BY <3>1, <3>2, <3>4, <4>1
      <4>2. CASE oe = FALSE
        BY <3>1, <4>2
      <4> QED
        BY <4>1, <4>2
    <3>6. oe = ne
      <4>1. CASE o = n
        BY <1>4, <4>1
      <4>2. CASE o # n
        <5>1. ne = TRUE
          BY <1>4, <2>1, <2>6, <4>2 DEF last
        <5>2. oe = TRUE
          BY <1>5, <2>6, <3>4, <4>2 DEF last
        <5> QED
          BY <5>1, <5>2
      <4> QED
        BY <4>1, <4>2
    <3> QED
      BY <3>5, <3>6 DEF h
  <2> QED
    BY <2>4, <2>5, <2>6
<1>9. n < b \/ n >= b
  BY <1>1, <1>3, <1>6
<1> QED
  BY <1>7, <1>8, <1>9 DEF n

(* What one hunk does, and what all of them do.                            *)
Upto(s, e, eol) ==
  [ok |-> TRUE, lines |-> Midway(s, e), eol |-> eol,
   offset |-> Len(NewPart(s, 1, e)) - Len(OldPart(s, 1, e)), conflicts |-> 0]

LEMMA HunkApplies ==
  ASSUME NEW B, NEW s \in Seq(B), NEW u \in Nat, NEW k \in 1..Len(Order(s, u)),
         NEW oe, NEW ne
  PROVE  LET h == Diff(s, u, oe, ne)[k]
             e == RunLast(s, u, k)
         IN  ApplyHunk(Upto(s, RunLast(s, u, k - 1), oe), h) =
               Upto(s, e, IF e = Len(s) THEN FinalEol(h, oe) ELSE oe)
<1> DEFINE h == Diff(s, u, oe, ne)[k]
           a == RunLast(s, u, k - 1)
           b == RunFirst(s, u, k)
           e == RunLast(s, u, k)
           old == OldPart(s, b, e)
           new == NewPart(s, b, e)
           before == Len(OldPart(s, 1, b - 1))
           p == Len(NewPart(s, 1, b - 1))
           offset == Len(NewPart(s, 1, a)) - Len(OldPart(s, 1, a))
           x == Upto(s, a, oe)
<1>1. /\ h.old = old /\ h.new = new
      /\ h.start = IF old = << >> THEN before ELSE before + 1
  <2> DEFINE bareOld == ~oe /\ LastOf(s, "add") \in b..e
             bareNew == ~ne /\ LastOf(s, "remove") \in b..e
                          /\ s[LastOf(s, "remove")].kind = "add"
  <2>3. h = Hunk(IF old = << >> THEN before ELSE before + 1, SubSeq(s, b, e), bareOld, bareNew)
    BY DiffHunks
  <2> HIDE DEF bareOld, bareNew
  <2>1. \E ob, nb : h = Hunk(IF old = << >> THEN before ELSE before + 1, SubSeq(s, b, e), ob, nb)
    BY <2>3
  <2> HIDE DEF b, e, h, before
  <2>2. \E ob, nb : h = [start |-> IF old = << >> THEN before ELSE before + 1,
                         body |-> SubSeq(s, b, e), old |-> OldLines(SubSeq(s, b, e)),
                         new |-> NewLines(SubSeq(s, b, e)), oldBare |-> ob, newBare |-> nb]
    BY <2>1 DEF Hunk
  <2> QED
    BY <2>2 DEF OldPart, NewPart
<1>2. /\ \E L : Midway(s, a) \in Seq(L) /\ old \in Seq(L)
      /\ p \in Nat /\ AtPos(Midway(s, a), p, old)
      /\ Splice(Midway(s, a), p, Len(old), new) = Midway(s, e)
      /\ p + Len(old) >= Len(Midway(s, a)) <=> e = Len(s)
      /\ p = before + offset
      /\ Len(NewPart(s, 1, e)) = p + Len(new)
      /\ Len(OldPart(s, 1, e)) = before + Len(old)
      /\ old = << >> /\ before = 0 => p = 0
  BY HunkInPlace
<1>3. /\ b \in 1..Len(s) /\ e \in b..Len(s) /\ Len(s) \in Nat
      /\ a \in 0..Len(s)
  <2>1. b \in 1..Len(s) /\ e \in b..Len(s) /\ Len(s) \in Nat
    BY DiffHunks, LenProperties
  <2>2. k - 1 \in 0..Len(Order(s, u)) /\ (k - 1) + 1 = k
    BY OrderFacts
  <2>3. a \in 0..Len(s)
    BY <2>2, GapsAreContext
  <2> QED
    BY <2>1, <2>3
<1>4. /\ Len(old) \in Nat /\ Len(new) \in Nat /\ before \in Nat
      /\ Len(NewPart(s, 1, a)) \in Nat /\ Len(OldPart(s, 1, a)) \in Nat
  <2> DEFINE L == {y.line : y \in B}
  <2>1. /\ b \in 1..(Len(s) + 1) /\ e \in (b-1)..Len(s) /\ 1 \in 1..(Len(s) + 1)
        /\ b - 1 \in (1-1)..Len(s) /\ a \in (1-1)..Len(s) /\ \A y \in B : y.line \in L
    BY <1>3
  <2> HIDE DEF L, a, b, e
  <2> QED
    BY <2>1, PartType DEF old, new, before
<1> HIDE DEF h, a, b, e, old, new, before, p, offset, x
<1>5. x.ok = TRUE /\ x.lines = Midway(s, a) /\ x.eol = oe /\ x.offset = offset
  BY DEF x, Upto, offset
<1>6. Expected(h, offset) = p
  <2>1. offset \in Int
    BY <1>4 DEF offset
  <2>2. CASE h.start = 0
    <3>1. old = << >> /\ before = 0
      BY <1>1, <1>4, <2>2
    <3> QED
      BY <1>2, <2>2, <3>1 DEF Expected
  <2>3. CASE h.start # 0 /\ old = << >>
    BY <1>1, <1>2, <2>3 DEF Expected
  <2>4. CASE h.start # 0 /\ old # << >>
    <3>1. before + 1 - 1 + offset = before + offset
      BY <1>4, <2>1
    <3> QED
      BY <1>1, <1>2, <1>4, <2>1, <2>4, <3>1 DEF Expected
  <2> QED
    BY <2>2, <2>3, <2>4
<1>7. FindMatch(Midway(s, a), old, p) = p /\ p # Nowhere
  BY <1>2, FoundAtOnce DEF Nowhere
<1>8. ApplyHunk(x, h) =
        [x EXCEPT !.lines = Splice(x.lines, p, Len(old), new),
                  !.eol = IF p + Len(old) >= Len(x.lines) THEN FinalEol(h, x.eol) ELSE x.eol,
                  !.offset = x.offset + Len(new) - Len(old)]
  <2>1. FindMatch(x.lines, h.old, Expected(h, x.offset)) = p
    BY <1>1, <1>5, <1>6, <1>7
  <2> QED
    BY <1>1, <1>5, <1>7, <2>1 DEF ApplyHunk
<1>9. offset + Len(new) - Len(old) = Len(NewPart(s, 1, e)) - Len(OldPart(s, 1, e))
  <2>1. offset \in Int
    BY <1>4 DEF offset
  <2>2. Len(NewPart(s, 1, e)) = p + Len(new) /\ Len(OldPart(s, 1, e)) = before + Len(old)
    BY <1>2
  <2>3. p = before + offset /\ p \in Nat
    BY <1>2
  <2> DEFINE ln == Len(new)
             lo == Len(old)
  <2>4. ln \in Nat /\ lo \in Nat
    BY <1>4
  <2> HIDE DEF ln, lo
  <2>5. offset + ln - lo = (p + ln) - (before + lo)
    BY <1>4, <2>1, <2>3, <2>4
  <2> QED
    BY <2>2, <2>5 DEF ln, lo
<1>10. ApplyHunk(x, h) =
         [x EXCEPT !.lines = Midway(s, e),
                   !.eol = IF e = Len(s) THEN FinalEol(h, oe) ELSE oe,
                   !.offset = Len(NewPart(s, 1, e)) - Len(OldPart(s, 1, e))]
  BY <1>2, <1>5, <1>8, <1>9
<1>11. ApplyHunk(x, h) = Upto(s, e, IF e = Len(s) THEN FinalEol(h, oe) ELSE oe)
  BY <1>10 DEF Upto, x
<1> QED
  BY <1>11 DEF h, a, e, x

(* What a diff does to the text it was made of.                            *)
LEMMA DiffGivesNewText ==
  ASSUME NEW B, NEW s \in Seq(B), \A x \in B : x.kind \in {"context", "remove", "add"},
         NEW u \in Nat, NEW oe \in BOOLEAN, NEW ne \in BOOLEAN, <<oe, ne>> \in EolsOf(s),
         \A k \in 1..Len(Order(s, u)) : ~LastGoes(s, Diff(s, u, oe, ne)[k])
  PROVE  LET r == ApplyHunks(Text(OldLines(s), oe), Diff(s, u, oe, ne))
         IN  r.ok /\ r.lines = NewLines(s) /\ r.eol = ne
<1> DEFINE hs == Diff(s, u, oe, ne)
           n == Len(Order(s, u))
           x == Start(Text(OldLines(s), oe))
           e(k) == RunLast(s, u, k)
           goes == LastOf(s, "remove") = 0
           L == {y.line : y \in B}
<1>1. n \in Nat /\ Len(s) \in Nat
  BY OrderFacts, LenProperties
<1>2. Len(hs) = n /\ \E H : hs \in Seq(H)
  BY DiffHunks
<1>3. \E F : Through(F, FALSE, x, hs) /\ FoldLeft(ApplyHunk, x, hs) = F[n]
  <2> HIDE DEF hs, x
  <2>1. PICK H : hs \in Seq(H)
    BY <1>2
  <2>2. \E F : Through(F, FALSE, x, hs) /\ FoldLeft(ApplyHunk, x, hs) = F[Len(hs)]
    BY <2>1, ApplyFold
  <2> QED
    BY <1>2, <2>2
<1>4. PICK F : Through(F, FALSE, x, hs) /\ FoldLeft(ApplyHunk, x, hs) = F[n]
  BY <1>3
<1>5. F[0] = x /\ \A k \in 1..n : F[k] = ApplyHunk(F[k-1], hs[k])
  BY <1>2, <1>4 DEF Through, HunkStep
<1>6. x = Upto(s, 0, oe)
  <2>1. Midway(s, 0) = OldLines(s)
    <3>1. NewPart(s, 1, 0) = << >> /\ OldPart(s, 1, Len(s)) = OldLines(s)
      BY WholeScript
    <3>2. OldLines(s) \in Seq(L)
      BY LinesButType DEF OldLines
    <3>3. << >> \o OldLines(s) = OldLines(s)
      <4> HIDE DEF L
      <4> QED
        BY <3>2, ConcatEmptySeq
    <3>4. 0 + 1 = 1
      OBVIOUS
    <3> QED
      BY <3>1, <3>3, <3>4 DEF Midway
  <2>2. NewPart(s, 1, 0) = << >> /\ OldPart(s, 1, 0) = << >>
    BY WholeScript
  <2>3. Len(NewPart(s, 1, 0)) - Len(OldPart(s, 1, 0)) = 0
    BY <2>2
  <2> QED
    BY <2>1, <2>3 DEF Start, Text, Upto
<1> DEFINE Good(k) ==
             /\ k = 0 \/ e(k) < Len(s) => F[k] = Upto(s, e(k), oe)
             /\ k # 0 /\ e(k) = Len(s) => F[k] = Upto(s, e(k), ne)
                                            \/ (goes /\ \E g : F[k] = Upto(s, e(k), g))
           S == {k \in Nat : k <= n => Good(k)}
<1>7. 0 \in S
  <2>1. e(0) = 0
    BY DEF RunLast
  <2> QED
    BY <1>5, <1>6, <2>1
<1>8. ASSUME NEW k \in Nat, k \in S
      PROVE  k + 1 \in S
  <2> SUFFICES ASSUME k + 1 <= n
               PROVE  Good(k + 1)
    OBVIOUS
  <2>1. k + 1 \in 1..n /\ (k + 1) - 1 = k /\ k <= n
    BY <1>1
  <2>2. Good(k)
    BY <1>8, <2>1
  <2>3. e(k) \in Nat /\ e(k) < Len(s)
    BY <2>1, HunkInPlace
  <2>4. F[k] = Upto(s, e(k), oe)
    BY <2>2, <2>3
  <2> DEFINE h == hs[k+1]
             eol == IF e(k+1) = Len(s) THEN FinalEol(h, oe) ELSE oe
  <2>5. F[k+1] = ApplyHunk(F[k], h)
    BY <1>5, <2>1
  <2>6. ApplyHunk(Upto(s, e(k), oe), h) = Upto(s, e(k+1), eol)
    BY <2>1, HunkApplies
  <2>7. F[k+1] = Upto(s, e(k+1), eol)
    BY <2>4, <2>5, <2>6
  <2>8. e(k+1) = Len(s) => FinalEol(h, oe) = ne \/ goes
    BY <2>1, LastHunkEol
  <2>9. e(k+1) < Len(s) => e(k+1) # Len(s)
    BY <1>1
  <2>10. k + 1 # 0
    OBVIOUS
  <2> HIDE DEF h, hs, e, goes
  <2>11. e(k+1) < Len(s) => F[k+1] = Upto(s, e(k+1), oe)
    BY <2>7, <2>9
  <2>12. e(k+1) = Len(s) => F[k+1] = Upto(s, e(k+1), FinalEol(h, oe))
    BY <2>7
  <2> QED
    BY <2>8, <2>10, <2>11, <2>12
<1>9. Good(n)
  <2> HIDE DEF Good
  <2>1. Nat \subseteq S
    BY <1>7, <1>8, NumberInduction
  <2> QED
    BY <1>1, <2>1
<1>10. e(n) \in 0..Len(s) /\ \A j \in (e(n) + 1)..Len(s) : s[j].kind = "context"
  <2>1. n \in 0..n /\ n + 1 \notin 1..n
    BY <1>1
  <2>2. RunFirst(s, u, n + 1) = Len(s) + 1
    BY <2>1 DEF RunFirst
  <2>3. /\ e(n) \in 0..Len(s)
        /\ \A j \in (e(n) + 1)..(RunFirst(s, u, n + 1) - 1) : s[j].kind = "context"
    BY <2>1, GapsAreContext
  <2>4. (Len(s) + 1) - 1 = Len(s)
    BY <1>1
  <2> QED
    BY <2>2, <2>3, <2>4
<1>11. Midway(s, e(n)) = NewLines(s)
  <2> DEFINE m == e(n)
  <2>1. m + 1 \in 1..(Len(s) + 1) /\ Len(s) \in ((m + 1) - 1)..Len(s)
        /\ 1 \in 1..(Len(s) + 1) /\ m \in (1-1)..Len(s) /\ Len(s) \in m..Len(s)
    BY <1>1, <1>10
  <2>2. \A j \in (m + 1)..Len(s) : s[j].kind = "context"
    BY <1>10
  <2> HIDE DEF m
  <2>3. OldPart(s, m + 1, Len(s)) = NewPart(s, m + 1, Len(s))
    BY <2>1, <2>2, PartOfContext
  <2>4. NewPart(s, 1, Len(s)) = NewPart(s, 1, m) \o NewPart(s, m + 1, Len(s))
    BY <2>1, PartsJoin
  <2>5. NewPart(s, 1, Len(s)) = NewLines(s)
    BY WholeScript
  <2> QED
    BY <2>3, <2>4, <2>5 DEF Midway, m
<1>12. NewLines(s) = << >> <=> goes
  <2>1. NewLines(s) = << >> <=> \A m \in 1..Len(s) : s[m].kind = "remove"
    BY LinesButNone DEF NewLines
  <2>2. /\ LastOf(s, "remove") \in 0..Len(s)
        /\ LastOf(s, "remove") # 0 => s[LastOf(s, "remove")].kind # "remove"
        /\ \A i \in 1..Len(s) : s[i].kind # "remove" => i <= LastOf(s, "remove")
    BY LastOfFacts
  <2> DEFINE l == LastOf(s, "remove")
  <2>3. goes <=> l = 0
    OBVIOUS
  <2> HIDE DEF l, goes
  <2> QED
    BY <1>1, <2>1, <2>2, <2>3 DEF l
<1>13. /\ LastOf(s, "remove") = 0 => ne = TRUE
       /\ LastOf(s, "add") = LastOf(s, "remove") => oe = ne
  BY EolsFacts, Zenon
<1>14. e(n) < Len(s) => oe = ne
  <2> SUFFICES ASSUME e(n) < Len(s)
               PROVE  oe = ne
    OBVIOUS
  <2>1. Len(s) \in (e(n) + 1)..Len(s)
    BY <1>1, <1>10
  <2>2. Len(s) \in 1..Len(s) /\ s[Len(s)].kind = "context"
    BY <1>1, <1>10, <2>1
  <2>3. \A kind \in {"add", "remove"} : LastOf(s, kind) = Len(s)
    <3> TAKE kind \in {"add", "remove"}
    <3>1. /\ LastOf(s, kind) \in 0..Len(s)
          /\ \A i \in 1..Len(s) : s[i].kind # kind => i <= LastOf(s, kind)
      BY LastOfFacts
    <3> QED
      BY <1>1, <2>2, <3>1
  <2> QED
    BY <1>13, <2>3
<1>15. n = 0 /\ e(n) = Len(s) => oe = ne
  <2> SUFFICES ASSUME n = 0, e(n) = Len(s)
               PROVE  oe = ne
    OBVIOUS
  <2>1. Len(s) = 0
    BY DEF RunLast
  <2>2. LastOf(s, "add") \in 0..Len(s) /\ LastOf(s, "remove") \in 0..Len(s)
    BY LastOfFacts
  <2>3. LastOf(s, "add") = 0 /\ LastOf(s, "remove") = 0
    BY <2>1, <2>2
  <2> QED
    BY <1>13, <2>3
<1>16. F[n] = Upto(s, e(n), ne) \/ (goes /\ \E g : F[n] = Upto(s, e(n), g))
  <2>1. e(n) < Len(s) \/ e(n) = Len(s)
    BY <1>1, <1>10
  <2> HIDE DEF e, goes, n
  <2> QED
    BY <1>9, <1>14, <1>15, <2>1
<1>17. PICK g : F[n] = Upto(s, e(n), g) /\ (g = ne \/ goes)
  BY <1>16
<1>18. ApplyHunks(Text(OldLines(s), oe), hs) = Joined(F[n])
  BY <1>4 DEF ApplyHunks
<1> DEFINE y == F[n]
<1>19. y.ok = TRUE /\ y.lines = NewLines(s) /\ y.eol = g
  BY <1>11, <1>17 DEF Upto
<1>20. goes => ne = TRUE
  BY <1>13
<1>21. Joined(y) = IF y.lines = << >> THEN [y EXCEPT !.eol = TRUE] ELSE y
  BY DEF Joined
<1>22. y = [ok |-> TRUE, lines |-> NewLines(s), eol |-> g,
            offset |-> Len(NewPart(s, 1, e(n))) - Len(OldPart(s, 1, e(n))), conflicts |-> 0]
  BY <1>11, <1>17 DEF Upto
<1> HIDE DEF y, goes, hs
<1>23. Joined(y).ok /\ Joined(y).lines = NewLines(s) /\ Joined(y).eol = ne
  <2>1. CASE goes
    <3>1. Joined(y) = [y EXCEPT !.eol = TRUE]
      BY <1>12, <1>19, <1>21, <2>1
    <3> QED
      BY <1>20, <1>22, <2>1, <3>1
  <2>2. CASE ~goes
    <3>1. Joined(y) = y
      BY <1>12, <1>19, <1>21, <2>2
    <3> QED
      BY <1>17, <1>19, <2>2, <3>1
  <2> QED
    BY <2>1, <2>2
<1> QED
  BY <1>18, <1>23 DEF y, hs

-----------------------------------------------------------------------------
(***************************************************************************)
(* The patch.  The edits of the Markdown text leave it alone.              *)
(***************************************************************************)
LEMMA StepsOfText ==
  ASSUME [TextNext]_textVars
  PROVE  Drift \/ PatchApply \/ UNCHANGED patchVars
<1>1. CASE UNCHANGED textVars
  BY <1>1 DEF textVars, patchVars
<1>2. CASE ReplaceSection \/ InsertUnderHeading \/ InsertBehindSection \/ InsertBeforeHeading
             \/ MoveSection \/ UpsertBullet \/ DedupeHeadings \/ TableAppend
  BY <1>2, Zenon DEF ReplaceSection, InsertUnderHeading, InsertBehindSection,
     InsertBeforeHeading, MoveSection, UpsertBullet, DedupeHeadings, TableAppend, Edited
<1> QED
  BY <1>1, <1>2 DEF TextNext

LEMMA ScriptFacts ==
  ASSUME NEW s \in Scripts
  PROVE  /\ s \in Seq(ToSet(s)) /\ Len(s) \in Nat /\ DOMAIN s = 1..Len(s)
         /\ \A x \in ToSet(s) : /\ x.kind \in {"context", "remove", "add"}
                                /\ x.line \notin {Mine, Ours, Sep, Theirs}
<1>1. s \in Seq(ToSet(s))
      /\ \A i \in DOMAIN s : /\ s[i].kind \in {"context", "remove", "add"}
                             /\ s[i].line \notin {Mine, Ours, Sep, Theirs}
  BY ScriptsAssumption
<1>2. Len(s) \in Nat /\ DOMAIN s = 1..Len(s)
  BY <1>1, LenProperties
<1> QED
  BY <1>1, <1>2 DEF ToSet

(* While the patch waits it is a diff of the script, and the file is the   *)
(* old text unless it has drifted.                                         *)
Made ==
  \E u \in Contexts, e \in EolsOf(script) :
    /\ hunks = Diff(script, u, e[1], e[2]) /\ status.newEol = e[2]
    /\ drifted = {} => file = Text(OldLines(script), e[1])

PatchInv ==
  /\ status = [how |-> status.how, newEol |-> status.newEol]
  /\ status.how = "made" => script \in Scripts /\ Made
  /\ PatchGivesNewText

LEMMA PatchInvInit ==
  ASSUME TextInit
  PROVE  PatchInv
<1>1. CASE PatchIdle
  BY <1>1 DEF PatchIdle, PatchInv, PatchGivesNewText
<1>2. CASE PatchInit
  <2>1. PICK u \in Contexts, e \in EolsOf(script) :
          /\ hunks = Diff(script, u, e[1], e[2])
          /\ file = Text(OldLines(script), e[1])
          /\ status = [how |-> "made", newEol |-> e[2]]
    BY <1>2 DEF PatchInit
  <2>2. script \in Scripts
    BY <1>2 DEF PatchInit
  <2>3. Made
    BY <2>1 DEF Made
  <2> QED
    BY <2>1, <2>2, <2>3 DEF PatchInv, PatchGivesNewText
<1> QED
  BY <1>1, <1>2 DEF TextInit

(* An applied patch of the text it was made of.                            *)
LEMMA CleanPatch ==
  ASSUME NEW u \in Contexts, NEW e \in EolsOf(script), script \in Scripts,
         hunks = Diff(script, u, e[1], e[2]), file = Text(OldLines(script), e[1]),
         ~LastLineGoes
  PROVE  LET r == ApplyHunks(file, hunks)
         IN  Text(r.lines, r.eol) = Text(NewLines(script), e[2])
<1> DEFINE B == ToSet(script)
           oe == e[1]
           ne == e[2]
           D == Diff(script, u, oe, ne)
           n == Len(Order(script, u))
<1>1. u \in Nat
  BY ScriptsAssumption
<1>2. script \in Seq(B) /\ \A x \in B : x.kind \in {"context", "remove", "add"}
  BY ScriptFacts
<1>3. oe \in BOOLEAN /\ ne \in BOOLEAN /\ <<oe, ne>> \in EolsOf(script)
  <2>1. e \in BOOLEAN \X BOOLEAN
    BY DEF EolsOf
  <2>2. e = <<e[1], e[2]>> /\ e[1] \in BOOLEAN /\ e[2] \in BOOLEAN
    BY <2>1
  <2> QED
    BY <2>2
<1>4. \A k \in 1..n : ~LastGoes(script, D[k])
  <2> SUFFICES ASSUME NEW k \in 1..n, LastGoes(script, D[k])
               PROVE  FALSE
    OBVIOUS
  <2>1. DOMAIN D = 1..n
    BY <1>1, <1>2, DiffHunks
  <2> HIDE DEF D, n
  <2>2. hunks = D
    BY DEF D
  <2>3. D[k] \in ToSet(hunks)
    BY <2>1, <2>2 DEF ToSet
  <2> QED
    BY <2>3 DEF LastGoes, LastLineGoes
<1> HIDE DEF B, oe, ne
<1>5. LET r == ApplyHunks(Text(OldLines(script), oe), D)
      IN  r.ok /\ r.lines = NewLines(script) /\ r.eol = ne
  BY <1>1, <1>2, <1>3, <1>4, DiffGivesNewText
<1> QED
  BY <1>5 DEF oe, ne

LEMMA PatchInvStep ==
  ASSUME PatchInv, [TextNext]_textVars
  PROVE  PatchInv'
<1>1. CASE UNCHANGED patchVars
  BY <1>1 DEF patchVars, PatchInv, Made, PatchGivesNewText, LastLineGoes
<1>2. CASE Drift
  <2>1. /\ UNCHANGED <<script, hunks, status>> /\ status.how = "made"
        /\ \E k : drifted' = drifted \cup {k}
    BY <1>2, Zenon DEF Drift
  <2>2. drifted' # {}
    BY <2>1
  <2>3. PICK u \in Contexts, e \in EolsOf(script) :
          hunks = Diff(script, u, e[1], e[2]) /\ status.newEol = e[2]
    BY <2>1 DEF PatchInv, Made
  <2>4. Made'
    BY <2>1, <2>2, <2>3 DEF Made
  <2> QED
    BY <2>1, <2>4 DEF PatchInv, PatchGivesNewText
<1>3. CASE PatchApply
  <2>1. /\ UNCHANGED <<script, hunks, drifted>> /\ status.how = "made"
        /\ \E onStale : Patched(ApplyOrMerge(file, hunks, onStale, TRUE))
    BY <1>3, Zenon DEF PatchApply
  <2>2. PICK onStale : Patched(ApplyOrMerge(file, hunks, onStale, TRUE))
    BY <2>1
  <2> DEFINE r == ApplyOrMerge(file, hunks, onStale, TRUE)
             a == ApplyHunks(file, hunks)
             how == IF ~r.ok THEN "refused" ELSE IF a.ok THEN "clean"
                    ELSE IF r.conflicts = 0 THEN "merged" ELSE "conflict"
  <2>3. a.ok => r = a
    BY DEF ApplyOrMerge
  <2>4. /\ file' = IF r.ok THEN Text(r.lines, r.eol) ELSE file
        /\ status' = [status EXCEPT !.how = how]
    BY <2>2 DEF Patched
  <2>5. how = "refused" \/ how = "clean" \/ how = "merged" \/ how = "conflict"
    <3> HIDE DEF r, a
    <3> QED
      OBVIOUS
  <2>6. how = "clean" => r.ok /\ a.ok
    <3> HIDE DEF r, a
    <3> QED
      OBVIOUS
  <2> HIDE DEF r, a, how
  <2>7. status = [how |-> status.how, newEol |-> status.newEol]
    BY DEF PatchInv
  <2>8. status'.how = how /\ status'.newEol = status.newEol
        /\ status' = [how |-> status'.how, newEol |-> status'.newEol]
    BY <2>4, <2>7
  <2>9. status'.how # "made"
    BY <2>5, <2>8
  <2>10. ASSUME status'.how = "clean", drifted' = {}, ~LastLineGoes'
         PROVE  file' = Text(NewLines(script), status.newEol)
    <3>1. file' = Text(a.lines, a.eol)
      BY <2>3, <2>4, <2>6, <2>8, <2>10
    <3>2. script \in Scripts /\ Made /\ drifted = {}
      BY <2>1, <2>10 DEF PatchInv
    <3>3. PICK u \in Contexts, e \in EolsOf(script) :
            /\ hunks = Diff(script, u, e[1], e[2]) /\ status.newEol = e[2]
            /\ file = Text(OldLines(script), e[1])
      BY <3>2 DEF Made
    <3>4. ~LastLineGoes
      BY <2>1, <2>10 DEF LastLineGoes
    <3>5. Text(a.lines, a.eol) = Text(NewLines(script), e[2])
      BY <3>2, <3>3, <3>4, CleanPatch DEF a
    <3> QED
      BY <3>1, <3>3, <3>5
  <2>11. PatchGivesNewText'
    BY <2>1, <2>8, <2>10 DEF PatchGivesNewText
  <2> QED
    BY <2>8, <2>9, <2>11 DEF PatchInv
<1> QED
  BY <1>1, <1>2, <1>3, StepsOfText

(* A patch that is applied to the text it was made of gives the text it    *)
(* was made for, to the end of its last line: whatever the texts, the      *)
(* lines of context around a change and the fuzz, unless the last line     *)
(* goes and did not end.                                                   *)
THEOREM PatchIsRight == TextSpec => []PatchGivesNewText
<1>1. TextInit => PatchInv
  BY PatchInvInit
<1>2. PatchInv /\ [TextNext]_textVars => PatchInv'
  BY PatchInvStep
<1>3. PatchInv => PatchGivesNewText
  BY DEF PatchInv
<1> QED
  BY <1>1, <1>2, <1>3, PTL DEF TextSpec

-----------------------------------------------------------------------------
(***************************************************************************)
(* How many lines are Mine.                                                *)
(***************************************************************************)
Mines(ls) == {k \in DOMAIN ls : ls[k] = Mine}
Count(ls) == Cardinality(Mines(ls))

LEMMA CountType ==
  ASSUME NEW T, NEW a \in Seq(T)
  PROVE  /\ DOMAIN a = 1..Len(a) /\ Len(a) \in Nat
         /\ IsFiniteSet(Mines(a)) /\ Count(a) \in Nat
<1>1. DOMAIN a = 1..Len(a) /\ Len(a) \in Nat
  BY LenProperties
<1>2. IsFiniteSet(Mines(a))
  <2>1. Mines(a) \in SUBSET Nat /\ \A x \in Mines(a) : x <= Len(a)
    BY <1>1 DEF Mines
  <2> QED
    BY <1>1, <2>1, FS_BoundedSetOfNaturals
<1> QED
  BY <1>1, <1>2, FS_CardinalityType DEF Count

LEMMA CountConcat ==
  ASSUME NEW T, NEW a \in Seq(T), NEW b \in Seq(T)
  PROVE  a \o b \in Seq(T) /\ Count(a \o b) = Count(a) + Count(b)
<1> DEFINE n == Len(a)
           m == Len(b)
           c == a \o b
           S == {n + k : k \in Mines(b)}
<1>1. /\ n \in Nat /\ DOMAIN a = 1..n /\ IsFiniteSet(Mines(a)) /\ Count(a) \in Nat
      /\ m \in Nat /\ DOMAIN b = 1..m /\ IsFiniteSet(Mines(b)) /\ Count(b) \in Nat
  BY CountType
<1>2. /\ c \in Seq(T) /\ Len(c) = n + m
      /\ \A i \in 1..(n + m) : c[i] = IF i <= n THEN a[i] ELSE b[i - n]
  BY ConcatProperties
<1>3. DOMAIN c = 1..(n + m)
  BY <1>2, LenProperties
<1> HIDE DEF n, m, c
<1>4. Mines(c) = Mines(a) \cup S
  <2>1. ASSUME NEW i \in Mines(c)
        PROVE  i \in Mines(a) \cup S
    <3>1. i \in 1..(n + m) /\ c[i] = Mine
      BY <1>3 DEF Mines
    <3>2. CASE i <= n
      BY <1>1, <1>2, <3>1, <3>2 DEF Mines
    <3>3. CASE ~(i <= n)
      <4>1. i - n \in 1..m /\ n + (i - n) = i
        BY <1>1, <3>1, <3>3
      <4>2. i - n \in Mines(b)
        BY <1>1, <1>2, <3>1, <3>3, <4>1 DEF Mines
      <4> QED
        BY <4>1, <4>2
    <3> QED
      BY <3>2, <3>3
  <2>2. ASSUME NEW i \in Mines(a)
        PROVE  i \in Mines(c)
    <3>1. i \in 1..n /\ a[i] = Mine
      BY <1>1 DEF Mines
    <3>2. i \in 1..(n + m) /\ i <= n
      BY <1>1, <3>1
    <3> QED
      BY <1>2, <1>3, <3>1, <3>2 DEF Mines
  <2>3. ASSUME NEW k \in Mines(b)
        PROVE  n + k \in Mines(c)
    <3>1. k \in 1..m /\ b[k] = Mine
      BY <1>1 DEF Mines
    <3>2. n + k \in 1..(n + m) /\ ~(n + k <= n) /\ (n + k) - n = k
      BY <1>1, <3>1
    <3> DEFINE x == n + k
    <3> HIDE DEF x
    <3>3. x \in 1..(n + m) /\ ~(x <= n) /\ x - n = k
      BY <3>2 DEF x
    <3>4. c[x] = b[k]
      BY <1>2, <3>3
    <3>5. x \in Mines(c)
      BY <1>3, <3>1, <3>3, <3>4 DEF Mines
    <3> QED
      BY <3>5 DEF x
  <2> QED
    BY <2>1, <2>2, <2>3
<1>5. Mines(a) \cap S = {}
  <2>1. \A k \in Mines(b) : k \in 1..m /\ ~(n + k \in 1..n)
    BY <1>1 DEF Mines
  <2>2. Mines(a) \subseteq 1..n
    BY <1>1 DEF Mines
  <2> QED
    BY <2>1, <2>2
<1>6. IsFiniteSet(S) /\ Cardinality(S) = Count(b)
  <2> DEFINE f == [k \in Mines(b) |-> n + k]
  <2>1. \A k, l \in Mines(b) : n + k = n + l => k = l
    <3>1. \A k \in Mines(b) : k \in Nat
      BY <1>1 DEF Mines
    <3> QED
      BY <1>1, <3>1
  <2>2. f \in Bijection(Mines(b), S)
    <3>1. f \in [Mines(b) -> S]
      OBVIOUS
    <3>2. \A k, l \in Mines(b) : f[k] = f[l] => k = l
      BY <2>1
    <3>3. \A t \in S : \E k \in Mines(b) : f[k] = t
      OBVIOUS
    <3> HIDE DEF f, S
    <3> QED
      BY <3>1, <3>2, <3>3, Zenon DEF Bijection, Injection, Surjection, IsInjective
  <2>3. ExistsBijection(Mines(b), S)
    BY <2>2 DEF ExistsBijection
  <2> HIDE DEF S
  <2> QED
    BY <1>1, <2>3, FS_Bijection DEF Count
<1>7. Cardinality(Mines(a) \cup S) = Count(a) + Count(b)
  <2> HIDE DEF S
  <2>1. Cardinality(Mines(a) \cup S) =
          Cardinality(Mines(a)) + Cardinality(S) - Cardinality(Mines(a) \cap S)
    BY <1>1, <1>6, FS_Union
  <2>2. Cardinality(Mines(a) \cap S) = 0
    BY <1>5, FS_EmptySet
  <2> QED
    BY <1>1, <1>6, <2>1, <2>2 DEF Count
<1> QED
  BY <1>2, <1>4, <1>7 DEF Count, c

LEMMA CountNone ==
  ASSUME NEW T, NEW a \in Seq(T), Mine \notin T
  PROVE  Count(a) = 0
<1>1. \A i \in DOMAIN a : a[i] \in T
  BY ElementOfSeq, LenProperties
<1>2. Mines(a) = {}
  BY <1>1 DEF Mines
<1> QED
  BY <1>2, FS_EmptySet DEF Count

LEMMA CountOne ==
  ASSUME NEW l
  PROVE  Count(<<l>>) = IF l = Mine THEN 1 ELSE 0
<1>1. Mines(<<l>>) = IF l = Mine THEN {1} ELSE {}
  BY DEF Mines
<1> QED
  BY <1>1, FS_EmptySet, FS_Singleton DEF Count

(* What is put together from parts that count as the lines of one text do. *)
LEMMA FlattenThrough ==
  ASSUME NEW X, NEW seqs \in Seq(X), Len(seqs) > 0
  PROVE  \E G : /\ G[1] = seqs[1]
                /\ \A i \in 2..Len(seqs) : G[i] = G[i-1] \o seqs[i]
                /\ FlattenSeq(seqs) = G[Len(seqs)]
<1> DEFINE n == Len(seqs)
           rec(f) == [i \in 1..n |-> IF i = 1 THEN seqs[i] ELSE f[i-1] \o seqs[i]]
           flat == CHOOSE f : f = rec(f)
           Built(f, k) == \A i \in 1..k : f[i] = IF i = 1 THEN seqs[i] ELSE f[i-1] \o seqs[i]
           S == {k \in Nat : \E f : Built(f, k)}
<1>1. n \in Nat /\ n # 0
  BY LenProperties
<1>2. 0 \in S
  <2>1. Built([i \in {} |-> 0], 0)
    OBVIOUS
  <2> QED
    BY <2>1
<1>3. ASSUME NEW k \in Nat, k \in S
      PROVE  k + 1 \in S
  <2>1. PICK g : Built(g, k)
    BY <1>3
  <2> DEFINE f == [i \in 1..(k+1) |-> IF i = 1 THEN seqs[i] ELSE g[i-1] \o seqs[i]]
  <2>2. \A i \in 1..k : f[i] = g[i]
    BY <2>1
  <2>3. Built(f, k + 1)
    <3> SUFFICES ASSUME NEW i \in 1..(k+1)
                 PROVE  f[i] = IF i = 1 THEN seqs[i] ELSE f[i-1] \o seqs[i]
      OBVIOUS
    <3>1. i # 1 => i - 1 \in 1..k
      OBVIOUS
    <3>2. i # 1 => f[i-1] = g[i-1]
      BY <2>2, <3>1
    <3>3. f[i] = IF i = 1 THEN seqs[i] ELSE g[i-1] \o seqs[i]
      OBVIOUS
    <3> HIDE DEF f
    <3> QED
      BY <3>2, <3>3
  <2> HIDE DEF f, Built
  <2> QED
    BY <2>3
<1>4. n \in S
  <2> HIDE DEF Built
  <2>1. Nat \subseteq S
    BY <1>2, <1>3, NumberInduction
  <2> QED
    BY <1>1, <2>1
<1>5. PICK g : Built(g, n)
  BY <1>4
<1> DEFINE h == [i \in 1..n |-> g[i]]
<1>6. h = rec(h)
  <2>1. \A i \in 1..n : i # 1 => i - 1 \in 1..n
    OBVIOUS
  <2>2. \A i \in 1..n : h[i] = IF i = 1 THEN seqs[i] ELSE h[i-1] \o seqs[i]
    BY <1>5, <2>1, SMTT(30)
  <2> QED
    BY <2>2
<1>7. flat = rec(flat)
  BY <1>6
<1>8. FlattenSeq(seqs) = flat[n]
  BY <1>1 DEF FlattenSeq
<1> HIDE DEF flat
<1>9. 1 \in 1..n /\ \A i \in 2..n : i \in 1..n /\ i # 1
  BY <1>1
<1>10. \A i \in 1..n : flat[i] = IF i = 1 THEN seqs[i] ELSE flat[i-1] \o seqs[i]
  BY <1>7
<1> QED
  BY <1>8, <1>9, <1>10

LEMMA CountFlatten ==
  ASSUME NEW T, NEW ls \in Seq(T), NEW seqs \in Seq(Seq(T)), Len(seqs) = Len(ls),
         \A i \in 1..Len(ls) : Count(seqs[i]) = IF ls[i] = Mine THEN 1 ELSE 0
  PROVE  FlattenSeq(seqs) \in Seq(T) /\ Count(FlattenSeq(seqs)) = Count(ls)
<1> DEFINE n == Len(ls)
<1>1. n \in Nat /\ \A i \in 1..n : seqs[i] \in Seq(T)
  BY LenProperties, ElementOfSeq
<1>2. CASE n = 0
  <2>1. seqs = << >> /\ ls = << >>
    BY <1>2, EmptySeq
  <2>2. FlattenSeq(seqs) = << >>
    BY <2>1 DEF FlattenSeq
  <2> QED
    BY <2>1, <2>2
<1>3. CASE n > 0
  <2>1. PICK G : /\ G[1] = seqs[1]
                 /\ \A i \in 2..n : G[i] = G[i-1] \o seqs[i]
                 /\ FlattenSeq(seqs) = G[n]
    BY <1>3, FlattenThrough
  <2> DEFINE first(k) == SubSeq(ls, 1, k)
             S == {k \in Nat : k + 1 <= n =>
                     G[k+1] \in Seq(T) /\ Count(G[k+1]) = Count(first(k+1))}
  <2>2. \A k \in Nat : k < n =>
          /\ first(k) \in Seq(T) /\ first(k+1) = first(k) \o <<ls[k+1]>>
          /\ <<ls[k+1]>> \in Seq(T)
          /\ Count(<<ls[k+1]>>) = IF ls[k+1] = Mine THEN 1 ELSE 0
    <3> TAKE k \in Nat
    <3> HAVE k < n
    <3>1. SubSeq(ls, 1, k) \in Seq(T) /\ ls[k+1] \in T
          /\ SubSeq(ls, 1, k + 1) = Append(SubSeq(ls, 1, k), ls[k+1])
      BY FirstAndNext
    <3>2. Append(SubSeq(ls, 1, k), ls[k+1]) = SubSeq(ls, 1, k) \o <<ls[k+1]>>
      BY <3>1, AppendIsConcat
    <3>3. <<ls[k+1]>> \in Seq(T)
      BY <3>1
    <3>4. Count(<<ls[k+1]>>) = IF ls[k+1] = Mine THEN 1 ELSE 0
      BY CountOne
    <3> QED
      BY <3>1, <3>2, <3>3, <3>4
  <2>3. first(0) = << >> /\ << >> \in Seq(T)
    BY FirstOfFirst
  <2> HIDE DEF first
  <2>4. 0 \in S
    <3>1. first(1) = << >> \o <<ls[1]>> /\ <<ls[1]>> \in Seq(T)
          /\ Count(<<ls[1]>>) = IF ls[1] = Mine THEN 1 ELSE 0
      <4>1. 0 \in Nat /\ 0 < n /\ 0 + 1 = 1
        BY <1>3
      <4> QED
        BY <2>2, <2>3, <4>1
    <3>2. << >> \o <<ls[1]>> = <<ls[1]>>
      BY <3>1, ConcatEmptySeq
    <3>3. Count(first(1)) = Count(seqs[1]) /\ seqs[1] \in Seq(T)
      BY <1>1, <1>3, <3>1, <3>2
    <3> QED
      BY <2>1, <3>3
  <2>5. ASSUME NEW k \in Nat, k \in S
        PROVE  k + 1 \in S
    <3> SUFFICES ASSUME (k + 1) + 1 <= n
                 PROVE  G[(k+1)+1] \in Seq(T) /\ Count(G[(k+1)+1]) = Count(first((k+1)+1))
      OBVIOUS
    <3> DEFINE j == (k + 1) + 1
    <3>1. j \in 2..n /\ j - 1 = k + 1 /\ j \in 1..n /\ k + 1 \in Nat /\ k + 1 < n /\ k + 1 <= n
      BY <1>1
    <3>2. G[k+1] \in Seq(T) /\ Count(G[k+1]) = Count(first(k+1))
      BY <2>5, <3>1
    <3>3. G[j] = G[k+1] \o seqs[j] /\ seqs[j] \in Seq(T)
      BY <1>1, <2>1, <3>1
    <3>4. /\ first(k+1) \in Seq(T) /\ first(j) = first(k+1) \o <<ls[j]>>
          /\ <<ls[j]>> \in Seq(T) /\ Count(<<ls[j]>>) = IF ls[j] = Mine THEN 1 ELSE 0
      BY <2>2, <3>1
    <3> HIDE DEF j
    <3> DEFINE g == G[k+1]
               q == seqs[j]
               f == first(k+1)
               l == <<ls[j]>>
    <3>5. g \in Seq(T) /\ q \in Seq(T) /\ f \in Seq(T) /\ l \in Seq(T) /\ Count(q) = Count(l)
      BY <3>1, <3>2, <3>3, <3>4
    <3>6. Count(g) = Count(f) /\ G[j] = g \o q /\ first(j) = f \o l
      BY <3>2, <3>3, <3>4
    <3> HIDE DEF g, q, f, l
    <3>7. g \o q \in Seq(T) /\ Count(g \o q) = Count(g) + Count(q)
      BY <3>5, CountConcat
    <3>8. Count(f \o l) = Count(f) + Count(l)
      BY <3>5, CountConcat
    <3>9. G[j] \in Seq(T) /\ Count(G[j]) = Count(first(j))
      BY <3>5, <3>6, <3>7, <3>8
    <3> QED
      BY <3>9 DEF j
  <2>6. n - 1 \in S /\ (n - 1) + 1 = n
    <3>1. Nat \subseteq S
      BY <2>4, <2>5, NumberInduction
    <3> HIDE DEF S
    <3> QED
      BY <1>1, <1>3, <3>1
  <2>7. G[n] \in Seq(T) /\ Count(G[n]) = Count(first(n))
    BY <2>6
  <2>8. first(n) = ls
    BY FirstOfFirst DEF first
  <2> QED
    BY <2>1, <2>7, <2>8
<1> QED
  BY <1>1, <1>2, <1>3

(* Where a hunk is found it has room, and lines that count as many may     *)
(* take the place of those that are there.                                 *)
HasRoom(src, p, n) == p = Nowhere \/ (p \in 0..Len(src) /\ p + n <= Len(src))

LEMMA FindHasRoom ==
  ASSUME NEW T, NEW src \in Seq(T), NEW needle \in Seq(T), NEW x \in Int
  PROVE  /\ HasRoom(src, FindMatch(src, needle, x), Len(needle))
         /\ HasRoom(src, Find(src, needle, x), Len(needle))
         /\ FindMatch(src, needle, x) # Nowhere /\ needle # << >> =>
              AtPos(src, FindMatch(src, needle, x), needle)
<1>1. Len(src) \in Nat /\ Len(needle) \in Nat
  BY LenProperties
<1>2. \A p \in Int : AtPos(src, p, needle) => HasRoom(src, p, Len(needle))
  BY <1>1 DEF AtPos, HasRoom
<1>3. /\ HasRoom(src, FindMatch(src, needle, x), Len(needle))
      /\ FindMatch(src, needle, x) # Nowhere /\ needle # << >> =>
           AtPos(src, FindMatch(src, needle, x), needle)
  <2>1. CASE needle = << >>
    BY <1>1, <2>1 DEF FindMatch, Clamp, HasRoom
  <2>2. CASE needle # << >>
    <3> DEFINE near == {d \in 0..FUZZ_RANGE : \/ AtPos(src, x + d, needle)
                                              \/ AtPos(src, x - d, needle)}
               d == Min(near)
    <3>1. FindMatch(src, needle, x) =
            IF near = {} THEN Nowhere
            ELSE IF AtPos(src, x + d, needle) THEN x + d ELSE x - d
      BY <2>2 DEF FindMatch
    <3>2. near # {} => d \in near
      <4>1. near \in SUBSET Nat
        BY FuzzAssumption
      <4> HIDE DEF near
      <4> QED
        BY <4>1, MinOf
    <3>3. near # {} => /\ d \in Int
                       /\ AtPos(src, x + d, needle) \/ AtPos(src, x - d, needle)
      <4>1. \A y \in near : y \in Int /\ (AtPos(src, x + y, needle) \/ AtPos(src, x - y, needle))
        BY FuzzAssumption
      <4> HIDE DEF near, d
      <4> QED
        BY <3>2, <4>1
    <3> HIDE DEF near, d
    <3>4. near # {} => x + d \in Int /\ x - d \in Int
      BY <3>3
    <3>5. near # {} => AtPos(src, FindMatch(src, needle, x), needle)
                         /\ FindMatch(src, needle, x) \in Int
      BY <3>1, <3>3, <3>4
    <3>6. near = {} => FindMatch(src, needle, x) = Nowhere
      BY <3>1
    <3> QED
      BY <1>2, <3>5, <3>6 DEF HasRoom
  <2> QED
    BY <2>1, <2>2
<1>4. HasRoom(src, FindMatchGlobal(src, needle), Len(needle))
  <2> DEFINE found == {p \in 0..Len(src) : AtPos(src, p, needle)}
  <2>1. FindMatchGlobal(src, needle) = IF found = {} THEN Nowhere ELSE Min(found)
    BY DEF FindMatchGlobal
  <2>2. found # {} => Min(found) \in found
    <3>1. found \in SUBSET Nat
      BY <1>1
    <3> HIDE DEF found
    <3> QED
      BY <3>1, MinOf
  <2>3. \A p \in found : HasRoom(src, p, Len(needle))
    BY <1>2
  <2> HIDE DEF found
  <2> QED
    BY <2>1, <2>2, <2>3 DEF HasRoom
<1> QED
  BY <1>3, <1>4 DEF Find, OrElse

LEMMA LocateHasRoom ==
  ASSUME NEW T, NEW src \in Seq(T), NEW h, h.old \in Seq(T),
         Prefix(h) \in Seq(T), Suffix(h) \in Seq(T), NEW x \in Int
  PROVE  HasRoom(src, Locate(src, h, x), Len(h.old))
<1> DEFINE n == Len(h.old)
           first == Prefix(h)
           last == Suffix(h)
           more == n - Len(last)
           byFirst == IF first = << >> THEN Nowhere ELSE Find(src, first, x)
           byLast == IF last = << >> THEN Nowhere ELSE Back(Find(src, last, x + more), more)
           p == OrElse(byFirst, byLast)
<1>1. /\ n \in Nat /\ Len(src) \in Nat /\ Len(first) \in Nat /\ Len(last) \in Nat
      /\ more \in Int /\ x + more \in Int
  <2>1. n \in Nat /\ Len(src) \in Nat /\ Len(first) \in Nat /\ Len(last) \in Nat
    BY LenProperties
  <2> HIDE DEF n, first, last
  <2> QED
    BY <2>1
<1>2. HasRoom(src, Find(src, h.old, x), n)
  BY FindHasRoom
<1>3. byFirst = Nowhere \/ byFirst \in Nat
  <2>1. HasRoom(src, Find(src, first, x), Len(first))
    BY FindHasRoom
  <2> QED
    BY <1>1, <2>1 DEF HasRoom
<1>4. byLast = Nowhere \/ byLast \in Nat
  <2>1. HasRoom(src, Find(src, last, x + more), Len(last))
    <3> HIDE DEF more, last
    <3>1. last \in Seq(T)
      BY DEF last
    <3> QED
      BY <1>1, <3>1, FindHasRoom
  <2> DEFINE f == Find(src, last, x + more)
  <2>2. f = Nowhere \/ f \in Nat
    BY <1>1, <2>1 DEF HasRoom
  <2> HIDE DEF f, more
  <2>3. Back(f, more) = Nowhere \/ Back(f, more) \in Nat
    BY <1>1, <2>2 DEF Back
  <2> QED
    BY <2>3 DEF f
<1>5. Anchored(src, h, x) = Fits(src, p, n, last)
  BY DEF Anchored
<1> HIDE DEF n, last, byFirst, byLast
<1>6. p = Nowhere \/ p \in Nat
  BY <1>3, <1>4 DEF OrElse
<1> HIDE DEF p
<1>7. HasRoom(src, Fits(src, p, n, last), n)
  <2>1. CASE p # Nowhere /\ p + n <= Len(src)
    <3>1. p \in 0..Len(src)
      BY <1>1, <1>6, <2>1
    <3> QED
      BY <2>1, <3>1 DEF Fits, HasRoom
  <2>2. CASE ~(p # Nowhere /\ p + n <= Len(src))
    BY <2>2 DEF Fits, HasRoom
  <2> QED
    BY <2>1, <2>2
<1> QED
  BY <1>2, <1>5, <1>7 DEF Locate, OrElse, n

LEMMA SpliceCounts ==
  ASSUME NEW T, NEW src \in Seq(T), NEW ls \in Seq(T), NEW n \in Nat, NEW p,
         HasRoom(src, p, n), p # Nowhere,
         Count(ls) = Count(SubSeq(src, p + 1, p + n))
  PROVE  Splice(src, p, n, ls) \in Seq(T) /\ Count(Splice(src, p, n, ls)) = Count(src)
<1> DEFINE z == Len(src)
           b == p + 1
           e == p + n
           f == p + n + 1
           A == SubSeq(src, 1, p)
           M == SubSeq(src, b, e)
           C == SubSeq(src, f, z)
           R == SubSeq(src, b, z)
<1>1. z \in Nat /\ p \in 0..z /\ e \in p..z /\ p \in Int
  BY LenProperties DEF HasRoom
<1>2. /\ 1 \in 1..(z + 1) /\ p \in (1-1)..z /\ z \in p..z /\ z \in e..z
      /\ b \in 1..(z + 1) /\ e \in (b-1)..z /\ f \in 1..(z + 1) /\ z \in (f-1)..z
      /\ z \in (b-1)..z /\ f = e + 1 /\ b = p + 1
  BY <1>1
<1> HIDE DEF z, b, e, f
<1>3. A \in Seq(T) /\ M \in Seq(T) /\ C \in Seq(T) /\ R \in Seq(T)
  <2>1. \A i \in 1..(z + 1) : \A j \in (i-1)..z : SubSeq(src, i, j) \in Seq(T)
    BY PartOfScript DEF z
  <2> QED
    BY <1>2, <2>1
<1>4. A \o R = src
  <2>1. SubSeq(src, 1, p) \o SubSeq(src, p + 1, z) = SubSeq(src, 1, z)
    BY <1>2, ConcatAdjacentSubSeq DEF z
  <2>2. SubSeq(src, 1, z) = src
    BY FirstOfFirst DEF z
  <2> QED
    BY <1>2, <2>1, <2>2
<1>5. M \o C = R
  <2>1. SubSeq(src, b, e) \o SubSeq(src, e + 1, z) = SubSeq(src, b, z)
    BY <1>2, ConcatAdjacentSubSeq DEF z
  <2> QED
    BY <1>2, <2>1
<1>6. Splice(src, p, n, ls) = (A \o ls) \o C
  BY DEF Splice, f, z
<1>7. Count(M) = Count(ls)
  BY DEF b, e
<1> HIDE DEF A, M, C, R
<1>8. Count(src) = Count(A) + Count(R) /\ Count(R) = Count(M) + Count(C)
  BY <1>3, <1>4, <1>5, CountConcat
<1>9. A \o ls \in Seq(T) /\ Count(A \o ls) = Count(A) + Count(ls)
  BY <1>3, CountConcat
<1> DEFINE D == A \o ls
<1> HIDE DEF D
<1>10. D \in Seq(T) /\ Count(D) = Count(A) + Count(ls)
  BY <1>9 DEF D
<1>11. D \o C \in Seq(T) /\ Count(D \o C) = Count(D) + Count(C)
  BY <1>3, <1>10, CountConcat
<1>12. Count(A) \in Nat /\ Count(C) \in Nat /\ Count(M) \in Nat
  BY <1>3, CountType
<1>13. Count(D \o C) = Count(src)
  BY <1>7, <1>8, <1>10, <1>11, <1>12
<1> QED
  BY <1>6, <1>11, <1>13 DEF D

-----------------------------------------------------------------------------
(***************************************************************************)
(* A merge.  The lines of diffs, and those that a file may have.           *)
(***************************************************************************)
ScriptLines == {x.line : x \in UNION {ToSet(s) : s \in Scripts}}
AllLines == ScriptLines \cup {Mine, Ours, Sep, Theirs}

LEMMA LinesFacts ==
  /\ Mine \notin ScriptLines /\ ScriptLines \subseteq AllLines
  /\ \A l \in {Ours, Sep, Theirs} : l \in AllLines /\ l # Mine
  /\ Mine \in AllLines
  /\ \A s \in Scripts : \A x \in ToSet(s) : x.line \in ScriptLines
<1>1. \A s \in Scripts : \A x \in ToSet(s) : x.line # Mine
  BY ScriptFacts
<1>2. Mine \notin ScriptLines
  BY <1>1 DEF ScriptLines
<1>3. \A s \in Scripts : \A x \in ToSet(s) : x.line \in ScriptLines
  BY DEF ScriptLines
<1>4. \A l \in {Ours, Sep, Theirs} : l # Mine
  BY ScriptsAssumption
<1> QED
  BY <1>2, <1>3, <1>4 DEF AllLines

LEMMA SeqGrows ==
  ASSUME NEW A, NEW T, A \subseteq T, NEW a \in Seq(A)
  PROVE  a \in Seq(T)
<1>1. a \in [1..Len(a) -> T] /\ Len(a) \in Nat
  BY LenProperties, ElementOfSeq
<1> QED
  BY <1>1

LEMMA ScriptCounts ==
  ASSUME NEW a \in Seq(ScriptLines)
  PROVE  a \in Seq(AllLines) /\ Count(a) = 0
BY LinesFacts, SeqGrows, CountNone

LEMMA ConflictCounts ==
  ASSUME NEW o \in Seq(AllLines), NEW t \in Seq(ScriptLines)
  PROVE  Conflict(o, t) \in Seq(AllLines) /\ Count(Conflict(o, t)) = Count(o)
<1> DEFINE a == <<Ours>>
           b == <<Sep>>
           c == <<Theirs>>
<1>1. /\ a \in Seq(AllLines) /\ b \in Seq(AllLines) /\ c \in Seq(AllLines)
      /\ Count(a) = 0 /\ Count(b) = 0 /\ Count(c) = 0
  BY LinesFacts, CountOne
<1>2. t \in Seq(AllLines) /\ Count(t) = 0 /\ Count(o) \in Nat
  BY ScriptCounts, CountType
<1> HIDE DEF a, b, c
<1> DEFINE x == a \o o
           y == x \o b
           z == y \o t
<1>3. x \in Seq(AllLines) /\ Count(x) = Count(o)
  BY <1>1, <1>2, CountConcat
<1> HIDE DEF x
<1>4. y \in Seq(AllLines) /\ Count(y) = Count(o)
  <2>1. x \o b \in Seq(AllLines) /\ Count(x \o b) = Count(x) + Count(b)
    BY <1>1, <1>3, CountConcat
  <2> QED
    BY <1>1, <1>2, <1>3, <2>1
<1> HIDE DEF y
<1>5. z \in Seq(AllLines) /\ Count(z) = Count(o)
  <2>1. y \o t \in Seq(AllLines) /\ Count(y \o t) = Count(y) + Count(t)
    BY <1>2, <1>4, CountConcat
  <2> QED
    BY <1>2, <1>4, <2>1
<1> HIDE DEF z
<1>6. z \o c \in Seq(AllLines) /\ Count(z \o c) = Count(o)
  <2>1. z \o c \in Seq(AllLines) /\ Count(z \o c) = Count(z) + Count(c)
    BY <1>1, <1>5, CountConcat
  <2> QED
    BY <1>1, <1>2, <1>5, <2>1
<1> QED
  BY <1>6 DEF Conflict, a, b, c, x, y, z

LEMMA MergeCounts ==
  ASSUME NEW base \in Seq(ScriptLines), NEW theirs \in Seq(ScriptLines),
         NEW ours \in Seq(AllLines), Len(ours) = Len(base)
  PROVE  LET m == Merge(base, ours, theirs)
         IN  m.lines \in Seq(AllLines) /\ Count(m.lines) = Count(ours)
<1>1. /\ base \in Seq(AllLines) /\ Count(base) = 0
      /\ theirs \in Seq(AllLines) /\ Count(theirs) = 0
  BY ScriptCounts
<1>2. CASE Len(base) # Len(theirs)
  <2> DEFINE m == MergeBlock(base, ours, theirs)
  <2>1. Merge(base, ours, theirs) = m
    BY <1>2 DEF Merge
  <2>2. \/ ours = base /\ m.lines = theirs
        \/ m.lines = ours
        \/ m.lines = Conflict(ours, theirs)
    <3>1. CASE ours = base
      <4>1. CASE theirs \in {base, ours}
        BY <3>1, <4>1 DEF MergeBlock
      <4>2. CASE theirs \notin {base, ours}
        BY <3>1, <4>2 DEF MergeBlock
      <4> QED
        BY <4>1, <4>2
    <3>2. CASE ours # base
      <4>1. CASE theirs \in {base, ours}
        BY <3>2, <4>1 DEF MergeBlock
      <4>2. CASE theirs \notin {base, ours}
        BY <3>2, <4>2 DEF MergeBlock
      <4> QED
        BY <4>1, <4>2
    <3> QED
      BY <3>1, <3>2
  <2>3. Conflict(ours, theirs) \in Seq(AllLines) /\ Count(Conflict(ours, theirs)) = Count(ours)
    BY ConflictCounts
  <2> HIDE DEF m
  <2> QED
    BY <1>1, <2>1, <2>2, <2>3
<1>3. CASE Len(base) = Len(theirs)
  <2> DEFINE clash(i) == ours[i] # base[i] /\ theirs[i] # base[i] /\ ours[i] # theirs[i]
             line(i) == IF clash(i) THEN Conflict(<<ours[i]>>, <<theirs[i]>>)
                        ELSE IF ours[i] = base[i] THEN <<theirs[i]>> ELSE <<ours[i]>>
             seqs == [i \in DOMAIN base |-> line(i)]
             n == Len(ours)
  <2>1. n \in Nat /\ DOMAIN base = 1..n
    BY LenProperties
  <2>2. ASSUME NEW i \in 1..n
        PROVE  line(i) \in Seq(AllLines) /\ Count(line(i)) = IF ours[i] = Mine THEN 1 ELSE 0
    <3>1. base[i] \in ScriptLines /\ theirs[i] \in ScriptLines /\ ours[i] \in AllLines
      BY <1>3, ElementOfSeq
    <3>2. base[i] # Mine /\ theirs[i] # Mine /\ theirs[i] \in AllLines
      BY <3>1, LinesFacts
    <3> DEFINE o == <<ours[i]>>
               t == <<theirs[i]>>
    <3>3. /\ o \in Seq(AllLines) /\ t \in Seq(ScriptLines) /\ t \in Seq(AllLines)
          /\ Count(o) = IF ours[i] = Mine THEN 1 ELSE 0
          /\ Count(t) = 0
      BY <3>1, <3>2, CountOne
    <3>4. line(i) = IF clash(i) THEN Conflict(o, t) ELSE IF ours[i] = base[i] THEN t ELSE o
      OBVIOUS
    <3> HIDE DEF o, t, line, clash
    <3>5. Conflict(o, t) \in Seq(AllLines) /\ Count(Conflict(o, t)) = Count(o)
      BY <3>3, ConflictCounts
    <3>6. CASE clash(i)
      BY <3>3, <3>4, <3>5, <3>6
    <3>7. CASE ~clash(i) /\ ours[i] = base[i]
      BY <3>2, <3>3, <3>4, <3>7
    <3>8. CASE ~clash(i) /\ ours[i] # base[i]
      BY <3>3, <3>4, <3>8
    <3> QED
      BY <3>6, <3>7, <3>8
  <2>3. Merge(base, ours, theirs).lines = FlattenSeq(seqs)
    BY <1>3 DEF Merge, MergeLines
  <2> HIDE DEF clash, line
  <2>4. seqs \in [1..n -> Seq(AllLines)] /\ \A i \in 1..n : seqs[i] = line(i)
    BY <2>1, <2>2
  <2> HIDE DEF seqs
  <2>5. seqs \in Seq(Seq(AllLines)) /\ Len(seqs) = n
    BY <2>1, <2>4, SMTT(30)
  <2>6. \A i \in 1..n : Count(seqs[i]) = IF ours[i] = Mine THEN 1 ELSE 0
    BY <2>2, <2>4
  <2>7. FlattenSeq(seqs) \in Seq(AllLines) /\ Count(FlattenSeq(seqs)) = Count(ours)
    BY <2>5, <2>6, CountFlatten
  <2> QED
    BY <2>3, <2>7
<1> QED
  BY <1>2, <1>3

(* What a hunk of a diff is.                                               *)
GoodHunk(h) ==
  /\ h.old \in Seq(ScriptLines) /\ h.new \in Seq(ScriptLines) /\ h.start \in Nat
  /\ Prefix(h) \in Seq(ScriptLines) /\ Suffix(h) \in Seq(ScriptLines)

LEMMA BodyIsGood ==
  ASSUME NEW B, \A x \in B : x.line \in ScriptLines, NEW h, h.body \in Seq(B),
         h.old = OldLines(h.body), h.new = NewLines(h.body), h.start \in Nat
  PROVE  GoodHunk(h)
<1> DEFINE body == h.body
           z == Len(body)
           P == {i \in DOMAIN body : body[i].kind # "context"} \cup {Len(body) + 1}
           Q == {i \in DOMAIN body : body[i].kind # "context"} \cup {0}
<1>1. z \in Nat /\ DOMAIN body = 1..z
  BY LenProperties
<1>2. \A b \in Seq(B) : OldLines(b) \in Seq(ScriptLines) /\ NewLines(b) \in Seq(ScriptLines)
  BY LinesButType DEF OldLines, NewLines
<1>3. Min(P) \in 1..(z + 1)
  <2>1. P \in SUBSET Nat /\ P \subseteq 1..(z + 1) /\ P # {}
    BY <1>1
  <2> HIDE DEF P, z
  <2>2. Min(P) \in P
    BY <2>1, MinOf
  <2> QED
    BY <2>1, <2>2
<1>4. Max(Q) \in 0..z
  <2>1. Q \in SUBSET Nat /\ Q \subseteq 0..z /\ Q # {} /\ \A i \in Q : i <= z
    BY <1>1
  <2> HIDE DEF Q, z
  <2>2. Max(Q) \in Q
    BY <1>1, <2>1, MaxOf
  <2> QED
    BY <2>1, <2>2
<1>5. Prefix(h) = OldLines(SubSeq(body, 1, Min(P) - 1))
  BY DEF Prefix
<1>6. Suffix(h) = OldLines(SubSeq(body, Max(Q) + 1, Len(body)))
  BY DEF Suffix
<1> HIDE DEF P, Q
<1>7. SubSeq(body, 1, Min(P) - 1) \in Seq(B)
  <2> DEFINE j == Min(P) - 1
  <2>1. 1 \in 1..(Len(body) + 1) /\ j \in (1-1)..Len(body)
    BY <1>1, <1>3
  <2> HIDE DEF j, body
  <2>2. body \in Seq(B)
    BY DEF body
  <2>3. SubSeq(body, 1, j) \in Seq(B)
    BY <2>1, <2>2, PartOfScript
  <2> QED
    BY <2>3 DEF j
<1>8. SubSeq(body, Max(Q) + 1, Len(body)) \in Seq(B)
  <2> DEFINE i == Max(Q) + 1
             l == Len(body)
  <2>1. i \in 1..(Len(body) + 1) /\ l \in (i-1)..Len(body)
    BY <1>1, <1>4
  <2> HIDE DEF i, l, body
  <2>2. body \in Seq(B)
    BY DEF body
  <2>3. SubSeq(body, i, l) \in Seq(B)
    BY <2>1, <2>2, PartOfScript
  <2> QED
    BY <2>3 DEF i, l
<1>9. Prefix(h) \in Seq(ScriptLines) /\ Suffix(h) \in Seq(ScriptLines)
  BY <1>2, <1>5, <1>6, <1>7, <1>8
<1> QED
  BY <1>2, <1>9 DEF GoodHunk

LEMMA DiffIsGood ==
  ASSUME NEW s \in Scripts, NEW u \in Nat, NEW oe, NEW ne
  PROVE  \A k \in 1..Len(Diff(s, u, oe, ne)) : GoodHunk(Diff(s, u, oe, ne)[k])
<1> DEFINE D == Diff(s, u, oe, ne)
           B == ToSet(s)
<1>1. s \in Seq(B) /\ \A x \in B : x.line \in ScriptLines
  BY ScriptFacts, LinesFacts
<1> SUFFICES ASSUME NEW k \in 1..Len(D)
             PROVE  GoodHunk(D[k])
  OBVIOUS
<1> DEFINE b == RunFirst(s, u, k)
           e == RunLast(s, u, k)
           before == Len(OldPart(s, 1, b - 1))
           start == IF OldPart(s, b, e) = << >> THEN before ELSE before + 1
           ob == ~oe /\ LastOf(s, "add") \in b..e
           nb == ~ne /\ LastOf(s, "remove") \in b..e /\ s[LastOf(s, "remove")].kind = "add"
<1> HIDE DEF B
<1>2. k \in 1..Len(Order(s, u))
  BY <1>1, DiffHunks
<1>3. b \in 1..Len(s) /\ e \in b..Len(s) /\ D[k] = Hunk(start, SubSeq(s, b, e), ob, nb)
  BY <1>1, <1>2, DiffHunks
<1>4. Len(s) \in Nat
  BY <1>1, LenProperties
<1> HIDE DEF b, e, ob, nb, D
<1>5. b \in 1..(Len(s) + 1) /\ e \in (b-1)..Len(s) /\ 1 \in 1..(Len(s) + 1)
      /\ b - 1 \in (1-1)..Len(s)
  BY <1>3, <1>4
<1>6. SubSeq(s, b, e) \in Seq(B)
  BY <1>1, <1>5, PartOfScript
<1>7. start \in Nat
  <2>1. before \in Nat
    <3> DEFINE c == b - 1
    <3> HIDE DEF c
    <3>1. c \in (1-1)..Len(s)
      BY <1>5 DEF c
    <3>2. Len(OldPart(s, 1, c)) \in Nat
      BY <1>1, <1>5, <3>1, PartType
    <3> QED
      BY <3>2 DEF c
  <2> HIDE DEF before
  <2> QED
    BY <2>1
<1> HIDE DEF start
<1> DEFINE h == D[k]
<1>8. /\ h.body = SubSeq(s, b, e) /\ h.old = OldLines(h.body) /\ h.new = NewLines(h.body)
      /\ h.start = start
  BY <1>3 DEF Hunk
<1> HIDE DEF h
<1>9. GoodHunk(h)
  BY <1>1, <1>6, <1>7, <1>8, BodyIsGood
<1> QED
  BY <1>9 DEF h

(* A hunk, applied or merged, leaves as many.                              *)
Keeps(st, c) ==
  /\ st = [ok |-> st.ok, lines |-> st.lines, eol |-> st.eol,
           offset |-> st.offset, conflicts |-> st.conflicts]
  /\ st.ok \in BOOLEAN /\ st.lines \in Seq(AllLines) /\ st.offset \in Int
  /\ st.ok => Count(st.lines) = c

LEMMA FailedKeeps ==
  ASSUME NEW c
  PROVE  Keeps(Failed, c)
BY DEF Keeps, Failed

LEMMA ApplyKeeps ==
  ASSUME NEW c, NEW st, Keeps(st, c), NEW h, GoodHunk(h)
  PROVE  Keeps(ApplyHunk(st, h), c)
<1> DEFINE n == Len(h.old)
           m == Len(h.new)
           x == Expected(h, st.offset)
           p == FindMatch(st.lines, h.old, x)
           place == SubSeq(st.lines, p + 1, p + n)
<1>1. /\ h.old \in Seq(AllLines) /\ Count(h.old) = 0 /\ n \in Nat
      /\ h.new \in Seq(AllLines) /\ Count(h.new) = 0 /\ m \in Nat
      /\ st.lines \in Seq(AllLines) /\ st.offset \in Int /\ st.ok \in BOOLEAN
      /\ h.start \in Nat
  BY ScriptCounts, LenProperties DEF GoodHunk, Keeps
<1>2. x \in Int
  BY <1>1 DEF Expected
<1> HIDE DEF x
<1>3. /\ HasRoom(st.lines, p, n)
      /\ p # Nowhere /\ h.old # << >> => AtPos(st.lines, p, h.old)
  BY <1>1, <1>2, FindHasRoom
<1>4. CASE ~st.ok \/ p = Nowhere
  <2>1. ApplyHunk(st, h) = Failed
    BY <1>4 DEF ApplyHunk, x
  <2> QED
    BY <2>1, FailedKeeps
<1>5. CASE st.ok /\ p # Nowhere
  <2>1. Count(place) = 0
    <3>1. CASE h.old = << >>
      <4>1. n = 0
        BY <3>1
      <4> HIDE DEF n, p
      <4>2. p \in Int /\ p + n = p
        BY <1>3, <1>5, <4>1 DEF HasRoom
      <4>3. place = << >>
        <5>1. SubSeq(st.lines, p + 1, p) = << >>
          BY <1>1, <4>2, SubSeqEmpty
        <5> QED
          BY <4>2, <5>1
      <4> QED
        BY <3>1, <1>1, <4>3
    <3>2. CASE h.old # << >>
      <4>1. place = h.old
        BY <1>3, <1>5, <3>2 DEF AtPos
      <4> QED
        BY <1>1, <4>1
    <3> QED
      BY <3>1, <3>2
  <2> HIDE DEF p, n, m
  <2>2. /\ Splice(st.lines, p, n, h.new) \in Seq(AllLines)
        /\ Count(Splice(st.lines, p, n, h.new)) = Count(st.lines)
    <3>1. Count(h.new) = Count(SubSeq(st.lines, p + 1, p + n))
      BY <1>1, <2>1
    <3> QED
      BY <1>1, <1>3, <1>5, <3>1, SpliceCounts
  <2> DEFINE ls == Splice(st.lines, p, n, h.new)
             eol == IF p + n >= Len(st.lines) THEN FinalEol(h, st.eol) ELSE st.eol
             offset == st.offset + m - n
  <2>3. ApplyHunk(st, h) = [st EXCEPT !.lines = ls, !.eol = eol, !.offset = offset]
    BY <1>5 DEF ApplyHunk, p, n, m, x
  <2>4. offset \in Int
    BY <1>1
  <2>5. Count(st.lines) = c /\ st.ok = TRUE
    BY <1>5 DEF Keeps
  <2> HIDE DEF ls, eol, offset
  <2>6. ApplyHunk(st, h) = [ok |-> st.ok, lines |-> ls, eol |-> eol,
                            offset |-> offset, conflicts |-> st.conflicts]
    BY <2>3 DEF Keeps
  <2> QED
    BY <1>1, <2>2, <2>4, <2>5, <2>6 DEF Keeps, ls
<1> QED
  BY <1>1, <1>4, <1>5

LEMMA MergeKeeps ==
  ASSUME NEW c, NEW st, Keeps(st, c), NEW h, GoodHunk(h)
  PROVE  Keeps(MergeHunk(st, h), c)
<1> DEFINE n == Len(h.old)
           x == Expected(h, st.offset)
           p == Locate(st.lines, h, x)
           ours == SubSeq(st.lines, p + 1, p + n)
           m == Merge(h.old, ours, h.new)
<1>1. /\ h.old \in Seq(AllLines) /\ h.old \in Seq(ScriptLines) /\ n \in Nat
      /\ h.new \in Seq(ScriptLines)
      /\ Prefix(h) \in Seq(AllLines) /\ Suffix(h) \in Seq(AllLines)
      /\ st.lines \in Seq(AllLines) /\ st.offset \in Int /\ st.ok \in BOOLEAN
      /\ h.start \in Nat
  BY ScriptCounts, LenProperties DEF GoodHunk, Keeps
<1>2. x \in Int
  BY <1>1 DEF Expected
<1> HIDE DEF x
<1>3. HasRoom(st.lines, p, n)
  BY <1>1, <1>2, LocateHasRoom
<1>4. CASE ~st.ok
  <2>1. MergeHunk(st, h) = Failed
    BY <1>4 DEF MergeHunk
  <2> QED
    BY <2>1, FailedKeeps
<1>5. CASE st.ok
  <2>1. MergeHunk(st, h) = MergeAt(st, h, p)
    BY <1>5 DEF MergeHunk, x
  <2> HIDE DEF p
  <2>2. CASE p = Nowhere
    <3>1. MergeAt(st, h, p) = Failed
      BY <2>2 DEF MergeAt
    <3> QED
      BY <2>1, <3>1, FailedKeeps
  <2>3. CASE p # Nowhere
    <3>1. Len(st.lines) \in Nat /\ p \in 0..Len(st.lines) /\ p + n <= Len(st.lines)
      BY <1>1, <1>3, <2>3, LenProperties DEF HasRoom
    <3>2. ours \in Seq(AllLines) /\ Len(ours) = n
      <4> DEFINE b == p + 1
                 e == p + n
                 src == st.lines
      <4>1. b \in 1..(Len(src) + 1) /\ e \in (b-1)..Len(src) /\ e - b + 1 = n
        BY <1>1, <3>1
      <4>2. src \in Seq(AllLines)
        BY <1>1
      <4> HIDE DEF b, e, src
      <4>3. SubSeq(src, b, e) \in Seq(AllLines) /\ Len(SubSeq(src, b, e)) = e - b + 1
        BY <4>1, <4>2, PartOfScript
      <4> QED
        BY <4>1, <4>3 DEF b, e, src
    <3> HIDE DEF n
    <3>3. m.lines \in Seq(AllLines) /\ Count(m.lines) = Count(ours)
      <4> HIDE DEF ours
      <4>1. Len(ours) = Len(h.old)
        BY <3>2 DEF n
      <4> QED
        BY <1>1, <3>2, <4>1, MergeCounts
    <3> DEFINE ls == Splice(st.lines, p, n, m.lines)
               offset == st.offset + Len(m.lines) - n
               conflicts == st.conflicts + m.conflicts
    <3>4. ls \in Seq(AllLines) /\ Count(ls) = Count(st.lines)
      <4> HIDE DEF m
      <4> QED
        BY <1>1, <1>3, <2>3, <3>3, SpliceCounts
    <3>5. MergeAt(st, h, p) = [st EXCEPT !.lines = ls, !.offset = offset, !.conflicts = conflicts]
      BY <2>3 DEF MergeAt, n
    <3>6. offset \in Int
      <4>1. Len(m.lines) \in Nat
        BY <3>3, LenProperties
      <4> HIDE DEF m
      <4> QED
        BY <1>1, <4>1
    <3>7. Count(st.lines) = c /\ st.ok = TRUE
      BY <1>5 DEF Keeps
    <3> HIDE DEF ls, offset, conflicts, m
    <3>8. MergeAt(st, h, p) = [ok |-> st.ok, lines |-> ls, eol |-> st.eol,
                               offset |-> offset, conflicts |-> conflicts]
      BY <3>5 DEF Keeps
    <3> QED
      BY <1>1, <2>1, <3>4, <3>6, <3>7, <3>8 DEF Keeps
  <2> QED
    BY <2>2, <2>3
<1> QED
  BY <1>1, <1>4, <1>5

LEMMA FoldKeeps ==
  ASSUME NEW H, NEW hs \in Seq(H), \A k \in 1..Len(hs) : GoodHunk(hs[k]),
         NEW merging, NEW base, NEW c, Keeps(base, c), NEW F, Through(F, merging, base, hs)
  PROVE  Keeps(F[Len(hs)], c)
<1> DEFINE n == Len(hs)
           S == {k \in Nat : k <= n => Keeps(F[k], c)}
<1>1. n \in Nat
  BY LenProperties
<1>2. 0 \in S
  BY DEF Through
<1>3. ASSUME NEW k \in Nat, k \in S
      PROVE  k + 1 \in S
  <2> SUFFICES ASSUME k + 1 <= n
               PROVE  Keeps(F[k+1], c)
    OBVIOUS
  <2>1. k + 1 \in 1..n /\ (k + 1) - 1 = k /\ k <= n
    BY <1>1
  <2>2. Keeps(F[k], c)
    BY <1>3, <2>1
  <2>3. F[k+1] = HunkStep(merging, F[k], hs[k+1])
    BY <2>1 DEF Through
  <2>4. GoodHunk(hs[k+1])
    BY <2>1
  <2>5. Keeps(MergeHunk(F[k], hs[k+1]), c) /\ Keeps(ApplyHunk(F[k], hs[k+1]), c)
    BY <2>2, <2>4, ApplyKeeps, MergeKeeps
  <2> QED
    BY <2>3, <2>5 DEF HunkStep
<1>4. Nat \subseteq S
  <2> HIDE DEF S
  <2> QED
    BY <1>2, <1>3, NumberInduction
<1> QED
  BY <1>1, <1>4

(* And so does a patch.                                                    *)
LEMMA PatchKeeps ==
  ASSUME NEW ls \in Seq(AllLines), NEW eol, NEW H, NEW hs \in Seq(H),
         \A k \in 1..Len(hs) : GoodHunk(hs[k]), NEW onStale
  PROVE  LET r == ApplyOrMerge(Text(ls, eol), hs, onStale, TRUE)
         IN  r.ok => r.lines \in Seq(AllLines) /\ Count(r.lines) = Count(ls)
<1> DEFINE x == Text(ls, eol)
           base == Start(x)
           c == Count(ls)
           a == FoldLeft(ApplyHunk, base, hs)
           m == FoldLeft(MergeHunk, base, hs)
<1>1. Keeps(base, c)
  BY DEF Keeps, Start, Text
<1> HIDE DEF base, c
<1>2. Keeps(a, c)
  <2>1. PICK F : Through(F, FALSE, base, hs) /\ FoldLeft(ApplyHunk, base, hs) = F[Len(hs)]
    BY ApplyFold
  <2>2. Keeps(F[Len(hs)], c)
    BY <1>1, <2>1, FoldKeeps
  <2> QED
    BY <2>1, <2>2
<1>3. Keeps(m, c)
  <2>1. PICK F : Through(F, TRUE, base, hs) /\ FoldLeft(MergeHunk, base, hs) = F[Len(hs)]
    BY MergeFold
  <2>2. Keeps(F[Len(hs)], c)
    BY <1>1, <2>1, FoldKeeps
  <2> QED
    BY <2>1, <2>2
<1>4. ApplyHunks(x, hs) = Joined(a) /\ MergeHunks(x, hs) = Joined(m)
  BY DEF ApplyHunks, MergeHunks, base
<1> HIDE DEF a, m, x
<1>5. \A st : Keeps(st, c) =>
        (Joined(st).ok => Joined(st).lines \in Seq(AllLines) /\ Count(Joined(st).lines) = c)
  BY DEF Keeps, Joined
<1> DEFINE r == ApplyOrMerge(x, hs, onStale, TRUE)
<1>6. r = ApplyHunks(x, hs) \/ r = MergeHunks(x, hs)
  BY DEF ApplyOrMerge
<1> HIDE DEF r
<1>7. r.ok => r.lines \in Seq(AllLines) /\ Count(r.lines) = c
  BY <1>2, <1>3, <1>4, <1>5, <1>6
<1> QED
  BY <1>7 DEF r, x, c

(* While the patch waits it is a diff, and the lines of the file that no   *)
(* diff has are those that have drifted: each at its place, until one is   *)
(* put above all others.                                                   *)
Adrift ==
  /\ \E s \in Scripts, u \in Contexts, oe, ne \in BOOLEAN : hunks = Diff(s, u, oe, ne)
  /\ file.lines \in Seq(AllLines)
  /\ drifted \subseteq Nat /\ IsFiniteSet(drifted)
  /\ Count(file.lines) = Cardinality(drifted)
  /\ 0 \notin drifted => Mines(file.lines) = drifted

DriftInv ==
  /\ status = [how |-> status.how, newEol |-> status.newEol]
  /\ file = Text(file.lines, file.eol)
  /\ status.how = "made" => Adrift
  /\ status.how # "none" => Count(file.lines) = Cardinality(drifted)

LEMMA DriftInvInit ==
  ASSUME TextInit
  PROVE  DriftInv
<1>1. CASE PatchIdle
  BY <1>1 DEF PatchIdle, DriftInv, Empty, Text
<1>2. CASE PatchInit
  <2>1. PICK u \in Contexts, e \in EolsOf(script) :
          /\ hunks = Diff(script, u, e[1], e[2])
          /\ file = Text(OldLines(script), e[1])
          /\ status = [how |-> "made", newEol |-> e[2]]
    BY <1>2 DEF PatchInit
  <2>2. script \in Scripts /\ drifted = {}
    BY <1>2 DEF PatchInit
  <2> DEFINE B == ToSet(script)
  <2>3. script \in Seq(B) /\ \A x \in B : x.line \in ScriptLines
    BY <2>2, ScriptFacts, LinesFacts
  <2> HIDE DEF B
  <2>4. OldLines(script) \in Seq(ScriptLines)
    BY <2>3, LinesButType DEF OldLines
  <2> DEFINE o == OldLines(script)
  <2>5. o \in Seq(AllLines) /\ Count(o) = 0
    BY <2>4, ScriptCounts
  <2> HIDE DEF o
  <2>6. file.lines = o /\ file.eol = e[1]
    BY <2>1 DEF Text, o
  <2>7. IsFiniteSet(Mines(o))
    BY <2>5, CountType
  <2>8. Mines(o) = {}
    BY <2>5, <2>7, FS_EmptySet DEF Count
  <2>9. e[1] \in BOOLEAN /\ e[2] \in BOOLEAN
    BY DEF EolsOf
  <2>10. Adrift
    BY <2>1, <2>2, <2>5, <2>6, <2>8, <2>9, FS_EmptySet DEF Adrift
  <2>11. file = Text(file.lines, file.eol)
    BY <2>1 DEF Text
  <2> QED
    BY <2>1, <2>10, <2>11 DEF DriftInv, Adrift
<1> QED
  BY <1>1, <1>2 DEF TextInit

LEMMA DriftKeepsAdrift ==
  ASSUME DriftInv, Drift
  PROVE  DriftInv'
<1> DEFINE ls == file.lines
<1>1. /\ UNCHANGED <<script, hunks, status>> /\ status.how = "made"
      /\ \/ \E k \in (DOMAIN ls) \ drifted :
              /\ 0 \notin drifted /\ file' = [file EXCEPT !.lines[k] = Mine]
              /\ drifted' = drifted \cup {k}
         \/ /\ 0 \notin drifted
            /\ file' = [file EXCEPT !.lines = <<Mine>> \o @]
            /\ drifted' = drifted \cup {0}
  BY Zenon DEF Drift
<1>2. /\ Adrift /\ file = Text(ls, file.eol)
      /\ status = [how |-> status.how, newEol |-> status.newEol]
  BY <1>1 DEF DriftInv
<1>3. /\ ls \in Seq(AllLines) /\ drifted \subseteq Nat /\ IsFiniteSet(drifted)
      /\ Count(ls) = Cardinality(drifted) /\ Mines(ls) = drifted
      /\ DOMAIN ls = 1..Len(ls) /\ Len(ls) \in Nat
  BY <1>1, <1>2, CountType DEF Adrift
<1>4. \E s \in Scripts, u \in Contexts, oe, ne \in BOOLEAN : hunks' = Diff(s, u, oe, ne)
  BY <1>1, <1>2 DEF Adrift
<1>5. ASSUME NEW ms, file' = Text(ms, file.eol), ms \in Seq(AllLines),
             NEW k \in Nat, k \notin drifted, drifted' = drifted \cup {k},
             Count(ms) = Count(ls) + 1,
             k # 0 => Mines(ms) = drifted \cup {k}
      PROVE  DriftInv'
  <2>1. IsFiniteSet(drifted') /\ Cardinality(drifted') = Cardinality(drifted) + 1
    BY <1>3, <1>5, FS_AddElement
  <2>2. file'.lines = ms /\ file' = Text(file'.lines, file'.eol)
    BY <1>5 DEF Text
  <2>3. Count(file'.lines) = Cardinality(drifted')
    BY <1>3, <1>5, <2>1, <2>2
  <2>4. 0 \notin drifted' => Mines(file'.lines) = drifted'
    BY <1>5, <2>2
  <2>5. Adrift'
    BY <1>3, <1>4, <1>5, <2>1, <2>2, <2>3, <2>4 DEF Adrift, Count, Mines
  <2>6. status' = [how |-> status'.how, newEol |-> status'.newEol]
    BY <1>1, <1>2
  <2> QED
    BY <2>2, <2>3, <2>5, <2>6 DEF DriftInv, Count, Mines
<1>6. CASE \E k \in (DOMAIN ls) \ drifted :
             /\ 0 \notin drifted /\ file' = [file EXCEPT !.lines[k] = Mine]
             /\ drifted' = drifted \cup {k}
  <2>1. PICK k \in (DOMAIN ls) \ drifted :
             /\ 0 \notin drifted /\ file' = [file EXCEPT !.lines[k] = Mine]
             /\ drifted' = drifted \cup {k}
    BY <1>6
  <2> DEFINE ms == [ls EXCEPT ![k] = Mine]
  <2>2. file' = Text(ms, file.eol)
    BY <1>2, <2>1 DEF Text
  <2>3. k \in 1..Len(ls) /\ k \in Nat /\ k # 0 /\ k \notin drifted
    BY <1>3, <2>1
  <2>4. ms \in Seq(AllLines) /\ DOMAIN ms = DOMAIN ls
    BY <1>3, <2>3, LinesFacts, ExceptSeq
  <2>5. \A i \in DOMAIN ls : ms[i] = IF i = k THEN Mine ELSE ls[i]
    BY <1>3
  <2> HIDE DEF ms
  <2>6. Mines(ms) = drifted \cup {k}
    BY <1>3, <2>3, <2>4, <2>5 DEF Mines
  <2>7. Count(ms) = Count(ls) + 1
    BY <1>3, <2>3, <2>6, FS_AddElement DEF Count
  <2> QED
    BY <1>5, <2>1, <2>2, <2>3, <2>4, <2>6, <2>7
<1>7. CASE /\ 0 \notin drifted
           /\ file' = [file EXCEPT !.lines = <<Mine>> \o @]
           /\ drifted' = drifted \cup {0}
  <2> DEFINE m == <<Mine>>
             ms == m \o ls
  <2>1. m \in Seq(AllLines) /\ Count(m) = 1
    BY LinesFacts, CountOne
  <2>2. file' = Text(ms, file.eol)
    BY <1>2, <1>7 DEF Text
  <2> HIDE DEF m
  <2>3. ms \in Seq(AllLines) /\ Count(ms) = 1 + Count(ls)
    BY <1>3, <2>1, CountConcat
  <2>4. Count(ls) \in Nat
    BY <1>3, CountType
  <2> HIDE DEF ms
  <2>5. Count(ms) = Count(ls) + 1
    BY <2>3, <2>4
  <2> QED
    BY <1>5, <1>7, <2>2, <2>3, <2>5
<1> QED
  BY <1>1, <1>6, <1>7

LEMMA PatchKeepsDrift ==
  ASSUME DriftInv, PatchApply
  PROVE  DriftInv'
<1> DEFINE ls == file.lines
<1>1. /\ UNCHANGED <<script, hunks, drifted>> /\ status.how = "made"
      /\ \E onStale : Patched(ApplyOrMerge(file, hunks, onStale, TRUE))
  BY Zenon DEF PatchApply
<1>2. PICK onStale : Patched(ApplyOrMerge(file, hunks, onStale, TRUE))
  BY <1>1
<1> DEFINE r == ApplyOrMerge(file, hunks, onStale, TRUE)
           a == ApplyHunks(file, hunks)
           how == IF ~r.ok THEN "refused" ELSE IF a.ok THEN "clean"
                  ELSE IF r.conflicts = 0 THEN "merged" ELSE "conflict"
<1>3. /\ file' = IF r.ok THEN Text(r.lines, r.eol) ELSE file
      /\ status' = [status EXCEPT !.how = how]
  BY <1>2 DEF Patched
<1>4. how = "refused" \/ how = "clean" \/ how = "merged" \/ how = "conflict"
  <2> HIDE DEF r, a
  <2> QED
    OBVIOUS
<1>5. /\ Adrift /\ file = Text(ls, file.eol)
      /\ status = [how |-> status.how, newEol |-> status.newEol]
  BY <1>1 DEF DriftInv
<1>6. r.ok => Count(r.lines) = Count(ls)
  <2>1. PICK s \in Scripts, u \in Contexts, oe, ne \in BOOLEAN : hunks = Diff(s, u, oe, ne)
    BY <1>5 DEF Adrift
  <2>2. u \in Nat /\ s \in Seq(ToSet(s))
    BY ScriptsAssumption
  <2> DEFINE B == ToSet(s)
  <2>3. s \in Seq(B)
    BY <2>2
  <2> HIDE DEF B
  <2>4. PICK H : Diff(s, u, oe, ne) \in Seq(H)
    BY <2>2, <2>3, DiffHunks
  <2>5. \A k \in 1..Len(hunks) : GoodHunk(hunks[k])
    BY <2>1, <2>2, DiffIsGood
  <2>6. hunks \in Seq(H) /\ ls \in Seq(AllLines)
    BY <1>5, <2>1, <2>4 DEF Adrift
  <2> DEFINE q == ApplyOrMerge(Text(ls, file.eol), hunks, onStale, TRUE)
  <2>7. q.ok => q.lines \in Seq(AllLines) /\ Count(q.lines) = Count(ls)
    BY <2>5, <2>6, PatchKeeps
  <2>8. q = r
    BY <1>5
  <2> QED
    BY <2>7, <2>8
<1> HIDE DEF r, a, how
<1>7. status'.how = how /\ status' = [how |-> status'.how, newEol |-> status'.newEol]
  BY <1>3, <1>5
<1>8. status'.how # "made"
  BY <1>4, <1>7
<1>9. Count(ls) = Cardinality(drifted)
  BY <1>5 DEF Adrift
<1>10. file' = Text(file'.lines, file'.eol) /\ Count(file'.lines) = Count(ls)
  <2>1. CASE r.ok
    BY <1>3, <1>6, <2>1 DEF Text
  <2>2. CASE ~r.ok
    BY <1>3, <1>5, <2>2
  <2> QED
    BY <2>1, <2>2
<1>11. Count(file'.lines) = Cardinality(drifted')
  BY <1>1, <1>9, <1>10
<1> QED
  BY <1>7, <1>8, <1>10, <1>11 DEF DriftInv, Count, Mines

LEMMA DriftInvStep ==
  ASSUME DriftInv, [TextNext]_textVars
  PROVE  DriftInv'
<1>1. CASE UNCHANGED patchVars
  BY <1>1 DEF patchVars, DriftInv, Adrift, Count, Mines
<1> QED
  BY <1>1, StepsOfText, DriftKeepsAdrift, PatchKeepsDrift

(* A patch takes no line from a file that it does not name: what others    *)
(* have put there since the diff was made is there afterwards, as often as *)
(* it was, whether the patch applies, is merged, ends in conflicts or is   *)
(* refused, and however far the file has drifted.                          *)
THEOREM PatchKeepsTheDrift == TextSpec => []DriftSurvives
<1>1. TextInit => DriftInv
  BY DriftInvInit
<1>2. DriftInv /\ [TextNext]_textVars => DriftInv'
  BY DriftInvStep
<1>3. DriftInv => DriftSurvives
  BY DEF DriftInv, DriftSurvives, Count, Mines
<1> QED
  BY <1>1, <1>2, <1>3, PTL DEF TextSpec

-----------------------------------------------------------------------------
(***************************************************************************)
(* Merging.  Lines are followed from a script into the texts it stands     *)
(* for: a line that is kept has a place there, and every place its line.   *)
(***************************************************************************)
PlaceOf(b, kind, i) == Len(LinesBut(SubSeq(b, 1, i), kind))

LEMMA FirstLines ==
  ASSUME NEW B, NEW b \in Seq(B), NEW n \in Nat, n < Len(b), NEW kind
  PROVE  /\ LinesBut(SubSeq(b, 1, n), kind) \in Seq({x.line : x \in B})
         /\ LinesBut(SubSeq(b, 1, n + 1), kind) =
              IF b[n+1].kind = kind THEN LinesBut(SubSeq(b, 1, n), kind)
              ELSE Append(LinesBut(SubSeq(b, 1, n), kind), b[n+1].line)
         /\ b[n+1].line \in {x.line : x \in B}
<1> DEFINE L == {x.line : x \in B}
<1>1. SubSeq(b, 1, n) \in Seq(B) /\ b[n+1] \in B
      /\ SubSeq(b, 1, n + 1) = Append(SubSeq(b, 1, n), b[n+1])
  BY FirstAndNext
<1>2. \A e \in B : e.line \in L
  OBVIOUS
<1> HIDE DEF L
<1>3. LinesBut(SubSeq(b, 1, n), kind) \in Seq(L)
  BY <1>1, <1>2, LinesButType
<1>4. LinesBut(SubSeq(b, 1, n + 1), kind) =
        IF b[n+1].kind = kind THEN LinesBut(SubSeq(b, 1, n), kind)
        ELSE Append(LinesBut(SubSeq(b, 1, n), kind), b[n+1].line)
  <2> DEFINE pre == SubSeq(b, 1, n)
             x == b[n+1]
  <2> HIDE DEF pre, x
  <2>1. pre \in Seq(B) /\ x \in B
    BY <1>1 DEF pre, x
  <2>2. LinesBut(Append(pre, x), kind) =
          IF x.kind = kind THEN LinesBut(pre, kind) ELSE Append(LinesBut(pre, kind), x.line)
    BY <2>1, LinesButOneMore
  <2> QED
    BY <1>1, <2>2 DEF pre, x
<1> QED
  BY <1>1, <1>2, <1>3, <1>4 DEF L

(* Two bodies of the same kinds: each place has the same line's.           *)
SameKinds(b, c) == Len(b) = Len(c) /\ \A i \in 1..Len(b) : b[i].kind = c[i].kind

SamePlaces(b, c, kind) ==
  /\ \A i \in 0..Len(b) : PlaceOf(b, kind, i) = PlaceOf(c, kind, i)
  /\ Len(LinesBut(b, kind)) = Len(LinesBut(c, kind))
  /\ \A j \in 1..Len(LinesBut(b, kind)) :
       \E i \in 1..Len(b) : /\ b[i].kind # kind /\ j = PlaceOf(b, kind, i)
                            /\ LinesBut(b, kind)[j] = b[i].line
                            /\ LinesBut(c, kind)[j] = c[i].line

LEMMA PlacesOfKinds ==
  ASSUME NEW B, NEW b \in Seq(B), NEW C, NEW c \in Seq(C), NEW kind, SameKinds(b, c)
  PROVE  SamePlaces(b, c, kind)
<1>0. Len(b) = Len(c) /\ \A i \in 1..Len(b) : b[i].kind = c[i].kind
  BY DEF SameKinds
<1> DEFINE fb(n) == LinesBut(SubSeq(b, 1, n), kind)
           fc(n) == LinesBut(SubSeq(c, 1, n), kind)
           Same(n) == /\ Len(fb(n)) = Len(fc(n))
                      /\ \A j \in 1..Len(fb(n)) :
                           \E i \in 1..n : /\ b[i].kind # kind /\ j = Len(fb(i))
                                           /\ fb(n)[j] = b[i].line /\ fc(n)[j] = c[i].line
           S == {n \in Nat : n <= Len(b) => Same(n)}
<1>1. fb(0) = << >> /\ fc(0) = << >> /\ fb(Len(b)) = LinesBut(b, kind)
      /\ fc(Len(b)) = LinesBut(c, kind) /\ Len(b) \in Nat
  BY <1>0, FirstOfFirst, LinesButEmpty, LenProperties
<1>2. ASSUME NEW n \in Nat, n < Len(b)
      PROVE
        /\ fb(n) \in Seq({x.line : x \in B}) /\ fc(n) \in Seq({x.line : x \in C})
        /\ fb(n+1) = IF b[n+1].kind = kind THEN fb(n) ELSE Append(fb(n), b[n+1].line)
        /\ fc(n+1) = IF c[n+1].kind = kind THEN fc(n) ELSE Append(fc(n), c[n+1].line)
        /\ b[n+1].line \in {x.line : x \in B} /\ c[n+1].line \in {x.line : x \in C}
  <2>1. n < Len(b) /\ n < Len(c)
    BY <1>0, <1>2
  <2>2. /\ fb(n) \in Seq({x.line : x \in B}) /\ b[n+1].line \in {x.line : x \in B}
        /\ fb(n+1) = IF b[n+1].kind = kind THEN fb(n) ELSE Append(fb(n), b[n+1].line)
    BY ONLY <2>1, b \in Seq(B), FirstLines
  <2>3. /\ fc(n) \in Seq({x.line : x \in C}) /\ c[n+1].line \in {x.line : x \in C}
        /\ fc(n+1) = IF c[n+1].kind = kind THEN fc(n) ELSE Append(fc(n), c[n+1].line)
    BY ONLY <2>1, c \in Seq(C), FirstLines
  <2> QED
    BY <2>2, <2>3
<1> HIDE DEF fb, fc
<1>3. 0 \in S
  <2>1. Len(<< >>) = 0 /\ 1..0 = {}
    OBVIOUS
  <2>2. Len(fb(0)) = 0 /\ Len(fc(0)) = 0
    BY <1>1, <2>1
  <2> QED
    BY <2>1, <2>2
<1>4. ASSUME NEW n \in Nat, n \in S
      PROVE  n + 1 \in S
  <2> HIDE DEF Same
  <2> SUFFICES ASSUME n + 1 <= Len(b)
               PROVE  Same(n + 1)
    OBVIOUS
  <2>1. n < Len(b) /\ Same(n) /\ n + 1 \in 1..Len(b)
    BY <1>1, <1>4
  <2> USE DEF Same
  <2> DEFINE g == fb(n)
             h == fc(n)
             g1 == fb(n + 1)
             h1 == fc(n + 1)
  <2>2. /\ g \in Seq({x.line : x \in B}) /\ h \in Seq({x.line : x \in C})
        /\ g1 = IF b[n+1].kind = kind THEN g ELSE Append(g, b[n+1].line)
        /\ h1 = IF b[n+1].kind = kind THEN h ELSE Append(h, c[n+1].line)
        /\ b[n+1].line \in {x.line : x \in B} /\ c[n+1].line \in {x.line : x \in C}
    BY <1>0, <1>2, <2>1
  <2>3. /\ Len(g) = Len(h) /\ Len(g) \in Nat
        /\ \A j \in 1..Len(g) :
             \E i \in 1..n : /\ b[i].kind # kind /\ j = Len(fb(i))
                             /\ g[j] = b[i].line /\ h[j] = c[i].line
    BY <2>1, <2>2, LenProperties
  <2> HIDE DEF g, h, g1, h1
  <2>4. CASE b[n+1].kind = kind
    <3>1. g1 = g /\ h1 = h
      BY <2>2, <2>4
    <3>2. \A i \in 1..n : i \in 1..(n+1)
      OBVIOUS
    <3> QED
      BY <2>3, <3>1, <3>2 DEF g1, h1
  <2>5. CASE b[n+1].kind # kind
    <3>1. /\ Len(g1) = Len(g) + 1 /\ g1[Len(g) + 1] = b[n+1].line
          /\ \A j \in 1..Len(g) : g1[j] = g[j]
      BY <2>2, <2>5, AppendProperties
    <3>2. /\ Len(h1) = Len(h) + 1 /\ h1[Len(h) + 1] = c[n+1].line
          /\ \A j \in 1..Len(h) : h1[j] = h[j]
      BY <2>2, <2>5, AppendProperties
    <3>3. ASSUME NEW j \in 1..Len(g1)
          PROVE  \E i \in 1..(n+1) : /\ b[i].kind # kind /\ j = Len(fb(i))
                                     /\ g1[j] = b[i].line /\ h1[j] = c[i].line
      <4>1. CASE j = Len(g) + 1
        <5>1. n + 1 \in 1..(n+1)
          OBVIOUS
        <5> QED
          BY <2>3, <2>5, <3>1, <3>2, <4>1, <5>1 DEF g1
      <4>2. CASE j # Len(g) + 1
        <5>1. j \in 1..Len(g) /\ j \in 1..Len(h)
          BY <2>3, <3>1, <4>2
        <5>2. PICK i \in 1..n : /\ b[i].kind # kind /\ j = Len(fb(i))
                                /\ g[j] = b[i].line /\ h[j] = c[i].line
          BY <2>3, <5>1
        <5>3. i \in 1..(n+1) /\ g1[j] = g[j] /\ h1[j] = h[j]
          BY <3>1, <3>2, <5>1
        <5> QED
          BY <5>2, <5>3
      <4> QED
        BY <4>1, <4>2
    <3> QED
      BY <2>3, <3>1, <3>2, <3>3 DEF g1, h1
  <2> QED
    BY <2>4, <2>5
<1>5. \A n \in 0..Len(b) : Same(n)
  <2> HIDE DEF Same
  <2>1. Nat \subseteq S
    BY <1>3, <1>4, NumberInduction
  <2> QED
    BY <1>1, <2>1
<1>6. \A i \in 0..Len(b) : PlaceOf(b, kind, i) = Len(fb(i)) /\ PlaceOf(c, kind, i) = Len(fc(i))
  BY DEF PlaceOf, fb, fc
<1>7. Same(Len(b)) /\ \A i \in 1..Len(b) : i \in 0..Len(b)
  BY <1>1, <1>5
<1> QED
  BY <1>1, <1>5, <1>6, <1>7 DEF SamePlaces

(* A line that is kept has its place.                                      *)
LEMMA PlaceHasLine ==
  ASSUME NEW B, NEW b \in Seq(B), NEW kind \in {"add", "remove"},
         NEW i \in 1..Len(b), b[i].kind # kind
  PROVE  /\ PlaceOf(b, kind, i) \in 1..Len(LinesBut(b, kind))
         /\ LinesBut(b, kind)[PlaceOf(b, kind, i)] = b[i].line
<1> DEFINE L == {x.line : x \in B}
           m == i - 1
           f == LinesBut(SubSeq(b, 1, m), kind)
           g == LinesBut(SubSeq(b, 1, i), kind)
           r == LinesBut(SubSeq(b, i + 1, Len(b)), kind)
<1>1. m \in Nat /\ m < Len(b) /\ m + 1 = i /\ Len(b) \in Nat
  BY LenProperties
<1>2. f \in Seq(L) /\ g = Append(f, b[i].line) /\ b[i].line \in L
  <2> HIDE DEF m
  <2>1. /\ LinesBut(SubSeq(b, 1, m), kind) \in Seq({x.line : x \in B})
        /\ LinesBut(SubSeq(b, 1, m + 1), kind) =
             IF b[m+1].kind = kind THEN LinesBut(SubSeq(b, 1, m), kind)
             ELSE Append(LinesBut(SubSeq(b, 1, m), kind), b[m+1].line)
        /\ b[m+1].line \in {x.line : x \in B}
    BY <1>1, FirstLines, SMTT(30)
  <2> QED
    BY <1>1, <2>1
<1>3. LinesBut(b, kind) = g \o r /\ r \in Seq(L)
  <2>1. /\ 1 \in 1..(Len(b) + 1) /\ i \in (1-1)..Len(b) /\ Len(b) \in i..Len(b)
        /\ i + 1 \in 1..(Len(b) + 1) /\ Len(b) \in ((i+1)-1)..Len(b)
    BY <1>1
  <2>2. /\ OldPart(b, 1, Len(b)) = OldPart(b, 1, i) \o OldPart(b, i + 1, Len(b))
        /\ NewPart(b, 1, Len(b)) = NewPart(b, 1, i) \o NewPart(b, i + 1, Len(b))
    BY <2>1, PartsJoin
  <2>3. /\ OldPart(b, 1, Len(b)) = OldLines(b) /\ NewPart(b, 1, Len(b)) = NewLines(b)
    BY WholeScript
  <2>4. \A e \in B : e.line \in L
    OBVIOUS
  <2> HIDE DEF L
  <2>5. OldPart(b, i + 1, Len(b)) \in Seq(L) /\ NewPart(b, i + 1, Len(b)) \in Seq(L)
    BY <2>1, <2>4, PartType
  <2> QED
    BY <2>2, <2>3, <2>5 DEF OldPart, NewPart, OldLines, NewLines
<1> HIDE DEF f, g, r, L
<1>4. Len(g) = Len(f) + 1 /\ g[Len(g)] = b[i].line /\ g \in Seq(L) /\ Len(f) \in Nat
  BY <1>2, AppendProperties, LenProperties
<1>5. Len(r) \in Nat /\ Len(g \o r) = Len(g) + Len(r)
      /\ \A j \in 1..Len(g) : (g \o r)[j] = g[j]
  <2>1. Len(g) \in Nat /\ Len(r) \in Nat
    BY <1>3, <1>4, LenProperties
  <2>2. \A j \in 1..Len(g) : j \in 1..(Len(g) + Len(r)) /\ j <= Len(g)
    BY <2>1
  <2> QED
    BY <1>3, <1>4, <2>1, <2>2, ConcatProperties
<1>6. PlaceOf(b, kind, i) = Len(g)
  BY DEF PlaceOf, g
<1> QED
  BY <1>3, <1>4, <1>5, <1>6

(* The script as the drifted file reads: what has drifted is another line. *)
Drifted(s, d) ==
  [i \in 1..Len(s) |->
     PatchLine(s[i].kind, IF s[i].kind # "add" /\ PlaceOf(s, "add", i) \in d
                          THEN Mine ELSE s[i].line)]

(* A body c that reads as b but for lines that have drifted.               *)
Reads(b, c) ==
  /\ Len(c) = Len(b)
  /\ \A i \in 1..Len(b) : /\ c[i].kind = b[i].kind
                          /\ c[i].line = b[i].line \/ c[i].line = Mine
                          /\ b[i].kind = "add" => c[i].line = b[i].line

LinesOf(B) == {x.line : x \in B} \cup {Mine}
DriftedLines(B) == {PatchLine(x.kind, l) : x \in B, l \in LinesOf(B)}
DriftedAt(s, c, d) ==
  \A i \in 1..Len(s) : c[i].line = IF s[i].kind # "add" /\ PlaceOf(s, "add", i) \in d
                                   THEN Mine ELSE s[i].line

LEMMA DriftedReads ==
  ASSUME NEW B, NEW s \in Seq(B), NEW d
  PROVE  /\ Reads(s, Drifted(s, d)) /\ Drifted(s, d) \in Seq(DriftedLines(B))
         /\ DriftedAt(s, Drifted(s, d), d)
<1> DEFINE c == Drifted(s, d)
           C == DriftedLines(B)
           line(i) == IF s[i].kind # "add" /\ PlaceOf(s, "add", i) \in d THEN Mine ELSE s[i].line
<1>1. Len(s) \in Nat /\ \A i \in 1..Len(s) : s[i] \in B
  BY LenProperties, ElementOfSeq
<1>2. \A i \in 1..Len(s) : c[i] = PatchLine(s[i].kind, line(i))
  BY DEF Drifted
<1>3. ASSUME NEW i \in 1..Len(s)
      PROVE  c[i].kind = s[i].kind /\ c[i].line = line(i)
  <2> DEFINE l == line(i)
             x == c[i]
  <2>1. x = PatchLine(s[i].kind, l)
    BY <1>2, <1>3
  <2> HIDE DEF l, x
  <2>2. x.kind = s[i].kind /\ x.line = l
    BY <2>1 DEF PatchLine
  <2> QED
    BY <2>2 DEF l, x
<1>4. \A i \in 1..Len(s) : line(i) \in {y.line : y \in B} \cup {Mine}
  BY <1>1
<1>5. ASSUME NEW i \in 1..Len(s)
      PROVE  c[i] \in C
  <2> DEFINE l == line(i)
             x == c[i]
             y == s[i]
  <2>1. x = PatchLine(y.kind, l) /\ y \in B /\ l \in {z.line : z \in B} \cup {Mine}
    BY <1>1, <1>2, <1>4, <1>5
  <2> HIDE DEF l, x, y
  <2>2. x \in C
    BY <2>1 DEF DriftedLines, LinesOf
  <2> QED
    BY <2>2 DEF x
<1>6. c \in [1..Len(s) -> C]
  <2> DEFINE n == Len(s)
             x(i) == PatchLine(s[i].kind, line(i))
  <2>1. c = [i \in 1..n |-> x(i)]
    BY DEF Drifted
  <2>2. \A i \in 1..n : x(i) \in C
    BY <1>2, <1>5
  <2> HIDE DEF C, x, n
  <2>3. [i \in 1..n |-> x(i)] \in [1..n -> C]
    BY <2>2
  <2> QED
    BY <2>1, <2>3 DEF n
<1>7. c \in Seq(C) /\ Len(c) = Len(s)
  <2> HIDE DEF c, C
  <2>1. c \in Seq(C)
    BY <1>1, <1>6
  <2>2. DOMAIN c = 1..Len(c) /\ DOMAIN c = 1..Len(s) /\ Len(c) \in Nat
    BY <1>6, <2>1, LenProperties
  <2> QED
    BY <1>1, <2>1, <2>2, LenProperties
<1>8. Reads(s, c)
  <2> HIDE DEF c
  <2> QED
    BY <1>3, <1>7 DEF Reads
<1> QED
  BY <1>3, <1>7, <1>8 DEF DriftedAt

(* It is cut into the same hunks.                                          *)
LEMMA ReadsAreCutAlike ==
  ASSUME NEW B, NEW b \in Seq(B), NEW C, NEW c \in Seq(C), Reads(b, c), NEW u \in Nat
  PROVE  /\ Order(c, u) = Order(b, u)
         /\ \A k : RunFirst(c, u, k) = RunFirst(b, u, k) /\ RunLast(c, u, k) = RunLast(b, u, k)
<1>1. DOMAIN b = 1..Len(b) /\ DOMAIN c = 1..Len(b) /\ Len(b) = Len(c)
  BY LenProperties DEF Reads
<1>2. Changed(c) = Changed(b)
  BY <1>1 DEF Changed, Reads
<1>3. Near(c, u) = Near(b, u)
  BY <1>1, <1>2 DEF Near
<1>4. Starts(c, u) = Starts(b, u)
  BY <1>3 DEF Starts
<1>5. Order(c, u) = Order(b, u)
  BY <1>4 DEF Order
<1>6. \A i : StopOf(c, u, i) = StopOf(b, u, i)
  BY <1>3 DEF StopOf
<1> QED
  BY <1>1, <1>5, <1>6 DEF RunFirst, RunLast

(* And a part of it reads as that part.                                    *)
LEMMA PartReads ==
  ASSUME NEW B, NEW b \in Seq(B), NEW C, NEW c \in Seq(C), Reads(b, c),
         NEW i \in 1..(Len(b) + 1), NEW j \in (i-1)..Len(b)
  PROVE  Reads(SubSeq(b, i, j), SubSeq(c, i, j))
<1>1. /\ Len(SubSeq(b, i, j)) = j - i + 1
      /\ \A m \in 1..(j - i + 1) : SubSeq(b, i, j)[m] = b[m + i - 1] /\ m + i - 1 \in i..j
  BY PartOfScript
<1>2. Len(c) = Len(b) /\ Len(b) \in Nat
  BY LenProperties DEF Reads
<1>3. /\ Len(SubSeq(c, i, j)) = j - i + 1
      /\ \A m \in 1..(j - i + 1) : SubSeq(c, i, j)[m] = c[m + i - 1]
  BY <1>2, PartOfScript
<1>4. \A m \in i..j : m \in 1..Len(b)
  BY <1>2
<1> QED
  BY <1>1, <1>3, <1>4 DEF Reads

LEMMA ReadsLong ==
  ASSUME NEW B, NEW b \in Seq(B), NEW C, NEW c \in Seq(C), Reads(b, c)
  PROVE  /\ Len(OldLines(c)) = Len(OldLines(b)) /\ Len(NewLines(c)) = Len(NewLines(b))
         /\ SamePlaces(b, c, "add") /\ SamePlaces(b, c, "remove")
<1>1. SameKinds(b, c)
  BY DEF Reads, SameKinds
<1>2. SamePlaces(b, c, "add") /\ SamePlaces(b, c, "remove")
  BY <1>1, PlacesOfKinds
<1> QED
  BY <1>2 DEF SamePlaces, OldLines, NewLines

(* So in a part of a script: each place of the part's lines is a line's.   *)
PlacesInPart(b, c, kind, i, j) ==
  LET part(s, k) == LinesBut(SubSeq(s, i, k), kind)
  IN  /\ Len(part(c, j)) = Len(part(b, j))
      /\ \A x \in 1..Len(part(b, j)) :
           \E m \in i..j : /\ b[m].kind # kind /\ x = Len(part(b, m))
                           /\ part(b, j)[x] = b[m].line /\ part(c, j)[x] = c[m].line

LEMMA PartPlaces ==
  ASSUME NEW B, NEW b \in Seq(B), NEW C, NEW c \in Seq(C), Reads(b, c),
         NEW i \in 1..(Len(b) + 1), NEW j \in (i-1)..Len(b), NEW kind \in {"add", "remove"}
  PROVE  PlacesInPart(b, c, kind, i, j)
<1> DEFINE sb == SubSeq(b, i, j)
           sc == SubSeq(c, i, j)
           fb == LinesBut(sb, kind)
           fc == LinesBut(sc, kind)
<1>1. Len(c) = Len(b) /\ Len(b) \in Nat
  BY LenProperties DEF Reads
<1>2. /\ sb \in Seq(B) /\ Len(sb) = j - i + 1
      /\ \A m \in 1..(j - i + 1) : sb[m] = b[m + i - 1] /\ m + i - 1 \in i..j
  BY PartOfScript
<1>3. /\ sc \in Seq(C) /\ Len(sc) = j - i + 1
      /\ \A m \in 1..(j - i + 1) : sc[m] = c[m + i - 1]
  BY <1>1, PartOfScript
<1>4. Reads(sb, sc)
  BY PartReads
<1>5. SamePlaces(sb, sc, kind)
  <2> HIDE DEF sb, sc
  <2> QED
    BY <1>2, <1>3, <1>4, ReadsLong
<1>6. ASSUME NEW m \in 1..(j - i + 1)
      PROVE  SubSeq(sb, 1, m) = SubSeq(b, i, m + i - 1)
  <2> DEFINE e == m + i - 1
             sm == SubSeq(b, i, e)
  <2>1. e \in (i-1)..Len(b) /\ e - i + 1 = m
    BY <1>1
  <2>2. /\ sm \in Seq(B) /\ Len(sm) = e - i + 1
        /\ \A x \in 1..(e - i + 1) : sm[x] = b[x + i - 1]
    <3> HIDE DEF e
    <3> QED
      BY <2>1, PartOfScript
  <2>3. 1 \in 1..(Len(sb) + 1) /\ m \in (1-1)..Len(sb) /\ m - 1 + 1 = m
    BY <1>1, <1>2
  <2> HIDE DEF sb
  <2>4. /\ SubSeq(sb, 1, m) \in Seq(B) /\ Len(SubSeq(sb, 1, m)) = m
        /\ \A x \in 1..m : SubSeq(sb, 1, m)[x] = sb[x + 1 - 1]
    BY <1>2, <2>3, PartOfScript
  <2>5. \A x \in 1..m : x \in 1..(j - i + 1) /\ x + 1 - 1 = x
    OBVIOUS
  <2> HIDE DEF e
  <2>6. \A x \in 1..m : SubSeq(sb, 1, m)[x] = sm[x]
    BY <1>2, <2>1, <2>2, <2>4, <2>5
  <2> DEFINE fm == SubSeq(sb, 1, m)
  <2> HIDE DEF fm, sm
  <2>7. fm \in Seq(B) /\ sm \in Seq(B) /\ Len(fm) = Len(sm) /\ \A x \in 1..Len(fm) : fm[x] = sm[x]
    BY <2>1, <2>2, <2>4, <2>6 DEF fm, sm
  <2>8. fm = sm
    BY <2>7, SeqEqual
  <2> QED
    BY <2>8 DEF fm, sm, e
<1>7. ASSUME NEW x \in 1..Len(fb)
      PROVE  \E m \in i..j : /\ b[m].kind # kind /\ x = Len(LinesBut(SubSeq(b, i, m), kind))
                             /\ fb[x] = b[m].line /\ fc[x] = c[m].line
  <2>1. PICK y \in 1..Len(sb) : /\ sb[y].kind # kind /\ x = PlaceOf(sb, kind, y)
                                /\ fb[x] = sb[y].line /\ fc[x] = sc[y].line
    <3> HIDE DEF sb, sc
    <3> QED
      BY <1>5, <1>7 DEF SamePlaces
  <2> DEFINE m == y + i - 1
  <2>2. y \in 1..(j - i + 1)
    BY <1>2
  <2>3. m \in i..j /\ sb[y] = b[m] /\ sc[y] = c[m]
    BY <1>2, <1>3, <2>2
  <2>4. x = Len(LinesBut(SubSeq(b, i, m), kind))
    BY <1>6, <2>1, <2>2 DEF PlaceOf
  <2> HIDE DEF m, sb, sc, fb, fc
  <2> QED
    BY <2>1, <2>3, <2>4
<1>8. Len(fc) = Len(fb)
  <2> HIDE DEF sb, sc
  <2> QED
    BY <1>5 DEF SamePlaces
<1> QED
  BY <1>7, <1>8 DEF PlacesInPart

(* No line of the old text is like another line of the script.             *)
Unlike(s) ==
  /\ \A i, j \in 1..Len(s) : s[i].kind # "add" /\ s[i].line = s[j].line => i = j
  /\ \A i \in 1..Len(s) : s[i].line # Mine

(* Each line of one text can only be where it is p lines on in the other.  *)
Placed(src, needle, p) ==
  \A j \in 1..Len(src), x \in 1..Len(needle) : src[j] = needle[x] => j = p + x

LEMMA HunkIsPlaced ==
  ASSUME NEW B, NEW s \in Seq(B), NEW C, NEW c \in Seq(C), Reads(s, c), Unlike(s),
         NEW u \in Nat, NEW k \in 1..Len(Order(s, u))
  PROVE  Placed(Midway(c, RunLast(s, u, k - 1)),
                OldPart(s, RunFirst(s, u, k), RunLast(s, u, k)),
                Len(NewPart(c, 1, RunFirst(s, u, k) - 1)))
<1> DEFINE n == Len(s)
           a == RunLast(s, u, k - 1)
           b == RunFirst(s, u, k)
           e == RunLast(s, u, k)
           L == {x.line : x \in C}
           f == NewPart(c, 1, a)
           g == OldPart(c, a + 1, n)
           gap == OldPart(c, a + 1, b - 1)
           old == OldPart(s, b, e)
           p == Len(NewPart(c, 1, b - 1))
<1>1. n \in Nat /\ b \in 1..n /\ e \in b..n /\ Len(c) = n
  BY LenProperties, DiffHunks DEF Reads
<1>2. /\ a \in 0..n /\ a < b
      /\ \A j \in (a + 1)..(b - 1) : s[j].kind = "context"
  <2>1. k - 1 \in 0..Len(Order(s, u)) /\ (k - 1) + 1 = k
    BY OrderFacts
  <2> QED
    BY <2>1, GapsAreContext
<1> HIDE DEF a, b, e, n
<1>3. /\ 1 \in 1..(n + 1) /\ a \in (1-1)..n /\ a + 1 \in 1..(n + 1) /\ n \in ((a+1)-1)..n
      /\ b - 1 \in ((a+1)-1)..n /\ b - 1 \in a..n /\ b \in 1..(n + 1) /\ e \in (b-1)..n
  BY <1>1, <1>2
<1>4. \A x \in C : x.line \in L
  OBVIOUS
<1> HIDE DEF L
<1>5. f \in Seq(L) /\ g \in Seq(L) /\ Len(f) \in Nat /\ Len(g) \in Nat
      /\ Len(gap) \in Nat
  BY <1>1, <1>3, <1>4, PartType
<1>6. p = Len(f) + Len(gap)
  <2>1. NewPart(c, 1, b - 1) = f \o NewPart(c, a + 1, b - 1)
    BY <1>1, <1>3, PartsJoin
  <2>2. \A j \in (a + 1)..(b - 1) : c[j].kind = "context"
    BY <1>1, <1>2 DEF Reads, n
  <2>3. NewPart(c, a + 1, b - 1) = gap
    BY <1>1, <1>3, <2>2, PartOfContext
  <2>4. gap \in Seq(L)
    BY <1>1, <1>3, <1>4, PartType
  <2> HIDE DEF f, gap
  <2>5. Len(f \o gap) = Len(f) + Len(gap)
    BY <1>5, <2>4, ConcatProperties
  <2> QED
    BY <2>1, <2>3, <2>5
<1>7. ASSUME NEW x \in 1..Len(old)
      PROVE  \E i \in b..e : /\ s[i].kind # "add" /\ old[x] = s[i].line
                             /\ Len(OldPart(c, b, i)) = x
  <2>1. PlacesInPart(s, c, "add", b, e)
    BY <1>1, <1>3, PartPlaces DEF n
  <2>2. PICK i \in b..e : s[i].kind # "add" /\ x = Len(OldPart(s, b, i)) /\ old[x] = s[i].line
    BY <1>7, <2>1 DEF PlacesInPart, OldPart, OldLines
  <2>3. i \in (b-1)..Len(s)
    BY <1>1, <1>3 DEF n
  <2>4. PlacesInPart(s, c, "add", b, i)
    BY <1>1, <1>3, <2>3, PartPlaces DEF n
  <2>5. Len(OldPart(c, b, i)) = Len(OldPart(s, b, i))
    BY <2>4 DEF PlacesInPart, OldPart, OldLines
  <2> QED
    BY <2>2, <2>5
<1>8. Reads(c, c)
  BY DEF Reads
<1>9. ASSUME NEW j \in 1..Len(f)
      PROVE  \E m \in 1..a : f[j] = c[m].line
  <2>1. PlacesInPart(c, c, "remove", 1, a)
    BY <1>1, <1>3, <1>8, PartPlaces
  <2> QED
    BY <1>9, <2>1 DEF PlacesInPart, NewPart, NewLines
<1>10. ASSUME NEW j \in 1..Len(g)
       PROVE  \E m \in (a+1)..n : g[j] = c[m].line /\ j = Len(OldPart(c, a + 1, m))
  <2>1. PlacesInPart(c, c, "add", a + 1, n)
    BY <1>1, <1>3, <1>8, PartPlaces
  <2> QED
    BY <1>10, <2>1 DEF PlacesInPart, OldPart, OldLines
<1>11. ASSUME NEW m \in 1..n, NEW i \in 1..n, s[i].kind # "add", c[m].line = s[i].line
       PROVE  m = i
  <2>1. c[m].line = s[m].line
    BY <1>11 DEF Reads, Unlike, n
  <2> QED
    BY <1>11, <2>1 DEF Unlike, n
<1> HIDE DEF f, g, old, gap, p
<1>12. /\ Len(f \o g) = Len(f) + Len(g)
       /\ \A j \in 1..(Len(f) + Len(g)) : (f \o g)[j] = IF j <= Len(f) THEN f[j] ELSE g[j - Len(f)]
  BY <1>5, ConcatProperties
<1>13. ASSUME NEW j \in 1..(Len(f) + Len(g)), NEW x \in 1..Len(old), (f \o g)[j] = old[x]
       PROVE  j = p + x
  <2>1. PICK i \in b..e : /\ s[i].kind # "add" /\ old[x] = s[i].line
                          /\ Len(OldPart(c, b, i)) = x
    BY <1>7
  <2>2. i \in 1..n /\ i > a /\ i \in b..n
    BY <1>1, <1>2, <2>1
  <2>3. CASE j <= Len(f)
    <3>1. j \in 1..Len(f) /\ f[j] = s[i].line
      BY <1>5, <1>12, <1>13, <2>1, <2>3
    <3>2. PICK m \in 1..a : f[j] = c[m].line
      BY <1>9, <3>1
    <3>3. m \in 1..n /\ m <= a
      BY <1>1, <1>2
    <3>4. m = i
      BY <1>11, <2>1, <2>2, <3>1, <3>2, <3>3
    <3> QED
      BY <1>2, <2>2, <3>3, <3>4
  <2>4. CASE j > Len(f)
    <3> DEFINE y == j - Len(f)
    <3>1. y \in 1..Len(g) /\ g[y] = s[i].line /\ j = Len(f) + y
      BY <1>5, <1>12, <1>13, <2>1, <2>4
    <3> HIDE DEF y
    <3>2. PICK m \in (a+1)..n : g[y] = c[m].line /\ y = Len(OldPart(c, a + 1, m))
      BY <1>10, <3>1
    <3>3. m \in 1..n
      BY <1>1, <1>2
    <3>4. m = i
      BY <1>11, <2>1, <2>2, <3>1, <3>2, <3>3
    <3>5. OldPart(c, a + 1, i) = gap \o OldPart(c, b, i)
      <4> DEFINE d == b - 1
      <4>1. /\ d \in ((a+1)-1)..Len(c) /\ i \in d..Len(c) /\ a + 1 \in 1..(Len(c) + 1)
            /\ d + 1 = b
        BY <1>1, <1>2, <1>3, <2>2
      <4> HIDE DEF d
      <4>2. OldPart(c, a + 1, i) = OldPart(c, a + 1, d) \o OldPart(c, d + 1, i)
        BY <4>1, PartsJoin
      <4> QED
        BY <4>1, <4>2 DEF gap, d
    <3>6. gap \in Seq(L) /\ OldPart(c, b, i) \in Seq(L)
      <4>1. i \in (b-1)..Len(c) /\ b \in 1..(Len(c) + 1)
        BY <1>1, <1>3, <2>2
      <4>2. OldPart(c, b, i) \in Seq(L)
        BY <1>4, <4>1, PartType
      <4>3. gap \in Seq(L)
        BY <1>1, <1>3, <1>4, PartType DEF gap
      <4> QED
        BY <4>2, <4>3
    <3>7. Len(OldPart(c, a + 1, i)) = Len(gap) + x
      BY <2>1, <3>5, <3>6, ConcatProperties
    <3>8. y = Len(gap) + x
      BY <3>2, <3>4, <3>7
    <3>9. j = Len(f) + y /\ p = Len(f) + Len(gap) /\ Len(f) \in Nat /\ Len(gap) \in Nat /\ x \in Int
      BY <1>5, <1>6, <3>1
    <3> QED
      BY ONLY <3>8, <3>9
  <2> QED
    BY <1>5, <2>3, <2>4
<1>14. Midway(c, a) = f \o g
  BY <1>1 DEF Midway, f, g
<1>15. Placed(f \o g, old, p)
  BY <1>12, <1>13 DEF Placed
<1> QED
  BY <1>14, <1>15 DEF a, b, e, old, p

(* What is found of such a text is found in its place.                     *)
LEMMA FoundInPlace ==
  ASSUME NEW T, NEW src \in Seq(T), NEW old \in Seq(T), NEW p \in Nat, Placed(src, old, p),
         NEW x \in 1..Len(old), NEW y \in x..Len(old), NEW e \in Int
  PROVE  /\ FindMatch(src, SubSeq(old, x, y), e) \in {Nowhere, p + x - 1}
         /\ Find(src, SubSeq(old, x, y), e) \in {Nowhere, p + x - 1}
<1> DEFINE needle == SubSeq(old, x, y)
<1>1. /\ Len(old) \in Nat /\ Len(src) \in Nat
      /\ x \in 1..(Len(old) + 1) /\ y \in (x-1)..Len(old) /\ y - x + 1 >= 1
  BY LenProperties
<1>2. /\ needle \in Seq(T) /\ Len(needle) = y - x + 1
      /\ \A m \in 1..(y - x + 1) : needle[m] = old[m + x - 1]
  BY <1>1, PartOfScript
<1>3. needle[1] = old[x] /\ Len(needle) \in Nat /\ Len(needle) >= 1
  <2>1. 1 \in 1..(y - x + 1) /\ 1 + x - 1 = x
    BY <1>1
  <2> HIDE DEF needle
  <2>2. needle[1] = old[1 + x - 1]
    BY <1>2, <2>1
  <2> QED
    BY <1>1, <1>2, <2>1, <2>2, LenProperties
<1> HIDE DEF needle
<1>4. needle # << >>
  BY <1>3
<1>5. ASSUME NEW q \in Int, AtPos(src, q, needle)
      PROVE  q = p + x - 1
  <2> DEFINE i == q + 1
             j == q + Len(needle)
  <2>1. q >= 0 /\ q + Len(needle) <= Len(src) /\ SubSeq(src, i, j) = needle
    BY <1>5 DEF AtPos
  <2>2. i \in 1..(Len(src) + 1) /\ j \in (i-1)..Len(src) /\ j - i + 1 = Len(needle)
        /\ 1 \in 1..(j - i + 1) /\ 1 + i - 1 = i /\ i \in 1..Len(src)
    BY <1>1, <1>3, <2>1
  <2> HIDE DEF i, j
  <2>3. SubSeq(src, i, j)[1] = src[1 + i - 1]
    BY <2>2, PartOfScript
  <2>4. src[i] = old[x]
    BY <1>3, <2>1, <2>2, <2>3
  <2>5. i = p + x
    BY <2>2, <2>4 DEF Placed
  <2> QED
    BY <2>5 DEF i
<1>6. /\ HasRoom(src, FindMatch(src, needle, e), Len(needle))
      /\ FindMatch(src, needle, e) # Nowhere => AtPos(src, FindMatch(src, needle, e), needle)
  BY <1>2, <1>4, FindHasRoom
<1>7. FindMatch(src, needle, e) \in {Nowhere, p + x - 1}
  BY <1>1, <1>5, <1>6 DEF HasRoom
<1>8. FindMatchGlobal(src, needle) \in {Nowhere, p + x - 1}
  <2> DEFINE found == {q \in 0..Len(src) : AtPos(src, q, needle)}
  <2>1. FindMatchGlobal(src, needle) = IF found = {} THEN Nowhere ELSE Min(found)
    BY DEF FindMatchGlobal
  <2>2. found \in SUBSET Nat /\ \A q \in found : q \in Int /\ AtPos(src, q, needle)
    BY <1>1
  <2> HIDE DEF found
  <2>3. found # {} => Min(found) \in found
    BY <2>2, MinOf
  <2> QED
    BY <1>5, <2>1, <2>2, <2>3
<1>9. Find(src, needle, e) \in {Nowhere, p + x - 1}
  BY <1>7, <1>8 DEF Find, OrElse
<1> QED
  BY <1>7, <1>9 DEF needle

(* A sequence's two halves, read off the whole.                            *)
LEMMA Halves ==
  ASSUME NEW L, NEW a \in Seq(L), NEW c \in Seq(L)
  PROVE  /\ Len(a) \in Nat /\ Len(c) \in Nat /\ Len(a \o c) = Len(a) + Len(c)
         /\ a = SubSeq(a \o c, 1, Len(a))
         /\ c = SubSeq(a \o c, Len(a \o c) - Len(c) + 1, Len(a \o c))
<1> DEFINE s == a \o c
           x == Len(a)
           y == Len(c)
           f == SubSeq(s, 1, x)
           g == SubSeq(s, x + 1, x + y)
<1>1. x \in Nat /\ y \in Nat
  BY LenProperties
<1>2. /\ s \in Seq(L) /\ Len(s) = x + y
      /\ \A i \in 1..(x + y) : s[i] = IF i <= x THEN a[i] ELSE c[i - x]
  BY ConcatProperties
<1>3. \A i \in 1..x : a[i] \in L
  BY ElementOfSeq
<1>4. \A i \in 1..y : c[i] \in L
  BY ElementOfSeq
<1> HIDE DEF s, x, y
<1>5. \A i \in 1..x : s[i] \in L /\ s[i] = a[i]
  BY <1>1, <1>2, <1>3
<1>6. \A i \in 1..y : s[x + 1 + i - 1] \in L /\ s[x + 1 + i - 1] = c[i]
  <2> SUFFICES ASSUME NEW i \in 1..y
               PROVE  s[x + 1 + i - 1] \in L /\ s[x + 1 + i - 1] = c[i]
    OBVIOUS
  <2>1. x + 1 + i - 1 = x + i /\ x + i \in 1..(x + y) /\ ~(x + i <= x) /\ x + i - x = i
    BY <1>1
  <2> DEFINE k == x + i
  <2>2. k \in 1..(x + y) /\ ~(k <= x) /\ k - x = i /\ x + 1 + i - 1 = k
    BY <1>1
  <2> HIDE DEF k
  <2>3. s[k] = c[k - x]
    BY ONLY <1>2, <2>2
  <2>4. s[k] = c[i]
    BY ONLY <2>2, <2>3
  <2> QED
    BY <1>4, <2>2, <2>4
<1>7. \A j \in (x + 1)..(x + y) : s[j] \in L
  <2> SUFFICES ASSUME NEW j \in (x + 1)..(x + y)
               PROVE  s[j] \in L
    OBVIOUS
  <2>1. j - x \in 1..y /\ x + 1 + (j - x) - 1 = j
    BY <1>1
  <2> QED
    BY <1>6, <2>1
<1>8. f \in Seq(L) /\ Len(f) = x /\ \A i \in 1..x : f[i] = s[i]
  <2>1. /\ f \in Seq(L)
        /\ Len(f) = IF 1 <= x THEN x - 1 + 1 ELSE 0
        /\ \A i \in 1..x - 1 + 1 : f[i] = s[1 + i - 1]
    BY <1>1, <1>5, SubSeqProperties
  <2> HIDE DEF f
  <2> QED
    BY <1>1, <2>1
<1>9. g \in Seq(L) /\ Len(g) = y /\ \A i \in 1..y : g[i] = s[x + 1 + i - 1]
  <2>1. /\ g \in Seq(L)
        /\ Len(g) = IF x + 1 <= x + y THEN x + y - (x + 1) + 1 ELSE 0
        /\ \A i \in 1..x + y - (x + 1) + 1 : g[i] = s[x + 1 + i - 1]
    BY <1>1, <1>7, SubSeqProperties
  <2> HIDE DEF g
  <2> QED
    BY <1>1, <2>1
<1> HIDE DEF f, g
<1>10. f = a
  <2>1. \A i \in 1..Len(f) : f[i] = a[i]
    BY <1>5, <1>8
  <2>2. Len(f) = Len(a)
    BY <1>8 DEF x
  <2> QED
    BY <1>8, <2>1, <2>2, SeqEqual
<1>11. g = c
  <2>1. \A i \in 1..Len(g) : g[i] = c[i]
    BY <1>6, <1>9
  <2>2. Len(g) = Len(c)
    BY <1>9 DEF y
  <2> QED
    BY <1>9, <2>1, <2>2, SeqEqual
<1>12. Len(s) - y + 1 = x + 1 /\ Len(s) = x + y
  BY <1>1, <1>2
<1>13. g = SubSeq(s, Len(s) - y + 1, Len(s))
  BY <1>12 DEF g
<1> QED
  BY <1>1, <1>2, <1>10, <1>11, <1>13 DEF f, s, x, y

(* The context that a hunk begins and ends with is that of its old text.   *)
Anchors(h) ==
  /\ Len(Prefix(h)) \in 0..Len(h.old) /\ Prefix(h) = SubSeq(h.old, 1, Len(Prefix(h)))
  /\ Len(Suffix(h)) \in 0..Len(h.old)
  /\ Suffix(h) = SubSeq(h.old, Len(h.old) - Len(Suffix(h)) + 1, Len(h.old))

LEMMA BodyHasAnchors ==
  ASSUME NEW B, NEW h, h.body \in Seq(B), h.old = OldLines(h.body)
  PROVE  Anchors(h)
<1> DEFINE body == h.body
           z == Len(body)
           L == {w.line : w \in B}
           P == {i \in DOMAIN body : body[i].kind # "context"} \cup {Len(body) + 1}
           Q == {i \in DOMAIN body : body[i].kind # "context"} \cup {0}
<1>1. z \in Nat /\ DOMAIN body = 1..z /\ body \in Seq(B)
  BY LenProperties
<1>2. \A w \in B : w.line \in L
  OBVIOUS
<1>3. Min(P) \in 1..(z + 1)
  <2>1. P \in SUBSET Nat /\ P \subseteq 1..(z + 1) /\ P # {}
    BY <1>1
  <2> HIDE DEF P, z
  <2>2. Min(P) \in P
    BY <2>1, MinOf
  <2> QED
    BY <2>1, <2>2
<1>4. Max(Q) \in 0..z
  <2>1. Q \in SUBSET Nat /\ Q \subseteq 0..z /\ Q # {} /\ \A i \in Q : i <= z
    BY <1>1
  <2> HIDE DEF Q, z
  <2>2. Max(Q) \in Q
    BY <1>1, <2>1, MaxOf
  <2> QED
    BY <2>1, <2>2
<1>5. Prefix(h) = OldPart(body, 1, Min(P) - 1)
  BY DEF Prefix, OldPart
<1>6. Suffix(h) = OldPart(body, Max(Q) + 1, z)
  BY DEF Suffix, OldPart
<1> HIDE DEF P, Q, L
<1>7. ASSUME NEW m \in 0..z
      PROVE  /\ h.old = OldPart(body, 1, m) \o OldPart(body, m + 1, z)
             /\ OldPart(body, 1, m) \in Seq(L) /\ OldPart(body, m + 1, z) \in Seq(L)
  <2>1. /\ 1 \in 1..(Len(body) + 1) /\ m \in (1-1)..Len(body) /\ Len(body) \in m..Len(body)
        /\ m + 1 \in 1..(Len(body) + 1) /\ Len(body) \in ((m + 1) - 1)..Len(body)
    BY <1>1
  <2>2. h.old = OldPart(body, 1, Len(body))
    BY <1>1, WholeScript
  <2> HIDE DEF body
  <2>3. OldPart(body, 1, Len(body)) = OldPart(body, 1, m) \o OldPart(body, m + 1, Len(body))
    BY <1>1, <2>1, PartsJoin
  <2>4. OldPart(body, 1, m) \in Seq(L) /\ OldPart(body, m + 1, Len(body)) \in Seq(L)
    BY <1>1, <1>2, <2>1, PartType
  <2> QED
    BY <2>2, <2>3, <2>4
<1> HIDE DEF body, z
<1>8. ASSUME NEW a \in Seq(L), NEW c \in Seq(L), h.old = a \o c
      PROVE  /\ Len(a) \in 0..Len(h.old) /\ a = SubSeq(h.old, 1, Len(a))
             /\ Len(c) \in 0..Len(h.old)
             /\ c = SubSeq(h.old, Len(h.old) - Len(c) + 1, Len(h.old))
  <2> DEFINE s == a \o c
  <2>1. /\ Len(a) \in Nat /\ Len(c) \in Nat /\ Len(s) = Len(a) + Len(c)
        /\ a = SubSeq(s, 1, Len(a))
        /\ c = SubSeq(s, Len(s) - Len(c) + 1, Len(s))
    BY Halves
  <2>2. s = h.old
    BY <1>8
  <2> HIDE DEF s
  <2>3. Len(a) \in 0..Len(s) /\ Len(c) \in 0..Len(s)
    BY <2>1
  <2> QED
    BY <2>1, <2>2, <2>3
<1>9. /\ Len(Prefix(h)) \in 0..Len(h.old) /\ Prefix(h) = SubSeq(h.old, 1, Len(Prefix(h)))
  <2> DEFINE m == Min(P) - 1
  <2>1. m \in 0..z
    BY <1>1, <1>3
  <2> HIDE DEF m
  <2>2. Prefix(h) = OldPart(body, 1, m)
    BY <1>5 DEF m
  <2>3. /\ h.old = OldPart(body, 1, m) \o OldPart(body, m + 1, z)
        /\ OldPart(body, 1, m) \in Seq(L) /\ OldPart(body, m + 1, z) \in Seq(L)
    BY <1>7, <2>1
  <2> QED
    BY <1>8, <2>2, <2>3
<1>10. /\ Len(Suffix(h)) \in 0..Len(h.old)
       /\ Suffix(h) = SubSeq(h.old, Len(h.old) - Len(Suffix(h)) + 1, Len(h.old))
  <2> DEFINE m == Max(Q)
  <2>1. m \in 0..z
    BY <1>4
  <2>2. Suffix(h) = OldPart(body, m + 1, z)
    BY <1>6
  <2> HIDE DEF m
  <2>3. /\ h.old = OldPart(body, 1, m) \o OldPart(body, m + 1, z)
        /\ OldPart(body, 1, m) \in Seq(L) /\ OldPart(body, m + 1, z) \in Seq(L)
    BY <1>7, <2>1
  <2> QED
    BY <1>8, <2>2, <2>3
<1> QED
  BY <1>9, <1>10 DEF Anchors

LEMMA LocatedInPlace ==
  ASSUME NEW T, NEW src \in Seq(T), NEW h, h.old \in Seq(T), h.old # << >>, Anchors(h),
         NEW p \in Nat, Placed(src, h.old, p), NEW e \in Int
  PROVE  FindMatch(src, h.old, e) \in {Nowhere, p} /\ Locate(src, h, e) \in {Nowhere, p}
<1> DEFINE old == h.old
           n == Len(old)
           first == Prefix(h)
           last == Suffix(h)
           more == n - Len(last)
           byFirst == IF first = << >> THEN Nowhere ELSE Find(src, first, e)
           byLast == IF last = << >> THEN Nowhere ELSE Back(Find(src, last, e + more), more)
<1>1. n \in Nat /\ n > 0 /\ old \in Seq(T)
  BY LenProperties, EmptySeq
<1>2. /\ Len(first) \in 0..n /\ first = SubSeq(old, 1, Len(first))
      /\ Len(last) \in 0..n /\ last = SubSeq(old, n - Len(last) + 1, n)
      /\ more \in 0..n
  <2>1. /\ Len(first) \in 0..n /\ first = SubSeq(old, 1, Len(first))
        /\ Len(last) \in 0..n /\ last = SubSeq(old, n - Len(last) + 1, n)
    BY DEF Anchors
  <2>2. more \in 0..n
    <3> HIDE DEF n, last
    <3> QED
      BY <1>1, <2>1
  <2> QED
    BY <2>1, <2>2
<1>3. FindMatch(src, old, e) \in {Nowhere, p} /\ Find(src, old, e) \in {Nowhere, p}
  <2>1. SubSeq(old, 1, n) = old
    BY <1>1, FirstOfFirst
  <2>2. 1 \in 1..n /\ n \in 1..n /\ p + 1 - 1 = p
    BY <1>1
  <2> HIDE DEF old
  <2>3. Placed(src, old, p)
    BY DEF old
  <2>4. /\ FindMatch(src, SubSeq(old, 1, n), e) \in {Nowhere, p + 1 - 1}
        /\ Find(src, SubSeq(old, 1, n), e) \in {Nowhere, p + 1 - 1}
    BY <1>1, <2>2, <2>3, FoundInPlace
  <2> QED
    BY <2>1, <2>2, <2>4
<1>4. byFirst \in {Nowhere, p}
  <2> DEFINE l == Len(first)
  <2>1. CASE first = << >>
    BY <2>1
  <2>2. CASE first # << >>
    <3>1. l # 0
      <4>1. first \in Seq(T)
        <5>1. 1 \in 1..(n + 1) /\ l \in (1-1)..n
          BY <1>1, <1>2
        <5> HIDE DEF l, old
        <5>2. SubSeq(old, 1, l) \in Seq(T)
          BY <1>1, <5>1, PartOfScript
        <5> QED
          BY <1>2, <5>2 DEF l
      <4> QED
        BY <2>2, <4>1, EmptySeq
    <3>2. 1 \in 1..n /\ l \in 1..n /\ p + 1 - 1 = p /\ first = SubSeq(old, 1, l)
      BY <1>1, <1>2, <3>1
    <3> HIDE DEF old, l
    <3>3. Placed(src, old, p)
      BY DEF old
    <3>4. Find(src, SubSeq(old, 1, l), e) \in {Nowhere, p + 1 - 1}
      BY <1>1, <3>2, <3>3, FoundInPlace
    <3> QED
      BY <2>2, <3>2, <3>4
  <2> QED
    BY <2>1, <2>2
<1>5. byLast \in {Nowhere, p}
  <2>1. CASE last = << >>
    BY <2>1
  <2>2. CASE last # << >>
    <3> DEFINE x == more + 1
               f == Find(src, last, e + more)
    <3>1. more # n
      <4> SUFFICES ASSUME more = n
                   PROVE  FALSE
        OBVIOUS
      <4>1. n - Len(last) + 1 = n + 1
        BY <1>1, <1>2
      <4> HIDE DEF n, more
      <4>2. last = SubSeq(old, n + 1, n)
        BY <1>2, <4>1
      <4>3. SubSeq(old, n + 1, n) = << >>
        BY <1>1, SubSeqEmpty
      <4> QED
        BY <2>2, <4>2, <4>3
    <3>2. x \in 1..n /\ n \in x..n /\ p + x - 1 = p + more /\ last = SubSeq(old, x, n)
          /\ more \in Nat /\ e + more \in Int
      <4>1. last = SubSeq(old, x, n)
        BY <1>2
      <4> HIDE DEF old, more, last, n
      <4>2. x \in 1..n /\ n \in x..n /\ p + x - 1 = p + more /\ more \in Nat /\ e + more \in Int
        BY <1>1, <1>2, <3>1
      <4> QED
        BY <4>1, <4>2
    <3> HIDE DEF old, more, last, x
    <3>3. Placed(src, old, p)
      BY DEF old
    <3>4. Find(src, SubSeq(old, x, n), e + more) \in {Nowhere, p + x - 1}
      BY <1>1, <3>2, <3>3, FoundInPlace
    <3>5. f = Nowhere \/ f = p + more
      BY <3>2, <3>4
    <3> HIDE DEF f
    <3>6. Back(f, more) \in {Nowhere, p}
      BY <3>2, <3>5 DEF Back, Nowhere
    <3> QED
      BY <2>2, <3>6 DEF f
  <2> QED
    BY <2>1, <2>2
<1>6. Anchored(src, h, e) = Fits(src, OrElse(byFirst, byLast), n, last)
  BY DEF Anchored
<1> HIDE DEF byFirst, byLast, n, last, old
<1>7. Anchored(src, h, e) \in {Nowhere, p}
  BY <1>4, <1>5, <1>6 DEF Fits, OrElse
<1> QED
  BY <1>3, <1>7 DEF Locate, OrElse, old

-----------------------------------------------------------------------------
(***************************************************************************)
(* A body that changes lines in place: its texts go line by line.          *)
(***************************************************************************)
KindsOf(b) == \A i \in 1..Len(b) : b[i].kind \in {"context", "remove", "add"}

Pending(b, i) == IF i # 0 /\ b[i].kind = "remove" THEN 1 ELSE 0

LEMMA PlaceOfNext ==
  ASSUME NEW B, NEW b \in Seq(B), NEW n \in Nat, n < Len(b), NEW kind
  PROVE  /\ PlaceOf(b, kind, n) \in Nat
         /\ PlaceOf(b, kind, n + 1) = IF b[n+1].kind = kind THEN PlaceOf(b, kind, n)
                                      ELSE PlaceOf(b, kind, n) + 1
<1> DEFINE L == {x.line : x \in B}
           f == LinesBut(SubSeq(b, 1, n), kind)
           g == LinesBut(SubSeq(b, 1, n + 1), kind)
           l == b[n+1].line
<1>1. f \in Seq(L) /\ l \in L /\ g = IF b[n+1].kind = kind THEN f ELSE Append(f, l)
  BY FirstLines
<1>2. PlaceOf(b, kind, n) = Len(f) /\ PlaceOf(b, kind, n + 1) = Len(g)
  BY DEF PlaceOf
<1> HIDE DEF f, g, l, L
<1>3. Len(f) \in Nat /\ Len(Append(f, l)) = Len(f) + 1
  BY <1>1, LenProperties, AppendProperties
<1> QED
  BY <1>1, <1>2, <1>3

LEMMA PlacesAlign ==
  ASSUME NEW B, NEW b \in Seq(B), KindsOf(b), LineForLine(b)
  PROVE  \A i \in 0..Len(b) : /\ PlaceOf(b, "add", i) \in Nat
                              /\ PlaceOf(b, "remove", i) = PlaceOf(b, "add", i) - Pending(b, i)
<1> DEFINE n == Len(b)
           Good(i) == /\ PlaceOf(b, "add", i) \in Nat
                      /\ PlaceOf(b, "remove", i) = PlaceOf(b, "add", i) - Pending(b, i)
           S == {i \in Nat : i <= n => Good(i)}
<1>1. n \in Nat /\ DOMAIN b = 1..n
  BY LenProperties
<1>2. Good(0)
  <2>1. SubSeq(b, 1, 0) = << >> /\ LinesBut(<< >>, "add") = << >> /\ LinesBut(<< >>, "remove") = << >>
    BY FirstOfFirst, LinesButEmpty
  <2>2. Len(<< >>) = 0
    OBVIOUS
  <2>3. PlaceOf(b, "add", 0) = Len(<< >>) /\ PlaceOf(b, "remove", 0) = Len(<< >>)
    BY <2>1, Zenon DEF PlaceOf
  <2>4. Pending(b, 0) = 0
    BY DEF Pending
  <2> QED
    BY <2>2, <2>3, <2>4
<1>3. ASSUME NEW i \in Nat, i \in S
      PROVE  i + 1 \in S
  <2> SUFFICES ASSUME i + 1 <= n
               PROVE  Good(i + 1)
    OBVIOUS
  <2>1. Good(i) /\ i < n /\ i + 1 \in 1..n /\ i + 1 # 0
    BY <1>1, <1>3
  <2> DEFINE o == PlaceOf(b, "add", i)
             w == PlaceOf(b, "remove", i)
             o1 == PlaceOf(b, "add", i + 1)
             w1 == PlaceOf(b, "remove", i + 1)
             x == b[i+1].kind
  <2>2. /\ o \in Nat /\ w \in Nat
        /\ o1 = (IF x = "add" THEN o ELSE o + 1)
        /\ w1 = (IF x = "remove" THEN w ELSE w + 1)
    BY <2>1, PlaceOfNext
  <2>3. x \in {"context", "remove", "add"}
    BY <2>1 DEF KindsOf
  <2>4. i # 0 /\ b[i].kind = "remove" => x = "add"
    BY <1>1, <2>1 DEF LineForLine
  <2>5. x = "add" => i # 0 /\ b[i].kind = "remove"
    <3> SUFFICES ASSUME x = "add"
                 PROVE  i # 0 /\ b[i].kind = "remove"
      OBVIOUS
    <3>1. i + 1 > 1 /\ b[(i + 1) - 1].kind = "remove"
      BY <1>1, <2>1 DEF LineForLine
    <3>2. (i + 1) - 1 = i
      OBVIOUS
    <3> QED
      BY <3>1, <3>2
  <2>6. w = o - Pending(b, i)
    BY <2>1
  <2>7. Pending(b, i + 1) = IF x = "remove" THEN 1 ELSE 0
    BY <2>1 DEF Pending
  <2>8. Pending(b, i) = IF x = "add" THEN 1 ELSE 0
    BY <2>4, <2>5 DEF Pending
  <2> HIDE DEF o, w, o1, w1, x
  <2>9. o1 \in Nat /\ w1 = o1 - Pending(b, i + 1)
    BY <2>2, <2>3, <2>6, <2>7, <2>8
  <2> QED
    BY <2>9 DEF o1, w1
<1>4. Nat \subseteq S
  <2> HIDE DEF S
  <2>1. 0 \in S
    BY <1>2 DEF S
  <2> QED
    BY <1>3, <2>1, NumberInduction
<1> HIDE DEF Good
<1> SUFFICES ASSUME NEW i \in 0..n
             PROVE  Good(i)
  BY DEF Good
<1> QED
  BY <1>1, <1>4

(* A sequence put together of its elements.                                *)
LEMMA Singles ==
  ASSUME NEW T, NEW xs \in Seq(T), Len(xs) > 0,
         NEW seqs \in Seq(Seq(T)), Len(seqs) = Len(xs),
         \A i \in 1..Len(xs) : seqs[i] = <<xs[i]>>
  PROVE  FlattenSeq(seqs) = xs
<1> DEFINE n == Len(xs)
<1>1. n \in Nat /\ n > 0
  BY LenProperties
<1>2. PICK G : /\ G[1] = seqs[1]
               /\ \A i \in 2..n : G[i] = G[i-1] \o seqs[i]
               /\ FlattenSeq(seqs) = G[n]
  BY <1>1, FlattenThrough
<1> DEFINE S == {i \in Nat : i + 1 <= n => G[i+1] = SubSeq(xs, 1, i + 1)}
<1>3. 0 \in S
  <2>1. SubSeq(xs, 1, 0 + 1) = Append(SubSeq(xs, 1, 0), xs[0+1])
    BY <1>1, FirstAndNext
  <2>2. SubSeq(xs, 1, 0) = << >>
    BY FirstOfFirst
  <2>3. 0 + 1 = 1 /\ 1 \in 1..n
    BY <1>1
  <2>4. SubSeq(xs, 1, 1) = Append(<< >>, xs[1])
    BY <2>1, <2>2, <2>3
  <2>5. Append(<< >>, xs[1]) = <<xs[1]>>
    OBVIOUS
  <2>6. G[1] = <<xs[1]>>
    BY <1>2, <2>3
  <2>7. G[1] = SubSeq(xs, 1, 1)
    BY <2>4, <2>5, <2>6, Zenon
  <2> QED
    BY <2>3, <2>7
<1>4. ASSUME NEW i \in Nat, i \in S
      PROVE  i + 1 \in S
  <2> SUFFICES ASSUME (i + 1) + 1 <= n
               PROVE  G[(i+1)+1] = SubSeq(xs, 1, (i + 1) + 1)
    OBVIOUS
  <2> DEFINE j == i + 1
             x == xs[j+1]
             pre == SubSeq(xs, 1, j)
  <2>1. j \in Nat /\ j < n /\ j + 1 \in 2..n /\ j + 1 \in 1..n /\ (j + 1) - 1 = j /\ j <= n
    BY <1>1
  <2>2. G[j] = pre
    BY <1>4, <2>1
  <2>3. G[j+1] = G[(j+1)-1] \o seqs[j+1] /\ seqs[j+1] = <<x>>
    BY <1>2, <2>1
  <2>4. pre \in Seq(T) /\ x \in T /\ SubSeq(xs, 1, j + 1) = Append(pre, x)
    BY <2>1, FirstAndNext
  <2> HIDE DEF j, x, pre
  <2>5. Append(pre, x) = pre \o <<x>>
    BY <2>4, AppendIsConcat
  <2>6. G[(j+1)-1] = pre
    BY <2>1, <2>2
  <2>7. G[j+1] = pre \o <<x>>
    BY <2>3, <2>6, Zenon
  <2> QED
    BY <2>4, <2>5, <2>7, Zenon DEF j
<1>5. Nat \subseteq S
  <2> HIDE DEF S
  <2> QED
    BY <1>3, <1>4, NumberInduction
<1>6. n - 1 \in S /\ (n - 1) + 1 = n
  <2> HIDE DEF S, n
  <2> QED
    BY <1>1, <1>5
<1>7. G[n] = SubSeq(xs, 1, n)
  BY <1>6
<1> QED
  BY <1>2, <1>7, FirstOfFirst

(* A merge of texts of which, line by line, the patch leaves the first or  *)
(* has a line of its own.                                                  *)
LEMMA MergesLineByLine ==
  ASSUME NEW T, NEW base \in Seq(T), NEW ours \in Seq(T), NEW theirs \in Seq(T),
         NEW both \in Seq(T), Len(both) > 0,
         Len(base) = Len(both), Len(ours) = Len(both), Len(theirs) = Len(both),
         \A j \in 1..Len(both) : \/ both[j] = ours[j] /\ theirs[j] = base[j]
                                 \/ both[j] = theirs[j] /\ theirs[j] # base[j]
  PROVE  LET m == Merge(base, ours, theirs)
         IN  m.conflicts \in Nat /\ (m.conflicts = 0 => m.lines = both)
<1> DEFINE clash(i) == ours[i] # base[i] /\ theirs[i] # base[i] /\ ours[i] # theirs[i]
           line(i) == IF clash(i) THEN Conflict(<<ours[i]>>, <<theirs[i]>>)
                      ELSE IF ours[i] = base[i] THEN <<theirs[i]>> ELSE <<ours[i]>>
           n == Len(both)
           seqs == [i \in DOMAIN base |-> line(i)]
           clashes == {i \in DOMAIN base : clash(i)}
           m == Merge(base, ours, theirs)
<1>1. n \in Nat /\ n > 0 /\ DOMAIN base = 1..n
  BY LenProperties
<1>2. m = [lines |-> FlattenSeq(seqs), conflicts |-> Cardinality(clashes)]
  BY DEF Merge, MergeLines
<1>3. clashes \subseteq 1..n
  BY <1>1
<1>4. \A i \in 1..n : ~clash(i) => line(i) = <<both[i]>>
  <2> SUFFICES ASSUME NEW i \in 1..n, ~clash(i)
               PROVE  line(i) = <<both[i]>>
    OBVIOUS
  <2>1. line(i) = IF ours[i] = base[i] THEN <<theirs[i]>> ELSE <<ours[i]>>
    OBVIOUS
  <2> HIDE DEF line
  <2>2. CASE both[i] = ours[i] /\ theirs[i] = base[i]
    BY <2>1, <2>2
  <2>3. CASE both[i] = theirs[i] /\ theirs[i] # base[i]
    BY <2>1, <2>3
  <2> QED
    BY <2>2, <2>3
<1>5. \A i \in 1..n : i \notin clashes => ~clash(i)
  BY <1>1
<1>6. \A i \in 1..n : seqs[i] = line(i)
  BY <1>1
<1>7. DOMAIN seqs = 1..n /\ seqs = [i \in 1..n |-> seqs[i]]
  BY <1>1
<1> HIDE DEF clash, line, seqs, clashes, m, n
<1>8. IsFiniteSet(clashes) /\ Cardinality(clashes) \in Nat
  <2>1. IsFiniteSet(1..n)
    BY <1>1, FS_Interval
  <2>2. IsFiniteSet(clashes)
    BY <1>3, <2>1, FS_Subset
  <2> QED
    BY <2>2, FS_CardinalityType
<1>9. m.lines = FlattenSeq(seqs) /\ m.conflicts = Cardinality(clashes)
  BY <1>2
<1>10. ASSUME m.conflicts = 0
       PROVE  m.lines = both
  <2>1. clashes = {}
    BY <1>8, <1>9, <1>10, FS_EmptySet
  <2>2. \A i \in 1..n : seqs[i] = <<both[i]>>
    BY <1>4, <1>5, <1>6, <2>1
  <2>3. \A i \in 1..n : both[i] \in T
    BY ElementOfSeq DEF n
  <2>4. \A i \in 1..n : seqs[i] \in Seq(T)
    <3> SUFFICES ASSUME NEW i \in 1..n
                 PROVE  seqs[i] \in Seq(T)
      OBVIOUS
    <3> DEFINE x == both[i]
    <3>1. x \in T /\ seqs[i] = <<x>>
      BY <2>2, <2>3
    <3> HIDE DEF x
    <3>2. <<x>> \in Seq(T)
      BY <3>1
    <3> QED
      BY <3>1, <3>2
  <2>5. seqs \in [1..n -> Seq(T)]
    BY <1>7, <2>4
  <2>6. seqs \in Seq(Seq(T)) /\ Len(seqs) = n
    BY <1>1, <2>5
  <2>7. FlattenSeq(seqs) = both
    BY <1>1, <2>2, <2>6, Singles DEF n
  <2> QED
    BY <1>9, <2>7
<1> QED
  BY <1>8, <1>9, <1>10 DEF m

(* The merge of a body with the same lines, some of which have drifted.    *)
LEMMA MergedBody ==
  ASSUME NEW B, NEW b \in Seq(B), NEW C, NEW c \in Seq(C), Reads(b, c),
         KindsOf(b), LineForLine(b), Len(b) > 0
  PROVE  LET m == Merge(OldLines(b), OldLines(c), NewLines(b))
         IN  /\ m.conflicts \in Nat /\ (m.conflicts = 0 => m.lines = NewLines(c))
             /\ Len(OldLines(b)) = Len(NewLines(b)) /\ OldLines(b) # << >>
<1> DEFINE base == OldLines(b)
           ours == OldLines(c)
           theirs == NewLines(b)
           both == NewLines(c)
           T == {x.line : x \in B} \cup {x.line : x \in C}
           z == Len(b)
<1>1. z \in Nat /\ z > 0 /\ DOMAIN b = 1..z /\ Len(c) = z
  BY LenProperties DEF Reads
<1>2. (\A x \in B : x.line \in T) /\ (\A x \in C : x.line \in T)
  OBVIOUS
<1> HIDE DEF T, z
<1>3. base \in Seq(T) /\ ours \in Seq(T) /\ theirs \in Seq(T) /\ both \in Seq(T)
  BY <1>2, LinesButType DEF OldLines, NewLines
<1>4. Len(ours) = Len(base) /\ Len(both) = Len(theirs)
      /\ SamePlaces(b, c, "add") /\ SamePlaces(b, c, "remove")
  BY ReadsLong
<1>5. \A i \in 0..z : /\ PlaceOf(b, "add", i) \in Nat
                      /\ PlaceOf(b, "remove", i) = PlaceOf(b, "add", i) - Pending(b, i)
  BY PlacesAlign DEF z
<1>6. Len(base) = Len(theirs)
  <2>1. z \in 0..z /\ Pending(b, z) = 0
    <3>1. b[z].kind # "remove"
      <4> SUFFICES ASSUME b[z].kind = "remove"
                   PROVE  FALSE
        OBVIOUS
      <4>1. z < z
        BY <1>1 DEF LineForLine, z
      <4> QED
        BY <1>1, <4>1
    <3> QED
      BY <1>1, <3>1 DEF Pending
  <2>2. SubSeq(b, 1, z) = b
    BY FirstOfFirst DEF z
  <2>3. PlaceOf(b, "add", z) = Len(base) /\ PlaceOf(b, "remove", z) = Len(theirs)
    BY <2>2 DEF PlaceOf, OldLines, NewLines
  <2> HIDE DEF base, theirs
  <2> QED
    BY <1>5, <2>1, <2>3
<1>7. base # << >>
  <2>1. base = << >> <=> \A i \in 1..Len(b) : b[i].kind = "add"
    BY LinesButNone DEF OldLines
  <2>2. b[1].kind # "add"
    <3>1. 1 \in DOMAIN b /\ ~(1 > 1)
      BY <1>1
    <3> QED
      BY <3>1 DEF LineForLine
  <2> QED
    BY <1>1, <2>1, <2>2 DEF z
<1>8. Len(both) > 0
  <2>1. Len(base) \in Nat /\ Len(base) # 0
    BY <1>3, <1>7, LenProperties, EmptySeq
  <2> HIDE DEF base, both, theirs
  <2> QED
    BY <1>4, <1>6, <2>1
<1>9. ASSUME NEW j \in 1..Len(both)
      PROVE  \/ both[j] = ours[j] /\ theirs[j] = base[j]
             \/ both[j] = theirs[j] /\ theirs[j] # base[j]
  <2>1. PICK i \in 1..z : /\ b[i].kind # "remove" /\ j = PlaceOf(b, "remove", i)
                          /\ theirs[j] = b[i].line /\ both[j] = c[i].line
    <3>1. j \in 1..Len(LinesBut(b, "remove"))
      BY <1>4 DEF NewLines
    <3> QED
      BY <1>4, <3>1 DEF SamePlaces, NewLines, z
  <2>2. i \in 0..z /\ i # 0 /\ Pending(b, i) = 0
    BY <1>1, <2>1 DEF Pending
  <2>3. PlaceOf(b, "add", i) = j
    BY <1>5, <2>1, <2>2
  <2>4. b[i].kind = "context" \/ b[i].kind = "add"
    BY <2>1 DEF KindsOf, z
  <2>5. \A k \in 1..z : b[k].kind # "add" =>
          base[PlaceOf(b, "add", k)] = b[k].line /\ ours[PlaceOf(b, "add", k)] = c[k].line
    <3> SUFFICES ASSUME NEW k \in 1..z, b[k].kind # "add"
                 PROVE  base[PlaceOf(b, "add", k)] = b[k].line /\ ours[PlaceOf(b, "add", k)] = c[k].line
      OBVIOUS
    <3>1. k \in 1..Len(b) /\ k \in 1..Len(c) /\ c[k].kind = b[k].kind /\ k \in 0..Len(b)
      BY <1>1 DEF z, Reads
    <3>2. PlaceOf(b, "add", k) = PlaceOf(c, "add", k)
      BY <1>4, <3>1 DEF SamePlaces
    <3>3. LinesBut(b, "add")[PlaceOf(b, "add", k)] = b[k].line
      BY <3>1, PlaceHasLine
    <3>4. LinesBut(c, "add")[PlaceOf(c, "add", k)] = c[k].line
      BY <3>1, PlaceHasLine
    <3> QED
      BY <3>2, <3>3, <3>4 DEF OldLines
  <2> HIDE DEF base, ours, theirs, both
  <2>6. CASE b[i].kind = "context"
    BY <2>1, <2>3, <2>5, <2>6
  <2>7. CASE b[i].kind = "add"
    <3> DEFINE k == i - 1
    <3>1. i > 1 /\ b[k].kind = "remove"
      BY <1>1, <2>1, <2>7 DEF LineForLine
    <3>2. k \in 1..z /\ k # 0 /\ k \in 0..z /\ k + 1 = i /\ k \in Nat /\ k < Len(b)
      BY <1>1, <3>1 DEF z
    <3> HIDE DEF k
    <3>3. b[k+1].line # b[k].line
      BY <1>1, <3>1, <3>2 DEF LineForLine
    <3>4. PlaceOf(b, "add", k + 1) = PlaceOf(b, "add", k)
      BY <2>7, <3>2, PlaceOfNext
    <3>5. base[j] = b[k].line
      BY <2>3, <2>5, <3>1, <3>2, <3>4
    <3>6. theirs[j] # base[j]
      BY <2>1, <3>2, <3>3, <3>5
    <3>7. c[i].line = b[i].line
      BY <2>7 DEF Reads, z
    <3> QED
      BY <2>1, <3>6, <3>7
  <2> QED
    BY <2>4, <2>6, <2>7
<1> HIDE DEF base, ours, theirs, both
<1> DEFINE m == Merge(base, ours, theirs)
<1>10. m.conflicts \in Nat /\ (m.conflicts = 0 => m.lines = both)
  BY <1>3, <1>4, <1>6, <1>8, <1>9, MergesLineByLine
<1> QED
  BY <1>6, <1>7, <1>10 DEF base, ours, theirs, both

(* Where nothing has drifted of a body's old text, nothing has of its new. *)
LEMMA SameOldSameNew ==
  ASSUME NEW B, NEW b \in Seq(B), NEW C, NEW c \in Seq(C), Reads(b, c),
         OldLines(b) = OldLines(c)
  PROVE  NewLines(b) = NewLines(c)
<1> DEFINE T == {x.line : x \in B} \cup {x.line : x \in C}
           f == NewLines(b)
           g == NewLines(c)
           z == Len(b)
<1>1. z \in Nat /\ Len(c) = z
  BY LenProperties DEF Reads
<1>2. (\A x \in B : x.line \in T) /\ (\A x \in C : x.line \in T)
  OBVIOUS
<1> HIDE DEF T, z
<1>3. f \in Seq(T) /\ g \in Seq(T)
  BY <1>2, LinesButType DEF NewLines
<1>4. Len(g) = Len(f) /\ SamePlaces(b, c, "add") /\ SamePlaces(b, c, "remove")
  BY ReadsLong
<1>5. \A k \in 1..z : b[k].line = c[k].line
  <2> SUFFICES ASSUME NEW k \in 1..z
               PROVE  b[k].line = c[k].line
    OBVIOUS
  <2>1. CASE b[k].kind = "add"
    BY <2>1 DEF Reads, z
  <2>2. CASE b[k].kind # "add"
    <3>1. k \in 1..Len(b) /\ k \in 1..Len(c) /\ c[k].kind = b[k].kind /\ k \in 0..Len(b)
      BY <1>1 DEF z, Reads
    <3>2. PlaceOf(b, "add", k) = PlaceOf(c, "add", k)
      BY <1>4, <3>1 DEF SamePlaces
    <3>3. LinesBut(b, "add")[PlaceOf(b, "add", k)] = b[k].line
      BY <2>2, <3>1, PlaceHasLine
    <3>4. LinesBut(c, "add")[PlaceOf(c, "add", k)] = c[k].line
      BY <2>2, <3>1, PlaceHasLine
    <3>5. LinesBut(b, "add") = LinesBut(c, "add")
      BY DEF OldLines
    <3> QED
      BY <3>2, <3>3, <3>4, <3>5
  <2> QED
    BY <2>1, <2>2
<1>6. \A j \in 1..Len(f) : f[j] = g[j]
  <2> SUFFICES ASSUME NEW j \in 1..Len(f)
               PROVE  f[j] = g[j]
    OBVIOUS
  <2>1. PICK i \in 1..z : f[j] = b[i].line /\ g[j] = c[i].line
    BY <1>4 DEF SamePlaces, NewLines, z
  <2> QED
    BY <1>5, <2>1
<1> HIDE DEF f, g
<1>7. f = g
  BY <1>3, <1>4, <1>6, SeqEqual
<1> QED
  BY <1>7 DEF f, g

-----------------------------------------------------------------------------
(***************************************************************************)
(* A hunk of the script s on the drifted text: c is s as that text reads.  *)
(***************************************************************************)
(* The hunk h is found nowhere in src or at one place; there the text has  *)
(* drifted1, and new1 in its place, what the merge gives, is next.         *)
HunkFits(src, h, next) ==
  \E p, drifted1, new1 :
    /\ p \in Nat
    /\ \A x \in Int : FindMatch(src, h.old, x) \in {Nowhere, p}
                      /\ Locate(src, h, x) \in {Nowhere, p}
    /\ \A x \in Int : FindMatch(src, h.old, x) = p => drifted1 = h.old
    /\ drifted1 = h.old => h.new = new1
    /\ SubSeq(src, p + 1, p + Len(h.old)) = drifted1
    /\ Merge(h.old, drifted1, h.new).conflicts \in Nat
    /\ Merge(h.old, drifted1, h.new).conflicts = 0 =>
         Merge(h.old, drifted1, h.new).lines = new1
    /\ Splice(src, p, Len(h.old), new1) = next

LEMMA HunkOnDrifted ==
  ASSUME NEW B, NEW s \in Seq(B), NEW C, NEW c \in Seq(C), Reads(s, c), Unlike(s), KindsOf(s),
         NEW u \in Nat, NEW k \in 1..Len(Order(s, u)), NEW oe, NEW ne,
         LineForLine(Diff(s, u, oe, ne)[k].body)
  PROVE  HunkFits(Midway(c, RunLast(s, u, k - 1)), Diff(s, u, oe, ne)[k],
                  Midway(c, RunLast(s, u, k)))
<1> DEFINE h == Diff(s, u, oe, ne)[k]
           a == RunLast(s, u, k - 1)
           b == RunFirst(s, u, k)
           e == RunLast(s, u, k)
           src == Midway(c, a)
           p == Len(NewPart(c, 1, b - 1))
           sb == SubSeq(s, b, e)
           cb == SubSeq(c, b, e)
           old == OldLines(sb)
           new == NewLines(sb)
           old1 == OldLines(cb)
           new1 == NewLines(cb)
           n == Len(old)
           T == {x.line : x \in B} \cup {x.line : x \in C}
           before == Len(OldPart(s, 1, b - 1))
           start == IF OldPart(s, b, e) = << >> THEN before ELSE before + 1
           ob == ~oe /\ LastOf(s, "add") \in b..e
           nb == ~ne /\ LastOf(s, "remove") \in b..e /\ s[LastOf(s, "remove")].kind = "add"
<1>1. b \in 1..Len(s) /\ e \in b..Len(s) /\ h = Hunk(start, sb, ob, nb)
  BY DiffHunks
<1> HIDE DEF start, ob, nb, before
<1>2. h.body = sb /\ h.old = old /\ h.new = new
  <2> HIDE DEF h, sb, b, e
  <2> QED
    BY <1>1 DEF Hunk
<1>3. Len(s) \in Nat /\ Len(c) = Len(s)
  BY LenProperties DEF Reads
<1>4. /\ \A i : RunFirst(c, u, i) = RunFirst(s, u, i) /\ RunLast(c, u, i) = RunLast(s, u, i)
      /\ Order(c, u) = Order(s, u)
  BY ReadsAreCutAlike
<1>5. /\ p \in Nat /\ AtPos(src, p, old1)
      /\ Splice(src, p, Len(old1), new1) = Midway(c, e)
      /\ \E L : src \in Seq(L)
  <2>1. k \in 1..Len(Order(c, u))
    BY <1>4
  <2>2. LET a2 == RunLast(c, u, k - 1)
            b2 == RunFirst(c, u, k)
            e2 == RunLast(c, u, k)
            p2 == Len(NewPart(c, 1, b2 - 1))
            o2 == OldPart(c, b2, e2)
            n2 == NewPart(c, b2, e2)
        IN  /\ \E L : Midway(c, a2) \in Seq(L) /\ o2 \in Seq(L)
            /\ p2 \in Nat /\ AtPos(Midway(c, a2), p2, o2)
            /\ Splice(Midway(c, a2), p2, Len(o2), n2) = Midway(c, e2)
    BY <2>1, HunkInPlace
  <2> QED
    BY <1>4, <2>2 DEF OldPart, NewPart
<1>6. /\ b \in 1..(Len(s) + 1) /\ e \in (b-1)..Len(s)
      /\ b \in 1..(Len(c) + 1) /\ e \in (b-1)..Len(c)
  <2> HIDE DEF b, e
  <2> QED
    BY <1>1, <1>3
<1>7. Placed(src, old, p)
  BY HunkIsPlaced DEF OldPart
<1>8. (\A x \in B : x.line \in T) /\ (\A x \in C : x.line \in T)
  OBVIOUS
<1>9. a \in 0..Len(s)
  <2>1. k - 1 \in 0..Len(Order(s, u)) /\ (k - 1) + 1 = k
    BY OrderFacts
  <2> QED
    BY <2>1, GapsAreContext
<1> HIDE DEF a, b, e, T, h
<1>10. sb \in Seq(B) /\ cb \in Seq(C) /\ Reads(sb, cb)
  BY <1>3, <1>6, PartOfScript, PartReads
<1>11. Len(sb) > 0 /\ KindsOf(sb)
  <2>1. Len(sb) = e - b + 1 /\ e \in Int /\ b \in Int
        /\ \A m \in 1..(e - b + 1) : sb[m] = s[m + b - 1] /\ m + b - 1 \in b..e
    BY <1>6, PartOfScript
  <2>2. \A i \in b..e : i \in 1..Len(s)
    BY <1>1, <1>3
  <2> HIDE DEF sb
  <2> QED
    BY <1>1, <2>1, <2>2 DEF KindsOf
<1>12. src \in Seq(T)
  <2>1. /\ 1 \in 1..(Len(c) + 1) /\ a \in (1-1)..Len(c)
        /\ a + 1 \in 1..(Len(c) + 1) /\ Len(c) \in ((a+1)-1)..Len(c)
    BY <1>3, <1>9
  <2>2. NewPart(c, 1, a) \in Seq(T)
    BY <1>8, <2>1, PartType
  <2>3. OldPart(c, a + 1, Len(c)) \in Seq(T)
    BY <1>8, <2>1, PartType
  <2> QED
    BY <2>2, <2>3, ConcatProperties DEF Midway
<1> HIDE DEF sb, cb, src, p
<1>13. old \in Seq(T) /\ old1 \in Seq(T) /\ Len(old1) = n
  BY <1>8, <1>10, LinesButType, ReadsLong DEF OldLines
<1> DEFINE m == Merge(old, old1, new)
<1>14. /\ m.conflicts \in Nat /\ (m.conflicts = 0 => m.lines = new1)
       /\ old # << >>
  BY <1>2, <1>10, <1>11, MergedBody DEF h
<1>15. old1 = old => new = new1
  BY <1>10, SameOldSameNew
<1> HIDE DEF old, new, old1, new1, n, m
<1>16. SubSeq(src, p + 1, p + n) = old1
  BY <1>5, <1>13 DEF AtPos
<1>17. h.old \in Seq(T) /\ h.old # << >> /\ Placed(src, h.old, p) /\ Anchors(h)
  <2>1. Anchors(h)
    BY <1>2, <1>10, BodyHasAnchors DEF old
  <2> QED
    BY <1>2, <1>7, <1>13, <1>14, <2>1
<1>18. \A x \in Int : FindMatch(src, h.old, x) \in {Nowhere, p} /\ Locate(src, h, x) \in {Nowhere, p}
  BY <1>5, <1>12, <1>17, LocatedInPlace
<1>19. \A x \in Int : FindMatch(src, h.old, x) = p => old1 = h.old
  <2> SUFFICES ASSUME NEW x \in Int, FindMatch(src, h.old, x) = p
               PROVE  old1 = h.old
    OBVIOUS
  <2>1. p # Nowhere
    BY <1>5 DEF Nowhere
  <2>2. AtPos(src, p, h.old)
    BY <1>12, <1>17, <2>1, FindHasRoom
  <2>3. SubSeq(src, p + 1, p + n) = h.old
    BY <1>2, <2>2 DEF AtPos, n
  <2> QED
    BY <1>16, <2>3
<1>20. Splice(src, p, n, new1) = Midway(c, e)
  BY <1>5, <1>13
<1>21. n = Len(h.old) /\ m = Merge(h.old, old1, h.new)
  BY <1>2 DEF n, m
<1> QED
  <2>1. /\ p \in Nat
        /\ \A x \in Int : FindMatch(src, h.old, x) \in {Nowhere, p}
                          /\ Locate(src, h, x) \in {Nowhere, p}
        /\ \A x \in Int : FindMatch(src, h.old, x) = p => old1 = h.old
        /\ old1 = h.old => h.new = new1
        /\ SubSeq(src, p + 1, p + Len(h.old)) = old1
        /\ Merge(h.old, old1, h.new).conflicts \in Nat
        /\ Merge(h.old, old1, h.new).conflicts = 0 => Merge(h.old, old1, h.new).lines = new1
        /\ Splice(src, p, Len(h.old), new1) = Midway(c, e)
    BY <1>2, <1>5, <1>14, <1>15, <1>16, <1>18, <1>19, <1>20, <1>21
  <2>2. HunkFits(src, h, Midway(c, e))
    BY <2>1 DEF HunkFits
  <2> QED
    BY <2>2 DEF src, a, e, h

LEMMA ConflictsAreCounted ==
  ASSUME NEW T, NEW base \in Seq(T), NEW ours, NEW theirs
  PROVE  Merge(base, ours, theirs).conflicts \in Nat
<1>1. CASE Len(base) = Len(theirs)
  <2> DEFINE clash(i) == ours[i] # base[i] /\ theirs[i] # base[i] /\ ours[i] # theirs[i]
             clashes == {i \in DOMAIN base : clash(i)}
  <2>1. Merge(base, ours, theirs).conflicts = Cardinality(clashes)
    BY <1>1 DEF Merge, MergeLines
  <2>2. DOMAIN base = 1..Len(base) /\ Len(base) \in Nat
    BY LenProperties
  <2>3. clashes \subseteq 1..Len(base)
    BY <2>2
  <2> HIDE DEF clashes
  <2>4. IsFiniteSet(1..Len(base))
    BY <2>2, FS_Interval
  <2>5. IsFiniteSet(clashes)
    BY <2>3, <2>4, FS_Subset
  <2> QED
    BY <2>1, <2>5, FS_CardinalityType
<1>2. CASE Len(base) # Len(theirs)
  <2> DEFINE m == MergeBlock(base, ours, theirs)
  <2>1. Merge(base, ours, theirs) = m
    BY <1>2 DEF Merge
  <2>2. m.conflicts = 0 \/ m.conflicts = 1
    <3>1. CASE ours = base
      <4>1. CASE theirs \in {base, ours}
        BY <3>1, <4>1 DEF MergeBlock
      <4>2. CASE theirs \notin {base, ours}
        BY <3>1, <4>2 DEF MergeBlock
      <4> QED
        BY <4>1, <4>2
    <3>2. CASE ours # base
      <4>1. CASE theirs \in {base, ours}
        BY <3>2, <4>1 DEF MergeBlock
      <4>2. CASE theirs \notin {base, ours}
        BY <3>2, <4>2 DEF MergeBlock
      <4> QED
        BY <4>1, <4>2
    <3> QED
      BY <3>1, <3>2
  <2> HIDE DEF m
  <2> QED
    BY <2>1, <2>2
<1> QED
  BY <1>1, <1>2

(* While there is no conflict, the lines are those of c up to line e.      *)
FollowsTo(c, e, merging, st) ==
  st.ok => /\ st.conflicts \in Nat /\ (~merging => st.conflicts = 0)
           /\ st.conflicts = 0 => st.lines = Midway(c, e)

(* A hunk is found nowhere or at p, and there it has these lines to put.   *)
FoundAt(src, h, p, new1) ==
  \A x \in Int : /\ FindMatch(src, h.old, x) \in {Nowhere, p}
                 /\ FindMatch(src, h.old, x) = p => h.new = new1

LEMMA ApplyFollows ==
  ASSUME NEW c, NEW a, NEW e, NEW n, NEW st, NEW total, Keeps(st, total),
         FollowsTo(c, a, FALSE, st), NEW h, GoodHunk(h), NEW p \in Nat, NEW new1,
         FoundAt(Midway(c, a), h, p, new1),
         n = Len(h.old), Splice(Midway(c, a), p, n, new1) = Midway(c, e)
  PROVE  FollowsTo(c, e, FALSE, ApplyHunk(st, h))
<1> DEFINE x == Expected(h, st.offset)
           q == FindMatch(st.lines, h.old, x)
           r == ApplyHunk(st, h)
<1>1. /\ st.offset \in Int /\ st.ok \in BOOLEAN /\ h.start \in Nat
      /\ st = [ok |-> st.ok, lines |-> st.lines, eol |-> st.eol,
               offset |-> st.offset, conflicts |-> st.conflicts]
  BY DEF GoodHunk, Keeps
<1>2. x \in Int
  BY <1>1 DEF Expected
<1> HIDE DEF x
<1>3. CASE ~st.ok \/ q = Nowhere
  <2>1. r = Failed
    BY <1>3 DEF ApplyHunk, x
  <2> HIDE DEF r
  <2>2. ~r.ok
    BY <2>1 DEF Failed
  <2> QED
    BY <2>2 DEF FollowsTo, r
<1>4. CASE st.ok /\ q # Nowhere
  <2>1. st.conflicts = 0 /\ st.lines = Midway(c, a)
    BY <1>4 DEF FollowsTo
  <2>2. q = p /\ h.new = new1
    BY <1>2, <1>4, <2>1 DEF FoundAt
  <2> DEFINE ls == Splice(st.lines, q, Len(h.old), h.new)
             eol == IF q + Len(h.old) >= Len(st.lines) THEN FinalEol(h, st.eol) ELSE st.eol
             offset == st.offset + Len(h.new) - Len(h.old)
  <2>3. r = [st EXCEPT !.lines = ls, !.eol = eol, !.offset = offset]
    BY <1>4 DEF ApplyHunk, x
  <2>4. ls = Midway(c, e)
    BY <2>1, <2>2
  <2> HIDE DEF ls, eol, offset, r, q
  <2>5. r = [ok |-> st.ok, lines |-> ls, eol |-> eol, offset |-> offset,
             conflicts |-> st.conflicts]
    BY <1>1, <2>3
  <2>6. r.conflicts = 0 /\ r.lines = Midway(c, e)
    BY <2>1, <2>4, <2>5
  <2> QED
    BY <2>6 DEF FollowsTo, r
<1> QED
  BY <1>3, <1>4

LEMMA MergeFollows ==
  ASSUME NEW c, NEW a, NEW e, NEW n, NEW st, NEW total, Keeps(st, total),
         FollowsTo(c, a, TRUE, st), NEW h, GoodHunk(h), NEW p \in Nat, NEW ours1, NEW new1,
         \A x \in Int : Locate(Midway(c, a), h, x) \in {Nowhere, p},
         n = Len(h.old), Splice(Midway(c, a), p, n, new1) = Midway(c, e),
         SubSeq(Midway(c, a), p + 1, p + n) = ours1,
         Merge(h.old, ours1, h.new).conflicts = 0 => Merge(h.old, ours1, h.new).lines = new1
  PROVE  FollowsTo(c, e, TRUE, MergeHunk(st, h))
<1> DEFINE x == Expected(h, st.offset)
           q == Locate(st.lines, h, x)
           ours == SubSeq(st.lines, q + 1, q + n)
           m == Merge(h.old, ours, h.new)
           r == MergeHunk(st, h)
<1>1. /\ st.offset \in Int /\ st.ok \in BOOLEAN /\ h.start \in Nat
      /\ h.old \in Seq(ScriptLines)
      /\ st = [ok |-> st.ok, lines |-> st.lines, eol |-> st.eol,
               offset |-> st.offset, conflicts |-> st.conflicts]
  BY DEF GoodHunk, Keeps
<1>2. x \in Int
  BY <1>1 DEF Expected
<1>3. m.conflicts \in Nat
  BY <1>1, ConflictsAreCounted
<1>4. CASE ~st.ok \/ q = Nowhere
  <2>1. r = Failed
    BY <1>4 DEF MergeHunk, MergeAt
  <2> HIDE DEF r
  <2>2. ~r.ok
    BY <2>1 DEF Failed
  <2> QED
    BY <2>2 DEF FollowsTo, r
<1>5. CASE st.ok /\ q # Nowhere
  <2> DEFINE ls == Splice(st.lines, q, n, m.lines)
             offset == st.offset + Len(m.lines) - n
             conflicts == st.conflicts + m.conflicts
  <2>1. r = [st EXCEPT !.lines = ls, !.offset = offset, !.conflicts = conflicts]
    BY <1>5 DEF MergeHunk, MergeAt
  <2> HIDE DEF ls, offset, conflicts, r
  <2>2. r = [ok |-> st.ok, lines |-> ls, eol |-> st.eol, offset |-> offset,
             conflicts |-> conflicts]
    BY <1>1, <2>1
  <2>3. r.lines = ls /\ r.conflicts = conflicts
    BY <2>2
  <2>4. st.conflicts \in Nat /\ (st.conflicts = 0 => st.lines = Midway(c, a))
    BY <1>5 DEF FollowsTo
  <2>5. conflicts \in Nat /\ (conflicts = 0 => st.conflicts = 0 /\ m.conflicts = 0)
    <3> DEFINE y == m.conflicts
    <3>1. y \in Nat
      BY <1>3
    <3> HIDE DEF y
    <3>2. st.conflicts + y \in Nat /\ (st.conflicts + y = 0 => st.conflicts = 0 /\ y = 0)
      BY <2>4, <3>1
    <3> QED
      BY <3>2 DEF y, conflicts
  <2>6. ASSUME conflicts = 0
        PROVE  ls = Midway(c, e)
    <3>1. st.lines = Midway(c, a) /\ m.conflicts = 0
      BY <2>4, <2>5, <2>6
    <3>2. q = p
      BY <1>2, <1>5, <3>1
    <3>3. ours = ours1
      BY <3>1, <3>2
    <3>4. m.lines = new1
      BY <3>1, <3>3
    <3> QED
      BY <3>1, <3>2, <3>4 DEF ls
  <2> QED
    BY <2>3, <2>5, <2>6 DEF FollowsTo, r
<1> QED
  BY <1>4, <1>5

(* All of them.                                                            *)
LEMMA HunkFollows ==
  ASSUME NEW B, NEW s \in Seq(B), NEW C, NEW c \in Seq(C), Reads(s, c), Unlike(s), KindsOf(s),
         NEW u \in Nat, NEW k \in 1..Len(Order(s, u)), NEW oe, NEW ne,
         LineForLine(Diff(s, u, oe, ne)[k].body), GoodHunk(Diff(s, u, oe, ne)[k]),
         NEW merging \in BOOLEAN, NEW st, NEW total, Keeps(st, total),
         FollowsTo(c, RunLast(s, u, k - 1), merging, st)
  PROVE  LET h == Diff(s, u, oe, ne)[k]
         IN  /\ Keeps(HunkStep(merging, st, h), total)
             /\ FollowsTo(c, RunLast(s, u, k), merging, HunkStep(merging, st, h))
<1> DEFINE h == Diff(s, u, oe, ne)[k]
           a == RunLast(s, u, k - 1)
           e == RunLast(s, u, k)
           src == Midway(c, a)
           n == Len(h.old)
<1>1. PICK p, ours1, new1 :
        /\ p \in Nat
        /\ \A x \in Int : FindMatch(src, h.old, x) \in {Nowhere, p}
                          /\ Locate(src, h, x) \in {Nowhere, p}
        /\ \A x \in Int : FindMatch(src, h.old, x) = p => ours1 = h.old
        /\ ours1 = h.old => h.new = new1
        /\ SubSeq(src, p + 1, p + n) = ours1
        /\ Merge(h.old, ours1, h.new).conflicts \in Nat
        /\ Merge(h.old, ours1, h.new).conflicts = 0 => Merge(h.old, ours1, h.new).lines = new1
        /\ Splice(src, p, n, new1) = Midway(c, e)
  <2>1. HunkFits(src, h, Midway(c, e))
    BY HunkOnDrifted
  <2> HIDE DEF src, h, e
  <2> QED
    BY <2>1 DEF HunkFits
<1>2. GoodHunk(h) /\ FollowsTo(c, a, merging, st)
  OBVIOUS
<1> HIDE DEF h, a, e
<1>3. Keeps(HunkStep(merging, st, h), total)
  BY <1>2, ApplyKeeps, MergeKeeps DEF HunkStep
<1>4. CASE merging
  <2>1. FollowsTo(c, a, TRUE, st)
    BY <1>2, <1>4
  <2>2. \A x \in Int : Locate(Midway(c, a), h, x) \in {Nowhere, p}
    BY <1>1
  <2>3. FollowsTo(c, e, TRUE, MergeHunk(st, h))
    BY <1>1, <1>2, <2>1, <2>2, MergeFollows
  <2> QED
    BY <1>3, <1>4, <2>3 DEF HunkStep, h, e
<1>5. CASE ~merging
  <2>1. FollowsTo(c, a, FALSE, st)
    BY <1>2, <1>5
  <2>2. FoundAt(Midway(c, a), h, p, new1)
    BY <1>1 DEF FoundAt
  <2> HIDE DEF n
  <2>3. n = Len(h.old) /\ Splice(Midway(c, a), p, n, new1) = Midway(c, e) /\ p \in Nat
    BY <1>1 DEF n
  <2>4. Keeps(st, total) /\ GoodHunk(h)
    BY <1>2
  <2>5. FollowsTo(c, e, FALSE, ApplyHunk(st, h))
    BY ONLY <2>1, <2>2, <2>3, <2>4, ApplyFollows
  <2> QED
    BY <1>3, <1>5, <2>5 DEF HunkStep, h, e
<1> QED
  BY <1>4, <1>5

(* The text before the first hunk and after the last.                      *)
LEMMA BeforeAndAfter ==
  ASSUME NEW B, NEW s \in Seq(B), NEW u \in Nat
  PROVE  /\ RunLast(s, u, 0) = 0 /\ Midway(s, 0) = OldLines(s)
         /\ Midway(s, RunLast(s, u, Len(Order(s, u)))) = NewLines(s)
<1> DEFINE n == Len(Order(s, u))
           m == RunLast(s, u, n)
           L == {x.line : x \in B}
<1>1. n \in Nat /\ Len(s) \in Nat
  BY OrderFacts, LenProperties
<1>2. RunLast(s, u, 0) = 0
  BY DEF RunLast
<1>3. Midway(s, 0) = OldLines(s)
  <2>1. NewPart(s, 1, 0) = << >> /\ OldPart(s, 1, Len(s)) = OldLines(s)
    BY WholeScript
  <2>2. OldLines(s) \in Seq(L)
    BY LinesButType DEF OldLines
  <2>3. << >> \o OldLines(s) = OldLines(s)
    <3> HIDE DEF L
    <3> QED
      BY <2>2, ConcatEmptySeq
  <2>4. 0 + 1 = 1
    OBVIOUS
  <2> QED
    BY <2>1, <2>3, <2>4 DEF Midway
<1>4. m \in 0..Len(s) /\ \A j \in (m + 1)..Len(s) : s[j].kind = "context"
  <2>1. n \in 0..n /\ n + 1 \notin 1..n
    BY <1>1
  <2>2. RunFirst(s, u, n + 1) = Len(s) + 1
    BY <2>1 DEF RunFirst
  <2>3. /\ m \in 0..Len(s)
        /\ \A j \in (m + 1)..(RunFirst(s, u, n + 1) - 1) : s[j].kind = "context"
    BY <2>1, GapsAreContext
  <2>4. (Len(s) + 1) - 1 = Len(s)
    BY <1>1
  <2> QED
    BY <2>2, <2>3, <2>4
<1>5. Midway(s, m) = NewLines(s)
  <2>1. m + 1 \in 1..(Len(s) + 1) /\ Len(s) \in ((m + 1) - 1)..Len(s)
        /\ 1 \in 1..(Len(s) + 1) /\ m \in (1-1)..Len(s) /\ Len(s) \in m..Len(s)
    BY <1>1, <1>4
  <2> HIDE DEF m
  <2>2. OldPart(s, m + 1, Len(s)) = NewPart(s, m + 1, Len(s))
    BY <1>4, <2>1, PartOfContext
  <2>3. NewPart(s, 1, Len(s)) = NewPart(s, 1, m) \o NewPart(s, m + 1, Len(s))
    BY <2>1, PartsJoin
  <2>4. NewPart(s, 1, Len(s)) = NewLines(s)
    BY WholeScript
  <2> QED
    BY <2>2, <2>3, <2>4 DEF Midway
<1> QED
  BY <1>2, <1>3, <1>5

AllLineForLine(hs) == \A k \in 1..Len(hs) : LineForLine(hs[k].body)

FoldedTo(c, merging, total, st) ==
  /\ Keeps(st, total)
  /\ st.ok => /\ st.conflicts \in Nat /\ (~merging => st.conflicts = 0)
              /\ st.conflicts = 0 => st.lines = NewLines(c)

LEMMA FoldFollows ==
  ASSUME NEW s \in Scripts, NEW C, NEW c \in Seq(C), Reads(s, c), Unlike(s),
         NEW u \in Nat, NEW oe, NEW ne, NEW hs, hs = Diff(s, u, oe, ne), AllLineForLine(hs),
         NEW merging \in BOOLEAN, NEW base, NEW total, Keeps(base, total),
         base.conflicts = 0, base.lines = OldLines(c),
         NEW F, Through(F, merging, base, hs)
  PROVE  FoldedTo(c, merging, total, F[Len(hs)])
<1> DEFINE D == Diff(s, u, oe, ne)
           n == Len(D)
           B == ToSet(s)
           e(k) == RunLast(s, u, k)
           Good(k) == Keeps(F[k], total) /\ FollowsTo(c, e(k), merging, F[k])
           S == {k \in Nat : k <= n => Good(k)}
<1>1. s \in Seq(B) /\ KindsOf(s)
  BY ScriptFacts, ElementOfSeq DEF KindsOf
<1> HIDE DEF B
<1>2. n = Len(Order(s, u)) /\ n \in Nat
  <2>1. Len(Order(s, u)) \in Nat
    BY <1>1, OrderFacts
  <2>2. n = Len(Order(s, u))
    BY <1>1, DiffHunks
  <2> QED
    BY <2>1, <2>2
<1>3. \A k \in 1..n : GoodHunk(D[k]) /\ LineForLine(D[k].body)
  BY DiffIsGood DEF AllLineForLine
<1>4. RunLast(s, u, 0) = 0 /\ Midway(c, 0) = OldLines(c) /\ Midway(c, e(n)) = NewLines(c)
  <2>1. RunLast(c, u, n) = RunLast(s, u, n) /\ Len(Order(c, u)) = n /\ RunLast(s, u, 0) = 0
    BY <1>1, <1>2, ReadsAreCutAlike, BeforeAndAfter
  <2>2. Midway(c, 0) = OldLines(c) /\ Midway(c, RunLast(c, u, Len(Order(c, u)))) = NewLines(c)
    BY BeforeAndAfter
  <2> QED
    BY <2>1, <2>2
<1>5. F[0] = base /\ \A k \in 1..n : F[k] = HunkStep(merging, F[k-1], D[k])
  BY DEF Through
<1>6. 0 \in S
  <2>1. FollowsTo(c, 0, merging, base)
    BY <1>4 DEF FollowsTo
  <2> QED
    BY <1>4, <1>5, <2>1
<1>7. ASSUME NEW k \in Nat, k \in S
      PROVE  k + 1 \in S
  <2> SUFFICES ASSUME k + 1 <= n
               PROVE  Good(k + 1)
    OBVIOUS
  <2>1. k + 1 \in 1..n /\ (k + 1) - 1 = k /\ k <= n
    BY <1>2
  <2>2. Keeps(F[k], total) /\ FollowsTo(c, RunLast(s, u, (k + 1) - 1), merging, F[k])
    BY <1>7, <2>1
  <2>3. F[k+1] = HunkStep(merging, F[k], D[k+1])
    BY <1>5, <2>1
  <2> DEFINE j == k + 1
  <2>4. j \in 1..Len(Order(s, u)) /\ GoodHunk(D[j]) /\ LineForLine(D[j].body)
        /\ FollowsTo(c, RunLast(s, u, j - 1), merging, F[k])
    BY <1>2, <1>3, <2>1, <2>2
  <2> HIDE DEF j
  <2>5. /\ Keeps(HunkStep(merging, F[k], D[j]), total)
        /\ FollowsTo(c, RunLast(s, u, j), merging, HunkStep(merging, F[k], D[j]))
    BY <1>1, <2>2, <2>4, HunkFollows
  <2> QED
    BY <2>3, <2>5 DEF j
<1>8. Good(n)
  <2>1. Nat \subseteq S
    <3> HIDE DEF S
    <3> QED
      BY <1>6, <1>7, NumberInduction
  <2> HIDE DEF Good
  <2> QED
    BY <1>2, <2>1
<1> HIDE DEF D
<1>9. hs = D
  BY DEF D
<1> QED
  BY <1>4, <1>8, <1>9 DEF FollowsTo, FoldedTo

-----------------------------------------------------------------------------
(***************************************************************************)
(* The three-way merge is the new text of the script as the file reads.    *)
(***************************************************************************)
LEMMA ThreeWayReads ==
  ASSUME NEW s \in Scripts, NEW d, Len(s) > 0
  PROVE  ThreeWayOf(s, d) = NewLines(Drifted(s, d))
<1> DEFINE B == ToSet(s)
           c == Drifted(s, d)
           C == DriftedLines(B)
           T == {x.line : x \in C}
           n == Len(s)
           old(i) == Len(OldLines(SubSeq(s, 1, i)))
           line(i) == CASE s[i].kind = "add" -> <<s[i].line>>
                        [] s[i].kind = "remove" -> << >>
                        [] OTHER -> <<IF old(i) \in d THEN Mine ELSE s[i].line>>
           seqs == [i \in DOMAIN s |-> line(i)]
           f(i) == LinesBut(SubSeq(c, 1, i), "remove")
<1>1. s \in Seq(B) /\ n \in Nat /\ n > 0 /\ DOMAIN s = 1..n
  BY ScriptFacts
<1> HIDE DEF B
<1>2. /\ Reads(s, c) /\ c \in Seq(C)
      /\ DriftedAt(s, c, d)
  BY <1>1, DriftedReads
<1>3. ThreeWayOf(s, d) = FlattenSeq(seqs)
  BY DEF ThreeWayOf
<1>4. ASSUME NEW i \in 1..n
      PROVE  line(i) = IF c[i].kind = "remove" THEN << >> ELSE <<c[i].line>>
  <2> DEFINE x == s[i]
             l == c[i].line
             m == IF PlaceOf(s, "add", i) \in d THEN Mine ELSE x.line
  <2>1. c[i].kind = x.kind
    BY <1>2 DEF Reads
  <2>2. l = IF x.kind = "add" THEN x.line ELSE m
    BY <1>2 DEF DriftedAt
  <2>3. line(i) = CASE x.kind = "add" -> <<x.line>>
                    [] x.kind = "remove" -> << >>
                    [] OTHER -> <<m>>
    BY DEF PlaceOf, OldLines
  <2> HIDE DEF line, x, l, m
  <2>4. CASE x.kind = "add"
    <3>1. line(i) = <<x.line>>
      BY <2>3, <2>4
    <3> QED
      BY <2>1, <2>2, <2>4, <3>1 DEF l
  <2>5. CASE x.kind = "remove"
    BY <2>1, <2>3, <2>5
  <2>6. CASE x.kind # "add" /\ x.kind # "remove"
    <3>1. line(i) = <<m>>
      BY <2>3, <2>6
    <3> QED
      BY <2>1, <2>2, <2>6, <3>1 DEF l
  <2> QED
    BY <2>4, <2>5, <2>6
<1>5. seqs = [i \in 1..n |-> line(i)]
  BY <1>1
<1> HIDE DEF seqs, line, c, C
<1>6. Len(c) = n /\ \A i \in 1..n : c[i] \in C
  BY <1>2, ElementOfSeq DEF Reads
<1>7. \A i \in 1..n : c[i].line \in T
  BY <1>6
<1> HIDE DEF T, n, f
<1>8. \A i \in 1..n : /\ seqs[i] = IF c[i].kind = "remove" THEN << >> ELSE <<c[i].line>>
                      /\ seqs[i] \in Seq(T)
  <2> SUFFICES ASSUME NEW i \in 1..n
               PROVE  /\ seqs[i] = IF c[i].kind = "remove" THEN << >> ELSE <<c[i].line>>
                      /\ seqs[i] \in Seq(T)
    OBVIOUS
  <2> DEFINE l == c[i].line
  <2>1. seqs[i] = IF c[i].kind = "remove" THEN << >> ELSE <<l>>
    BY <1>4, <1>5
  <2>2. l \in T
    BY <1>7
  <2> HIDE DEF l
  <2>3. <<l>> \in Seq(T) /\ << >> \in Seq(T)
    BY <2>2
  <2> QED
    BY <2>1, <2>3 DEF l
<1>9. seqs \in [1..n -> Seq(T)]
  BY <1>5, <1>8
<1>10. seqs \in Seq(Seq(T)) /\ Len(seqs) = n
  BY <1>1, <1>9
<1>11. PICK G : /\ G[1] = seqs[1]
                /\ \A i \in 2..n : G[i] = G[i-1] \o seqs[i]
                /\ FlattenSeq(seqs) = G[n]
  BY <1>1, <1>10, FlattenThrough
<1>12. ASSUME NEW i \in Nat, i < n
       PROVE  f(i) \in Seq(T) /\ f(i + 1) = f(i) \o seqs[i+1]
  <2> DEFINE l == c[i+1].line
  <2>1. i < Len(c) /\ i + 1 \in 1..n /\ c \in Seq(C)
    BY <1>1, <1>2, <1>6, <1>12
  <2>2. /\ f(i) \in Seq(T)
        /\ f(i + 1) = IF c[i+1].kind = "remove" THEN f(i) ELSE Append(f(i), l)
        /\ l \in T
    BY <2>1, FirstLines DEF f, T
  <2>3. seqs[i+1] = IF c[i+1].kind = "remove" THEN << >> ELSE <<l>>
    BY <1>8, <2>1
  <2> HIDE DEF l
  <2>4. Append(f(i), l) = f(i) \o <<l>> /\ f(i) \o << >> = f(i)
    BY <2>2, AppendIsConcat, ConcatEmptySeq
  <2>5. CASE c[i+1].kind = "remove"
    <3>1. seqs[i+1] = << >> /\ f(i + 1) = f(i)
      BY <2>2, <2>3, <2>5
    <3> QED
      BY <2>2, <2>4, <3>1, Zenon
  <2>6. CASE c[i+1].kind # "remove"
    <3>1. seqs[i+1] = <<l>> /\ f(i + 1) = Append(f(i), l)
      BY <2>2, <2>3, <2>6
    <3> QED
      BY <2>2, <2>4, <3>1, Zenon
  <2> QED
    BY <2>5, <2>6
<1> DEFINE S == {i \in Nat : i + 1 <= n => G[i+1] = f(i + 1)}
<1>13. 0 \in S
  <2>1. f(0) = << >>
    <3>1. SubSeq(c, 1, 0) = << >> /\ LinesBut(<< >>, "remove") = << >>
      BY <1>2, FirstOfFirst, LinesButEmpty
    <3> QED
      BY <3>1, Zenon DEF f
  <2>2. 0 \in Nat /\ 0 < n /\ 0 + 1 = 1 /\ 1 \in 1..n
    BY <1>1
  <2>3. f(0 + 1) = f(0) \o seqs[0+1]
    BY <1>12, <2>2
  <2>4. << >> \o seqs[1] = seqs[1]
    BY <1>8, <2>2, ConcatEmptySeq
  <2>5. f(1) = f(0) \o seqs[1]
    BY <2>2, <2>3
  <2>6. f(1) = G[1]
    BY <1>11, <2>1, <2>4, <2>5, Zenon
  <2> QED
    BY <2>2, <2>6
<1>14. ASSUME NEW i \in Nat, i \in S
       PROVE  i + 1 \in S
  <2> SUFFICES ASSUME (i + 1) + 1 <= n
               PROVE  G[(i+1)+1] = f((i + 1) + 1)
    OBVIOUS
  <2> DEFINE j == i + 1
  <2>1. j \in Nat /\ j < n /\ j + 1 \in 2..n /\ (j + 1) - 1 = j /\ j <= n
    BY <1>1
  <2>2. G[j] = f(j)
    BY <1>14, <2>1
  <2>3. f(j + 1) = f(j) \o seqs[j+1]
    BY <1>12, <2>1
  <2>4. G[j+1] = G[(j+1)-1] \o seqs[j+1]
    BY <1>11, <2>1
  <2> HIDE DEF j
  <2>5. G[(j+1)-1] = f(j)
    BY <2>1, <2>2
  <2>6. G[j+1] = f(j + 1)
    BY <2>3, <2>4, <2>5, Zenon
  <2> QED
    BY <2>6 DEF j
<1>15. G[n] = f(n)
  <2>1. Nat \subseteq S
    <3> HIDE DEF S
    <3> QED
      BY <1>13, <1>14, NumberInduction
  <2>2. n - 1 \in S /\ (n - 1) + 1 = n
    <3> HIDE DEF S
    <3> QED
      BY <1>1, <2>1
  <2> QED
    BY <2>2
<1>16. f(n) = NewLines(c)
  <2>1. SubSeq(c, 1, Len(c)) = c
    BY <1>2, FirstOfFirst
  <2> QED
    BY <1>6, <2>1 DEF f, NewLines
<1> QED
  BY <1>3, <1>11, <1>15, <1>16 DEF c

(* And the file is its old text.                                           *)
LEMMA DriftedOld ==
  ASSUME NEW B, NEW s \in Seq(B), NEW d
  PROVE  LET o == OldLines(s)
             m == OldLines(Drifted(s, d))
             T == LinesOf(B)
         IN  /\ o \in Seq(T) /\ m \in Seq(T) /\ Len(m) = Len(o)
             /\ \A j \in 1..Len(o) : m[j] = IF j \in d THEN Mine ELSE o[j]
<1> DEFINE o == OldLines(s)
           c == Drifted(s, d)
           m == OldLines(c)
           T == LinesOf(B)
           C == DriftedLines(B)
<1>1. /\ Reads(s, c) /\ c \in Seq(C) /\ DriftedAt(s, c, d)
  BY DriftedReads
<1>2. \A x \in B : x.line \in T
  BY DEF LinesOf
<1>3. \A x \in C : x.line \in T
  <2>1. ASSUME NEW z \in C
        PROVE  z.line \in T
    <3> HIDE DEF T
    <3>1. PICK x \in B, l \in T : z = PatchLine(x.kind, l)
      BY DEF DriftedLines, T
    <3>2. z.line = l
      BY <3>1 DEF PatchLine
    <3> QED
      BY <3>1, <3>2
  <2> QED
    BY <2>1
<1> HIDE DEF T, C, c
<1>4. o \in Seq(T) /\ m \in Seq(T)
  BY <1>1, <1>2, <1>3, LinesButType DEF OldLines
<1>5. Len(m) = Len(o) /\ SamePlaces(s, c, "add")
  BY <1>1, ReadsLong
<1>6. ASSUME NEW j \in 1..Len(o)
      PROVE  m[j] = IF j \in d THEN Mine ELSE o[j]
  <2>1. PICK i \in 1..Len(s) : /\ s[i].kind # "add" /\ j = PlaceOf(s, "add", i)
                               /\ o[j] = s[i].line /\ m[j] = c[i].line
    BY <1>5, <1>6 DEF SamePlaces, OldLines
  <2> HIDE DEF o, m
  <2> QED
    BY <1>1, <2>1 DEF DriftedAt
<1> QED
  BY <1>4, <1>5, <1>6 DEF T, c

-----------------------------------------------------------------------------
(***************************************************************************)
(* A patch whose hunks go line for line, applied or merged.                *)
(***************************************************************************)
BothPut(x, hs, onStale, ls) ==
  LET r == ApplyOrMerge(x, hs, onStale, TRUE)
  IN  /\ ApplyHunks(x, hs).ok => r.lines = ls
      /\ r.ok /\ r.conflicts = 0 => r.lines = ls

LEMMA PatchMerges ==
  ASSUME NEW s \in Scripts, NEW C, NEW c \in Seq(C), Reads(s, c), Unlike(s),
         NEW u \in Nat, NEW oe, NEW ne, NEW H, NEW hs \in Seq(H), hs = Diff(s, u, oe, ne),
         AllLineForLine(hs), NEW ls \in Seq(AllLines), ls = OldLines(c), NEW eol, NEW onStale
  PROVE  BothPut(Text(ls, eol), hs, onStale, NewLines(c))
<1> DEFINE x == Text(ls, eol)
           base == Start(x)
           n == Count(ls)
           a == FoldLeft(ApplyHunk, base, hs)
           m == FoldLeft(MergeHunk, base, hs)
<1>1. Keeps(base, n) /\ base.conflicts = 0 /\ base.lines = OldLines(c)
  BY DEF Keeps, Start, Text
<1> HIDE DEF base, n
<1>2. Keeps(a, n) /\ (a.ok => a.conflicts = 0 /\ a.lines = NewLines(c))
  <2>1. PICK F : Through(F, FALSE, base, hs) /\ FoldLeft(ApplyHunk, base, hs) = F[Len(hs)]
    BY ApplyFold
  <2>2. FoldedTo(c, FALSE, n, F[Len(hs)])
    BY <1>1, <2>1, FoldFollows
  <2> HIDE DEF a
  <2> QED
    BY <2>1, <2>2 DEF FoldedTo, a
<1>3. Keeps(m, n) /\ (m.ok /\ m.conflicts = 0 => m.lines = NewLines(c))
  <2>1. PICK F : Through(F, TRUE, base, hs) /\ FoldLeft(MergeHunk, base, hs) = F[Len(hs)]
    BY MergeFold
  <2>2. FoldedTo(c, TRUE, n, F[Len(hs)])
    BY <1>1, <2>1, FoldFollows
  <2> HIDE DEF m
  <2> QED
    BY <2>1, <2>2 DEF FoldedTo, m
<1>4. ApplyHunks(x, hs) = Joined(a) /\ MergeHunks(x, hs) = Joined(m)
  BY DEF ApplyHunks, MergeHunks, base
<1> HIDE DEF a, m, x
<1>5. \A st : Keeps(st, n) => /\ Joined(st).ok = st.ok /\ Joined(st).lines = st.lines
                              /\ Joined(st).conflicts = st.conflicts
  BY DEF Keeps, Joined
<1> DEFINE r == ApplyOrMerge(x, hs, onStale, TRUE)
           f == Joined(a)
           g == Joined(m)
<1>6. r = IF f.ok \/ onStale = "fail" THEN f ELSE g
  BY <1>4 DEF ApplyOrMerge
<1>7. /\ f.ok => f.lines = NewLines(c)
      /\ g.ok /\ g.conflicts = 0 => g.lines = NewLines(c)
  BY <1>2, <1>3, <1>5
<1> HIDE DEF r, f, g
<1>8. /\ f.ok => r.lines = NewLines(c)
      /\ r.ok /\ r.conflicts = 0 => r.lines = NewLines(c)
  BY <1>6, <1>7
<1> QED
  BY <1>4, <1>8 DEF r, f, x, BothPut

(* While the patch waits, the file is the old text of the script as it has *)
(* drifted.                                                                *)
Waits ==
  /\ script \in Scripts /\ Len(script) > 0
  /\ \E u \in Contexts, oe, ne \in BOOLEAN : hunks = Diff(script, u, oe, ne)
  /\ 0 \notin drifted => file.lines = OldLines(Drifted(script, drifted))

MergeInv ==
  /\ DriftInv
  /\ status.how = "made" => Waits
  /\ MergeIsThreeWay

LEMMA MergeInvInit ==
  ASSUME TextInit
  PROVE  MergeInv
<1>1. DriftInv
  BY DriftInvInit
<1>2. CASE PatchIdle
  BY <1>1, <1>2 DEF PatchIdle, MergeInv, MergeIsThreeWay
<1>3. CASE PatchInit
  <2>1. PICK u \in Contexts, e \in EolsOf(script) :
          /\ hunks = Diff(script, u, e[1], e[2])
          /\ file = Text(OldLines(script), e[1])
          /\ status = [how |-> "made", newEol |-> e[2]]
    BY <1>3 DEF PatchInit
  <2>2. script \in Scripts /\ drifted = {} /\ Changed(script) # {}
    BY <1>3 DEF PatchInit
  <2>3. e[1] \in BOOLEAN /\ e[2] \in BOOLEAN
    BY DEF EolsOf
  <2> DEFINE B == ToSet(script)
  <2>4. script \in Seq(B) /\ Len(script) \in Nat /\ DOMAIN script = 1..Len(script)
    BY <2>2, ScriptFacts
  <2>5. Len(script) > 0
    BY <2>2, <2>4 DEF Changed
  <2> HIDE DEF B
  <2> DEFINE o == OldLines(script)
             m == OldLines(Drifted(script, {}))
             T == LinesOf(B)
  <2>6. /\ o \in Seq(T) /\ m \in Seq(T) /\ Len(m) = Len(o)
        /\ \A j \in 1..Len(o) : m[j] = IF j \in {} THEN Mine ELSE o[j]
    BY <2>4, DriftedOld
  <2> HIDE DEF o, m, T
  <2>7. m = o
    BY <2>6, SeqEqual
  <2>8. file.lines = m
    BY <2>1, <2>7 DEF Text, o
  <2>9. Waits
    BY <2>1, <2>2, <2>3, <2>5, <2>8 DEF Waits, m
  <2> QED
    BY <1>1, <2>1, <2>9 DEF MergeInv, MergeIsThreeWay
<1> QED
  BY <1>2, <1>3 DEF TextInit

LEMMA DriftWaits ==
  ASSUME MergeInv, Drift
  PROVE  MergeInv'
<1> DEFINE ls == file.lines
           B == ToSet(script)
           o == OldLines(script)
           T == LinesOf(B)
           m(d) == OldLines(Drifted(script, d))
<1>1. /\ UNCHANGED <<script, hunks, status>> /\ status.how = "made" /\ 0 \notin drifted
      /\ \/ \E k \in (DOMAIN ls) \ drifted : /\ file' = [file EXCEPT !.lines[k] = Mine]
                                              /\ drifted' = drifted \cup {k}
         \/ drifted' = drifted \cup {0}
  BY Zenon DEF Drift
<1>2. DriftInv'
  BY DriftInvStep DEF MergeInv, TextNext
<1>3. /\ Waits /\ file = Text(ls, file.eol) /\ drifted \subseteq Nat
      /\ status = [how |-> status.how, newEol |-> status.newEol]
  BY <1>1 DEF MergeInv, DriftInv, Adrift
<1>4. script \in Seq(B) /\ ls = m(drifted)
  BY <1>1, <1>3, ScriptFacts DEF Waits
<1> HIDE DEF B
<1>5. \A d : /\ o \in Seq(T) /\ m(d) \in Seq(T) /\ Len(m(d)) = Len(o)
             /\ \A j \in 1..Len(o) : m(d)[j] = IF j \in d THEN Mine ELSE o[j]
  BY <1>4, DriftedOld
<1>6. /\ script' \in Scripts /\ Len(script') > 0
      /\ \E u \in Contexts, oe, ne \in BOOLEAN : hunks' = Diff(script', u, oe, ne)
  BY <1>1, <1>3 DEF Waits
<1>7. 0 \notin drifted' => file'.lines = OldLines(Drifted(script', drifted'))
  <2> SUFFICES ASSUME 0 \notin drifted'
               PROVE  file'.lines = OldLines(Drifted(script', drifted'))
    OBVIOUS
  <2>1. PICK k \in (DOMAIN ls) \ drifted : /\ file' = [file EXCEPT !.lines[k] = Mine]
                                          /\ drifted' = drifted \cup {k}
    BY <1>1
  <2> DEFINE ms == [ls EXCEPT ![k] = Mine]
             e == drifted \cup {k}
  <2>2. file'.lines = ms
    <3>1. file' = Text(ms, file.eol)
      BY <1>3, <2>1 DEF Text
    <3> QED
      BY <3>1 DEF Text
  <2> HIDE DEF o, m, T
  <2>3. ls \in Seq(T) /\ Len(ls) = Len(o) /\ DOMAIN ls = 1..Len(ls) /\ Mine \in T
    BY <1>4, <1>5, LenProperties DEF T, LinesOf
  <2>4. ms \in Seq(T) /\ Len(ms) = Len(ls)
    BY <2>1, <2>3, ExceptSeq
  <2>5. \A i \in 1..Len(ls) : ms[i] = IF i = k THEN Mine ELSE ls[i]
    BY <2>3
  <2>6. \A i \in 1..Len(ls) : ls[i] = IF i \in drifted THEN Mine ELSE o[i]
    BY <1>4, <1>5, <2>3
  <2>7. /\ m(e) \in Seq(T) /\ Len(m(e)) = Len(o)
        /\ \A j \in 1..Len(o) : m(e)[j] = IF j \in e THEN Mine ELSE o[j]
    BY <1>5
  <2> DEFINE y == m(e)
  <2> HIDE DEF y, ms
  <2>8. \A i \in 1..Len(ms) : ms[i] = y[i]
    BY <2>3, <2>4, <2>5, <2>6, <2>7 DEF y
  <2>9. y \in Seq(T) /\ Len(y) = Len(ms)
    BY <2>3, <2>4, <2>7 DEF y
  <2>10. ms = y
    BY <2>4, <2>8, <2>9, SeqEqual
  <2>11. y = OldLines(Drifted(script', drifted'))
    BY <1>1, <2>1 DEF y, m
  <2> QED
    BY <2>2, <2>10, <2>11
<1>8. Waits'
  BY <1>6, <1>7 DEF Waits
<1> QED
  BY <1>1, <1>2, <1>8 DEF MergeInv, MergeIsThreeWay

LEMMA PatchIsMerged ==
  ASSUME MergeInv, PatchApply
  PROVE  MergeInv'
<1> DEFINE ls == file.lines
<1>1. /\ UNCHANGED <<script, hunks, drifted>> /\ status.how = "made"
      /\ \E onStale : Patched(ApplyOrMerge(file, hunks, onStale, TRUE))
  BY Zenon DEF PatchApply
<1>2. PICK onStale : Patched(ApplyOrMerge(file, hunks, onStale, TRUE))
  BY <1>1
<1> DEFINE r == ApplyOrMerge(file, hunks, onStale, TRUE)
           a == ApplyHunks(file, hunks)
           how == IF ~r.ok THEN "refused" ELSE IF a.ok THEN "clean"
                  ELSE IF r.conflicts = 0 THEN "merged" ELSE "conflict"
<1>3. /\ file' = IF r.ok THEN Text(r.lines, r.eol) ELSE file
      /\ status' = [status EXCEPT !.how = how]
  BY <1>2 DEF Patched
<1>4. DriftInv'
  BY DriftInvStep DEF MergeInv, TextNext
<1>5. /\ Waits /\ file = Text(ls, file.eol) /\ ls \in Seq(AllLines)
      /\ status = [how |-> status.how, newEol |-> status.newEol]
  BY <1>1 DEF MergeInv, DriftInv, Adrift
<1>6. status'.how = how
  BY <1>3, <1>5
<1>7. status'.how # "made"
  <2>1. how = "refused" \/ how = "clean" \/ how = "merged" \/ how = "conflict"
    <3> HIDE DEF r, a
    <3> QED
      OBVIOUS
  <2> HIDE DEF how
  <2> QED
    BY <1>6, <2>1
<1>8. ASSUME how \in {"clean", "merged"}, AllLineForLine(hunks),
             0 \notin drifted, OldLinesAreUnlike
      PROVE  r.ok /\ r.lines = ThreeWayOf(script, drifted)
  <2> DEFINE c == Drifted(script, drifted)
             B == ToSet(script)
             C == DriftedLines(B)
  <2>1. PICK u \in Contexts, oe, ne \in BOOLEAN : hunks = Diff(script, u, oe, ne)
    BY <1>5 DEF Waits
  <2>2. /\ script \in Scripts /\ u \in Nat /\ script \in Seq(B) /\ Len(script) > 0
        /\ DOMAIN script = 1..Len(script) /\ \A i \in DOMAIN script : script[i].line # Mine
    BY <1>5, ScriptFacts, ScriptsAssumption DEF Waits
  <2> HIDE DEF B
  <2>3. Unlike(script)
    BY <1>8, <2>2 DEF Unlike, OldLinesAreUnlike
  <2>4. c \in Seq(C) /\ Reads(script, c)
    BY <2>2, DriftedReads
  <2>5. ls = OldLines(c)
    BY <1>5, <1>8 DEF Waits
  <2>6. PICK H : hunks \in Seq(H)
    BY <2>1, <2>2, DiffHunks
  <2> HIDE DEF c, C
  <2> DEFINE x == Text(ls, file.eol)
             q == ApplyOrMerge(x, hunks, onStale, TRUE)
  <2>7. BothPut(x, hunks, onStale, NewLines(c))
    BY <1>5, <1>8, <2>1, <2>2, <2>3, <2>4, <2>5, <2>6, PatchMerges
  <2>8. x = file /\ q = r
    BY <1>5
  <2>9. r.ok /\ (a.ok \/ r.conflicts = 0)
    <3> HIDE DEF r, a
    <3> QED
      BY <1>8
  <2> HIDE DEF q, r
  <2>10. r.lines = NewLines(c)
    BY <2>7, <2>8, <2>9 DEF BothPut, q
  <2>11. ThreeWayOf(script, drifted) = NewLines(c)
    BY <2>2, ThreeWayReads DEF c
  <2> QED
    BY <2>9, <2>10, <2>11
<1> HIDE DEF r, a, how
<1>9. MergeIsThreeWay'
  <2> SUFFICES ASSUME /\ status'.how \in {"clean", "merged"}
                      /\ \A h \in ToSet(hunks') : LineForLine(h.body)
                      /\ 0 \notin drifted' /\ OldLinesAreUnlike'
               PROVE  file'.lines = ThreeWay'
    BY DEF MergeIsThreeWay
  <2>1. OldLinesAreUnlike /\ 0 \notin drifted /\ how \in {"clean", "merged"}
    BY <1>1, <1>6 DEF OldLinesAreUnlike
  <2>2. AllLineForLine(hunks)
    <3>1. DOMAIN hunks = 1..Len(hunks)
      <4>1. PICK u \in Contexts, oe, ne \in BOOLEAN : hunks = Diff(script, u, oe, ne)
        BY <1>5 DEF Waits
      <4>2. u \in Nat /\ script \in Seq(ToSet(script))
        BY <1>5, ScriptsAssumption DEF Waits
      <4> DEFINE B == ToSet(script)
      <4>3. script \in Seq(B)
        BY <4>2
      <4> HIDE DEF B
      <4> QED
        BY <4>1, <4>2, <4>3, DiffHunks
    <3>2. \A k \in 1..Len(hunks) : hunks[k] \in ToSet(hunks)
      BY <3>1 DEF ToSet
    <3> QED
      BY <1>1, <3>2 DEF AllLineForLine
  <2>3. r.ok /\ r.lines = ThreeWayOf(script, drifted)
    BY <1>8, <2>1, <2>2
  <2>4. file'.lines = r.lines
    BY <1>3, <2>3 DEF Text
  <2>5. ThreeWay' = ThreeWayOf(script', drifted')
    BY DEF ThreeWay, ThreeWayOf
  <2>6. ThreeWayOf(script', drifted') = ThreeWayOf(script, drifted)
    BY <1>1
  <2> HIDE DEF r
  <2> QED
    BY <2>3, <2>4, <2>5, <2>6
<1> QED
  BY <1>4, <1>7, <1>9 DEF MergeInv

LEMMA MergeInvStep ==
  ASSUME MergeInv, [TextNext]_textVars
  PROVE  MergeInv'
<1>1. CASE UNCHANGED patchVars
  <2>1. DriftInv'
    BY DriftInvStep DEF MergeInv
  <2>2. UNCHANGED <<script, hunks, file, drifted, status>>
    BY <1>1 DEF patchVars
  <2>3. status'.how = "made" => Waits'
    BY <2>2 DEF MergeInv, Waits
  <2>4. /\ ThreeWay = ThreeWayOf(script, drifted) /\ ThreeWay' = ThreeWayOf(script', drifted')
        /\ ThreeWayOf(script', drifted') = ThreeWayOf(script, drifted)
    BY <2>2 DEF ThreeWay, ThreeWayOf
  <2>5. OldLinesAreUnlike' <=> OldLinesAreUnlike
    BY <2>2 DEF OldLinesAreUnlike
  <2>6. MergeIsThreeWay'
    BY <2>2, <2>4, <2>5 DEF MergeInv, MergeIsThreeWay
  <2> QED
    BY <2>1, <2>3, <2>6 DEF MergeInv
<1> QED
  BY <1>1, StepsOfText, DriftWaits, PatchIsMerged

(* A patch whose hunks change lines in place gives the three-way merge, be *)
(* it applied or merged without a conflict: each line that others have     *)
(* changed is as they have it, each line that the patch changes is as the  *)
(* patch has it, and they are in the order of the text, when no line of    *)
(* the old text is twice in it or among those that the patch puts.         *)
THEOREM PatchIsThreeWay == TextSpec => []MergeIsThreeWay
<1>1. TextInit => MergeInv
  BY MergeInvInit
<1>2. MergeInv /\ [TextNext]_textVars => MergeInv'
  BY MergeInvStep
<1>3. MergeInv => MergeIsThreeWay
  BY DEF MergeInv
<1> QED
  BY <1>1, <1>2, <1>3, PTL DEF TextSpec
=============================================================================
