------------------------ MODULE Iso2022SubjectProofs ------------------------
(***************************************************************************)
(* Theorems about Iso2022Subject, for subjects of any length: the encoded   *)
(* words are closed where they have to be, each of them can be decoded by   *)
(* itself, and no line is more than eleven columns over the limit.          *)
(***************************************************************************)
EXTENDS Iso2022Subject, EncoderProofs

Marks == {"open", "close"}

\* The last mark before token k is m; before the first mark no word is open.
Marked(out_, k, m) ==
    \/ m = "close" /\ \A j \in 1..(k - 1) : out_[j].kind \notin Marks
    \/ \E j \in 1..(k - 1) :
           out_[j].kind = m /\ \A e \in (j + 1)..(k - 1) : out_[e].kind \notin Marks

\* May token t follow, where the set s is in force and the last mark is m?
Allowed(t, s, m) ==
    /\ t.kind \in {"fold", "open", "space"} => m = "close"
    /\ t.kind = "open" => s = "ascii"
    /\ t.kind = "close" => m = "open" /\ s = "ascii"
    /\ t.kind = "char" => (m = "open" <=> s # "ascii")
    /\ RightIn(jis, t, s)

\* Every token was allowed; what is added next is in set s after mark m.
Sound(seq, s, m) ==
    /\ seq \in Seq(Tokens)
    /\ \A k \in 1..Len(seq) : \E r \in Sets, n \in Marks :
           Reads(seq, k, r) /\ Marked(seq, k, n) /\ Allowed(seq[k], r, n)
    /\ Reads(seq, Len(seq) + 1, s)
    /\ Marked(seq, Len(seq) + 1, m)

LEMMA SoundEmpty == Sound(<<>>, "ascii", "close")
<1>1. Len(<<>>) = 0 /\ <<>> \in Seq(Tokens)
    BY EmptySeq
<1> QED
    BY <1>1 DEF Sound, Reads, Marked

\* The relations look only at what stands before k.
LEMMA Before ==
    ASSUME NEW a, NEW b, NEW k, \A j \in 1..(k - 1) : a[j] = b[j]
    PROVE  /\ \A s : Reads(a, k, s) => Reads(b, k, s)
           /\ \A m : Marked(a, k, m) => Marked(b, k, m)
    BY DEF Reads, Marked

LEMMA SoundAppend ==
    ASSUME NEW seq, NEW s \in Sets, NEW m \in Marks, Sound(seq, s, m),
           NEW t \in Tokens, Allowed(t, s, m)
    PROVE  /\ Sound(Append(seq, t), IF t.kind = "esc" THEN t.set ELSE s,
                    IF t.kind \in Marks THEN t.kind ELSE m)
           /\ t.kind # "char" => \A c, a, b : Copied(c, seq, a, b) =>
                                                  Copied(c, Append(seq, t), a, b)
<1> DEFINE n == Len(seq)
           longer == Append(seq, t)
<1>1. /\ n \in Nat /\ Len(longer) = n + 1 /\ longer \in Seq(Tokens)
      /\ \A j \in 1..n : longer[j] = seq[j]
      /\ longer[n + 1] = t /\ seq \in Seq(Tokens)
    BY AppendProperties, LenProperties DEF Sound
<1>2. t.kind # "char" => \A c, a, b : Copied(c, seq, a, b) => Copied(c, longer, a, b)
    BY <1>1, CopiedOther
<1> HIDE DEF longer
<1>3. ASSUME NEW k \in 1..(n + 1)
      PROVE  /\ \A r : Reads(seq, k, r) => Reads(longer, k, r)
             /\ \A r : Marked(seq, k, r) => Marked(longer, k, r)
    <2>1. \A j \in 1..(k - 1) : seq[j] = longer[j]
        BY <1>1
    <2> QED
        BY <2>1, Before
<1>4. \A k \in 1..(n + 1) : k \in 1..n \/ k = n + 1
    BY <1>1
<1>5. ASSUME NEW k \in 1..(n + 1)
      PROVE  \E r \in Sets, q \in Marks :
                 Reads(longer, k, r) /\ Marked(longer, k, q) /\ Allowed(longer[k], r, q)
    <2>1. CASE k \in 1..n
        <3>1. PICK r \in Sets, q \in Marks :
                  Reads(seq, k, r) /\ Marked(seq, k, q) /\ Allowed(seq[k], r, q)
            BY <2>1 DEF Sound, n
        <3>2. longer[k] = seq[k] /\ Reads(longer, k, r) /\ Marked(longer, k, q)
            BY <1>1, <1>3, <2>1, <3>1
        <3> QED
            BY <3>1, <3>2
    <2>2. CASE k = n + 1
        <3>1. Reads(seq, k, s) /\ Marked(seq, k, m)
            BY <2>2 DEF Sound, n
        <3>2. longer[k] = t /\ Reads(longer, k, s) /\ Marked(longer, k, m)
            BY <1>1, <1>3, <2>2, <3>1
        <3> QED
            BY <3>2
    <2> QED
        BY <1>4, <2>1, <2>2
<1>6. /\ Reads(longer, n + 1, s) /\ Marked(longer, n + 1, m)
      /\ n + 1 - 1 = n /\ n + 2 - 1 = n + 1 /\ n + 1 \in 1..(n + 1)
    <2>1. n + 1 \in 1..(n + 1)
        BY <1>1
    <2> QED
        BY <1>1, <1>3, <2>1 DEF Sound, n
<1>7. Reads(longer, n + 2, IF t.kind = "esc" THEN t.set ELSE s)
    <2>1. CASE t.kind = "esc"
        BY <1>1, <2>1 DEF Reads
    <2>2. CASE t.kind # "esc"
        BY <1>1, <1>4, <1>6, <2>2 DEF Reads
    <2> QED
        BY <2>1, <2>2
<1>8. Marked(longer, n + 2, IF t.kind \in Marks THEN t.kind ELSE m)
    <2>1. CASE t.kind \in Marks
        BY <1>1, <2>1 DEF Marked
    <2>2. CASE t.kind \notin Marks
        BY <1>1, <1>4, <1>6, <2>2 DEF Marked
    <2> QED
        BY <2>1, <2>2
<1>9. n + 2 = Len(longer) + 1
    BY <1>1
<1> QED
    BY <1>1, <1>2, <1>5, <1>7, <1>8, <1>9 DEF Sound, longer

-----------------------------------------------------------------------------

Outs == [dst : Seq(Tokens), line : Int, limit : Int, state : Sets]

\* Between two steps a word is open just when another set than ASCII is in use.
Balanced(o) ==
    o \in Outs /\ Sound(o.dst, o.state, IF o.state = "ascii" THEN "close" ELSE "open")

\* What o keeps of the text, p keeps.
Keeps(o, p) == \A c, a, b : Copied(c, o.dst, a, b) => Copied(c, p.dst, a, b)

LEMMA TokensOf ==
    /\ \A p \in Nat : Char(p) \in Tokens /\ Char(p).kind = "char" /\ Char(p).at = p
    /\ \A s \in Sets : Escape(s) \in Tokens /\ Escape(s).kind = "esc" /\ Escape(s).set = s
    /\ Fold \in Tokens /\ Fold.kind = "fold"
    /\ OpenWord \in Tokens /\ OpenWord.kind = "open"
    /\ CloseWord \in Tokens /\ CloseWord.kind = "close"
    /\ Space \in Tokens /\ Space.kind = "space"
    BY DEF Char, Escape, Fold, OpenWord, CloseWord, Space, Tokens, Kinds, Sets

LEMMA SetOfRange == \A c : SetOf(c) \in Sets /\ Width(c) \in 1..2
    BY DEF SetOf, Sets, Width

\* Two tokens at once.
LEMMA AppendTwo ==
    ASSUME NEW seq \in Seq(Tokens), NEW a \in Tokens, NEW b \in Tokens
    PROVE  seq \o <<a, b>> = Append(Append(seq, a), b)
<1> DEFINE x == seq \o <<a, b>>
           y == Append(Append(seq, a), b)
           n == Len(seq)
<1>1. <<a, b>> \in Seq(Tokens) /\ Len(<<a, b>>) = 2 /\ <<a, b>>[1] = a /\ <<a, b>>[2] = b
    OBVIOUS
<1>2. n \in Nat
    BY LenProperties
<1>3. /\ x \in Seq(Tokens) /\ Len(x) = n + 2
      /\ \A k \in 1..(n + 2) : x[k] = IF k <= n THEN seq[k] ELSE <<a, b>>[k - n]
    BY <1>1, <1>2, ConcatProperties
<1>4. /\ Append(seq, a) \in Seq(Tokens) /\ Len(Append(seq, a)) = n + 1
      /\ \A k \in 1..n : Append(seq, a)[k] = seq[k]
      /\ Append(seq, a)[n + 1] = a
    BY AppendProperties
<1>5. /\ y \in Seq(Tokens) /\ Len(y) = n + 2
      /\ \A k \in 1..(n + 1) : y[k] = Append(seq, a)[k]
      /\ y[n + 2] = b
    BY <1>2, <1>4, AppendProperties
<1> HIDE DEF x, y
<1>6. ASSUME NEW k \in 1..(n + 2)
      PROVE  x[k] = y[k]
    <2>1. CASE k <= n
        <3>1. k \in 1..n /\ k \in 1..(n + 1)
            BY <1>2, <2>1
        <3> QED
            BY <1>3, <1>4, <1>5, <2>1, <3>1
    <2>2. CASE k = n + 1
        <3>1. ~(k <= n) /\ k - n = 1 /\ k \in 1..(n + 1)
            BY <1>2, <2>2
        <3> QED
            BY <1>1, <1>3, <1>4, <1>5, <2>2, <3>1
    <2>3. CASE k = n + 2
        <3>1. ~(k <= n) /\ k - n = 2
            BY <1>2, <2>3
        <3> QED
            BY <1>1, <1>3, <1>5, <2>3, <3>1
    <2> QED
        BY <1>2, <2>1, <2>2, <2>3
<1>7. x = y
    BY <1>3, <1>5, <1>6, SeqEqual
<1> QED
    BY <1>7 DEF x, y

LEMMA OutParts ==
    ASSUME NEW o \in Outs
    PROVE  o.dst \in Seq(Tokens) /\ o.line \in Int /\ o.limit \in Int /\ o.state \in Sets
    BY DEF Outs

\* Column is what its recursive definition says: 9, then token after token.
LEMMA ColumnValues ==
    ASSUME NEW text, NEW d \in Seq(Tokens)
    PROVE  /\ Column(text, d) \in [0..Len(d) -> Int]
           /\ Column(text, d)[0] = 9
           /\ \A k \in 1..Len(d) :
                  Column(text, d)[k] = ColumnAfter(text, Column(text, d)[k - 1], d[k])
<1> DEFINE n == Len(d)
           base == 9
           step == [k \in 1..n |-> [c \in Int |-> ColumnAfter(text, c, d[k])]]
           column == Column(text, d)
<1>1. n \in Nat /\ base \in Int
    BY LenProperties
<1>2. \A t : Columns(text, t) \in 0..16
    BY DEF Columns, Width
<1>3. step \in Steps(n, Int)
    BY <1>2 DEF ColumnAfter, Steps
<1>4. PICK f : Computes(f, n, Int, base, step)
    <2> HIDE DEF step, n, base
    <2> QED
        BY <1>1, <1>3, Recursion
<1>5. /\ f \in [0..n -> Int] /\ f[0] = 9
      /\ \A k \in 1..n : f[k] = step[k][f[k - 1]]
    BY <1>4 DEF Computes
<1>6. \A k \in 1..n : k - 1 \in 0..n /\ f[k - 1] \in Int
    BY <1>1, <1>5
<1>7. \A k \in 1..n : f[k] = ColumnAfter(text, f[k - 1], d[k])
    BY <1>5, <1>6
<1> HIDE DEF step
<1>8. \A k \in 0..n : k = 0 \/ k \in 1..n
    BY <1>1
<1>9. f = [k \in 0..n |-> IF k = 0 THEN 9 ELSE ColumnAfter(text, f[k - 1], d[k])]
    BY <1>5, <1>7, <1>8
<1>10. column = CHOOSE g : g = [k \in 0..n |-> IF k = 0 THEN 9 ELSE ColumnAfter(text, g[k - 1], d[k])]
    BY DEF Column
<1>11. column = [k \in 0..n |-> IF k = 0 THEN 9 ELSE ColumnAfter(text, column[k - 1], d[k])]
    <2> HIDE DEF column, n
    <2> QED
        BY <1>9, <1>10
<1> HIDE DEF column
<1>12. column[0] = 9 /\ \A k \in 1..n : column[k] = ColumnAfter(text, column[k - 1], d[k])
    <2>1. 0 \in 0..n /\ \A k \in 1..n : k \in 0..n /\ k # 0
        BY <1>1
    <2> QED
        BY <1>11, <2>1
<1>13. \A k \in 0..n : column[k] = f[k]
    <2> DEFINE S == {k \in 0..n : column[k] = f[k]}
    <2>1. 0 \in S
        BY <1>1, <1>5, <1>12
    <2>2. \A k \in 1..n : k - 1 \in S => k \in S
        BY <1>7, <1>12
    <2>3. \A k \in 0..n : k \in S
        <3> HIDE DEF S
        <3> QED
            BY <1>1, <2>1, <2>2, UpTo
    <2> QED
        BY <2>3
<1>14. column \in [0..n -> Int]
    BY <1>5, <1>11, <1>13
<1> QED
    BY <1>12, <1>14 DEF column

\* One more token: what stood before it stays where it was.
LEMMA ColumnAppend ==
    ASSUME NEW text, NEW d \in Seq(Tokens), NEW t \in Tokens
    PROVE  LET n == Len(d)
               e == Append(d, t)
           IN  /\ Column(text, e)[n + 1] = ColumnAfter(text, Column(text, d)[n], t)
               /\ \A k \in 0..n : Column(text, e)[k] = Column(text, d)[k]
<1> DEFINE n == Len(d)
           e == Append(d, t)
           f == Column(text, d)
           g == Column(text, e)
<1>1. /\ n \in Nat /\ e \in Seq(Tokens) /\ Len(e) = n + 1
      /\ \A k \in 1..n : e[k] = d[k]
      /\ e[n + 1] = t
    BY AppendProperties, LenProperties
<1>2. f[0] = 9 /\ \A k \in 1..n : f[k] = ColumnAfter(text, f[k - 1], d[k])
    BY ColumnValues
<1> HIDE DEF e
<1>3. g[0] = 9 /\ \A k \in 1..(n + 1) : g[k] = ColumnAfter(text, g[k - 1], e[k])
    BY <1>1, ColumnValues
<1> HIDE DEF f, g, n
<1>4. \A k \in 1..n : k \in 1..(n + 1) /\ n \in 0..n
    BY <1>1
<1> DEFINE S == {k \in 0..n : g[k] = f[k]}
<1>5. 0 \in S
    BY <1>1, <1>2, <1>3
<1>6. \A k \in 1..n : k - 1 \in S => k \in S
    BY <1>1, <1>2, <1>3, <1>4
<1>7. \A k \in 0..n : k \in S
    <2> HIDE DEF S
    <2> QED
        BY <1>1, <1>5, <1>6, UpTo
<1>8. \A k \in 0..n : g[k] = f[k]
    BY <1>7
<1>9. n + 1 \in 1..(n + 1) /\ n + 1 - 1 = n /\ n \in 0..n
    BY <1>1
<1>10. g[n + 1] = ColumnAfter(text, f[n], t)
    BY <1>1, <1>3, <1>8, <1>9
<1> QED
    BY <1>8, <1>10 DEF f, g, e, n

-----------------------------------------------------------------------------

\* The column an output ends at, and whether all its lines are short enough.
End(d)   == Column(jis, d)[Len(d)]
Short(d) == \A k \in 0..Len(d) : Column(jis, d)[k] <= 89

LEMMA ShortAppend ==
    ASSUME NEW d \in Seq(Tokens), Short(d), NEW t \in Tokens,
           ColumnAfter(jis, End(d), t) <= 89
    PROVE  /\ End(Append(d, t)) = ColumnAfter(jis, End(d), t)
           /\ Short(Append(d, t))
<1> DEFINE n == Len(d)
           e == Append(d, t)
<1>1. n \in Nat /\ Len(e) = n + 1
    BY AppendProperties, LenProperties
<1>2. /\ Column(jis, e)[n + 1] = ColumnAfter(jis, Column(jis, d)[n], t)
      /\ \A k \in 0..n : Column(jis, e)[k] = Column(jis, d)[k]
    BY ColumnAppend
<1> HIDE DEF e
<1>3. \A k \in 0..(n + 1) : k \in 0..n \/ k = n + 1
    BY <1>1
<1>4. Short(e)
    BY <1>1, <1>2, <1>3 DEF Short, End
<1> QED
    BY <1>1, <1>2, <1>4 DEF End, e

LEMMA EndIsInt == ASSUME NEW d \in Seq(Tokens) PROVE End(d) \in Int
<1>1. Len(d) \in Nat /\ Column(jis, d) \in [0..Len(d) -> Int]
    BY LenProperties, ColumnValues
<1> QED
    BY <1>1 DEF End

\* What each operation makes of the parts of an output.
LEMMA FoldParts ==
    ASSUME NEW o \in Outs
    PROVE  /\ FoldLine(o) \in Outs /\ FoldLine(o).dst = Append(o.dst, Fold)
           /\ FoldLine(o).line = 1 /\ FoldLine(o).limit = 77
           /\ FoldLine(o).state = o.state
<1> DEFINE d == Append(o.dst, Fold)
           l == 1
           h == ISO_2022_MAX_LINE_LENGTH_FOR_HEADER - 1
           q == FoldLine(o)
<1>1. d \in Seq(Tokens)
    <2>1. o.dst \in Seq(Tokens) /\ Fold \in Tokens
        BY OutParts, TokensOf
    <2> QED
        BY <2>1, AppendProperties
<1>2. q = [o EXCEPT !.dst = d, !.line = l, !.limit = h]
    BY DEF FoldLine
<1>3. h = 77 /\ l = 1
    BY DEF ISO_2022_MAX_LINE_LENGTH_FOR_HEADER
<1>4. l \in Int /\ h \in Int
    BY <1>3
<1> HIDE DEF d, l, h, q
<1>5. /\ q \in Outs /\ q.dst = d /\ q.line = l /\ q.limit = h
      /\ q.state = o.state
    BY <1>1, <1>2, <1>4 DEF Outs
<1> QED
    BY <1>3, <1>5 DEF q, d, l

LEMMA CloseParts ==
    ASSUME NEW o \in Outs, o.state # "ascii"
    PROVE  /\ Close(o) \in Outs
           /\ Close(o).dst = Append(Append(o.dst, Escape("ascii")), CloseWord)
           /\ Close(o).line = o.line + 7 /\ Close(o).limit = o.limit
           /\ Close(o).state = "ascii"
<1> DEFINE e == Escape("ascii")
           d == Append(Append(o.dst, e), CloseWord)
           l == o.line + 7
           q == Close(o)
<1>1. o.dst \in Seq(Tokens) /\ e \in Tokens /\ CloseWord \in Tokens /\ "ascii" \in Sets
    BY OutParts, TokensOf DEF Sets
<1>2. o.dst \o <<Escape("ascii"), CloseWord>> = d
    BY <1>1, AppendTwo
<1>3. q = [o EXCEPT !.dst = d, !.line = l, !.state = "ascii"]
    BY <1>2 DEF Close
<1>4. l \in Int
    BY OutParts
<1> HIDE DEF e
<1>5. d \in Seq(Tokens)
    <2>1. Append(o.dst, e) \in Seq(Tokens)
        BY <1>1, AppendProperties
    <2> QED
        BY <1>1, <2>1, AppendProperties
<1> HIDE DEF d, l, q
<1>6. /\ q \in Outs /\ q.dst = d /\ q.line = l /\ q.limit = o.limit
      /\ q.state = "ascii"
    BY <1>1, <1>3, <1>4, <1>5 DEF Outs
<1> QED
    BY <1>6 DEF q, d, l, e

LEMMA PutParts ==
    ASSUME NEW o \in Outs, NEW p \in Nat
    PROVE  /\ Put(o, p) \in Outs /\ Put(o, p).dst = Append(o.dst, Char(p))
           /\ Put(o, p).line = o.line + Width(jis[p]) /\ Put(o, p).limit = o.limit
           /\ Put(o, p).state = o.state
<1> DEFINE d == Append(o.dst, Char(p))
           l == o.line + Width(jis[p])
           q == Put(o, p)
<1>1. d \in Seq(Tokens)
    <2>1. o.dst \in Seq(Tokens) /\ Char(p) \in Tokens
        BY OutParts, TokensOf
    <2> QED
        BY <2>1, AppendProperties
<1>2. q = [o EXCEPT !.dst = d, !.line = l]
    BY DEF Put
<1>3. l \in Int
    <2>1. Width(jis[p]) \in 1..2 /\ o.line \in Int
        BY SetOfRange, OutParts
    <2> QED
        BY <2>1
<1> HIDE DEF d, l, q
<1>4. /\ q \in Outs /\ q.dst = d /\ q.line = l /\ q.limit = o.limit
      /\ q.state = o.state
    BY <1>1, <1>2, <1>3 DEF Outs
<1> QED
    BY <1>4 DEF q, d, l

LEMMA SwitchParts ==
    ASSUME NEW o \in Outs, NEW s \in Sets, o.state # s
    PROVE  /\ Switch(o, s) \in Outs /\ Switch(o, s).dst = Append(o.dst, Escape(s))
           /\ Switch(o, s).line = o.line + 5 /\ Switch(o, s).limit = o.limit
           /\ Switch(o, s).state = s
<1> DEFINE d == Append(o.dst, Escape(s))
           l == o.line + 5
           q == Switch(o, s)
<1>1. d \in Seq(Tokens)
    <2>1. o.dst \in Seq(Tokens) /\ Escape(s) \in Tokens
        BY OutParts, TokensOf
    <2> QED
        BY <2>1, AppendProperties
<1>2. q = [o EXCEPT !.dst = d, !.line = l, !.state = s]
    BY DEF Switch
<1>3. l \in Int
    BY OutParts
<1> HIDE DEF d, l, q
<1>4. /\ q \in Outs /\ q.dst = d /\ q.line = l /\ q.limit = o.limit
      /\ q.state = s
    BY <1>1, <1>2, <1>3 DEF Outs
<1> QED
    BY <1>4 DEF q, d, l

\* A word begun on the line.
LEMMA OpenParts ==
    ASSUME NEW o \in Outs, NEW s, o.state = "ascii", o.line < o.limit - 23
    PROVE  /\ Open(o, s) \in Outs /\ Open(o, s).dst = Append(o.dst, OpenWord)
           /\ Open(o, s).line = o.line + 17 /\ Open(o, s).limit = o.limit
           /\ Open(o, s).state = "ascii"
<1> DEFINE d == Append(o.dst, OpenWord)
           l == o.line + 17
           q == Open(o, s)
<1>1. d \in Seq(Tokens)
    <2>1. o.dst \in Seq(Tokens) /\ OpenWord \in Tokens
        BY OutParts, TokensOf
    <2> QED
        BY <2>1, AppendProperties
<1>2. q = [o EXCEPT !.dst = d, !.line = l]
    BY DEF Open
<1>3. l \in Int
    BY OutParts
<1> HIDE DEF d, l, q
<1>4. /\ q \in Outs /\ q.dst = d /\ q.line = l /\ q.limit = o.limit
      /\ q.state = o.state
    BY <1>1, <1>2, <1>3 DEF Outs
<1> QED
    BY <1>4 DEF q, d, l

\* A word begun on a new line.
LEMMA OpenNewParts ==
    ASSUME NEW o \in Outs, NEW s, o.state = "ascii", ~(o.line < o.limit - 23)
    PROVE  /\ Open(o, s) \in Outs
           /\ Open(o, s).dst = Append(Append(o.dst, Fold), OpenWord)
           /\ Open(o, s).line = NewWordLine(s)
           /\ Open(o, s).limit = 71 - NewWordLine(s)
           /\ Open(o, s).state = "ascii"
<1> DEFINE d == Append(Append(o.dst, Fold), OpenWord)
           l == NewWordLine(s)
           h == ISO_2022_MAX_LINE_LENGTH_FOR_HEADER - NewWordLine(s) - 7
           q == Open(o, s)
<1>1. o.dst \in Seq(Tokens) /\ Fold \in Tokens /\ OpenWord \in Tokens
    BY OutParts, TokensOf
<1>2. o.dst \o <<Fold, OpenWord>> = d
    BY <1>1, AppendTwo
<1>3. d \in Seq(Tokens)
    <2>1. Append(o.dst, Fold) \in Seq(Tokens)
        BY <1>1, AppendProperties
    <2> QED
        BY <1>1, <2>1, AppendProperties
<1>4. q = [o EXCEPT !.dst = d, !.line = l, !.limit = h]
    BY <1>2 DEF Open
<1>5. l \in Int /\ h \in Int /\ h = 71 - NewWordLine(s)
    BY DEF NewWordLine, ISO_2022_MAX_LINE_LENGTH_FOR_HEADER
<1> HIDE DEF d, l, h, q
<1>6. /\ q \in Outs /\ q.dst = d /\ q.line = l /\ q.limit = h
      /\ q.state = o.state
    BY <1>1, <1>3, <1>4, <1>5 DEF Outs
<1> QED
    BY <1>5, <1>6 DEF q, d, l

-----------------------------------------------------------------------------

LEMMA FoldBalanced ==
    ASSUME NEW o, Balanced(o), o.state = "ascii"
    PROVE  Balanced(FoldLine(o)) /\ FoldLine(o).state = "ascii" /\ Keeps(o, FoldLine(o))
<1>1. /\ Fold \in Tokens /\ Fold.kind = "fold" /\ "ascii" \in Sets /\ "close" \in Marks
      /\ Fold.kind \notin Marks
    BY TokensOf DEF Sets, Marks
<1>2. o \in Outs /\ Sound(o.dst, "ascii", "close")
    BY DEF Balanced
<1>3. Allowed(Fold, "ascii", "close")
    BY <1>1 DEF Allowed, RightIn
<1>4. /\ Sound(Append(o.dst, Fold), "ascii", "close")
      /\ \A c, a, b : Copied(c, o.dst, a, b) => Copied(c, Append(o.dst, Fold), a, b)
    BY <1>1, <1>2, <1>3, SoundAppend
<1>5. /\ FoldLine(o) \in Outs /\ FoldLine(o).dst = Append(o.dst, Fold)
      /\ FoldLine(o).state = "ascii"
    BY <1>2, FoldParts
<1> QED
    BY <1>4, <1>5 DEF Balanced, Keeps

LEMMA CloseBalanced ==
    ASSUME NEW o, Balanced(o)
    PROVE  Balanced(Close(o)) /\ Close(o).state = "ascii" /\ Keeps(o, Close(o))
<1>1. CASE o.state = "ascii"
    BY <1>1 DEF Close, Keeps
<1>2. CASE o.state # "ascii"
    <2> DEFINE e == Escape("ascii")
               back == Append(o.dst, e)
    <2>1. /\ e \in Tokens /\ e.kind = "esc" /\ e.set = "ascii" /\ "ascii" \in Sets
          /\ CloseWord \in Tokens /\ CloseWord.kind = "close"
          /\ "open" \in Marks /\ "close" \in Marks /\ e.kind \notin Marks
        BY TokensOf DEF Sets, Marks
    <2>2. o \in Outs /\ o.state \in Sets /\ Sound(o.dst, o.state, "open")
        BY <1>2 DEF Balanced, Outs
    <2> HIDE DEF e
    <2>3. Allowed(e, o.state, "open") /\ Allowed(CloseWord, "ascii", "open")
        BY <2>1 DEF Allowed, RightIn
    <2>4. /\ Sound(back, "ascii", "open")
          /\ \A c, a, b : Copied(c, o.dst, a, b) => Copied(c, back, a, b)
        BY <2>1, <2>2, <2>3, SoundAppend
    <2> HIDE DEF back
    <2>5. /\ Sound(Append(back, CloseWord), "ascii", "close")
          /\ \A c, a, b : Copied(c, back, a, b) => Copied(c, Append(back, CloseWord), a, b)
        BY <2>1, <2>3, <2>4, SoundAppend
    <2>6. /\ Close(o) \in Outs /\ Close(o).dst = Append(back, CloseWord)
          /\ Close(o).state = "ascii"
        BY <1>2, <2>2, CloseParts DEF back, e
    <2> QED
        BY <2>4, <2>5, <2>6 DEF Balanced, Keeps
<1> QED
    BY <1>1, <1>2

LEMMA WrapBalanced ==
    ASSUME NEW o, Balanced(o)
    PROVE  Balanced(Wrap(o)) /\ Keeps(o, Wrap(o))
<1>1. Balanced(Close(o)) /\ Close(o).state = "ascii" /\ Keeps(o, Close(o))
    BY CloseBalanced
<1>2. Balanced(FoldLine(Close(o))) /\ Keeps(Close(o), FoldLine(Close(o)))
    BY <1>1, FoldBalanced
<1>3. Keeps(o, FoldLine(Close(o))) /\ Keeps(o, o)
    BY <1>1, <1>2 DEF Keeps
<1> QED
    BY <1>2, <1>3 DEF Wrap

LEMMA FinishBalanced ==
    ASSUME NEW o, Balanced(o), NEW p
    PROVE  /\ Balanced(Finish(o, p)) /\ Keeps(o, Finish(o, p))
           /\ p = Len(jis) => Finish(o, p).state = "ascii"
    BY CloseBalanced DEF Finish, Keeps

\* A character in its own set is copied.
LEMMA PutBalanced ==
    ASSUME NEW o, Balanced(o), NEW p \in Nat \ {0}, o.state = SetOf(jis[p]),
           jis[p] # "none", Copied(jis, o.dst, 0, p - 1)
    PROVE  /\ Balanced(Put(o, p)) /\ Put(o, p).state = o.state
           /\ Copied(jis, Put(o, p).dst, 0, p)
<1> DEFINE c == Char(p)
           d == Append(o.dst, c)
           q == Put(o, p)
           m == IF o.state = "ascii" THEN "close" ELSE "open"
<1>1. /\ c \in Tokens /\ c.kind = "char" /\ c.at = p /\ c.kind \notin Marks
      /\ m \in Marks /\ (m = "open" <=> o.state # "ascii")
    BY TokensOf DEF Marks
<1> HIDE DEF c, m
<1>2. o \in Outs /\ o.state \in Sets /\ o.dst \in Seq(Tokens) /\ Sound(o.dst, o.state, m)
    BY OutParts DEF Balanced, m
<1>3. Allowed(c, o.state, m)
    BY <1>1 DEF Allowed, RightIn
<1>4. Sound(d, o.state, m)
    BY <1>1, <1>2, <1>3, SoundAppend
<1>5. Copied(jis, d, 0, p)
    <2>1. p - 1 \in Nat /\ (p - 1) + 1 = p /\ 0 <= p - 1 /\ 0 \in Nat
        OBVIOUS
    <2> QED
        BY <1>1, <1>2, <2>1, CopiedCharacter
<1>6. q \in Outs /\ q.dst = d /\ q.state = o.state
    BY <1>2, PutParts DEF c
<1> HIDE DEF d, q
<1>7. Balanced(q)
    BY <1>4, <1>6 DEF Balanced, m
<1> QED
    BY <1>5, <1>6, <1>7 DEF q

LEMMA PutAsciiBalanced ==
    ASSUME NEW o, Balanced(o), NEW p \in Nat \ {0}, jis[p] \in {"ascii", "cr", "lf"},
           Copied(jis, o.dst, 0, p - 1)
    PROVE  /\ Balanced(PutAscii(o, p)) /\ PutAscii(o, p).state = "ascii"
           /\ Copied(jis, PutAscii(o, p).dst, 0, p)
<1> DEFINE closed == Close(o)
           a == IF o.state # "ascii" /\ closed.line >= closed.limit
                THEN FoldLine(closed) ELSE closed
           b == Put(a, p)
           h == ISO_2022_MAX_LINE_LENGTH_FOR_HEADER - 1
           d == Append(b.dst, Space)
           q == [b EXCEPT !.dst = d, !.line = 1, !.limit = h]
<1>1. Balanced(closed) /\ closed.state = "ascii" /\ Keeps(o, closed)
    BY CloseBalanced
<1>2. /\ Balanced(FoldLine(closed)) /\ FoldLine(closed).state = "ascii"
      /\ Keeps(closed, FoldLine(closed))
    BY <1>1, FoldBalanced
<1>3. Balanced(a) /\ a.state = "ascii" /\ Keeps(o, a)
    BY <1>1, <1>2 DEF Keeps
<1>4. PutAscii(o, p) = IF jis[p] = "lf" /\ p > 1 /\ jis[p - 1] = "cr" THEN q ELSE b
    BY DEF PutAscii
<1> HIDE DEF a
<1>5. SetOf(jis[p]) = "ascii" /\ jis[p] # "none" /\ Copied(jis, a.dst, 0, p - 1)
    BY <1>3 DEF SetOf, Keeps
<1>6. Balanced(b) /\ b.state = "ascii" /\ Copied(jis, b.dst, 0, p)
    BY <1>3, <1>5, PutBalanced
<1> HIDE DEF b
<1>7. /\ Space \in Tokens /\ Space.kind = "space" /\ "ascii" \in Sets /\ "close" \in Marks
      /\ Space.kind \notin Marks
    BY TokensOf DEF Sets, Marks
<1>8. b \in Outs /\ Sound(b.dst, "ascii", "close")
    BY <1>6 DEF Balanced
<1>9. Allowed(Space, "ascii", "close")
    BY <1>7 DEF Allowed, RightIn
<1>10. /\ Sound(d, "ascii", "close")
       /\ \A c, e, f : Copied(c, b.dst, e, f) => Copied(c, d, e, f)
    BY <1>7, <1>8, <1>9, SoundAppend
<1>11. 1 \in Int /\ h \in Int /\ d \in Seq(Tokens)
    BY <1>10 DEF Sound, ISO_2022_MAX_LINE_LENGTH_FOR_HEADER
<1>12. q = [b EXCEPT !.dst = d, !.line = 1, !.limit = h]
    OBVIOUS
<1> HIDE DEF d, h, q
<1>13. q \in Outs /\ q.dst = d /\ q.state = b.state
    BY <1>8, <1>11, <1>12 DEF Outs
<1>14. Balanced(q) /\ q.state = "ascii" /\ Copied(jis, q.dst, 0, p)
    BY <1>6, <1>10, <1>13 DEF Balanced
<1> QED
    BY <1>4, <1>6, <1>14

-----------------------------------------------------------------------------

\* Once Open is through, a word is open, whatever the set.
LEMMA OpenSound ==
    ASSUME NEW o, Balanced(o), NEW s
    PROVE  /\ Open(o, s) \in Outs
           /\ Sound(Open(o, s).dst, Open(o, s).state, "open")
           /\ Keeps(o, Open(o, s))
<1>1. CASE o.state # "ascii"
    BY <1>1 DEF Open, Balanced, Keeps
<1>2. CASE o.state = "ascii"
    <2>1. /\ OpenWord \in Tokens /\ OpenWord.kind = "open" /\ Fold \in Tokens
          /\ Fold.kind = "fold" /\ Fold.kind \notin Marks /\ "ascii" \in Sets
          /\ "open" \in Marks /\ "close" \in Marks
        BY TokensOf DEF Sets, Marks
    <2>2. o \in Outs /\ Sound(o.dst, "ascii", "close") /\ o.dst \in Seq(Tokens) /\ o.line \in Int
        BY <1>2, OutParts DEF Balanced
    <2>3. Allowed(OpenWord, "ascii", "close") /\ Allowed(Fold, "ascii", "close")
        BY <2>1 DEF Allowed, RightIn
    <2>4. CASE o.line < o.limit - 23
        <3> DEFINE d == Append(o.dst, OpenWord)
                   q == Open(o, s)
        <3>1. /\ Sound(d, "ascii", "open")
              /\ \A c, a, b : Copied(c, o.dst, a, b) => Copied(c, d, a, b)
            <4> DEFINE w == OpenWord
            <4>1. w \in Tokens /\ w.kind = "open" /\ w.kind \in Marks /\ d = Append(o.dst, w)
                BY <2>1
            <4>2. Allowed(w, "ascii", "close") /\ w.kind # "esc" /\ w.kind # "char"
                BY <2>1, <2>3
            <4> HIDE DEF w, d
            <4> QED
                BY <2>1, <2>2, <4>1, <4>2, SoundAppend
        <3>2. q \in Outs /\ q.dst = d /\ q.state = o.state
            BY <1>2, <2>2, <2>4, OpenParts
        <3> HIDE DEF d, q
        <3>3. q \in Outs /\ Sound(q.dst, q.state, "open") /\ Keeps(o, q)
            BY <1>2, <3>1, <3>2 DEF Keeps
        <3> QED
            BY <3>3 DEF q
    <2>5. CASE ~(o.line < o.limit - 23)
        <3> DEFINE e == Append(o.dst, Fold)
                   d == Append(e, OpenWord)
                   q == Open(o, s)
        <3>1. /\ Sound(e, "ascii", "close")
              /\ \A c, a, b : Copied(c, o.dst, a, b) => Copied(c, e, a, b)
            BY <2>1, <2>2, <2>3, SoundAppend
        <3>2. q \in Outs /\ q.dst = d /\ q.state = o.state
            BY <1>2, <2>2, <2>5, OpenNewParts
        <3> HIDE DEF e
        <3>3. /\ Sound(d, "ascii", "open")
              /\ \A c, a, b : Copied(c, e, a, b) => Copied(c, d, a, b)
            BY <2>1, <2>3, <3>1, SoundAppend
        <3> HIDE DEF d, q
        <3>4. q \in Outs /\ Sound(q.dst, q.state, "open") /\ Keeps(o, q)
            BY <1>2, <3>1, <3>2, <3>3 DEF Keeps
        <3> QED
            BY <3>4 DEF q
    <2> QED
        BY <2>4, <2>5
<1> QED
    BY <1>1, <1>2

LEMMA SwitchBalanced ==
    ASSUME NEW o \in Outs, Sound(o.dst, o.state, "open"), NEW s \in Sets, s # "ascii"
    PROVE  Balanced(Switch(o, s)) /\ Switch(o, s).state = s /\ Keeps(o, Switch(o, s))
<1>1. CASE o.state = s
    BY <1>1 DEF Switch, Balanced, Keeps
<1>2. CASE o.state # s
    <2> DEFINE e == Escape(s)
               d == Append(o.dst, e)
               q == Switch(o, s)
    <2>1. /\ e \in Tokens /\ e.kind = "esc" /\ e.set = s
          /\ "open" \in Marks /\ e.kind \notin Marks
        BY TokensOf DEF Marks
    <2>2. o.state \in Sets /\ o.line \in Int
        BY OutParts
    <2>3. q \in Outs /\ q.dst = d /\ q.state = s
        BY <1>2, SwitchParts
    <2> HIDE DEF e
    <2>4. Allowed(e, o.state, "open")
        BY <2>1 DEF Allowed, RightIn
    <2>5. /\ Sound(d, s, "open")
          /\ \A c, a, b : Copied(c, o.dst, a, b) => Copied(c, d, a, b)
        BY <2>1, <2>2, <2>4, SoundAppend
    <2> HIDE DEF d, q
    <2>6. Balanced(q) /\ q.state = s /\ Keeps(o, q)
        BY <2>3, <2>5 DEF Balanced, Keeps
    <2> QED
        BY <2>6 DEF q
<1> QED
    BY <1>1, <1>2

LEMMA PutEncodedBalanced ==
    ASSUME NEW o, Balanced(o), NEW p \in Nat \ {0},
           jis[p] \in {"roman", "kana", "kanji", "kanjiQ"}, Copied(jis, o.dst, 0, p - 1)
    PROVE  Balanced(PutEncoded(o, p)) /\ Copied(jis, PutEncoded(o, p).dst, 0, p)
<1> DEFINE s == SetOf(jis[p])
           open == Open(o, s)
           in == Switch(open, s)
<1>1. s \in Sets /\ s # "ascii" /\ jis[p] # "none"
    BY SetOfRange DEF SetOf
<1>2. PutEncoded(o, p) = Put(in, p)
    BY DEF PutEncoded
<1> HIDE DEF s
<1>3. open \in Outs /\ Sound(open.dst, open.state, "open") /\ Keeps(o, open)
    BY OpenSound
<1> HIDE DEF open
<1>4. Balanced(in) /\ in.state = s /\ Keeps(open, in)
    BY <1>1, <1>3, SwitchBalanced
<1>5. Copied(jis, in.dst, 0, p - 1)
    BY <1>3, <1>4 DEF Keeps
<1> HIDE DEF in
<1> QED
    BY <1>1, <1>2, <1>4, <1>5, PutBalanced DEF s

-----------------------------------------------------------------------------

\* The inductive invariant: what is written so far is sound, and has every
\* code before i.
SubjectInv ==
    /\ jis \in Seq(Codes)
    /\ i \in 1..(Len(jis) + 1)
    /\ Balanced(out)
    /\ Copied(jis, out.dst, 0, i - 1)
    /\ Done => out.state = "ascii"

LEMMA SubjectInit == Init => SubjectInv
<1> SUFFICES ASSUME Init PROVE SubjectInv
    OBVIOUS
<1>1. jis \in Seq(Codes) /\ Len(jis) \in Nat /\ i = 1
    BY SubjectConstants, LenProperties DEF Init
<1>2. /\ out.dst = <<>> /\ out.state = "ascii" /\ out \in Outs
    <2>1. <<>> \in Seq(Tokens) /\ "ascii" \in Sets
        BY EmptySeq DEF Sets
    <2> QED
        BY <2>1 DEF Init, Outs, ISO_2022_MAX_LINE_LENGTH_FOR_HEADER
<1>3. Copied(jis, out.dst, 0, i - 1)
    BY <1>1, <1>2, CopiedNothing
<1> QED
    BY <1>1, <1>2, <1>3, SoundEmpty DEF SubjectInv, Balanced

\* After a code, however it was written: the line is wrapped, the text ended.
LEMMA AfterCode ==
    ASSUME SubjectInv, i <= Len(jis), i' = i + 1, UNCHANGED jis,
           NEW o, Balanced(o), Copied(jis, o.dst, 0, i), out' = Finish(Wrap(o), i)
    PROVE  SubjectInv'
<1> DEFINE w == Wrap(o)
           f == Finish(w, i)
<1>1. Balanced(w) /\ Keeps(o, w)
    BY WrapBalanced
<1> HIDE DEF w
<1>2. Balanced(f) /\ Keeps(w, f) /\ (i = Len(jis) => f.state = "ascii")
    BY <1>1, FinishBalanced
<1> HIDE DEF f
<1>3. Copied(jis, f.dst, 0, i) /\ out' = f
    BY <1>1, <1>2 DEF Keeps, w, f
<1>4. /\ Len(jis) \in Nat /\ i' \in 1..(Len(jis) + 1) /\ i' - 1 = i
      /\ (i' > Len(jis) => i = Len(jis)) /\ jis' = jis /\ jis \in Seq(Codes)
    BY LenProperties DEF SubjectInv
<1> QED
    BY <1>2, <1>3, <1>4 DEF SubjectInv, Done, Balanced, Sound, Allowed, RightIn

LEMMA SubjectStep == SubjectInv /\ [Next]_vars => SubjectInv'
<1> SUFFICES ASSUME SubjectInv, [Next]_vars
             PROVE  SubjectInv'
    OBVIOUS
<1>1. /\ Balanced(out) /\ Copied(jis, out.dst, 0, i - 1) /\ i \in Nat \ {0}
      /\ i - 1 \in Nat /\ (i - 1) + 1 = i /\ 0 \in Nat /\ 0 <= i - 1
    <2>1. Len(jis) \in Nat
        BY LenProperties DEF SubjectInv
    <2> QED
        BY <2>1 DEF SubjectInv
<1>2. CASE PassOver
    <2>1. Copied(jis, out.dst, 0, i)
        BY <1>1, <1>2, CopiedSkip DEF PassOver
    <2> QED
        BY <1>1, <1>2, <2>1, AfterCode DEF PassOver
<1>3. CASE EncodeAscii
    <2>1. Balanced(PutAscii(out, i)) /\ Copied(jis, PutAscii(out, i).dst, 0, i)
        BY <1>1, <1>3, PutAsciiBalanced DEF EncodeAscii
    <2> QED
        BY <1>3, <2>1, AfterCode DEF EncodeAscii
<1>4. CASE EncodeOther
    <2>1. Balanced(PutEncoded(out, i)) /\ Copied(jis, PutEncoded(out, i).dst, 0, i)
        BY <1>1, <1>4, PutEncodedBalanced DEF EncodeOther
    <2> QED
        BY <1>4, <2>1, AfterCode DEF EncodeOther
<1>5. CASE UNCHANGED vars
    BY <1>5 DEF vars, SubjectInv, Done, Balanced, Sound, Allowed, RightIn, Copied, Outs
<1> QED
    BY <1>2, <1>3, <1>4, <1>5 DEF Next, Returned

\* At every step the output is sound and complete so far: the invariant the
\* two theorems below rest on.
THEOREM SubjectIsSound == Spec => []SubjectInv
<1> QED
    BY SubjectInit, SubjectStep, PTL DEF Spec

\* The last mark decides.
LEMMA MarkedInside ==
    ASSUME NEW k \in Nat, NEW m \in Marks, Marked(dst, k, m)
    PROVE  Inside(k) <=> m = "open"
<1> DEFINE marks == {j \in 1..(k - 1) : dst[j].kind \in {"open", "close"}}
<1>1. CASE marks = {}
    BY <1>1 DEF Marked, Marks, Inside
<1>2. CASE marks # {}
    <2>1. PICK j \in 1..(k - 1) :
              /\ dst[j].kind = m
              /\ \A e \in (j + 1)..(k - 1) : dst[e].kind \notin Marks
        BY <1>2 DEF Marked, Marks
    <2>2. j \in marks /\ \A e \in marks : e <= j
        BY <2>1 DEF Marks
    <2>3. (CHOOSE x \in marks : \A e \in marks : e <= x) = j
        <3>1. \A x \in marks : (\A e \in marks : e <= x) => x = j
            BY <2>2
        <3> QED
            BY <2>2, <3>1
    <2>4. Inside(k) <=> dst[CHOOSE x \in marks : \A e \in marks : e <= x].kind = "open"
        BY <1>2 DEF Inside
    <2> QED
        BY <2>1, <2>3, <2>4
<1> QED
    BY <1>1, <1>2

\* README, on the ISO-2022-JP Subject: for a subject of any length, a word is
\* closed, and in ASCII, before a fold and before ASCII text, and every
\* character of another set is inside a word.
THEOREM WordsAlwaysClosed == Spec => []WordsAreClosed
<1>1. SubjectInv => WordsAreClosed
    <2> SUFFICES ASSUME SubjectInv, Done PROVE WordsAreClosed
        BY DEF WordsAreClosed
    <2>1. Sound(dst, "ascii", "close") /\ Len(dst) \in Nat
        BY LenProperties DEF SubjectInv, Balanced, Sound, dst
    <2>2. ASSUME NEW k \in 1..Len(dst)
          PROVE  /\ dst[k].kind \in {"fold", "open", "space"} => ~Inside(k)
                 /\ dst[k].kind = "close" => Inside(k) /\ InForce(dst, k) = "ascii"
                 /\ dst[k].kind = "char" =>
                        (Inside(k) <=> SetOf(jis[dst[k].at]) # "ascii")
        <3>1. PICK r \in Sets, n \in Marks :
                  Reads(dst, k, r) /\ Marked(dst, k, n) /\ Allowed(dst[k], r, n)
            BY <2>1 DEF Sound
        <3>2. k \in Nat
            BY <2>1
        <3>3. (Inside(k) <=> n = "open") /\ InForce(dst, k) = r
            BY <3>1, <3>2, MarkedInside, ReadsInForce
        <3> QED
            BY <3>1, <3>3 DEF Allowed, RightIn
    <2>3. ~Inside(Len(dst) + 1)
        <3>1. Len(dst) + 1 \in Nat /\ "close" \in Marks /\ Marked(dst, Len(dst) + 1, "close")
            BY <2>1 DEF Sound, Marks
        <3> QED
            BY <3>1, MarkedInside
    <2> QED
        BY <2>2, <2>3 DEF WordsAreClosed
<1> QED
    BY <1>1, SubjectIsSound, PTL

\* What is in force in an open word was switched to in that word: the words
\* begin in ASCII.
LEMMA SwitchedInWord ==
    ASSUME NEW t, Sound(dst, t, "close"), NEW k \in 1..Len(dst),
           NEW r \in Sets, r # "ascii", Reads(dst, k, r), Marked(dst, k, "open")
    PROVE  \E j \in 1..(k - 1) :
               /\ dst[j].kind = "esc" /\ dst[j].set = r
               /\ \A e \in (j + 1)..(k - 1) : dst[e].kind # "esc"
               /\ \A m \in j..(k - 1) : dst[m].kind \notin {"open", "close"}
<1>1. Len(dst) \in Nat /\ k \in Nat
    BY LenProperties DEF Sound
<1>2. PICK j \in 1..(k - 1) :
          /\ dst[j].kind = "esc" /\ dst[j].set = r
          /\ \A e \in (j + 1)..(k - 1) : dst[e].kind # "esc"
    BY DEF Reads
<1>3. PICK w \in 1..(k - 1) :
          dst[w].kind = "open" /\ \A e \in (w + 1)..(k - 1) : dst[e].kind \notin Marks
    BY DEF Marked
<1>4. ASSUME j <= w PROVE FALSE
    <2>1. w \in 1..Len(dst) /\ w \in Nat /\ j \in 1..(w - 1)
        <3>1. j # w
            BY <1>2, <1>3
        <3> QED
            BY <1>1, <1>4, <3>1
    <2>2. PICK q \in Sets, n \in Marks :
              Reads(dst, w, q) /\ Marked(dst, w, n) /\ Allowed(dst[w], q, n)
        BY <2>1 DEF Sound
    <2>3. q = "ascii"
        BY <1>3, <2>2 DEF Allowed
    <2>4. Reads(dst, w, r)
        <3>1. \A e \in (j + 1)..(w - 1) : e \in (j + 1)..(k - 1)
            BY <1>1, <2>1
        <3> QED
            BY <1>2, <2>1, <3>1 DEF Reads
    <2>5. InForce(dst, w) = q /\ InForce(dst, w) = r
        BY <2>1, <2>2, <2>4, ReadsInForce
    <2> QED
        BY <2>3, <2>5
<1>5. \A m \in j..(k - 1) : m \in (w + 1)..(k - 1)
    BY <1>1, <1>4
<1> QED
    BY <1>2, <1>3, <1>5 DEF Marks

\* convert_to_iso_2022_jp_header: whatever the subject, a reader who decodes
\* each word by itself takes every character in its own set; each that has a
\* code is written once and in order.
THEOREM SubjectAlwaysDecodes == Spec => []SubjectDecodes
<1>1. SubjectInv => SubjectDecodes
    <2> SUFFICES ASSUME SubjectInv, Done PROVE SubjectDecodes
        BY DEF SubjectDecodes
    <2>1. Sound(dst, "ascii", "close") /\ Len(dst) \in Nat /\ Len(jis) \in Nat
        BY LenProperties DEF SubjectInv, Balanced, Sound, dst
    <2>2. ASSUME NEW k \in 1..Len(dst), dst[k].kind = "char"
          PROVE  ReadIn(k) = SetOf(jis[dst[k].at])
        <3>1. PICK r \in Sets, n \in Marks :
                  Reads(dst, k, r) /\ Marked(dst, k, n) /\ Allowed(dst[k], r, n)
            BY <2>1 DEF Sound
        <3>2. (Inside(k) <=> n = "open") /\ (n = "open" <=> r # "ascii")
            <4>1. k \in Nat
                BY <2>1
            <4> QED
                BY <2>2, <3>1, <4>1, MarkedInside DEF Allowed
        <3>3. r = SetOf(jis[dst[k].at])
            BY <2>2, <3>1 DEF Allowed, RightIn
        <3>4. CASE r = "ascii"
            BY <3>2, <3>3, <3>4 DEF ReadIn
        <3>5. CASE r # "ascii"
            <4> DEFINE escapes == {j \in 1..(k - 1) :
                           /\ dst[j].kind = "esc"
                           /\ \A m \in j..(k - 1) : dst[m].kind \notin {"open", "close"}}
            <4>1. PICK j \in 1..(k - 1) :
                      /\ dst[j].kind = "esc" /\ dst[j].set = r
                      /\ \A e \in (j + 1)..(k - 1) : dst[e].kind # "esc"
                      /\ \A m \in j..(k - 1) : dst[m].kind \notin {"open", "close"}
                BY <2>1, <3>1, <3>2, <3>5, SwitchedInWord
            <4>2. j \in escapes /\ \A e \in escapes : e <= j
                BY <4>1
            <4>3. (CHOOSE x \in escapes : \A e \in escapes : e <= x) = j
                <5>1. \A x \in escapes : (\A e \in escapes : e <= x) => x = j
                    BY <4>2
                <5> QED
                    BY <4>2, <5>1
            <4>4. escapes # {}
                BY <4>2
            <4>5. ReadIn(k) = dst[CHOOSE x \in escapes : \A e \in escapes : e <= x].set
                BY <3>2, <3>5, <4>4 DEF ReadIn
            <4> QED
                BY <3>3, <4>1, <4>3, <4>5
        <3> QED
            BY <3>4, <3>5
    <2>3. i - 1 = Len(jis)
        BY <2>1 DEF SubjectInv, Done
    <2> QED
        BY <2>2, <2>3 DEF SubjectDecodes, Complete, SubjectInv, dst
<1> QED
    BY <1>1, SubjectIsSound, PTL

-----------------------------------------------------------------------------

\* line_length is not less than the columns of the line; limit is one of the
\* four values it can get.
Fits(o) ==
    /\ o \in Outs /\ o.limit \in {53, 54, 69, 77} /\ o.line \in Nat
    /\ End(o.dst) <= o.line
    /\ Short(o.dst)

\* Where a word was begun on a line of plain text, a column is counted for it
\* that it does not take.
Spare(o) == o.limit >= 69 => End(o.dst) + 1 <= o.line

\* Inside a word there is that column to spare.
InStep(o) == Fits(o) /\ (o.state # "ascii" => Spare(o))

LEMMA TokenColumns ==
    ASSUME NEW c \in Int
    PROVE  /\ ColumnAfter(jis, c, Fold) = 1 /\ ColumnAfter(jis, c, Space) = 1
           /\ ColumnAfter(jis, c, OpenWord) = c + 16
           /\ ColumnAfter(jis, c, CloseWord) = c + 2
           /\ \A s : ColumnAfter(jis, c, Escape(s)) = c + 5
           /\ \A p : ColumnAfter(jis, c, Char(p)) \in c..(c + Width(jis[p]))
<1>1. \A p : Width(jis[p]) \in 1..2
    BY SetOfRange
<1>2. \A p : Columns(jis, Char(p)) \in 0..Width(jis[p])
    BY <1>1 DEF Columns, Char
<1>3. \A p : ColumnAfter(jis, c, Char(p)) \in c..(c + Width(jis[p]))
    <2>1. \A p : ColumnAfter(jis, c, Char(p)) = c + Columns(jis, Char(p))
        BY DEF ColumnAfter, Char
    <2> QED
        BY <1>1, <1>2, <2>1
<1> QED
    BY <1>3 DEF ColumnAfter, Columns, Fold, Space, OpenWord, CloseWord, Escape

\* A new line.
LEMMA FoldFits ==
    ASSUME NEW o, Fits(o), o.state = "ascii"
    PROVE  /\ InStep(FoldLine(o)) /\ FoldLine(o).line = 1 /\ FoldLine(o).limit = 77
           /\ FoldLine(o).state = "ascii"
<1> DEFINE q == FoldLine(o)
<1>1. o \in Outs /\ o.dst \in Seq(Tokens) /\ Short(o.dst) /\ End(o.dst) \in Int
    BY OutParts, EndIsInt DEF Fits
<1>2. /\ q \in Outs /\ q.dst = Append(o.dst, Fold)
      /\ q.line = 1 /\ q.limit = 77 /\ q.state = "ascii"
    BY <1>1, FoldParts
<1> HIDE DEF q
<1>3. Fold \in Tokens /\ ColumnAfter(jis, End(o.dst), Fold) = 1
    BY <1>1, TokensOf, TokenColumns
<1>4. End(q.dst) = 1 /\ Short(q.dst)
    BY <1>1, <1>2, <1>3, ShortAppend
<1> QED
    BY <1>2, <1>4 DEF Fits, InStep, q

\* The end of a word takes seven columns more.
LEMMA CloseFits ==
    ASSUME NEW o, InStep(o), o.line <= o.limit + 6
    PROVE  /\ InStep(Close(o)) /\ Close(o).state = "ascii"
           /\ Close(o).limit = o.limit
<1>1. CASE o.state = "ascii"
    BY <1>1 DEF Close
<1>2. CASE o.state # "ascii"
    <2> DEFINE q == Close(o)
               e == Escape("ascii")
               back == Append(o.dst, e)
               c == End(o.dst)
    <2>1. o \in Outs /\ o.dst \in Seq(Tokens) /\ Short(o.dst) /\ c \in Int
        BY OutParts, EndIsInt DEF Fits, InStep
    <2>2. /\ q \in Outs /\ q.dst = Append(back, CloseWord)
          /\ q.line = o.line + 7 /\ q.limit = o.limit /\ q.state = "ascii"
        BY <1>2, <2>1, CloseParts
    <2>3. /\ e \in Tokens /\ ColumnAfter(jis, c, e) = c + 5
          /\ CloseWord \in Tokens /\ ColumnAfter(jis, c + 5, CloseWord) = c + 7
        <3>1. c + 5 \in Int /\ c + 5 + 2 = c + 7 /\ "ascii" \in Sets
            BY <2>1 DEF Sets
        <3>2. ColumnAfter(jis, c + 5, CloseWord) = c + 5 + 2
            BY <3>1, TokenColumns
        <3> QED
            BY <2>1, <3>1, <3>2, TokensOf, TokenColumns
    <2>4. c <= o.line /\ c <= 82 /\ o.line \in Nat /\ o.limit \in {53, 54, 69, 77}
        BY <1>2, <2>1 DEF InStep, Fits, Spare
    <2>5. c + 5 <= 89 /\ c + 7 <= 89 /\ c + 7 <= o.line + 7 /\ o.line + 7 \in Nat
        BY <2>1, <2>4
    <2> HIDE DEF q, e, c
    <2>6. back \in Seq(Tokens) /\ End(back) = c + 5 /\ Short(back)
        <3>1. End(back) = c + 5 /\ Short(back)
            BY <2>1, <2>3, <2>5, ShortAppend DEF c
        <3> QED
            BY <2>1, <2>3, <3>1, AppendProperties
    <2> HIDE DEF back
    <2>7. End(q.dst) = c + 7 /\ Short(q.dst)
        BY <2>2, <2>3, <2>5, <2>6, ShortAppend
    <2>8. Fits(q)
        BY <2>2, <2>4, <2>5, <2>7 DEF Fits
    <2> QED
        BY <2>2, <2>8 DEF InStep, q
<1> QED
    BY <1>1, <1>2

LEMMA WrapFits ==
    ASSUME NEW o, InStep(o), o.line <= o.limit + 6
    PROVE  InStep(Wrap(o)) /\ Wrap(o).line < Wrap(o).limit
<1>1. CASE o.line >= o.limit
    <2>1. Fits(Close(o)) /\ Close(o).state = "ascii"
        BY CloseFits DEF InStep
    <2>2. /\ InStep(FoldLine(Close(o))) /\ FoldLine(Close(o)).line = 1
          /\ FoldLine(Close(o)).limit = 77
        BY <2>1, FoldFits
    <2> QED
        BY <1>1, <2>2 DEF Wrap
<1>2. CASE ~(o.line >= o.limit)
    <2>1. o.line \in Int /\ o.limit \in Int
        BY DEF InStep, Fits
    <2> QED
        BY <1>2, <2>1 DEF Wrap
<1> QED
    BY <1>1, <1>2

LEMMA FinishFits ==
    ASSUME NEW o, InStep(o), o.line < o.limit, NEW p
    PROVE  /\ InStep(Finish(o, p))
           /\ p # Len(jis) => Finish(o, p).line < Finish(o, p).limit
<1>1. o.line <= o.limit + 6
    BY DEF InStep, Fits
<1> QED
    BY <1>1, CloseFits DEF Finish

\* A character takes no more columns than are counted for it.
LEMMA PutFits ==
    ASSUME NEW o, InStep(o), o.line <= 82, NEW p \in Nat
    PROVE  /\ InStep(Put(o, p)) /\ Put(o, p).line = o.line + Width(jis[p])
           /\ Put(o, p).limit = o.limit /\ Put(o, p).state = o.state
<1> DEFINE q == Put(o, p)
           t == Char(p)
           c == End(o.dst)
           d == ColumnAfter(jis, c, t)
<1>1. o \in Outs /\ o.dst \in Seq(Tokens) /\ Short(o.dst) /\ c \in Int
    BY OutParts, EndIsInt DEF Fits, InStep
<1>2. /\ q \in Outs /\ q.dst = Append(o.dst, t)
      /\ q.line = o.line + Width(jis[p]) /\ q.limit = o.limit /\ q.state = o.state
    BY <1>1, PutParts
<1>3. t \in Tokens /\ d \in c..(c + Width(jis[p])) /\ Width(jis[p]) \in 1..2
    BY <1>1, TokensOf, TokenColumns, SetOfRange
<1>4. o.line \in Nat /\ o.limit \in {53, 54, 69, 77} /\ c <= o.line
    BY DEF InStep, Fits
<1> HIDE DEF q, t, c, d
<1>5. d <= 89 /\ d <= o.line + Width(jis[p]) /\ o.line + Width(jis[p]) \in Nat
    BY <1>1, <1>3, <1>4
<1>6. End(q.dst) = d /\ Short(q.dst)
    BY <1>1, <1>2, <1>3, <1>5, ShortAppend DEF c, d
<1>7. Fits(q)
    BY <1>2, <1>4, <1>5, <1>6 DEF Fits
<1>8. q.state # "ascii" => Spare(q)
    <2>1. q.state # "ascii" => (o.limit >= 69 => c + 1 <= o.line)
        BY <1>2 DEF InStep, Spare, c
    <2>2. c + 1 <= o.line => d + 1 <= o.line + Width(jis[p])
        BY <1>1, <1>3, <1>4
    <2> QED
        BY <1>2, <1>6, <2>1, <2>2 DEF Spare
<1> QED
    BY <1>2, <1>7, <1>8 DEF InStep, q

\* The space after a line end of the text begins a line, as a fold does.
LEMMA PutAsciiFits ==
    ASSUME NEW o, InStep(o), o.line < o.limit, NEW p \in Nat,
           jis[p] \in {"ascii", "cr", "lf"}
    PROVE  /\ InStep(PutAscii(o, p)) /\ PutAscii(o, p).line <= PutAscii(o, p).limit + 6
<1> DEFINE closed == Close(o)
           a == IF o.state # "ascii" /\ closed.line >= closed.limit
                THEN FoldLine(closed) ELSE closed
           b == Put(a, p)
           l == 1
           h == ISO_2022_MAX_LINE_LENGTH_FOR_HEADER - 1
           d == Append(b.dst, Space)
           q == [b EXCEPT !.dst = d, !.line = l, !.limit = h]
<1>1. PutAscii(o, p) = IF jis[p] = "lf" /\ p > 1 /\ jis[p - 1] = "cr" THEN q ELSE b
    BY DEF PutAscii
<1>2. InStep(closed) /\ closed.state = "ascii" /\ (o.state = "ascii" => closed = o)
    <2>1. o.line <= o.limit + 6
        BY DEF InStep, Fits
    <2>2. InStep(closed) /\ closed.state = "ascii"
        BY <2>1, CloseFits
    <2>3. o.state = "ascii" => closed = o
        BY DEF Close
    <2> QED
        BY <2>2, <2>3
<1>3. /\ InStep(FoldLine(closed)) /\ FoldLine(closed).line = 1
      /\ FoldLine(closed).limit = 77 /\ FoldLine(closed).state = "ascii"
    BY <1>2, FoldFits DEF InStep
<1>4. closed.line \in Int /\ closed.limit \in Int
    BY <1>2 DEF InStep, Fits
<1> HIDE DEF closed
<1>5. InStep(a) /\ a.state = "ascii" /\ a.line < a.limit
    BY <1>2, <1>3, <1>4
<1> HIDE DEF a
<1>6. a.line \in Nat /\ a.limit \in Int /\ a.line <= 82 /\ Width(jis[p]) = 1
    BY <1>5 DEF InStep, Fits, Width, SetOf
<1>7. InStep(b) /\ b.line = a.line + 1 /\ b.limit = a.limit /\ b.state = "ascii"
    BY <1>5, <1>6, PutFits
<1>8. b.line <= b.limit + 6
    BY <1>5, <1>6, <1>7
<1> HIDE DEF b
<1>9. b \in Outs /\ b.dst \in Seq(Tokens) /\ Short(b.dst) /\ End(b.dst) \in Int
    BY <1>7, OutParts, EndIsInt DEF Fits, InStep
<1>10. /\ Space \in Tokens /\ ColumnAfter(jis, End(b.dst), Space) = 1
    BY <1>9, TokensOf, TokenColumns
<1>11. d \in Seq(Tokens) /\ End(d) = 1 /\ Short(d)
    <2>1. End(d) = 1 /\ Short(d)
        BY <1>9, <1>10, ShortAppend
    <2> QED
        BY <1>9, <1>10, <2>1, AppendProperties
<1>12. l = 1 /\ h = 77
    BY DEF ISO_2022_MAX_LINE_LENGTH_FOR_HEADER
<1>13. q = [b EXCEPT !.dst = d, !.line = l, !.limit = h] /\ l \in Int /\ h \in Int
    BY <1>12
<1> HIDE DEF d, l, h, q
<1>14. /\ q \in Outs /\ q.dst = d /\ q.line = l /\ q.limit = h
       /\ q.state = b.state
    BY <1>9, <1>11, <1>13 DEF Outs
<1>15. Fits(q) /\ q.state = "ascii"
    BY <1>7, <1>11, <1>12, <1>14 DEF Fits
<1>16. InStep(q) /\ q.line <= q.limit + 6
    BY <1>12, <1>14, <1>15 DEF InStep
<1> QED
    BY <1>1, <1>7, <1>8, <1>16

\* The beginning of a word leaves room for an escape sequence and a character.
LEMMA OpenFits ==
    ASSUME NEW o, InStep(o), o.line < o.limit, NEW s
    PROVE  /\ Fits(Open(o, s)) /\ Spare(Open(o, s))
           /\ Open(o, s).line < Open(o, s).limit
           /\ Open(o, s).state = o.state
<1> DEFINE q == Open(o, s)
           c == End(o.dst)
<1>1. o \in Outs /\ o.dst \in Seq(Tokens) /\ Short(o.dst) /\ c \in Int
    BY OutParts, EndIsInt DEF Fits, InStep
<1>2. o.line \in Nat /\ o.limit \in {53, 54, 69, 77} /\ c <= o.line
    BY DEF InStep, Fits
<1>3. CASE o.state # "ascii"
    BY <1>3 DEF Open, InStep
<1>4. CASE o.state = "ascii" /\ o.line < o.limit - 23
    <2>1. /\ q \in Outs /\ q.dst = Append(o.dst, OpenWord)
          /\ q.line = o.line + 17 /\ q.limit = o.limit /\ q.state = "ascii"
        BY <1>1, <1>4, OpenParts
    <2>2. OpenWord \in Tokens /\ ColumnAfter(jis, c, OpenWord) = c + 16
        BY <1>1, TokensOf, TokenColumns
    <2> HIDE DEF q, c
    <2>3. c + 16 <= 89 /\ c + 16 + 1 <= o.line + 17 /\ o.line + 17 \in Nat
        BY <1>1, <1>2, <1>4
    <2>4. End(q.dst) = c + 16 /\ Short(q.dst)
        BY <1>1, <2>1, <2>2, <2>3, ShortAppend DEF c
    <2>5. Fits(q) /\ Spare(q)
        <3>1. c + 16 <= o.line + 17
            BY <1>1, <1>2
        <3> QED
            BY <1>2, <2>1, <2>3, <2>4, <3>1 DEF Fits, Spare
    <2>6. o.line + 17 < o.limit
        BY <1>2, <1>4
    <2> QED
        BY <1>4, <2>1, <2>5, <2>6 DEF q
<1>5. CASE o.state = "ascii" /\ ~(o.line < o.limit - 23)
    <2> DEFINE e == Append(o.dst, Fold)
    <2>1. /\ q \in Outs /\ q.dst = Append(e, OpenWord)
          /\ q.line = NewWordLine(s) /\ q.limit = 71 - NewWordLine(s)
          /\ q.state = "ascii"
        BY <1>1, <1>5, OpenNewParts
    <2>2. /\ Fold \in Tokens /\ ColumnAfter(jis, c, Fold) = 1
          /\ OpenWord \in Tokens /\ ColumnAfter(jis, 1, OpenWord) = 17
        BY <1>1, TokensOf, TokenColumns
    <2>3. e \in Seq(Tokens) /\ End(e) = 1 /\ Short(e)
        <3>1. End(e) = 1 /\ Short(e)
            BY <1>1, <2>2, ShortAppend
        <3> QED
            BY <1>1, <2>2, <3>1, AppendProperties
    <2> HIDE DEF q, c, e
    <2>4. End(q.dst) = 17 /\ Short(q.dst)
        BY <2>1, <2>2, <2>3, ShortAppend
    <2>5. NewWordLine(s) \in {17, 18}
        BY DEF NewWordLine
    <2>6. Fits(q) /\ Spare(q) /\ q.line < q.limit
        BY <2>1, <2>4, <2>5 DEF Fits, Spare
    <2> QED
        BY <1>5, <2>1, <2>6 DEF q
<1> QED
    BY <1>3, <1>4, <1>5

LEMMA SwitchFits ==
    ASSUME NEW o, Fits(o), Spare(o), o.line < o.limit, NEW s \in Sets
    PROVE  /\ InStep(Switch(o, s)) /\ Switch(o, s).state = s
           /\ Switch(o, s).line <= Switch(o, s).limit + 4
<1> DEFINE q == Switch(o, s)
           c == End(o.dst)
<1>1. o \in Outs /\ o.dst \in Seq(Tokens) /\ Short(o.dst) /\ c \in Int
    BY OutParts, EndIsInt DEF Fits
<1>2. o.line \in Nat /\ o.limit \in {53, 54, 69, 77} /\ c <= o.line
    BY DEF Fits
<1>3. CASE o.state = s
    <2>1. q = o /\ o.line <= o.limit + 4
        BY <1>2, <1>3 DEF Switch
    <2> QED
        BY <1>3, <2>1 DEF InStep
<1>4. CASE o.state # s
    <2>1. /\ q \in Outs /\ q.dst = Append(o.dst, Escape(s))
          /\ q.line = o.line + 5 /\ q.limit = o.limit /\ q.state = s
        BY <1>1, <1>4, SwitchParts
    <2>2. Escape(s) \in Tokens /\ ColumnAfter(jis, c, Escape(s)) = c + 5
        BY <1>1, TokensOf, TokenColumns
    <2>3. o.limit >= 69 => c + 1 <= o.line
        BY DEF Spare
    <2> HIDE DEF q, c
    <2>4. /\ c + 5 <= 89 /\ c + 5 <= o.line + 5 /\ o.line + 5 \in Nat
          /\ c + 1 <= o.line => c + 5 + 1 <= o.line + 5
          /\ o.line + 5 <= o.limit + 4
        BY <1>1, <1>2
    <2>5. End(q.dst) = c + 5 /\ Short(q.dst)
        BY <1>1, <2>1, <2>2, <2>4, ShortAppend DEF c
    <2>6. Fits(q) /\ Spare(q)
        BY <1>2, <2>1, <2>3, <2>4, <2>5 DEF Fits, Spare
    <2> QED
        BY <2>1, <2>4, <2>6 DEF InStep, q
<1> QED
    BY <1>3, <1>4

LEMMA PutEncodedFits ==
    ASSUME NEW o, InStep(o), o.line < o.limit, NEW p \in Nat
    PROVE  /\ InStep(PutEncoded(o, p))
           /\ PutEncoded(o, p).line <= PutEncoded(o, p).limit + 6
<1> DEFINE s == SetOf(jis[p])
           open == Open(o, s)
           in == Switch(open, s)
<1>1. s \in Sets /\ PutEncoded(o, p) = Put(in, p) /\ Width(jis[p]) \in 1..2
    BY SetOfRange DEF PutEncoded
<1> HIDE DEF s
<1>2. Fits(open) /\ Spare(open) /\ open.line < open.limit
    BY OpenFits
<1> HIDE DEF open
<1>3. InStep(in) /\ in.line <= in.limit + 4
    BY <1>1, <1>2, SwitchFits
<1> HIDE DEF in
<1>4. in.line \in Nat /\ in.limit \in {53, 54, 69, 77} /\ in.line <= 82
    BY <1>3 DEF InStep, Fits
<1>5. /\ InStep(Put(in, p)) /\ Put(in, p).line = in.line + Width(jis[p])
      /\ Put(in, p).limit = in.limit
    BY <1>3, <1>4, PutFits
<1>6. in.line + Width(jis[p]) <= in.limit + 6
    BY <1>1, <1>3, <1>4
<1> QED
    BY <1>1, <1>5, <1>6

-----------------------------------------------------------------------------

\* The inductive invariant for the lengths of the lines: there is room left on
\* the line whenever a code is looked at.
LineInv ==
    /\ SubjectInv
    /\ InStep(out)
    /\ ~Done => out.line < out.limit

LEMMA LineInit == Init => LineInv
<1> SUFFICES ASSUME Init PROVE LineInv
    OBVIOUS
<1>1. SubjectInv
    BY SubjectInit
<1>2. /\ out.dst = <<>> /\ out.line = 9 /\ out.limit = 69 /\ out.state = "ascii"
      /\ out \in Outs /\ <<>> \in Seq(Tokens) /\ Len(<<>>) = 0
    BY <1>1, EmptySeq DEF SubjectInv, Balanced, Init, ISO_2022_MAX_LINE_LENGTH_FOR_HEADER
<1>3. Column(jis, <<>>)[0] = 9
    <2>1. <<>> \in Seq(Tokens)
        BY <1>2
    <2>2. \A d \in Seq(Tokens) : Column(jis, d)[0] = 9
        BY ColumnValues
    <2> QED
        BY <2>1, <2>2
<1>4. End(out.dst) = 9 /\ Short(out.dst)
    BY <1>2, <1>3 DEF End, Short
<1>5. InStep(out)
    BY <1>2, <1>4 DEF InStep, Fits
<1> QED
    BY <1>1, <1>2, <1>5 DEF LineInv

LEMMA LineAfterCode ==
    ASSUME LineInv, SubjectInv', i <= Len(jis), i' = i + 1, UNCHANGED jis,
           NEW o, InStep(o), o.line <= o.limit + 6, out' = Finish(Wrap(o), i)
    PROVE  LineInv'
<1> DEFINE w == Wrap(o)
           f == Finish(w, i)
<1>1. InStep(w) /\ w.line < w.limit
    BY WrapFits
<1> HIDE DEF w
<1>2. InStep(f) /\ (i # Len(jis) => f.line < f.limit)
    BY <1>1, FinishFits
<1>3. out' = f
    BY DEF f, w
<1> HIDE DEF f
<1>4. Len(jis) \in Nat /\ i \in Nat
    BY LenProperties DEF LineInv, SubjectInv
<1>5. ~Done' => i # Len(jis)
    BY <1>4 DEF Done
<1>6. InStep(out)'
    BY <1>2, <1>3 DEF InStep, Fits, Spare, Short, End
<1> QED
    BY <1>2, <1>3, <1>5, <1>6 DEF LineInv

LEMMA LineStep == LineInv /\ [Next]_vars => LineInv'
<1> SUFFICES ASSUME LineInv, [Next]_vars
             PROVE  LineInv'
    OBVIOUS
<1>1. SubjectInv' /\ InStep(out)
    BY SubjectStep DEF LineInv
<1>2. i \in Nat /\ Len(jis) \in Nat
    BY LenProperties DEF LineInv, SubjectInv
<1>3. i <= Len(jis) => out.line < out.limit /\ out.line <= out.limit + 6
    BY <1>2 DEF LineInv, Done, InStep, Fits
<1>4. CASE PassOver
    BY <1>1, <1>3, <1>4, LineAfterCode DEF PassOver
<1>5. CASE EncodeAscii
    <2>1. /\ InStep(PutAscii(out, i))
          /\ PutAscii(out, i).line <= PutAscii(out, i).limit + 6
        BY <1>1, <1>2, <1>3, <1>5, PutAsciiFits DEF EncodeAscii
    <2> QED
        BY <1>1, <1>5, <2>1, LineAfterCode DEF EncodeAscii
<1>6. CASE EncodeOther
    <2>1. /\ InStep(PutEncoded(out, i))
          /\ PutEncoded(out, i).line <= PutEncoded(out, i).limit + 6
        BY <1>1, <1>2, <1>3, <1>6, PutEncodedFits DEF EncodeOther
    <2> QED
        BY <1>1, <1>6, <2>1, LineAfterCode DEF EncodeOther
<1>7. CASE UNCHANGED vars
    <2>1. out' = out /\ jis' = jis /\ i' = i
        BY <1>7 DEF vars
    <2>2. InStep(out)'
        BY <1>1, <2>1 DEF InStep, Fits, Spare, Short, End
    <2> QED
        BY <1>1, <2>1, <2>2 DEF LineInv, Done
<1> QED
    BY <1>4, <1>5, <1>6, <1>7 DEF Next, Returned

\* convert_to_iso_2022_jp_header: no line of a subject of any length and any
\* mixture of sets is longer than 89 columns.
THEOREM LinesAlwaysFit == Spec => []LinesFit
<1>1. LineInv => LinesFit
    <2>1. LineInv => \A k \in 0..Len(dst) : Column(jis, dst)[k] <= 89
        BY DEF LineInv, InStep, Fits, Short, dst
    <2>2. ISO_2022_MAX_LINE_LENGTH_FOR_HEADER + 11 = 89
        BY DEF ISO_2022_MAX_LINE_LENGTH_FOR_HEADER
    <2> QED
        BY <2>1, <2>2 DEF LinesFit
<1> QED
    BY <1>1, LineInit, LineStep, PTL DEF Spec

=============================================================================
