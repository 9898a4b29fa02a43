--------------------------- MODULE Iso2022Subject ---------------------------
(***************************************************************************)
(* convert_to_iso_2022_jp_header (JIS/iso2022jp.c): the Subject, as ASCII   *)
(* and Q encoded words of ISO-2022-JP.  One step per code.  Its only caller *)
(* passes the header name "Subject" and no address.                         *)
(***************************************************************************)
EXTENDS Iso2022

CONSTANT Sources   \* the subjects to encode: sequences of Codes

VARIABLES
    jis,  \* the text
    i,    \* the next code
    out   \* the output, the line's length and its limit, the set in use

vars == <<jis, i, out>>

-----------------------------------------------------------------------------

ASSUME SubjectConstants == Sources \subseteq Seq(Codes)

ISO_2022_MAX_LINE_LENGTH_FOR_HEADER == 78

Init ==
    /\ jis \in Sources
    /\ i = 1
    /\ out = [dst |-> <<>>, line |-> 9,
              limit |-> ISO_2022_MAX_LINE_LENGTH_FOR_HEADER - 9, state |-> "ascii"]

\* "\r\n ": a new line of the header.
FoldLine(o) ==
    [o EXCEPT !.dst = Append(@, Fold), !.line = 1,
              !.limit = ISO_2022_MAX_LINE_LENGTH_FOR_HEADER - 1]

\* line_length of a new line with the beginning of an encoded word: the first
\* branch counts one less than the others.
NewWordLine(s) == IF s = "roman" THEN 17 ELSE 18

\* Begin an encoded word for a character of set s, on a new line if there is
\* no room for it.
Open(o, s) ==
    IF o.state # "ascii" THEN o ELSE
    IF o.line < o.limit - 23
    THEN [o EXCEPT !.dst = Append(@, OpenWord), !.line = @ + 17]
    ELSE [o EXCEPT !.dst = @ \o <<Fold, OpenWord>>, !.line = NewWordLine(s),
                   !.limit = ISO_2022_MAX_LINE_LENGTH_FOR_HEADER - NewWordLine(s) - 7]

\* Only at the start of a word.
Switch_WhenAscii(o, s) ==
    IF o.state # "ascii" THEN o
    ELSE [o EXCEPT !.dst = Append(@, Escape(s)), !.line = @ + 5, !.state = s]

\* The escape sequence to set s, Q encoded: five characters.
Switch(o, s) ==
    IF o.state = s THEN o
    ELSE [o EXCEPT !.dst = Append(@, Escape(s)), !.line = @ + 5, !.state = s]

\* Back to ASCII, and the end of the encoded word.
Close(o) ==
    IF o.state = "ascii" THEN o
    ELSE [o EXCEPT !.dst = @ \o <<Escape("ascii"), CloseWord>>, !.line = @ + 7,
                   !.state = "ascii"]

Put(o, p) ==
    [o EXCEPT !.dst = Append(@, Char(p)), !.line = @ + Width(jis[p])]

\* ASCII is written as it is, after the encoded word if there was one.  A line
\* end of the text is followed by a space, which makes it a fold.
PutAscii(o, p) ==
    LET closed == Close(o)
        a == IF o.state # "ascii" /\ closed.line >= closed.limit
             THEN FoldLine(closed) ELSE closed
        b == Put(a, p)
    IN  IF jis[p] = "lf" /\ p > 1 /\ jis[p - 1] = "cr"
        THEN [b EXCEPT !.dst = Append(@, Space), !.line = 1,
                       !.limit = ISO_2022_MAX_LINE_LENGTH_FOR_HEADER - 1]
        ELSE b

\* The other sets are written inside an encoded word, raw.
PutEncoded(o, p) == Put(Switch(Open(o, SetOf(jis[p])), SetOf(jis[p])), p)

\* A line that is exactly full.
Wrap_Equal(o) == IF o.line = o.limit THEN FoldLine(Close(o)) ELSE o

\* The word goes on after the fold.
Wrap_InWord(o) == IF o.line >= o.limit THEN FoldLine(o) ELSE o

\* Fold a line that is full, outside the encoded word.
Wrap(o) == IF o.line >= o.limit THEN FoldLine(Close(o)) ELSE o

\* i == before_last: the text ends outside an encoded word.
Finish(o, p) == IF p = Len(jis) THEN Close(o) ELSE o

PassOver ==
    /\ i <= Len(jis) /\ jis[i] = "none"
    /\ out' = Finish(Wrap(out), i)
    /\ i' = i + 1
    /\ UNCHANGED jis

EncodeAscii ==
    /\ i <= Len(jis) /\ jis[i] \in {"ascii", "cr", "lf"}
    /\ out' = Finish(Wrap(PutAscii(out, i)), i)
    /\ i' = i + 1
    /\ UNCHANGED jis

EncodeOther ==
    /\ i <= Len(jis) /\ jis[i] \in {"roman", "kana", "kanji", "kanjiQ"}
    /\ out' = Finish(Wrap(PutEncoded(out, i)), i)
    /\ i' = i + 1
    /\ UNCHANGED jis

Returned == i > Len(jis) /\ UNCHANGED vars

Next == PassOver \/ EncodeAscii \/ EncodeOther \/ Returned

Spec == Init /\ [][Next]_vars

-----------------------------------------------------------------------------

dst  == out.dst
Done == i > Len(jis)

\* Columns token t takes; a line end of the text takes none.
Columns(text, t) ==
    CASE t.kind = "char"  -> IF text[t.at] \in {"cr", "lf"} THEN 0 ELSE Width(text[t.at])
      [] t.kind = "esc"   -> 5
      [] t.kind = "open"  -> 16
      [] t.kind = "close" -> 2
      [] OTHER            -> 1

\* The column token t ends at, if the one before it ended at column c; a fold
\* and the space after a line end of the text begin a new line.
ColumnAfter(text, c, t) ==
    IF t.kind \in {"fold", "space"} THEN 1 ELSE c + Columns(text, t)

\* The column each token of d ends at; "Subject: " comes before the first.
Column(text, d) ==
    LET column[k \in 0..Len(d)] ==
            IF k = 0 THEN 9 ELSE ColumnAfter(text, column[k - 1], d[k])
    IN  column

\* The columns of the output, whatever line_length made of them: no line is
\* more than eleven columns over the limit.  A line is folded once it is full,
\* after a character with its escape sequence; on a line that began outside a
\* word nothing is kept free for the end of the word.
LinesFit ==
    Done => LET column == Column(jis, dst)
            IN  \A k \in 0..Len(dst) :
                    column[k] <= ISO_2022_MAX_LINE_LENGTH_FOR_HEADER + 11

\* Is token k between the beginning and the end of an encoded word?
Inside(k) ==
    LET marks == {j \in 1..(k - 1) : dst[j].kind \in {"open", "close"}}
    IN  /\ marks # {}
        /\ dst[CHOOSE j \in marks : \A m \in marks : m <= j].kind = "open"

\* The set in force for a reader who decodes each encoded word by itself: it
\* begins in ASCII, and what is outside a word is ASCII.
ReadIn(k) ==
    LET escapes == {j \in 1..(k - 1) :
                        /\ dst[j].kind = "esc"
                        /\ \A m \in j..(k - 1) : dst[m].kind \notin {"open", "close"}}
    IN  IF ~Inside(k) \/ escapes = {} THEN "ascii"
        ELSE dst[CHOOSE j \in escapes : \A e \in escapes : e <= j].set

\* Every character that has a code is written once, in its place, and that
\* reader takes it in its own set.  It says nothing of white space (a reader
\* drops that between two words, and sees that of a fold beside plain text),
\* nor of the bytes Q encoding gives a meaning of their own (QEncoded).
SubjectDecodes ==
    Done =>
        /\ \A k \in 1..Len(dst) :
               dst[k].kind = "char" => ReadIn(k) = SetOf(jis[dst[k].at])
        /\ Complete(jis, dst)

\* README: "ISO-2022-JP returns the state to ASCII before the fold": a word is
\* closed before a line is folded and before ASCII text, it is in ASCII then,
\* and what is not ASCII is inside one.
WordsAreClosed ==
    Done =>
        /\ \A k \in 1..Len(dst) :
             /\ dst[k].kind \in {"fold", "open", "space"} => ~Inside(k)
             /\ dst[k].kind = "close" => Inside(k) /\ InForce(dst, k) = "ascii"
             /\ dst[k].kind = "char" =>
                    (Inside(k) <=> SetOf(jis[dst[k].at]) # "ascii")
        /\ ~Inside(Len(dst) + 1)

\* The word is announced as Q encoded: '=', '?' and '_' stand for themselves
\* nowhere in it.
QEncoded ==
    \A k \in 1..Len(dst) :
        dst[k].kind = "char" => jis[dst[k].at] # "kanjiQ"

=============================================================================
