------------------------------ MODULE Iso2022 ------------------------------
(***************************************************************************)
(* What the three ISO-2022-JP encoders of JIS/iso2022jp.c share: the codes  *)
(* they tell apart, the character sets they switch between, and the tokens  *)
(* their output is made of.                                                 *)
(***************************************************************************)
EXTENDS Integers, Sequences

\* A code of ISO_2022_JISX_0208 by what the switch tells apart.  Carriage
\* return and line feed are ASCII; "kanjiQ" is a two-byte code one byte of
\* which is that of '=', '?' or '_'.
Codes == {"none", "ascii", "cr", "lf", "roman", "kana", "kanji", "kanjiQ"}

\* ISO_2022_STATE
Sets == {"ascii", "roman", "kana", "jis"}

SetOf(code) ==
    IF code \in {"ascii", "cr", "lf"} THEN "ascii" ELSE
    IF code = "roman"                 THEN "roman" ELSE
    IF code = "kana"                  THEN "kana"  ELSE "jis"

\* Bytes a code takes.
Width(code) == IF SetOf(code) = "jis" THEN 2 ELSE 1

-----------------------------------------------------------------------------

\* The output: characters of the text, escape sequences that switch to a set,
\* folds (soft line breaks), the ends of encoded words.
Kinds  == {"char", "esc", "fold", "open", "close", "space"}
Tokens == [kind : Kinds, set : Sets, at : Nat]

Char(p)    == [kind |-> "char",  set |-> "ascii", at |-> p]
Escape(s)  == [kind |-> "esc",   set |-> s,       at |-> 0]
Fold       == [kind |-> "fold",  set |-> "ascii", at |-> 0]
OpenWord   == [kind |-> "open",  set |-> "ascii", at |-> 0]
CloseWord  == [kind |-> "close", set |-> "ascii", at |-> 0]
Space      == [kind |-> "space", set |-> "ascii", at |-> 0]

\* A reader of the output: the set in force at token k is that of the last
\* escape sequence before it, ASCII if there is none.
InForce(out, k) ==
    LET escapes == {j \in 1..(k - 1) : out[j].kind = "esc"}
    IN  IF escapes = {} THEN "ascii"
        ELSE out[CHOOSE j \in escapes : \A e \in escapes : e <= j].set

\* Every character is read in the set its code belongs to.
ReadsBack(text, out) ==
    \A k \in 1..Len(out) :
        out[k].kind = "char" => InForce(out, k) = SetOf(text[out[k].at])

\* The positions of the characters in out.
PositionsIn(out) == {out[k].at : k \in {j \in 1..Len(out) : out[j].kind = "char"}}

Increasing(out) ==
    \A j, k \in 1..Len(out) :
        j < k /\ out[j].kind = "char" /\ out[k].kind = "char" => out[j].at < out[k].at

\* The characters read are those of the text after position m, up to n, that
\* have a code, each once and in their order.
Copied(text, out, m, n) ==
    /\ PositionsIn(out) = {p \in (m + 1)..n : text[p] # "none"}
    /\ Increasing(out)

Complete(text, out) == Copied(text, out, 0, Len(text))

=============================================================================
