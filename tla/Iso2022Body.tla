---------------------------- MODULE Iso2022Body ----------------------------
(***************************************************************************)
(* convert_to_iso_2022_jp (JIS/iso2022jp.c): the body of a message.  One    *)
(* step per code: switch to its set if it is not the current one, write it, *)
(* and break the line softly when it has become long.  ConvertBody says     *)
(* when it is called.                                                       *)
(***************************************************************************)
EXTENDS Iso2022

VARIABLES
    jis,   \* the codes of the text
    i,     \* the next code
    state, \* the set in use
    line,  \* line_length
    dst    \* the output

bodyVars == <<jis, i, state, line, dst>>

-----------------------------------------------------------------------------

ISO_2022_MAX_LINE_LENGTH == 76

\* Before the first code.
Begin ==
    /\ jis = <<>>
    /\ i = 1 /\ state = "ascii" /\ line = 0 /\ dst = <<>>

\* The escape sequence that switches to set s, three bytes.
Switch(s) == IF s = state THEN <<>> ELSE <<Escape(s)>>

IsLast(p) == p = Len(jis)

\* A line feed comes next after this carriage return: the line ends here, the count starts again.
EndsLine(p) == jis[p] = "cr" /\ ~IsLast(p) /\ jis[p + 1] = "lf"

\* The line ends of the text not looked at.
LineAfter_CountOn(p) == line + 3 * Len(Switch(SetOf(jis[p]))) + Width(jis[p])

\* line_length once code p is written.
LineAfter(p) == IF EndsLine(p) THEN 0
                ELSE line + 3 * Len(Switch(SetOf(jis[p]))) + Width(jis[p])

\* A break in whatever set is in use.
ToAscii_Never(s) == <<>>

\* Back to ASCII from set s.
ToAscii(s) == IF s = "ascii" THEN <<>> ELSE <<Escape("ascii")>>

\* The soft break " \r\n" once a line is too long.
Break(s, length) ==
    IF length > ISO_2022_MAX_LINE_LENGTH THEN ToAscii(s) \o <<Fold>> ELSE <<>>

StateAfterBreak(s, length) ==
    IF length > ISO_2022_MAX_LINE_LENGTH THEN "ascii" ELSE s

\* line_length not set back.
LineAfterBreak_Kept(length) == length

LineAfterBreak(length) == IF length > ISO_2022_MAX_LINE_LENGTH THEN 0 ELSE length

\* The text ends in ASCII, on a line of its own if it did not.
Finish(s) == IF s = "ascii" THEN <<>> ELSE <<Escape("ascii"), Fold>>

\* What follows code p, in set s on a line of this length.
After(p, s, length) ==
    LET t == StateAfterBreak(s, length)
    IN  /\ dst' = dst \o (IF jis[p] = "none" THEN <<>>
                          ELSE Append(Switch(SetOf(jis[p])), Char(p)))
                      \o Break(s, length)
                      \o (IF IsLast(p) THEN Finish(t) ELSE <<>>)
        /\ state' = (IF IsLast(p) THEN "ascii" ELSE t)
        /\ line' = LineAfterBreak(length)

\* Not in the table: nothing is written, but the text may end here.
PassOver ==
    /\ i <= Len(jis) /\ jis[i] = "none"
    /\ After(i, state, line)
    /\ i' = i + 1
    /\ UNCHANGED jis

Encode ==
    /\ i <= Len(jis) /\ jis[i] # "none"
    /\ After(i, SetOf(jis[i]), LineAfter(i))
    /\ i' = i + 1
    /\ UNCHANGED jis

IsoStep == PassOver \/ Encode

=============================================================================
