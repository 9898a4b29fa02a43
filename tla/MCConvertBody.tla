--------------------------- MODULE MCConvertBody ---------------------------
(***************************************************************************)
(* Instances of ConvertBody for TLC.                                        *)
(***************************************************************************)
EXTENDS ConvertBody

Run(c, n) == [k \in 1..n |-> c]

\* The characters that differ for ISO-2022-JP.
JisCharacters == {"a", "cr", "lf", "yen", "halfKana", "kanji", "surrogate"}

Endings(n) == [1..n -> JisCharacters]

\* Any three characters where a line of ASCII or of kanji becomes too long; a
\* second line after that.
LongTexts ==
    {Run("a", m) \o e : m \in 70..76, e \in Endings(3)}
        \cup {Run("kanji", m) \o e : m \in 35..37, e \in Endings(3)}
        \cup {Run("halfKana", 72) \o e \o Run("kanji", 37) : e \in Endings(3)}

\* Short texts under every name; in ISO-2022-JP the long ones too.
MCMessages ==
    [body : UNION {[1..n -> Characters] : n \in 0..3}, charset : Names]
        \cup [body : Endings(4) \cup LongTexts, charset : {"iso-2022-jp"}]

=============================================================================
