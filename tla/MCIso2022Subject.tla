-------------------------- MODULE MCIso2022Subject --------------------------
(***************************************************************************)
(* Instances of Iso2022Subject for TLC.                                     *)
(***************************************************************************)
EXTENDS Iso2022Subject

Run(code, n) == [k \in 1..n |-> code]

\* The codes that differ for the structure of the output.
SomeCodes == {"none", "ascii", "cr", "lf", "roman", "kana", "kanji"}

Endings(n) == [1..n -> SomeCodes]

\* Roman and kanji in turn: each brings its escape sequence.
Mixed(n) == [k \in 1..n |-> IF k % 2 = 1 THEN "roman" ELSE "kanji"]

\* The first line takes some 60 columns of ASCII or 19 kanji, a later one 76
\* or 15 to 20.  Any short text; any codes where a line or a word becomes too
\* long; the next line.  A later line that is as long as one can be: it is
\* filled with escape sequences, in a word that did not begin it.
MCSources ==
    (UNION {Endings(n) : n \in 0..4})
        \cup {Run("ascii", m) \o e : m \in 34..60, e \in Endings(3)}
        \cup {Run("kanji", m) \o e : m \in 14..20, e \in Endings(3)}
        \cup {Run("ascii", m) \o Run("kanji", n) \o e :
                  m \in {36, 50, 59}, n \in 1..20, e \in Endings(2)}
        \cup {<<"cr", "lf">> \o Mixed(n) \o e : n \in 8..11, e \in Endings(2)}

\* One character that takes a byte with a meaning of its own.
QSources == {<<"kanji", "kanjiQ">>}

=============================================================================
