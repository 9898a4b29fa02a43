-------------------------- MODULE MCCharsetHeader --------------------------
(***************************************************************************)
(* Instances of CharsetHeader for TLC.                                      *)
(***************************************************************************)
EXTENDS CharsetHeader

Run(code, n) == [k \in 1..n |-> code]

\* The codes that differ for these encoders.
SomeCodes == {"none", "ascii", "roman", "kana", "kanji"}

Endings(n) == [1..n -> SomeCodes]

\* A word takes some 33 to 49 bytes.  Characters of one kind up to just before
\* its end, any three codes there; then the end of a second word.
MCSources ==
    (UNION {Endings(n) : n \in 0..3})
        \cup {Run("ascii", m) \o e : m \in 32..46, e \in Endings(3)}
        \cup {Run("kanji", m) \o e : m \in 15..23, e \in Endings(3)}
        \cup {Run("ascii", 40) \o e \o Run("kanji", n) \o f :
                 n \in 20..25, e \in Endings(1), f \in Endings(2)}

\* With an address, unless it is the Subject.
MCAddressLengths == {0, 12}

=============================================================================
