---------------------------- MODULE MCUtf8Header ----------------------------
(***************************************************************************)
(* Instances of Utf8Header for TLC.                                         *)
(***************************************************************************)
EXTENDS Utf8Header

\* n characters of the same length.
Run(byte, n) == [k \in 1..(n * SeqLen(byte)) |->
                    IF (k - 1) % SeqLen(byte) = 0 THEN byte ELSE "more"]

Leads == {"one", "two", "three", "four"}

\* Long enough for up to four encoded words (45 bytes fill one): characters of
\* one length at every alignment, then characters of another.
LongSources == UNION {{Run(a, m) \o Run(b, n) : m \in 34..48, n \in 0..6} :
                          a \in {"one", "three"}, b \in Leads}

\* Every sequence of up to three bytes, also those that are not UTF-8, where
\* the first word is nearly full.
ShortBytes   == UNION {[1..n -> Bytes] : n \in 0..3}
MixedSources == {Run("one", 37) \o s : s \in ShortBytes}
                    \cup {Run("two", 19) \o s : s \in ShortBytes} \cup ShortBytes

MCSources == LongSources \cup MixedSources
\* A display name of one character.
FewSources == {Run("one", 1)}

\* Without an address, the one that makes the longest line, and one that is cut in
\* the lines of some headers.
SomeAddresses == {0, 26, 56}
MCAddressLengths == 1..60

=============================================================================
