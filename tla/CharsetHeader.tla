--------------------------- MODULE CharsetHeader ---------------------------
(***************************************************************************)
(* The Japanese base64 header encoders: charset_encode_header (charset.c)   *)
(* for Shift_JIS and Windows-31J, convert_to_iso_2022_jp_header_b           *)
(* (iso2022jp.c) for display names in ISO-2022-JP.  The second is the first *)
(* with escape sequences: each encoded word must be readable by itself, so  *)
(* it starts and ends in ASCII.  An encoded word is closed after the        *)
(* character that made it too long, and a character that has no code is     *)
(* passed over.                                                             *)
(***************************************************************************)
EXTENDS Iso2022, HeaderLines

CONSTANTS
    Sources,       \* the texts to encode: sequences of Codes
    AddressLengths \* of the address to append, 0: none

VARIABLES
    chars,   \* the text
    charset, \* encoding
    header,  \* header_name
    address, \* length of the address
    pc,
    i,       \* the next code
    state,   \* the set in use, "ascii" where there is only one
    buffer,  \* tokens for the encoded word being collected
    length,  \* buffer.length(), in bytes
    words,   \* the encoded words written so far
    lines,   \* number of folds written after an encoded word
    limit,   \* max_line_length
    folds    \* the address: characters before which the line is folded

textVars == <<chars, charset, header, address>>

vars == <<textVars, pc, i, state, buffer, length, words, lines, limit, folds>>

-----------------------------------------------------------------------------

ASSUME CharsetConstants ==
    /\ Sources \subseteq Seq(Codes)
    /\ AddressLengths \subseteq Nat

\* The callers of charset_encode_header, and the encoder with escapes.
Charsets == {"shift_jis", "windows-31j", "iso-2022-jp"}

CharsetLength(c) == IF c = "shift_jis" THEN 9 ELSE 11

Escapes == charset = "iso-2022-jp"

\* The Shift_JIS tables have one-byte codes below 0x80, and two-byte codes.
CharsetCodes(c) == IF c = "iso-2022-jp" THEN Codes \ {"cr", "lf"}
                   ELSE {"none", "ascii", "kanji"}

MAX_LINE_LENGTH_FOR_HEADER == 78

\* ISO-2022-JP keeps room for the last escape sequence, on the first line.
FirstLimit(c, h) ==
    MAX_LINE_LENGTH_FOR_HEADER - 5 - CharsetLength(c) - Indent(h)
        - (IF c = "iso-2022-jp" THEN 3 ELSE 0)

Init ==
    /\ chars \in Sources
    /\ charset \in Charsets
    /\ \A p \in 1..Len(chars) : chars[p] \in CharsetCodes(charset)
    /\ header \in HeaderNames
    /\ address \in AddressLengths
    /\ header = "Subject" => address = 0 /\ ~Escapes
    /\ pc = "encode" /\ i = 1 /\ state = "ascii" /\ buffer = <<>> /\ length = 0
    /\ words = <<>> /\ lines = 0 /\ folds = {}
    /\ limit = FirstLimit(charset, header)

\* The last code is left to be handled after the loop.
More_Short == i < Len(chars)

More == i <= Len(chars)

Switch(s) == IF s = state THEN <<>> ELSE <<Escape(s)>>

\* A word left in the set of its last character.
ToAscii_Never(s) == <<>>

\* Back to ASCII, before a word is written.
ToAscii(s) == IF s = "ascii" THEN <<>> ELSE <<Escape("ascii")>>

\* Bytes measured instead of base64 characters.
Full_Bytes(n) == n >= limit

\* Tested once the character is in: complete base64 groups only.
Full(n) == (n \div 3) * 4 >= limit

\* A fold after every word.
IsLast_Never(p) == FALSE

\* i == before_last: no fold after the word that ends the text.
IsLast(p) == p = Len(chars)

\* With the code at i in the buffer b, of n bytes and in set s: a full word is
\* brought back to ASCII, written, and followed by a fold unless this is the
\* last code.
Store(b, n, s) ==
    /\ i' = i + 1
    /\ \/ /\ ~Full(n)
          /\ buffer' = b /\ length' = n /\ state' = s
          /\ UNCHANGED <<words, lines, limit>>
       \/ /\ Full(n)
          /\ words' = Append(words, b \o ToAscii(s))
          /\ buffer' = <<>> /\ length' = 0 /\ state' = "ascii"
          /\ IF IsLast(i) THEN UNCHANGED <<lines, limit>>
             ELSE /\ lines' = lines + 1
                  /\ limit' = MAX_LINE_LENGTH_FOR_HEADER - 5 - CharsetLength(charset)
    /\ UNCHANGED <<textVars, pc, folds>>

PassOver ==
    /\ pc = "encode" /\ More
    /\ chars[i] = "none"
    /\ Store(buffer, length, state)

\* Shift_JIS, Windows-31J: one byte or two.
Encode ==
    /\ pc = "encode" /\ More
    /\ chars[i] # "none" /\ ~Escapes
    /\ Store(Append(buffer, Char(i)), length + Width(chars[i]), state)

\* ISO-2022-JP: switch to the code's set first.
EncodeInSet ==
    /\ pc = "encode" /\ More
    /\ chars[i] # "none" /\ Escapes
    /\ LET s == SetOf(chars[i])
       IN  Store(Append(buffer \o Switch(s), Char(i)),
                 length + 3 * Len(Switch(s)) + Width(chars[i]), s)

\* The last word, then the address.
AfterText ==
    /\ pc = "encode" /\ ~More
    /\ words' = IF buffer = <<>> THEN words
                ELSE Append(words, buffer \o ToAscii(state))
    /\ state' = IF buffer = <<>> THEN state ELSE "ascii"
    /\ buffer' = <<>> /\ length' = 0
    /\ folds' = AddressFolds(address, chars # <<>>, limit)
    /\ pc' = "done"
    /\ UNCHANGED <<textVars, i, lines, limit>>

Returned == pc = "done" /\ UNCHANGED vars

Next == PassOver \/ Encode \/ EncodeInSet \/ AfterText \/ Returned

Spec == Init /\ [][Next]_vars

-----------------------------------------------------------------------------

TypeOK ==
    /\ chars \in Seq(Codes)
    /\ charset \in Charsets
    /\ header \in HeaderNames
    /\ address \in Nat
    /\ pc \in {"encode", "done"}
    /\ i \in 1..(Len(chars) + 1)
    /\ state \in Sets
    /\ buffer \in Seq(Tokens)
    /\ length \in 0..47
    /\ words \in Seq(Seq(Tokens))
    /\ lines \in 0..Len(words)
    /\ limit \in Int
    /\ folds \subseteq Nat

\* README: "ISO-2022-JP returns the state to ASCII before the fold [...] so
\* that long headers are not garbled": an encoded word is decoded by itself,
\* from ASCII, and must leave the decoder in ASCII.
WordsStandAlone ==
    Escapes =>
        \A k \in 1..Len(words) :
            /\ ReadsBack(chars, words[k])
            /\ InForce(words[k], Len(words[k]) + 1) = "ascii"

\* The words ws hold the characters up to position n that have a code, each
\* once, in their order within a word and from word to word.
Spread(ws, n) ==
    /\ UNION {PositionsIn(ws[k]) : k \in 1..Len(ws)} = {p \in 1..n : chars[p] # "none"}
    /\ \A k \in 1..Len(ws) : Increasing(ws[k])
    /\ \A j, k \in 1..Len(ws) :
           j < k => \A p \in PositionsIn(ws[j]), q \in PositionsIn(ws[k]) : p < q

\* README: characters without a code are dropped and the conversion does not
\* stop: read one after the other, the words give the rest of the text, every
\* character once and in its order.
EveryCharacterKept == pc = "done" => Spread(words, Len(chars))

\* Every word but the last is followed by a fold.  One follows the last too,
\* and the header ends in an empty line, only where the text ends in a
\* character that has no code.
FoldsFollowWords ==
    pc = "done" =>
        /\ lines \in (Len(words) - 1)..Len(words)
        /\ chars # <<>> /\ chars[Len(chars)] # "none" => lines = Len(words) - 1

=============================================================================
