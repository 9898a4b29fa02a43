----------------------------- MODULE Utf8Header -----------------------------
(***************************************************************************)
(* convert_to_utf8_header (JIS/utf8.c): a text becomes base64 encoded words *)
(* on folded lines, and the address is appended.  One step per character.   *)
(*                                                                         *)
(* A byte is its class; a byte that has been copied is its position in src, *)
(* so an encoded word is the sequence of the positions it holds.            *)
(***************************************************************************)
EXTENDS HeaderLines

CONSTANTS
    Sources,       \* the texts to encode: sequences of Bytes
    AddressLengths \* of the address to append, 0: none

VARIABLES
    src,     \* the text
    header,  \* header_name
    address, \* length of the address
    pc,
    i,       \* the next byte to look at
    buf,     \* bytes for the encoded word being collected
    words,   \* the encoded words written so far, one per line
    limit,   \* max_line_length
    folds    \* the address: characters before which the line is folded

vars == <<src, header, address, pc, i, buf, words, limit, folds>>

-----------------------------------------------------------------------------

\* A byte by what the masks tell apart: a lead byte of a sequence of 1 to 4
\* bytes, a continuation byte, or neither.
Bytes == {"one", "two", "three", "four", "more", "bad"}

ASSUME Utf8Constants ==
    /\ Sources \subseteq Seq(Bytes)
    /\ AddressLengths \subseteq Nat

UTF8_MAX_LINE_LENGTH == 74
CharsetLength == 5    \* "utf-8"

SeqLen(byte) == IF byte = "one"   THEN 1 ELSE
                IF byte = "two"   THEN 2 ELSE
                IF byte = "three" THEN 3 ELSE 4

IsLead(p)   == src[p] \notin {"more", "bad"}
IsCut(p)    == IsLead(p) /\ p + SeqLen(src[p]) - 1 > Len(src)
IsWhole(p)  == /\ IsLead(p) /\ ~IsCut(p)
               /\ \A q \in (p + 1)..(p + SeqLen(src[p]) - 1) : src[q] = "more"

\* The name of the header forgotten.
FirstLimit_NoName(h) == 75 - EncodedWord(CharsetLength, 0)

\* max_line_length on the line that begins with the header's name.
FirstLimit(h) == UTF8_MAX_LINE_LENGTH - 5 - CharsetLength - Indent(h)

Init ==
    /\ src \in Sources
    /\ header \in HeaderNames
    /\ address \in AddressLengths
    /\ header = "Subject" => address = 0
    /\ pc = "scan" /\ i = 1 /\ buf = <<>> /\ words = <<>>
    /\ limit = FirstLimit(header)
    /\ folds = {}

\* One byte at a time.
CharacterAt_First(p) == <<p>>

\* The bytes of the character at p.
CharacterAt(p) == [k \in 1..SeqLen(src[p]) |-> p + k - 1]

\* Measured before the character is added.
TooLong_Before(n) == buf # <<>> /\ Base64(Len(buf)) > limit

\* Would n more bytes make the encoded word too long?
TooLong(n) == buf # <<>> /\ Base64(Len(buf) + n) > limit

\* A stray continuation byte, an invalid lead byte, or a sequence that is
\* broken off: dropped, and the next byte is looked at.
Stray ==
    /\ pc = "scan" /\ i <= Len(src)
    /\ ~IsCut(i) /\ ~IsWhole(i)
    /\ i' = i + 1
    /\ UNCHANGED <<src, header, address, pc, buf, words, limit, folds>>

Collect ==
    /\ pc = "scan" /\ i <= Len(src)
    /\ IsWhole(i) /\ ~TooLong(SeqLen(src[i]))
    /\ buf' = buf \o CharacterAt(i)
    /\ i' = i + SeqLen(src[i])
    /\ UNCHANGED <<src, header, address, pc, words, limit, folds>>

\* As in release 1.0: the character that does not fit is lost.
AfterFlush_Lost(p) == <<>>

\* buf_pos not set back.
AfterFlush_Kept(p) == buf \o CharacterAt(p)

\* What the buffer holds after a flush: the character that did not fit.
AfterFlush(p) == CharacterAt(p)

\* Write the encoded word and fold; from here on a line starts with a space.
Flush ==
    /\ pc = "scan" /\ i <= Len(src)
    /\ IsWhole(i) /\ TooLong(SeqLen(src[i]))
    /\ words' = Append(words, buf)
    /\ buf' = AfterFlush(i)
    /\ i' = i + SeqLen(src[i])
    /\ limit' = 75 - EncodedWord(CharsetLength, 0) - 1
    /\ UNCHANGED <<src, header, address, pc, folds>>

\* At the end, or at a sequence the end cuts off: the last word, the address.
AfterText ==
    /\ pc = "scan"
    /\ i <= Len(src) => IsCut(i)
    /\ words' = IF buf = <<>> THEN words ELSE Append(words, buf)
    /\ buf' = <<>>
    /\ folds' = AddressFolds(address, src # <<>>, limit)
    /\ pc' = "done"
    /\ UNCHANGED <<src, header, address, i, limit>>

Returned == pc = "done" /\ UNCHANGED vars

Next == Stray \/ Collect \/ Flush \/ AfterText \/ Returned

Spec == Init /\ [][Next]_vars

-----------------------------------------------------------------------------

Positions(w) == {w[k] : k \in 1..Len(w)}

TypeOK ==
    /\ src \in Seq(Bytes)
    /\ header \in HeaderNames
    /\ address \in Nat
    /\ pc \in {"scan", "done"}
    /\ i \in 1..(Len(src) + 1)
    /\ buf \in Seq(1..Len(src)) /\ Len(buf) <= 45
    /\ words \in Seq(Seq(1..Len(src)))
    /\ limit \in Int
    /\ folds \subseteq Nat

\* README: "keeps each encoded word within 75 characters (RFC 2047)".  The
\* length is tested before a character of up to 4 bytes is added, and the
\* limit changes with the first fold.
EncodedWordsFit ==
    \A k \in 1..Len(words) :
        EncodedWord(CharsetLength, Len(words[k])) <= EncodedWordLimit

\* Columns of the line of word k up to the end of the word, counting the
\* header's name on the first line and the space on the others.
WordLine(k) == (IF k = 1 THEN Indent(header) ELSE 1)
                   + EncodedWord(CharsetLength, Len(words[k]))

WordLinesFit == \A k \in 1..Len(words) : WordLine(k) <= 76

\* The address begins on the line of the last word: how far its characters
\* before the first fold take that line.
AddressLineFits ==
    pc = "done" /\ words # <<>> /\ address > 0 =>
        \A j \in 1..AddressText(address, src # <<>>) :
            (\A f \in folds : j < f) => WordLine(Len(words)) + j <= 105

\* RFC 2047, 2: a header line with an encoded word has at most 76 characters.
\* The encoder keeps to it up to the end of the word; the line the address
\* begins on can be 29 longer, since the columns are not counted on.
HeaderLinesFit == WordLinesFit /\ AddressLineFits

\* The bytes of every character in w stand together and are all there.
HoldsWhole(w) ==
    \A k \in 1..Len(w) :
        /\ IsLead(w[k]) =>
            \A d \in 1..(SeqLen(src[w[k]]) - 1) :
                k + d <= Len(w) /\ w[k + d] = w[k] + d /\ src[w[k] + d] = "more"
        /\ src[w[k]] = "more" => k > 1 /\ w[k - 1] = w[k] - 1

\* README: "never splits one between two encoded words".  It holds for every
\* text, also for one that is not UTF-8: what is not a whole character is left
\* out, never passed on in part.
CharactersWhole == \A k \in 1..Len(words) : HoldsWhole(words[k])

\* README: "keeps every character": every whole character of the text ends up
\* in an encoded word, unless a sequence before it runs over the end.
EveryCharacterKept ==
    pc = "done" =>
        \A p \in 1..Len(src) :
            IsWhole(p) /\ (\A q \in 1..p : ~IsCut(q)) =>
                \E k \in 1..Len(words) : p \in Positions(words[k])

Ascending(w) == \A k \in 1..(Len(w) - 1) : w[k] < w[k + 1]

\* The words read one after the other give the text in its order, nothing
\* twice.
InOrder ==
    /\ \A k \in 1..Len(words) : words[k] # <<>> /\ Ascending(words[k])
    /\ \A k \in 1..(Len(words) - 1) :
           words[k][Len(words[k])] < words[k + 1][1]

\* README: the folding is there so that long headers are not garbled, and
\* long addresses are supported.  A fold inside the address is not one.
AddressIsWhole == folds \cap InsideAddress(address, src # <<>>) = {}

\* Which addresses that is true of: alone, those shorter than the line.  After a
\* display name the count of columns starts at 3 + the length of the address, so
\* it must reach the limit neither inside the address, which then may be half a
\* line long; or reach it before the address and not again.
AddressCutExactly ==
    pc = "done" =>
        (AddressIsWhole <=>
            IF src = <<>> THEN address < limit
            ELSE 2 * address + 5 < limit \/ address \in (limit - 6)..(limit - 3))

=============================================================================
