---------------------------- MODULE HeaderLines ----------------------------
(***************************************************************************)
(* What the header encoders of JIS/ share: the names of the headers they    *)
(* write, the length of base64, and how the address is appended after the   *)
(* encoded display name.                                                    *)
(***************************************************************************)
EXTENDS Integers, Sequences

\* The headers that are encoded, as 4DPlugin.cpp names them.
HeaderNames == {"Subject", "From", "To", "Cc", "Bcc", "Reply-To"}

NameLength(h) ==
    IF h = "Subject"  THEN 7 ELSE
    IF h = "Reply-To" THEN 8 ELSE
    IF h = "From"     THEN 4 ELSE
    IF h = "Bcc"      THEN 3 ELSE 2

\* pos before anything is written: the name and ": ".
Indent(h) == NameLength(h) + 2

\* Base64 characters for n bytes, padding included.
Base64(n) == ((n + 2) \div 3) * 4

\* An encoded word around n bytes: =? charset ?B? text ?=
EncodedWord(charsetLength, n) == charsetLength + 5 + Base64(n) + 2

\* RFC 2047, 2: the limit the comment in utf8.c names.
EncodedWordLimit == 75

-----------------------------------------------------------------------------

\* The text after the display name: " <address>", or the address alone.
AddressText(length, named) == IF named THEN length + 3 ELSE length

\* Without the length of the address.
AddressStart_Short(length, named) == IF named THEN 3 ELSE 0

\* The two starting values of pos: not the column the display name ends at.
AddressStart(length, named) == IF named THEN 3 + length ELSE 0

\* pos after each of n characters: a fold sets it back.
AddressColumns(n, start, limit) ==
    LET column[j \in 0..n] ==
            IF j = 0 THEN start
            ELSE LET next == column[j - 1] + 1
                 IN  IF next >= limit THEN 1 ELSE next
    IN  column

\* The characters of that text before which the line is folded.
AddressFolds(length, named, limit) ==
    LET n == AddressText(length, named)
        column == AddressColumns(n, AddressStart(length, named), limit)
    IN  IF length = 0 THEN {} ELSE {j \in 1..n : column[j - 1] + 1 >= limit}

\* Between which characters a fold is inside the address itself.
InsideAddress(length, named) == IF named THEN 4..(length + 2) ELSE 2..length

=============================================================================
