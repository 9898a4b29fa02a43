---------------------------- MODULE ConvertBody ----------------------------
(***************************************************************************)
(* The body of one message (4DPlugin.cpp): etpan_smtp_send chooses encoder  *)
(* and transfer encoding by the charset the message names, convert_body     *)
(* calls the encoder, and the message is labelled with the name as given.   *)
(* The encoders: ISO-2022-JP (Iso2022Body), Shift_JIS and Windows-31J (one  *)
(* table look-up per character), UTF-8 (the body as it is).                 *)
(***************************************************************************)
EXTENDS Iso2022Body

CONSTANTS
    Messages,   \* their bodies, sequences of Characters, and charset names
    OtherNames  \* charset names that neither the code nor README lists

VARIABLES
    text,      \* mime_body before the conversion
    label,     \* mime_charset
    encoder,   \* smtp_charset_type, "none" before it is chosen
    mechanism  \* mime_content_transfer_encoding

vars == <<bodyVars, text, label, encoder, mechanism>>

-----------------------------------------------------------------------------

\* The characters (UTF-16 units) the tables tell apart, by an example of each.
\* "surrogate" is half of a character beyond U+FFFF, "wave" one that the two
\* Shift_JIS tables give different codes.
Characters == {"a", "cr", "lf", "tilde", "backslash", "yen", "halfKana", "kanji",
               "wave", "accent", "surrogate"}

\* The code of a character in ISO_2022_JISX_0208, as Iso2022 classes it.
JisCode(c) ==
    CASE c \in {"cr", "lf"}              -> c
      [] c = "a"                         -> "ascii"
      [] c \in {"tilde", "yen"}          -> "roman"
      [] c = "halfKana"                  -> "kana"
      [] c \in {"backslash", "kanji"}    -> "kanji"
      [] c \in {"wave", "accent", "surrogate"} -> "none"

\* The characters JISX_0213 and WINDOWS_31J have no code for.
NoShiftJis == {"halfKana", "surrogate"}

\* The names, in any case, that choose an encoder.
NamesOf(e) ==
    CASE e = "iso_2022_jp" -> {"iso-2022-jp"}
      [] e = "shift_jis"   -> {"shift_jis", "shift-jis"}
      [] e = "windows_31j" -> {"windows-31j", "windows_31j", "cp932"}
      [] e = "utf_8"       -> {"utf-8"} \cup OtherNames

Encoders == {"iso_2022_jp", "shift_jis", "windows_31j", "utf_8"}

Names == UNION {NamesOf(e) : e \in Encoders}

ASSUME ConvertConstants ==
    /\ Messages \subseteq [body : Seq(Characters), charset : Names]
    /\ OtherNames \cap UNION {NamesOf(e) : e \in Encoders \ {"utf_8"}} = {}
    /\ "utf-8" \notin OtherNames

-----------------------------------------------------------------------------

Init ==
    /\ \E m \in Messages : text = m.body /\ label = m.charset
    /\ encoder = "none" /\ mechanism = "base64"
    /\ Begin

\* cp932 taken for another name of Shift_JIS.
Chosen_SameTable(name) ==
    IF name \in NamesOf("iso_2022_jp") THEN "iso_2022_jp" ELSE
    IF name \in NamesOf("shift_jis") \cup {"cp932"} THEN "shift_jis" ELSE
    IF name \in NamesOf("windows_31j") THEN "windows_31j" ELSE "utf_8"

\* A chain of strcasecmp; a name it does not know leaves the default.
Chosen(name) ==
    IF name \in NamesOf("iso_2022_jp") THEN "iso_2022_jp" ELSE
    IF name \in NamesOf("shift_jis")   THEN "shift_jis"   ELSE
    IF name \in NamesOf("windows_31j") THEN "windows_31j" ELSE "utf_8"

\* 7bit for every charset but UTF-8.
MechanismOf_Japanese(e) == IF e = "utf_8" THEN "base64" ELSE "7bit"

MechanismOf(e) == IF e = "iso_2022_jp" THEN "7bit" ELSE "base64"

\* A character written by a table that has a code for it.
Written(p, table) == [kind |-> "char", set |-> table, at |-> p]

\* convert_body: ISO-2022-JP goes on code by code, UTF-8 is left as it is.
Choose ==
    /\ encoder = "none"
    /\ encoder' = Chosen(label)
    /\ mechanism' = MechanismOf(encoder')
    /\ jis' = (IF encoder' = "iso_2022_jp" THEN [p \in 1..Len(text) |-> JisCode(text[p])]
               ELSE <<>>)
    /\ dst' = (IF encoder' = "utf_8" THEN [p \in 1..Len(text) |-> Written(p, "utf_8")]
               ELSE <<>>)
    /\ UNCHANGED <<text, label, i, state, line>>

ConvertIso ==
    /\ encoder = "iso_2022_jp"
    /\ IsoStep
    /\ UNCHANGED <<text, label, encoder, mechanism>>

HasCode(c) == c \notin NoShiftJis

\* convert_to_shift_jis, convert_to_windows_31j: one byte for a code below
\* 0x80, two for any other, nothing for none.
ConvertShiftJis ==
    /\ encoder \in {"shift_jis", "windows_31j"}
    /\ i <= Len(text)
    /\ dst' = (IF HasCode(text[i]) THEN Append(dst, Written(i, encoder)) ELSE dst)
    /\ i' = i + 1
    /\ UNCHANGED <<text, label, encoder, mechanism, jis, state, line>>

Done == encoder = "utf_8" \/ (encoder # "none" /\ i > Len(text))

Returned == Done /\ UNCHANGED vars

Next == Choose \/ ConvertIso \/ ConvertShiftJis \/ Returned

Spec == Init /\ [][Next]_vars

-----------------------------------------------------------------------------

TypeOK ==
    /\ text \in Seq(Characters) /\ label \in Names
    /\ encoder \in Encoders \cup {"none"} /\ mechanism \in {"7bit", "base64"}
    /\ jis \in Seq(Codes) /\ i \in 1..(Len(text) + 1)
    /\ state \in Sets /\ line \in 0..ISO_2022_MAX_LINE_LENGTH
    /\ \A k \in 1..Len(dst) :
           dst[k] \in [kind : Kinds, set : Sets \cup Encoders, at : Nat]

\* README, the charset table: what the body of a message is written in under
\* a name: the charset of that name, and UTF-8 under a name it does not list,
\* which is nevertheless the label.
Promised(name) == CHOOSE e \in Encoders : name \in NamesOf(e)

\* The charset in which a reader, who goes by the label, takes a character: in
\* ISO-2022-JP the set in force, which must be that of its code.  What a reader
\* makes of a name that is not listed is not the code's to say.
ReadAs(k) == IF Promised(label) = "iso_2022_jp" THEN InForce(dst, k) ELSE Promised(label)

WrittenAs(k) == IF encoder = "iso_2022_jp" THEN SetOf(jis[dst[k].at]) ELSE dst[k].set

\* The characters that the promised charset's table has a code for.
Kept(c) == CASE Promised(label) = "iso_2022_jp" -> JisCode(c) # "none"
             [] Promised(label) = "utf_8"       -> TRUE
             [] OTHER                           -> c \notin NoShiftJis

\* Under a listed name, a reader who goes by the label takes every character
\* in the charset, or set, it is written in.  Under any other name the body is
\* UTF-8, and a reader who goes by the label does not get it.  In every case
\* each character that the charset has a code for is there once, in its place.
\* Soft breaks are not the text's: only a content type with format=flowed and
\* delsp=yes has a reader take them out again.
BodyAsPromised ==
    Done =>
        /\ label \notin OtherNames =>
               \A k \in 1..Len(dst) : dst[k].kind = "char" => ReadAs(k) = WrittenAs(k)
        /\ label \in OtherNames => \A k \in 1..Len(dst) : WrittenAs(k) = "utf_8"
        /\ Complete([p \in 1..Len(text) |-> IF Kept(text[p]) THEN text[p] ELSE "none"], dst)

\* What is declared as 7bit has no byte above 127, that is, it is ASCII and
\* the sets that escape sequences switch to.
SevenBit ==
    Done /\ mechanism = "7bit" =>
        \A k \in 1..Len(dst) :
            dst[k].set \in Sets \/ (dst[k].kind = "char" /\ text[dst[k].at] \in
                                        {"a", "cr", "lf", "tilde", "backslash"})

\* README: "ISO-2022-JP returns the state to ASCII before the fold": also at
\* the line ends of the text itself, and at its end.
LinesEndInAscii ==
    Done /\ encoder = "iso_2022_jp" =>
        /\ \A k \in 1..Len(dst) :
               \/ dst[k].kind = "fold"
               \/ dst[k].kind = "char" /\ jis[dst[k].at] \in {"cr", "lf"}
               => InForce(dst, k) = "ascii"
        /\ InForce(dst, Len(dst) + 1) = "ascii"

\* A line end of the text is never torn apart by a soft break.
LineEndsWhole ==
    \A k \in 2..(Len(dst) - 1) :
        dst[k].kind = "fold" =>
            ~(/\ dst[k - 1].kind = "char" /\ dst[k + 1].kind = "char"
              /\ dst[k + 1].at = dst[k - 1].at + 1
              /\ jis[dst[k - 1].at] = "cr" /\ jis[dst[k + 1].at] = "lf")

=============================================================================
