------------------------- MODULE ConvertBodyProofs -------------------------
(***************************************************************************)
(* Theorems about ConvertBody, for bodies of any length under any charset   *)
(* name: the encoder is the one the name stands for, what it writes is read *)
(* back, and ISO-2022-JP breaks its lines in ASCII.                         *)
(***************************************************************************)
EXTENDS ConvertBody, EncoderProofs

BodyTokens == [kind : Kinds, set : Sets \cup Encoders, at : Nat]

\* Is the last token no carriage return of a line end?
TailSafe(out) ==
    out # <<>> /\ out[Len(out)].kind = "char" => ~EndsLine(out[Len(out)].at)

NotTorn(out) ==
    \A k \in 2..Len(out) :
        out[k].kind = "fold" /\ out[k - 1].kind = "char" => ~EndsLine(out[k - 1].at)

\* An output of the ISO-2022-JP encoder that goes on in set s.
Good(out, s) ==
    /\ out \in Seq(BodyTokens)
    /\ \A k \in 1..Len(out) : out[k].set \in Sets
    /\ Right(jis, out, s)
    /\ NotTorn(out)

LEMMA BodyTokensOf ==
    /\ \A p \in Nat : Char(p) \in BodyTokens /\ Char(p).kind = "char"
                      /\ Char(p).set \in Sets /\ Char(p).at = p
    /\ \A s \in Sets : Escape(s) \in BodyTokens /\ Escape(s).kind = "esc"
                       /\ Escape(s).set = s
    /\ Fold \in BodyTokens /\ Fold.kind = "fold" /\ Fold.set \in Sets
    BY DEF Char, Escape, Fold, BodyTokens, Kinds, Sets

LEMMA SetOfRange == \A c : SetOf(c) \in Sets /\ Width(c) \in 1..2
    BY DEF SetOf, Sets, Width

\* One more token of the output.
LEMMA GoodAppend ==
    ASSUME NEW out, NEW s \in Sets, Good(out, s), NEW t \in BodyTokens, t.set \in Sets,
           RightIn(jis, t, s), t.kind = "fold" => TailSafe(out)
    PROVE  Good(Append(out, t), IF t.kind = "esc" THEN t.set ELSE s)
<1> DEFINE n == Len(out)
           longer == Append(out, t)
<1>1. /\ n \in Nat /\ Len(longer) = n + 1 /\ longer \in Seq(BodyTokens)
      /\ \A j \in 1..n : longer[j] = out[j]
      /\ longer[n + 1] = t
    BY AppendProperties, LenProperties DEF Good
<1>2. Right(jis, longer, IF t.kind = "esc" THEN t.set ELSE s)
    BY RightAppend DEF Good
<1> HIDE DEF longer
<1>3. \A k \in 1..(n + 1) : k \in 1..n \/ k = n + 1
    BY <1>1
<1>4. \A k \in 1..(n + 1) : longer[k].set \in Sets
    BY <1>1, <1>3 DEF Good
<1>5. NotTorn(longer)
    <2> SUFFICES ASSUME NEW k \in 2..(n + 1), longer[k].kind = "fold",
                        longer[k - 1].kind = "char"
                 PROVE  ~EndsLine(longer[k - 1].at)
        BY <1>1 DEF NotTorn
    <2>1. k - 1 \in 1..n /\ longer[k - 1] = out[k - 1]
        BY <1>1
    <2>2. CASE k \in 2..n
        <3>1. longer[k] = out[k]
            BY <1>1, <2>2
        <3> QED
            BY <2>1, <2>2, <3>1 DEF Good, NotTorn
    <2>3. CASE k = n + 1
        <3>1. t.kind = "fold" /\ k - 1 = n /\ n \in 1..n
            BY <1>1, <2>1, <2>3
        <3>2. out # <<>>
            BY <3>1, EmptySeq
        <3> QED
            BY <2>1, <3>1, <3>2 DEF TailSafe
    <2> QED
        BY <1>1, <2>2, <2>3
<1> QED
    BY <1>1, <1>2, <1>4, <1>5 DEF Good, longer

\* An escape sequence to s, in whatever set t the output is.
LEMMA GoodEscape ==
    ASSUME NEW out, NEW t \in Sets, Good(out, t), NEW s \in Sets
    PROVE  /\ Good(Append(out, Escape(s)), s)
           /\ TailSafe(Append(out, Escape(s)))
           /\ \A text_, m, n : Copied(text_, out, m, n) =>
                                   Copied(text_, Append(out, Escape(s)), m, n)
<1>1. /\ Escape(s) \in BodyTokens /\ Escape(s).kind = "esc" /\ Escape(s).set = s
      /\ out \in Seq(BodyTokens)
    BY BodyTokensOf DEF Good
<1>2. RightIn(jis, Escape(s), t)
    BY <1>1 DEF RightIn
<1>3. Good(Append(out, Escape(s)), s)
    BY <1>1, <1>2, GoodAppend
<1>4. Append(out, Escape(s))[Len(Append(out, Escape(s)))] = Escape(s)
    BY <1>1, AppendProperties
<1>5. TailSafe(Append(out, Escape(s)))
    BY <1>1, <1>4 DEF TailSafe
<1>6. \A text_, m, n : Copied(text_, out, m, n) =>
                           Copied(text_, Append(out, Escape(s)), m, n)
    BY <1>1, CopiedOther
<1> QED
    BY <1>3, <1>5, <1>6

\* A fold, in ASCII.
LEMMA GoodFold ==
    ASSUME NEW out, Good(out, "ascii"), TailSafe(out)
    PROVE  /\ Good(Append(out, Fold), "ascii")
           /\ \A text_, m, n : Copied(text_, out, m, n) =>
                                   Copied(text_, Append(out, Fold), m, n)
<1>1. /\ Fold \in BodyTokens /\ Fold.kind = "fold" /\ Fold.set \in Sets
      /\ out \in Seq(BodyTokens) /\ "ascii" \in Sets
    BY BodyTokensOf DEF Good, Sets
<1>2. RightIn(jis, Fold, "ascii")
    BY <1>1 DEF RightIn
<1>3. Good(Append(out, Fold), "ascii")
    BY <1>1, <1>2, GoodAppend
<1>4. \A text_, m, n : Copied(text_, out, m, n) => Copied(text_, Append(out, Fold), m, n)
    BY <1>1, CopiedOther
<1> QED
    BY <1>3, <1>4

\* The soft break.
LEMMA Breaks ==
    ASSUME NEW out, NEW s \in Sets, Good(out, s), NEW length \in Nat,
           length > ISO_2022_MAX_LINE_LENGTH => TailSafe(out)
    PROVE  /\ Good(out \o Break(s, length), StateAfterBreak(s, length))
           /\ StateAfterBreak(s, length) \in Sets
           /\ LineAfterBreak(length) \in 0..ISO_2022_MAX_LINE_LENGTH
           /\ \A text_, m, n : Copied(text_, out, m, n) =>
                                   Copied(text_, out \o Break(s, length), m, n)
<1>0. out \in Seq(BodyTokens) /\ "ascii" \in Sets
    BY DEF Good, Sets
<1>1. /\ StateAfterBreak(s, length) \in Sets
      /\ LineAfterBreak(length) \in 0..ISO_2022_MAX_LINE_LENGTH
    BY <1>0 DEF StateAfterBreak, LineAfterBreak, ISO_2022_MAX_LINE_LENGTH
<1>2. CASE ~(length > ISO_2022_MAX_LINE_LENGTH)
    <2>1. Break(s, length) = <<>> /\ StateAfterBreak(s, length) = s
        BY <1>2 DEF Break, StateAfterBreak
    <2>2. out \o Break(s, length) = out
        BY <1>0, <2>1, ConcatEmptySeq
    <2> QED
        BY <1>1, <2>1, <2>2
<1>3. CASE length > ISO_2022_MAX_LINE_LENGTH
    <2>1. /\ Break(s, length) = ToAscii(s) \o <<Fold>>
          /\ StateAfterBreak(s, length) = "ascii"
        BY <1>3 DEF Break, StateAfterBreak
    <2>2. <<Fold>> \in Seq(BodyTokens) /\ Fold \in BodyTokens
        BY BodyTokensOf
    <2>3. CASE s = "ascii"
        <3>1. ToAscii(s) = <<>>
            BY <2>3 DEF ToAscii
        <3>2. Break(s, length) = <<Fold>>
            BY <2>1, <2>2, <3>1, ConcatEmptySeq
        <3>3. out \o Break(s, length) = Append(out, Fold)
            BY <1>0, <2>2, <3>2, AppendIsConcat
        <3> QED
            BY <1>1, <1>3, <2>1, <2>3, <3>3, GoodFold
    <2>4. CASE s # "ascii"
        <3> DEFINE back == Append(out, Escape("ascii"))
        <3>1. ToAscii(s) = <<Escape("ascii")>>
            BY <2>4 DEF ToAscii
        <3>2. /\ Escape("ascii") \in BodyTokens /\ <<Escape("ascii")>> \in Seq(BodyTokens)
            BY <1>0, BodyTokensOf
        <3>3. back \in Seq(BodyTokens) /\ back = out \o <<Escape("ascii")>>
            BY <1>0, <3>2, AppendProperties, AppendIsConcat
        <3>4. out \o Break(s, length) = (out \o <<Escape("ascii")>>) \o <<Fold>>
            BY <1>0, <2>1, <2>2, <3>1, <3>2, ConcatAssociative
        <3>5. out \o Break(s, length) = Append(back, Fold)
            BY <2>2, <3>3, <3>4, AppendIsConcat
        <3>6. /\ Good(back, "ascii") /\ TailSafe(back)
              /\ \A text_, m, n : Copied(text_, out, m, n) => Copied(text_, back, m, n)
            BY <1>0, GoodEscape
        <3> HIDE DEF back
        <3>7. /\ Good(Append(back, Fold), "ascii")
              /\ \A text_, m, n : Copied(text_, back, m, n) =>
                                      Copied(text_, Append(back, Fold), m, n)
            BY <3>6, GoodFold
        <3> QED
            BY <1>1, <2>1, <3>5, <3>6, <3>7
    <2> QED
        BY <2>3, <2>4
<1> QED
    BY <1>2, <1>3

\* The end of the text.
LEMMA Finishes ==
    ASSUME NEW out, NEW t \in Sets, Good(out, t)
    PROVE  /\ Good(out \o Finish(t), "ascii")
           /\ \A text_, m, n : Copied(text_, out, m, n) =>
                                   Copied(text_, out \o Finish(t), m, n)
<1>0. out \in Seq(BodyTokens) /\ "ascii" \in Sets
    BY DEF Good, Sets
<1>1. CASE t = "ascii"
    <2>1. out \o Finish(t) = out
        BY <1>0, <1>1, ConcatEmptySeq DEF Finish
    <2> QED
        BY <1>1, <2>1
<1>2. CASE t # "ascii"
    <2> DEFINE back == Append(out, Escape("ascii"))
    <2>1. /\ Escape("ascii") \in BodyTokens /\ <<Escape("ascii")>> \in Seq(BodyTokens)
          /\ Fold \in BodyTokens /\ <<Fold>> \in Seq(BodyTokens)
        BY <1>0, BodyTokensOf
    <2>2. Finish(t) = <<Escape("ascii")>> \o <<Fold>>
        <3>1. Finish(t) = <<Escape("ascii"), Fold>>
            BY <1>2 DEF Finish
        <3> QED
            BY <3>1
    <2>3. back \in Seq(BodyTokens) /\ back = out \o <<Escape("ascii")>>
        BY <1>0, <2>1, AppendProperties, AppendIsConcat
    <2>4. out \o Finish(t) = (out \o <<Escape("ascii")>>) \o <<Fold>>
        BY <1>0, <2>1, <2>2, ConcatAssociative
    <2>5. out \o Finish(t) = Append(back, Fold)
        BY <2>1, <2>3, <2>4, AppendIsConcat
    <2>6. /\ Good(back, "ascii") /\ TailSafe(back)
          /\ \A text_, m, n : Copied(text_, out, m, n) => Copied(text_, back, m, n)
        BY <1>0, GoodEscape
    <2> HIDE DEF back
    <2>7. /\ Good(Append(back, Fold), "ascii")
          /\ \A text_, m, n : Copied(text_, back, m, n) =>
                                  Copied(text_, Append(back, Fold), m, n)
        BY <2>6, GoodFold
    <2> QED
        BY <2>5, <2>6, <2>7
<1> QED
    BY <1>1, <1>2

\* What After adds to the output, whose code i is already in out.
LEMMA AfterGood ==
    ASSUME i \in 1..Len(jis), NEW s \in Sets, NEW length \in Nat, After(i, s, length),
           NEW out, out = dst \o (IF jis[i] = "none" THEN <<>>
                                  ELSE Append(Switch(SetOf(jis[i])), Char(i))),
           Good(out, s), length > ISO_2022_MAX_LINE_LENGTH => TailSafe(out)
    PROVE  /\ Good(dst', state') /\ state' \in Sets
           /\ line' \in 0..ISO_2022_MAX_LINE_LENGTH
           /\ i = Len(jis) => state' = "ascii"
           /\ \A c, m, n : Copied(c, out, m, n) => Copied(c, dst', m, n)
<1> DEFINE t == StateAfterBreak(s, length)
           broken == out \o Break(s, length)
<1>1. /\ dst' = broken \o (IF IsLast(i) THEN Finish(t) ELSE <<>>)
      /\ state' = (IF IsLast(i) THEN "ascii" ELSE t)
      /\ line' = LineAfterBreak(length)
    BY DEF After
<1>2. /\ Good(broken, t) /\ t \in Sets
      /\ LineAfterBreak(length) \in 0..ISO_2022_MAX_LINE_LENGTH
      /\ \A c, m, n : Copied(c, out, m, n) => Copied(c, broken, m, n)
    BY Breaks
<1> HIDE DEF t, broken
<1>3. CASE IsLast(i)
    <2>1. /\ Good(broken \o Finish(t), "ascii")
          /\ \A c, m, n : Copied(c, broken, m, n) => Copied(c, broken \o Finish(t), m, n)
        BY <1>2, Finishes
    <2>2. dst' = broken \o Finish(t) /\ state' = "ascii" /\ "ascii" \in Sets
        BY <1>1, <1>3 DEF Sets
    <2> QED
        BY <1>1, <1>2, <2>1, <2>2
<1>4. CASE ~IsLast(i)
    <2>1. broken \in Seq(BodyTokens)
        BY <1>2 DEF Good
    <2>2. dst' = broken /\ state' = t
        BY <1>1, <1>4, <2>1, ConcatEmptySeq
    <2> QED
        BY <1>1, <1>2, <1>4, <2>2 DEF IsLast
<1> QED
    BY <1>3, <1>4

-----------------------------------------------------------------------------

LEMMA NamesAre ==
    /\ NamesOf("iso_2022_jp") = {"iso-2022-jp"}
    /\ NamesOf("shift_jis") = {"shift_jis", "shift-jis"}
    /\ NamesOf("windows_31j") = {"windows-31j", "windows_31j", "cp932"}
    /\ NamesOf("utf_8") = {"utf-8"} \cup OtherNames
    BY DEF NamesOf

\* The chain of comparisons finds the encoder that the name is listed under.
LEMMA ChosenIsListed ==
    ASSUME NEW name, NEW a \in Encoders, name \in NamesOf(a)
    PROVE  Chosen(name) = a
<1>1. a \in {"iso_2022_jp", "shift_jis", "windows_31j", "utf_8"}
    BY DEF Encoders
<1>2. \A e \in Encoders \ {"utf_8"} : OtherNames \cap NamesOf(e) = {}
    BY ConvertConstants
<1>3. /\ OtherNames \cap NamesOf("iso_2022_jp") = {}
      /\ OtherNames \cap NamesOf("shift_jis") = {}
      /\ OtherNames \cap NamesOf("windows_31j") = {}
    BY <1>2 DEF Encoders
<1>4. CASE a = "iso_2022_jp"
    BY <1>4 DEF Chosen
<1>5. CASE a = "shift_jis"
    BY <1>5, NamesAre DEF Chosen
<1>6. CASE a = "windows_31j"
    BY <1>6, NamesAre DEF Chosen
<1>7. CASE a = "utf_8"
    <2>1. /\ name \notin NamesOf("iso_2022_jp") /\ name \notin NamesOf("shift_jis")
          /\ name \notin NamesOf("windows_31j")
        BY <1>3, <1>7, NamesAre
    <2> QED
        BY <1>7, <2>1 DEF Chosen
<1> QED
    BY <1>1, <1>4, <1>5, <1>6, <1>7

LEMMA ChosenIsPromised ==
    ASSUME NEW name \in Names
    PROVE  Chosen(name) = Promised(name) /\ Chosen(name) \in Encoders
<1>1. PICK e \in Encoders : name \in NamesOf(e)
    BY DEF Names
<1>2. Promised(name) \in Encoders /\ name \in NamesOf(Promised(name))
    BY <1>1 DEF Promised
<1> QED
    BY <1>2, ChosenIsListed

LEMMA JisCodes ==
    ASSUME NEW c \in Characters
    PROVE  JisCode(c) \in Codes
    BY DEF Characters, JisCode, Codes

\* The text as the named charset keeps it.
Coded == [p \in 1..Len(text) |-> IF Kept(text[p]) THEN text[p] ELSE "none"]

LEMMA CodedNone ==
    ASSUME text \in Seq(Characters), NEW p \in 1..Len(text)
    PROVE  Coded[p] = "none" <=> ~Kept(text[p])
<1>1. text[p] \in Characters
    BY ElementOfSeq
<1>2. text[p] # "none"
    BY <1>1 DEF Characters
<1> QED
    BY <1>2 DEF Coded

LEMMA KeptIs ==
    /\ Promised(label) = "iso_2022_jp" => \A c : Kept(c) <=> JisCode(c) # "none"
    /\ Promised(label) = "utf_8" => \A c : Kept(c)
    /\ Promised(label) \in {"shift_jis", "windows_31j"} => \A c : Kept(c) <=> HasCode(c)
<1>1. ASSUME Promised(label) = "iso_2022_jp" PROVE \A c : Kept(c) <=> JisCode(c) # "none"
    BY <1>1 DEF Kept
<1>2. ASSUME Promised(label) = "utf_8" PROVE \A c : Kept(c)
    BY <1>2 DEF Kept
<1>3. ASSUME Promised(label) \in {"shift_jis", "windows_31j"}
      PROVE  \A c : Kept(c) <=> HasCode(c)
    BY <1>3 DEF Kept, HasCode
<1> QED
    BY <1>1, <1>2, <1>3

-----------------------------------------------------------------------------

\* The variables' types, and the state before an encoder is chosen.
TypeInv ==
    /\ text \in Seq(Characters) /\ label \in Names
    /\ encoder \in Encoders \cup {"none"} /\ mechanism \in {"7bit", "base64"}
    /\ dst \in Seq(BodyTokens) /\ jis \in Seq(Codes) /\ i \in 1..(Len(text) + 1)
    /\ state \in Sets /\ line \in 0..ISO_2022_MAX_LINE_LENGTH
    /\ encoder = "none" => i = 1 /\ state = "ascii" /\ line = 0 /\ dst = <<>>

\* The encoder is the right one, and what it has written so far.
WrittenInv ==
    /\ encoder # "none" => encoder = Promised(label) /\ mechanism = MechanismOf(encoder)
    /\ encoder = "iso_2022_jp" =>
           /\ jis = [p \in 1..Len(text) |-> JisCode(text[p])]
           /\ Good(dst, state)
           /\ i > Len(text) => state = "ascii"
    /\ encoder # "iso_2022_jp" =>
           \A k \in 1..Len(dst) : dst[k].kind = "char" /\ dst[k].set = encoder
    /\ encoder \in {"iso_2022_jp", "shift_jis", "windows_31j"} =>
           Copied(Coded, dst, 0, i - 1)
    /\ encoder = "utf_8" => Copied(Coded, dst, 0, Len(text))

BodyInv == TypeInv /\ WrittenInv

LEMMA InitBody == Init => BodyInv
<1> SUFFICES ASSUME Init PROVE BodyInv
    OBVIOUS
<1>1. text \in Seq(Characters) /\ label \in Names
    BY ConvertConstants DEF Init
<1>2. Len(text) \in Nat /\ Len(dst) = 0 /\ dst \in Seq(BodyTokens) /\ jis \in Seq(Codes)
    BY <1>1, LenProperties, EmptySeq DEF Init, Begin
<1>3. encoder = "none" /\ i = 1 /\ state = "ascii" /\ line = 0 /\ dst = <<>> /\ mechanism = "base64"
    BY DEF Init, Begin
<1>4. TypeInv
    BY <1>1, <1>2, <1>3 DEF TypeInv, Sets, ISO_2022_MAX_LINE_LENGTH
<1>5. WrittenInv
    BY <1>2, <1>3 DEF WrittenInv
<1> QED
    BY <1>4, <1>5 DEF BodyInv

\* A code of the text, in its own set.
LEMMA CodeWritten ==
    ASSUME Good(dst, state), state \in Sets, i \in Nat \ {0},
           NEW out, out = dst \o Append(Switch(SetOf(jis[i])), Char(i))
    PROVE  /\ Good(out, SetOf(jis[i]))
           /\ ~EndsLine(i) => TailSafe(out)
           /\ \A c : c[i] # "none" /\ Copied(c, dst, 0, i - 1) => Copied(c, out, 0, i)
<1> DEFINE s == SetOf(jis[i])
<1>1. /\ Char(i) \in BodyTokens /\ Char(i).kind = "char" /\ Char(i).set \in Sets
      /\ Char(i).at = i /\ s \in Sets /\ dst \in Seq(BodyTokens)
      /\ Escape(s) \in BodyTokens /\ RightIn(jis, Char(i), s)
    BY BodyTokensOf, SetOfRange DEF Good, RightIn
<1>2. PICK before : /\ Good(before, s) /\ before \in Seq(BodyTokens)
                    /\ out = Append(before, Char(i))
                    /\ \A c, m, n : Copied(c, dst, m, n) => Copied(c, before, m, n)
    <2>1. CASE s = state
        <3>1. Append(Switch(s), Char(i)) = <<Char(i)>>
            BY <2>1 DEF Switch
        <3>2. out = Append(dst, Char(i))
            BY <1>1, <3>1, AppendIsConcat
        <3> QED
            BY <1>1, <2>1, <3>2
    <2>2. CASE s # state
        <3>1. Append(Switch(s), Char(i)) = <<Escape(s)>> \o <<Char(i)>>
            BY <2>2 DEF Switch
        <3>2. <<Escape(s)>> \in Seq(BodyTokens) /\ <<Char(i)>> \in Seq(BodyTokens)
            BY <1>1
        <3>3. out = (dst \o <<Escape(s)>>) \o <<Char(i)>>
            BY <1>1, <3>1, <3>2, ConcatAssociative
        <3>4. /\ dst \o <<Escape(s)>> = Append(dst, Escape(s))
              /\ Append(dst, Escape(s)) \in Seq(BodyTokens)
            BY <1>1, AppendIsConcat, AppendProperties
        <3>5. out = Append(Append(dst, Escape(s)), Char(i))
            BY <1>1, <3>3, <3>4, AppendIsConcat
        <3>6. /\ Good(Append(dst, Escape(s)), s)
              /\ \A c, m, n : Copied(c, dst, m, n) => Copied(c, Append(dst, Escape(s)), m, n)
            BY <1>1, GoodEscape
        <3> QED
            BY <3>4, <3>5, <3>6
    <2> QED
        BY <2>1, <2>2
<1>3. Good(out, s)
    BY <1>1, <1>2, GoodAppend
<1>4. ~EndsLine(i) => TailSafe(out)
    <2>1. out[Len(out)] = Char(i)
        BY <1>1, <1>2, AppendProperties
    <2> QED
        BY <1>1, <2>1 DEF TailSafe
<1>5. ASSUME NEW c, c[i] # "none", Copied(c, dst, 0, i - 1)
      PROVE  Copied(c, out, 0, i)
    <2>1. Copied(c, before, 0, i - 1) /\ i = i - 1 + 1 /\ 0 <= i - 1 /\ i - 1 \in Nat
        BY <1>2, <1>5
    <2> QED
        BY <1>1, <1>2, <1>5, <2>1, CopiedCharacter
<1> QED
    BY <1>3, <1>4, <1>5

\* A step of the ISO-2022-JP encoder.
LEMMA IsoKeeps ==
    ASSUME BodyInv, ConvertIso
    PROVE  BodyInv'
<1>1. /\ encoder = "iso_2022_jp" /\ IsoStep /\ i' = i + 1
      /\ UNCHANGED <<text, label, encoder, mechanism, jis>>
      /\ i <= Len(jis)
    BY DEF ConvertIso, IsoStep, PassOver, Encode
<1>2. /\ jis = [p \in 1..Len(text) |-> JisCode(text[p])] /\ Good(dst, state)
      /\ Copied(Coded, dst, 0, i - 1)
    BY <1>1 DEF BodyInv, WrittenInv
<1>3. /\ text \in Seq(Characters) /\ jis \in Seq(Codes) /\ i \in 1..(Len(text) + 1)
      /\ Len(text) \in Nat /\ state \in Sets /\ line \in 0..76 /\ dst \in Seq(BodyTokens)
    BY LenProperties DEF BodyInv, TypeInv, ISO_2022_MAX_LINE_LENGTH
<1>4. Len(jis) = Len(text) /\ i \in 1..Len(jis) /\ i \in Nat \ {0} /\ i - 1 \in Nat
    BY <1>1, <1>2, <1>3, LenProperties
<1>5. Coded[i] = "none" <=> jis[i] = "none"
    <2>1. Kept(text[i]) <=> JisCode(text[i]) # "none"
        BY <1>1, KeptIs DEF BodyInv, WrittenInv
    <2> QED
        BY <1>2, <1>3, <1>4, <2>1, CodedNone
<1>6. /\ Good(dst', state') /\ state' \in Sets /\ line' \in 0..ISO_2022_MAX_LINE_LENGTH
      /\ i = Len(jis) => state' = "ascii"
      /\ Copied(Coded, dst', 0, i)
    <2>1. CASE PassOver
        <3> DEFINE out == dst \o (IF jis[i] = "none" THEN <<>>
                                  ELSE Append(Switch(SetOf(jis[i])), Char(i)))
        <3>1. After(i, state, line) /\ jis[i] = "none"
            BY <2>1 DEF PassOver
        <3>2. out = dst
            BY <1>3, <3>1, ConcatEmptySeq
        <3>3. line \in Nat /\ ~(line > ISO_2022_MAX_LINE_LENGTH)
            BY <1>3 DEF ISO_2022_MAX_LINE_LENGTH
        <3>4. Good(out, state)
            BY <1>2, <3>2
        <3>5. Copied(Coded, out, 0, i)
            <4>1. i - 1 + 1 = i /\ 0 <= i - 1
                BY <1>4
            <4> QED
                BY <1>2, <1>4, <1>5, <3>1, <3>2, <4>1, CopiedSkip
        <3> HIDE DEF out
        <3>6. out = dst \o (IF jis[i] = "none" THEN <<>>
                            ELSE Append(Switch(SetOf(jis[i])), Char(i)))
            BY DEF out
        <3> QED
            BY <1>3, <1>4, <3>1, <3>3, <3>4, <3>5, <3>6, AfterGood
    <2>2. CASE Encode
        <3> DEFINE s == SetOf(jis[i])
                   out == dst \o (IF jis[i] = "none" THEN <<>>
                                  ELSE Append(Switch(SetOf(jis[i])), Char(i)))
        <3>1. After(i, s, LineAfter(i)) /\ jis[i] # "none"
            BY <2>2 DEF Encode
        <3>2. out = dst \o Append(Switch(SetOf(jis[i])), Char(i))
            BY <3>1
        <3> HIDE DEF out
        <3>3. ~EndsLine(i) => TailSafe(out)
            BY <1>2, <1>3, <1>4, <3>2, CodeWritten
        <3>4. Copied(Coded, out, 0, i)
            BY <1>2, <1>3, <1>4, <1>5, <3>1, <3>2, CodeWritten
        <3>5. Good(out, s)
            BY <1>2, <1>3, <1>4, <3>2, CodeWritten
        <3>6. LineAfter(i) \in Nat
            <4>1. Len(Switch(s)) \in 0..1
                <5>1. CASE s = state
                    BY <5>1 DEF Switch
                <5>2. CASE s # state
                    BY <5>2 DEF Switch
                <5> QED
                    BY <5>1, <5>2
            <4> HIDE DEF s
            <4>2. LineAfter(i) = 0 \/ LineAfter(i) = line + 3 * Len(Switch(s)) + Width(jis[i])
                BY DEF LineAfter, s
            <4>3. Width(jis[i]) \in 1..2
                BY SetOfRange
            <4> QED
                BY <1>3, <4>1, <4>2, <4>3
        <3>7. LineAfter(i) > ISO_2022_MAX_LINE_LENGTH => TailSafe(out)
            <4>1. EndsLine(i) => LineAfter(i) = 0
                BY DEF LineAfter
            <4> QED
                BY <3>3, <4>1 DEF ISO_2022_MAX_LINE_LENGTH
        <3>8. s \in Sets
            BY SetOfRange
        <3>9. out = dst \o (IF jis[i] = "none" THEN <<>>
                            ELSE Append(Switch(SetOf(jis[i])), Char(i)))
            BY DEF out
        <3> QED
            BY <1>4, <3>1, <3>4, <3>5, <3>6, <3>7, <3>8, <3>9, AfterGood
    <2> QED
        BY <1>1, <2>1, <2>2 DEF IsoStep
<1>7. TypeInv'
    <2>1. dst' \in Seq(BodyTokens)
        BY <1>6 DEF Good
    <2>2. i' \in 1..(Len(text) + 1)
        BY <1>1, <1>4
    <2> QED
        BY <1>1, <1>6, <2>1, <2>2 DEF BodyInv, TypeInv
<1>8. WrittenInv'
    <2>1. Good(dst, state)'
        BY <1>1, <1>6 DEF Good, Right, NotTorn, EndsLine, IsLast
    <2>2. Copied(Coded, dst, 0, i - 1)'
        <3>1. Coded' = Coded /\ i' - 1 = i
            BY <1>1, <1>4 DEF Coded, Kept
        <3> QED
            BY <1>6, <3>1 DEF Copied
    <2>3. i' > Len(text') => state' = "ascii"
        BY <1>1, <1>3, <1>4, <1>6
    <2>4. encoder' = Promised(label') /\ mechanism' = MechanismOf(encoder')
        BY <1>1 DEF BodyInv, WrittenInv
    <2>5. jis' = [p \in 1..Len(text') |-> JisCode(text'[p])]
        BY <1>1, <1>2
    <2> QED
        BY <1>1, <2>1, <2>2, <2>3, <2>4, <2>5 DEF WrittenInv
<1> QED
    BY <1>7, <1>8 DEF BodyInv

\* A character of the two Shift_JIS tables.
LEMMA ShiftJisKeeps ==
    ASSUME BodyInv, ConvertShiftJis
    PROVE  BodyInv'
<1>1. /\ encoder \in {"shift_jis", "windows_31j"} /\ i <= Len(text) /\ i' = i + 1
      /\ dst' = (IF HasCode(text[i]) THEN Append(dst, Written(i, encoder)) ELSE dst)
      /\ UNCHANGED <<text, label, encoder, mechanism, jis, state, line>>
    BY DEF ConvertShiftJis
<1>2. /\ encoder = Promised(label) /\ mechanism = MechanismOf(encoder)
      /\ \A k \in 1..Len(dst) : dst[k].kind = "char" /\ dst[k].set = encoder
      /\ Copied(Coded, dst, 0, i - 1)
    BY <1>1 DEF BodyInv, WrittenInv
<1>3. /\ text \in Seq(Characters) /\ i \in 1..(Len(text) + 1) /\ Len(text) \in Nat
      /\ dst \in Seq(BodyTokens)
    BY LenProperties DEF BodyInv, TypeInv
<1>4. i \in 1..Len(text) /\ i - 1 \in Nat /\ i - 1 + 1 = i /\ 0 <= i - 1 /\ i \in Nat
    BY <1>1, <1>3
<1>5. Coded[i] = "none" <=> ~HasCode(text[i])
    BY <1>1, <1>2, <1>3, <1>4, KeptIs, CodedNone
<1>6. /\ dst' \in Seq(BodyTokens) /\ Copied(Coded, dst', 0, i)
      /\ \A k \in 1..Len(dst') : dst'[k].kind = "char" /\ dst'[k].set = encoder
    <2>1. CASE ~HasCode(text[i])
        <3>1. dst' = dst
            BY <1>1, <2>1
        <3>2. Copied(Coded, dst, 0, i)
            BY <1>2, <1>4, <1>5, <2>1, CopiedSkip
        <3> QED
            BY <1>2, <1>3, <3>1, <3>2
    <2>2. CASE HasCode(text[i])
        <3> DEFINE t == Written(i, encoder)
        <3>1. dst' = Append(dst, t)
            BY <1>1, <2>2
        <3>2. t \in BodyTokens /\ t.kind = "char" /\ t.at = i /\ t.set = encoder
            BY <1>1, <1>4 DEF Written, BodyTokens, Kinds, Encoders
        <3> HIDE DEF t
        <3>3. Copied(Coded, dst', 0, i)
            BY <1>2, <1>3, <1>4, <1>5, <2>2, <3>1, <3>2, CopiedCharacter
        <3>4. /\ dst' \in Seq(BodyTokens) /\ Len(dst') = Len(dst) + 1
              /\ \A k \in 1..Len(dst) : dst'[k] = dst[k]
              /\ dst'[Len(dst) + 1] = t /\ Len(dst) \in Nat
            BY <1>3, <3>1, <3>2, AppendProperties, LenProperties
        <3>5. \A k \in 1..Len(dst') : k \in 1..Len(dst) \/ k = Len(dst) + 1
            BY <3>4
        <3> QED
            BY <1>2, <3>2, <3>3, <3>4, <3>5
    <2> QED
        BY <2>1, <2>2
<1>7. TypeInv'
    BY <1>1, <1>3, <1>4, <1>6 DEF BodyInv, TypeInv
<1>8. WrittenInv'
    <2>1. Copied(Coded, dst, 0, i - 1)'
        <3>1. Coded' = Coded /\ i' - 1 = i
            BY <1>1, <1>4 DEF Coded, Kept
        <3> QED
            BY <1>6, <3>1 DEF Copied
    <2>2. encoder' = Promised(label') /\ mechanism' = MechanismOf(encoder')
        BY <1>1, <1>2
    <2> QED
        BY <1>1, <1>6, <2>1, <2>2 DEF WrittenInv
<1> QED
    BY <1>7, <1>8 DEF BodyInv

\* The whole body at once.
LEMMA Utf8Copied ==
    ASSUME text \in Seq(Characters), Promised(label) = "utf_8",
           NEW out, out = [p \in 1..Len(text) |-> Written(p, "utf_8")]
    PROVE  /\ out \in Seq(BodyTokens)
           /\ \A k \in 1..Len(out) : out[k].kind = "char" /\ out[k].set = "utf_8"
           /\ Copied(Coded, out, 0, Len(text))
<1>1. Len(text) \in Nat
    BY LenProperties
<1>2. \A p \in 1..Len(text) :
          /\ Written(p, "utf_8") \in BodyTokens /\ Written(p, "utf_8").kind = "char"
          /\ Written(p, "utf_8").set = "utf_8" /\ Written(p, "utf_8").at = p
    BY <1>1 DEF Written, BodyTokens, Kinds, Encoders
<1>3. out \in [1..Len(text) -> BodyTokens]
    BY <1>2
<1>4. out \in Seq(BodyTokens)
    BY <1>1, <1>3, SeqDef
<1>5. Len(out) = Len(text)
    BY <1>1, <1>3, <1>4, LenProperties
<1>6. \A k \in 1..Len(text) : out[k].kind = "char" /\ out[k].set = "utf_8" /\ out[k].at = k
    BY <1>2
<1>7. PositionsIn(out) = 1..Len(text)
    BY <1>5, <1>6 DEF PositionsIn
<1>8. Increasing(out)
    BY <1>5, <1>6 DEF Increasing
<1>9. \A p \in 1..Len(text) : Coded[p] # "none"
    BY CodedNone, KeptIs
<1>10. (0 + 1)..Len(text) = 1..Len(text)
    OBVIOUS
<1> QED
    BY <1>4, <1>5, <1>6, <1>7, <1>8, <1>9, <1>10 DEF Copied

LEMMA ChooseKeeps ==
    ASSUME BodyInv, Choose
    PROVE  BodyInv'
<1>1. /\ encoder = "none" /\ encoder' = Chosen(label) /\ mechanism' = MechanismOf(encoder')
      /\ jis' = (IF encoder' = "iso_2022_jp"
                 THEN [p \in 1..Len(text) |-> JisCode(text[p])] ELSE <<>>)
      /\ dst' = (IF encoder' = "utf_8"
                 THEN [p \in 1..Len(text) |-> Written(p, "utf_8")] ELSE <<>>)
      /\ UNCHANGED <<text, label, i, state, line>>
    BY DEF Choose
<1>2. /\ text \in Seq(Characters) /\ label \in Names /\ Len(text) \in Nat
      /\ i = 1 /\ state = "ascii" /\ line = 0
    BY <1>1, LenProperties DEF BodyInv, TypeInv
<1>3. encoder' = Promised(label) /\ encoder' \in Encoders
    BY <1>1, <1>2, ChosenIsPromised
<1>4. encoder' # "none" /\ mechanism' \in {"7bit", "base64"}
    BY <1>1, <1>3 DEF Encoders, MechanismOf
<1>5. jis' \in Seq(Codes)
    <2>1. CASE encoder' = "iso_2022_jp"
        <3>1. \A p \in 1..Len(text) : JisCode(text[p]) \in Codes
            BY <1>2, JisCodes, ElementOfSeq
        <3>2. jis' \in [1..Len(text) -> Codes]
            BY <1>1, <2>1, <3>1
        <3> QED
            BY <1>2, <3>2, SeqDef
    <2>2. CASE encoder' # "iso_2022_jp"
        BY <1>1, <2>2, EmptySeq
    <2> QED
        BY <2>1, <2>2
<1>6. /\ dst' \in Seq(BodyTokens)
      /\ encoder' # "utf_8" => dst' = <<>> /\ Len(dst') = 0
      /\ encoder' = "utf_8" =>
             /\ \A k \in 1..Len(dst') : dst'[k].kind = "char" /\ dst'[k].set = "utf_8"
             /\ Copied(Coded, dst', 0, Len(text))
    <2>1. CASE encoder' = "utf_8"
        <3>1. PICK out : out = [p \in 1..Len(text) |-> Written(p, "utf_8")]
            OBVIOUS
        <3>2. dst' = out /\ Promised(label) = "utf_8"
            BY <1>1, <1>3, <2>1, <3>1
        <3>3. /\ out \in Seq(BodyTokens)
              /\ \A k \in 1..Len(out) : out[k].kind = "char" /\ out[k].set = "utf_8"
              /\ Copied(Coded, out, 0, Len(text))
            BY <1>2, <3>1, <3>2, Utf8Copied
        <3> QED
            BY <2>1, <3>2, <3>3
    <2>2. CASE encoder' # "utf_8"
        BY <1>1, <2>2, EmptySeq
    <2> QED
        BY <2>1, <2>2
<1>7. TypeInv'
    <2>1. i' \in 1..(Len(text') + 1)
        BY <1>1, <1>2
    <2>2. state' \in Sets /\ line' \in 0..ISO_2022_MAX_LINE_LENGTH
        BY <1>1, <1>2 DEF Sets, ISO_2022_MAX_LINE_LENGTH
    <2> QED
        BY <1>1, <1>2, <1>3, <1>4, <1>5, <1>6, <2>1, <2>2 DEF TypeInv
<1>8. encoder' # "utf_8" => Copied(Coded, dst', 0, i' - 1)
    <2> SUFFICES ASSUME encoder' # "utf_8" PROVE Copied(Coded, dst', 0, i' - 1)
        OBVIOUS
    <2>1. dst' = <<>> /\ i' - 1 = 0
        BY <1>1, <1>2, <1>6
    <2>2. Copied(Coded, <<>>, 0, 0)
        BY CopiedNothing
    <2> QED
        BY <2>1, <2>2
<1>9. Coded' = Coded
    BY <1>1 DEF Coded, Kept
<1>10. encoder' = "iso_2022_jp" => Good(dst, state)'
    <2> SUFFICES ASSUME encoder' = "iso_2022_jp" PROVE Good(dst, state)'
        OBVIOUS
    <2>1. dst' = <<>> /\ Len(dst') = 0 /\ state' = "ascii"
        BY <1>1, <1>2, <1>6
    <2>2. Right(jis, dst, state)'
        BY <2>1 DEF Right, Reads
    <2> QED
        BY <1>6, <2>1, <2>2 DEF Good, NotTorn
<1>11. WrittenInv'
    <2>1. encoder' = Promised(label') /\ mechanism' = MechanismOf(encoder')
        BY <1>1, <1>3
    <2>2. encoder' = "iso_2022_jp" =>
              /\ jis' = [p \in 1..Len(text') |-> JisCode(text'[p])]
              /\ Good(dst, state)'
              /\ i' > Len(text') => state' = "ascii"
        BY <1>1, <1>2, <1>10
    <2>3. encoder' # "iso_2022_jp" =>
              \A k \in 1..Len(dst') : dst'[k].kind = "char" /\ dst'[k].set = encoder'
        BY <1>6
    <2>4. encoder' \in {"iso_2022_jp", "shift_jis", "windows_31j"} =>
              Copied(Coded, dst, 0, i - 1)'
        BY <1>8, <1>9 DEF Copied
    <2>5. encoder' = "utf_8" => Copied(Coded, dst, 0, Len(text))'
        BY <1>1, <1>6, <1>9 DEF Copied
    <2> QED
        BY <2>1, <2>2, <2>3, <2>4, <2>5 DEF WrittenInv
<1> QED
    BY <1>7, <1>11 DEF BodyInv

LEMMA StepBody == BodyInv /\ [Next]_vars => BodyInv'
<1> SUFFICES ASSUME BodyInv, [Next]_vars PROVE BodyInv'
    OBVIOUS
<1>1. CASE UNCHANGED vars
    <2>1. UNCHANGED <<text, label, encoder, mechanism, dst, jis, i, state, line>>
        BY <1>1 DEF vars, bodyVars
    <2>2. TypeInv'
        BY <2>1 DEF BodyInv, TypeInv
    <2>3. Good(dst, state) => Good(dst, state)'
        BY <2>1 DEF Good, Right, NotTorn, EndsLine, IsLast
    <2>4. Coded' = Coded
        BY <2>1 DEF Coded, Kept
    <2>5. \A n \in {i - 1, Len(text)} : Copied(Coded, dst, 0, n) => Copied(Coded', dst', 0, n)
        BY <2>1, <2>4
    <2>6. WrittenInv'
        BY <2>1, <2>3, <2>5 DEF BodyInv, WrittenInv, Copied
    <2> QED
        BY <2>2, <2>6 DEF BodyInv
<1> QED
    BY <1>1, ChooseKeeps, IsoKeeps, ShiftJisKeeps DEF Next, Returned

LEMMA AlwaysBody == Spec => []BodyInv
    BY InitBody, StepBody, PTL DEF Spec

-----------------------------------------------------------------------------

\* For every body and every charset name the variables keep their types, and a
\* line is never counted past 76 between two steps.
THEOREM BodyTypeCorrect == Spec => []TypeOK
<1>1. ASSUME BodyInv PROVE TypeOK
    <2>1. \A k \in 1..Len(dst) : dst[k] \in [kind : Kinds, set : Sets \cup Encoders, at : Nat]
        BY <1>1, ElementOfSeq DEF BodyInv, TypeInv, BodyTokens
    <2> QED
        BY <1>1, <2>1 DEF BodyInv, TypeInv, TypeOK
<1> QED
    BY <1>1, AlwaysBody, PTL

\* At the end of the text the encoder has passed all of it.
LEMMA AtTheEnd ==
    ASSUME BodyInv, Done
    PROVE  /\ encoder = Promised(label) /\ encoder \in Encoders
           /\ mechanism = MechanismOf(encoder)
           /\ Copied(Coded, dst, 0, Len(text))
           /\ encoder = "iso_2022_jp" => Good(dst, "ascii")
<1>1. encoder # "none"
    BY DEF Done
<1>2. encoder \in Encoders
    BY <1>1 DEF BodyInv, TypeInv
<1>3. encoder = Promised(label) /\ mechanism = MechanismOf(encoder)
    BY <1>1 DEF BodyInv, WrittenInv
<1>4. CASE encoder = "utf_8"
    BY <1>2, <1>3, <1>4 DEF BodyInv, WrittenInv
<1>5. CASE encoder # "utf_8"
    <2>1. i > Len(text) /\ Len(text) \in Nat /\ i \in 1..(Len(text) + 1)
        BY <1>5, LenProperties DEF Done, BodyInv, TypeInv
    <2>2. i - 1 = Len(text)
        BY <2>1
    <2>3. encoder \in {"iso_2022_jp", "shift_jis", "windows_31j"}
        BY <1>2, <1>5 DEF Encoders
    <2> QED
        BY <1>2, <1>3, <2>1, <2>2, <2>3 DEF BodyInv, WrittenInv
<1> QED
    BY <1>4, <1>5

\* What a reader finds in force at a token of a good output.
LEMMA GoodReads ==
    ASSUME NEW out, NEW s, Good(out, s)
    PROVE  /\ \A k \in 1..Len(out) :
                  /\ out[k].kind = "char" => InForce(out, k) = SetOf(jis[out[k].at])
                  /\ out[k].kind = "fold" => InForce(out, k) = "ascii"
           /\ InForce(out, Len(out) + 1) = s
<1>1. Len(out) \in Nat
    BY LenProperties DEF Good
<1>2. ASSUME NEW k \in 1..Len(out)
      PROVE  /\ out[k].kind = "char" => InForce(out, k) = SetOf(jis[out[k].at])
             /\ out[k].kind = "fold" => InForce(out, k) = "ascii"
    <2>1. PICK r \in Sets : Reads(out, k, r) /\ RightIn(jis, out[k], r)
        BY DEF Good, Right
    <2>2. InForce(out, k) = r
        BY <1>1, <2>1, ReadsInForce
    <2> QED
        BY <2>1, <2>2 DEF RightIn
<1>3. InForce(out, Len(out) + 1) = s
    BY <1>1, ReadsInForce DEF Good, Right
<1> QED
    BY <1>2, <1>3

\* README, the charset table: a body that names a listed charset is in that
\* charset throughout, one that names any other is in UTF-8 under that name,
\* and neither loses, doubles or moves a character that the charset has.
THEOREM BodyIsAsPromised == Spec => []BodyAsPromised
<1>1. ASSUME BodyInv, Done
      PROVE  /\ \A k \in 1..Len(dst) : dst[k].kind = "char" => ReadAs(k) = WrittenAs(k)
             /\ label \in OtherNames => \A k \in 1..Len(dst) : WrittenAs(k) = "utf_8"
             /\ Complete(Coded, dst)
    <2>1. /\ encoder = Promised(label) /\ Copied(Coded, dst, 0, Len(text))
          /\ encoder = "iso_2022_jp" => Good(dst, "ascii")
        BY <1>1, AtTheEnd
    <2>2. ASSUME NEW k \in 1..Len(dst), dst[k].kind = "char"
          PROVE  ReadAs(k) = WrittenAs(k)
        <3>1. CASE encoder = "iso_2022_jp"
            <4>1. InForce(dst, k) = SetOf(jis[dst[k].at])
                BY <2>1, <2>2, <3>1, GoodReads
            <4> QED
                BY <2>1, <3>1, <4>1 DEF ReadAs, WrittenAs
        <3>2. CASE encoder # "iso_2022_jp"
            <4>1. dst[k].set = encoder
                BY <1>1, <3>2 DEF BodyInv, WrittenInv
            <4> QED
                BY <2>1, <3>2, <4>1 DEF ReadAs, WrittenAs
        <3> QED
            BY <3>1, <3>2
    <2>3. Len(Coded) = Len(text)
        <3>1. Len(text) \in Nat
            BY <1>1, LenProperties DEF BodyInv, TypeInv
        <3> QED
            BY <3>1 DEF Coded
    <2>4. ASSUME label \in OtherNames, NEW k \in 1..Len(dst) PROVE WrittenAs(k) = "utf_8"
        <3>1. label \in NamesOf("utf_8") /\ "utf_8" \in Encoders
            BY <2>4, NamesAre DEF Encoders
        <3>2. encoder = "utf_8"
            <4>1. label \in Names
                BY <1>1 DEF BodyInv, TypeInv
            <4> QED
                BY <2>1, <3>1, <4>1, ChosenIsListed, ChosenIsPromised
        <3>3. dst[k].set = encoder
            BY <1>1, <3>2 DEF BodyInv, WrittenInv
        <3> QED
            BY <3>2, <3>3 DEF WrittenAs
    <2> QED
        BY <2>1, <2>2, <2>3, <2>4 DEF Complete
<1>2. BodyInv => BodyAsPromised
    BY <1>1 DEF BodyAsPromised, Coded
<1> QED
    BY <1>2, AlwaysBody, PTL

\* What is declared as 7bit has no byte above 127.
THEOREM SevenBitHolds == Spec => []SevenBit
<1>1. ASSUME BodyInv, Done, mechanism = "7bit", NEW k \in 1..Len(dst)
      PROVE  dst[k].set \in Sets
    <2>1. encoder = "iso_2022_jp"
        BY <1>1, AtTheEnd DEF MechanismOf
    <2> QED
        BY <1>1, <2>1, AtTheEnd DEF Good
<1>2. BodyInv => SevenBit
    BY <1>1 DEF SevenBit
<1> QED
    BY <1>2, AlwaysBody, PTL

\* README: "ISO-2022-JP returns the state to ASCII before the fold": for every
\* text, at every end of a line and at the end.
THEOREM LinesReturnToAscii == Spec => []LinesEndInAscii
<1>1. ASSUME BodyInv, Done, encoder = "iso_2022_jp" PROVE LinesEndInAscii
    <2>1. Good(dst, "ascii")
        BY <1>1, AtTheEnd
    <2>2. \A k \in 1..Len(dst) :
              /\ dst[k].kind = "char" => InForce(dst, k) = SetOf(jis[dst[k].at])
              /\ dst[k].kind = "fold" => InForce(dst, k) = "ascii"
        BY <2>1, GoodReads
    <2>3. InForce(dst, Len(dst) + 1) = "ascii"
        BY <2>1, GoodReads
    <2>4. \A c \in {"cr", "lf"} : SetOf(c) = "ascii"
        BY DEF SetOf
    <2> QED
        BY <2>2, <2>3, <2>4 DEF LinesEndInAscii
<1>2. BodyInv => LinesEndInAscii
    BY <1>1 DEF LinesEndInAscii
<1> QED
    BY <1>2, AlwaysBody, PTL

\* A line end of the text and a soft break do not mix, for every text.
THEOREM LineEndsStayWhole == Spec => []LineEndsWhole
<1>1. ASSUME BodyInv, NEW k \in 2..(Len(dst) - 1), dst[k].kind = "fold",
             dst[k - 1].kind = "char", dst[k + 1].kind = "char",
             dst[k + 1].at = dst[k - 1].at + 1,
             jis[dst[k - 1].at] = "cr", jis[dst[k + 1].at] = "lf"
      PROVE  FALSE
    <2>1. Len(dst) \in Nat
        BY <1>1, LenProperties DEF BodyInv, TypeInv
    <2>2. k \in 1..Len(dst) /\ k + 1 \in 1..Len(dst) /\ k - 1 \in 1..Len(dst) /\ k \in 2..Len(dst)
        BY <2>1
    <2>3. encoder = "iso_2022_jp"
        <3> SUFFICES ASSUME encoder # "iso_2022_jp" PROVE FALSE
            OBVIOUS
        <3>1. dst[k].kind = "char"
            BY <1>1, <2>2 DEF BodyInv, WrittenInv
        <3> QED
            BY <1>1, <3>1
    <2>4. /\ ~EndsLine(dst[k - 1].at) /\ Copied(Coded, dst, 0, i - 1)
          /\ jis = [p \in 1..Len(text) |-> JisCode(text[p])]
        BY <1>1, <2>2, <2>3 DEF BodyInv, WrittenInv, Good, NotTorn
    <2>5. dst[k + 1].at \in 1..(i - 1) /\ dst[k - 1].at \in 1..(i - 1)
        <3>1. dst[k + 1].at \in PositionsIn(dst) /\ dst[k - 1].at \in PositionsIn(dst)
            BY <1>1, <2>2 DEF PositionsIn
        <3>2. \A p \in PositionsIn(dst) : p \in 1..(i - 1)
            BY <2>4 DEF Copied
        <3> QED
            BY <3>1, <3>2
    <2>6. Len(jis) = Len(text) /\ i \in 1..(Len(text) + 1) /\ Len(text) \in Nat
        BY <1>1, <2>4, LenProperties DEF BodyInv, TypeInv
    <2>7. dst[k - 1].at # Len(jis)
        BY <1>1, <2>5, <2>6
    <2> QED
        BY <1>1, <2>4, <2>7 DEF EndsLine, IsLast
<1>2. BodyInv => LineEndsWhole
    BY <1>1 DEF LineEndsWhole
<1> QED
    BY <1>2, AlwaysBody, PTL

=============================================================================
