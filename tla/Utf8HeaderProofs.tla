-------------------------- MODULE Utf8HeaderProofs --------------------------
(***************************************************************************)
(* Theorems about Utf8Header, for texts of any length, UTF-8 or not.  README *)
(* promises three things of this encoder: every character is kept, none is  *)
(* split, and an encoded word has at most 75 characters.  At the end, where  *)
(* the address that follows is folded, and how long that makes the line.    *)
(***************************************************************************)
EXTENDS Utf8Header, EncoderProofs

\* The lengths a sequence of bytes can have.
LEMMA SeqLenRange == ASSUME NEW b PROVE SeqLen(b) \in 1..4
    BY DEF SeqLen

\* What CharacterAt copies: consecutive positions inside the text.
LEMMA CharacterIsSequence ==
    ASSUME src \in Seq(Bytes), NEW p \in 1..Len(src), IsWhole(p)
    PROVE  /\ CharacterAt(p) \in Seq(1..Len(src))
           /\ Len(CharacterAt(p)) = SeqLen(src[p])
           /\ \A k \in 1..SeqLen(src[p]) : CharacterAt(p)[k] = p + k - 1
<1> DEFINE n == SeqLen(src[p])
<1>1. n \in 1..4
    BY SeqLenRange
<1>2. Len(src) \in Nat
    BY LenProperties
<1>3. p + n - 1 <= Len(src)
    BY <1>1, <1>2 DEF IsWhole, IsCut
<1>4. \A k \in 1..n : p + k - 1 \in 1..Len(src)
    BY <1>1, <1>2, <1>3
<1>5. CharacterAt(p) \in [1..n -> 1..Len(src)]
    BY <1>4 DEF CharacterAt
<1>6. CharacterAt(p) \in Seq(1..Len(src))
    BY <1>1, <1>5, SeqDef
<1>7. Len(CharacterAt(p)) = n
    BY <1>1, <1>5, <1>6, LenProperties
<1> QED
    BY <1>6, <1>7 DEF CharacterAt

\* The buffer with a character added.
LEMMA Collected ==
    ASSUME src \in Seq(Bytes), buf \in Seq(1..Len(src)),
           NEW p \in 1..Len(src), IsWhole(p)
    PROVE  /\ buf \o CharacterAt(p) \in Seq(1..Len(src))
           /\ Len(buf) \in Nat
           /\ Len(buf \o CharacterAt(p)) = Len(buf) + SeqLen(src[p])
           /\ \A k \in 1..Len(buf) : (buf \o CharacterAt(p))[k] = buf[k]
           /\ \A k \in 1..SeqLen(src[p]) :
                  (buf \o CharacterAt(p))[Len(buf) + k] = p + k - 1
<1> DEFINE c == CharacterAt(p)
<1>1. /\ c \in Seq(1..Len(src)) /\ Len(c) = SeqLen(src[p])
      /\ \A k \in 1..SeqLen(src[p]) : c[k] = p + k - 1
    BY CharacterIsSequence
<1>2. SeqLen(src[p]) \in 1..4 /\ Len(buf) \in Nat
    BY SeqLenRange, LenProperties
<1>3. /\ buf \o c \in Seq(1..Len(src))
      /\ Len(buf \o c) = Len(buf) + Len(c)
      /\ \A k \in 1..(Len(buf) + Len(c)) :
             (buf \o c)[k] = IF k <= Len(buf) THEN buf[k] ELSE c[k - Len(buf)]
    BY <1>1, ConcatProperties
<1>4. \A k \in 1..Len(buf) : (buf \o c)[k] = buf[k]
    BY <1>1, <1>2, <1>3
<1>5. \A k \in 1..SeqLen(src[p]) : (buf \o c)[Len(buf) + k] = p + k - 1
    <2> TAKE k \in 1..SeqLen(src[p])
    <2>1. Len(buf) + k \in 1..(Len(buf) + Len(c)) /\ ~(Len(buf) + k <= Len(buf))
        BY <1>1, <1>2
    <2>2. (buf \o c)[Len(buf) + k] = c[Len(buf) + k - Len(buf)]
        BY <1>3, <2>1
    <2> QED
        BY <1>1, <1>2, <2>2
<1> QED
    BY <1>1, <1>2, <1>3, <1>4, <1>5

\* A sequence with one more element.
LEMMA Appended ==
    ASSUME NEW S, NEW s \in Seq(S), NEW e \in S
    PROVE  /\ Append(s, e) \in Seq(S) /\ Append(s, e) # <<>>
           /\ Len(Append(s, e)) = Len(s) + 1 /\ Len(s) \in Nat
           /\ \A k \in 1..Len(s) : Append(s, e)[k] = s[k]
           /\ Append(s, e)[Len(s) + 1] = e
<1>1. /\ Append(s, e) \in Seq(S) /\ Append(s, e) # <<>>
      /\ Len(Append(s, e)) = Len(s) + 1
      /\ \A k \in 1..Len(s) : Append(s, e)[k] = s[k]
      /\ Append(s, e)[Len(s) + 1] = e
    BY AppendProperties
<1> QED
    BY <1>1, LenProperties

-----------------------------------------------------------------------------

\* The limit of the line being written, and what has been made of it.
FitInv ==
    /\ TypeOK
    /\ pc = "scan" => limit = IF words = <<>> THEN FirstLimit(header) ELSE 62
    /\ Base64(Len(buf)) <= limit
    /\ EncodedWordsFit
    /\ WordLinesFit

LEMMA LimitRange ==
    ASSUME NEW h
    PROVE  /\ Indent(h) \in 4..10
           /\ FirstLimit(h) \in 54..60
           /\ Indent(h) + FirstLimit(h) = 64
    BY DEF Indent, NameLength, FirstLimit, UTF8_MAX_LINE_LENGTH, CharsetLength

LEMMA LaterLimit == 75 - EncodedWord(CharsetLength, 0) - 1 = 62
    BY DEF EncodedWord, CharsetLength, Base64

\* What fits a line of base64, and that a single character always does.
LEMMA Base64Bounds ==
    ASSUME NEW n \in Nat
    PROVE  /\ Base64(n) \in Nat
           /\ Base64(n) <= 62 => n <= 45
           /\ n <= 4 => Base64(n) <= 8
    BY DEF Base64

\* One more encoded word, made of the buffer.
LEMMA WordWritten ==
    ASSUME FitInv, pc = "scan", words' = Append(words, buf), header' = header
    PROVE  /\ words' \in Seq(Seq(1..Len(src)))
           /\ words' # <<>>
           /\ EncodedWordsFit'
           /\ WordLinesFit'
<1>0. /\ buf \in Seq(1..Len(src)) /\ words \in Seq(Seq(1..Len(src)))
      /\ Base64(Len(buf)) <= limit /\ EncodedWordsFit /\ WordLinesFit
      /\ limit = IF words = <<>> THEN FirstLimit(header) ELSE 62
    BY DEF FitInv, TypeOK
<1>1. /\ words' \in Seq(Seq(1..Len(src))) /\ words' # <<>>
      /\ Len(words') = Len(words) + 1 /\ Len(words) \in Nat
      /\ \A k \in 1..Len(words) : words'[k] = words[k]
      /\ words'[Len(words) + 1] = buf
    BY <1>0, Appended
<1>2. limit \in 54..62 /\ Indent(header) \in 4..10
    BY <1>0, LimitRange
<1>3. EncodedWord(CharsetLength, Len(buf)) = 12 + Base64(Len(buf))
      /\ Base64(Len(buf)) \in Int
    <2>1. Len(buf) \in Nat
        BY <1>0, LenProperties
    <2> QED
        BY <2>1 DEF EncodedWord, CharsetLength, Base64
<1>4. EncodedWordsFit'
    <2> SUFFICES ASSUME NEW k \in 1..Len(words')
                 PROVE  EncodedWord(CharsetLength, Len(words'[k])) <= EncodedWordLimit
        BY DEF EncodedWordsFit
    <2>1. CASE k \in 1..Len(words)
        BY <1>0, <1>1, <2>1 DEF EncodedWordsFit
    <2>2. CASE k = Len(words) + 1
        BY <1>0, <1>1, <1>2, <1>3, <2>2 DEF EncodedWordLimit
    <2> QED
        BY <1>1, <2>1, <2>2
<1>5. WordLinesFit'
    <2> SUFFICES ASSUME NEW k \in 1..Len(words')
                 PROVE  (IF k = 1 THEN Indent(header) ELSE 1)
                            + EncodedWord(CharsetLength, Len(words'[k])) <= 76
        BY DEF WordLinesFit, WordLine
    <2>1. CASE k \in 1..Len(words)
        BY <1>0, <1>1, <2>1 DEF WordLinesFit, WordLine
    <2>2. CASE k = Len(words) + 1 /\ k = 1
        <3>1. words = <<>>
            BY <1>0, <1>1, <2>2, EmptySeq
        <3>2. limit = FirstLimit(header)
            BY <1>0, <3>1
        <3>3. Indent(header) + limit = 64
            BY <3>2, LimitRange
        <3>4. words'[k] = buf
            BY <1>1, <2>2
        <3>5. EncodedWord(CharsetLength, Len(words'[k])) = 12 + Base64(Len(buf))
            BY <1>3, <3>4
        <3>6. Indent(header) + (12 + Base64(Len(buf))) <= 76
            <4>1. \A m, l, b \in Int : m + l = 64 /\ b <= l => m + (12 + b) <= 76
                OBVIOUS
            <4>2. Base64(Len(buf)) <= limit
                BY <1>0
            <4>3. Indent(header) \in Int /\ limit \in Int /\ Base64(Len(buf)) \in Int
                BY <1>2, <1>3
            <4> QED
                BY <3>3, <4>1, <4>2, <4>3
        <3> QED
            BY <2>2, <3>5, <3>6
    <2>3. CASE k = Len(words) + 1 /\ k # 1
        BY <1>0, <1>1, <1>2, <1>3, <2>3
    <2> QED
        BY <1>1, <2>1, <2>2, <2>3
<1> QED
    BY <1>1, <1>4, <1>5

\* The limit is kept by every step: a character is added only if it fits, and
\* starts a word of its own otherwise.
LEMMA InitFit == Init => FitInv
<1> SUFFICES ASSUME Init PROVE FitInv
    OBVIOUS
<1>1. src \in Seq(Bytes) /\ address \in Nat /\ Len(src) \in Nat
    BY Utf8Constants, LenProperties DEF Init
<1>2. /\ buf \in Seq(1..Len(src)) /\ Len(buf) = 0
      /\ words \in Seq(Seq(1..Len(src))) /\ Len(words) = 0
    BY EmptySeq DEF Init
<1>3. limit \in 54..60 /\ limit = FirstLimit(header)
    BY LimitRange DEF Init
<1>4. EncodedWordsFit /\ WordLinesFit
    BY <1>2 DEF EncodedWordsFit, WordLinesFit, WordLine
<1>5. Base64(Len(buf)) <= limit
    BY <1>2, <1>3 DEF Base64
<1> QED
    BY <1>1, <1>2, <1>3, <1>4, <1>5 DEF Init, FitInv, TypeOK

LEMMA StepFit == FitInv /\ [Next]_vars => FitInv'
<1> SUFFICES ASSUME FitInv, [Next]_vars PROVE FitInv'
    OBVIOUS
<1>t. /\ src \in Seq(Bytes) /\ header \in HeaderNames /\ address \in Nat
      /\ pc \in {"scan", "done"} /\ i \in 1..(Len(src) + 1)
      /\ buf \in Seq(1..Len(src)) /\ Len(buf) <= 45
      /\ words \in Seq(Seq(1..Len(src))) /\ limit \in Int /\ folds \subseteq Nat
      /\ Len(src) \in Nat /\ Len(buf) \in Nat
    BY LenProperties DEF FitInv, TypeOK
<1>f. /\ pc = "scan" => limit = IF words = <<>> THEN FirstLimit(header) ELSE 62
      /\ Base64(Len(buf)) <= limit /\ EncodedWordsFit /\ WordLinesFit
    BY DEF FitInv
<1>l. pc = "scan" => limit \in 54..62
    BY <1>f, LimitRange
<1>1. CASE Stray
    <2>1. UNCHANGED <<src, header, address, pc, buf, words, limit, folds>> /\ i' \in 1..(Len(src) + 1)
        BY <1>1, <1>t DEF Stray
    <2> QED
        BY <2>1, <1>t, <1>f DEF FitInv, TypeOK, EncodedWordsFit, WordLinesFit, WordLine
<1>2. CASE Collect
    <2> DEFINE n == SeqLen(src[i])
    <2>1. i \in 1..Len(src) /\ IsWhole(i) /\ ~TooLong(n) /\ pc = "scan"
        BY <1>2, <1>t DEF Collect
    <2>2. n \in 1..4 /\ i + n - 1 <= Len(src)
        BY <2>1, <1>t, SeqLenRange DEF IsWhole, IsCut
    <2>3. buf' \in Seq(1..Len(src)) /\ Len(buf') = Len(buf) + n
        BY <1>2, <1>t, <2>1, Collected DEF Collect
    <2>4. Base64(Len(buf')) <= limit
        <3>1. CASE buf = <<>>
            <4>0. Len(buf) = 0
                BY <3>1, EmptySeq
            <4>1. Len(buf') \in Nat /\ Len(buf') <= 4
                BY <2>2, <2>3, <4>0
            <4>2. Base64(Len(buf')) \in Nat /\ Base64(Len(buf')) <= 8
                BY <4>1, Base64Bounds
            <4>3. limit \in Int /\ limit >= 54
                BY <2>1, <1>l
            <4>4. \A b \in Nat : \A l \in Int : b <= 8 /\ l >= 54 => b <= l
                OBVIOUS
            <4> QED
                BY <4>2, <4>3, <4>4
        <3>2. CASE buf # <<>>
            <4>1. Base64(Len(buf) + n) <= limit
                <5>1. Base64(Len(buf) + n) \in Int
                    BY <2>2, <1>t DEF Base64
                <5> QED
                    BY <2>1, <3>2, <5>1, <1>t DEF TooLong
            <4> QED
                BY <2>3, <4>1
        <3> QED
            BY <3>1, <3>2
    <2>5. Len(buf') <= 45
        <3>1. Len(buf') \in Nat
            BY <1>t, <2>2, <2>3
        <3>2. Base64(Len(buf')) \in Nat
            BY <3>1, Base64Bounds
        <3>3. limit \in Int /\ limit <= 62
            BY <1>l, <2>1
        <3>4. \A b \in Nat : \A l \in Int : b <= l /\ l <= 62 => b <= 62
            OBVIOUS
        <3>5. Base64(Len(buf')) <= 62
            BY <2>4, <3>2, <3>3, <3>4
        <3> QED
            BY <3>1, <3>5, Base64Bounds
    <2>6. UNCHANGED <<src, header, address, pc, words, limit, folds>> /\ i' \in 1..(Len(src) + 1)
        BY <1>2, <1>t, <2>2 DEF Collect
    <2> QED
        BY <2>3, <2>4, <2>5, <2>6, <1>t, <1>f DEF FitInv, TypeOK, EncodedWordsFit, WordLinesFit, WordLine
<1>3. CASE Flush
    <2> DEFINE n == SeqLen(src[i])
    <2>1. i \in 1..Len(src) /\ IsWhole(i) /\ pc = "scan"
        BY <1>3, <1>t DEF Flush
    <2>2. n \in 1..4 /\ i + n - 1 <= Len(src)
        BY <2>1, <1>t, SeqLenRange DEF IsWhole, IsCut
    <2>3. buf' \in Seq(1..Len(src)) /\ Len(buf') = n
        BY <1>3, <1>t, <2>1, CharacterIsSequence DEF Flush, AfterFlush
    <2>4. /\ words' \in Seq(Seq(1..Len(src))) /\ words' # <<>>
          /\ EncodedWordsFit' /\ WordLinesFit'
        BY <1>3, <2>1, WordWritten DEF Flush
    <2>5. limit' = 62
        BY <1>3, LaterLimit DEF Flush
    <2>6. Base64(Len(buf')) <= limit' /\ Len(buf') <= 45
        BY <2>2, <2>3, <2>5 DEF Base64
    <2>7. UNCHANGED <<src, header, address, pc, folds>> /\ i' \in 1..(Len(src) + 1)
        BY <1>3, <1>t, <2>2 DEF Flush
    <2> QED
        BY <2>3, <2>4, <2>5, <2>6, <2>7, <1>t DEF FitInv, TypeOK
<1>4. CASE AfterText
    <2>1. pc = "scan" /\ pc' = "done" /\ UNCHANGED <<src, header, address, i, limit>>
        BY <1>4 DEF AfterText
    <2>2. buf' \in Seq(1..Len(src)) /\ Len(buf') = 0
        BY <1>4, EmptySeq DEF AfterText
    <2>3. Base64(Len(buf')) <= limit
        BY <2>1, <2>2, <1>l DEF Base64
    <2>4. words' \in Seq(Seq(1..Len(src))) /\ EncodedWordsFit' /\ WordLinesFit'
        <3>1. CASE words' = words
            BY <3>1, <2>1, <1>t, <1>f DEF EncodedWordsFit, WordLinesFit, WordLine
        <3>2. CASE words' = Append(words, buf)
            BY <3>2, <2>1, WordWritten
        <3> QED
            BY <1>4, <3>1, <3>2 DEF AfterText
    <2>5. folds' \subseteq Nat
        BY <1>4, <1>t, AddressFoldsTyped DEF AfterText
    <2> QED
        BY <2>1, <2>2, <2>3, <2>4, <2>5, <1>t DEF FitInv, TypeOK
<1>5. CASE UNCHANGED vars
    BY <1>5, <1>t, <1>f DEF vars, FitInv, TypeOK, EncodedWordsFit, WordLinesFit, WordLine
<1> QED
    BY <1>1, <1>2, <1>3, <1>4, <1>5 DEF Next, Returned

\* convert_to_utf8_header's variables keep their types, and the buffer never
\* outgrows an encoded word.
THEOREM Utf8TypeCorrect == Spec => []TypeOK
<1>1. FitInv => TypeOK
    BY DEF FitInv
<1> QED
    BY <1>1, InitFit, StepFit, PTL DEF Spec

\* No encoded word is longer than 75 characters, whatever the text.
THEOREM Utf8WordsFit == Spec => []EncodedWordsFit
<1>1. FitInv => EncodedWordsFit
    BY DEF FitInv
<1> QED
    BY <1>1, InitFit, StepFit, PTL DEF Spec

-----------------------------------------------------------------------------

\* b is the word w with the character at p added.
Grown(w, p, b) ==
    /\ b \in Seq(1..Len(src))
    /\ Len(b) = Len(w) + SeqLen(src[p])
    /\ \A k \in 1..Len(w) : b[k] = w[k]
    /\ \A k \in 1..SeqLen(src[p]) : b[Len(w) + k] = p + k - 1

LEMMA WholeCharacter ==
    ASSUME src \in Seq(Bytes), NEW p \in 1..Len(src), IsWhole(p)
    PROVE  /\ SeqLen(src[p]) \in 1..4 /\ IsLead(p)
           /\ p + SeqLen(src[p]) - 1 <= Len(src)
           /\ \A d \in 1..(SeqLen(src[p]) - 1) : src[p + d] = "more"
<1>1. SeqLen(src[p]) \in 1..4
    BY SeqLenRange
<1>2. IsLead(p) /\ p + SeqLen(src[p]) - 1 <= Len(src)
    BY <1>1, LenProperties DEF IsWhole, IsCut
<1>3. ASSUME NEW d \in 1..(SeqLen(src[p]) - 1) PROVE src[p + d] = "more"
    <2>1. p + d \in (p + 1)..(p + SeqLen(src[p]) - 1)
        BY <1>1
    <2> QED
        BY <2>1 DEF IsWhole
<1> QED
    BY <1>1, <1>2, <1>3

\* The buffer as it is collected: ascending positions before the next byte,
\* with every character complete.
GoodWord(w, bound) ==
    /\ Ascending(w)
    /\ \A k \in 1..Len(w) : w[k] < bound
    /\ HoldsWhole(w)

LEMMA GoodWordGrows ==
    ASSUME src \in Seq(Bytes), NEW p \in 1..Len(src), IsWhole(p),
           NEW w \in Seq(1..Len(src)), GoodWord(w, p), NEW b, Grown(w, p, b)
    PROVE  GoodWord(b, p + SeqLen(src[p]))
<1> DEFINE n == SeqLen(src[p])
<1>1. /\ n \in 1..4 /\ src[p] # "more" /\ Len(src) \in Nat /\ Len(w) \in Nat
      /\ \A d \in 1..(n - 1) : src[p + d] = "more"
    BY WholeCharacter, LenProperties DEF IsLead
<1>2. /\ Len(b) = Len(w) + n
      /\ \A k \in 1..Len(w) : b[k] = w[k]
      /\ \A k \in 1..n : b[Len(w) + k] = p + k - 1
    BY DEF Grown
<1>3. \A k \in 1..Len(w) : w[k] \in 1..Len(src) /\ w[k] < p
    BY ElementOfSeq DEF GoodWord
<1>4. \A k \in 1..Len(b) :
          \/ k \in 1..Len(w) /\ b[k] = w[k]
          \/ \E j \in 1..n : k = Len(w) + j /\ b[k] = p + j - 1
    <2> TAKE k \in 1..Len(b)
    <2>1. CASE k \in 1..Len(w)
        BY <1>2, <2>1
    <2>2. CASE k - Len(w) \in 1..n
        BY <1>1, <1>2, <2>2
    <2> QED
        BY <1>1, <1>2, <2>1, <2>2
<1>a. \A x : SeqLen(x) \in 1..4
    BY SeqLenRange
<1> HIDE DEF n
<1>5. \A k \in 1..Len(b) : b[k] < p + n
    BY <1>1, <1>3, <1>4
<1>6. Ascending(b)
    <2> SUFFICES ASSUME NEW k \in 1..(Len(b) - 1) PROVE b[k] < b[k + 1]
        BY DEF Ascending
    <2>1. CASE k < Len(w)
        BY <1>1, <1>2, <2>1 DEF GoodWord, Ascending
    <2>2. CASE k = Len(w)
        <3>1. b[k] = w[k] /\ w[k] < p
            BY <1>1, <1>2, <1>3, <2>2
        <3>2. b[k + 1] = p
            BY <1>1, <1>2, <2>2
        <3> QED
            BY <3>1, <3>2
    <2>3. CASE k > Len(w)
        <3>1. PICK j \in 1..n : k = Len(w) + j /\ b[k] = p + j - 1
            <4>1. k \in 1..Len(b) /\ ~(k \in 1..Len(w))
                BY <1>1, <1>2, <2>3
            <4> QED
                BY <1>4, <4>1
        <3>2. j + 1 \in 1..n
            BY <1>1, <1>2, <3>1
        <3>3. b[Len(w) + (j + 1)] = p + (j + 1) - 1
            BY <1>2, <3>2
        <3>4. Len(w) + (j + 1) = k + 1
            BY <1>1, <3>1
        <3> QED
            BY <3>1, <3>3, <3>4
    <2> QED
        BY <1>1, <1>2, <2>1, <2>2, <2>3
<1>7. ASSUME NEW k \in 1..Len(b), IsLead(b[k]), NEW d \in 1..(SeqLen(src[b[k]]) - 1)
      PROVE  k + d <= Len(b) /\ b[k + d] = b[k] + d /\ src[b[k] + d] = "more"
    <2>1. CASE k \in 1..Len(w) /\ b[k] = w[k]
        <3>1. k + d <= Len(w) /\ w[k + d] = w[k] + d /\ src[w[k] + d] = "more"
            BY <1>7, <2>1 DEF GoodWord, HoldsWhole
        <3>2. k + d \in 1..Len(w) /\ k + d <= Len(b)
            BY <1>1, <1>2, <1>a, <2>1, <3>1
        <3> QED
            BY <1>2, <2>1, <3>1, <3>2
    <2>2. ASSUME NEW j \in 1..n, k = Len(w) + j, b[k] = p + j - 1
          PROVE  k + d <= Len(b) /\ b[k + d] = b[k] + d /\ src[b[k] + d] = "more"
        <3>1. j = 1
            <4> SUFFICES ASSUME j # 1 PROVE FALSE
                OBVIOUS
            <4>1. j - 1 \in 1..(n - 1) /\ p + (j - 1) = p + j - 1
                BY <1>1
            <4>2. src[b[k]] = "more"
                BY <1>1, <2>2, <4>1
            <4> QED
                BY <1>7, <4>2 DEF IsLead
        <3>2. b[k] = p /\ d \in 1..(n - 1)
            BY <1>1, <1>7, <2>2, <3>1 DEF n
        <3>3. d + 1 \in 1..n
            BY <1>1, <3>2
        <3>4. b[Len(w) + (d + 1)] = p + (d + 1) - 1
            BY <1>2, <3>3
        <3>5. Len(w) + (d + 1) = k + d /\ k + d <= Len(b)
            BY <1>1, <1>2, <2>2, <3>1, <3>2
        <3>6. b[k + d] = p + (d + 1) - 1
            BY <3>4, <3>5
        <3> QED
            BY <1>1, <3>2, <3>5, <3>6
    <2> QED
        BY <1>4, <2>1, <2>2
<1>8. ASSUME NEW k \in 1..Len(b), src[b[k]] = "more"
      PROVE  k > 1 /\ b[k - 1] = b[k] - 1
    <2>1. CASE k \in 1..Len(w) /\ b[k] = w[k]
        <3>1. k > 1 /\ w[k - 1] = w[k] - 1
            BY <1>8, <2>1 DEF GoodWord, HoldsWhole
        <3>2. k - 1 \in 1..Len(w)
            BY <1>1, <2>1, <3>1
        <3> QED
            BY <1>2, <2>1, <3>1, <3>2
    <2>2. ASSUME NEW j \in 1..n, k = Len(w) + j, b[k] = p + j - 1
          PROVE  k > 1 /\ b[k - 1] = b[k] - 1
        <3>1. j # 1
            BY <1>1, <1>8, <2>2
        <3>2. j - 1 \in 1..n
            BY <1>1, <3>1
        <3>3. b[Len(w) + (j - 1)] = p + (j - 1) - 1
            BY <1>2, <3>2
        <3>4. Len(w) + (j - 1) = k - 1 /\ k > 1
            BY <1>1, <2>2, <3>1
        <3> QED
            BY <2>2, <3>3, <3>4
    <2> QED
        BY <1>4, <2>1, <2>2
<1>9. HoldsWhole(b)
    BY <1>7, <1>8 DEF HoldsWhole
<1> QED
    BY <1>5, <1>6, <1>9 DEF GoodWord, n


\* The last position that was written.
LastWritten == words[Len(words)][Len(words[Len(words)])]

InWords(p) == \E k \in 1..Len(words) : p \in Positions(words[k])

\* Everything before the next byte that is a whole character is in the buffer
\* or in a word, the buffer behind the words.
ReadInv ==
    /\ GoodWord(buf, i)
    /\ CharactersWhole
    /\ InOrder
    /\ words # <<>> => LastWritten < i
    /\ words # <<>> /\ buf # <<>> => LastWritten < buf[1]
    /\ \A p \in 1..Len(src) :
           p < i /\ IsWhole(p) => p \in Positions(buf) \/ InWords(p)
    /\ EveryCharacterKept

\* Words that stay as they are stay whole.
LEMMA WordsStayWhole ==
    ASSUME CharactersWhole, UNCHANGED <<src, words>>
    PROVE  CharactersWhole'
<1> SUFFICES ASSUME NEW k \in 1..Len(words') PROVE HoldsWhole(words[k])'
    BY DEF CharactersWhole
<1>1. PICK w : w = words[k]
    OBVIOUS
<1>2. HoldsWhole(w)
    BY <1>1 DEF CharactersWhole
<1>3. words'[k] = w /\ src' = src
    BY <1>1
<1> QED
    BY <1>2, <1>3 DEF HoldsWhole, IsLead

LEMMA WordEnds ==
    ASSUME FitInv, ReadInv, buf # <<>>, words' = Append(words, buf), src' = src
    PROVE  /\ CharactersWhole' /\ InOrder'
           /\ words' # <<>> /\ LastWritten' < i
           /\ \A p \in 1..Len(src) : p \in Positions(buf) \/ InWords(p) => InWords(p)'
<1>1. /\ buf \in Seq(1..Len(src)) /\ words \in Seq(Seq(1..Len(src)))
      /\ i \in Nat /\ Len(src) \in Nat
    BY LenProperties DEF FitInv, TypeOK
<1>2. /\ Len(words') = Len(words) + 1 /\ Len(words) \in Nat /\ words' # <<>>
      /\ \A k \in 1..Len(words) : words'[k] = words[k]
      /\ words'[Len(words) + 1] = buf
    BY <1>1, Appended
<1>3. Len(buf) \in Nat \ {0}
    BY <1>1, EmptySeq
<1>4. GoodWord(buf, i)
    BY DEF ReadInv
<1>5. CharactersWhole'
    <2> SUFFICES ASSUME NEW k \in 1..Len(words') PROVE HoldsWhole(words[k])'
        BY DEF CharactersWhole
    <2>1. PICK w : w = words'[k]
        OBVIOUS
    <2>3. HoldsWhole(w)
        <3>1. CASE k \in 1..Len(words)
            BY <1>2, <2>1, <3>1 DEF ReadInv, CharactersWhole
        <3>2. CASE k = Len(words) + 1
            BY <1>2, <1>4, <2>1, <3>2 DEF GoodWord
        <3> QED
            BY <1>2, <3>1, <3>2
    <2> QED
        BY <2>1, <2>3 DEF HoldsWhole, IsLead
<1>6. ASSUME NEW k \in 1..Len(words') PROVE words'[k] # <<>> /\ Ascending(words'[k])
    <2>1. CASE k \in 1..Len(words)
        BY <1>2, <2>1 DEF ReadInv, InOrder
    <2>2. CASE k = Len(words) + 1
        BY <1>2, <1>4, <2>2 DEF GoodWord
    <2> QED
        BY <1>2, <2>1, <2>2
<1>7. ASSUME NEW k \in 1..(Len(words') - 1)
      PROVE  words'[k][Len(words'[k])] < words'[k + 1][1]
    <2>1. CASE k < Len(words)
        <3>1. k \in 1..Len(words) /\ k + 1 \in 1..Len(words) /\ k \in 1..(Len(words) - 1)
            BY <1>2, <2>1
        <3> QED
            BY <1>2, <3>1 DEF ReadInv, InOrder
    <2>2. CASE k = Len(words)
        <3>1. k \in 1..Len(words) /\ words # <<>>
            BY <1>1, <1>2, <2>2, EmptySeq
        <3>2. words'[k] = words[Len(words)] /\ words'[k + 1] = buf
            BY <1>2, <2>2, <3>1
        <3>3. LastWritten < buf[1]
            BY <3>1 DEF ReadInv
        <3> QED
            BY <3>2, <3>3 DEF LastWritten
    <2> QED
        BY <1>2, <2>1, <2>2
<1>8. InOrder'
    BY <1>6, <1>7 DEF InOrder, Ascending
<1>9. LastWritten' < i
    <2>1. LastWritten' = buf[Len(buf)]
        BY <1>2 DEF LastWritten
    <2>2. Len(buf) \in 1..Len(buf)
        BY <1>3
    <2> QED
        BY <1>4, <2>1, <2>2 DEF GoodWord
<1>10. ASSUME NEW p \in 1..Len(src), p \in Positions(buf) \/ InWords(p) PROVE InWords(p)'
    <2>1. CASE p \in Positions(buf)
        <3>1. p \in Positions(words'[Len(words) + 1]) /\ Len(words) + 1 \in 1..Len(words')
            BY <1>2, <2>1
        <3> QED
            BY <3>1 DEF InWords, Positions
    <2>2. CASE InWords(p)
        <3>1. PICK k \in 1..Len(words) : p \in Positions(words[k])
            BY <2>2 DEF InWords
        <3>2. k \in 1..Len(words') /\ p \in Positions(words'[k])
            BY <1>2, <3>1
        <3> QED
            BY <3>2 DEF InWords, Positions
    <2> QED
        BY <1>10, <2>1, <2>2
<1> QED
    BY <1>2, <1>5, <1>8, <1>9, <1>10

LEMMA InitRead == Init => ReadInv
<1> SUFFICES ASSUME Init PROVE ReadInv
    OBVIOUS
<1>1. buf = <<>> /\ words = <<>> /\ pc = "scan" /\ i = 1 /\ Len(buf) = 0 /\ Len(words) = 0
    BY EmptySeq DEF Init
<1>2. GoodWord(buf, i)
    BY <1>1 DEF GoodWord, Ascending, HoldsWhole
<1>3. CharactersWhole /\ InOrder
    BY <1>1 DEF CharactersWhole, InOrder
<1>4. \A p \in 1..Len(src) : ~(p < i)
    BY <1>1
<1> QED
    BY <1>1, <1>2, <1>3, <1>4 DEF ReadInv, EveryCharacterKept

\* A step that writes no word.
LEMMA SameWords ==
    ASSUME CharactersWhole, InOrder, UNCHANGED <<src, words>>
    PROVE  /\ CharactersWhole' /\ InOrder' /\ LastWritten' = LastWritten
           /\ \A p : InWords(p)' <=> InWords(p)
<1>1. CharactersWhole'
    BY WordsStayWhole
<1>2. InOrder' /\ LastWritten' = LastWritten
    BY DEF InOrder, Ascending, LastWritten
<1>3. \A p : InWords(p)' <=> InWords(p)
    BY DEF InWords, Positions
<1> QED
    BY <1>1, <1>2, <1>3

\* The invariant of the next state, from what is known of its buffer w.
LEMMA ReadNext ==
    ASSUME src' = src, NEW w, w = buf', NEW b, b = i',
           GoodWord(w, b), CharactersWhole', InOrder',
           words' # <<>> => LastWritten' < b,
           words' # <<>> /\ w # <<>> => LastWritten' < w[1],
           \A p \in 1..Len(src) : p < b /\ IsWhole(p) => p \in Positions(w) \/ InWords(p)',
           EveryCharacterKept'
    PROVE  ReadInv'
<1>1. GoodWord(buf, i)'
    BY DEF GoodWord, Ascending, HoldsWhole, IsLead
<1>2. ASSUME NEW p \in 1..Len(src'), p < i', IsWhole(p)'
      PROVE  p \in Positions(buf)' \/ InWords(p)'
    <2>1. p \in 1..Len(src) /\ p < b /\ IsWhole(p)
        BY <1>2 DEF IsWhole, IsCut, IsLead
    <2>2. p \in Positions(w) \/ InWords(p)'
        BY <2>1
    <2> QED
        BY <2>2 DEF Positions
<1> QED
    BY <1>1, <1>2 DEF ReadInv

LEMMA StepRead == FitInv /\ ReadInv /\ [Next]_vars => ReadInv'
<1> SUFFICES ASSUME FitInv, ReadInv, [Next]_vars PROVE ReadInv'
    OBVIOUS
<1>t. /\ src \in Seq(Bytes) /\ i \in 1..(Len(src) + 1) /\ Len(src) \in Nat
      /\ buf \in Seq(1..Len(src)) /\ words \in Seq(Seq(1..Len(src))) /\ Len(buf) \in Nat
    BY LenProperties DEF FitInv, TypeOK
<1>r. /\ GoodWord(buf, i) /\ CharactersWhole /\ InOrder
      /\ words # <<>> => LastWritten < i
      /\ words # <<>> /\ buf # <<>> => LastWritten < buf[1]
      /\ \A p \in 1..Len(src) : p < i /\ IsWhole(p) => p \in Positions(buf) \/ InWords(p)
    BY DEF ReadInv
<1>w. words # <<>> => LastWritten \in Nat
    <2> SUFFICES ASSUME words # <<>> PROVE LastWritten \in Nat
        OBVIOUS
    <2>1. Len(words) \in 1..Len(words)
        BY <1>t, EmptySeq
    <2>2. words[Len(words)] \in Seq(1..Len(src)) /\ words[Len(words)] # <<>>
        BY <1>t, <1>r, <2>1, ElementOfSeq DEF InOrder
    <2>3. Len(words[Len(words)]) \in 1..Len(words[Len(words)])
        BY <2>2, EmptySeq
    <2> QED
        BY <2>2, <2>3, ElementOfSeq DEF LastWritten
<1>1. CASE Stray
    <2>1. /\ UNCHANGED <<src, buf, words, pc>> /\ i' = i + 1 /\ pc = "scan" /\ ~IsWhole(i)
        BY <1>1 DEF Stray
    <2>2. \A k \in 1..Len(buf) : buf[k] \in Nat
        BY <1>t, ElementOfSeq
    <2>3. GoodWord(buf, i + 1)
        BY <1>t, <1>r, <2>2 DEF GoodWord
    <2>4. \A p \in 1..Len(src) : p < i + 1 => p < i \/ p = i
        BY <1>t
    <2>5. words # <<>> => LastWritten < i + 1
        BY <1>t, <1>r, <1>w
    <2>6. \A p \in 1..Len(src) : p < i + 1 /\ IsWhole(p) => p \in Positions(buf) \/ InWords(p)
        BY <1>r, <2>1, <2>4
    <2>7. /\ CharactersWhole' /\ InOrder' /\ LastWritten' = LastWritten
          /\ \A p : InWords(p)' <=> InWords(p)
        BY <1>r, <2>1, SameWords
    <2>8. EveryCharacterKept'
        BY <2>1 DEF EveryCharacterKept
    <2>9. buf = buf' /\ i + 1 = i'
        BY <2>1
    <2> QED
        BY <1>r, <2>1, <2>3, <2>5, <2>6, <2>7, <2>8, <2>9, ReadNext
<1>2. CASE Collect
    <2> DEFINE n == SeqLen(src[i])
    <2>1. /\ pc = "scan" /\ i \in 1..Len(src) /\ IsWhole(i) /\ i' = i + n
          /\ buf' = buf \o CharacterAt(i) /\ UNCHANGED <<src, words, pc>>
        BY <1>2, <1>t DEF Collect
    <2>2. PICK w : w = buf'
        OBVIOUS
    <2>3. PICK b : b = i'
        OBVIOUS
    <2>4. Grown(buf, i, w) /\ w \in Seq(1..Len(src))
        BY <1>t, <2>1, <2>2, Collected DEF Grown
    <2>5. GoodWord(w, b)
        BY <1>t, <1>r, <2>1, <2>3, <2>4, GoodWordGrows
    <2>6. n \in 1..4 /\ \A d \in 1..(n - 1) : src[i + d] = "more"
        BY <1>t, <2>1, WholeCharacter
    <2> HIDE DEF n
    <2>7. words # <<>> => LastWritten < b
        BY <1>t, <1>r, <1>w, <2>1, <2>3, <2>6
    <2>8. words # <<>> => LastWritten < w[1]
        <3>1. CASE buf = <<>>
            <4>1. Len(buf) = 0
                BY <3>1, EmptySeq
            <4>2. w[Len(buf) + 1] = i + 1 - 1
                BY <2>4, <2>6 DEF Grown, n
            <4> QED
                BY <1>t, <1>r, <1>w, <4>1, <4>2
        <3>2. CASE buf # <<>>
            <4>1. 1 \in 1..Len(buf)
                BY <1>t, <3>2, EmptySeq
            <4> QED
                BY <1>r, <2>4, <3>2, <4>1 DEF Grown
        <3> QED
            BY <3>1, <3>2
    <2>9. ASSUME NEW p \in 1..Len(src), p < b, IsWhole(p)
          PROVE  p \in Positions(w) \/ InWords(p)
        <3>1. CASE p < i
            <4>1. Positions(buf) \subseteq Positions(w)
                <5>1. \A k \in 1..Len(buf) : k \in 1..Len(w) /\ w[k] = buf[k]
                    <6>1. Len(w) = Len(buf) + n /\ \A k \in 1..Len(buf) : w[k] = buf[k]
                        BY <2>4 DEF Grown, n
                    <6>2. Len(buf) \in Nat
                        BY <1>t
                    <6>3. 1..Len(buf) \subseteq 1..Len(w)
                        BY <2>6, <6>1, <6>2
                    <6> QED
                        BY <6>1, <6>3
                <5> QED
                    BY <5>1 DEF Positions
            <4> QED
                BY <1>r, <2>9, <3>1, <4>1
        <3>2. CASE p = i
            <4>1. Len(buf) + 1 \in 1..Len(w) /\ w[Len(buf) + 1] = i + 1 - 1
                <5>1. 1 \in 1..n /\ Len(w) = Len(buf) + n
                    BY <2>4, <2>6 DEF Grown, n
                <5>2. w[Len(buf) + 1] = i + 1 - 1
                    BY <2>4, <5>1 DEF Grown, n
                <5> QED
                    BY <1>t, <2>6, <5>1, <5>2
            <4>2. w[Len(buf) + 1] = p
                BY <1>t, <3>2, <4>1
            <4> QED
                BY <4>1, <4>2 DEF Positions
        <3>3. CASE p > i
            <4>1. p - i \in 1..(n - 1) /\ p = i + (p - i)
                BY <1>t, <2>1, <2>3, <2>6, <2>9, <3>3
            <4>2. src[p] = "more"
                BY <2>6, <4>1
            <4> QED
                BY <2>9, <4>2 DEF IsWhole, IsLead
        <3> QED
            BY <1>t, <3>1, <3>2, <3>3
    <2>10. CharactersWhole' /\ InOrder' /\ LastWritten' = LastWritten
        BY <1>r, <2>1, SameWords
    <2>11. \A p : InWords(p)' <=> InWords(p)
        BY <2>1 DEF InWords, Positions
    <2>12. EveryCharacterKept'
        BY <2>1 DEF EveryCharacterKept
    <2> QED
        BY <2>1, <2>2, <2>3, <2>5, <2>7, <2>8, <2>9, <2>10, <2>11, <2>12, ReadNext
<1>3. CASE Flush
    <2> DEFINE n == SeqLen(src[i])
    <2>1. /\ pc = "scan" /\ i \in 1..Len(src) /\ IsWhole(i) /\ i' = i + n
          /\ buf # <<>> /\ buf' = CharacterAt(i) /\ words' = Append(words, buf)
          /\ UNCHANGED <<src, pc>>
        BY <1>3, <1>t DEF Flush, AfterFlush, TooLong
    <2>2. PICK w : w = buf'
        OBVIOUS
    <2>3. PICK b : b = i'
        OBVIOUS
    <2>4. /\ w \in Seq(1..Len(src)) /\ Len(w) = n
          /\ \A k \in 1..n : w[k] = i + k - 1
        BY <1>t, <2>1, <2>2, CharacterIsSequence
    <2>6. n \in 1..4 /\ \A d \in 1..(n - 1) : src[i + d] = "more"
        BY <1>t, <2>1, WholeCharacter
    <2>5. GoodWord(w, b)
        <3>1. <<>> \in Seq(1..Len(src)) /\ Len(<<>>) = 0
            BY EmptySeq
        <3>2. GoodWord(<<>>, i)
            BY <3>1 DEF GoodWord, Ascending, HoldsWhole
        <3>3. Grown(<<>>, i, w)
            <4>1. \A k \in 1..n : Len(<<>>) + k = k
                BY <2>6, <3>1
            <4>2. \A k \in 1..n : w[Len(<<>>) + k] = i + k - 1
                BY <2>4, <4>1
            <4>3. Len(w) = Len(<<>>) + n
                BY <2>4, <2>6, <3>1
            <4> QED
                BY <2>4, <3>1, <4>2, <4>3 DEF Grown
        <3> QED
            BY <1>t, <2>1, <2>3, <3>1, <3>2, <3>3, GoodWordGrows
    <2> HIDE DEF n
    <2>7. /\ CharactersWhole' /\ InOrder' /\ words' # <<>> /\ LastWritten' < i
          /\ \A p \in 1..Len(src) : p \in Positions(buf) \/ InWords(p) => InWords(p)'
        BY <2>1, WordEnds
    <2>8. LastWritten' < w[1] /\ LastWritten' < b
        <3>1. w[1] = i + 1 - 1
            BY <2>4, <2>6
        <3>2. LastWritten' \in Nat
            <4>1. Len(buf) \in 1..Len(buf)
                BY <1>t, <2>1, EmptySeq
            <4>2. words'[Len(words')] = buf
                BY <1>t, <2>1, Appended
            <4> QED
                BY <1>t, <4>1, <4>2, ElementOfSeq DEF LastWritten
        <3> QED
            BY <1>t, <2>1, <2>3, <2>6, <2>7, <3>1, <3>2
    <2>9. ASSUME NEW p \in 1..Len(src), p < b, IsWhole(p)
          PROVE  p \in Positions(w) \/ InWords(p)'
        <3>1. CASE p < i
            BY <1>r, <2>7, <2>9, <3>1
        <3>2. CASE p = i
            <4>1. 1 \in 1..Len(w) /\ w[1] = p
                BY <1>t, <2>4, <2>6, <3>2
            <4> QED
                BY <4>1 DEF Positions
        <3>3. CASE p > i
            <4>1. p - i \in 1..(n - 1) /\ p = i + (p - i)
                BY <1>t, <2>1, <2>3, <2>6, <2>9, <3>3
            <4>2. src[p] = "more"
                BY <2>6, <4>1
            <4> QED
                BY <2>9, <4>2 DEF IsWhole, IsLead
        <3> QED
            BY <1>t, <3>1, <3>2, <3>3
    <2>12. EveryCharacterKept'
        BY <2>1 DEF EveryCharacterKept
    <2> QED
        BY <2>1, <2>2, <2>3, <2>5, <2>7, <2>8, <2>9, <2>12, ReadNext
<1>4. CASE AfterText
    <2>1. /\ pc = "scan" /\ pc' = "done" /\ UNCHANGED <<src, i>> /\ buf' = <<>>
          /\ words' = IF buf = <<>> THEN words ELSE Append(words, buf)
          /\ i <= Len(src) => IsCut(i)
        BY <1>4 DEF AfterText
    <2>2. /\ CharactersWhole' /\ InOrder' /\ (words' # <<>> => LastWritten' < i)
          /\ \A p \in 1..Len(src) : p \in Positions(buf) \/ InWords(p) => InWords(p)'
        <3>1. CASE buf = <<>>
            <4>1. words' = words /\ Positions(buf) = {}
                BY <2>1, <3>1, EmptySeq DEF Positions
            <4>2. CharactersWhole' /\ InOrder' /\ LastWritten' = LastWritten
                <5>1. CharactersWhole'
                    BY <1>r, <2>1, <4>1, WordsStayWhole
                <5>2. InOrder' /\ LastWritten' = LastWritten
                    BY <1>r, <4>1 DEF InOrder, Ascending, LastWritten
                <5> QED
                    BY <5>1, <5>2
            <4>3. \A p : InWords(p)' <=> InWords(p)
                BY <4>1 DEF InWords, Positions
            <4> QED
                BY <1>r, <4>1, <4>2, <4>3
        <3>2. CASE buf # <<>>
            BY <2>1, <3>2, WordEnds
        <3> QED
            BY <3>1, <3>2
    <2>3. PICK w : w = buf'
        OBVIOUS
    <2>4. PICK b : b = i'
        OBVIOUS
    <2>5. w = <<>> /\ Len(w) = 0 /\ b = i
        BY <2>1, <2>3, <2>4, EmptySeq
    <2>6. GoodWord(w, b)
        BY <2>5 DEF GoodWord, Ascending, HoldsWhole
    <2>7. \A p \in 1..Len(src) : p < b /\ IsWhole(p) => InWords(p)'
        BY <1>r, <2>2, <2>5
    <2>8. EveryCharacterKept'
        <3> SUFFICES ASSUME NEW p \in 1..Len(src), IsWhole(p), \A q \in 1..p : ~IsCut(q)
                     PROVE  InWords(p)'
            BY <2>1 DEF EveryCharacterKept, InWords, IsWhole, IsCut, IsLead
        <3>1. p < i
            <4> SUFFICES ASSUME ~(p < i) PROVE FALSE
                OBVIOUS
            <4>1. i \in 1..p /\ i <= Len(src)
                BY <1>t
            <4> QED
                BY <2>1, <4>1
        <3> QED
            BY <2>5, <2>7, <3>1
    <2> QED
        BY <2>1, <2>2, <2>3, <2>4, <2>5, <2>6, <2>7, <2>8, ReadNext
<1>5. CASE UNCHANGED vars
    <2>1. UNCHANGED <<src, words, pc>> /\ buf = buf' /\ i = i'
        BY <1>5 DEF vars
    <2>2. /\ CharactersWhole' /\ InOrder' /\ LastWritten' = LastWritten
          /\ \A p : InWords(p)' <=> InWords(p)
        BY <1>r, <2>1, SameWords
    <2>3. EveryCharacterKept'
        BY <2>1 DEF ReadInv, EveryCharacterKept, IsWhole, IsCut, IsLead, Positions
    <2> QED
        BY <1>r, <2>1, <2>2, <2>3, ReadNext
<1> QED
    BY <1>1, <1>2, <1>3, <1>4, <1>5 DEF Next, Returned

\* README: "never splits one between two encoded words".
THEOREM Utf8CharactersWhole == Spec => []CharactersWhole
<1>1. ReadInv => CharactersWhole
    BY DEF ReadInv
<1> QED
    BY <1>1, InitFit, StepFit, InitRead, StepRead, PTL DEF Spec

\* README: "keeps every character", of texts that are not UTF-8 those that are
\* whole, up to a sequence that runs over the end.
THEOREM Utf8EveryCharacter == Spec => []EveryCharacterKept
<1>1. ReadInv => EveryCharacterKept
    BY DEF ReadInv
<1> QED
    BY <1>1, InitFit, StepFit, InitRead, StepRead, PTL DEF Spec

\* The words, read one after the other, give the text in its order and
\* nothing of it twice.
THEOREM Utf8InOrder == Spec => []InOrder
<1>1. ReadInv => InOrder
    BY DEF ReadInv
<1> QED
    BY <1>1, InitFit, StepFit, InitRead, StepRead, PTL DEF Spec


-----------------------------------------------------------------------------

\* The limit the address is held to, on the first line or a later one.
AddressInv ==
    /\ limit \in 54..62
    /\ pc = "done" => folds = AddressFolds(address, src # <<>>, limit)

LEMMA InitAddress == Init => AddressInv
BY LimitRange DEF Init, AddressInv

LEMMA StepAddress == AddressInv /\ [Next]_vars => AddressInv'
<1> SUFFICES ASSUME AddressInv, [Next]_vars PROVE AddressInv'
    OBVIOUS
<1> USE DEF AddressInv
<1>1. CASE Stray \/ Collect
    BY <1>1 DEF Stray, Collect
<1>2. CASE Flush
    BY <1>2, LaterLimit DEF Flush
<1>3. CASE AfterText
    BY <1>3 DEF AfterText
<1>4. CASE UNCHANGED vars
    BY <1>4 DEF vars
<1> QED
    BY <1>1, <1>2, <1>3, <1>4 DEF Next, Returned

\* Which addresses are folded in the middle, exactly: for any text before them,
\* any header and any length.
THEOREM Utf8AddressCut == Spec => []AddressCutExactly
<1>1. FitInv /\ AddressInv => AddressCutExactly
    <2> SUFFICES ASSUME FitInv, AddressInv, pc = "done"
                 PROVE  AddressIsWhole <=>
                            IF src = <<>> THEN address < limit
                            ELSE 2 * address + 5 < limit
                                 \/ address \in (limit - 6)..(limit - 3)
        BY DEF AddressCutExactly
    <2>1. address \in Nat /\ limit \in Nat /\ limit >= 8
        BY DEF FitInv, TypeOK, AddressInv
    <2>2. AddressIsWhole <=> WholeAddress(address, src # <<>>, limit)
        BY <2>1, AddressFoldsInside DEF AddressInv, AddressIsWhole
    <2> QED
        BY <2>2 DEF WholeAddress
<1> QED
    BY <1>1, InitFit, StepFit, InitAddress, StepAddress, PTL DEF Spec

\* Lines have the later limit only after a fold, and there is a word on them.
LastLineInv ==
    limit > 60 =>
        /\ words # <<>>
        /\ pc = "scan" => buf # <<>>
        /\ pc = "done" => Len(words) > 1

LEMMA StepLastLine == FitInv /\ LastLineInv /\ [Next]_vars => LastLineInv'
<1> SUFFICES ASSUME FitInv, LastLineInv, [Next]_vars, limit' > 60
             PROVE  /\ words' # <<>>
                    /\ pc' = "scan" => buf' # <<>>
                    /\ pc' = "done" => Len(words') > 1
    BY DEF LastLineInv
<1>t. /\ src \in Seq(Bytes) /\ i \in 1..(Len(src) + 1) /\ Len(src) \in Nat
      /\ buf \in Seq(1..Len(src)) /\ words \in Seq(Seq(1..Len(src)))
    BY LenProperties DEF FitInv, TypeOK
<1>1. CASE Stray
    BY <1>1 DEF Stray, LastLineInv
<1>2. CASE Collect
    <2>1. /\ i \in 1..Len(src) /\ IsWhole(i) /\ buf' = buf \o CharacterAt(i)
          /\ UNCHANGED <<words, limit, pc>> /\ pc = "scan"
        BY <1>2, <1>t DEF Collect
    <2>2. Len(buf') = Len(buf) + SeqLen(src[i]) /\ Len(buf) \in Nat
        BY <1>t, <2>1, Collected
    <2>3. Len(buf') > 0
        BY <2>2, SeqLenRange
    <2>4. buf' # <<>>
        BY <2>3, EmptySeq
    <2> QED
        BY <2>1, <2>4 DEF LastLineInv
<1>3. CASE Flush
    <2>1. /\ i \in 1..Len(src) /\ IsWhole(i) /\ buf' = CharacterAt(i)
          /\ words' = Append(words, buf) /\ pc = "scan" /\ pc' = pc
        BY <1>3, <1>t DEF Flush, AfterFlush
    <2>2. Len(buf') = SeqLen(src[i])
        BY <1>t, <2>1, CharacterIsSequence
    <2>3. buf' # <<>>
        BY <2>2, SeqLenRange, EmptySeq
    <2>4. words' # <<>>
        <3>1. words \in Seq(Seq(1..Len(src))) /\ buf \in Seq(1..Len(src))
            BY <1>t
        <3>2. /\ Len(Append(words, buf)) = Len(words) + 1 /\ Len(words) \in Nat
              /\ Append(words, buf) # <<>>
            BY <3>1, Appended
        <3> QED
            BY <2>1, <3>2
    <2> QED
        BY <2>1, <2>3, <2>4
<1>4. CASE AfterText
    <2>1. /\ pc = "scan" /\ pc' = "done" /\ limit' = limit
          /\ words' = IF buf = <<>> THEN words ELSE Append(words, buf)
        BY <1>4 DEF AfterText
    <2>2. words # <<>> /\ words' = Append(words, buf)
        BY <2>1 DEF LastLineInv
    <2>3. Len(words') = Len(words) + 1 /\ Len(words) \in Nat /\ words' # <<>>
        <3>1. words \in Seq(Seq(1..Len(src))) /\ buf \in Seq(1..Len(src))
            BY <1>t
        <3>2. /\ Len(Append(words, buf)) = Len(words) + 1 /\ Len(words) \in Nat
              /\ Append(words, buf) # <<>>
            BY <3>1, Appended
        <3> QED
            BY <2>2, <3>2
    <2>4. Len(words) # 0
        BY <1>t, <2>2, EmptySeq
    <2> QED
        BY <2>1, <2>3, <2>4
<1>5. CASE UNCHANGED vars
    BY <1>5 DEF vars, LastLineInv
<1> QED
    BY <1>1, <1>2, <1>3, <1>4, <1>5 DEF Next, Returned

\* The line the address begins on: the word leaves off at column 76 at most, and
\* half a line of address follows; a full line of base64 is 60 characters, not 62.
LEMMA LastLineFits == FitInv /\ InOrder /\ AddressInv /\ LastLineInv => AddressLineFits
<1> SUFFICES ASSUME FitInv, InOrder, AddressInv, LastLineInv,
                    pc = "done", words # <<>>, address > 0,
                    NEW j \in 1..AddressText(address, src # <<>>),
                    \A f \in folds : j < f
             PROVE  WordLine(Len(words)) + j <= 105
    BY DEF AddressLineFits
<1> DEFINE n == Len(words[Len(words)])
<1>1. /\ address \in Nat /\ limit \in 54..62 /\ header \in HeaderNames
      /\ src \in Seq(Bytes) /\ words \in Seq(Seq(1..Len(src)))
      /\ folds = AddressFolds(address, src # <<>>, limit)
    BY DEF FitInv, TypeOK, AddressInv
<1>2. Len(words) \in 1..Len(words)
    BY <1>1, EmptySeq, LenProperties
<1>3. words[Len(words)] \in Seq(1..Len(src))
    BY <1>1, <1>2, ElementOfSeq
<1>4. n \in Nat
    BY <1>3, LenProperties
<1>5. src # <<>>
    <2>1. words[Len(words)] # <<>>
        BY <1>2 DEF InOrder
    <2>2. Len(words[Len(words)]) # 0
        BY <1>3, <2>1, EmptySeq
    <2>3. 1 \in 1..n
        BY <1>4, <2>2
    <2>4. words[Len(words)][1] \in 1..Len(src)
        BY <1>3, <2>3, ElementOfSeq
    <2>5. Len(src) # 0
        BY <2>4
    <2> QED
        BY <2>5, EmptySeq
<1>6. j \in Nat /\ 2 * j < limit
    <2>1. j \in 1..AddressText(address, TRUE)
        BY <1>5
    <2>2. \A f \in AddressFolds(address, TRUE, limit) : j < f
        BY <1>1, <1>5
    <2>3. limit \in Nat /\ limit > 2 /\ address \in Nat /\ address > 0
        BY <1>1
    <2>4. 2 * j < limit
        BY <2>1, <2>2, <2>3, AddressBeside
    <2> QED
        BY <2>1, <2>3, <2>4 DEF AddressText
<1>7. /\ EncodedWord(CharsetLength, n) = 12 + Base64(n)
      /\ \E m \in Nat : Base64(n) = 4 * m
    <2> HIDE DEF n
    <2> DEFINE m == (n + 2) \div 3
    <2>1. m \in Nat /\ Base64(n) = 4 * m
        BY <1>4 DEF Base64
    <2>2. EncodedWord(CharsetLength, n) = 5 + 5 + Base64(n) + 2
        BY DEF EncodedWord, CharsetLength
    <2> HIDE DEF m
    <2> QED
        BY <2>1, <2>2
<1>l. WordLine(Len(words)) \in Nat /\ WordLine(Len(words)) <= 76
    <2>1. Indent(header) \in Nat
        BY LimitRange
    <2>2. WordLine(Len(words)) \in Nat
        BY <1>7, <2>1 DEF WordLine
    <2> QED
        BY <1>2, <2>2 DEF FitInv, WordLinesFit
<1>8. CASE limit <= 60
    BY <1>1, <1>6, <1>l, <1>8
<1>9. CASE limit > 60
    <2>1. Len(words) > 1
        BY <1>9 DEF LastLineInv
    <2>2. WordLine(Len(words)) = 13 + Base64(n)
        BY <1>7, <2>1 DEF WordLine
    <2>3. 13 + Base64(n) <= 73
        BY <1>7, <1>l, <2>2
    <2> QED
        BY <1>1, <1>6, <2>2, <2>3, <1>7
<1> QED
    BY <1>1, <1>8, <1>9

\* Up to the end of the last word no header line is longer than 76 characters;
\* with the address that begins there it has 105 at most.
THEOREM Utf8LinesFit == Spec => []HeaderLinesFit
<1>1. Init => LastLineInv
    BY LimitRange DEF Init, LastLineInv
<1>2. FitInv /\ ReadInv /\ AddressInv /\ LastLineInv => HeaderLinesFit
    BY LastLineFits DEF FitInv, ReadInv, HeaderLinesFit
<1> QED
    BY <1>1, <1>2, InitFit, StepFit, InitRead, StepRead, InitAddress, StepAddress, StepLastLine, PTL DEF Spec

=============================================================================
