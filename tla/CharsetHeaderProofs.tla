------------------------ MODULE CharsetHeaderProofs ------------------------
(***************************************************************************)
(* Theorems about CharsetHeader, for texts of any length in any of the      *)
(* three charsets: what the encoded words hold, that each can be decoded by *)
(* itself, and where the header and the address after it are folded.        *)
(***************************************************************************)
EXTENDS CharsetHeader, EncoderProofs

\* A word is never longer than a line leaves room for.
TypeInv == TypeOK /\ limit <= 64

LEMMA LimitRange ==
    ASSUME NEW c, NEW h
    PROVE  FirstLimit(c, h) \in 49..60
<1>1. CharsetLength(c) \in {9, 11} /\ Indent(h) \in 4..10
    BY DEF CharsetLength, Indent, NameLength
<1> QED
    BY <1>1 DEF FirstLimit, MAX_LINE_LENGTH_FOR_HEADER

\* What is not full leaves room for 47 bytes at most.
LEMMA NotFull ==
    ASSUME NEW n \in Nat, limit \in Int, limit <= 64, ~Full(n)
    PROVE  n \in 0..47
    BY DEF Full

LEMMA TokensOf ==
    /\ \A p \in Nat : Char(p) \in Tokens
    /\ \A s \in Sets : Escape(s) \in Tokens
    BY DEF Char, Escape, Tokens, Kinds, Sets

LEMMA SetOfRange == \A c : SetOf(c) \in Sets /\ Width(c) \in 1..2
    BY DEF SetOf, Sets, Width

\* A word brought back to ASCII.
LEMMA Closed ==
    ASSUME NEW b \in Seq(Tokens), NEW s \in Sets
    PROVE  /\ b \o ToAscii(s) \in Seq(Tokens)
           /\ Right(chars, b, s) => Right(chars, b \o ToAscii(s), "ascii")
           /\ \A m, n : Copied(chars, b, m, n) => Copied(chars, b \o ToAscii(s), m, n)
<1>1. "ascii" \in Sets /\ Escape("ascii") \in Tokens
    BY TokensOf DEF Sets
<1>2. ToAscii(s) = IF "ascii" = s THEN <<>> ELSE <<Escape("ascii")>>
    BY DEF ToAscii
<1> QED
    BY <1>1, <1>2, Switched

\* The buffer with a switch to the character's set, and the character.
LEMMA Encoded ==
    ASSUME TypeInv, i \in 1..Len(chars), chars[i] # "none", NEW m \in Nat, m <= i - 1
    PROVE  LET s == SetOf(chars[i])
               b == Append(buffer \o Switch(s), Char(i))
           IN  /\ b \in Seq(Tokens) /\ b # <<>>
               /\ Right(chars, buffer, state) => Right(chars, b, s)
               /\ Copied(chars, buffer, m, i - 1) => Copied(chars, b, m, i)
               /\ Len(Switch(s)) \in 0..1
<1> DEFINE s == SetOf(chars[i])
           o == buffer \o Switch(s)
<1>1. buffer \in Seq(Tokens) /\ state \in Sets /\ s \in Sets /\ Escape(s) \in Tokens
    BY TokensOf, SetOfRange DEF TypeInv, TypeOK
<1>2. Switch(s) = IF s = state THEN <<>> ELSE <<Escape(s)>>
    BY DEF Switch
<1>3. /\ o \in Seq(Tokens) /\ Len(Switch(s)) \in 0..1
      /\ Right(chars, buffer, state) => Right(chars, o, s)
      /\ Copied(chars, buffer, m, i - 1) => Copied(chars, o, m, i - 1)
    BY <1>1, <1>2, Switched
<1>4. i \in Nat /\ Len(chars) \in Nat /\ i - 1 \in Nat /\ i - 1 + 1 = i
    BY LenProperties DEF TypeInv, TypeOK
<1>5. Char(i) \in Tokens /\ Char(i).kind = "char" /\ Char(i).at = i
    BY <1>4, TokensOf DEF Char
<1> HIDE DEF o
<1>6. Append(o, Char(i)) \in Seq(Tokens) /\ Append(o, Char(i)) # <<>>
    BY <1>3, <1>5, AppendProperties
<1>7. Right(chars, o, s) => Right(chars, Append(o, Char(i)), s)
    <2>1. RightIn(chars, Char(i), s)
        BY <1>5 DEF RightIn
    <2> QED
        BY <1>1, <1>3, <1>5, <2>1, RightAppend
<1>8. Copied(chars, o, m, i - 1) => Copied(chars, Append(o, Char(i)), m, i)
    BY <1>3, <1>4, <1>5, CopiedCharacter
<1> QED
    BY <1>3, <1>6, <1>7, <1>8 DEF o

\* The same for the charsets of one set.
LEMMA EncodedPlain ==
    ASSUME TypeInv, i \in 1..Len(chars), chars[i] # "none", NEW m \in Nat, m <= i - 1
    PROVE  LET b == Append(buffer, Char(i))
           IN  /\ b \in Seq(Tokens) /\ b # <<>>
               /\ Copied(chars, buffer, m, i - 1) => Copied(chars, b, m, i)
<1>1. i \in Nat /\ Len(chars) \in Nat /\ i - 1 \in Nat /\ i - 1 + 1 = i
    BY LenProperties DEF TypeInv, TypeOK
<1>2. Char(i) \in Tokens /\ Char(i).kind = "char" /\ Char(i).at = i
    BY <1>1, TokensOf DEF Char
<1>3. buffer \in Seq(Tokens)
    BY DEF TypeInv, TypeOK
<1>4. Append(buffer, Char(i)) \in Seq(Tokens) /\ Append(buffer, Char(i)) # <<>>
    BY <1>2, <1>3, AppendProperties
<1>5. Copied(chars, buffer, m, i - 1) => Copied(chars, Append(buffer, Char(i)), m, i)
    BY <1>1, <1>2, <1>3, CopiedCharacter
<1> QED
    BY <1>4, <1>5

-----------------------------------------------------------------------------

LEMMA StoreTyped ==
    ASSUME TypeInv, pc = "encode", i \in 1..Len(chars),
           NEW b \in Seq(Tokens), NEW n \in Nat, NEW s \in Sets, Store(b, n, s)
    PROVE  TypeInv'
<1>1. /\ UNCHANGED <<textVars, pc, folds>> /\ i' = i + 1
      /\ Len(chars) \in Nat /\ Len(words) \in Nat
    BY LenProperties DEF Store, TypeInv, TypeOK
<1>2. i' \in 1..(Len(chars) + 1)
    BY <1>1
<1>3. CASE ~Full(n)
    <2>1. /\ buffer' = b /\ length' = n /\ state' = s /\ UNCHANGED <<words, lines, limit>>
        BY <1>3 DEF Store
    <2>2. length' \in 0..47
        BY <1>3, <2>1, NotFull DEF TypeInv, TypeOK
    <2> QED
        BY <1>1, <1>2, <2>1, <2>2 DEF TypeInv, TypeOK, textVars
<1>4. CASE Full(n)
    <2>1. /\ words' = Append(words, b \o ToAscii(s)) /\ buffer' = <<>>
          /\ length' = 0 /\ state' = "ascii"
          /\ \/ UNCHANGED <<lines, limit>>
             \/ /\ lines' = lines + 1
                /\ limit' = MAX_LINE_LENGTH_FOR_HEADER - 5 - CharsetLength(charset)
        BY <1>4 DEF Store
    <2>2. words' \in Seq(Seq(Tokens)) /\ Len(words') = Len(words) + 1
        BY <2>1, Closed, AppendProperties DEF TypeInv, TypeOK
    <2>3. lines' \in 0..Len(words')
        <3>1. lines \in 0..Len(words) /\ (lines' = lines \/ lines' = lines + 1)
            BY <2>1 DEF TypeInv, TypeOK
        <3> QED
            BY <1>1, <2>2, <3>1
    <2>4. limit' \in Int /\ limit' <= 64
        BY <2>1 DEF TypeInv, TypeOK, MAX_LINE_LENGTH_FOR_HEADER, CharsetLength
    <2>5. buffer' \in Seq(Tokens) /\ state' \in Sets /\ length' \in 0..47
        BY <2>1, EmptySeq DEF Sets
    <2> QED
        BY <1>1, <1>2, <2>2, <2>3, <2>4, <2>5 DEF TypeInv, TypeOK, textVars
<1> QED
    BY <1>3, <1>4

\* The address is appended without folds inside it being forgotten.
LEMMA InitTyped == Init => TypeInv
<1> SUFFICES ASSUME Init PROVE TypeInv
    OBVIOUS
<1>1. limit \in Int /\ limit <= 64
    BY LimitRange DEF Init
<1>2. i \in 1..(Len(chars) + 1) /\ chars \in Seq(Codes) /\ address \in Nat
    BY CharsetConstants, LenProperties DEF Init
<1>3. words \in Seq(Seq(Tokens)) /\ Len(words) = 0 /\ buffer \in Seq(Tokens)
    BY EmptySeq DEF Init
<1> QED
    BY <1>1, <1>2, <1>3 DEF Init, TypeInv, TypeOK, Sets

LEMMA StepTyped == TypeInv /\ [Next]_vars => TypeInv'
<1> SUFFICES ASSUME TypeInv, [Next]_vars PROVE TypeInv'
    OBVIOUS
<1>t. /\ buffer \in Seq(Tokens) /\ state \in Sets /\ length \in Nat
      /\ Len(chars) \in Nat /\ i \in 1..(Len(chars) + 1)
    BY LenProperties DEF TypeInv, TypeOK
<1>1. CASE PassOver
    <2>1. pc = "encode" /\ i \in 1..Len(chars) /\ Store(buffer, length, state)
        BY <1>1, <1>t DEF PassOver, More
    <2> QED
        BY <1>t, <2>1, StoreTyped
<1>2. CASE Encode
    <2> DEFINE b == Append(buffer, Char(i))
               n == length + Width(chars[i])
    <2>1. /\ pc = "encode" /\ i \in 1..Len(chars) /\ chars[i] # "none"
          /\ Store(b, n, state)
        BY <1>2, <1>t DEF Encode, More
    <2>2. n \in Nat
        BY <1>t, SetOfRange
    <2>3. b \in Seq(Tokens)
        BY <1>t, <2>1, TokensOf, AppendProperties
    <2> QED
        BY <1>t, <2>1, <2>2, <2>3, StoreTyped
<1>3. CASE EncodeInSet
    <2> DEFINE s == SetOf(chars[i])
               b == Append(buffer \o Switch(s), Char(i))
               n == length + 3 * Len(Switch(s)) + Width(chars[i])
    <2>1. /\ pc = "encode" /\ i \in 1..Len(chars) /\ chars[i] # "none"
          /\ Store(b, n, s)
        BY <1>3, <1>t DEF EncodeInSet, More
    <2>2. b \in Seq(Tokens) /\ Len(Switch(s)) \in 0..1
        <3>1. 0 \in Nat /\ 0 <= i - 1
            BY <1>t
        <3> QED
            BY <2>1, <3>1, Encoded
    <2>3. n \in Nat /\ s \in Sets
        BY <1>t, <2>2, SetOfRange
    <2> QED
        BY <2>1, <2>2, <2>3, StoreTyped
<1>4. CASE AfterText
    <2>1. /\ words' = IF buffer = <<>> THEN words
                      ELSE Append(words, buffer \o ToAscii(state))
          /\ state' = IF buffer = <<>> THEN state ELSE "ascii"
          /\ buffer' = <<>> /\ length' = 0 /\ pc' = "done"
          /\ folds' = AddressFolds(address, chars # <<>>, limit)
          /\ UNCHANGED <<textVars, i, lines, limit>>
        BY <1>4 DEF AfterText
    <2>2. words' \in Seq(Seq(Tokens)) /\ Len(words') \in Nat /\ Len(words) <= Len(words')
        <3>1. CASE buffer = <<>>
            BY <2>1, <3>1, LenProperties DEF TypeInv, TypeOK
        <3>2. CASE buffer # <<>>
            <4>1. words' = Append(words, buffer \o ToAscii(state))
                BY <2>1, <3>2
            <4> QED
                BY <1>t, <4>1, Closed, AppendProperties, LenProperties DEF TypeInv, TypeOK
        <3> QED
            BY <3>1, <3>2
    <2>3. lines' \in 0..Len(words')
        BY <2>1, <2>2, LenProperties DEF TypeInv, TypeOK
    <2>4. folds' \subseteq Nat
        BY <2>1, AddressFoldsTyped DEF TypeInv, TypeOK
    <2>5. buffer' \in Seq(Tokens) /\ state' \in Sets /\ length' \in 0..47
        BY <1>t, <2>1, EmptySeq DEF Sets
    <2> QED
        BY <2>1, <2>2, <2>3, <2>4, <2>5 DEF TypeInv, TypeOK, textVars
<1>5. CASE UNCHANGED vars
    BY <1>5 DEF vars, textVars, TypeInv, TypeOK
<1> QED
    BY <1>1, <1>2, <1>3, <1>4, <1>5 DEF Next, Returned

\* For every text, the encoder's variables keep their types; the buffer never
\* grows past the 47 bytes that a line has room for.
THEOREM CharsetTypeCorrect == Spec => []TypeOK
<1>1. TypeInv => TypeOK
    BY DEF TypeInv
<1> QED
    BY <1>1, InitTyped, StepTyped, PTL DEF Spec

-----------------------------------------------------------------------------

\* Folds and words, while the text goes on and after it.
FoldInv ==
    /\ i <= Len(chars) \/ buffer # <<>> => lines = Len(words)
    /\ i > Len(chars) /\ buffer = <<>> =>
           /\ lines \in (Len(words) - 1)..Len(words)
           /\ chars # <<>> /\ chars[Len(chars)] # "none" => lines = Len(words) - 1
    /\ i <= Len(chars) => pc = "encode"
    /\ pc = "done" => buffer = <<>>

\* A word is written, or the buffer goes on.
LEMMA StoreFolds ==
    ASSUME TypeInv, FoldInv, pc = "encode", i \in 1..Len(chars),
           NEW b \in Seq(Tokens), NEW n \in Nat, NEW s \in Sets, Store(b, n, s),
           chars[i] # "none" => b # <<>>
    PROVE  FoldInv'
<1> SUFFICES /\ i' <= Len(chars) \/ buffer' # <<>> => lines' = Len(words')
             /\ i' > Len(chars) /\ buffer' = <<>> =>
                    /\ lines' \in (Len(words') - 1)..Len(words')
                    /\ chars # <<>> /\ chars[Len(chars)] # "none" =>
                           lines' = Len(words') - 1
    BY DEF FoldInv, Store, textVars
<1>1. /\ i' = i + 1 /\ Len(chars) \in Nat /\ Len(words) \in Nat /\ lines = Len(words)
    BY LenProperties DEF Store, TypeInv, TypeOK, FoldInv
<1>2. CASE ~Full(n)
    <2>1. buffer' = b /\ UNCHANGED <<words, lines>>
        BY <1>2 DEF Store
    <2>2. i' > Len(chars) => i = Len(chars)
        BY <1>1
    <2> QED
        BY <1>1, <2>1, <2>2
<1>3. CASE Full(n)
    <2>1. /\ words' = Append(words, b \o ToAscii(s)) /\ buffer' = <<>>
          /\ IF i = Len(chars) THEN lines' = lines ELSE lines' = lines + 1
        BY <1>3 DEF Store, IsLast
    <2>2. Len(words') = Len(words) + 1
        BY <2>1, Closed, AppendProperties DEF TypeInv, TypeOK
    <2> QED
        BY <1>1, <2>1, <2>2
<1> QED
    BY <1>2, <1>3

LEMMA InitFolds == Init => FoldInv
<1> SUFFICES ASSUME Init PROVE FoldInv
    OBVIOUS
<1>1. /\ chars \in Seq(Codes) /\ Len(words) = 0 /\ i = 1 /\ lines = 0 /\ pc = "encode"
      /\ buffer = <<>>
    BY CharsetConstants DEF Init
<1>2. Len(chars) \in Nat /\ (chars # <<>> => Len(chars) > 0)
    BY <1>1, EmptySeq
<1> QED
    BY <1>1, <1>2 DEF FoldInv

LEMMA StepFolds == TypeInv /\ FoldInv /\ [Next]_vars => FoldInv'
<1> SUFFICES ASSUME TypeInv, FoldInv, [Next]_vars PROVE FoldInv'
    OBVIOUS
<1>t. /\ buffer \in Seq(Tokens) /\ state \in Sets /\ length \in Nat
      /\ Len(chars) \in Nat /\ i \in 1..(Len(chars) + 1)
    BY LenProperties DEF TypeInv, TypeOK
<1>1. CASE PassOver
    <2>1. pc = "encode" /\ i \in 1..Len(chars) /\ chars[i] = "none"
          /\ Store(buffer, length, state)
        BY <1>1, <1>t DEF PassOver, More
    <2> QED
        BY <1>t, <2>1, StoreFolds
<1>2. CASE Encode
    <2> DEFINE b == Append(buffer, Char(i))
               n == length + Width(chars[i])
    <2>1. /\ pc = "encode" /\ i \in 1..Len(chars) /\ chars[i] # "none"
          /\ Store(b, n, state)
        BY <1>2, <1>t DEF Encode, More
    <2>2. n \in Nat
        BY <1>t, SetOfRange
    <2>3. b \in Seq(Tokens) /\ b # <<>>
        BY <1>t, <2>1, TokensOf, AppendProperties
    <2> QED
        BY <1>t, <2>1, <2>2, <2>3, StoreFolds
<1>3. CASE EncodeInSet
    <2> DEFINE s == SetOf(chars[i])
               b == Append(buffer \o Switch(s), Char(i))
               n == length + 3 * Len(Switch(s)) + Width(chars[i])
    <2>1. /\ pc = "encode" /\ i \in 1..Len(chars) /\ chars[i] # "none"
          /\ Store(b, n, s)
        BY <1>3, <1>t DEF EncodeInSet, More
    <2>2. b \in Seq(Tokens) /\ b # <<>> /\ Len(Switch(s)) \in 0..1
        <3>1. 0 \in Nat /\ 0 <= i - 1
            BY <1>t
        <3> QED
            BY <2>1, <3>1, Encoded
    <2>3. n \in Nat /\ s \in Sets
        BY <1>t, <2>2, SetOfRange
    <2> QED
        BY <2>1, <2>2, <2>3, StoreFolds
<1>4. CASE AfterText
    <2>1. /\ words' = IF buffer = <<>> THEN words
                      ELSE Append(words, buffer \o ToAscii(state))
          /\ buffer' = <<>> /\ pc' = "done" /\ UNCHANGED <<chars, i, lines>>
          /\ i > Len(chars)
        BY <1>4, <1>t DEF AfterText, textVars, More
    <2>2. buffer # <<>> => Len(words') = Len(words) + 1
        BY <1>t, <2>1, Closed, AppendProperties DEF TypeInv, TypeOK
    <2>3. Len(words) \in Nat
        BY LenProperties DEF TypeInv, TypeOK
    <2> QED
        BY <1>t, <2>1, <2>2, <2>3 DEF FoldInv
<1>5. CASE UNCHANGED vars
    BY <1>5 DEF vars, textVars, FoldInv
<1> QED
    BY <1>1, <1>2, <1>3, <1>4, <1>5 DEF Next, Returned

\* charset.c, iso2022jp.c: every word but the last is followed by a fold; a
\* text that ends in a character with a code does not end in an empty line.
THEOREM FoldsFollow == Spec => []FoldsFollowWords
<1>1. TypeInv /\ FoldInv => FoldsFollowWords
    <2> SUFFICES ASSUME TypeInv, FoldInv, pc = "done" PROVE FoldsFollowWords
        BY DEF FoldsFollowWords
    <2>1. Len(chars) \in Nat /\ i \in 1..(Len(chars) + 1) /\ buffer = <<>>
        BY LenProperties DEF TypeInv, TypeOK, FoldInv
    <2>2. ~(i <= Len(chars))
        BY DEF FoldInv
    <2> QED
        BY <2>1, <2>2 DEF FoldInv, FoldsFollowWords
<1> QED
    BY <1>1, InitTyped, StepTyped, InitFolds, StepFolds, PTL DEF Spec

-----------------------------------------------------------------------------

\* In ISO-2022-JP what has been written, and what is being collected, is read
\* in the right sets.
ReadInv ==
    Escapes =>
        /\ Right(chars, buffer, state)
        /\ \A k \in 1..Len(words) : Right(chars, words[k], "ascii")

\* One more word that can be read by itself.
LEMMA WordReads ==
    ASSUME NEW ws \in Seq(Seq(Tokens)), NEW w \in Seq(Tokens),
           \A k \in 1..Len(ws) : Right(chars, ws[k], "ascii"),
           Right(chars, w, "ascii")
    PROVE  \A k \in 1..Len(Append(ws, w)) : Right(chars, Append(ws, w)[k], "ascii")
<1>1. /\ Len(Append(ws, w)) = Len(ws) + 1 /\ Len(ws) \in Nat
      /\ \A k \in 1..Len(ws) : Append(ws, w)[k] = ws[k]
      /\ Append(ws, w)[Len(ws) + 1] = w
    BY AppendProperties, LenProperties
<1> TAKE k \in 1..Len(Append(ws, w))
<1>2. k \in 1..Len(ws) \/ k = Len(ws) + 1
    BY <1>1
<1> QED
    BY <1>1, <1>2

LEMMA StoreReads ==
    ASSUME TypeInv, ReadInv, i \in 1..Len(chars),
           NEW b \in Seq(Tokens), NEW n \in Nat, NEW s \in Sets, Store(b, n, s),
           Escapes => Right(chars, b, s)
    PROVE  ReadInv'
<1> SUFFICES ASSUME Escapes
             PROVE  /\ Right(chars, buffer', state')
                    /\ \A k \in 1..Len(words') : Right(chars, words'[k], "ascii")
    BY DEF ReadInv, Store, textVars, Escapes
<1>1. CASE ~Full(n)
    BY <1>1 DEF Store, ReadInv
<1>2. CASE Full(n)
    <2>1. /\ words' = Append(words, b \o ToAscii(s)) /\ buffer' = <<>> /\ state' = "ascii"
        BY <1>2 DEF Store
    <2>2. b \o ToAscii(s) \in Seq(Tokens) /\ Right(chars, b \o ToAscii(s), "ascii")
        BY Closed
    <2>3. \A k \in 1..Len(words') : Right(chars, words'[k], "ascii")
        BY <2>1, <2>2, WordReads DEF ReadInv, TypeInv, TypeOK
    <2> QED
        BY <2>1, <2>3, RightEmpty
<1> QED
    BY <1>1, <1>2

LEMMA InitReads == Init => ReadInv
<1> SUFFICES ASSUME Init PROVE ReadInv
    OBVIOUS
<1>1. buffer = <<>> /\ state = "ascii" /\ Len(words) = 0
    BY DEF Init
<1> QED
    BY <1>1, RightEmpty DEF ReadInv

LEMMA StepReads == TypeInv /\ ReadInv /\ [Next]_vars => ReadInv'
<1> SUFFICES ASSUME TypeInv, ReadInv, [Next]_vars PROVE ReadInv'
    OBVIOUS
<1>t. /\ buffer \in Seq(Tokens) /\ state \in Sets /\ length \in Nat
      /\ Len(chars) \in Nat /\ i \in 1..(Len(chars) + 1)
    BY LenProperties DEF TypeInv, TypeOK
<1>1. CASE PassOver
    <2>1. i \in 1..Len(chars) /\ Store(buffer, length, state)
        BY <1>1, <1>t DEF PassOver, More
    <2> QED
        BY <1>t, <2>1, StoreReads DEF ReadInv
<1>2. CASE Encode
    <2>1. ~Escapes /\ ~Escapes'
        BY <1>2 DEF Encode, Store, textVars, Escapes
    <2> QED
        BY <2>1 DEF ReadInv
<1>3. CASE EncodeInSet
    <2> DEFINE s == SetOf(chars[i])
               b == Append(buffer \o Switch(s), Char(i))
               n == length + 3 * Len(Switch(s)) + Width(chars[i])
    <2>1. /\ i \in 1..Len(chars) /\ chars[i] # "none" /\ Escapes /\ Store(b, n, s)
        BY <1>3, <1>t DEF EncodeInSet, More
    <2>2. 0 \in Nat /\ 0 <= i - 1
        BY <1>t
    <2>3. b \in Seq(Tokens) /\ Right(chars, b, s) /\ Len(Switch(s)) \in 0..1
        BY <2>1, <2>2, Encoded DEF ReadInv
    <2>4. n \in Nat /\ s \in Sets
        BY <1>t, <2>3, SetOfRange
    <2> QED
        BY <2>1, <2>3, <2>4, StoreReads
<1>4. CASE AfterText
    <2>1. /\ words' = IF buffer = <<>> THEN words
                      ELSE Append(words, buffer \o ToAscii(state))
          /\ state' = IF buffer = <<>> THEN state ELSE "ascii"
          /\ buffer' = <<>> /\ UNCHANGED <<chars, charset>>
        BY <1>4 DEF AfterText, textVars
    <2> SUFFICES ASSUME Escapes
                 PROVE  /\ Right(chars, buffer', state')
                        /\ \A k \in 1..Len(words') : Right(chars, words'[k], "ascii")
        BY <2>1 DEF ReadInv, Escapes
    <2>2. CASE buffer = <<>>
        BY <2>1, <2>2 DEF ReadInv
    <2>3. CASE buffer # <<>>
        <3>1. /\ words' = Append(words, buffer \o ToAscii(state)) /\ state' = "ascii"
            BY <2>1, <2>3
        <3>2. /\ buffer \o ToAscii(state) \in Seq(Tokens)
              /\ Right(chars, buffer \o ToAscii(state), "ascii")
            BY <1>t, Closed DEF ReadInv
        <3>3. \A k \in 1..Len(words') : Right(chars, words'[k], "ascii")
            BY <3>1, <3>2, WordReads DEF ReadInv, TypeInv, TypeOK
        <3> QED
            BY <2>1, <3>1, <3>3, RightEmpty
    <2> QED
        BY <2>2, <2>3
<1>5. CASE UNCHANGED vars
    BY <1>5 DEF vars, textVars, ReadInv, Escapes, Right, Reads, RightIn
<1> QED
    BY <1>1, <1>2, <1>3, <1>4, <1>5 DEF Next, Returned

\* README: "ISO-2022-JP returns the state to ASCII before the fold": for every
\* text, each encoded word is decoded by itself and leaves the decoder in ASCII.
THEOREM WordsReadAlone == Spec => []WordsStandAlone
<1>1. ASSUME TypeInv, ReadInv PROVE WordsStandAlone
    <2> SUFFICES ASSUME Escapes, NEW k \in 1..Len(words)
                 PROVE  /\ ReadsBack(chars, words[k])
                        /\ InForce(words[k], Len(words[k]) + 1) = "ascii"
        BY DEF WordsStandAlone
    <2> DEFINE w == words[k]
    <2>1. Right(chars, w, "ascii") /\ w \in Seq(Tokens) /\ Len(w) \in Nat
        BY <1>1, ElementOfSeq, LenProperties DEF ReadInv, TypeInv, TypeOK
    <2> HIDE DEF w
    <2>2. ReadsBack(chars, w)
        <3> SUFFICES ASSUME NEW j \in 1..Len(w), w[j].kind = "char"
                     PROVE  InForce(w, j) = SetOf(chars[w[j].at])
            BY DEF ReadsBack
        <3>1. PICK r \in Sets : Reads(w, j, r) /\ RightIn(chars, w[j], r)
            BY <2>1 DEF Right
        <3>2. InForce(w, j) = r
            BY <2>1, <3>1, ReadsInForce
        <3> QED
            BY <3>1, <3>2 DEF RightIn
    <2>3. InForce(w, Len(w) + 1) = "ascii"
        BY <2>1, ReadsInForce DEF Right
    <2> QED
        BY <2>2, <2>3 DEF w
<1> QED
    BY <1>1, InitTyped, StepTyped, InitReads, StepReads, PTL DEF Spec

-----------------------------------------------------------------------------

\* Up to some position the characters are in words, from there to the next one
\* they are in the buffer.
KeepInv ==
    /\ pc = "encode" =>
           \E m \in 0..(i - 1) : Spread(words, m) /\ Copied(chars, buffer, m, i - 1)
    /\ EveryCharacterKept

\* One more word, with the characters up to position n.
LEMMA SpreadWord ==
    ASSUME NEW ws \in Seq(Seq(Tokens)), NEW w \in Seq(Tokens),
           NEW m \in Nat, NEW n \in Nat, m <= n,
           Spread(ws, m), Copied(chars, w, m, n)
    PROVE  Spread(Append(ws, w), n)
<1> DEFINE all == Append(ws, w)
           l == Len(ws)
<1>1. /\ Len(all) = l + 1 /\ l \in Nat
      /\ \A k \in 1..l : all[k] = ws[k]
      /\ all[l + 1] = w
    BY AppendProperties, LenProperties
<1>2. \A k \in 1..(l + 1) : k \in 1..l \/ k = l + 1
    BY <1>1
<1>3. \A k \in 1..l : k \in 1..(l + 1)
    BY <1>1
<1>4. l + 1 \in 1..(l + 1)
    BY <1>1
<1>5. /\ UNION {PositionsIn(ws[k]) : k \in 1..l} = {p \in 1..m : chars[p] # "none"}
      /\ \A k \in 1..l : Increasing(ws[k])
      /\ \A j, k \in 1..l :
             j < k => \A p \in PositionsIn(ws[j]), q \in PositionsIn(ws[k]) : p < q
    BY DEF Spread
<1>6. PositionsIn(w) = {p \in (m + 1)..n : chars[p] # "none"} /\ Increasing(w)
    BY DEF Copied
<1> HIDE DEF all
<1>7. UNION {PositionsIn(all[k]) : k \in 1..(l + 1)} = {p \in 1..n : chars[p] # "none"}
    <2>1. UNION {PositionsIn(all[k]) : k \in 1..(l + 1)}
              = (UNION {PositionsIn(ws[k]) : k \in 1..l}) \cup PositionsIn(w)
        BY <1>1, <1>2, <1>3, <1>4
    <2>2. 1..n = (1..m) \cup ((m + 1)..n)
        OBVIOUS
    <2>3. {p \in 1..n : chars[p] # "none"}
              = {p \in 1..m : chars[p] # "none"} \cup {p \in (m + 1)..n : chars[p] # "none"}
        BY <2>2
    <2> QED
        BY <1>5, <1>6, <2>1, <2>3
<1>8. \A k \in 1..(l + 1) : Increasing(all[k])
    BY <1>1, <1>2, <1>5, <1>6
<1>9. ASSUME NEW j \in 1..(l + 1), NEW k \in 1..(l + 1), j < k,
             NEW p \in PositionsIn(all[j]), NEW q \in PositionsIn(all[k])
      PROVE  p < q
    <2>1. j \in 1..l /\ p \in PositionsIn(ws[j])
        BY <1>1, <1>9
    <2>2. CASE k \in 1..l
        BY <1>1, <1>5, <1>9, <2>1, <2>2
    <2>3. CASE k = l + 1
        <3>1. p \in 1..m
            BY <1>5, <2>1
        <3>2. q \in (m + 1)..n
            BY <1>1, <1>6, <1>9, <2>3
        <3> QED
            BY <3>1, <3>2
    <2> QED
        BY <1>2, <2>2, <2>3
<1> QED
    BY <1>1, <1>7, <1>8, <1>9 DEF Spread, all

LEMMA StoreKeeps ==
    ASSUME TypeInv, pc = "encode", i \in 1..Len(chars),
           NEW b \in Seq(Tokens), NEW n \in Nat, NEW s \in Sets, Store(b, n, s),
           NEW m \in 0..(i - 1), Spread(words, m), Copied(chars, b, m, i)
    PROVE  KeepInv'
<1>1. /\ UNCHANGED <<chars, pc>> /\ i' = i + 1 /\ Len(chars) \in Nat
      /\ words \in Seq(Seq(Tokens)) /\ i' - 1 = i /\ m \in Nat /\ i \in Nat /\ m <= i
    BY LenProperties DEF Store, textVars, TypeInv, TypeOK
<1>2. EveryCharacterKept'
    BY <1>1 DEF EveryCharacterKept
<1>3. CASE ~Full(n)
    <2>1. buffer' = b /\ words' = words
        BY <1>3 DEF Store
    <2>2. Spread(words, m)' /\ Copied(chars, buffer, m, i - 1)'
        <3>1. Spread(words', m) /\ Copied(chars, buffer', m, i' - 1)
            BY <1>1, <2>1
        <3> QED
            BY <1>1, <3>1 DEF Spread, Copied
    <2>3. m \in 0..(i' - 1)
        BY <1>1
    <2> QED
        BY <1>2, <2>2, <2>3 DEF KeepInv
<1>4. CASE Full(n)
    <2>1. words' = Append(words, b \o ToAscii(s)) /\ buffer' = <<>>
        BY <1>4 DEF Store
    <2>2. b \o ToAscii(s) \in Seq(Tokens) /\ Copied(chars, b \o ToAscii(s), m, i)
        BY Closed
    <2>3. Spread(words', i)
        BY <1>1, <2>1, <2>2, SpreadWord
    <2>4. Copied(chars, buffer', i, i' - 1)
        BY <1>1, <2>1, CopiedNothing
    <2>5. PICK q : q = i
        OBVIOUS
    <2>6. Spread(words, q)' /\ Copied(chars, buffer, q, i - 1)'
        BY <1>1, <2>3, <2>4, <2>5 DEF Spread, Copied
    <2>7. q \in 0..(i' - 1)
        BY <1>1, <2>5
    <2> QED
        BY <1>2, <2>6, <2>7 DEF KeepInv
<1> QED
    BY <1>3, <1>4

LEMMA InitKeeps == Init => KeepInv
<1> SUFFICES ASSUME Init PROVE KeepInv
    OBVIOUS
<1>1. i = 1 /\ buffer = <<>> /\ pc = "encode" /\ Len(words) = 0
    BY DEF Init
<1>2. Spread(words, 0)
    BY <1>1 DEF Spread
<1>3. Copied(chars, buffer, 0, i - 1)
    BY <1>1, CopiedNothing
<1> QED
    BY <1>1, <1>2, <1>3 DEF KeepInv, EveryCharacterKept

LEMMA StepKeeps == TypeInv /\ KeepInv /\ [Next]_vars => KeepInv'
<1> SUFFICES ASSUME TypeInv, KeepInv, [Next]_vars PROVE KeepInv'
    OBVIOUS
<1>t. /\ buffer \in Seq(Tokens) /\ state \in Sets /\ length \in Nat
      /\ Len(chars) \in Nat /\ i \in 1..(Len(chars) + 1)
    BY LenProperties DEF TypeInv, TypeOK
<1>1. CASE PassOver
    <2>1. pc = "encode" /\ i \in 1..Len(chars) /\ chars[i] = "none"
          /\ Store(buffer, length, state)
        BY <1>1, <1>t DEF PassOver, More
    <2>2. PICK m \in 0..(i - 1) : Spread(words, m) /\ Copied(chars, buffer, m, i - 1)
        BY <2>1 DEF KeepInv
    <2>3. Copied(chars, buffer, m, i)
        <3>1. i - 1 \in Nat /\ i - 1 + 1 = i /\ m \in Nat /\ m <= i - 1
            BY <1>t, <2>1
        <3> QED
            BY <2>1, <2>2, <3>1, CopiedSkip
    <2> QED
        BY <1>t, <2>1, <2>2, <2>3, StoreKeeps
<1>2. CASE Encode
    <2> DEFINE b == Append(buffer, Char(i))
               n == length + Width(chars[i])
    <2>1. /\ pc = "encode" /\ i \in 1..Len(chars) /\ chars[i] # "none"
          /\ Store(b, n, state)
        BY <1>2, <1>t DEF Encode, More
    <2>2. PICK m \in 0..(i - 1) : Spread(words, m) /\ Copied(chars, buffer, m, i - 1)
        BY <2>1 DEF KeepInv
    <2>3. b \in Seq(Tokens) /\ Copied(chars, b, m, i)
        <3>1. m \in Nat /\ m <= i - 1
            BY <1>t, <2>1
        <3> QED
            BY <2>1, <2>2, <3>1, EncodedPlain
    <2>4. n \in Nat
        BY <1>t, SetOfRange
    <2> QED
        BY <1>t, <2>1, <2>2, <2>3, <2>4, StoreKeeps
<1>3. CASE EncodeInSet
    <2> DEFINE s == SetOf(chars[i])
               b == Append(buffer \o Switch(s), Char(i))
               n == length + 3 * Len(Switch(s)) + Width(chars[i])
    <2>1. /\ pc = "encode" /\ i \in 1..Len(chars) /\ chars[i] # "none"
          /\ Store(b, n, s)
        BY <1>3, <1>t DEF EncodeInSet, More
    <2>2. PICK m \in 0..(i - 1) : Spread(words, m) /\ Copied(chars, buffer, m, i - 1)
        BY <2>1 DEF KeepInv
    <2>3. b \in Seq(Tokens) /\ Copied(chars, b, m, i) /\ Len(Switch(s)) \in 0..1
        <3>1. m \in Nat /\ m <= i - 1
            BY <1>t, <2>1
        <3> QED
            BY <2>1, <2>2, <3>1, Encoded
    <2>4. n \in Nat /\ s \in Sets
        BY <1>t, <2>3, SetOfRange
    <2> QED
        BY <2>1, <2>2, <2>3, <2>4, StoreKeeps
<1>4. CASE AfterText
    <2>1. /\ words' = IF buffer = <<>> THEN words
                      ELSE Append(words, buffer \o ToAscii(state))
          /\ pc = "encode" /\ pc' = "done" /\ UNCHANGED chars /\ i = Len(chars) + 1
        BY <1>4, <1>t DEF AfterText, textVars, More
    <2>2. PICK m \in 0..(i - 1) : Spread(words, m) /\ Copied(chars, buffer, m, i - 1)
        BY <2>1 DEF KeepInv
    <2>3. i - 1 = Len(chars) /\ m \in Nat /\ m <= Len(chars)
        BY <1>t, <2>1
    <2>4. Spread(words', Len(chars))
        <3>1. CASE buffer = <<>>
            <4>1. {p \in (m + 1)..Len(chars) : chars[p] # "none"} = {}
                BY <2>2, <2>3, <3>1, EmptySeq DEF Copied, PositionsIn
            <4>2. {p \in 1..Len(chars) : chars[p] # "none"} = {p \in 1..m : chars[p] # "none"}
                <5>1. 1..Len(chars) = (1..m) \cup ((m + 1)..Len(chars))
                    BY <1>t, <2>3
                <5> QED
                    BY <4>1, <5>1
            <4> QED
                BY <2>1, <2>2, <3>1, <4>2 DEF Spread
        <3>2. CASE buffer # <<>>
            <4>1. words' = Append(words, buffer \o ToAscii(state))
                BY <2>1, <3>2
            <4>2. /\ buffer \o ToAscii(state) \in Seq(Tokens)
                  /\ Copied(chars, buffer \o ToAscii(state), m, Len(chars))
                BY <1>t, <2>2, <2>3, Closed
            <4> QED
                BY <1>t, <2>2, <2>3, <4>1, <4>2, SpreadWord DEF TypeInv, TypeOK
        <3> QED
            BY <3>1, <3>2
    <2>5. EveryCharacterKept'
        BY <2>1, <2>4 DEF EveryCharacterKept, Spread
    <2> QED
        BY <2>1, <2>5 DEF KeepInv
<1>5. CASE UNCHANGED vars
    BY <1>5 DEF vars, textVars, KeepInv, Spread, Copied, EveryCharacterKept
<1> QED
    BY <1>1, <1>2, <1>3, <1>4, <1>5 DEF Next, Returned

\* For every text, every character that has a code is in a word, once, and the
\* words hold them in the order of the text.
THEOREM CharactersAreKept == Spec => []EveryCharacterKept
<1>1. KeepInv => EveryCharacterKept
    BY DEF KeepInv
<1> QED
    BY <1>1, InitTyped, StepTyped, InitKeeps, StepKeeps, PTL DEF Spec


-----------------------------------------------------------------------------

\* The limit the address is held to, on the first line or a later one.
AddressInv ==
    /\ limit \in 49..64
    /\ pc = "done" => folds = AddressFolds(address, chars # <<>>, limit)

LEMMA StepAddress == AddressInv /\ charset \in Charsets /\ [Next]_vars => AddressInv'
<1> SUFFICES ASSUME AddressInv, charset \in Charsets, [Next]_vars PROVE AddressInv'
    OBVIOUS
<1> USE DEF AddressInv
<1>1. CASE PassOver \/ Encode \/ EncodeInSet
    <2>1. PICK b, n, s : Store(b, n, s) /\ pc = "encode"
        BY <1>1 DEF PassOver, Encode, EncodeInSet
    <2>2. pc' = "encode" /\ limit' \in {limit, 78 - 5 - CharsetLength(charset)}
        BY <2>1 DEF Store, MAX_LINE_LENGTH_FOR_HEADER
    <2>3. CharsetLength(charset) \in {9, 11}
        BY DEF CharsetLength
    <2> QED
        BY <2>2, <2>3
<1>2. CASE AfterText
    BY <1>2 DEF AfterText, textVars
<1>3. CASE UNCHANGED vars
    BY <1>3 DEF vars, textVars
<1> QED
    BY <1>1, <1>2, <1>3 DEF Next, Returned

\* The address code is the same as in utf8.c, with other limits: after a display
\* name, or alone, an address is folded in the middle in exactly these cases.
THEOREM CharsetAddressCut ==
    Spec => [](pc = "done" =>
                   (folds \cap InsideAddress(address, chars # <<>>) = {}
                        <=> WholeAddress(address, chars # <<>>, limit)))
<1>1. Init => AddressInv
    BY LimitRange DEF Init, AddressInv
<1>2. TypeInv => charset \in Charsets
    BY DEF TypeInv, TypeOK
<1>3. TypeInv /\ AddressInv =>
          (pc = "done" => (folds \cap InsideAddress(address, chars # <<>>) = {}
                               <=> WholeAddress(address, chars # <<>>, limit)))
    <2> SUFFICES ASSUME TypeInv, AddressInv, pc = "done"
                 PROVE  folds \cap InsideAddress(address, chars # <<>>) = {}
                            <=> WholeAddress(address, chars # <<>>, limit)
        OBVIOUS
    <2>1. address \in Nat /\ limit \in Nat /\ limit >= 8
        BY DEF TypeInv, TypeOK, AddressInv
    <2> QED
        BY <2>1, AddressFoldsInside DEF AddressInv
<1> QED
    BY <1>1, <1>2, <1>3, InitTyped, StepTyped, StepAddress, PTL DEF Spec

=============================================================================
