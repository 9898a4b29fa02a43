---------------------------- MODULE EncoderProofs ----------------------------
(***************************************************************************)
(* Lemmas for the theorems about the encoders: induction over a sequence,   *)
(* where the address of a header is folded, and what a reader of            *)
(* ISO-2022-JP makes of an output that grows by a token.  The set in force,  *)
(* InForce, is given by a relation that can be carried from one token to    *)
(* the next.                                                                *)
(***************************************************************************)
EXTENDS Iso2022, HeaderLines, SequenceTheorems, WellFoundedInduction, TLAPS

\* The least number principle, from the library's well-foundedness of <.
LEMMA LeastNumber ==
    ASSUME NEW T \in SUBSET Nat, T # {}
    PROVE  \E m \in T : \A n \in T : m <= n
<1> DEFINE R == {p \in Nat \X Nat : p[1] < p[2]}
<1>1. IsWellFoundedOn(R, Nat)
    <2>1. OpToRel(<, Nat) = R
        BY Zenon DEF OpToRel
    <2> QED
        BY <2>1, NatLessThanWellFounded
<1>2. \A x, y \in Nat : <<y, x>> \in R <=> y < x
    BY DEF R
<1> HIDE DEF R
<1>3. PICK x \in T : \A y \in T : ~(<<y, x>> \in R)
    BY <1>1, WFMin
<1>4. \A y \in T : x \in Nat /\ y \in Nat /\ ~(y < x)
    BY <1>2, <1>3
<1>5. \A y \in T : x <= y
    BY <1>4
<1> QED
    BY <1>3, <1>5

\* Induction, with a set for the predicate: what holds at 0, and at k if it
\* holds at k - 1, holds up to n.
LEMMA UpTo ==
    ASSUME NEW n \in Nat, NEW S, 0 \in S, \A k \in 1..n : k - 1 \in S => k \in S
    PROVE  \A k \in 0..n : k \in S
<1> DEFINE T == {k \in 0..n : k \notin S}
<1>1. SUFFICES ASSUME T # {}
               PROVE  FALSE
    OBVIOUS
<1>2. T \in SUBSET Nat
    OBVIOUS
<1>3. PICK m \in T : \A k \in T : m <= k
    BY <1>1, <1>2, LeastNumber
<1>4. m \in 1..n /\ m - 1 \in 0..n /\ ~(m <= m - 1)
    BY <1>3
<1>5. m - 1 \in S
    BY <1>3, <1>4
<1> QED
    BY <1>3, <1>4, <1>5

\* The functions that compute a value of T for each of 0..n, from base by the
\* steps.  Kept as operators, so that a proof need not look into them.
Steps(n, T) == [1..n -> [T -> T]]

Computes(f, n, T, base, step) ==
    /\ f \in [0..n -> T]
    /\ f[0] = base
    /\ \A k \in 1..n : f[k] = step[k][f[k - 1]]

\* A function that is defined by recursion on 0..n exists, and its values are
\* in T: the base is, and each step leads from T to T.
LEMMA Recursion ==
    ASSUME NEW n \in Nat, NEW T, NEW base \in T, NEW step, step \in Steps(n, T)
    PROVE  \E f : Computes(f, n, T, base, step)
<1> DEFINE Good(m) == \E f : Computes(f, m, T, base, step)
           S == {m \in 0..n : Good(m)}
<1>1. Good(0)
    <2> DEFINE f == [k \in 0..0 |-> base]
    <2>1. f \in [0..0 -> T] /\ f[0] = base /\ \A k \in 1..0 : f[k] = step[k][f[k - 1]]
        OBVIOUS
    <2> HIDE DEF f
    <2> QED
        BY <2>1 DEF Computes
<1>2. ASSUME NEW m \in 1..n, Good(m - 1)
      PROVE  Good(m)
    <2>1. PICK f \in [0..(m - 1) -> T] :
              /\ f[0] = base
              /\ \A k \in 1..(m - 1) : f[k] = step[k][f[k - 1]]
        BY <1>2 DEF Computes
    <2> DEFINE g == [k \in 0..m |-> IF k = m THEN step[m][f[m - 1]] ELSE f[k]]
    <2>2. step[m] \in [T -> T] /\ f[m - 1] \in T
        BY <2>1 DEF Steps
    <2>3. g \in [0..m -> T]
        BY <2>1, <2>2
    <2>4. g[0] = base
        BY <2>1
    <2>5. ASSUME NEW k \in 1..m
          PROVE  g[k] = step[k][g[k - 1]]
        <3>1. CASE k = m
            BY <3>1
        <3>2. CASE k # m
            BY <3>2, <2>1
        <3> QED
            BY <3>1, <3>2
    <2> HIDE DEF g
    <2> QED
        BY <2>3, <2>4, <2>5 DEF Computes
<1> HIDE DEF Good
<1>3. \A m \in 0..n : m \in S
    <2>1. 0 \in S /\ \A m \in 1..n : m - 1 \in S => m \in S
        BY <1>1, <1>2
    <2> HIDE DEF S
    <2> QED
        BY <2>1, UpTo
<1>4. Good(n)
    BY <1>3
<1> QED
    BY <1>4 DEF Good

-----------------------------------------------------------------------------

LEMMA AddressFoldsTyped ==
    ASSUME NEW n \in Nat, NEW named, NEW l
    PROVE  AddressFolds(n, named, l) \subseteq Nat
    BY DEF AddressFolds, AddressText

\* The column after a character of the address, in a line of limit columns.
NextColumn(c, limit) == IF c + 1 >= limit THEN 1 ELSE c + 1

\* AddressColumns is defined by recursion on the characters: it is a function,
\* with the values the recursion says.
LEMMA AddressColumnValues ==
    ASSUME NEW n \in Nat, NEW start \in Nat, NEW limit \in Nat
    PROVE  /\ AddressColumns(n, start, limit)[0] = start
           /\ \A k \in 1..n :
                  AddressColumns(n, start, limit)[k]
                      = NextColumn(AddressColumns(n, start, limit)[k - 1], limit)
<1> DEFINE step == [k \in 1..n |-> [c \in Nat |-> NextColumn(c, limit)]]
           column == AddressColumns(n, start, limit)
<1>1. step \in Steps(n, Nat)
    BY DEF NextColumn, Steps
<1>2. PICK f : Computes(f, n, Nat, start, step)
    <2> HIDE DEF step
    <2> QED
        BY <1>1, Recursion
<1>3. /\ f \in [0..n -> Nat] /\ f[0] = start
      /\ \A k \in 1..n : f[k] = step[k][f[k - 1]]
    BY <1>2 DEF Computes
<1>4. \A k \in 1..n : k - 1 \in 0..n /\ f[k - 1] \in Nat
    BY <1>3
<1>5. \A k \in 1..n : f[k] = NextColumn(f[k - 1], limit)
    BY <1>3, <1>4
<1> HIDE DEF step
<1>6. \A k \in 0..n : k = 0 \/ k \in 1..n
    OBVIOUS
<1>7. f = [k \in 0..n |-> IF k = 0 THEN start ELSE NextColumn(f[k - 1], limit)]
    BY <1>3, <1>5, <1>6
<1>8. column = CHOOSE g : g = [k \in 0..n |->
                  IF k = 0 THEN start ELSE NextColumn(g[k - 1], limit)]
    BY DEF AddressColumns, NextColumn
<1>9. column = [k \in 0..n |-> IF k = 0 THEN start ELSE NextColumn(column[k - 1], limit)]
    <2> HIDE DEF column
    <2> QED
        BY <1>7, <1>8
<1> HIDE DEF column
<1>10. 0 \in 0..n /\ \A k \in 1..n : k \in 0..n /\ k # 0
    OBVIOUS
<1>11. column[0] = start /\ \A k \in 1..n : column[k] = NextColumn(column[k - 1], limit)
    BY <1>9, <1>10
<1> QED
    BY <1>11 DEF column

\* The character before which the line is folded first.
FirstFold(start, limit) == IF start + 1 >= limit THEN 1 ELSE limit - start

\* The column grows from start, is 1 at the first fold, and grows again; so the
\* second fold is limit - 1 characters after the first.
LEMMA AddressColumnRuns ==
    ASSUME NEW n \in Nat, NEW start \in Nat, NEW limit \in Nat, limit > 2
    PROVE  \A k \in 0..n :
               LET first == FirstFold(start, limit)
                   column == AddressColumns(n, start, limit)
               IN  /\ k < first => column[k] = start + k
                   /\ first <= k /\ k < first + limit - 1 => column[k] = k - first + 1
<1> DEFINE first == FirstFold(start, limit)
           column == AddressColumns(n, start, limit)
           Run(k) == /\ k < first => column[k] = start + k
                     /\ first <= k /\ k < first + limit - 1 => column[k] = k - first + 1
           S == {k \in 0..n : Run(k)}
<1>1. column[0] = start /\ \A k \in 1..n : column[k] = NextColumn(column[k - 1], limit)
    BY AddressColumnValues
<1>2. /\ first \in Nat /\ first >= 1
      /\ \A k \in Nat : k > 0 /\ k < first => start + k < limit
      /\ first > 1 => first = limit - start
      /\ first = 1 => start + 1 >= limit
    BY DEF FirstFold
<1> HIDE DEF first, column
<1>3. 0 \in S
    BY <1>1, <1>2
<1>4. ASSUME NEW k \in 1..n, k - 1 \in S
      PROVE  k \in S
    <2>1. Run(k - 1) /\ column[k] = NextColumn(column[k - 1], limit)
        BY <1>1, <1>4
    <2>2. CASE k < first
        <3>1. column[k - 1] = start + (k - 1) /\ start + k < limit
            BY <1>2, <2>1, <2>2
        <3>2. column[k] = start + k
            BY <2>1, <3>1 DEF NextColumn
        <3> QED
            BY <1>2, <2>2, <3>2
    <2>3. CASE k = first
        <3>1. column[k - 1] = start + (k - 1) /\ start + k >= limit
            BY <1>2, <2>1, <2>3
        <3>2. column[k] = 1
            BY <2>1, <3>1 DEF NextColumn
        <3> QED
            BY <1>2, <2>3, <3>2
    <2>4. CASE k > first /\ k < first + limit - 1
        <3>1. column[k - 1] = (k - 1) - first + 1
            BY <1>2, <2>1, <2>4
        <3>2. column[k] = k - first + 1
            BY <1>2, <2>1, <2>4, <3>1 DEF NextColumn
        <3> QED
            BY <1>2, <2>4, <3>2
    <2>5. CASE k >= first + limit - 1
        BY <1>2, <2>5
    <2> QED
        BY <1>2, <2>2, <2>3, <2>4, <2>5
<1>5. \A k \in 0..n : k \in S
    <2> HIDE DEF S
    <2> QED
        BY <1>3, <1>4, UpTo
<1>6. \A k \in 0..n : Run(k)
    BY <1>5
<1> QED
    BY <1>6 DEF first, column

\* The first two folds.
LEMMA AddressFoldsAt ==
    ASSUME NEW length \in Nat, length > 0, NEW named \in BOOLEAN,
           NEW limit \in Nat, limit > 2,
           NEW j \in 1..AddressText(length, named)
    PROVE  LET first == FirstFold(AddressStart(length, named), limit)
           IN  j < first + limit =>
                   (j \in AddressFolds(length, named, limit)
                        <=> j = first \/ j = first + limit - 1)
<1> DEFINE n == AddressText(length, named)
           start == AddressStart(length, named)
           first == FirstFold(start, limit)
           column == AddressColumns(n, start, limit)
<1>1. n \in Nat /\ start \in Nat
    BY DEF AddressText, AddressStart
<1>2. j \in AddressFolds(length, named, limit) <=> column[j - 1] + 1 >= limit
    BY DEF AddressFolds
<1>3. /\ first \in Nat /\ first >= 1
      /\ first > 1 => first = limit - start
      /\ first = 1 => start + 1 >= limit
    BY <1>1 DEF FirstFold
<1>4. j - 1 \in 0..n
    BY <1>1
<1>5. /\ j - 1 < first => column[j - 1] = start + (j - 1)
      /\ first <= j - 1 /\ j - 1 < first + limit - 1 => column[j - 1] = (j - 1) - first + 1
    <2> HIDE DEF n, start
    <2> QED
        BY <1>1, <1>4, AddressColumnRuns
<1> HIDE DEF n, start, first, column
<1>6. j \in Nat /\ j >= 1
    BY <1>1, <1>4
<1>7. CASE j - 1 < first
    <2>1. column[j - 1] + 1 = start + j
        BY <1>1, <1>5, <1>6, <1>7
    <2>2. start + j >= limit <=> j = first
        BY <1>1, <1>3, <1>6, <1>7
    <2>3. j # first + limit - 1
        BY <1>3, <1>6, <1>7
    <2> QED
        BY <1>2, <2>1, <2>2, <2>3 DEF first, start
<1>8. CASE first <= j - 1 /\ j < first + limit
    <2>1. column[j - 1] + 1 = j - first + 1
        BY <1>3, <1>5, <1>6, <1>8
    <2>2. j - first + 1 >= limit <=> j = first + limit - 1
        BY <1>3, <1>6, <1>8
    <2>3. j # first
        BY <1>3, <1>6, <1>8
    <2> QED
        BY <1>2, <2>1, <2>2, <2>3 DEF first, start
<1> QED
    BY <1>3, <1>6, <1>7, <1>8 DEF first, start

\* After a display name, how many characters come before the first fold: fewer
\* than half of a line, as the count begins with the length of the address.
LEMMA AddressBeside ==
    ASSUME NEW length \in Nat, length > 0, NEW limit \in Nat, limit > 2,
           NEW j \in 1..AddressText(length, TRUE),
           \A f \in AddressFolds(length, TRUE, limit) : j < f
    PROVE  2 * j < limit
<1> DEFINE n == AddressText(length, TRUE)
           first == FirstFold(AddressStart(length, TRUE), limit)
<1>1. \A k \in 1..n : k < first + limit =>
          (k \in AddressFolds(length, TRUE, limit) <=> k = first \/ k = first + limit - 1)
    BY AddressFoldsAt
<1>2. n = length + 3 /\ first = IF length + 4 >= limit THEN 1 ELSE limit - (length + 3)
    BY DEF AddressText, FirstFold, AddressStart
<1>3. j \in 1..n
    OBVIOUS
<1> HIDE DEF n, first
<1>4. first \in 1..n => j < first
    <2> SUFFICES ASSUME first \in 1..n PROVE j < first
        OBVIOUS
    <2>1. first < first + limit
        BY <1>2
    <2> QED
        BY <1>1, <2>1
<1> QED
    BY <1>2, <1>3, <1>4

\* Where no fold is inside the address.
WholeAddress(length, named, limit) ==
    IF named THEN 2 * length + 5 < limit \/ length \in (limit - 6)..(limit - 3)
    ELSE length < limit

LEMMA AddressFoldsInside ==
    ASSUME NEW length \in Nat, NEW named \in BOOLEAN, NEW limit \in Nat, limit >= 8
    PROVE  AddressFolds(length, named, limit) \cap InsideAddress(length, named) = {}
               <=> WholeAddress(length, named, limit)
<1> DEFINE first == FirstFold(AddressStart(length, named), limit)
           A == AddressFolds(length, named, limit)
           I == InsideAddress(length, named)
           n == AddressText(length, named)
<1>f. length > 0 =>
          \A j \in 1..n : j < first + limit => (j \in A <=> j = first \/ j = first + limit - 1)
    BY AddressFoldsAt
<1>1. CASE length = 0
    BY <1>1 DEF AddressFolds, WholeAddress
<1>2. CASE length > 0 /\ named
    <2>1. n = length + 3 /\ I = 4..(length + 2)
          /\ first = IF length + 4 >= limit THEN 1 ELSE limit - (length + 3)
        BY <1>2 DEF AddressText, InsideAddress, FirstFold, AddressStart
    <2>2. \A j \in I : j < first + limit => (j \in A <=> j = first \/ j = first + limit - 1)
        <3>1. I \subseteq 1..n
            BY <2>1
        <3> QED
            BY <1>f, <1>2, <3>1
    <2>3. WholeAddress(length, named, limit)
              <=> 2 * length + 5 < limit \/ length \in (limit - 6)..(limit - 3)
        BY <1>2 DEF WholeAddress
    <2> HIDE DEF first, A, I, n
    <2>4. CASE length + 4 <= limit
        <3>1. first = limit - (length + 3)
            BY <2>1, <2>4
        <3>2. \A j \in I : j \in A <=> j = first
            BY <2>1, <2>2, <2>4, <3>1
        <3>3. A \cap I = {} <=> first \notin I
            BY <3>2
        <3>4. first \notin I <=> 2 * length + 5 < limit \/ length \in (limit - 6)..(limit - 3)
            BY <2>1, <2>4, <3>1
        <3> QED
            BY <2>3, <3>3, <3>4 DEF A, I
    <2>5. CASE length + 3 = limit
        <3>1. first = 1
            BY <2>1, <2>5
        <3>2. \A j \in I : j \notin A
            BY <2>1, <2>2, <2>5, <3>1
        <3>3. length \in (limit - 6)..(limit - 3)
            BY <2>5
        <3> QED
            BY <2>3, <3>2, <3>3 DEF A, I
    <2>6. CASE length + 2 >= limit
        <3>1. first = 1
            BY <2>1, <2>6
        <3>2. limit \in I /\ limit \in A
            BY <2>1, <2>2, <2>6, <3>1
        <3>3. ~(2 * length + 5 < limit) /\ ~(length \in (limit - 6)..(limit - 3))
            BY <2>6
        <3> QED
            BY <2>3, <3>2, <3>3 DEF A, I
    <2> QED
        BY <2>4, <2>5, <2>6
<1>3. CASE length > 0 /\ ~named
    <2>1. n = length /\ I = 2..length /\ first = limit
        BY <1>3 DEF AddressText, InsideAddress, FirstFold, AddressStart
    <2>2. \A j \in I : j < first + limit => (j \in A <=> j = first \/ j = first + limit - 1)
        <3>1. I \subseteq 1..n
            BY <2>1
        <3> QED
            BY <1>f, <1>3, <3>1
    <2>3. WholeAddress(length, named, limit) <=> length < limit
        BY <1>3 DEF WholeAddress
    <2> HIDE DEF first, A, I, n
    <2>4. CASE length < limit
        <3>1. \A j \in I : j \notin A
            BY <2>1, <2>2, <2>4
        <3> QED
            BY <2>3, <2>4, <3>1 DEF A, I
    <2>5. CASE length >= limit
        <3>1. limit \in I /\ limit \in A
            BY <2>1, <2>2, <2>5
        <3> QED
            BY <2>3, <2>5, <3>1 DEF A, I
    <2> QED
        BY <2>4, <2>5
<1> QED
    BY <1>1, <1>2, <1>3

-----------------------------------------------------------------------------

\* Before token k of out the set s is in force.
Reads(out, k, s) ==
    \/ s = "ascii" /\ \A j \in 1..(k - 1) : out[j].kind # "esc"
    \/ \E j \in 1..(k - 1) :
           /\ out[j].kind = "esc" /\ out[j].set = s
           /\ \A e \in (j + 1)..(k - 1) : out[e].kind # "esc"

\* What is asked of token t of an encoding of text, where the set s is in
\* force: a character is in its own set, a fold in ASCII.
RightIn(text, t, s) ==
    /\ t.kind = "char" => s = SetOf(text[t.at])
    /\ t.kind = "fold" => s = "ascii"

\* Every token of out is right, and what is added next is in set s.
Right(text, out, s) ==
    /\ \A k \in 1..Len(out) :
           \E r \in Sets : Reads(out, k, r) /\ RightIn(text, out[k], r)
    /\ Reads(out, Len(out) + 1, s)

\* The last escape sequence decides.
LEMMA ReadsInForce ==
    ASSUME NEW out, NEW k \in Nat, NEW s, Reads(out, k, s)
    PROVE  InForce(out, k) = s
<1> DEFINE escapes == {j \in 1..(k - 1) : out[j].kind = "esc"}
<1>1. CASE escapes = {}
    BY <1>1 DEF Reads, InForce
<1>2. CASE escapes # {}
    <2>1. PICK j \in 1..(k - 1) :
              /\ out[j].kind = "esc" /\ out[j].set = s
              /\ \A e \in (j + 1)..(k - 1) : out[e].kind # "esc"
        BY <1>2 DEF Reads
    <2>2. j \in escapes /\ \A e \in escapes : e <= j
        BY <2>1
    <2>3. (CHOOSE m \in escapes : \A e \in escapes : e <= m) = j
        <3>1. \A m \in escapes : (\A e \in escapes : e <= m) => m = j
            BY <2>2
        <3> QED
            BY <2>2, <3>1
    <2>4. InForce(out, k) = out[CHOOSE m \in escapes : \A e \in escapes : e <= m].set
        BY <1>2 DEF InForce
    <2> QED
        BY <2>1, <2>3, <2>4
<1> QED
    BY <1>1, <1>2

\* Nothing read, nothing in force but ASCII.
LEMMA RightEmpty == ASSUME NEW text PROVE Right(text, <<>>, "ascii")
<1>1. Len(<<>>) = 0
    OBVIOUS
<1> QED
    BY <1>1 DEF Right, Reads

\* One more token.
LEMMA RightAppend ==
    ASSUME NEW text, NEW S, NEW out \in Seq(S), NEW t \in S, NEW s \in Sets,
           Right(text, out, s), RightIn(text, t, s)
    PROVE  Right(text, Append(out, t), IF t.kind = "esc" THEN t.set ELSE s)
<1> DEFINE n == Len(out)
           longer == Append(out, t)
<1>1. /\ n \in Nat /\ Len(longer) = n + 1
      /\ \A j \in 1..n : longer[j] = out[j]
      /\ longer[n + 1] = t
    BY AppendProperties, LenProperties
<1> HIDE DEF n, longer
<1>2. ASSUME NEW k \in 1..(n + 1), NEW r, Reads(out, k, r)
      PROVE  Reads(longer, k, r)
    BY <1>1, <1>2 DEF Reads
<1>3. ASSUME NEW k \in 1..(n + 1)
      PROVE  \E r \in Sets : Reads(longer, k, r) /\ RightIn(text, longer[k], r)
    <2>1. CASE k \in 1..n
        <3>1. PICK r \in Sets : Reads(out, k, r) /\ RightIn(text, out[k], r)
            BY <2>1 DEF Right, n
        <3> QED
            BY <1>1, <1>2, <2>1, <3>1
    <2>2. CASE k = n + 1
        <3>1. Reads(out, k, s)
            BY <2>2 DEF Right, n
        <3> QED
            BY <1>1, <1>2, <2>2, <3>1
    <2> QED
        BY <1>1, <2>1, <2>2
<1>4. Reads(longer, n + 2, IF t.kind = "esc" THEN t.set ELSE s)
    <2>1. CASE t.kind = "esc"
        BY <1>1, <2>1 DEF Reads
    <2>2. CASE t.kind # "esc"
        <3>1. Reads(out, n + 1, s)
            BY DEF Right, n
        <3>2. Reads(longer, n + 1, s)
            BY <1>1, <1>2, <3>1
        <3>3. n + 1 - 1 = n /\ n + 2 - 1 = n + 1
            BY <1>1
        <3>4. \A e \in 1..(n + 1) : e \in 1..n \/ e = n + 1
            BY <1>1
        <3> QED
            BY <1>1, <2>2, <3>2, <3>3, <3>4 DEF Reads
    <2> QED
        BY <2>1, <2>2
<1> QED
    BY <1>1, <1>3, <1>4 DEF Right, longer

-----------------------------------------------------------------------------

LEMMA PositionsAppend ==
    ASSUME NEW S, NEW out \in Seq(S), NEW t \in S
    PROVE  PositionsIn(Append(out, t)) =
               PositionsIn(out) \cup (IF t.kind = "char" THEN {t.at} ELSE {})
<1> DEFINE n == Len(out)
           longer == Append(out, t)
<1>1. /\ n \in Nat /\ Len(longer) = n + 1
      /\ \A j \in 1..n : longer[j] = out[j]
      /\ longer[n + 1] = t
    BY AppendProperties, LenProperties
<1> HIDE DEF longer
<1>2. \A j \in 1..(n + 1) : j \in 1..n \/ j = n + 1
    BY <1>1
<1>3. \A j \in 1..n : j \in 1..(n + 1)
    BY <1>1
<1>4. n + 1 \in 1..(n + 1)
    BY <1>1
<1> HIDE DEF n
<1>5. PositionsIn(out) = {out[k].at : k \in {j \in 1..n : out[j].kind = "char"}}
    BY DEF PositionsIn, n
<1>6. PositionsIn(longer) = {longer[k].at : k \in {j \in 1..(n + 1) : longer[j].kind = "char"}}
    BY <1>1 DEF PositionsIn
<1> QED
    BY <1>1, <1>2, <1>3, <1>4, <1>5, <1>6 DEF longer

\* A token that is no character leaves the order alone, a character that comes
\* after all others keeps it.
LEMMA IncreasingAppend ==
    ASSUME NEW S, NEW out \in Seq(S), NEW t \in S, Increasing(out),
           t.kind = "char" => \A p \in PositionsIn(out) : p < t.at
    PROVE  Increasing(Append(out, t))
<1> DEFINE n == Len(out)
           longer == Append(out, t)
<1>1. /\ n \in Nat /\ Len(longer) = n + 1
      /\ \A j \in 1..n : longer[j] = out[j]
      /\ longer[n + 1] = t
    BY AppendProperties, LenProperties
<1> HIDE DEF longer
<1> SUFFICES ASSUME NEW j \in 1..(n + 1), NEW k \in 1..(n + 1), j < k,
                    longer[j].kind = "char", longer[k].kind = "char"
             PROVE  longer[j].at < longer[k].at
    BY <1>1 DEF Increasing, longer
<1>2. j \in 1..n /\ longer[j] = out[j]
    BY <1>1
<1>3. CASE k \in 1..n
    BY <1>1, <1>2, <1>3 DEF Increasing
<1>4. CASE k = n + 1
    <2>1. out[j].at \in PositionsIn(out)
        BY <1>2 DEF PositionsIn
    <2> QED
        BY <1>1, <1>2, <1>4, <2>1
<1> QED
    BY <1>1, <1>3, <1>4

LEMMA CopiedNothing == ASSUME NEW text, NEW m \in Nat PROVE Copied(text, <<>>, m, m)
<1>1. Len(<<>>) = 0
    OBVIOUS
<1>2. PositionsIn(<<>>) = {} /\ Increasing(<<>>)
    BY <1>1 DEF PositionsIn, Increasing
<1>3. (m + 1)..m = {}
    OBVIOUS
<1> QED
    BY <1>2, <1>3 DEF Copied

\* A character without a code is left out.
LEMMA CopiedSkip ==
    ASSUME NEW text, NEW out, NEW m \in Nat, NEW n \in Nat, m <= n,
           Copied(text, out, m, n), text[n + 1] = "none"
    PROVE  Copied(text, out, m, n + 1)
<1>1. (m + 1)..(n + 1) = ((m + 1)..n) \cup {n + 1}
    OBVIOUS
<1> QED
    BY <1>1 DEF Copied

LEMMA CopiedOther ==
    ASSUME NEW text, NEW S, NEW out \in Seq(S), NEW t \in S, t.kind # "char",
           NEW m, NEW n, Copied(text, out, m, n)
    PROVE  Copied(text, Append(out, t), m, n)
    BY PositionsAppend, IncreasingAppend DEF Copied

LEMMA CopiedCharacter ==
    ASSUME NEW text, NEW S, NEW out \in Seq(S), NEW t \in S,
           NEW m \in Nat, NEW n \in Nat, m <= n, Copied(text, out, m, n),
           text[n + 1] # "none", t.kind = "char", t.at = n + 1
    PROVE  Copied(text, Append(out, t), m, n + 1)
<1>1. (m + 1)..(n + 1) = ((m + 1)..n) \cup {n + 1}
    OBVIOUS
<1>2. PositionsIn(Append(out, t)) = PositionsIn(out) \cup {n + 1}
    BY PositionsAppend
<1>3. \A p \in PositionsIn(out) : p < n + 1
    BY DEF Copied
<1>4. Increasing(Append(out, t))
    BY <1>3, IncreasingAppend DEF Copied
<1> QED
    BY <1>1, <1>2, <1>4 DEF Copied

-----------------------------------------------------------------------------

\* An escape sequence to set s, if set t is in use.
LEMMA Switched ==
    ASSUME NEW text, NEW S, NEW out \in Seq(S), NEW s \in Sets, NEW t \in Sets,
           Escape(s) \in S,
           NEW sw, sw = IF s = t THEN <<>> ELSE <<Escape(s)>>
    PROVE  /\ out \o sw \in Seq(S)
           /\ Right(text, out, t) => Right(text, out \o sw, s)
           /\ Len(sw) \in 0..1
           /\ \A m, n : Copied(text, out, m, n) => Copied(text, out \o sw, m, n)
<1>1. CASE s = t
    <2>1. out \o sw = out
        BY <1>1, ConcatEmptySeq
    <2> QED
        BY <1>1, <2>1
<1>2. CASE s # t
    <2>0. sw = <<Escape(s)>>
        BY <1>2
    <2>1. out \o sw = Append(out, Escape(s)) /\ Append(out, Escape(s)) \in Seq(S)
        BY <2>0, AppendIsConcat, AppendProperties
    <2>2. Escape(s).kind = "esc" /\ Escape(s).set = s
        BY DEF Escape
    <2>3. RightIn(text, Escape(s), t)
        BY <2>2 DEF RightIn
    <2>4. Right(text, out, t) => Right(text, Append(out, Escape(s)), s)
        BY <2>2, <2>3, RightAppend
    <2>5. \A m, n : Copied(text, out, m, n) => Copied(text, Append(out, Escape(s)), m, n)
        BY <2>2, CopiedOther
    <2>6. Len(sw) = 1
        <3>1. Append(out, Escape(s)) = out \o sw /\ Len(Append(out, Escape(s))) = Len(out) + 1
            BY <2>1, AppendProperties
        <3>2. sw \in Seq(S) /\ Len(out) \in Nat
            BY <2>0, LenProperties
        <3> QED
            BY <3>1, <3>2, ConcatProperties, LenProperties
    <2>7. out \o sw \in Seq(S) /\ (Right(text, out, t) => Right(text, out \o sw, s))
        BY <2>1, <2>4
    <2>8. \A m, n : Copied(text, out, m, n) => Copied(text, out \o sw, m, n)
        BY <2>1, <2>5
    <2> QED
        BY <2>6, <2>7, <2>8
<1> QED
    BY <1>1, <1>2

=============================================================================
