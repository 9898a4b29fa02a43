-------------------------- MODULE MimeMessageProofs --------------------------
(***************************************************************************)
(* Theorems about MimeMessage: which object belongs to whom before each     *)
(* call, and so what every failure leaves behind.                           *)
(***************************************************************************)
EXTENDS MimeMessage, TLAPS

USE DEF vars

AllOwners == [Objects -> Owners]

-----------------------------------------------------------------------------

\* Giving changes the objects given, and no other.
LEMMA GiveIs ==
    ASSUME NEW o \in AllOwners, NEW S, NEW y
    PROVE  /\ \A x \in Objects : Give(o, S, y)[x] = IF x \in S THEN y ELSE o[x]
           /\ y \in Owners => Give(o, S, y) \in AllOwners
BY DEF Give, AllOwners

\* What is freed, and with what: owners up to three deep.
LEMMA FreeIs ==
    ASSUME NEW o \in AllOwners, NEW S \in SUBSET Objects
    PROVE  /\ Free(o, S) \in AllOwners
           /\ \A x \in Objects : x \in S \/ o[x] \in S => Free(o, S)[x] = "freed"
           /\ \A x \in Objects : o[x] \in Objects /\ o[o[x]] \in S
                                     => Free(o, S)[x] = "freed"
           /\ \A x \in Objects :
                  o[x] \in Objects /\ o[o[x]] \in Objects /\ o[o[o[x]]] \in S
                      => Free(o, S)[x] = "freed"
           /\ \A x \in Objects :
                  (/\ x \notin S /\ o[x] \notin S
                   /\ o[x] \in Objects => o[o[x]] \notin S
                   /\ o[x] \in Objects /\ o[o[x]] \in Objects => o[o[o[x]]] \notin S)
                  => Free(o, S)[x] = o[x]
           /\ (\A y \in Objects : o[y] \notin S)
                  => \A x \in Objects : x \notin S => Free(o, S)[x] = o[x]
<1> DEFINE With(T) == T \cup {x \in Objects : o[x] \in T}
           W1 == With(S)
           W2 == With(W1)
           W3 == With(W2)
<1>1. Free(o, S) = Give(o, W3, "freed")
    BY DEF Free
<1>2. \A x \in Objects : Free(o, S)[x] = IF x \in W3 THEN "freed" ELSE o[x]
    BY <1>1, GiveIs
<1>3. Free(o, S) \in AllOwners
    BY <1>1, GiveIs DEF Owners
<1>4. /\ S \subseteq W1 /\ W1 \subseteq W2 /\ W2 \subseteq W3
      /\ \A x \in Objects : /\ o[x] \in S => x \in W1
                            /\ o[x] \in W1 => x \in W2
                            /\ o[x] \in W2 => x \in W3
    OBVIOUS
<1>5. /\ W3 \subseteq Objects
      /\ \A x \in Objects : x \in W1 => x \in S \/ o[x] \in S
      /\ \A x \in Objects : x \in W2 => x \in W1 \/ (o[x] \in Objects /\ o[x] \in W1)
      /\ \A x \in Objects : x \in W3 => x \in W2 \/ (o[x] \in Objects /\ o[x] \in W2)
    OBVIOUS
<1>6. (\A x \in Objects : o[x] \notin S) => W3 = S
    OBVIOUS
<1> HIDE DEF W1, W2, W3, With
<1>7. \A x \in Objects : x \in W3 => Free(o, S)[x] = "freed"
    BY <1>2
<1>8. \A x \in Objects : x \in S \/ o[x] \in S => Free(o, S)[x] = "freed"
    BY <1>4, <1>7
<1>9. \A x \in Objects : o[x] \in Objects /\ o[o[x]] \in S => Free(o, S)[x] = "freed"
    BY <1>4, <1>7
<1>12. \A x \in Objects : o[x] \in Objects /\ o[o[x]] \in Objects /\ o[o[o[x]]] \in S
                              => Free(o, S)[x] = "freed"
    BY <1>4, <1>7
<1>10. ASSUME NEW x \in Objects, x \notin S, o[x] \notin S,
              o[x] \in Objects => o[o[x]] \notin S,
              o[x] \in Objects /\ o[o[x]] \in Objects => o[o[o[x]]] \notin S
       PROVE  Free(o, S)[x] = o[x]
    BY <1>2, <1>5, <1>10
<1>11. (\A y \in Objects : o[y] \notin S)
           => \A x \in Objects : x \notin S => Free(o, S)[x] = o[x]
    BY <1>2, <1>6
<1> QED
    BY <1>3, <1>8, <1>9, <1>10, <1>11, <1>12

-----------------------------------------------------------------------------

\* The lists and the subject, which the header fields take over.
Heads == Lists \cup {"subject"}

Making == Heads \cup {"fields"}

\* The objects made before each call up to the one that makes the fields.
SoFar(c) ==
    CASE c = "subject" -> {}
      [] c = "from"    -> {"subject"}
      [] c = "to"      -> {"subject", "from"}
      [] c = "cc"      -> {"subject", "from", "to"}
      [] c = "bcc"     -> {"subject", "from", "to", "cc"}
      [] c = "replyTo" -> {"subject", "from", "to", "cc", "bcc"}
      [] c = "fields"  -> Heads

\* The calls while the mime is ours.
Building == {"mimeFields", "content", "param", "append", "part", "setBody",
             "addPart", "write", "freeMime"}

Ours(S) == \A x \in S : owner[x] = "us"

Unmade(S) == \A x \in S : owner[x] = "none"

Gone(S) == \A x \in S : owner[x] = "freed"

\* Before the fields are made, what was made is ours.
HeadsInv ==
    /\ call \in Making => \A x \in Objects :
                              owner[x] = IF x \in SoFar(call) THEN "us" ELSE "none"
    /\ call \in {"mime"} \cup Building => \A x \in Heads : owner[x] \in {"fields", "freed"}
    /\ call \in {"mime"} \cup Building => \A x \in Lists :
                              owner[x] = "fields" <=> x \in names \ {"bcc"}

\* After that, the owner of each other object at each call.
PartsInv ==
    /\ call = "mime" => Ours({"fields"})
                        /\ Unmade({"mime", "mimeFields", "content", "param", "part"})
    /\ call \in Building => owner["fields"] = "mime" /\ owner["mime"] = "us"
    /\ call = "mimeFields" => Unmade({"mimeFields", "content", "param", "part"})
    /\ call = "content" => Ours({"mimeFields"}) /\ Unmade({"content", "param", "part"})
    /\ call = "param" => Ours({"mimeFields", "content"}) /\ Unmade({"param", "part"})
    /\ call = "append" => Ours({"mimeFields", "content", "param"}) /\ Unmade({"part"})
    /\ call = "part" => /\ Ours({"mimeFields", "content"}) /\ Unmade({"part"})
                        /\ owner["param"] = "content"
    /\ call \in {"setBody", "addPart"} =>
           /\ Ours({"part"}) /\ owner["param"] = "content"
           /\ owner["content"] = "part" /\ owner["mimeFields"] = "part"
    /\ call = "write" \/ (call = "freeMime" /\ failed \in {"none", "write"}) =>
           /\ owner["part"] = "mime" /\ owner["param"] = "content"
           /\ owner["content"] = "part" /\ owner["mimeFields"] = "part"
    /\ call = "freeMime" /\ failed = "setBody" =>
           Gone({"part", "content", "mimeFields", "param"})
    /\ call = "freeMime" /\ failed = "content" =>
           Gone({"mimeFields"}) /\ Unmade({"content", "param", "part"})

MimeInv ==
    /\ MimeTypeOK
    /\ call \in Calls => failed = "none"
    /\ HeadsInv /\ PartsInv
    /\ FreedOnce /\ ReleasedAtEnd /\ HeadersAsGiven

-----------------------------------------------------------------------------

LEMMA InitMime == Init => MimeInv
BY DEF Init, MimeInv, MimeTypeOK, HeadsInv, PartsInv, FreedOnce, ReleasedAtEnd,
       HeadersAsGiven, Calls, After, Owners, Lists, Making, Heads, SoFar, Building

\* The names of the calls, without the record they are the domain of.
LEMMA CallsAre ==
    /\ Calls = Making \cup (Building \ {"freeMime"}) \cup {"mime"}
    /\ "freeMime" \notin Calls /\ "done" \notin Calls
BY DEF Calls, After, Making, Heads, Lists, Building

\* Every object made by itself: it is ours until the next call takes it.
LEMMA MakeMimeInv == MimeInv /\ Make => MimeInv'
<1> SUFFICES ASSUME MimeInv, Make PROVE MimeInv'
    OBVIOUS
<1> USE DEF Make, MimeInv
<1>1. MimeTypeOK'
    BY DEF MimeTypeOK, Made, Lists, Objects, Owners, After, Calls
<1>2. HeadsInv'
    <2>1. CASE call \in Heads
        <3>1. /\ call' \in Making /\ call' \notin {"mime"} \cup Building
              /\ SoFar(call') = SoFar(call) \cup {call}
            BY <2>1 DEF Heads, Lists, Making, After, Building, SoFar
        <3>2. call \in Making /\ call \in Objects
            BY <2>1 DEF Making, Heads, Objects, Made
        <3>3. \A x \in Objects : owner[x] = IF x \in SoFar(call) THEN "us" ELSE "none"
            BY <3>2 DEF HeadsInv
        <3>4. \A x \in Objects : owner'[x] = IF x = call THEN "us" ELSE owner[x]
            BY <3>2 DEF MimeTypeOK
        <3>5. \A x \in Objects : owner'[x] = IF x \in SoFar(call') THEN "us" ELSE "none"
            BY <3>1, <3>3, <3>4
        <3> QED
            BY <3>1, <3>5 DEF HeadsInv
    <2>2. CASE call \in {"mimeFields", "content", "param"}
        BY <2>2 DEF MimeTypeOK, HeadsInv, Lists, Objects, Made, Making, Heads, After, Building
    <2> QED
        BY <2>1, <2>2 DEF Made, Heads
<1>3. PartsInv'
    BY DEF MimeTypeOK, HeadsInv, PartsInv, Made, Lists, Objects, Making, Heads, SoFar,
           After, Building, Ours, Unmade, Gone
<1>4. FreedOnce' /\ ReleasedAtEnd' /\ HeadersAsGiven'
    BY DEF FreedOnce, ReleasedAtEnd, HeadersAsGiven, Made, Lists, After
<1>5. (call \in Calls => failed = "none")'
    BY DEF Calls, After, Made, Lists
<1> QED
    BY <1>1, <1>2, <1>3, <1>4, <1>5

\* The lists passed, and the subject, pass to the fields; the others are freed.
LEMMA MakeFieldsMimeInv == MimeInv /\ MakeFields => MimeInv'
<1> SUFFICES ASSUME MimeInv, MakeFields PROVE MimeInv'
    OBVIOUS
<1> DEFINE taken == Passed \cup {"subject"}
           made  == [owner EXCEPT !["fields"] = "us"]
           given == Give(made, taken, "fields")
<1>1. /\ call = "fields" /\ call' = "mime" /\ failed = "none"
      /\ owner' = Free(given, StillOurs)
      /\ faults' = faults \cup NotOurs(owner, taken) \cup NotOurs(given, StillOurs)
      /\ UNCHANGED <<names, typeParses, failed, headers, text>>
    BY CallsAre DEF MakeFields, MimeInv, After, Making, Heads
<1>2. owner \in AllOwners /\ names \subseteq Lists
    BY DEF MimeInv, MimeTypeOK, AllOwners
<1>3. \A x \in Objects : owner[x] = IF x \in Heads THEN "us" ELSE "none"
    BY <1>1 DEF MimeInv, HeadsInv, Making, SoFar, Heads, Lists
<1>4. taken \subseteq Heads /\ StillOurs \subseteq Lists /\ StillOurs = Lists \ taken
      /\ Heads \subseteq Objects /\ "fields" \in Objects /\ "fields" \notin Heads
    BY <1>2 DEF Passed, StillOurs, Heads, Lists, Objects, Made
<1>5. /\ made \in AllOwners
      /\ \A x \in Objects : made[x] = IF x \in Heads \cup {"fields"} THEN "us" ELSE "none"
    BY <1>2, <1>3, <1>4 DEF AllOwners, Owners
<1> HIDE DEF made
<1>6. /\ given \in AllOwners
      /\ \A x \in Objects : given[x] = IF x \in taken THEN "fields" ELSE made[x]
    BY <1>4, <1>5, GiveIs DEF Owners
<1> HIDE DEF given
<1>7. NotOurs(owner, taken) = {} /\ NotOurs(given, StillOurs) = {}
    BY <1>3, <1>4, <1>5, <1>6 DEF NotOurs, Heads
<1>8. \A x \in Objects : given[x] \notin StillOurs
    BY <1>4, <1>5, <1>6 DEF Lists
<1>9. /\ owner' \in AllOwners
      /\ \A x \in Objects : owner'[x] = IF x \in StillOurs THEN "freed" ELSE given[x]
    <2>1. StillOurs \in SUBSET Objects
        BY <1>4 DEF Heads
    <2> QED
        BY <1>1, <1>6, <1>8, <2>1, FreeIs
<1>10. /\ \A x \in Heads : owner'[x] = IF x \in taken THEN "fields" ELSE "freed"
       /\ \A x \in Objects \ (Heads \cup {"fields"}) : owner'[x] = "none"
       /\ owner'["fields"] = "us"
    BY <1>4, <1>5, <1>6, <1>9 DEF Heads
<1>11. MimeTypeOK'
    BY <1>1, <1>7, <1>9 DEF MimeInv, MimeTypeOK, AllOwners, Calls, After
<1>12. HeadsInv'
    BY <1>1, <1>10 DEF HeadsInv, Making, Heads, Lists, Building, Passed
<1>13. PartsInv'
    BY <1>1, <1>10 DEF PartsInv, Building, Heads, Lists, Ours, Unmade, Objects, Made
<1>14. FreedOnce' /\ ReleasedAtEnd' /\ HeadersAsGiven' /\ (call \in Calls => failed = "none")'
    BY <1>1, <1>7 DEF MimeInv, FreedOnce, ReleasedAtEnd, HeadersAsGiven
<1> QED
    BY <1>11, <1>12, <1>13, <1>14 DEF MimeInv

\* From there on each object passes to the next, and no head changes.
LEMMA MakeMimeMimeInv == MimeInv /\ MakeMime => MimeInv'
<1> SUFFICES ASSUME MimeInv, MakeMime PROVE MimeInv'
    OBVIOUS
<1>1. /\ call = "mime" /\ call' = "mimeFields" /\ failed = "none"
      /\ UNCHANGED <<names, typeParses, failed, headers, text>>
    BY CallsAre DEF MakeMime, MimeInv, After, Building
<1>2. owner \in AllOwners
    BY DEF MimeInv, MimeTypeOK, AllOwners
<1> DEFINE made == [owner EXCEPT !["mime"] = "us"]
<1>3. /\ made \in AllOwners
      /\ \A x \in Objects : made[x] = IF x = "mime" THEN "us" ELSE owner[x]
    BY <1>2 DEF AllOwners, Owners
<1>10. owner' = Give(made, {"fields"}, "mime")
    BY DEF MakeMime
<1> HIDE DEF made
<1>4. owner' \in AllOwners
    BY <1>3, <1>10, GiveIs DEF Owners, Objects, Made
<1>5. \A x \in Objects : owner'[x] = IF x = "fields" THEN "mime" ELSE
                                     IF x = "mime" THEN "us" ELSE owner[x]
    BY <1>3, <1>10, GiveIs
<1>6. faults' = {}
    BY <1>1 DEF MakeMime, MimeInv, FreedOnce, NotOurs, PartsInv, Ours, Building
<1>7. MimeTypeOK'
    BY <1>1, <1>4, <1>6 DEF MimeInv, MimeTypeOK, AllOwners, Calls, After
<1>8. HeadsInv'
    BY <1>1, <1>5 DEF MimeInv, HeadsInv, Making, Heads, Lists, Building, Objects, Made
<1>9. PartsInv'
    BY <1>1, <1>5 DEF MimeInv, PartsInv, Ours, Unmade, Gone, Building, Objects, Made
<1> QED
    BY <1>1, <1>6, <1>7, <1>8, <1>9 DEF MimeInv, FreedOnce, ReleasedAtEnd, HeadersAsGiven

LEMMA AppendParamMimeInv == MimeInv /\ AppendParam => MimeInv'
<1> SUFFICES ASSUME MimeInv, AppendParam PROVE MimeInv'
    OBVIOUS
<1>1. /\ call = "append" /\ call' = "part" /\ failed = "none"
      /\ UNCHANGED <<names, typeParses, failed, headers, text>>
    BY CallsAre DEF AppendParam, MimeInv, After, Building
<1>2. owner \in AllOwners
    BY DEF MimeInv, MimeTypeOK, AllOwners
<1>4. owner' \in AllOwners
    BY <1>2, GiveIs DEF AppendParam, Owners, Objects, Made
<1>5. \A x \in Objects : owner'[x] = IF x = "param" THEN "content" ELSE owner[x]
    BY <1>2, GiveIs DEF AppendParam
<1>6. faults' = {}
    BY <1>1 DEF AppendParam, MimeInv, FreedOnce, NotOurs, PartsInv, Ours, Building
<1>7. MimeTypeOK'
    BY <1>1, <1>4, <1>6 DEF MimeInv, MimeTypeOK, AllOwners, Calls, After
<1>8. HeadsInv'
    BY <1>1, <1>5 DEF MimeInv, HeadsInv, Making, Heads, Lists, Building, Objects, Made
<1>9. PartsInv'
    BY <1>1, <1>5 DEF MimeInv, PartsInv, Ours, Unmade, Gone, Building, Objects, Made
<1> QED
    BY <1>1, <1>6, <1>7, <1>8, <1>9 DEF MimeInv, FreedOnce, ReleasedAtEnd, HeadersAsGiven

LEMMA MakePartMimeInv == MimeInv /\ MakePart => MimeInv'
<1> SUFFICES ASSUME MimeInv, MakePart PROVE MimeInv'
    OBVIOUS
<1>1. /\ call = "part" /\ call' = "setBody" /\ failed = "none"
      /\ UNCHANGED <<names, typeParses, failed, headers, text>>
    BY CallsAre DEF MakePart, MimeInv, After, Building
<1>2. owner \in AllOwners
    BY DEF MimeInv, MimeTypeOK, AllOwners
<1> DEFINE made == [owner EXCEPT !["part"] = "us"]
<1>3. /\ made \in AllOwners
      /\ \A x \in Objects : made[x] = IF x = "part" THEN "us" ELSE owner[x]
    BY <1>2 DEF AllOwners, Owners
<1>10. owner' = Give(made, {"content", "mimeFields"}, "part")
    BY DEF MakePart
<1> HIDE DEF made
<1>4. owner' \in AllOwners
    BY <1>3, <1>10, GiveIs DEF Owners, Objects, Made
<1>5. \A x \in Objects : owner'[x] = IF x \in {"content", "mimeFields"} THEN "part" ELSE
                                     IF x = "part" THEN "us" ELSE owner[x]
    BY <1>3, <1>10, GiveIs
<1>6. faults' = {}
    BY <1>1 DEF MakePart, MimeInv, FreedOnce, NotOurs, PartsInv, Ours, Building
<1>7. MimeTypeOK'
    BY <1>1, <1>4, <1>6 DEF MimeInv, MimeTypeOK, AllOwners, Calls, After
<1>8. HeadsInv'
    BY <1>1, <1>5 DEF MimeInv, HeadsInv, Making, Heads, Lists, Building, Objects, Made
<1>9. PartsInv'
    BY <1>1, <1>5 DEF MimeInv, PartsInv, Ours, Unmade, Gone, Building, Objects, Made
<1> QED
    BY <1>1, <1>6, <1>7, <1>8, <1>9 DEF MimeInv, FreedOnce, ReleasedAtEnd, HeadersAsGiven

LEMMA AddPartMimeInv == MimeInv /\ AddPart => MimeInv'
<1> SUFFICES ASSUME MimeInv, AddPart PROVE MimeInv'
    OBVIOUS
<1>1. /\ call = "addPart" /\ call' = "write" /\ failed = "none"
      /\ UNCHANGED <<names, typeParses, failed, headers, text>>
    BY CallsAre DEF AddPart, MimeInv, After, Building
<1>2. owner \in AllOwners
    BY DEF MimeInv, MimeTypeOK, AllOwners
<1>4. owner' \in AllOwners
    BY <1>2, GiveIs DEF AddPart, Owners, Objects, Made
<1>5. \A x \in Objects : owner'[x] = IF x = "part" THEN "mime" ELSE owner[x]
    BY <1>2, GiveIs DEF AddPart
<1>6. faults' = {}
    BY <1>1 DEF AddPart, MimeInv, FreedOnce, NotOurs, PartsInv, Ours, Building
<1>7. MimeTypeOK'
    BY <1>1, <1>4, <1>6 DEF MimeInv, MimeTypeOK, AllOwners, Calls, After
<1>8. HeadsInv'
    BY <1>1, <1>5 DEF MimeInv, HeadsInv, Making, Heads, Lists, Building, Objects, Made
<1>9. PartsInv'
    BY <1>1, <1>5 DEF MimeInv, PartsInv, Ours, Unmade, Gone, Building, Objects, Made
<1> QED
    BY <1>1, <1>6, <1>7, <1>8, <1>9 DEF MimeInv, FreedOnce, ReleasedAtEnd, HeadersAsGiven

\* SetBody changes nothing; Write writes the lists the fields have.
LEMMA WriteMimeInv == MimeInv /\ (SetBody \/ Write) => MimeInv'
<1> SUFFICES ASSUME MimeInv, SetBody \/ Write PROVE MimeInv'
    OBVIOUS
<1>1. /\ \/ call = "setBody" /\ call' = "addPart" /\ UNCHANGED <<headers, text>>
         \/ call = "write" /\ call' = "freeMime" /\ text' = TRUE
                /\ headers' = {x \in Lists : owner[x] = "fields"}
      /\ failed = "none" /\ UNCHANGED <<names, typeParses, owner, failed, faults>>
    BY CallsAre DEF SetBody, Write, MimeInv, After, Building
<1>2. MimeTypeOK'
    BY <1>1 DEF MimeInv, MimeTypeOK, Calls, After
<1>3. HeadsInv' /\ PartsInv'
    BY <1>1 DEF MimeInv, HeadsInv, PartsInv, Making, Heads, Lists, Building, Ours, Unmade,
                Gone
<1>4. HeadersAsGiven'
    BY <1>1 DEF MimeInv, MimeTypeOK, HeadersAsGiven, HeadsInv, Building
<1> QED
    BY <1>1, <1>2, <1>3, <1>4 DEF MimeInv, FreedOnce, ReleasedAtEnd

\* A failed call frees only what is ours, and nothing that owns the mime.
LEMMA FailMimeInv == MimeInv /\ Fail => MimeInv'
<1> SUFFICES ASSUME MimeInv, Fail PROVE MimeInv'
    OBVIOUS
<1> DEFINE S == FreedWhenFailed(call)
<1>1. /\ call \in Calls /\ failed = "none" /\ failed' = call
      /\ call' = AfterFailure(owner) /\ owner' = Free(owner, S)
      /\ faults' = faults \cup NotOurs(owner, S)
      /\ UNCHANGED <<names, typeParses, headers, text>>
    BY DEF Fail, MimeInv
<1>2. owner \in AllOwners /\ S \in SUBSET Objects
    BY DEF MimeInv, MimeTypeOK, AllOwners, FreedWhenFailed, Objects, Made, Lists
<1>3. \A x \in S : owner[x] = "us"
    BY <1>1, CallsAre DEF FreedWhenFailed, MimeInv, HeadsInv, PartsInv, Ours, Making, Heads,
                          Lists, SoFar, Building, Objects, Made
<1>4. faults' = {}
    BY <1>1, <1>3 DEF NotOurs, MimeInv, FreedOnce
<1>5. CASE owner["mime"] # "us"
    <2>1. call \in Making \cup {"mime"} /\ owner["mime"] = "none" /\ call' = "done"
        BY <1>1, <1>5, CallsAre DEF AfterFailure, MimeInv, HeadsInv, PartsInv, Unmade, Making,
                                    Heads, Lists, SoFar, Objects, Building
    <2>2. owner' \in AllOwners /\ owner'["mime"] = "none"
        BY <1>1, <1>2, <1>3, <2>1, FreeIs DEF Objects, Made, Lists
    <2>3. MimeTypeOK'
        BY <1>1, <1>4, <2>1, <2>2 DEF MimeInv, MimeTypeOK, AllOwners
    <2>4. HeadsInv' /\ PartsInv'
        BY <2>1 DEF HeadsInv, PartsInv, Making, Heads, Lists, Building
    <2>5. ReleasedAtEnd' /\ (call \in Calls => failed = "none")'
        BY <1>1, <2>1, <2>2, CallsAre DEF ReleasedAtEnd, Making, Heads, Lists
    <2> QED
        BY <1>1, <1>4, <2>3, <2>4, <2>5 DEF MimeInv, FreedOnce, HeadersAsGiven
<1>6. CASE owner["mime"] = "us"
    <2>1. call' = "freeMime" /\ call \in Building \ {"freeMime"}
        BY <1>1, <1>6, CallsAre DEF AfterFailure, MimeInv, HeadsInv, PartsInv, Unmade, Ours,
                                    Making, Heads, Lists, SoFar, Objects
    <2>2. /\ S \subseteq {"mimeFields", "content", "param", "part"}
          /\ call = "write" => S = {}
          /\ call = "setBody" => S = {"part"}
          /\ call = "content" => S = {"mimeFields"}
        BY <2>1 DEF FreedWhenFailed, Building
    <2>3. /\ owner["fields"] = "mime"
          /\ \A x \in Heads : owner[x] \in {"fields", "freed"}
        BY <2>1 DEF MimeInv, HeadsInv, PartsInv
    <2>4. /\ \A x \in Heads : owner'[x] = owner[x]
          /\ owner'["fields"] = "mime" /\ owner'["mime"] = "us"
        BY <1>1, <1>2, <1>6, <2>2, <2>3, FreeIs DEF Heads, Lists, Objects, Made
    <2>5. owner' \in AllOwners
        BY <1>1, <1>2, FreeIs
    <2>6. MimeTypeOK'
        BY <1>1, <1>4, <2>1, <2>5 DEF MimeInv, MimeTypeOK, AllOwners
    <2>7. HeadsInv'
        BY <1>1, <2>1, <2>4 DEF MimeInv, HeadsInv, Making, Heads, Lists, Building
    <2>8. ASSUME call = "write"
          PROVE  \A x \in Objects : owner'[x] = owner[x]
        BY <1>1, <1>2, <2>2, <2>8, FreeIs
    <2>9. ASSUME call = "setBody"
          PROVE  \A x \in {"part", "content", "mimeFields", "param"} : owner'[x] = "freed"
        BY <1>1, <1>2, <2>2, <2>9, FreeIs DEF MimeInv, PartsInv, Ours, Objects, Made, Building
    <2>10. ASSUME call = "content"
           PROVE  /\ owner'["mimeFields"] = "freed"
                  /\ \A x \in {"content", "param", "part"} : owner'[x] = "none"
        BY <1>1, <1>2, <2>2, <2>10, FreeIs 
           DEF MimeInv, PartsInv, Unmade, Objects, Made, Lists, Building
    <2>11. PartsInv'
        BY <1>1, <2>1, <2>4, <2>8, <2>9, <2>10
           DEF MimeInv, PartsInv, Building, Gone, Unmade, Objects, Made
    <2>12. ReleasedAtEnd' /\ (call \in Calls => failed = "none")'
        BY <2>1, CallsAre DEF ReleasedAtEnd
    <2> QED
        BY <1>1, <1>4, <2>6, <2>7, <2>11, <2>12 DEF MimeInv, FreedOnce, HeadersAsGiven
<1> QED
    BY <1>5, <1>6

\* The message is freed with all that was attached to it.
LEMMA FreeMimeMimeInv == MimeInv /\ FreeMime => MimeInv'
<1> SUFFICES ASSUME MimeInv, FreeMime PROVE MimeInv'
    OBVIOUS
<1>1. /\ call = "freeMime" /\ call' = "done"
      /\ owner' = Free(owner, {"mime"}) /\ faults' = faults \cup NotOurs(owner, {"mime"})
      /\ UNCHANGED <<names, typeParses, failed, headers, text>>
    BY DEF FreeMime
<1>2. owner \in AllOwners /\ {"mime"} \in SUBSET Objects
    BY DEF MimeInv, MimeTypeOK, AllOwners, Objects
<1>3. owner["mime"] = "us" /\ owner["fields"] = "mime"
    BY <1>1 DEF MimeInv, PartsInv, Building
<1>4. faults' = {}
    BY <1>1, <1>3 DEF MimeInv, FreedOnce, NotOurs
<1>5. owner' \in AllOwners /\ owner'["mime"] = "freed" /\ owner'["fields"] = "freed"
    BY <1>1, <1>2, <1>3, FreeIs DEF Objects
<1>6. ASSUME NEW x \in Heads PROVE owner'[x] = "freed"
    <2>1. owner[x] \in {"fields", "freed"} /\ x \in Objects /\ x # "mime"
        BY <1>1 DEF MimeInv, HeadsInv, Building, Heads, Lists, Objects, Made
    <2>2. CASE owner[x] = "fields"
        BY <1>1, <1>2, <1>3, <2>1, <2>2, FreeIs DEF Objects
    <2>3. CASE owner[x] = "freed"
        BY <1>1, <1>2, <2>1, <2>3, FreeIs DEF Objects, Made, Lists
    <2> QED
        BY <2>1, <2>2, <2>3
<1>7. ASSUME failed \in {"none", "content", "setBody", "write"},
             NEW x \in {"part", "content", "mimeFields", "param"}
      PROVE  owner'[x] \in {"none", "freed"}
    <2>1. \A y \in Objects : owner[y] \in {"none", "freed"} => owner'[y] \in {"none", "freed"}
        BY <1>1, <1>2, FreeIs DEF Objects, Made, Lists
    <2>2. CASE failed = "content" \/ failed = "setBody"
        BY <1>1, <2>1, <2>2 DEF MimeInv, PartsInv, Gone, Unmade, Objects, Made
    <2>3. CASE failed = "none" \/ failed = "write"
        <3>1. /\ owner["part"] = "mime" /\ owner["param"] = "content"
              /\ owner["content"] = "part" /\ owner["mimeFields"] = "part"
            BY <1>1, <2>3 DEF MimeInv, PartsInv
        <3> QED
            BY <1>1, <1>2, <3>1, FreeIs DEF Objects, Made
    <2> QED
        BY <1>7, <2>2, <2>3
<1>8. ReleasedAtEnd'
    BY <1>1, <1>5, <1>6, <1>7 DEF ReleasedAtEnd, Objects, Made, Heads
<1>9. MimeTypeOK'
    BY <1>1, <1>4, <1>5 DEF MimeInv, MimeTypeOK, AllOwners
<1>10. HeadsInv' /\ PartsInv'
    BY <1>1 DEF HeadsInv, PartsInv, Making, Heads, Lists, Building
<1> QED
    BY <1>1, <1>4, <1>8, <1>9, <1>10, CallsAre DEF MimeInv, FreedOnce, HeadersAsGiven

LEMMA StepMimeInv == MimeInv /\ [Next]_vars => MimeInv'
<1>1. MimeInv /\ UNCHANGED vars => MimeInv'
    BY DEF MimeInv, MimeTypeOK, HeadsInv, PartsInv, Ours, Unmade, Gone, FreedOnce,
           ReleasedAtEnd, HeadersAsGiven
<1> QED
    BY <1>1, MakeMimeInv, MakeFieldsMimeInv, MakeMimeMimeInv, AppendParamMimeInv,
       MakePartMimeInv, AddPartMimeInv, WriteMimeInv, FailMimeInv, FreeMimeMimeInv
       DEF Next, Returned

LEMMA MimeInvHolds == Spec => []MimeInv
<1>1. Init => MimeInv
    BY InitMime
<1>2. MimeInv /\ [Next]_vars => MimeInv'
    BY StepMimeInv
<1> QED
    BY <1>1, <1>2, PTL DEF Spec

-----------------------------------------------------------------------------

\* mime_create_main_content keeps its types.
THEOREM MimeTypeCorrect == Spec => []MimeTypeOK
<1>1. MimeInv => MimeTypeOK
    BY DEF MimeInv
<1> QED
    BY <1>1, MimeInvHolds, PTL

\* Whichever call fails, no object is freed or attached twice.
THEOREM MimeFreedOnce == Spec => []FreedOnce
<1>1. MimeInv => FreedOnce
    BY DEF MimeInv
<1> QED
    BY <1>1, MimeInvHolds, PTL

\* A message that was written, and a contentType that does not parse, leave
\* nothing allocated.
THEOREM MimeReleased == Spec => []ReleasedAtEnd
<1>1. MimeInv => ReleasedAtEnd
    BY DEF MimeInv
<1> QED
    BY <1>1, MimeInvHolds, PTL

\* The message written has the address lists given, and no Bcc.
THEOREM MimeHeaders == Spec => []HeadersAsGiven
<1>1. MimeInv => HeadersAsGiven
    BY DEF MimeInv
<1> QED
    BY <1>1, MimeInvHolds, PTL

=============================================================================
