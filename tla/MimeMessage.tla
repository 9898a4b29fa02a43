----------------------------- MODULE MimeMessage -----------------------------
(***************************************************************************)
(* mime_create_main_content (4DPlugin.cpp): composes one message from       *)
(* libetpan objects.  One step per call, each of which can fail.  An object *)
(* belongs to this function until it is attached to another, which frees it *)
(* with itself.  After a failed call only the object that the else branch   *)
(* names is freed, and the function returns nothing.                        *)
(***************************************************************************)

VARIABLES
    names,      \* the address vectors that are not empty
    typeParses, \* can libetpan parse contentType?
    call,       \* the next call, or "done"
    owner,      \* of each object, see Owners
    failed,     \* history: the call that failed, or "none"
    faults,     \* history: objects freed or handed over that were not ours
    headers,    \* history: the address lists in the message written
    text        \* is messsage_string set?

vars == <<names, typeParses, call, owner, failed, faults, headers, text>>

-----------------------------------------------------------------------------

Lists == {"from", "to", "cc", "bcc", "replyTo"}

\* The objects made one by one, with no more to it.
Made == Lists \cup {"subject", "mimeFields", "content", "param"}

Objects == Made \cup {"fields", "mime", "part"}

\* "none": not allocated; "us": nothing but a local variable points to it;
\* "freed"; or the object it is attached to.
Owners == {"none", "us", "freed"} \cup Objects

\* The call after each.
After == [subject |-> "from", from |-> "to", to |-> "cc", cc |-> "bcc",
          bcc |-> "replyTo", replyTo |-> "fields", fields |-> "mime",
          mime |-> "mimeFields", mimeFields |-> "content", content |-> "param",
          param |-> "append", append |-> "part", part |-> "setBody",
          setBody |-> "addPart", addPart |-> "write", write |-> "freeMime"]

Calls == DOMAIN After

Init ==
    /\ names \in SUBSET Lists
    /\ typeParses \in BOOLEAN
    /\ call = "subject"
    /\ owner = [x \in Objects |-> "none"]
    /\ failed = "none" /\ faults = {} /\ headers = {} /\ text = FALSE

\* Owners after the objects in S are attached to y.
Give(o, S, y) == [x \in Objects |-> IF x \in S THEN y ELSE o[x]]

\* Owners after the objects in S are freed with all they own: nothing is
\* attached more than three deep (param, content, part, mime).
Free(o, S) ==
    LET With(T) == T \cup {x \in Objects : o[x] \in T}
    IN  Give(o, With(With(With(S))), "freed")

\* Only what is ours can be freed or handed over.
NotOurs(o, S) == {x \in S : o[x] # "us"}

-----------------------------------------------------------------------------

\* strdup, mailimf_..._list_new_empty with the addresses that parse,
\* mailmime_fields_new_encoding, mailmime_content_new_with_str, ...
Make ==
    /\ call \in Made
    /\ call = "content" => typeParses
    /\ owner' = [owner EXCEPT ![call] = "us"]
    /\ call' = After[call]
    /\ UNCHANGED <<names, typeParses, failed, faults, headers, text>>

\* As in release 1.0, which wrote a Bcc header.
Passed_WithBcc == names

\* The lists given to mailimf_fields_new_with_data; NULL instead of the others.
Passed == names \ {"bcc"}

StillOurs_AllLists == Lists

\* The lists freed right after: those that were passed as NULL.
StillOurs == Lists \ Passed

\* fields takes the subject and the lists passed to it.
MakeFields ==
    /\ call = "fields"
    /\ LET taken == Passed \cup {"subject"}
           given == Give([owner EXCEPT !["fields"] = "us"], taken, "fields")
       IN  /\ owner' = Free(given, StillOurs)
           /\ faults' = faults \cup NotOurs(owner, taken) \cup NotOurs(given, StillOurs)
    /\ call' = After[call]
    /\ UNCHANGED <<names, typeParses, failed, headers, text>>

\* mailmime_new_message_data, mailmime_set_imf_fields
MakeMime ==
    /\ call = "mime"
    /\ owner' = Give([owner EXCEPT !["mime"] = "us"], {"fields"}, "mime")
    /\ faults' = faults \cup NotOurs(owner, {"fields"})
    /\ call' = After[call]
    /\ UNCHANGED <<names, typeParses, failed, headers, text>>

\* clist_append(content->ct_parameters, param)
AppendParam ==
    /\ call = "append"
    /\ owner' = Give(owner, {"param"}, "content")
    /\ faults' = faults \cup NotOurs(owner, {"param"})
    /\ call' = After[call]
    /\ UNCHANGED <<names, typeParses, failed, headers, text>>

\* mailmime_new_empty(content, mime_fields)
MakePart ==
    /\ call = "part"
    /\ owner' = Give([owner EXCEPT !["part"] = "us"], {"content", "mimeFields"}, "part")
    /\ faults' = faults \cup NotOurs(owner, {"content", "mimeFields"})
    /\ call' = After[call]
    /\ UNCHANGED <<names, typeParses, failed, headers, text>>

\* mailmime_set_body_text: the part only points to the body, it is not freed.
SetBody ==
    /\ call = "setBody"
    /\ call' = After[call]
    /\ UNCHANGED <<names, typeParses, owner, failed, faults, headers, text>>

\* mailmime_smart_add_part(mime, mime_text_part)
AddPart ==
    /\ call = "addPart"
    /\ owner' = Give(owner, {"part"}, "mime")
    /\ faults' = faults \cup NotOurs(owner, {"part"})
    /\ call' = After[call]
    /\ UNCHANGED <<names, typeParses, failed, headers, text>>

\* mailmime_write_mem into a buffer that is freed, written or not.
Write ==
    /\ call = "write"
    /\ headers' = {x \in Lists : owner[x] = "fields"}
    /\ text' = TRUE
    /\ call' = After[call]
    /\ UNCHANGED <<names, typeParses, owner, failed, faults>>

FreedWhenFailed_PartGone(c) == IF c = "setBody" THEN {"part", "content"} ELSE
                               IF c = "content" THEN {"mimeFields"} ELSE {}

\* What the else branch of a failed call frees.
FreedWhenFailed(c) ==
    CASE c = "from"                -> {"subject"}
      [] c = "to"                  -> {"from"}
      [] c = "cc"                  -> {"to"}
      [] c = "bcc"                 -> {"cc"}
      [] c = "replyTo"             -> {"bcc"}
      [] c = "fields"              -> {"replyTo"}
      [] c = "content"             -> {"mimeFields"}
      [] c \in {"param", "part"}   -> {"content"}
      [] c = "append"              -> {"param"}
      [] c = "setBody"             -> {"part"}
      [] OTHER                     -> {}

AfterFailure_Return(o) == "done"

\* Once there is a mime, every path ends in mailmime_free(mime).
AfterFailure(o) == IF o["mime"] = "us" THEN "freeMime" ELSE "done"

\* Out of memory, or a content type that does not parse.
Fail ==
    /\ call \in Calls
    /\ LET S == FreedWhenFailed(call)
       IN  owner' = Free(owner, S) /\ faults' = faults \cup NotOurs(owner, S)
    /\ failed' = call
    /\ call' = AfterFailure(owner)
    /\ UNCHANGED <<names, typeParses, headers, text>>

FreeMime ==
    /\ call = "freeMime"
    /\ owner' = Free(owner, {"mime"})
    /\ faults' = faults \cup NotOurs(owner, {"mime"})
    /\ call' = "done"
    /\ UNCHANGED <<names, typeParses, failed, headers, text>>

Returned == call = "done" /\ UNCHANGED vars

Next ==
    \/ Make \/ MakeFields \/ MakeMime \/ AppendParam \/ MakePart \/ SetBody
    \/ AddPart \/ Write \/ Fail \/ FreeMime \/ Returned

Spec == Init /\ [][Next]_vars

-----------------------------------------------------------------------------

MimeTypeOK ==
    /\ names \subseteq Lists
    /\ typeParses \in BOOLEAN
    /\ call \in Calls \cup {"freeMime", "done"}
    /\ owner \in [Objects -> Owners]
    /\ failed \in Calls \cup {"none"}
    /\ faults \subseteq Objects
    /\ headers \subseteq Lists
    /\ text \in BOOLEAN

\* No object is freed, or attached, that was freed before or belongs to
\* another: whichever call fails, nothing is freed twice.
FreedOnce == faults = {}

\* When the function returns, everything is freed after a message was written
\* and after the one failure a caller can cause, a contentType that does not
\* parse; the same for the body and the writing.  Out of memory anywhere else
\* loses objects, but never the message that was begun.
ReleasedAtEnd ==
    call = "done" =>
        /\ owner["mime"] \in {"none", "freed"}
        /\ failed \in {"none", "content", "setBody", "write"} =>
               \A x \in Objects : owner[x] \in {"none", "freed"}

\* README: no Bcc header is written, release 1.0 did and revealed them.  Every
\* other list with an address is in the message.
HeadersAsGiven == text => headers = names \ {"bcc"}

=============================================================================
