------------------------------ MODULE SmtpSend ------------------------------
(***************************************************************************)
(* etpan_smtp_send (4DPlugin.cpp) as a whole: the session of SmtpSession,   *)
(* then the message loop, the result text, and CommandDispatcher around it. *)
(***************************************************************************)
EXTENDS SmtpSession

CONSTANTS
    Elements,    \* what an element of the mimes array may be, see Element
    MaxMessages  \* bound: the longest mimes array

VARIABLES
    mimes,        \* the messages argument, parsed
    i,            \* the loop index (0-based): elements done
    rcptPos,      \* recipients of this element done
    full,         \* did mime_create_main_content build the message?
    logs,         \* messageInfoLogs
    begun,        \* history: the messages for which the server accepted DATA
    messageInfo,  \* the "messages" array of the result
    answer        \* what 4D got back: "none" yet, the "result" or "empty" text

sendVars == <<mimes, i, rcptPos, full, logs, begun, messageInfo, answer>>

vars == <<libVars, loggerVars, sessionVars, sendVars>>

-----------------------------------------------------------------------------

\* An element is a JSON object or something else.  An object has a content
\* type libetpan can parse, or not (composes), and strings in to, cc and bcc,
\* in this order, each of which parses as one mailbox or not.
Fields == {"to", "cc", "bcc"}

Element ==
    [object : BOOLEAN, composes : BOOLEAN,
     rcpts : Seq([field : Fields, parses : BOOLEAN])]

ASSUME SendConstants == Elements \subseteq Element /\ MaxMessages \in Nat

\* The element this round of the loop is about.
Item == mimes[i + 1]

\* An entry of details: the step and libetpan's return code.
Entry(op, code) == [op |-> op, code |-> code]

-----------------------------------------------------------------------------

Init ==
    /\ SessionInit
    /\ mimes \in UNION {[1..n -> Elements] : n \in 0..MaxMessages}
    /\ i = 0 /\ rcptPos = 0 /\ full = FALSE
    /\ logs = <<>> /\ begun = {} /\ messageInfo = <<>> /\ answer = "none"

SessionPhase == SessionStep /\ UNCHANGED sendVars

IndexOf_ZeroBased(k) == k

\* ctx.index is 1-based.
IndexOf(k) == k + 1

FreshLogs_Kept(old) == old

FreshLogs(old) == <<>>

\* The head of the loop: an item and its logs are allocated.
NextMessage ==
    /\ pc = "next"
    /\ i < Len(mimes)
    /\ index' = IndexOf(i)
    /\ ret' = "ok"
    /\ logs' = FreshLogs(logs)
    /\ owned' = owned \cup {"item", "logs"}
    /\ pc' = "mail"
    /\ UNCHANGED <<libVars, authenticating, callback, dying, heard, params,
                   esmtp, certError, trusted, attempt, sessionDetails, session,
                   mimes, i, rcptPos, full, begun, messageInfo, answer>>

AllDone ==
    /\ pc = "next"
    /\ i >= Len(mimes)
    /\ pc' = "free"
    /\ UNCHANGED <<libVars, loggerVars, params, ret, esmtp, certError, trusted,
                   attempt, sessionDetails, session, owned, sendVars>>

\* MAIL FROM, before the element is looked at.
Mail ==
    /\ pc = "mail"
    /\ \E r \in Codes :
        /\ MailFrom(r)
        /\ ret' = r
        /\ logs' = Append(logs, Entry("mail", r))
        /\ pc' = IF r = "ok" THEN "compose" ELSE "discard"
    /\ UNCHANGED <<loggerVars, params, esmtp, certError, trusted, attempt,
                   sessionDetails, session, owned, mimes, i, rcptPos, full,
                   begun, messageInfo, answer>>

\* The headers and the body are converted and the message is composed; a
\* failure to compose it is not reported, the message text is then empty.
Compose ==
    /\ pc = "compose"
    /\ IF Item.object
       THEN full' = Item.composes /\ rcptPos' = 0 /\ pc' = "rcpt"
       ELSE pc' = "discard" /\ UNCHANGED <<full, rcptPos>>
    /\ UNCHANGED <<libVars, loggerVars, params, ret, esmtp, certError, trusted,
                   attempt, sessionDetails, session, owned, mimes, i, logs,
                   begun, messageInfo, answer>>

\* RCPT TO for a recipient that parses; the others are passed over.
Rcpt ==
    /\ pc = "rcpt"
    /\ rcptPos < Len(Item.rcpts)
    /\ rcptPos' = rcptPos + 1
    /\ LET rcpt == Item.rcpts[rcptPos + 1] IN
       \/ /\ rcpt.parses
          /\ \E r \in Codes :
              /\ RcptTo(r)
              /\ ret' = r
              /\ logs' = Append(logs, Entry(rcpt.field, r))
       \/ /\ ~rcpt.parses
          /\ UNCHANGED <<libVars, ret, logs>>
    /\ UNCHANGED <<loggerVars, pc, params, esmtp, certError, trusted, attempt,
                   sessionDetails, session, owned, mimes, i, full,
                   begun, messageInfo, answer>>

RetAfterData_Cleared(r) == "ok"

RetAfterData(r) == r

\* DATA, whatever became of the recipients: their errors are cleared.
StartData ==
    /\ pc = "rcpt"
    /\ rcptPos = Len(Item.rcpts)
    /\ \E r \in Codes :
        /\ Data(r)
        /\ ret' = RetAfterData(r)
        /\ begun' = IF r = "ok" THEN begun \cup {i + 1} ELSE begun
        /\ pc' = IF r = "ok" THEN "dataMessage" ELSE "attach"
    /\ UNCHANGED <<loggerVars, params, esmtp, certError, trusted, attempt,
                   sessionDetails, session, owned, mimes, i, rcptPos, full,
                   logs, messageInfo, answer>>

\* The message text and its final dot.
SendText ==
    /\ pc = "dataMessage"
    /\ \E r \in Codes :
        /\ DataMessage(r, [msg |-> i + 1, full |-> full])
        /\ ret' = r
        /\ logs' = Append(logs, Entry("data", r))
    /\ pc' = "attach"
    /\ UNCHANGED <<loggerVars, params, esmtp, certError, trusted, attempt,
                   sessionDetails, session, owned, mimes, i, rcptPos, full,
                   begun, messageInfo, answer>>

WithItem_OnSuccess(info, item) == IF item.success THEN Append(info, item) ELSE info

WithItem(info, item) == Append(info, item)

\* The item joins the result.  (msg is history: the item does not name it.)
Attach ==
    /\ pc = "attach"
    /\ messageInfo' = WithItem(messageInfo,
           [msg |-> i + 1, success |-> ret = "ok", details |-> logs])
    /\ owned' = owned \ {"item", "logs"}
    /\ pc' = "reset"
    /\ UNCHANGED <<libVars, loggerVars, params, ret, esmtp, certError, trusted,
                   attempt, sessionDetails, session, mimes, i, rcptPos, full,
                   logs, begun, answer>>

NextIndex_RetryFailed(k) == IF pc = "reset" /\ ret # "ok" THEN k ELSE k + 1

NextIndex_RetryDiscarded(k) == IF pc = "discard" /\ ret # "ok" THEN k ELSE k + 1

\* The end of the loop body.
NextIndex(k) == k + 1

Rset_AfterSuccess == IF ret = "ok" THEN \E r \in Codes : Reset(r) ELSE UNCHANGED libVars

Rset == \E r \in Codes : Reset(r)

\* RSET; its return code is not looked at.
ResetAfter ==
    /\ pc = "reset"
    /\ Rset
    /\ i' = NextIndex(i)
    /\ pc' = "next"
    /\ UNCHANGED <<loggerVars, params, ret, esmtp, certError, trusted, attempt,
                   sessionDetails, session, owned, mimes, rcptPos, full, logs,
                   begun, messageInfo, answer>>

Discarded_ItemOnly == {"item"}

\* cJSON_Delete(messageInfoLogs), cJSON_Delete(messageInfoItem)
Discarded == {"item", "logs"}

\* MAIL FROM failed or the element is not an object: the item is deleted.
Discard ==
    /\ pc = "discard"
    /\ owned' = owned \ Discarded
    /\ i' = NextIndex(i)
    /\ pc' = "next"
    /\ UNCHANGED <<libVars, loggerVars, params, ret, esmtp, certError, trusted,
                   attempt, sessionDetails, session, mimes, rcptPos, full, logs,
                   begun, messageInfo, answer>>

-----------------------------------------------------------------------------

\* mailsmtp_free, then the parsed arguments are deleted.
FreeSession ==
    /\ pc = "free"
    /\ Free
    /\ owned' = owned \ {"params", "mimes"}
    /\ pc' = "render"
    /\ UNCHANGED <<loggerVars, params, ret, esmtp, certError, trusted, attempt,
                   sessionDetails, session, sendVars>>

\* messages and session join the result, which is printed and deleted.
Render ==
    /\ pc = "render"
    /\ answer' = "result"
    /\ owned' = owned \ {"messageInfo", "sessionInfo", "result"}
    /\ pc' = "done"
    /\ UNCHANGED <<libVars, loggerVars, params, ret, esmtp, certError, trusted,
                   attempt, sessionDetails, session, mimes, i, rcptPos, full,
                   logs, begun, messageInfo>>

\* A C++ exception (out of memory) leaves etpan_smtp_send from anywhere;
\* CommandDispatcher returns an empty text.  Nothing is freed or closed.
Throw ==
    /\ pc # "done"
    /\ answer' = "empty"
    /\ pc' = "done"
    /\ UNCHANGED <<libVars, loggerVars, params, ret, esmtp, certError, trusted,
                   attempt, sessionDetails, session, owned, mimes, i, rcptPos,
                   full, logs, begun, messageInfo>>

Finished == pc = "done" /\ UNCHANGED vars

MessageStep ==
    \/ NextMessage \/ AllDone \/ Mail \/ Compose \/ Rcpt \/ StartData
    \/ SendText \/ Attach \/ ResetAfter \/ Discard \/ FreeSession \/ Render

Logging == (Log \/ Aborted) /\ UNCHANGED sendVars

Next == SessionPhase \/ MessageStep \/ Throw \/ Logging \/ Finished

\* As in SessionSpec: a network call returns, if only with its timeout.
Spec == Init /\ [][Next]_vars /\ WF_vars(SessionPhase \/ MessageStep)

-----------------------------------------------------------------------------

Entries == [op : Fields \cup {"mail", "data"}, code : Codes]
Items   == [msg : Nat, success : BOOLEAN, details : Seq(Entries)]
Mails   == [msg : Nat, full : BOOLEAN]

SendTypeOK ==
    /\ mimes \in Seq(Elements)
    /\ i \in Nat /\ rcptPos \in Nat
    /\ full \in BOOLEAN
    /\ logs \in Seq(Entries)
    /\ begun \in SUBSET Nat
    /\ messageInfo \in Seq(Items)
    /\ inbox \in Seq(Mails)
    /\ answer \in {"none", "result", "empty"}

Reported == {messageInfo[k].msg : k \in DOMAIN messageInfo}
Delivered == {inbox[k].msg : k \in DOMAIN inbox}

\* messages[k].success is true only if the server accepted that message.
SuccessMeansAccepted ==
    \A k \in DOMAIN messageInfo :
        messageInfo[k].success => messageInfo[k].msg \in Delivered

\* A message the server accepted is in the result the command returns; it is
\* reported as a failure only if the connection was lost at its end.
DeliveredIsReported ==
    answer = "result" =>
        \A m \in Delivered : \E k \in DOMAIN messageInfo :
            /\ messageInfo[k].msg = m
            /\ \/ messageInfo[k].success
               \/ [op |-> "data", code |-> "stream"] \in
                     {messageInfo[k].details[d] : d \in DOMAIN messageInfo[k].details}

\* The server accepts no message twice, and accepts and reports them in the
\* order of the array.
InOrderOnce ==
    /\ \A j, k \in DOMAIN inbox : j < k => inbox[j].msg < inbox[k].msg
    /\ \A j, k \in DOMAIN messageInfo : j < k => messageInfo[j].msg < messageInfo[k].msg

\* Entries 2 to m are for those of the first n recipients that parse, in order.
Addressed(entries, m, rcpts, n) ==
    \E to \in [2..m -> 1..n] :
        /\ \A d, e \in 2..m : d < e => to[d] < to[e]
        /\ {to[d] : d \in 2..m} = {p \in 1..n : rcpts[p].parses}
        /\ \A d \in 2..m : entries[d].op = rcpts[to[d]].field

\* "mail", an entry for each recipient that parses, in order, and "data" exactly
\* when the server accepted DATA (sent); success is the code of that last entry,
\* and without it there is none.
Complete(details, success, rcpts, sent) ==
    LET n == Len(details)
    IN  /\ n > 0 /\ details[1].op = "mail"
        /\ IF sent
           THEN /\ n > 1 /\ details[n].op = "data"
                /\ success = (details[n].code = "ok")
                /\ Addressed(details, n - 1, rcpts, Len(rcpts))
           ELSE ~success /\ Addressed(details, n, rcpts, Len(rcpts))

DetailsAreComplete ==
    \A k \in DOMAIN messageInfo :
        LET item == messageInfo[k]
        IN  Complete(item.details, item.success, mimes[item.msg].rcpts,
                     item.msg \in begun)

\* Without an open session no message is sent, and none is reported.
NoMessageUnlessSession ==
    inbox # <<>> \/ messageInfo # <<>> => session = "success"

\* MAIL FROM is never sent inside the transaction of an earlier message: a
\* server refuses it there, and the loop goes on to the next element.
MailOutsideTransaction == pc = "mail" /\ Alive => txn = "none"

\* So it is as long as the array holds objects: whatever became of a message,
\* RSET has closed its transaction before the next MAIL FROM.
ObjectsAreReset ==
    (\A k \in 1..i : mimes[k].object) => MailOutsideTransaction

\* What is reported as sent is the message, not an empty text.
SuccessMeansSentInFull ==
    \A k \in DOMAIN messageInfo : messageInfo[k].success =>
        \E d \in DOMAIN inbox : inbox[d].msg = messageInfo[k].msg /\ inbox[d].full

\* What the command promises its caller, see Submission.
Promise == INSTANCE Submission WITH
    Messages  <- 1..MaxMessages,
    open      <- session = "success",
    delivered <- [k \in DOMAIN inbox |-> inbox[k].msg],
    report    <- [k \in DOMAIN messageInfo |->
                      [msg |-> messageInfo[k].msg, success |-> messageInfo[k].success]]

\* etpan_smtp_send, with its network calls and its error paths, does nothing
\* to the messages, the report and the answer that Submission does not allow.
ImplementsSubmission == Promise!Spec

\* Every cJSON tree is deleted, or given to one that is, by the time the
\* result is returned; but sessionDetails is lost if there was no session.
JsonReleased ==
    answer = "result" =>
        owned = IF session = "none" THEN owned \cap {"sessionDetails"} ELSE {}

\* The callback's $1 is 0 until the first message, then that of the message
\* on the wire; at the end, while libetpan says QUIT, that of the last one.
CallbackTellsMessage ==
    [][heard' # heard =>
           heard'.index = IF pc \in MessageCalls \ {"free"} THEN i + 1 ELSE i]_vars

\* The values of pc, the last one first.
Places == <<"done", "render", "free", "discard", "reset", "attach", "dataMessage",
            "rcpt", "compose", "mail", "next", "authDone", "autoTry", "auto", "auth",
            "login", "helo", "tlsEhlo", "starttls", "ehlo", "connect", "new", "parse">>

Place == [p \in {Places[k] : k \in DOMAIN Places} |->
              CHOOSE k \in DOMAIN Places : Places[k] = p]

\* What is ahead of the command: the elements to do, where in the course of one
\* it is, and the rounds to go of the inner loops over AUTO's mechanisms and
\* the recipients.
Ahead == <<Len(mimes) - i,
           Place[pc],
           CASE pc = "autoTry" -> Len(AutoOrder) - attempt
             [] pc = "rcpt"    -> Len(Item.rcpts) - rcptPos
             [] OTHER          -> 0>>

\* The lexicographic order of triples.
Less(a, b) == \E k \in 1..3 : a[k] < b[k] /\ \A j \in 1..(k - 1) : a[j] = b[j]

\* Whatever libetpan returns, every step of the command brings its end nearer;
\* no error makes a loop do a mechanism, a recipient or an element again, and
\* the logger, called in between, sets nothing back.
EveryStepAdvances == [][Less(Ahead', Ahead)]_<<libVars, sessionVars, sendVars>>

\* The command returns something to 4D, whatever the server does.
CommandReturns == <>(answer # "none")

=============================================================================
