--------------------------- MODULE SmtpSendProofs ---------------------------
(***************************************************************************)
(* Theorems about SmtpSend: for every array of messages, of any length.     *)
(* The first half is about the session and the result's success, the second *)
(* about what is reported: order, completeness, the transactions, the JSON  *)
(* trees, that each step is one that Submission allows, and that each       *)
(* brings the end of the command nearer.                                    *)
(***************************************************************************)
EXTENDS SmtpSend, SmtpSessionProofs, WellFoundedInduction

USE DEF libVars, loggerVars, sessionVars, sendVars, vars

SessionPc == {"parse", "new", "connect", "ehlo", "starttls", "tlsEhlo", "helo",
              "login", "auth", "auto", "autoTry", "authDone"}

BodyPc == {"mail", "compose", "rcpt", "dataMessage", "attach", "reset", "discard"}

-----------------------------------------------------------------------------

\* What a step of the session half does to the variables of the loop.
LEMMA SessionStepFrame ==
    SessionStep =>
        /\ pc \in SessionPc
        /\ pc' \in SessionPc \cup {"next", "free", "render"}
        /\ UNCHANGED inbox
<1> SUFFICES ASSUME SessionStep
             PROVE  /\ pc \in SessionPc
                    /\ pc' \in SessionPc \cup {"next", "free", "render"}
                    /\ UNCHANGED inbox
    OBVIOUS
<1> USE DEF SessionPc
<1>1. CASE ReadInvalid \/ ReadParams \/ NewSession
    BY <1>1 DEF ReadInvalid, ReadParams, NewSession
<1>2. CASE Connect \/ SwitchToTls
    BY <1>2 DEF Connect, Open, SwitchToTls, StartTls
<1>3. CASE Ehlo1 \/ TlsEhlo \/ SayHelo
    BY <1>3 DEF Ehlo1, Ehlo, TlsEhlo, SayHelo, Helo
<1>4. CASE ResultLogin \/ AuthSingle \/ AuthAuto
    BY <1>4 DEF ResultLogin, AuthSingle, Authenticate, AuthAuto
<1>5. CASE AuthTry \/ AuthGiveUp \/ ResultAuth
    BY <1>5 DEF AuthTry, AfterTry, Authenticate, AuthGiveUp, ResultAuth, AfterSession
<1> QED
    BY <1>1, <1>2, <1>3, <1>4, <1>5 DEF SessionStep

\* The session opens, or fails, in result_auth and nowhere else.
LEMMA SessionStepSession ==
    SessionStep => /\ pc' \in SessionPc => session' = session
                   /\ pc' = "next" => session' = "success"
<1> SUFFICES ASSUME SessionStep
             PROVE  /\ pc' \in SessionPc => session' = session
                    /\ pc' = "next" => session' = "success"
    OBVIOUS
<1> USE DEF SessionPc
<1>1. CASE ReadInvalid \/ ReadParams \/ NewSession \/ Connect \/ SwitchToTls
    BY <1>1 DEF ReadInvalid, ReadParams, NewSession, Connect, SwitchToTls
<1>2. CASE Ehlo1 \/ TlsEhlo \/ SayHelo \/ ResultLogin \/ AuthSingle
    BY <1>2 DEF Ehlo1, TlsEhlo, SayHelo, ResultLogin, AuthSingle
<1>3. CASE AuthAuto \/ AuthTry \/ AuthGiveUp
    BY <1>3 DEF AuthAuto, AuthTry, AfterTry, AuthGiveUp
<1>4. CASE ResultAuth
    BY <1>4 DEF ResultAuth, AfterSession
<1> QED
    BY <1>1, <1>2, <1>3, <1>4 DEF SessionStep

\* Logging and Aborted change nothing the loop looks at.
LEMMA LoggingFrame ==
    Logging => UNCHANGED <<libVars, sessionVars, sendVars, index>>
BY DEF Logging, Log, Logged, Aborted, ProcessDies

-----------------------------------------------------------------------------

\* The types of the loop's variables, with what the loop needs to keep them.
LoopInv ==
    /\ SendTypeOK
    /\ pc \in BodyPc => i < Len(mimes)

LEMMA ElementsAreElements ==
    ASSUME mimes \in Seq(Elements), i \in Nat, i < Len(mimes)
    PROVE  Item \in Element
BY SendConstants DEF Item

LEMMA InitLoopInv == Init => LoopInv
<1> SUFFICES ASSUME Init PROVE LoopInv
    OBVIOUS
<1>1. mimes \in Seq(Elements)
    BY SeqDef, SendConstants DEF Init
<1> QED
    <2>1. /\ pc = "parse" /\ i = 0 /\ rcptPos = 0 /\ full = FALSE /\ logs = <<>>
          /\ messageInfo = <<>> /\ inbox = <<>> /\ answer = "none" /\ begun = {}
        BY DEF Init, SessionInit
    <2>2. full \in BOOLEAN /\ begun \in SUBSET Nat
        BY <2>1
    <2>3. logs \in Seq(Entries) /\ messageInfo \in Seq(Items) /\ inbox \in Seq(Mails)
        BY <2>1, EmptySeq
    <2> QED
        BY <1>1, <2>1, <2>2, <2>3 DEF LoopInv, SendTypeOK, BodyPc

LEMMA StepLoopInv == LoopInv /\ [Next]_vars => LoopInv'
<1> SUFFICES ASSUME LoopInv, [Next]_vars PROVE LoopInv'
    OBVIOUS
<1> USE DEF LoopInv, SendTypeOK, BodyPc
<1>1. CASE SessionPhase
    BY <1>1, SessionStepFrame DEF SessionPhase, SessionPc
<1>2. CASE NextMessage
    BY <1>2 DEF NextMessage, FreshLogs
<1>3. CASE AllDone
    BY <1>3 DEF AllDone
<1>4. CASE Mail
    <2>1. PICK r \in Codes : MailFrom(r) /\ logs' = Append(logs, Entry("mail", r))
        BY <1>4 DEF Mail
    <2>2. Entry("mail", r) \in Entries
        BY DEF Entry, Entries
    <2>3. logs' \in Seq(Entries)
        BY <2>1, <2>2
    <2> QED
        BY <1>4, <2>1, <2>3 DEF Mail, MailFrom
<1>5. CASE Compose
    <2>1. Item.composes \in BOOLEAN
        BY <1>5, ElementsAreElements DEF Compose, Element
    <2> QED
        BY <1>5, <2>1 DEF Compose
<1>6. CASE Rcpt
    <2>1. logs' \in Seq(Entries) /\ UNCHANGED inbox
        <3>1. CASE UNCHANGED <<libVars, ret, logs>>
            BY <3>1
        <3>2. ASSUME NEW r \in Codes, RcptTo(r),
                     logs' = Append(logs, Entry(Item.rcpts[rcptPos + 1].field, r))
              PROVE  logs' \in Seq(Entries) /\ UNCHANGED inbox
            <4>1. Item.rcpts \in Seq([field : Fields, parses : BOOLEAN])
                BY <1>6, ElementsAreElements DEF Rcpt, Element
            <4>2. Item.rcpts[rcptPos + 1] \in [field : Fields, parses : BOOLEAN]
                <5>1. rcptPos + 1 \in 1..Len(Item.rcpts)
                    BY <1>6, <4>1 DEF Rcpt
                <5> QED
                    BY <4>1, <5>1, ElementOfSeq
            <4>3. Entry(Item.rcpts[rcptPos + 1].field, r) \in Entries
                BY <4>2 DEF Entry, Entries
            <4> QED
                BY <3>2, <4>3 DEF RcptTo
        <3> QED
            BY <1>6, <3>1, <3>2 DEF Rcpt
    <2> QED
        BY <1>6, <2>1 DEF Rcpt
<1>7. CASE StartData
    BY <1>7 DEF StartData, Data
<1>8. CASE SendText
    <2>1. PICK r \in Codes : /\ DataMessage(r, [msg |-> i + 1, full |-> full])
                             /\ logs' = Append(logs, Entry("data", r))
        BY <1>8 DEF SendText
    <2>2. logs' \in Seq(Entries)
        BY <2>1 DEF Entry, Entries
    <2>3. [msg |-> i + 1, full |-> full] \in Mails
        BY DEF Mails
    <2>4. inbox' \in {inbox, Append(inbox, [msg |-> i + 1, full |-> full])}
        BY <2>1 DEF DataMessage
    <2>5. \A m \in Mails : Append(inbox, m) \in Seq(Mails)
        BY AppendProperties
    <2>6. inbox' \in Seq(Mails)
        BY <2>3, <2>4, <2>5, Zenon
    <2> QED
        BY <1>8, <2>2, <2>6 DEF SendText
<1>9. CASE Attach
    <2>1. [msg |-> i + 1, success |-> ret = "ok", details |-> logs] \in Items
        BY DEF Items
    <2>2. messageInfo' \in Seq(Items)
        BY <1>9, <2>1 DEF Attach, WithItem
    <2> QED
        BY <1>9, <2>2 DEF Attach
<1>10. CASE ResetAfter
    BY <1>10 DEF ResetAfter, Rset, Reset, NextIndex
<1>11. CASE Discard
    BY <1>11 DEF Discard, NextIndex
<1>12. CASE FreeSession
    BY <1>12 DEF FreeSession, Free
<1>13. CASE Render \/ Throw
    BY <1>13 DEF Render, Throw
<1>14. CASE Logging
    BY <1>14, LoggingFrame
<1>15. CASE Finished \/ UNCHANGED vars
    BY <1>15 DEF Finished
<1> QED
    BY <1>1, <1>2, <1>3, <1>4, <1>5, <1>6, <1>7, <1>8, <1>9, <1>10, <1>11,
       <1>12, <1>13, <1>14, <1>15 DEF Next, MessageStep

\* The loop's state always has its type, and its body only ever looks at an
\* element of the array.
THEOREM SendTypeCorrect == Spec => []SendTypeOK
<1>1. LoopInv => SendTypeOK
    BY DEF LoopInv
<1> QED
    BY <1>1, InitLoopInv, StepLoopInv, PTL DEF Spec

-----------------------------------------------------------------------------

\* The callback never gets what the plugin sends while it authenticates, in
\* the whole command: the messages keep ctx.authenticating down, and
\* out of the calls that authenticate.
THEOREM CommandCredentialsHidden == Spec => []CredentialsHidden
<1>1. Init => SecretInv
    BY InitSecretInv DEF Init
<1>2. SecretInv => CredentialsHidden
    BY DEF SecretInv, CredentialsHidden, Texts
<1>3. LoopInv /\ SecretInv /\ [Next]_vars => SecretInv'
    <2> SUFFICES ASSUME LoopInv, SecretInv, [Next]_vars PROVE SecretInv'
        OBVIOUS
    <2> USE DEF SecretInv
    <2>1. CASE SessionPhase
        BY <2>1, StepSecretInv DEF SessionPhase
    <2>2. CASE NextMessage
        BY <2>2 DEF NextMessage, IndexOf, LoopInv, SendTypeOK
    <2>3. CASE AllDone \/ Mail \/ Compose \/ Rcpt \/ StartData \/ SendText
        BY <2>3 DEF AllDone, Mail, Compose, Rcpt, StartData, SendText
    <2>4. CASE Attach \/ ResetAfter \/ Discard \/ FreeSession \/ Render \/ Throw
        BY <2>4 DEF Attach, ResetAfter, Discard, FreeSession, Render, Throw
    <2>5. CASE Logging
        BY <2>5, LoggingSecretInv DEF Logging
    <2>6. CASE Finished \/ UNCHANGED vars
        BY <2>6 DEF Finished
    <2> QED
        BY <2>1, <2>2, <2>3, <2>4, <2>5, <2>6 DEF Next, MessageStep
<1> QED
    BY <1>1, <1>2, <1>3, InitLoopInv, StepLoopInv, PTL DEF Spec

-----------------------------------------------------------------------------

\* The loop runs only in a session that opened.
OpenInv ==
    /\ pc \in SessionPc => session = "none"
    /\ pc \in BodyPc \cup {"next"} => session = "success"
    /\ inbox # <<>> \/ messageInfo # <<>> => session = "success"

\* The steps of the loop and of the clean-up.
LEMMA MessageStepFrame ==
    MessageStep => UNCHANGED session /\ pc \notin SessionPc /\ pc' \notin SessionPc
<1> SUFFICES ASSUME MessageStep
             PROVE  UNCHANGED session /\ pc \notin SessionPc /\ pc' \notin SessionPc
    OBVIOUS
<1> USE DEF SessionPc
<1>1. CASE NextMessage \/ AllDone \/ Mail \/ Compose \/ Rcpt \/ StartData
    BY <1>1 DEF NextMessage, AllDone, Mail, Compose, Rcpt, StartData
<1>2. CASE SendText \/ Attach \/ ResetAfter \/ Discard \/ FreeSession \/ Render
    BY <1>2 DEF SendText, Attach, ResetAfter, Discard, FreeSession, Render
<1> QED
    BY <1>1, <1>2 DEF MessageStep

\* Only the final dot adds to the inbox, only Attach adds to the result.
LEMMA InboxFrame ==
    MessageStep =>
        /\ UNCHANGED inbox \/ SendText
        /\ UNCHANGED messageInfo \/ Attach
<1> SUFFICES ASSUME MessageStep
             PROVE  (UNCHANGED inbox \/ SendText) /\ (UNCHANGED messageInfo \/ Attach)
    OBVIOUS
<1>1. CASE NextMessage \/ AllDone \/ Mail \/ Compose
    BY <1>1 DEF NextMessage, AllDone, Mail, MailFrom, Compose
<1>2. CASE Rcpt \/ StartData
    BY <1>2 DEF Rcpt, RcptTo, StartData, Data
<1>3. CASE SendText \/ Attach
    BY <1>3 DEF SendText, Attach
<1>4. CASE ResetAfter \/ Discard \/ FreeSession \/ Render
    BY <1>4 DEF ResetAfter, Rset, Reset, Discard, FreeSession, Free, Render
<1> QED
    BY <1>1, <1>2, <1>3, <1>4 DEF MessageStep

LEMMA StepOpenInv == OpenInv /\ [Next]_vars => OpenInv'
<1> SUFFICES ASSUME OpenInv, [Next]_vars PROVE OpenInv'
    OBVIOUS
<1> USE DEF OpenInv, SessionPc, BodyPc
<1>1. CASE SessionPhase
    BY <1>1, SessionStepFrame, SessionStepSession DEF SessionPhase
<1>2. CASE MessageStep
    <2>1. pc' \in BodyPc \cup {"next"} => pc \in BodyPc \cup {"next"}
        <3>1. CASE NextMessage \/ AllDone \/ Mail \/ Compose \/ Rcpt \/ StartData
            BY <3>1 DEF NextMessage, AllDone, Mail, Compose, Rcpt, StartData
        <3>2. CASE SendText \/ Attach \/ ResetAfter \/ Discard \/ FreeSession \/ Render
            BY <3>2 DEF SendText, Attach, ResetAfter, Discard, FreeSession, Render
        <3> QED
            BY <1>2, <3>1, <3>2 DEF MessageStep
    <2>2. SendText \/ Attach => session = "success"
        BY DEF SendText, Attach
    <2> QED
        BY <1>2, <2>1, <2>2, MessageStepFrame, InboxFrame
<1>3. CASE Throw
    BY <1>3 DEF Throw
<1>4. CASE Logging
    BY <1>4, LoggingFrame
<1>5. CASE Finished \/ UNCHANGED vars
    BY <1>5 DEF Finished
<1> QED
    BY <1>1, <1>2, <1>3, <1>4, <1>5 DEF Next

\* If the session fails, no message is sent and messages is empty.
THEOREM NoMessageWithoutSession == Spec => []NoMessageUnlessSession
<1>1. Init => OpenInv
    BY DEF Init, SessionInit, OpenInv, SessionPc, BodyPc
<1>2. OpenInv => NoMessageUnlessSession
    BY DEF OpenInv, NoMessageUnlessSession
<1> QED
    BY <1>1, <1>2, StepOpenInv, PTL DEF Spec

-----------------------------------------------------------------------------

\* Success is only ever recorded for a message in the inbox: when Attach reads
\* ret, "ok" can only have come from the final dot of this very message.
AcceptedInv ==
    /\ SuccessMeansAccepted
    /\ pc = "attach" /\ ret = "ok" => i + 1 \in Delivered

LEMMA DeliveredGrows ==
    ASSUME inbox \in Seq(Mails), NEW m \in Mails, inbox' = Append(inbox, m)
    PROVE  Delivered' = Delivered \cup {m.msg}
<1>1. /\ Len(inbox) \in Nat
      /\ DOMAIN inbox = 1..Len(inbox)
      /\ DOMAIN inbox' = 1..(Len(inbox) + 1)
      /\ \A k \in 1..Len(inbox) : inbox'[k] = inbox[k]
      /\ inbox'[Len(inbox) + 1] = m
    BY AppendProperties, LenProperties
<1> QED
    BY <1>1 DEF Delivered

LEMMA StepAcceptedInv == LoopInv /\ AcceptedInv /\ [Next]_vars => AcceptedInv'
<1> SUFFICES ASSUME LoopInv, AcceptedInv, [Next]_vars PROVE AcceptedInv'
    OBVIOUS
<1> USE DEF AcceptedInv, SuccessMeansAccepted, LoopInv, SendTypeOK
<1>1. CASE SessionPhase
    BY <1>1, SessionStepFrame DEF SessionPhase, SessionPc, Delivered
<1>2. CASE SendText
    <2>1. PICK r \in Codes : /\ DataMessage(r, [msg |-> i + 1, full |-> full])
                             /\ ret' = r
        BY <1>2 DEF SendText
    <2>2. [msg |-> i + 1, full |-> full] \in Mails
        BY DEF Mails
    <2>3. CASE inbox' = Append(inbox, [msg |-> i + 1, full |-> full])
        <3>1. Delivered' = Delivered \cup {i + 1}
            BY <2>2, <2>3, DeliveredGrows
        <3> QED
            BY <1>2, <3>1 DEF SendText
    <2>4. CASE r # "ok" /\ UNCHANGED inbox
        BY <1>2, <2>1, <2>4 DEF SendText, Delivered
    <2> QED
        BY <2>1, <2>3, <2>4 DEF DataMessage
<1>3. CASE Attach
    <2>1. [msg |-> i + 1, success |-> ret = "ok", details |-> logs] \in Items
        BY DEF Items
    <2> DEFINE item == [msg |-> i + 1, success |-> ret = "ok", details |-> logs]
    <2>2. messageInfo' = Append(messageInfo, item)
        BY <1>3 DEF Attach, WithItem
    <2>3. /\ Len(messageInfo) \in Nat
          /\ DOMAIN messageInfo = 1..Len(messageInfo)
          /\ DOMAIN messageInfo' = 1..(Len(messageInfo) + 1)
          /\ \A k \in 1..Len(messageInfo) : messageInfo'[k] = messageInfo[k]
          /\ messageInfo'[Len(messageInfo) + 1] = item
        BY <2>1, <2>2, AppendProperties, LenProperties
    <2>4. item.success => item.msg \in Delivered
        BY <1>3 DEF Attach
    <2>5. Delivered' = Delivered
        BY <1>3 DEF Attach, Delivered
    <2>6. pc' = "reset"
        BY <1>3 DEF Attach
    <2> HIDE DEF item
    <2> QED
        BY <2>3, <2>4, <2>5, <2>6
<1>4. CASE StartData
    BY <1>4 DEF StartData, Data, RetAfterData, Delivered
<1>5. CASE NextMessage \/ AllDone \/ Mail \/ Compose \/ Rcpt
    <2>1. pc' # "attach"
        BY <1>5 DEF NextMessage, AllDone, Mail, Compose, Rcpt
    <2>2. UNCHANGED <<inbox, messageInfo>>
        BY <1>5 DEF NextMessage, AllDone, Mail, MailFrom, Compose, Rcpt, RcptTo
    <2> QED
        BY <2>1, <2>2 DEF Delivered
<1>6. CASE ResetAfter \/ Discard \/ FreeSession \/ Render \/ Throw
    <2>1. pc' # "attach" /\ UNCHANGED <<inbox, messageInfo>>
        BY <1>6 DEF ResetAfter, Rset, Reset, Discard, FreeSession, Free, Render, Throw
    <2> QED
        BY <2>1 DEF Delivered
<1>7. CASE Logging
    BY <1>7, LoggingFrame DEF Delivered
<1>8. CASE Finished \/ UNCHANGED vars
    BY <1>8 DEF Finished, Delivered
<1> QED
    BY <1>1, <1>2, <1>3, <1>4, <1>5, <1>6, <1>7, <1>8 DEF Next, MessageStep

\* messages[k].success is true only for a message the server accepted.
THEOREM SuccessIsAccepted == Spec => []SuccessMeansAccepted
<1>1. Init => AcceptedInv
    BY DEF Init, SessionInit, AcceptedInv, SuccessMeansAccepted
<1>2. AcceptedInv => SuccessMeansAccepted
    BY DEF AcceptedInv
<1> QED
    BY <1>1, <1>2, InitLoopInv, StepLoopInv, StepAcceptedInv, PTL DEF Spec

-----------------------------------------------------------------------------

\* A sequence with one more element, in the form the leaves below need it.
LEMMA OneMore ==
    ASSUME NEW S, NEW s \in Seq(S), NEW e \in S
    PROVE  /\ Append(s, e) \in Seq(S) /\ Len(s) \in Nat
           /\ DOMAIN s = 1..Len(s)
           /\ DOMAIN Append(s, e) = 1..(Len(s) + 1)
           /\ \A k \in 1..Len(s) : Append(s, e)[k] = s[k]
           /\ Append(s, e)[Len(s) + 1] = e
BY AppendProperties, LenProperties

\* Every message of the inbox and of the result has its number.
LEMMA Numbered ==
    ASSUME LoopInv
    PROVE  /\ i \in Nat /\ inbox \in Seq(Mails) /\ messageInfo \in Seq(Items)
           /\ logs \in Seq(Entries)
           /\ \A k \in DOMAIN inbox : inbox[k].msg \in Nat
           /\ \A k \in DOMAIN messageInfo : messageInfo[k].msg \in Nat
<1>1. /\ i \in Nat /\ inbox \in Seq(Mails) /\ messageInfo \in Seq(Items)
      /\ logs \in Seq(Entries)
    BY DEF LoopInv, SendTypeOK
<1>2. DOMAIN inbox = 1..Len(inbox) /\ DOMAIN messageInfo = 1..Len(messageInfo)
    BY <1>1, LenProperties
<1>3. ASSUME NEW k \in DOMAIN inbox PROVE inbox[k].msg \in Nat
    <2>1. inbox[k] \in Mails
        BY <1>1, <1>2, <1>3, ElementOfSeq
    <2> QED
        BY <2>1 DEF Mails
<1>4. ASSUME NEW k \in DOMAIN messageInfo PROVE messageInfo[k].msg \in Nat
    <2>1. messageInfo[k] \in Items
        BY <1>1, <1>2, <1>4, ElementOfSeq
    <2> QED
        BY <2>1 DEF Items
<1> QED
    BY <1>1, <1>3, <1>4

\* The message the connection was lost with at its end.
LostAtEnd(details) ==
    [op |-> "data", code |-> "stream"] \in {details[d] : d \in DOMAIN details}

\* Message m is in the result, as a success or as one lost at its end.
ReportedRight(m) ==
    \E k \in DOMAIN messageInfo :
        /\ messageInfo[k].msg = m
        /\ messageInfo[k].success \/ LostAtEnd(messageInfo[k].details)

\* While the element at i is worked on, what is delivered and reported is of
\* earlier elements, each only once; the dot of i, and its item, come last.
OrderInv ==
    /\ InOrderOnce
    /\ \A k \in DOMAIN inbox :
           inbox[k].msg <= IF pc \in {"attach", "reset", "done"} THEN i + 1 ELSE i
    /\ \A k \in DOMAIN messageInfo :
           messageInfo[k].msg <= IF pc \in {"reset", "done"} THEN i + 1 ELSE i

\* Whatever is delivered has been reported, but for the message that Attach is
\* about to report: its logs then tell why it may be a failure.
ReportInv ==
    /\ pc # "done" => answer = "none"
    /\ pc # "done" =>
           \A k \in DOMAIN inbox :
               \/ ReportedRight(inbox[k].msg)
               \/ pc = "attach" /\ inbox[k].msg = i + 1 /\ (ret = "ok" \/ LostAtEnd(logs))
    /\ answer = "result" => \A k \in DOMAIN inbox : ReportedRight(inbox[k].msg)

LEMMA ReportInvImplies == ReportInv => DeliveredIsReported
BY DEF ReportInv, ReportedRight, LostAtEnd, DeliveredIsReported, Delivered

LEMMA InitReport == Init => OrderInv /\ ReportInv
<1> SUFFICES ASSUME Init PROVE OrderInv /\ ReportInv
    OBVIOUS
<1>1. inbox = <<>> /\ messageInfo = <<>> /\ pc = "parse" /\ answer = "none"
    BY DEF Init, SessionInit
<1>2. DOMAIN inbox = {} /\ DOMAIN messageInfo = {}
    BY <1>1
<1> QED
    BY <1>1, <1>2 DEF OrderInv, InOrderOnce, ReportInv

\* A step that leaves the inbox and the result alone.
LEMMA QuietReport ==
    ASSUME LoopInv, OrderInv, ReportInv,
           UNCHANGED <<inbox, messageInfo>>, i' \in {i, i + 1},
           pc \notin {"attach", "done"}, pc' \notin {"attach", "done"},
           pc = "reset" => i' = i + 1,
           answer' = answer
    PROVE  OrderInv' /\ ReportInv'
<1> USE DEF OrderInv, ReportInv
<1>1. i \in Nat /\ \A k \in DOMAIN inbox : inbox[k].msg \in Nat
    BY Numbered
<1>2. \A k \in DOMAIN messageInfo : messageInfo[k].msg \in Nat
    BY Numbered
<1>3. InOrderOnce'
    BY DEF InOrderOnce
<1>4. \A k \in DOMAIN inbox : inbox[k].msg <= i'
    BY <1>1
<1>5. \A k \in DOMAIN messageInfo : messageInfo[k].msg <= i'
    BY <1>1, <1>2
<1>6. OrderInv'
    BY <1>1, <1>2, <1>3, <1>4, <1>5
<1>7. ReportInv'
    BY DEF ReportedRight
<1> QED
    BY <1>6, <1>7

LEMMA StepReport == LoopInv /\ OrderInv /\ ReportInv /\ [Next]_vars => OrderInv' /\ ReportInv'
<1> SUFFICES ASSUME LoopInv, OrderInv, ReportInv, [Next]_vars
             PROVE  OrderInv' /\ ReportInv'
    OBVIOUS
<1>i. /\ i \in Nat /\ inbox \in Seq(Mails) /\ messageInfo \in Seq(Items)
      /\ logs \in Seq(Entries)
    BY DEF LoopInv, SendTypeOK
<1>1. CASE SessionPhase
    <2>1. /\ UNCHANGED <<inbox, messageInfo, i, answer>>
          /\ pc \notin {"attach", "reset", "done"} /\ pc' \notin {"attach", "done"}
        BY <1>1, SessionStepFrame DEF SessionPhase, SessionPc
    <2> QED
        BY <2>1, QuietReport
<1>2. CASE NextMessage \/ AllDone \/ Mail \/ Compose \/ Rcpt
    <2>1. /\ UNCHANGED <<inbox, messageInfo, i, answer>>
          /\ pc \notin {"attach", "reset", "done"} /\ pc' \notin {"attach", "done"}
        BY <1>2 DEF NextMessage, AllDone, Mail, MailFrom, Compose, Rcpt, RcptTo
    <2> QED
        BY <2>1, QuietReport
<1>3. CASE StartData
    <2>1. /\ UNCHANGED <<inbox, messageInfo, i, answer>>
          /\ pc = "rcpt" /\ pc' \in {"dataMessage", "attach"}
        BY <1>3 DEF StartData, Data
    <2>2. \A k \in DOMAIN inbox : inbox[k].msg <= i
        BY <2>1 DEF OrderInv
    <2>3. \A k \in DOMAIN inbox : inbox[k].msg \in Nat
        BY Numbered
    <2>4. OrderInv'
        BY <1>i, <2>1, <2>2, <2>3 DEF OrderInv, InOrderOnce
    <2> QED
        BY <2>1, <2>4 DEF ReportInv, ReportedRight
<1>4. CASE SendText
    <2> DEFINE m == [msg |-> i + 1, full |-> full]
    <2>0. m \in Mails /\ m.msg = i + 1
        BY <1>i DEF Mails, LoopInv, SendTypeOK
    <2>1. PICK r \in Codes : /\ DataMessage(r, m)
                             /\ ret' = r
                             /\ logs' = Append(logs, Entry("data", r))
        BY <1>4 DEF SendText
    <2>2. pc = "dataMessage" /\ pc' = "attach" /\ UNCHANGED <<messageInfo, i, answer>>
        BY <1>4 DEF SendText
    <2>3. /\ \A k \in DOMAIN inbox : inbox[k].msg <= i /\ inbox[k].msg \in Nat
          /\ \A k \in DOMAIN messageInfo : messageInfo[k].msg <= i
          /\ \A k \in DOMAIN inbox : ReportedRight(inbox[k].msg)
        BY <2>2, Numbered DEF OrderInv, ReportInv
    <2>4. answer' = "none"
        BY <2>2 DEF ReportInv
    <2>5. \A n : ReportedRight(n) => ReportedRight(n)'
        BY <2>2 DEF ReportedRight
    <2> HIDE DEF m
    <2>6. CASE inbox' = Append(inbox, m) /\ r \in {"ok", "stream"}
        <3>1. /\ DOMAIN inbox = 1..Len(inbox) /\ Len(inbox) \in Nat
              /\ DOMAIN inbox' = 1..(Len(inbox) + 1)
              /\ \A k \in 1..Len(inbox) : inbox'[k] = inbox[k]
              /\ inbox'[Len(inbox) + 1] = m
            BY <1>i, <2>0, <2>6, OneMore
        <3>2. InOrderOnce'
            BY <1>i, <2>0, <2>2, <2>3, <3>1 DEF OrderInv, InOrderOnce
        <3>3. \A k \in DOMAIN inbox' : inbox'[k].msg <= i + 1
            BY <1>i, <2>0, <2>3, <3>1
        <3>4. OrderInv'
            BY <1>i, <2>2, <2>3, <3>2, <3>3 DEF OrderInv
        <3>5. r = "stream" => LostAtEnd(logs')
            <4> DEFINE e == Entry("data", r)
            <4>1. e \in Entries
                BY DEF Entry, Entries
            <4>2. /\ DOMAIN logs' = 1..(Len(logs) + 1) /\ Len(logs) \in Nat
                  /\ logs'[Len(logs) + 1] = e
                BY <1>i, <2>1, <4>1, OneMore
            <4>3. r = "stream" => e = [op |-> "data", code |-> "stream"]
                BY DEF Entry
            <4> HIDE DEF e
            <4> QED
                BY <4>2, <4>3 DEF LostAtEnd
        <3>6. ASSUME NEW k \in DOMAIN inbox'
              PROVE  \/ ReportedRight(inbox[k].msg)'
                     \/ inbox'[k].msg = i + 1 /\ (ret' = "ok" \/ LostAtEnd(logs'))
            <4>1. CASE k \in 1..Len(inbox)
                <5>1. inbox'[k].msg = inbox[k].msg
                    BY <3>1, <4>1
                <5>2. ReportedRight(inbox[k].msg)
                    BY <2>3, <3>1, <4>1
                <5> QED
                    BY <2>2, <5>1, <5>2 DEF ReportedRight
            <4>2. CASE k = Len(inbox) + 1
                BY <2>0, <2>1, <2>6, <3>1, <3>5, <4>2
            <4> QED
                BY <3>1, <3>6, <4>1, <4>2
        <3> QED
            BY <2>2, <2>4, <3>4, <3>6 DEF ReportInv, LostAtEnd
    <2>7. CASE UNCHANGED inbox
        <3>1. OrderInv'
            BY <1>i, <2>2, <2>3, <2>7 DEF OrderInv, InOrderOnce
        <3> QED
            BY <2>2, <2>3, <2>4, <2>5, <2>7, <3>1 DEF ReportInv
    <2> QED
        BY <2>1, <2>6, <2>7 DEF DataMessage
<1>5. CASE Attach
    <2> DEFINE item == [msg |-> i + 1, success |-> ret = "ok", details |-> logs]
    <2>0. item \in Items /\ item.msg = i + 1 /\ item.success = (ret = "ok") /\ item.details = logs
        BY <1>i DEF Items
    <2>1. /\ pc = "attach" /\ pc' = "reset" /\ UNCHANGED <<inbox, i, answer>>
          /\ messageInfo' = Append(messageInfo, item)
        BY <1>5 DEF Attach, WithItem
    <2> HIDE DEF item
    <2>2. /\ DOMAIN messageInfo = 1..Len(messageInfo) /\ Len(messageInfo) \in Nat
          /\ DOMAIN messageInfo' = 1..(Len(messageInfo) + 1)
          /\ \A k \in 1..Len(messageInfo) : messageInfo'[k] = messageInfo[k]
          /\ messageInfo'[Len(messageInfo) + 1] = item
        BY <1>i, <2>0, <2>1, OneMore
    <2>3. /\ \A k \in DOMAIN messageInfo : messageInfo[k].msg <= i /\ messageInfo[k].msg \in Nat
          /\ \A k \in DOMAIN inbox : inbox[k].msg <= i + 1
        BY <2>1, Numbered DEF OrderInv
    <2>4. OrderInv'
        <3>1. InOrderOnce'
            BY <1>i, <2>0, <2>1, <2>2, <2>3 DEF OrderInv, InOrderOnce
        <3>2. \A k \in DOMAIN messageInfo' : messageInfo'[k].msg <= i + 1
            BY <1>i, <2>0, <2>2, <2>3
        <3> QED
            BY <2>1, <2>3, <3>1, <3>2 DEF OrderInv
    <2>5. \A n : ReportedRight(n) => ReportedRight(n)'
        BY <2>2 DEF ReportedRight
    <2>6. ret = "ok" \/ LostAtEnd(logs) => ReportedRight(i + 1)'
        <3> DEFINE last == Len(messageInfo) + 1
        <3>1. last \in DOMAIN messageInfo' /\ messageInfo'[last] = item
            BY <2>2
        <3>2. messageInfo'[last].msg = i' + 1
            BY <2>0, <2>1, <3>1
        <3>3. ret = "ok" => messageInfo'[last].success
            BY <2>0, <3>1
        <3>4. LostAtEnd(logs) => LostAtEnd(messageInfo'[last].details)
            BY <2>0, <3>1
        <3> HIDE DEF last
        <3> QED
            BY <3>1, <3>2, <3>3, <3>4 DEF ReportedRight, LostAtEnd
    <2>7. \A k \in DOMAIN inbox : ReportedRight(inbox[k].msg)'
        BY <2>1, <2>5, <2>6 DEF ReportInv
    <2>8. answer' = "none"
        BY <2>1 DEF ReportInv
    <2> QED
        BY <2>1, <2>4, <2>7, <2>8 DEF ReportInv
<1>6. CASE ResetAfter
    <2>1. /\ UNCHANGED <<inbox, messageInfo, answer>> /\ i' = i + 1
          /\ pc = "reset" /\ pc' = "next"
        BY <1>6 DEF ResetAfter, Rset, Reset, NextIndex
    <2> QED
        BY <2>1, QuietReport
<1>7. CASE Discard \/ FreeSession
    <2>1. /\ UNCHANGED <<inbox, messageInfo, answer>> /\ i' \in {i, i + 1}
          /\ pc \notin {"attach", "reset", "done"} /\ pc' \notin {"attach", "done"}
        BY <1>7 DEF Discard, NextIndex, FreeSession, Free
    <2> QED
        BY <2>1, QuietReport
<1>8. CASE Render \/ Throw
    <2>1. /\ UNCHANGED <<inbox, messageInfo, i>> /\ pc # "done" /\ pc' = "done"
          /\ answer' = "empty" \/ (answer' = "result" /\ pc = "render")
        BY <1>8 DEF Render, Throw
    <2>2. /\ \A k \in DOMAIN inbox : inbox[k].msg \in Nat
          /\ \A k \in DOMAIN messageInfo : messageInfo[k].msg \in Nat
        BY Numbered
    <2>3. OrderInv'
        BY <1>i, <2>1, <2>2 DEF OrderInv, InOrderOnce
    <2> QED
        BY <2>1, <2>3 DEF ReportInv, ReportedRight
<1>9. CASE Logging \/ Finished \/ UNCHANGED vars
    <2>1. UNCHANGED <<inbox, messageInfo, i, answer, pc, ret, logs>>
        BY <1>9, LoggingFrame DEF Finished
    <2> QED
        BY <2>1 DEF OrderInv, InOrderOnce, ReportInv, ReportedRight
<1> QED
    BY <1>1, <1>2, <1>3, <1>4, <1>5, <1>6, <1>7, <1>8, <1>9 DEF Next, MessageStep

\* The server accepts, and the result lists, the messages in the order of the
\* array and none twice (the loop of etpan_smtp_send).
THEOREM MessagesInOrder == Spec => []InOrderOnce
<1>1. OrderInv => InOrderOnce
    BY DEF OrderInv
<1> QED
    BY <1>1, InitLoopInv, StepLoopInv, InitReport, StepReport, PTL DEF Spec

\* A result accounts for every message the server accepted.
THEOREM DeliveredReported == Spec => []DeliveredIsReported
BY ReportInvImplies, InitLoopInv, StepLoopInv, InitReport, StepReport, PTL DEF Spec

-----------------------------------------------------------------------------

\* The trees the result is made of, and those that are there between reading
\* the arguments and freeing the session.
ResultTrees == {"result", "messageInfo", "sessionInfo"}
InputTrees  == {"params", "mimes"}

\* Which trees are the command's own at each point: sessionDetails until
\* sessionInfo takes it, an item and its logs until messageInfo takes them.
OwnedInv ==
    /\ pc = "parse" => owned = ResultTrees
    /\ pc \in SessionPc \ {"parse"} => owned = ResultTrees \cup InputTrees \cup {"sessionDetails"}
    /\ pc \in {"next", "reset", "free"} => owned = ResultTrees \cup InputTrees
    /\ pc \in BodyPc \ {"reset"} => owned = ResultTrees \cup InputTrees \cup {"item", "logs"}
    /\ pc = "render" => /\ session # "none" => owned = ResultTrees
                        /\ owned \ {"sessionDetails"} = ResultTrees
    /\ pc \in SessionPc => session = "none"
    /\ pc \in BodyPc \cup {"next", "free"} => session # "none"
    /\ pc # "done" => answer = "none"
    /\ JsonReleased

LEMMA SessionStepOwned ==
    ASSUME OwnedInv, SessionStep, UNCHANGED answer
    PROVE  OwnedInv'
<1> USE DEF OwnedInv, JsonReleased, SessionPc, BodyPc, ResultTrees, InputTrees
<1>1. CASE ReadInvalid \/ ReadParams
    BY <1>1 DEF ReadInvalid, ReadParams
<1>2. CASE NewSession
    BY <1>2 DEF NewSession
<1>3. CASE Connect \/ Ehlo1 \/ SwitchToTls
    BY <1>3 DEF Connect, Ehlo1, SwitchToTls
<1>4. CASE TlsEhlo \/ SayHelo \/ ResultLogin
    BY <1>4 DEF TlsEhlo, SayHelo, ResultLogin
<1>5. CASE AuthSingle \/ AuthAuto \/ AuthTry \/ AuthGiveUp
    BY <1>5 DEF AuthSingle, AuthAuto, AuthTry, AfterTry, AuthGiveUp
<1>6. CASE ResultAuth
    BY <1>6 DEF ResultAuth, AfterSession
<1> QED
    BY <1>1, <1>2, <1>3, <1>4, <1>5, <1>6 DEF SessionStep

LEMMA StepOwned == OwnedInv /\ [Next]_vars => OwnedInv'
<1> SUFFICES ASSUME OwnedInv, [Next]_vars PROVE OwnedInv'
    OBVIOUS
<1>1. CASE SessionPhase
    BY <1>1, SessionStepOwned DEF SessionPhase
<1> USE DEF OwnedInv, JsonReleased, SessionPc, BodyPc, ResultTrees, InputTrees
<1>2. CASE NextMessage \/ AllDone \/ Mail
    BY <1>2 DEF NextMessage, AllDone, Mail
<1>3. CASE Compose \/ Rcpt \/ StartData \/ SendText
    BY <1>3 DEF Compose, Rcpt, StartData, SendText
<1>4. CASE Attach
    BY <1>4 DEF Attach
<1>5. CASE ResetAfter
    BY <1>5 DEF ResetAfter
<1>6. CASE Discard
    BY <1>6 DEF Discard, Discarded
<1>7. CASE FreeSession
    BY <1>7 DEF FreeSession
<1>8. CASE Render
    BY <1>8 DEF Render
<1>9. CASE Throw
    BY <1>9 DEF Throw
<1>10. CASE Logging \/ Finished \/ UNCHANGED vars
    <2>1. UNCHANGED <<pc, owned, session, answer>>
        BY <1>10, LoggingFrame DEF Finished
    <2> QED
        BY <2>1
<1> QED
    BY <1>1, <1>2, <1>3, <1>4, <1>5, <1>6, <1>7, <1>8, <1>9, <1>10 DEF Next, MessageStep

\* When the result is returned no cJSON tree is left over, whatever failed on
\* the way; the details of a session that could not be allocated excepted.
THEOREM TreesReleased == Spec => []JsonReleased
<1>1. Init => OwnedInv
    BY DEF Init, SessionInit, OwnedInv, JsonReleased, SessionPc, BodyPc, ResultTrees,
           InputTrees
<1>2. OwnedInv => JsonReleased
    BY DEF OwnedInv
<1> QED
    BY <1>1, <1>2, StepOwned, PTL DEF Spec

-----------------------------------------------------------------------------

\* The elements done with are objects.
AllObjects == \A k \in 1..i : mimes[k].object

\* What of a transaction may be open at the head of the loop and where an
\* element is given up.
TxnInv ==
    /\ pc \in SessionPc => txn = "none"
    /\ AllObjects /\ Alive /\ pc \in {"next", "mail"} => txn = "none"
    /\ AllObjects /\ Alive /\ pc = "discard" /\ Item.object => txn = "none"

LEMMA SessionStepTxn == SessionStep => UNCHANGED txn
<1> SUFFICES ASSUME SessionStep PROVE UNCHANGED txn
    OBVIOUS
<1>1. CASE ReadInvalid \/ ReadParams \/ NewSession
    BY <1>1 DEF ReadInvalid, ReadParams, NewSession
<1>2. CASE Connect \/ SwitchToTls
    BY <1>2 DEF Connect, Open, SwitchToTls, StartTls
<1>3. CASE Ehlo1 \/ TlsEhlo \/ SayHelo
    BY <1>3 DEF Ehlo1, Ehlo, TlsEhlo, SayHelo, Helo
<1>4. CASE ResultLogin \/ AuthSingle \/ AuthAuto
    BY <1>4 DEF ResultLogin, AuthSingle, Authenticate, AuthAuto
<1>5. CASE AuthTry \/ AuthGiveUp \/ ResultAuth
    BY <1>5 DEF AuthTry, Authenticate, AuthGiveUp, ResultAuth
<1> QED
    BY <1>1, <1>2, <1>3, <1>4, <1>5 DEF SessionStep

LEMMA StepTxn == LoopInv /\ TxnInv /\ [Next]_vars => TxnInv'
<1> SUFFICES ASSUME LoopInv, TxnInv, [Next]_vars PROVE TxnInv'
    OBVIOUS
<1>i. i \in Nat
    BY DEF LoopInv, SendTypeOK
<1> USE DEF TxnInv, SessionPc
<1>1. CASE SessionPhase
    BY <1>1, SessionStepFrame, SessionStepTxn DEF SessionPhase
<1>2. CASE NextMessage
    BY <1>2 DEF NextMessage, AllObjects, Alive, Item
<1>3. CASE AllDone
    BY <1>3 DEF AllDone
<1>4. CASE Mail
    <2>1. PICK r \in Codes : MailFrom(r) /\ pc' = IF r = "ok" THEN "compose" ELSE "discard"
        BY <1>4 DEF Mail
    <2>2. pc = "mail" /\ UNCHANGED <<i, mimes>>
        BY <1>4 DEF Mail
    <2>3. Alive' => Alive
        BY <2>1 DEF MailFrom, Exchange, Alive
    <2> QED
        BY <2>1, <2>2, <2>3 DEF MailFrom, AllObjects, Item
<1>5. CASE Compose
    BY <1>5 DEF Compose, Item
<1>6. CASE Rcpt \/ StartData \/ SendText \/ Attach
    <2>1. pc' \in {"rcpt", "dataMessage", "attach", "reset"}
        BY <1>6 DEF Rcpt, StartData, SendText, Attach
    <2> QED
        BY <2>1
<1>7. CASE ResetAfter
    BY <1>7 DEF ResetAfter, Rset, Reset
<1>8. CASE Discard
    <2>1. /\ pc = "discard" /\ pc' = "next" /\ i' = i + 1
          /\ UNCHANGED <<mimes, stream, txn>>
        BY <1>8 DEF Discard, NextIndex
    <2>2. AllObjects' => AllObjects /\ Item.object
        BY <1>i, <2>1 DEF AllObjects, Item
    <2> QED
        BY <2>1, <2>2 DEF Alive
<1>9. CASE FreeSession \/ Render \/ Throw
    BY <1>9 DEF FreeSession, Render, Throw
<1>10. CASE Logging \/ Finished \/ UNCHANGED vars
    <2>1. UNCHANGED <<pc, i, mimes, stream, txn>>
        BY <1>10, LoggingFrame DEF Finished
    <2> QED
        BY <2>1 DEF AllObjects, Alive, Item
<1> QED
    BY <1>1, <1>2, <1>3, <1>4, <1>5, <1>6, <1>7, <1>8, <1>9, <1>10 DEF Next, MessageStep

\* As long as the array holds objects, MAIL FROM is never sent inside the
\* transaction of an earlier message, however that message ended.
THEOREM TransactionsReset == Spec => []ObjectsAreReset
<1>1. Init => TxnInv
    BY DEF Init, SessionInit, TxnInv
<1>2. TxnInv => ObjectsAreReset
    BY DEF TxnInv, AllObjects, ObjectsAreReset, MailOutsideTransaction
<1> QED
    BY <1>1, <1>2, InitLoopInv, StepLoopInv, StepTxn, PTL DEF Spec

-----------------------------------------------------------------------------

\* The inbox and the result as Submission sees them.
Numbers == [k \in DOMAIN inbox |-> inbox[k].msg]
Outcomes == [k \in DOMAIN messageInfo |->
                [msg |-> messageInfo[k].msg, success |-> messageInfo[k].success]]

\* A function of the elements of a sequence, and one more element.
LEMMA MapAppend ==
    ASSUME NEW S, NEW T, NEW s \in Seq(S), NEW e \in S, NEW f \in [S -> T]
    PROVE  [k \in DOMAIN Append(s, e) |-> f[Append(s, e)[k]]]
               = Append([k \in DOMAIN s |-> f[s[k]]], f[e])
<1> DEFINE big == Append(s, e)
           small == [k \in DOMAIN s |-> f[s[k]]]
           left == [k \in DOMAIN big |-> f[big[k]]]
<1>1. /\ Len(s) \in Nat /\ DOMAIN s = 1..Len(s) /\ DOMAIN big = 1..(Len(s) + 1)
      /\ \A k \in 1..Len(s) : big[k] = s[k]
      /\ big[Len(s) + 1] = e
      /\ big \in Seq(S)
    BY OneMore
<1>2. \A k \in 1..Len(s) : s[k] \in S
    BY ElementOfSeq
<1>3. small \in [1..Len(s) -> T]
    BY <1>1, <1>2
<1>4. small \in Seq(T) /\ Len(small) = Len(s)
    BY <1>1, <1>3, SeqDef, LenProperties
<1>5. f[e] \in T
    OBVIOUS
<1>6. /\ DOMAIN Append(small, f[e]) = 1..(Len(s) + 1)
      /\ \A k \in 1..Len(s) : Append(small, f[e])[k] = small[k]
      /\ Append(small, f[e])[Len(s) + 1] = f[e]
      /\ Append(small, f[e]) \in Seq(T)
    <2> HIDE DEF small
    <2> QED
        BY <1>4, <1>5, OneMore
<1>7. left \in [1..(Len(s) + 1) -> T]
    BY <1>1, <1>2
<1>8. left \in Seq(T) /\ Len(left) = Len(s) + 1
    BY <1>1, <1>7, SeqDef, LenProperties
<1>9. \A k \in 1..(Len(s) + 1) : left[k] = Append(small, f[e])[k]
    <2> TAKE k \in 1..(Len(s) + 1)
    <2>1. CASE k \in 1..Len(s)
        BY <1>1, <1>6, <2>1
    <2>2. CASE k = Len(s) + 1
        BY <1>1, <1>6, <2>2
    <2> QED
        BY <1>1, <2>1, <2>2
<1>10. Len(Append(small, f[e])) = Len(s) + 1
    BY <1>1, <1>6, LenProperties
<1> HIDE DEF left, small
<1>11. left = Append(small, f[e])
    BY <1>6, <1>8, <1>9, <1>10, SeqEqual
<1> QED
    BY <1>11 DEF left, small

LEMMA NumbersAppend ==
    ASSUME inbox \in Seq(Mails), NEW m \in Mails, inbox' = Append(inbox, m)
    PROVE  Numbers' = Append(Numbers, m.msg)
<1> DEFINE f == [x \in Mails |-> x.msg]
<1>1. f \in [Mails -> Nat]
    BY DEF Mails
<1>2. [k \in DOMAIN Append(inbox, m) |-> f[Append(inbox, m)[k]]]
          = Append([k \in DOMAIN inbox |-> f[inbox[k]]], f[m])
    <2> HIDE DEF f
    <2> QED
        BY <1>1, MapAppend
<1>3. \A k \in DOMAIN inbox : inbox[k] \in Mails
    BY ElementOfSeq, LenProperties
<1>4. \A k \in DOMAIN Append(inbox, m) : Append(inbox, m)[k] \in Mails
    <2>1. Append(inbox, m) \in Seq(Mails)
        BY OneMore
    <2> QED
        BY <2>1, ElementOfSeq, LenProperties
<1>5. Numbers = [k \in DOMAIN inbox |-> f[inbox[k]]]
    BY <1>3 DEF Numbers
<1>6. Numbers' = [k \in DOMAIN Append(inbox, m) |-> f[Append(inbox, m)[k]]]
    BY <1>4 DEF Numbers
<1> QED
    BY <1>2, <1>5, <1>6

LEMMA OutcomesAppend ==
    ASSUME messageInfo \in Seq(Items), NEW x \in Items,
           messageInfo' = Append(messageInfo, x)
    PROVE  Outcomes' = Append(Outcomes, [msg |-> x.msg, success |-> x.success])
<1> DEFINE f == [y \in Items |-> [msg |-> y.msg, success |-> y.success]]
<1>1. f \in [Items -> [msg : Nat, success : BOOLEAN]]
    BY DEF Items
<1>2. [k \in DOMAIN Append(messageInfo, x) |-> f[Append(messageInfo, x)[k]]]
          = Append([k \in DOMAIN messageInfo |-> f[messageInfo[k]]], f[x])
    <2> HIDE DEF f
    <2> QED
        BY <1>1, MapAppend
<1>3. \A k \in DOMAIN messageInfo : messageInfo[k] \in Items
    BY ElementOfSeq, LenProperties
<1>4. \A k \in DOMAIN Append(messageInfo, x) : Append(messageInfo, x)[k] \in Items
    <2>1. Append(messageInfo, x) \in Seq(Items)
        BY OneMore
    <2> QED
        BY <2>1, ElementOfSeq, LenProperties
<1>5. Outcomes = [k \in DOMAIN messageInfo |-> f[messageInfo[k]]]
    BY <1>3 DEF Outcomes
<1>6. Outcomes' = [k \in DOMAIN Append(messageInfo, x) |-> f[Append(messageInfo, x)[k]]]
    BY <1>4 DEF Outcomes
<1> QED
    BY <1>2, <1>5, <1>6

-----------------------------------------------------------------------------

\* The array is as long as Submission's, and never changes.
BoundInv == Len(mimes) <= MaxMessages

LEMMA ArrayBounded == Spec => []BoundInv
<1>1. Init => BoundInv
    <2> SUFFICES ASSUME Init PROVE BoundInv
        OBVIOUS
    <2>1. PICK n \in 0..MaxMessages : mimes \in [1..n -> Elements]
        BY DEF Init
    <2>2. mimes \in Seq(Elements) /\ Len(mimes) = n
        BY <2>1, SendConstants, SeqDef, LenProperties
    <2> QED
        BY <2>2, SendConstants DEF BoundInv
<1>2. BoundInv /\ [Next]_vars => BoundInv'
    <2> SUFFICES ASSUME BoundInv, [Next]_vars PROVE UNCHANGED mimes
        BY DEF BoundInv
    <2>1. CASE SessionPhase \/ Throw \/ Logging \/ Finished \/ UNCHANGED vars
        BY <2>1 DEF SessionPhase, Throw, Logging, Finished
    <2>2. CASE NextMessage \/ AllDone \/ Mail \/ Compose \/ Rcpt \/ StartData
        BY <2>2 DEF NextMessage, AllDone, Mail, Compose, Rcpt, StartData
    <2>3. CASE SendText \/ Attach \/ ResetAfter \/ Discard \/ FreeSession \/ Render
        BY <2>3 DEF SendText, Attach, ResetAfter, Discard, FreeSession, Render
    <2> QED
        BY <2>1, <2>2, <2>3 DEF Next, MessageStep
<1> QED
    BY <1>1, <1>2, PTL DEF Spec

\* What the steps that matter to Submission may rely on.
PromiseInv == LoopInv /\ BoundInv /\ OpenInv /\ AcceptedInv /\ OrderInv /\ ReportInv

\* Submission's view of what has been reported.
LEMMA OutcomesMsgs ==
    ASSUME LoopInv
    PROVE  /\ DOMAIN Outcomes = DOMAIN messageInfo
           /\ DOMAIN Numbers = DOMAIN inbox
           /\ \A k \in DOMAIN messageInfo : Outcomes[k].msg = messageInfo[k].msg
           /\ \A k \in DOMAIN inbox : Numbers[k] = inbox[k].msg
           /\ Promise!ReportedMsgs = Reported
BY DEF Outcomes, Numbers, Promise!ReportedMsgs, Reported

\* The final dot is Submission's Deliver, or nothing if the server did not
\* accept the message.
LEMMA SendTextDelivers ==
    ASSUME PromiseInv, SendText
    PROVE  [Promise!Next]_(Promise!promiseVars)
<1> DEFINE m == [msg |-> i + 1, full |-> full]
<1>1. PICK r \in Codes : DataMessage(r, m)
    BY DEF SendText
<1>2. /\ pc = "dataMessage" /\ UNCHANGED <<messageInfo, i, answer, session>>
    BY DEF SendText
<1>3. /\ session = "success" /\ answer = "none" /\ i < Len(mimes) /\ i \in Nat
      /\ inbox \in Seq(Mails) /\ mimes \in Seq(Elements)
      /\ Len(mimes) <= MaxMessages /\ full \in BOOLEAN
    BY <1>2 DEF PromiseInv, OpenInv, ReportInv, LoopInv, SendTypeOK, BodyPc, BoundInv
<1>4. m \in Mails /\ m.msg = i + 1
    BY <1>3 DEF Mails
<1>5. i + 1 \in 1..MaxMessages
    BY <1>3, SendConstants, LenProperties
<1>6. \A k \in DOMAIN messageInfo : messageInfo[k].msg < i + 1
    BY <1>2, Numbered DEF PromiseInv, OrderInv
<1>7. \A k \in DOMAIN inbox : inbox[k].msg \in Reported
    BY <1>2 DEF PromiseInv, ReportInv, ReportedRight, Reported
<1> HIDE DEF m
<1>8. CASE inbox' = Append(inbox, m)
    <2>1. Numbers' = Append(Numbers, i + 1)
        BY <1>3, <1>4, <1>8, NumbersAppend
    <2>2. Promise!AllReported
        BY <1>7, OutcomesMsgs DEF PromiseInv, Promise!AllReported, Numbers
    <2>3. \A n \in Promise!ReportedMsgs : n < i + 1
        BY <1>6, OutcomesMsgs DEF PromiseInv, Reported
    <2>4. PICK n \in 1..MaxMessages : n = i + 1
        BY <1>5
    <2>5. Promise!Deliver(n)
        BY <1>2, <1>3, <2>1, <2>2, <2>3, <2>4 DEF Promise!Deliver, Numbers
    <2> QED
        BY <2>5 DEF Promise!Next
<1>9. CASE UNCHANGED inbox
    BY <1>2, <1>9 DEF Promise!promiseVars
<1> QED
    BY <1>1, <1>8, <1>9 DEF DataMessage

\* Attach is Submission's Report.
LEMMA AttachReports ==
    ASSUME PromiseInv, Attach
    PROVE  Promise!Next
<1> DEFINE x == [msg |-> i + 1, success |-> ret = "ok", details |-> logs]
<1>1. /\ pc = "attach" /\ UNCHANGED <<inbox, answer, session>>
      /\ messageInfo' = Append(messageInfo, x)
    BY DEF Attach, WithItem
<1>2. /\ session = "success" /\ answer = "none" /\ i < Len(mimes) /\ i \in Nat
      /\ messageInfo \in Seq(Items) /\ mimes \in Seq(Elements) /\ logs \in Seq(Entries)
      /\ Len(mimes) <= MaxMessages
    BY <1>1 DEF PromiseInv, OpenInv, ReportInv, LoopInv, SendTypeOK, BodyPc, BoundInv
<1>3. x \in Items /\ x.msg = i + 1 /\ x.success = (ret = "ok")
    BY <1>2 DEF Items
<1>4. i + 1 \in 1..MaxMessages
    BY <1>2, SendConstants, LenProperties
<1>5. \A k \in DOMAIN messageInfo : messageInfo[k].msg < i + 1
    BY <1>1, Numbered DEF PromiseInv, OrderInv
<1>6. \A k \in DOMAIN inbox : inbox[k].msg \in Reported \cup {i + 1}
    BY <1>1 DEF PromiseInv, ReportInv, ReportedRight, Reported
<1>7. ret = "ok" => \E k \in DOMAIN inbox : inbox[k].msg = i + 1
    BY <1>1 DEF PromiseInv, AcceptedInv, Delivered
<1> HIDE DEF x
<1>8. Outcomes' = Append(Outcomes, [msg |-> i + 1, success |-> ret = "ok"])
    BY <1>1, <1>2, <1>3, OutcomesAppend
<1>9. \A n \in Promise!ReportedMsgs : n < i + 1
    BY <1>5, OutcomesMsgs DEF PromiseInv, Reported
<1>10. \A k \in DOMAIN Numbers : Numbers[k] \in Promise!ReportedMsgs \cup {i + 1}
    BY <1>6, OutcomesMsgs DEF PromiseInv
<1>11. ret = "ok" => \E k \in DOMAIN Numbers : Numbers[k] = i + 1
    BY <1>7, OutcomesMsgs DEF PromiseInv
<1>12. PICK n \in 1..MaxMessages, s \in BOOLEAN : n = i + 1 /\ s = (ret = "ok")
    BY <1>4
<1>13. Promise!Report(n, s)
    BY <1>1, <1>2, <1>8, <1>9, <1>10, <1>11, <1>12 DEF Promise!Report, Numbers, Outcomes
<1> QED
    BY <1>13 DEF Promise!Next

LEMMA StepPromise ==
    ASSUME PromiseInv, [Next]_vars
    PROVE  [Promise!Next]_(Promise!promiseVars)
<1>1. CASE SessionPhase
    <2>1. /\ UNCHANGED <<inbox, messageInfo, answer>>
          /\ session = "none" /\ answer = "none"
        BY <1>1, SessionStepFrame DEF SessionPhase, SessionPc, PromiseInv, OpenInv, ReportInv
    <2> QED
        BY <2>1 DEF Promise!Next, Promise!Open, Promise!promiseVars
<1>2. CASE SendText
    BY <1>2, SendTextDelivers
<1>3. CASE Attach
    BY <1>3, AttachReports
<1>4. CASE Render
    <2>1. /\ pc = "render" /\ answer' = "result" /\ answer = "none"
          /\ UNCHANGED <<inbox, messageInfo, session>>
        BY <1>4 DEF Render, PromiseInv, ReportInv
    <2>2. \A k \in DOMAIN inbox : inbox[k].msg \in Reported
        BY <2>1 DEF PromiseInv, ReportInv, ReportedRight, Reported
    <2>3. Promise!AllReported
        BY <2>2, OutcomesMsgs DEF PromiseInv, Promise!AllReported, Numbers
    <2> QED
        BY <2>1, <2>3 DEF Promise!Next, Promise!Return
<1>5. CASE Throw
    <2>1. answer' = "empty" /\ answer = "none" /\ UNCHANGED <<inbox, messageInfo, session>>
        BY <1>5 DEF Throw, PromiseInv, ReportInv
    <2> QED
        BY <2>1 DEF Promise!Next, Promise!Interrupt
<1>6. CASE MessageStep /\ ~SendText /\ ~Attach /\ ~Render
    <2>1. UNCHANGED <<inbox, messageInfo, session>>
        BY <1>6, InboxFrame, MessageStepFrame
    <2>2. UNCHANGED answer
        <3>1. CASE NextMessage \/ AllDone \/ Mail \/ Compose \/ Rcpt \/ StartData
            BY <3>1 DEF NextMessage, AllDone, Mail, Compose, Rcpt, StartData
        <3>2. CASE ResetAfter \/ Discard \/ FreeSession
            BY <3>2 DEF ResetAfter, Discard, FreeSession
        <3> QED
            BY <1>6, <3>1, <3>2 DEF MessageStep
    <2> QED
        BY <2>1, <2>2 DEF Promise!promiseVars
<1>7. CASE Logging \/ Finished \/ UNCHANGED vars
    <2>1. UNCHANGED <<inbox, messageInfo, session, answer>>
        BY <1>7, LoggingFrame DEF Finished
    <2> QED
        BY <2>1 DEF Promise!promiseVars
<1> QED
    BY <1>1, <1>2, <1>3, <1>4, <1>5, <1>6, <1>7 DEF Next

\* Every step of etpan_smtp_send, with its network calls and error paths, is a
\* step that Submission allows, or nothing to Submission; that it also answers
\* is a matter of fairness and left to the runs.
THEOREM StepsImplementSubmission ==
    Spec => Promise!Init /\ [][Promise!Next]_(Promise!promiseVars)
<1>1. Init => Promise!Init
    <2> SUFFICES ASSUME Init PROVE Promise!Init
        OBVIOUS
    <2>1. inbox = <<>> /\ messageInfo = <<>> /\ session = "none" /\ answer = "none"
        BY DEF Init, SessionInit
    <2> QED
        BY <2>1 DEF Promise!Init
<1>2. Init => OpenInv /\ AcceptedInv
    BY DEF Init, SessionInit, OpenInv, SessionPc, BodyPc, AcceptedInv, SuccessMeansAccepted
<1>3. PromiseInv /\ [Next]_vars => [Promise!Next]_(Promise!promiseVars)
    BY StepPromise
<1> QED
    BY <1>1, <1>2, <1>3, ArrayBounded, InitLoopInv, StepLoopInv, StepOpenInv,
       StepAcceptedInv, InitReport, StepReport, PTL DEF Spec, PromiseInv

-----------------------------------------------------------------------------

\* While it sends messages, and when it is interrupted, the command keeps what
\* the session half has established; the connection may be lost, not changed.
LEMMA MessagesKeepSession ==
    MessageStep \/ Throw =>
        /\ UNCHANGED <<params, esmtp, trusted, attempt, sessionDetails, session,
                       greeted, auth, loggedIn>>
        /\ pc' \notin SessionPc
        /\ Alive' => UNCHANGED stream
<1> SUFFICES ASSUME MessageStep \/ Throw
             PROVE  /\ UNCHANGED <<params, esmtp, trusted, attempt, sessionDetails,
                                   session, greeted, auth, loggedIn>>
                    /\ pc' \notin SessionPc
                    /\ Alive' => UNCHANGED stream
    OBVIOUS
<1> USE DEF SessionPc, Alive
<1>1. CASE NextMessage \/ AllDone \/ Compose \/ Attach
    BY <1>1 DEF NextMessage, AllDone, Compose, Attach
<1>2. CASE Mail \/ Rcpt
    BY <1>2 DEF Mail, MailFrom, Rcpt, RcptTo, Exchange
<1>3. CASE StartData \/ SendText
    BY <1>3 DEF StartData, Data, SendText, DataMessage, Exchange
<1>4. CASE ResetAfter
    BY <1>4 DEF ResetAfter, Rset, Reset, Exchange
<1>5. CASE Discard \/ Render \/ Throw
    BY <1>5 DEF Discard, Render, Throw
<1>6. CASE FreeSession
    BY <1>6 DEF FreeSession, Free
<1> QED
    BY <1>1, <1>2, <1>3, <1>4, <1>5, <1>6 DEF MessageStep

\* What they change of the session's variables keeps its type.
LEMMA MessagesKeepTypes ==
    LoopInv /\ SessionTypeOK /\ (MessageStep \/ Throw) => SessionTypeOK'
<1> SUFFICES ASSUME LoopInv, SessionTypeOK, MessageStep \/ Throw PROVE SessionTypeOK'
    OBVIOUS
<1> USE DEF SessionTypeOK
<1>1. CASE NextMessage
    <2>1. index' \in Nat /\ ret' \in Codes
        BY <1>1 DEF NextMessage, IndexOf, LoopInv, SendTypeOK, Codes
    <2> QED
        BY <1>1, <2>1 DEF NextMessage
<1>2. CASE AllDone \/ Compose \/ Attach \/ Discard \/ Render \/ Throw
    BY <1>2 DEF AllDone, Compose, Attach, Discard, Render, Throw
<1>3. CASE Mail
    BY <1>3 DEF Mail, MailFrom, Exchange
<1>4. CASE Rcpt
    BY <1>4 DEF Rcpt, RcptTo, Exchange
<1>5. CASE StartData
    BY <1>5 DEF StartData, RetAfterData, Data, Exchange
<1>6. CASE SendText
    BY <1>6 DEF SendText, DataMessage, Exchange
<1>7. CASE ResetAfter
    BY <1>7 DEF ResetAfter, Rset, Reset, Exchange
<1>8. CASE FreeSession
    BY <1>8 DEF FreeSession, Free
<1> QED
    BY <1>1, <1>2, <1>3, <1>4, <1>5, <1>6, <1>7, <1>8 DEF MessageStep

\* The report of the session stays as it is once it is written.
LEMMA CommandDetails == Spec => []DetailsInv
<1>1. Init => DetailsInv
    BY InitDetails DEF Init
<1>2. ASSUME LoopInv, DetailsInv, [Next]_vars
      PROVE  DetailsInv'
    <2>1. CASE SessionPhase
        BY <1>2, <2>1, StepDetails DEF SessionPhase
    <2>2. CASE MessageStep \/ Throw
        <3>1. SessionTypeOK'
            BY <1>2, <2>2, MessagesKeepTypes DEF DetailsInv
        <3>2. UNCHANGED <<params, sessionDetails, session>> /\ pc' \notin SessionPc
            BY <2>2, MessagesKeepSession
        <3> QED
            BY <1>2, <3>1, <3>2 DEF DetailsInv, ReportLength, FirstEntry, SecondEntry,
               ThirdEntry, Carried, AskedSsl, BeforeConnected, BeforeIdentified,
               BeforeAuthenticated, SessionPc
    <2>3. CASE Logging \/ Finished \/ UNCHANGED vars
        BY <1>2, <2>3, FrameDetails DEF Logging, Finished, allVars
    <2> QED
        BY <1>2, <2>1, <2>2, <2>3 DEF Next
<1> QED
    BY <1>1, <1>2, InitLoopInv, StepLoopInv, PTL DEF Spec

\* So the session's invariants, which its steps keep, hold in the whole command.
LEMMA CommandInvariants == Spec => []ChannelInv /\ []GreetingInv /\ []LoginInv
<1>1. Init => ChannelInv /\ GreetingInv /\ LoginInv
    BY InitChannelInv, InitGreetingInv, InitLoginInv DEF Init
<1>2. ASSUME ChannelInv, GreetingInv, DetailsInv, LoginInv, [Next]_vars
      PROVE  ChannelInv' /\ GreetingInv' /\ LoginInv'
    <2>1. CASE SessionPhase
        BY <1>2, <2>1, StepChannelInv, StepGreetingInv, StepLoginInv DEF SessionPhase
    <2>2. CASE MessageStep \/ Throw
        <3>1. /\ UNCHANGED <<params, esmtp, trusted, sessionDetails, session, greeted,
                             auth, loggedIn>>
              /\ pc' \notin SessionPc
              /\ Alive' => stream' = stream /\ Alive
            BY <2>2, MessagesKeepSession DEF Alive
        <3>2. ChannelInv'
            <4>1. /\ Tls' <=> Tls
                  /\ Insecure' <=> Insecure
                  /\ Verify' <=> Verify
                BY <3>1 DEF Tls, Insecure, Verify
            <4>2. Channel => Channel'
                BY <3>1, <4>1 DEF Channel
            <4> QED
                BY <1>2, <3>1, <4>2 DEF ChannelInv, SessionPc
        <3>3. GreetingInv'
            BY <1>2, <3>1 DEF GreetingInv, SessionPc
        <3>4. LoginInv'
            BY <1>2, <3>1 DEF LoginInv, NoLoginNeeded, AuthType, SessionPc
        <3> QED
            BY <3>2, <3>3, <3>4
    <2>3. CASE Logging \/ Finished \/ UNCHANGED vars
        BY <1>2, <2>3, LoggingFrame, FrameChannelInv, FrameGreetingInv, FrameLoginInv
           DEF Finished
    <2> QED
        BY <1>2, <2>1, <2>2, <2>3 DEF Next
<1> QED
    BY <1>1, <1>2, CommandDetails, PTL DEF Spec

\* Every message goes over the channel the options ask for: in plain text only
\* if allowInsecure asked for it, and to a server whose certificate was
\* accepted unless verifyCertificate waived that.
THEOREM CommandChannel == Spec => []ChannelAsConfigured
<1>1. ChannelInv => ChannelAsConfigured
    BY DEF ChannelInv, ChannelAsConfigured, Channel, Alive, Tls, Insecure, Verify,
       JsonFlag, JsonItems, AskedInsecure, AskedSsl, AskedNoCheck
<1> QED
    BY <1>1, CommandInvariants, PTL

\* MAIL and RCPT have their ESMTP form exactly after an accepted EHLO, and a
\* session that is reported as open has logged in if that was asked for: both
\* for as long as messages are sent.
THEOREM CommandGreetingAndLogin ==
    Spec => []EsmtpMatchesGreeting /\ []SuccessMeansAuthenticated
<1>1. GreetingInv => EsmtpMatchesGreeting
    BY DEF GreetingInv, EsmtpMatchesGreeting
<1>2. LoginInv => SuccessMeansAuthenticated
    BY DEF LoginInv, SuccessMeansAuthenticated, NoLoginNeeded
<1> QED
    BY <1>1, <1>2, CommandInvariants, PTL

\* HELO, which the README has depend on allowInsecure, is used without it after
\* STARTTLS and with SSL on connect (HeloOnlyWhenAllowed is violated); but never
\* in plain text.
HeloInClearOnlyWhenAllowed == greeted = "helo" /\ stream = "plain" => AskedInsecure

HeloInv == greeted = "helo" /\ stream = "plain" => Insecure

LEMMA SessionStepHelo == ChannelInv /\ GreetingInv /\ HeloInv /\ SessionStep => HeloInv'
<1> SUFFICES ASSUME ChannelInv, GreetingInv, HeloInv, SessionStep PROVE HeloInv'
    OBVIOUS
<1> USE DEF HeloInv, Insecure
<1>1. CASE ReadInvalid \/ ReadParams \/ NewSession \/ Connect
    <2>1. greeted' # "helo"
        BY <1>1 DEF ReadInvalid, ReadParams, NewSession, Connect, Open, GreetingInv
    <2> QED
        BY <2>1
<1>2. CASE Ehlo1 \/ TlsEhlo
    BY <1>2 DEF Ehlo1, TlsEhlo, Ehlo, Exchange
<1>3. CASE SwitchToTls
    BY <1>3 DEF SwitchToTls, StartTls
<1>4. CASE SayHelo
    <2>1. stream = "plain" => Insecure
        BY <1>4 DEF SayHelo, ChannelInv, Channel, Alive
    <2>2. params' = params /\ stream' \in {stream, "lost"}
        BY <1>4 DEF SayHelo, Helo, Exchange
    <2> QED
        BY <2>1, <2>2
<1>5. CASE ResultLogin \/ AuthAuto \/ AuthGiveUp \/ ResultAuth
    BY <1>5 DEF ResultLogin, AuthAuto, AuthGiveUp, ResultAuth
<1>6. CASE AuthSingle \/ AuthTry
    BY <1>6 DEF AuthSingle, AuthTry, Authenticate, Exchange
<1> QED
    BY <1>1, <1>2, <1>3, <1>4, <1>5, <1>6 DEF SessionStep

\* In plain text the server is greeted with HELO only if allowInsecure allows
\* the fallback.
THEOREM CommandHelo == Spec => []HeloInClearOnlyWhenAllowed
<1>1. Init => ChannelInv /\ GreetingInv /\ HeloInv
    BY InitChannelInv, InitGreetingInv DEF Init, SessionInit, HeloInv
<1>2. ChannelInv /\ GreetingInv /\ HeloInv /\ [Next]_vars => HeloInv'
    <2> SUFFICES ASSUME ChannelInv, GreetingInv, HeloInv, [Next]_vars PROVE HeloInv'
        OBVIOUS
    <2>1. CASE SessionPhase
        BY <2>1, SessionStepHelo DEF SessionPhase
    <2>2. CASE MessageStep \/ Throw
        <3>1. UNCHANGED <<params, greeted>> /\ (Alive' => UNCHANGED stream)
            BY <2>2, MessagesKeepSession
        <3> QED
            BY <3>1 DEF HeloInv, Insecure, Alive
    <2>3. CASE Logging \/ Finished \/ UNCHANGED vars
        BY <2>3, LoggingFrame DEF Finished, HeloInv, Insecure
    <2> QED
        BY <2>1, <2>2, <2>3 DEF Next
<1>3. ChannelInv /\ HeloInv => HeloInClearOnlyWhenAllowed
    BY DEF ChannelInv, HeloInv, HeloInClearOnlyWhenAllowed, Insecure, JsonFlag,
       JsonItems, AskedInsecure
<1> QED
    BY <1>1, <1>2, <1>3, CommandInvariants, PTL DEF Spec

-----------------------------------------------------------------------------

\* A message is accepted in full just when it could be composed.
FullInv ==
    /\ pc \in {"rcpt", "dataMessage"} => full = Item.composes
    /\ \A k \in DOMAIN inbox : /\ inbox[k].msg \in 1..Len(mimes)
                               /\ inbox[k].full = mimes[inbox[k].msg].composes

LEMMA StepFull == LoopInv /\ FullInv /\ [Next]_vars => FullInv'
<1> SUFFICES ASSUME LoopInv, FullInv, [Next]_vars PROVE FullInv'
    OBVIOUS
<1> USE DEF FullInv
<1>1. CASE SessionPhase
    BY <1>1, SessionStepFrame DEF SessionPhase, SessionPc
<1>2. CASE SendText
    <2> DEFINE m == [msg |-> i + 1, full |-> full]
    <2>1. PICK r \in Codes : DataMessage(r, m)
        BY <1>2 DEF SendText
    <2>2. pc' = "attach" /\ mimes' = mimes /\ pc = "dataMessage"
        BY <1>2 DEF SendText
    <2>3. m.msg \in 1..Len(mimes) /\ m.full = mimes[m.msg].composes /\ m \in Mails
        BY <2>2, LenProperties DEF LoopInv, SendTypeOK, BodyPc, Item, Mails
    <2> HIDE DEF m
    <2>4. CASE inbox' = Append(inbox, m)
        <3>1. inbox \in Seq(Mails)
            BY DEF LoopInv, SendTypeOK
        <3>2. /\ Len(inbox) \in Nat
              /\ DOMAIN inbox = 1..Len(inbox)
              /\ DOMAIN inbox' = 1..(Len(inbox) + 1)
              /\ \A k \in 1..Len(inbox) : inbox'[k] = inbox[k]
              /\ inbox'[Len(inbox) + 1] = m
            BY <2>3, <2>4, <3>1, AppendProperties, LenProperties
        <3> QED
            BY <2>2, <2>3, <3>2
    <2>5. CASE UNCHANGED inbox
        BY <2>2, <2>5
    <2> QED
        BY <2>1, <2>4, <2>5 DEF DataMessage
<1>3. CASE Compose
    BY <1>3 DEF Compose, Item
<1>4. CASE Rcpt \/ StartData
    BY <1>4 DEF Rcpt, RcptTo, StartData, Data, Item
<1>5. CASE NextMessage \/ AllDone \/ Mail \/ Attach
    BY <1>5 DEF NextMessage, AllDone, Mail, MailFrom, Attach
<1>6. CASE ResetAfter \/ Discard \/ FreeSession \/ Render \/ Throw
    BY <1>6 DEF ResetAfter, Rset, Reset, Discard, FreeSession, Free, Render, Throw
<1>7. CASE Logging
    BY <1>7, LoggingFrame DEF Item
<1>8. CASE Finished \/ UNCHANGED vars
    BY <1>8 DEF Finished, Item
<1> QED
    BY <1>1, <1>2, <1>3, <1>4, <1>5, <1>6, <1>7, <1>8 DEF Next, MessageStep

\* What is reported as sent is the message, and not an empty text, if every
\* message has a contentType that libetpan can parse.  (SuccessMeansSentInFull
\* alone is violated.)
THEOREM ComposedIsSentInFull ==
    Spec => []((\A m \in 1..Len(mimes) : mimes[m].composes) => SuccessMeansSentInFull)
<1>1. Init => FullInv /\ AcceptedInv
    BY DEF Init, SessionInit, FullInv, AcceptedInv, SuccessMeansAccepted
<1>2. FullInv /\ AcceptedInv =>
          ((\A m \in 1..Len(mimes) : mimes[m].composes) => SuccessMeansSentInFull)
    <2> SUFFICES ASSUME FullInv, AcceptedInv, \A m \in 1..Len(mimes) : mimes[m].composes,
                        NEW k \in DOMAIN messageInfo, messageInfo[k].success
                 PROVE  \E d \in DOMAIN inbox :
                            inbox[d].msg = messageInfo[k].msg /\ inbox[d].full
        BY DEF SuccessMeansSentInFull
    <2>1. PICK d \in DOMAIN inbox : inbox[d].msg = messageInfo[k].msg
        BY DEF AcceptedInv, SuccessMeansAccepted, Delivered
    <2> QED
        BY <2>1 DEF FullInv
<1> QED
    BY <1>1, <1>2, InitLoopInv, StepLoopInv, StepAcceptedInv, StepFull, PTL DEF Spec

-----------------------------------------------------------------------------

\* ctx.index while pc is where it is: inside the loop body it is one more than
\* the number of elements done.
IndexInv ==
    pc # "done" => index = IF pc \in BodyPc THEN i + 1 ELSE i

LEMMA StepIndex == IndexInv /\ [Next]_vars => IndexInv'
<1> SUFFICES ASSUME IndexInv, [Next]_vars PROVE IndexInv'
    OBVIOUS
<1> USE DEF IndexInv, BodyPc
<1>1. CASE SessionPhase
    <2>1. UNCHANGED index
        <3>1. CASE ReadInvalid \/ ReadParams \/ NewSession \/ Connect \/ SwitchToTls
            BY <3>1 DEF ReadInvalid, ReadParams, NewSession, Connect, SwitchToTls
        <3>2. CASE Ehlo1 \/ TlsEhlo \/ SayHelo \/ ResultLogin \/ AuthSingle
            BY <3>2 DEF Ehlo1, TlsEhlo, SayHelo, ResultLogin, AuthSingle
        <3>3. CASE AuthAuto \/ AuthTry \/ AuthGiveUp \/ ResultAuth
            BY <3>3 DEF AuthAuto, AuthTry, AuthGiveUp, ResultAuth
        <3> QED
            BY <1>1, <3>1, <3>2, <3>3 DEF SessionPhase, SessionStep
    <2> QED
        BY <1>1, <2>1, SessionStepFrame DEF SessionPhase, SessionPc
<1>2. CASE NextMessage
    BY <1>2 DEF NextMessage, IndexOf
<1>3. CASE AllDone \/ Mail \/ Compose \/ Rcpt \/ StartData
    BY <1>3 DEF AllDone, Mail, Compose, Rcpt, StartData
<1>4. CASE SendText \/ Attach \/ FreeSession \/ Render \/ Throw
    BY <1>4 DEF SendText, Attach, FreeSession, Render, Throw
<1>5. CASE ResetAfter \/ Discard
    BY <1>5 DEF ResetAfter, Discard, NextIndex
<1>6. CASE Logging \/ Finished \/ UNCHANGED vars
    <2>1. UNCHANGED <<pc, index, i>>
        BY <1>6, LoggingFrame DEF Finished
    <2> QED
        BY <2>1
<1> QED
    BY <1>1, <1>2, <1>3, <1>4, <1>5, <1>6 DEF Next, MessageStep

\* Only Log tells the callback anything.
LEMMA OnlyLogTells ==
    ASSUME [Next]_vars, heard' # heard
    PROVE  /\ pc \in SessionCalls \cup MessageCalls
           /\ heard'.index = index
<1>1. CASE SessionPhase
    <2>1. CASE ReadInvalid \/ ReadParams \/ NewSession \/ Connect \/ SwitchToTls
        BY <2>1 DEF ReadInvalid, ReadParams, NewSession, Connect, SwitchToTls
    <2>2. CASE Ehlo1 \/ TlsEhlo \/ SayHelo \/ ResultLogin \/ AuthSingle
        BY <2>2 DEF Ehlo1, TlsEhlo, SayHelo, ResultLogin, AuthSingle
    <2>3. CASE AuthAuto \/ AuthTry \/ AuthGiveUp \/ ResultAuth
        BY <2>3 DEF AuthAuto, AuthTry, AuthGiveUp, ResultAuth
    <2> QED
        BY <1>1, <2>1, <2>2, <2>3 DEF SessionPhase, SessionStep
<1>2. CASE NextMessage \/ AllDone \/ Mail \/ Compose \/ Rcpt \/ StartData
    BY <1>2 DEF NextMessage, AllDone, Mail, Compose, Rcpt, StartData
<1>3. CASE SendText \/ Attach \/ ResetAfter \/ Discard \/ FreeSession \/ Render \/ Throw
    BY <1>3 DEF SendText, Attach, ResetAfter, Discard, FreeSession, Render, Throw
<1>4. CASE Logging
    <2>1. CASE Log
        BY <2>1 DEF Log, Logged
    <2>2. CASE Aborted
        BY <2>2 DEF Aborted, ProcessDies
    <2> QED
        BY <1>4, <2>1, <2>2 DEF Logging
<1>5. CASE Finished \/ UNCHANGED vars
    BY <1>5 DEF Finished
<1> QED
    BY <1>1, <1>2, <1>3, <1>4, <1>5 DEF Next, MessageStep

\* mail_logger: $1 of the callback is the number of the message on the wire,
\* in a command of any number of messages, and of the last one at QUIT.
THEOREM CallbackIndex == Spec => CallbackTellsMessage
<1>1. Init => IndexInv
    BY DEF Init, SessionInit, IndexInv, BodyPc
<1>2. IndexInv /\ [Next]_vars =>
          [heard' # heard =>
               heard'.index = IF pc \in MessageCalls \ {"free"} THEN i + 1 ELSE i]_vars
    <2> SUFFICES ASSUME IndexInv, [Next]_vars, heard' # heard
                 PROVE  heard'.index = IF pc \in MessageCalls \ {"free"} THEN i + 1 ELSE i
        OBVIOUS
    <2>1. pc \in SessionCalls \cup MessageCalls /\ heard'.index = index
        BY OnlyLogTells
    <2> QED
        BY <2>1 DEF IndexInv, BodyPc, SessionCalls, MessageCalls
<1> QED
    BY <1>1, <1>2, StepIndex, PTL DEF Spec, CallbackTellsMessage

-----------------------------------------------------------------------------

\* No recipient yet, no entry for one.
LEMMA AddressedNone == ASSUME NEW entries, NEW rcpts PROVE Addressed(entries, 1, rcpts, 0)
<1> DEFINE to == [d \in 2..1 |-> 0]
<1>1. 2..1 = {} /\ 1..0 = {}
    OBVIOUS
<1>2. to \in [2..1 -> 1..0]
    BY <1>1
<1> QED
    BY <1>1, <1>2 DEF Addressed

\* A recipient that does not parse leaves no entry.
LEMMA AddressedSkip ==
    ASSUME NEW entries, NEW rcpts, NEW m, NEW n \in Nat,
           Addressed(entries, m, rcpts, n), ~rcpts[n + 1].parses
    PROVE  Addressed(entries, m, rcpts, n + 1)
<1>1. PICK to \in [2..m -> 1..n] :
          /\ \A d, e \in 2..m : d < e => to[d] < to[e]
          /\ {to[d] : d \in 2..m} = {p \in 1..n : rcpts[p].parses}
          /\ \A d \in 2..m : entries[d].op = rcpts[to[d]].field
    BY DEF Addressed
<1>2. 1..(n + 1) = (1..n) \cup {n + 1}
    OBVIOUS
<1>3. to \in [2..m -> 1..(n + 1)]
    BY <1>2
<1>4. {p \in 1..(n + 1) : rcpts[p].parses} = {p \in 1..n : rcpts[p].parses}
    BY <1>2
<1> QED
    BY <1>1, <1>3, <1>4 DEF Addressed

\* One that parses leaves one, after the others.
LEMMA AddressedOne ==
    ASSUME NEW entries, NEW longer, NEW rcpts, NEW m \in Nat \ {0}, NEW n \in Nat,
           Addressed(entries, m, rcpts, n), \A k \in 1..m : longer[k] = entries[k],
           longer[m + 1].op = rcpts[n + 1].field, rcpts[n + 1].parses
    PROVE  Addressed(longer, m + 1, rcpts, n + 1)
<1>1. PICK to \in [2..m -> 1..n] :
          /\ \A d, e \in 2..m : d < e => to[d] < to[e]
          /\ {to[d] : d \in 2..m} = {p \in 1..n : rcpts[p].parses}
          /\ \A d \in 2..m : entries[d].op = rcpts[to[d]].field
    BY DEF Addressed
<1> DEFINE far == [d \in 2..(m + 1) |-> IF d = m + 1 THEN n + 1 ELSE to[d]]
<1>2. /\ 2..(m + 1) = (2..m) \cup {m + 1} /\ 1..(n + 1) = (1..n) \cup {n + 1}
      /\ m + 1 \notin 2..m /\ n + 1 \notin 1..n /\ 2..m \subseteq 1..m
    OBVIOUS
<1>3. /\ \A d \in 2..m : far[d] = to[d] /\ to[d] \in 1..n
      /\ far[m + 1] = n + 1
    BY <1>1, <1>2
<1>4. far \in [2..(m + 1) -> 1..(n + 1)]
    BY <1>1, <1>2
<1> HIDE DEF far
<1>5. ASSUME NEW d \in 2..(m + 1), NEW e \in 2..(m + 1), d < e
      PROVE  far[d] < far[e]
    <2>1. d \in 2..m
        BY <1>5
    <2>2. CASE e \in 2..m
        BY <1>1, <1>3, <1>5, <2>1, <2>2
    <2>3. CASE e = m + 1
        <3>1. far[e] = n + 1 /\ far[d] \in 1..n
            BY <1>3, <2>1, <2>3
        <3> QED
            BY <3>1
    <2> QED
        BY <1>2, <2>2, <2>3
<1>6. {far[d] : d \in 2..(m + 1)} = {to[d] : d \in 2..m} \cup {n + 1}
    BY <1>2, <1>3
<1>7. {p \in 1..(n + 1) : rcpts[p].parses} = {p \in 1..n : rcpts[p].parses} \cup {n + 1}
    BY <1>2
<1>8. ASSUME NEW d \in 2..(m + 1)
      PROVE  longer[d].op = rcpts[far[d]].field
    <2>1. CASE d \in 2..m
        <3>1. longer[d] = entries[d] /\ far[d] = to[d]
            BY <1>2, <1>3, <2>1
        <3> QED
            BY <1>1, <2>1, <3>1
    <2>2. CASE d = m + 1
        BY <1>3, <2>2
    <2> QED
        BY <1>2, <2>1, <2>2
<1> QED
    BY <1>1, <1>4, <1>5, <1>6, <1>7, <1>8 DEF Addressed

\* An entry that follows changes nothing about those before.
LEMMA AddressedBefore ==
    ASSUME NEW entries, NEW longer, NEW rcpts, NEW m \in Nat, NEW n,
           Addressed(entries, m, rcpts, n), \A k \in 1..m : longer[k] = entries[k]
    PROVE  Addressed(longer, m, rcpts, n)
<1>1. 2..m \subseteq 1..m
    OBVIOUS
<1> QED
    BY <1>1 DEF Addressed

\* messageInfoLogs at each place of the loop: "mail", and an entry for each of
\* the recipients done that parse; the item is about to have them all.
LogsInv ==
    /\ pc = "mail" => logs = <<>>
    /\ pc = "compose" => Len(logs) = 1 /\ logs[1].op = "mail"
    /\ pc \in {"rcpt", "dataMessage"} =>
           /\ Len(logs) > 0 /\ logs[1].op = "mail"
           /\ Addressed(logs, Len(logs), Item.rcpts, rcptPos)
    /\ pc = "dataMessage" => rcptPos = Len(Item.rcpts)
    /\ pc = "attach" => Complete(logs, ret = "ok", Item.rcpts, i + 1 \in begun)
    /\ DetailsAreComplete

\* The server accepts DATA for the message at work, and for none after it.
BegunInv ==
    /\ \A m \in begun :
           m <= IF pc \in {"dataMessage", "attach", "reset", "done"} THEN i + 1 ELSE i
    /\ pc = "dataMessage" => i + 1 \in begun

LEMMA StepBegun == LoopInv /\ BegunInv /\ [Next]_vars => BegunInv'
<1> SUFFICES ASSUME LoopInv, BegunInv, [Next]_vars PROVE BegunInv'
    OBVIOUS
<1>0. i \in Nat /\ begun \in SUBSET Nat
    BY DEF LoopInv, SendTypeOK
<1> USE DEF BegunInv
<1>1. CASE SessionPhase
    BY <1>1, SessionStepFrame DEF SessionPhase, SessionPc
<1>2. CASE NextMessage \/ AllDone \/ Mail \/ Compose \/ Rcpt
    BY <1>2 DEF NextMessage, AllDone, Mail, Compose, Rcpt
<1>3. CASE StartData
    <2>1. PICK r \in Codes : /\ begun' = IF r = "ok" THEN begun \cup {i + 1} ELSE begun
                             /\ pc' = IF r = "ok" THEN "dataMessage" ELSE "attach"
        BY <1>3 DEF StartData
    <2>2. pc = "rcpt" /\ i' = i
        BY <1>3 DEF StartData
    <2> QED
        BY <1>0, <2>1, <2>2
<1>4. CASE SendText \/ Attach \/ FreeSession \/ Render \/ Throw
    <2>1. /\ UNCHANGED <<i, begun>> /\ pc' # "dataMessage"
          /\ pc' \in {"attach", "reset", "done"} \/ pc = "free"
        BY <1>4 DEF SendText, Attach, FreeSession, Render, Throw
    <2>2. \A m \in begun : m <= i => m <= i + 1
        BY <1>0
    <2> QED
        BY <2>1, <2>2
<1>5. CASE ResetAfter \/ Discard
    <2>1. i' = i + 1 /\ pc' = "next" /\ begun' = begun
        BY <1>5 DEF ResetAfter, Discard, NextIndex
    <2> QED
        BY <1>0, <2>1
<1>6. CASE Logging \/ Finished \/ UNCHANGED vars
    BY <1>6, LoggingFrame DEF Finished
<1> QED
    BY <1>1, <1>2, <1>3, <1>4, <1>5, <1>6 DEF Next, MessageStep

\* The result and the logs are left alone outside the loop's body.
LEMMA QuietLogs ==
    ASSUME LogsInv, UNCHANGED <<messageInfo, mimes, begun>>,
           pc' \notin {"mail", "compose", "rcpt", "dataMessage", "attach"}
    PROVE  LogsInv'
BY DEF LogsInv, DetailsAreComplete

\* An entry that is added to the logs.
LEMMA LogsGrow ==
    ASSUME LoopInv, NEW op \in Fields \cup {"mail", "data"}, NEW r \in Codes,
           logs' = Append(logs, Entry(op, r))
    PROVE  /\ Len(logs) \in Nat /\ Len(logs') = Len(logs) + 1
           /\ \A k \in 1..Len(logs) : logs'[k] = logs[k]
           /\ logs'[Len(logs) + 1].op = op /\ logs'[Len(logs) + 1].code = r
<1> DEFINE e == Entry(op, r)
<1>1. e \in Entries /\ e.op = op /\ e.code = r
    BY DEF Entry, Entries
<1>2. logs \in Seq(Entries) /\ logs' = Append(logs, e)
    BY DEF LoopInv, SendTypeOK
<1> HIDE DEF e
<1> QED
    BY <1>1, <1>2, AppendProperties, LenProperties

LEMMA StepLogs ==
    LoopInv /\ OrderInv /\ BegunInv /\ LogsInv /\ [Next]_vars => LogsInv'
<1> SUFFICES ASSUME LoopInv, OrderInv, BegunInv, LogsInv, [Next]_vars PROVE LogsInv'
    OBVIOUS
<1>1. CASE SessionPhase
    BY <1>1, SessionStepFrame, QuietLogs DEF SessionPhase, SessionPc
<1>2. CASE NextMessage
    BY <1>2 DEF NextMessage, FreshLogs, LogsInv, DetailsAreComplete
<1>3. CASE AllDone \/ ResetAfter \/ Discard \/ FreeSession \/ Render \/ Throw
    <2>1. /\ UNCHANGED <<messageInfo, mimes, begun>>
          /\ pc' \notin {"mail", "compose", "rcpt", "dataMessage", "attach"}
        BY <1>3 DEF AllDone, ResetAfter, Discard, FreeSession, Render, Throw
    <2> QED
        BY <2>1, QuietLogs
<1>4. CASE Mail
    <2>1. PICK r \in Codes : /\ logs' = Append(logs, Entry("mail", r))
                             /\ pc' = IF r = "ok" THEN "compose" ELSE "discard"
        BY <1>4 DEF Mail
    <2>2. pc = "mail" /\ UNCHANGED <<messageInfo, mimes, begun>>
        BY <1>4 DEF Mail
    <2>3. Len(logs) = 0
        BY <2>2, EmptySeq DEF LogsInv
    <2>4. Len(logs') = 1 /\ logs'[1].op = "mail"
        <3>1. "mail" \in Fields \cup {"mail", "data"}
            OBVIOUS
        <3>2. Len(logs') = Len(logs) + 1 /\ logs'[Len(logs) + 1].op = "mail"
            BY <2>1, <3>1, LogsGrow
        <3> QED
            BY <2>3, <3>2
    <2> QED
        BY <2>1, <2>2, <2>4 DEF LogsInv, DetailsAreComplete
<1>5. CASE Compose
    <2>1. pc = "compose" /\ UNCHANGED <<messageInfo, mimes, i, logs, begun>>
        BY <1>5 DEF Compose
    <2>2. CASE Item.object
        <3>1. rcptPos' = 0 /\ pc' = "rcpt"
            BY <1>5, <2>2 DEF Compose
        <3>2. Addressed(logs, 1, Item.rcpts, 0)
            BY AddressedNone
        <3>3. Len(logs) = 1 /\ logs[1].op = "mail"
            BY <2>1 DEF LogsInv
        <3>4. Addressed(logs, Len(logs), Item.rcpts, rcptPos)'
            <4>1. Addressed(logs', Len(logs'), mimes'[i' + 1].rcpts, rcptPos')
                BY <2>1, <3>1, <3>2, <3>3 DEF Item
            <4> QED
                BY <4>1 DEF Item, Addressed
        <3>5. DetailsAreComplete'
            BY <2>1 DEF LogsInv, DetailsAreComplete
        <3> QED
            BY <2>1, <3>1, <3>3, <3>4, <3>5 DEF LogsInv
    <2>3. CASE ~Item.object
        BY <1>5, <2>1, <2>3, QuietLogs DEF Compose
    <2> QED
        BY <2>2, <2>3
<1>6. CASE Rcpt
    <2> DEFINE rcpt == Item.rcpts[rcptPos + 1]
    <2>1. /\ pc = "rcpt" /\ pc' = "rcpt" /\ rcptPos' = rcptPos + 1
          /\ UNCHANGED <<messageInfo, mimes, i, begun>> /\ rcptPos < Len(Item.rcpts)
        BY <1>6 DEF Rcpt
    <2>2. /\ Len(logs) > 0 /\ logs[1].op = "mail" /\ rcptPos \in Nat
          /\ Addressed(logs, Len(logs), Item.rcpts, rcptPos) /\ Len(logs) \in Nat
        BY <2>1, LenProperties DEF LogsInv, LoopInv, SendTypeOK
    <2>3. ASSUME NEW r \in Codes, rcpt.parses, logs' = Append(logs, Entry(rcpt.field, r))
          PROVE  LogsInv'
        <3>1. rcpt.field \in Fields \cup {"mail", "data"}
            <4>1. Item.rcpts \in Seq([field : Fields, parses : BOOLEAN])
                BY <2>1, ElementsAreElements DEF LoopInv, SendTypeOK, BodyPc, Element
            <4>2. rcptPos + 1 \in 1..Len(Item.rcpts)
                BY <2>1, <2>2, <4>1, LenProperties
            <4>3. rcpt \in [field : Fields, parses : BOOLEAN]
                BY <4>1, <4>2, ElementOfSeq
            <4> QED
                BY <4>3
        <3>2. /\ Len(logs') = Len(logs) + 1 /\ \A k \in 1..Len(logs) : logs'[k] = logs[k]
              /\ logs'[Len(logs) + 1].op = rcpt.field
            BY <2>3, <3>1, LogsGrow
        <3>3. Addressed(logs', Len(logs) + 1, Item.rcpts, rcptPos + 1)
            <4> DEFINE to == Item.rcpts
                       n  == Len(logs)
            <4>1. n \in Nat \ {0} /\ Addressed(logs, n, to, rcptPos) /\ rcptPos \in Nat
                BY <2>2
            <4>2. /\ \A k \in 1..n : logs'[k] = logs[k]
                  /\ logs'[n + 1].op = to[rcptPos + 1].field /\ to[rcptPos + 1].parses
                BY <2>3, <3>2
            <4> HIDE DEF to, n
            <4>3. Addressed(logs', n + 1, to, rcptPos + 1)
                BY <4>1, <4>2, AddressedOne
            <4> QED
                BY <4>3 DEF to, n
        <3>4. Len(logs') > 0 /\ logs'[1].op = "mail"
            BY <2>2, <3>2
        <3> QED
            BY <2>1, <3>2, <3>3, <3>4 DEF LogsInv, DetailsAreComplete, Item
    <2>4. ASSUME ~rcpt.parses, UNCHANGED logs
          PROVE  LogsInv'
        <3>1. Addressed(logs, Len(logs), Item.rcpts, rcptPos + 1)
            BY <2>2, <2>4, AddressedSkip
        <3> QED
            BY <2>1, <2>2, <2>4, <3>1 DEF LogsInv, DetailsAreComplete, Item
    <2> QED
        BY <1>6, <2>3, <2>4 DEF Rcpt
<1>7. CASE StartData
    <2>1. PICK r \in Codes : /\ ret' = r
                             /\ begun' = IF r = "ok" THEN begun \cup {i + 1} ELSE begun
                             /\ pc' = IF r = "ok" THEN "dataMessage" ELSE "attach"
        BY <1>7 DEF StartData, RetAfterData
    <2>2. /\ pc = "rcpt" /\ rcptPos = Len(Item.rcpts)
          /\ UNCHANGED <<messageInfo, mimes, i, rcptPos, logs>>
        BY <1>7 DEF StartData
    <2>3. /\ Len(logs) > 0 /\ logs[1].op = "mail"
          /\ Addressed(logs, Len(logs), Item.rcpts, rcptPos)
        BY <2>2 DEF LogsInv
    <2>4. CASE r = "ok"
        <3>1. ASSUME NEW k \in DOMAIN messageInfo
              PROVE  messageInfo[k].msg \in begun' <=> messageInfo[k].msg \in begun
            <4>1. messageInfo[k].msg \in Nat /\ i \in Nat /\ messageInfo[k].msg <= i
                BY <2>2, Numbered DEF OrderInv
            <4>2. messageInfo[k].msg # i + 1
                BY <4>1
            <4> QED
                BY <2>1, <2>4, <4>2
        <3>2. DetailsAreComplete'
            <4> SUFFICES ASSUME NEW k \in DOMAIN messageInfo'
                         PROVE  Complete(messageInfo[k].details, messageInfo[k].success,
                                         mimes[messageInfo[k].msg].rcpts,
                                         messageInfo[k].msg \in begun)'
                BY DEF DetailsAreComplete
            <4>1. k \in DOMAIN messageInfo
                BY <2>2
            <4>2. Complete(messageInfo[k].details, messageInfo[k].success,
                           mimes[messageInfo[k].msg].rcpts, messageInfo[k].msg \in begun)
                BY <4>1 DEF LogsInv, DetailsAreComplete
            <4>3. Complete(messageInfo[k].details, messageInfo[k].success,
                           mimes[messageInfo[k].msg].rcpts, messageInfo[k].msg \in begun')
                BY <3>1, <4>1, <4>2 DEF Complete
            <4>4. Complete(messageInfo'[k].details, messageInfo'[k].success,
                           mimes'[messageInfo'[k].msg].rcpts, messageInfo'[k].msg \in begun')
                BY <2>2, <4>3
            <4> QED
                BY <4>4 DEF Complete, Addressed
        <3> QED
            BY <2>1, <2>2, <2>3, <2>4, <3>2 DEF LogsInv, Item
    <2>5. CASE r # "ok"
        <3>1. i + 1 \notin begun /\ begun' = begun
            <4>1. i \in Nat /\ \A m \in begun : m \in Nat /\ m <= i
                BY <2>2 DEF BegunInv, LoopInv, SendTypeOK
            <4> QED
                BY <2>1, <2>5, <4>1
        <3>2. Complete(logs, ret' = "ok", Item.rcpts, i + 1 \in begun)
            BY <2>1, <2>2, <2>3, <2>5, <3>1 DEF Complete
        <3>3. Complete(logs, ret = "ok", Item.rcpts, i + 1 \in begun)'
            BY <2>2, <3>1, <3>2 DEF Item, Complete, Addressed
        <3> QED
            BY <2>1, <2>2, <2>5, <3>1, <3>3 DEF LogsInv, DetailsAreComplete
    <2> QED
        BY <2>4, <2>5
<1>8. CASE SendText
    <2>1. PICK r \in Codes : ret' = r /\ logs' = Append(logs, Entry("data", r))
        BY <1>8 DEF SendText
    <2>2. /\ pc = "dataMessage" /\ pc' = "attach"
          /\ UNCHANGED <<messageInfo, mimes, i, rcptPos, begun>>
        BY <1>8 DEF SendText
    <2>3. /\ Len(logs) > 0 /\ logs[1].op = "mail"
          /\ Addressed(logs, Len(logs), Item.rcpts, Len(Item.rcpts))
        BY <2>2 DEF LogsInv
    <2>4. "data" \in Fields \cup {"mail", "data"}
        OBVIOUS
    <2>5. /\ Len(logs) \in Nat /\ Len(logs') = Len(logs) + 1
          /\ \A k \in 1..Len(logs) : logs'[k] = logs[k]
          /\ logs'[Len(logs) + 1].op = "data" /\ logs'[Len(logs) + 1].code = r
        BY <2>1, <2>4, LogsGrow
    <2>6. Addressed(logs', Len(logs), Item.rcpts, Len(Item.rcpts))
        BY <2>3, <2>5, AddressedBefore
    <2>7. /\ Len(logs') > 1 /\ Len(logs') - 1 = Len(logs) /\ logs'[1].op = "mail"
        BY <2>3, <2>5
    <2>8. Complete(logs', ret' = "ok", Item.rcpts, i + 1 \in begun)
        BY <2>1, <2>2, <2>5, <2>6, <2>7 DEF Complete, BegunInv
    <2>9. Complete(logs, ret = "ok", Item.rcpts, i + 1 \in begun)'
        BY <2>2, <2>8 DEF Item, Complete, Addressed
    <2> QED
        BY <2>2, <2>9 DEF LogsInv, DetailsAreComplete
<1>9. CASE Attach
    <2> DEFINE item == [msg |-> i + 1, success |-> ret = "ok", details |-> logs]
    <2>1. /\ messageInfo \in Seq(Items) /\ i \in Nat /\ logs \in Seq(Entries)
        BY DEF LoopInv, SendTypeOK
    <2>2. item \in Items /\ item.msg = i + 1 /\ item.success = (ret = "ok") /\ item.details = logs
        BY <2>1 DEF Items
    <2>3. /\ pc = "attach" /\ pc' = "reset" /\ UNCHANGED <<mimes, begun>>
          /\ messageInfo' = Append(messageInfo, item)
        BY <1>9 DEF Attach, WithItem
    <2> HIDE DEF item
    <2>4. /\ DOMAIN messageInfo = 1..Len(messageInfo) /\ Len(messageInfo) \in Nat
          /\ DOMAIN messageInfo' = 1..(Len(messageInfo) + 1)
          /\ \A k \in 1..Len(messageInfo) : messageInfo'[k] = messageInfo[k]
          /\ messageInfo'[Len(messageInfo) + 1] = item
        BY <2>1, <2>2, <2>3, OneMore
    <2>5. Complete(item.details, item.success, mimes[item.msg].rcpts, item.msg \in begun)
        BY <2>2, <2>3 DEF LogsInv, Item
    <2>6. ASSUME NEW k \in DOMAIN messageInfo'
          PROVE  Complete(messageInfo'[k].details, messageInfo'[k].success,
                          mimes[messageInfo'[k].msg].rcpts, messageInfo'[k].msg \in begun)
        <3>1. CASE k \in 1..Len(messageInfo)
            BY <2>4, <3>1 DEF LogsInv, DetailsAreComplete
        <3>2. CASE k = Len(messageInfo) + 1
            BY <2>4, <2>5, <3>2
        <3> QED
            BY <2>4, <3>1, <3>2
    <2>7. DetailsAreComplete'
        <3> SUFFICES ASSUME NEW k \in DOMAIN messageInfo'
                     PROVE  Complete(messageInfo[k].details, messageInfo[k].success,
                                     mimes[messageInfo[k].msg].rcpts,
                                     messageInfo[k].msg \in begun)'
            BY DEF DetailsAreComplete
        <3>1. Complete(messageInfo'[k].details, messageInfo'[k].success,
                       mimes'[messageInfo'[k].msg].rcpts, messageInfo'[k].msg \in begun')
            BY <2>3, <2>6
        <3> QED
            BY <3>1 DEF Complete, Addressed
    <2> QED
        BY <2>3, <2>7 DEF LogsInv
<1>10. CASE Logging \/ Finished \/ UNCHANGED vars
    <2>1. UNCHANGED <<pc, ret, mimes, i, rcptPos, logs, begun, messageInfo>>
        BY <1>10, LoggingFrame DEF Finished
    <2>2. DetailsAreComplete'
        BY <2>1 DEF LogsInv, DetailsAreComplete
    <2>3. (pc = "attach" => Complete(logs, ret = "ok", Item.rcpts, i + 1 \in begun))'
        <3>1. pc = "attach" => Complete(logs, ret = "ok", Item.rcpts, i + 1 \in begun)
            BY DEF LogsInv
        <3>2. pc' = "attach" =>
                  Complete(logs', ret' = "ok", mimes'[i' + 1].rcpts, i' + 1 \in begun')
            BY <2>1, <3>1 DEF Item
        <3> QED
            BY <3>2 DEF Item, Complete, Addressed
    <2>4. (pc \in {"rcpt", "dataMessage"} =>
              /\ Len(logs) > 0 /\ logs[1].op = "mail"
              /\ Addressed(logs, Len(logs), Item.rcpts, rcptPos))'
        BY <2>1 DEF LogsInv, Item, Addressed
    <2> QED
        BY <2>1, <2>2, <2>3, <2>4 DEF LogsInv, Item
<1> QED
    BY <1>1, <1>2, <1>3, <1>4, <1>5, <1>6, <1>7, <1>8, <1>9, <1>10 DEF Next, MessageStep

\* The details of a message have an entry for MAIL FROM, one for each recipient
\* that parses and, exactly when DATA was accepted, one for the text, whose
\* code is the success reported; when it was not, the message is reported as a
\* failure.  So it is for messages of any number of recipients.
THEOREM DetailsComplete == Spec => []DetailsAreComplete
<1>1. Init => BegunInv /\ LogsInv
    BY DEF Init, SessionInit, BegunInv, LogsInv, DetailsAreComplete
<1>2. LogsInv => DetailsAreComplete
    BY DEF LogsInv
<1> QED
    BY <1>1, <1>2, InitLoopInv, StepLoopInv, InitReport, StepReport, StepBegun, StepLogs,
       PTL DEF Spec

-----------------------------------------------------------------------------

LEMMA PlaceOf == \A k \in 1..23 : Place[Places[k]] = k
<1>1. DOMAIN Places = 1..23
    BY DEF Places
<1>2. ASSUME NEW j \in 1..23, NEW k \in 1..23, Places[j] = Places[k] PROVE j = k
    BY <1>2 DEF Places
<1> QED
    <2> TAKE k \in 1..23
    <2>1. Place[Places[k]] = CHOOSE j \in 1..23 : Places[j] = Places[k]
        BY <1>1 DEF Place
    <2> QED
        BY <1>2, <2>1

\* The place of each value of pc.
LEMMA PlaceValues ==
    /\ Place["done"] = 1 /\ Place["render"] = 2 /\ Place["free"] = 3
    /\ Place["discard"] = 4 /\ Place["reset"] = 5 /\ Place["attach"] = 6
    /\ Place["dataMessage"] = 7 /\ Place["rcpt"] = 8 /\ Place["compose"] = 9
    /\ Place["mail"] = 10 /\ Place["next"] = 11 /\ Place["authDone"] = 12
    /\ Place["autoTry"] = 13 /\ Place["auto"] = 14 /\ Place["auth"] = 15
    /\ Place["login"] = 16 /\ Place["helo"] = 17 /\ Place["tlsEhlo"] = 18
    /\ Place["starttls"] = 19 /\ Place["ehlo"] = 20 /\ Place["connect"] = 21
    /\ Place["new"] = 22 /\ Place["parse"] = 23
BY PlaceOf DEF Places

\* The three ways to come before another triple.
LEMMA LessTriple ==
    ASSUME NEW a \in Int, NEW b \in Int, NEW c \in Int,
           NEW x \in Int, NEW y \in Int, NEW z \in Int,
           a < x \/ (a = x /\ b < y) \/ (a = x /\ b = y /\ c < z)
    PROVE  Less(<<a, b, c>>, <<x, y, z>>)
<1> DEFINE l == <<a, b, c>>
           r == <<x, y, z>>
<1>1. l[1] = a /\ l[2] = b /\ l[3] = c /\ r[1] = x /\ r[2] = y /\ r[3] = z
    OBVIOUS
<1> HIDE DEF l, r
<1> SUFFICES Less(l, r)
    BY DEF l, r
<1>2. CASE a < x
    BY <1>1, <1>2 DEF Less
<1>3. CASE a = x /\ b < y
    <2>1. l[2] < r[2] /\ \A j \in 1..(2 - 1) : l[j] = r[j]
        BY <1>1, <1>3
    <2> QED
        BY <2>1 DEF Less
<1>4. CASE a = x /\ b = y /\ c < z
    <2>1. l[3] < r[3] /\ \A j \in 1..(3 - 1) : l[j] = r[j]
        BY <1>1, <1>4
    <2> QED
        BY <2>1 DEF Less
<1> QED
    BY <1>2, <1>3, <1>4

AllPc == SessionPc \cup BodyPc \cup {"next", "free", "render", "done"}

\* What keeps the three parts of Ahead from falling below 0.
AheadInv ==
    /\ pc \in AllPc
    /\ i <= Len(mimes)
    /\ attempt \in 0..Len(AutoOrder)
    /\ pc = "rcpt" => rcptPos <= Len(Item.rcpts)

Rounds == CASE pc = "autoTry" -> Len(AutoOrder) - attempt
            [] pc = "rcpt"    -> Len(Item.rcpts) - rcptPos
            [] OTHER          -> 0

\* So each of the three is a natural number.
AheadNatural ==
    /\ Ahead = <<Len(mimes) - i, Place[pc], Rounds>>
    /\ Len(mimes) - i \in Nat
    /\ Place[pc] \in Nat
    /\ Rounds \in Nat

LEMMA AheadIsNatural == LoopInv /\ AheadInv => AheadNatural
<1> SUFFICES ASSUME LoopInv, AheadInv PROVE AheadNatural
    OBVIOUS
<1> USE DEF LoopInv, AheadInv
<1>1. Ahead = <<Len(mimes) - i, Place[pc], Rounds>>
    BY DEF Ahead, Rounds
<1>2. mimes \in Seq(Elements) /\ i \in Nat /\ rcptPos \in Nat /\ Len(mimes) \in Nat
    BY LenProperties DEF SendTypeOK
<1>3. Place[pc] \in Nat
    <2>1. AllPc \subseteq {Places[k] : k \in 1..23}
        BY DEF AllPc, SessionPc, BodyPc, Places
    <2>2. PICK k \in 1..23 : pc = Places[k]
        BY <2>1
    <2>3. Place[pc] = k
        BY <2>2, PlaceOf
    <2> QED
        BY <2>3
<1>4. Rounds \in Nat
    <2>1. CASE pc = "autoTry"
        <3>1. Len(AutoOrder) = 4
            BY DEF AutoOrder
        <3> QED
            BY <2>1, <3>1 DEF Rounds
    <2>2. CASE pc = "rcpt"
        <3>1. Item.rcpts \in Seq([field : Fields, parses : BOOLEAN])
            BY <1>2, <2>2, ElementsAreElements DEF BodyPc, Element
        <3>2. Len(Item.rcpts) \in Nat
            BY <3>1, LenProperties
        <3> QED
            BY <1>2, <2>2, <3>2 DEF Rounds
    <2> QED
        BY <2>1, <2>2 DEF Rounds
<1> QED
    BY <1>1, <1>2, <1>3, <1>4 DEF AheadNatural

\* The steps of the session go down the list, but for AUTO's attempts.
LEMMA SessionStepAdvances ==
    SessionStep /\ attempt \in 0..Len(AutoOrder) =>
        /\ attempt' \in 0..Len(AutoOrder)
        /\ \/ Place[pc'] < Place[pc]
           \/ pc = "autoTry" /\ pc' = "autoTry" /\ attempt < attempt'
<1> SUFFICES ASSUME SessionStep, attempt \in 0..Len(AutoOrder)
             PROVE  /\ attempt' \in 0..Len(AutoOrder)
                    /\ \/ Place[pc'] < Place[pc]
                       \/ pc = "autoTry" /\ pc' = "autoTry" /\ attempt < attempt'
    OBVIOUS
<1>1. CASE ReadInvalid \/ ReadParams \/ NewSession
    <2>1. attempt' = attempt
        BY <1>1 DEF ReadInvalid, ReadParams, NewSession
    <2>2. \/ pc = "parse" /\ pc' \in {"render", "new"}
          \/ pc = "new" /\ pc' \in {"connect", "render"}
        BY <1>1 DEF ReadInvalid, ReadParams, NewSession
    <2> QED
        BY <2>1, <2>2, PlaceValues
<1>2. CASE Connect \/ SwitchToTls
    <2>1. attempt' = attempt
        BY <1>2 DEF Connect, SwitchToTls
    <2>2. \/ pc = "connect" /\ pc' \in {"ehlo", "login"}
          \/ pc = "starttls" /\ pc' \in {"tlsEhlo", "login"}
        BY <1>2 DEF Connect, SwitchToTls
    <2> QED
        BY <2>1, <2>2, PlaceValues
<1>3. CASE Ehlo1 \/ TlsEhlo \/ SayHelo
    <2>1. attempt' = attempt
        BY <1>3 DEF Ehlo1, TlsEhlo, SayHelo
    <2>2. \/ pc = "ehlo" /\ pc' \in {"starttls", "helo", "login"}
          \/ pc = "tlsEhlo" /\ pc' \in {"helo", "login"}
          \/ pc = "helo" /\ pc' = "login"
        BY <1>3 DEF Ehlo1, TlsEhlo, SayHelo
    <2>3. Place[pc'] < Place[pc]
        <3>1. CASE pc = "ehlo"
            BY <2>2, <3>1, PlaceValues
        <3>2. CASE pc # "ehlo"
            BY <2>2, <3>2, PlaceValues
        <3> QED
            BY <3>1, <3>2
    <2> QED
        BY <2>1, <2>3
<1>4. CASE ResultLogin \/ AuthSingle \/ AuthAuto
    <2>1. attempt' = attempt
        BY <1>4 DEF ResultLogin, AuthSingle, AuthAuto
    <2>2. \/ pc = "login" /\ pc' \in {"authDone", "auto", "auth"}
          \/ pc = "auth" /\ pc' = "authDone"
          \/ pc = "auto" /\ pc' \in {"authDone", "autoTry"}
        BY <1>4 DEF ResultLogin, AuthSingle, AuthAuto
    <2> QED
        BY <2>1, <2>2, PlaceValues
<1>5. CASE AuthTry
    <2>1. PICK k \in ToTry : attempt' = k
        BY <1>5 DEF AuthTry
    <2>2. attempt' \in 0..Len(AutoOrder) /\ attempt < attempt'
        <3>1. Len(AutoOrder) = 4
            BY DEF AutoOrder
        <3>2. k \in (attempt + 1)..Len(AutoOrder)
            BY DEF ToTry
        <3> QED
            BY <2>1, <3>1, <3>2
    <2>3. pc = "autoTry" /\ pc' \in {"authDone", "autoTry"}
        BY <1>5 DEF AuthTry, AfterTry
    <2> QED
        BY <2>2, <2>3, PlaceValues
<1>6. CASE AuthGiveUp \/ ResultAuth
    <2>1. attempt' = attempt
        BY <1>6 DEF AuthGiveUp, ResultAuth
    <2>2. \/ pc = "autoTry" /\ pc' = "authDone"
          \/ pc = "authDone" /\ pc' \in {"next", "free"}
        BY <1>6 DEF AuthGiveUp, ResultAuth, AfterSession
    <2> QED
        BY <2>1, <2>2, PlaceValues
<1> QED
    BY <1>1, <1>2, <1>3, <1>4, <1>5, <1>6 DEF SessionStep


\* A step of the loop goes down the list, or ends an element, or is done with
\* one more recipient.
LEMMA MessageStepAdvances ==
    LoopInv /\ (MessageStep \/ Throw) /\ pc \in AllPc =>
        /\ UNCHANGED <<mimes, attempt>>
        /\ \/ i' = i /\ Place[pc'] < Place[pc]
           \/ pc \in BodyPc /\ i' = i + 1 /\ pc' = "next"
           \/ pc = "rcpt" /\ UNCHANGED <<i, pc>> /\ rcptPos' = rcptPos + 1
              /\ rcptPos < Len(Item.rcpts)
<1> SUFFICES ASSUME LoopInv, MessageStep \/ Throw, pc \in AllPc
             PROVE  /\ UNCHANGED <<mimes, attempt>>
                    /\ \/ i' = i /\ Place[pc'] < Place[pc]
                       \/ pc \in BodyPc /\ i' = i + 1 /\ pc' = "next"
                       \/ pc = "rcpt" /\ UNCHANGED <<i, pc>> /\ rcptPos' = rcptPos + 1
                          /\ rcptPos < Len(Item.rcpts)
    OBVIOUS
<1>1. CASE NextMessage \/ AllDone \/ Mail
    <2>1. UNCHANGED <<mimes, attempt, i>>
        BY <1>1 DEF NextMessage, AllDone, Mail
    <2>2. \/ pc = "next" /\ pc' \in {"mail", "free"}
          \/ pc = "mail" /\ pc' \in {"compose", "discard"}
        BY <1>1 DEF NextMessage, AllDone, Mail
    <2> QED
        BY <2>1, <2>2, PlaceValues
<1>2. CASE Compose \/ StartData \/ SendText
    <2>1. UNCHANGED <<mimes, attempt, i>>
        BY <1>2 DEF Compose, StartData, SendText
    <2>2. \/ pc = "compose" /\ pc' \in {"rcpt", "discard"}
          \/ pc = "rcpt" /\ pc' \in {"dataMessage", "attach"}
          \/ pc = "dataMessage" /\ pc' = "attach"
        BY <1>2 DEF Compose, StartData, SendText
    <2>3. Place[pc'] < Place[pc]
        <3>1. CASE pc = "compose"
            BY <2>2, <3>1, PlaceValues
        <3>2. CASE pc # "compose"
            BY <2>2, <3>2, PlaceValues
        <3> QED
            BY <3>1, <3>2
    <2> QED
        BY <2>1, <2>3
<1>3. CASE Rcpt
    BY <1>3 DEF Rcpt
<1>4. CASE Attach \/ FreeSession \/ Render
    <2>1. UNCHANGED <<mimes, attempt, i>>
        BY <1>4 DEF Attach, FreeSession, Render
    <2>2. \/ pc = "attach" /\ pc' = "reset"
          \/ pc = "free" /\ pc' = "render"
          \/ pc = "render" /\ pc' = "done"
        BY <1>4 DEF Attach, FreeSession, Render
    <2> QED
        BY <2>1, <2>2, PlaceValues
<1>5. CASE ResetAfter \/ Discard
    BY <1>5 DEF ResetAfter, Discard, NextIndex, BodyPc
<1>6. CASE Throw
    <2>1. UNCHANGED <<mimes, attempt, i>> /\ pc # "done" /\ pc' = "done"
        BY <1>6 DEF Throw
    <2>2. AllPc \subseteq {Places[k] : k \in 1..23}
        BY DEF AllPc, SessionPc, BodyPc, Places
    <2>3. PICK k \in 1..23 : pc = Places[k]
        BY <2>2
    <2>4. k # 1
        BY <2>1, <2>3 DEF Places
    <2>5. Place[pc] = k /\ Place[pc'] = 1
        BY <2>1, <2>3, PlaceOf, PlaceValues
    <2> QED
        BY <2>1, <2>4, <2>5
<1> QED
    BY <1>1, <1>2, <1>3, <1>4, <1>5, <1>6 DEF MessageStep

LEMMA InitAhead == Init => AheadInv
BY LenProperties DEF Init, SessionInit, AheadInv, AllPc, SessionPc, AutoOrder

LEMMA StepAhead == LoopInv /\ AheadInv /\ [Next]_vars => AheadInv'
<1> SUFFICES ASSUME LoopInv, AheadInv, [Next]_vars PROVE AheadInv'
    OBVIOUS
<1> USE DEF AheadInv
<1>1. CASE SessionPhase
    <2>1. UNCHANGED <<mimes, i>> /\ attempt' \in 0..Len(AutoOrder)
        BY <1>1, SessionStepAdvances DEF SessionPhase
    <2>2. pc' \in SessionPc \cup {"next", "free", "render"}
        BY <1>1, SessionStepFrame DEF SessionPhase
    <2> QED
        BY <2>1, <2>2 DEF AllPc, SessionPc
<1>2. CASE MessageStep \/ Throw
    <2>1. UNCHANGED <<mimes, attempt>> /\ i' <= Len(mimes)
        <3>1. pc \in BodyPc => i + 1 <= Len(mimes)
            BY LenProperties DEF LoopInv, SendTypeOK
        <3> QED
            BY <1>2, <3>1, MessageStepAdvances
    <2>2. pc' \in AllPc /\ (pc' = "rcpt" => rcptPos' <= Len(Item.rcpts)')
        <3>1. CASE NextMessage \/ AllDone \/ Mail
            BY <3>1 DEF NextMessage, AllDone, Mail, AllPc, BodyPc
        <3>2. CASE Compose
            <4>1. i \in Nat /\ i < Len(mimes) /\ mimes \in Seq(Elements)
                BY <3>2 DEF Compose, LoopInv, SendTypeOK, BodyPc
            <4>2. Len(Item.rcpts) \in Nat
                BY <4>1, ElementsAreElements, LenProperties DEF Element
            <4>3. Item' = Item
                BY <3>2 DEF Compose, Item
            <4> QED
                BY <3>2, <4>2, <4>3 DEF Compose, AllPc, BodyPc
        <3>3. CASE Rcpt
            <4>1. i \in Nat /\ i < Len(mimes) /\ mimes \in Seq(Elements) /\ rcptPos \in Nat
                BY <3>3 DEF Rcpt, LoopInv, SendTypeOK, BodyPc
            <4>2. Len(Item.rcpts) \in Nat
                BY <4>1, ElementsAreElements, LenProperties DEF Element
            <4>3. Item' = Item /\ pc' = pc /\ rcptPos' = rcptPos + 1
                  /\ rcptPos < Len(Item.rcpts)
                BY <3>3 DEF Rcpt, Item
            <4> QED
                BY <4>1, <4>2, <4>3
        <3>4. CASE StartData \/ SendText \/ Attach
            BY <3>4 DEF StartData, SendText, Attach, AllPc, BodyPc
        <3>5. CASE ResetAfter \/ Discard \/ FreeSession \/ Render \/ Throw
            BY <3>5 DEF ResetAfter, Discard, FreeSession, Render, Throw, AllPc
        <3> QED
            BY <1>2, <3>1, <3>2, <3>3, <3>4, <3>5 DEF MessageStep
    <2> QED
        BY <2>1, <2>2
<1>3. CASE Logging
    BY <1>3, LoggingFrame DEF Item
<1>4. CASE Finished \/ UNCHANGED vars
    BY <1>4 DEF Finished, Item
<1> QED
    BY <1>1, <1>2, <1>3, <1>4 DEF Next

\* Whatever libetpan returns, every step of the command brings its end nearer,
\* and what the logger does in between sets nothing back.
THEOREM StepsAdvance == Spec => EveryStepAdvances
<1>1. ASSUME LoopInv, AheadInv, AheadNatural, AheadNatural', [Next]_vars
      PROVE  [Less(Ahead', Ahead)]_<<libVars, sessionVars, sendVars>>
    <2> DEFINE n == Len(mimes) - i
               p == Place[pc]
               c == Rounds
    <2>1. Ahead = <<n, p, c>> /\ n \in Nat /\ p \in Nat /\ c \in Nat
        BY <1>1 DEF AheadNatural
    <2>2. Ahead' = <<n', p', c'>> /\ n' \in Nat /\ p' \in Nat /\ c' \in Nat
        BY <1>1 DEF AheadNatural
    <2>3. i \in Nat /\ Len(mimes) \in Nat /\ rcptPos \in Nat
        BY <1>1, LenProperties DEF LoopInv, SendTypeOK
    <2>4. CASE SessionPhase
        <3>1. n' = n
            BY <2>4 DEF SessionPhase
        <3>2. p' < p \/ (p' = p /\ c' < c)
            <4>1. CASE Place[pc'] < Place[pc]
                BY <4>1
            <4>2. CASE pc = "autoTry" /\ pc' = "autoTry" /\ attempt < attempt'
                <5>1. attempt \in 0..4 /\ attempt' \in 0..4 /\ Len(AutoOrder) = 4
                    <6>1. Len(AutoOrder) = 4
                        BY DEF AutoOrder
                    <6> QED
                        BY <1>1, <2>4, <6>1, SessionStepAdvances DEF SessionPhase, AheadInv
                <5>2. Rounds = 4 - attempt /\ Rounds' = 4 - attempt'
                    BY <4>2, <5>1 DEF Rounds
                <5>3. 4 - attempt' < 4 - attempt
                    <6>1. \A a, b \in 0..4 : a < b => 4 - b < 4 - a
                        OBVIOUS
                    <6> QED
                        BY <4>2, <5>1, <6>1, Zenon
                <5>4. Rounds' < Rounds
                    BY <5>2, <5>3
                <5> QED
                    BY <4>2, <5>4
            <4> QED
                BY <1>1, <2>4, <4>1, <4>2, SessionStepAdvances DEF SessionPhase, AheadInv
        <3> HIDE DEF n, p, c
        <3> QED
            BY <2>1, <2>2, <3>1, <3>2, LessTriple
    <2>5. CASE MessageStep \/ Throw
        <3>1. n' < n \/ (n' = n /\ p' < p) \/ (n' = n /\ p' = p /\ c' < c)
            <4>1. CASE i' = i /\ mimes' = mimes /\ Place[pc'] < Place[pc]
                BY <4>1
            <4>2. CASE i' = i + 1 /\ mimes' = mimes
                BY <2>3, <4>2
            <4>3. CASE /\ pc = "rcpt" /\ UNCHANGED <<i, pc, mimes>>
                       /\ rcptPos' = rcptPos + 1 /\ rcptPos < Len(Item.rcpts)
                <5>1. Item' = Item
                    BY <4>3 DEF Item
                <5>2. Rounds = Len(Item.rcpts) - rcptPos
                      /\ Rounds' = Len(Item.rcpts) - (rcptPos + 1)
                    BY <4>3, <5>1 DEF Rounds
                <5>3. Len(Item.rcpts) \in Nat
                    BY <1>1, <4>3, ElementsAreElements, LenProperties
                       DEF LoopInv, SendTypeOK, BodyPc, Element
                <5> QED
                    BY <2>3, <4>3, <5>2, <5>3
            <4> QED
                BY <1>1, <2>5, <4>1, <4>2, <4>3, MessageStepAdvances DEF AheadInv
        <3> HIDE DEF n, p, c
        <3> QED
            BY <2>1, <2>2, <3>1, LessTriple
    <2>6. CASE Logging \/ Finished \/ UNCHANGED vars
        BY <2>6, LoggingFrame DEF Finished
    <2> QED
        BY <1>1, <2>4, <2>5, <2>6 DEF Next
<1>2. LoopInv /\ AheadInv => AheadNatural
    BY AheadIsNatural
<1> QED
    BY <1>1, <1>2, InitLoopInv, StepLoopInv, InitAhead, StepAhead, PTL
       DEF Spec, EveryStepAdvances


Triples == [1..3 -> Nat]

\* What is ahead is always three natural numbers, the first of them (the
\* elements not yet done) at most the length of the array.
THEOREM AheadIsTriple == Spec => [](Ahead \in Triples)
<1>1. LoopInv /\ AheadInv => Ahead \in Triples
    <2> SUFFICES ASSUME LoopInv, AheadInv PROVE Ahead \in Triples
        OBVIOUS
    <2> DEFINE n == Len(mimes) - i
               p == Place[pc]
               c == Rounds
    <2>1. Ahead = <<n, p, c>> /\ n \in Nat /\ p \in Nat /\ c \in Nat
        BY AheadIsNatural DEF AheadNatural
    <2> HIDE DEF n, p, c
    <2> QED
        BY <2>1 DEF Triples
<1> QED
    BY <1>1, InitLoopInv, StepLoopInv, InitAhead, StepAhead, PTL DEF Spec

\* And triples cannot go down forever: with StepsAdvance, the command takes
\* finitely many steps whatever the server does, so all that CommandReturns
\* needs of the network is that each of its calls returns.
THEOREM NoEndlessDescent ==
    ~ \E f \in [Nat -> Triples] : \A n \in Nat : Less(f[n + 1], f[n])
<1> DEFINE Smaller == {p \in Nat \X Nat : p[1] < p[2]}
<1>1. IsWellFoundedOn(Smaller, Nat)
    <2>1. OpToRel(<, Nat) = Smaller
        BY Zenon DEF OpToRel
    <2> QED
        BY <2>1, NatLessThanWellFounded
<1>2. IsWellFoundedOn(LexProductOrdering(Smaller, Nat, 3), Triples)
    <2> HIDE DEF Smaller
    <2>1. 3 \in Nat
        OBVIOUS
    <2> QED
        BY <1>1, <2>1, WFLexProductOrdering, Zenon DEF Triples
<1> SUFFICES ASSUME NEW f \in [Nat -> Triples], \A n \in Nat : Less(f[n + 1], f[n])
             PROVE  FALSE
    OBVIOUS
<1>3. ASSUME NEW n \in Nat
      PROVE  <<f[n + 1], f[n]>> \in LexProductOrdering(Smaller, Nat, 3)
    <2> DEFINE a == f[n + 1]
               b == f[n]
    <2>1. a \in Triples /\ b \in Triples
        OBVIOUS
    <2>2. PICK k \in 1..3 : a[k] < b[k] /\ \A j \in 1..(k - 1) : a[j] = b[j]
        BY DEF Less
    <2> HIDE DEF a, b
    <2>3. <<a[k], b[k]>> \in Smaller
        BY <2>1, <2>2 DEF Triples
    <2> HIDE DEF Smaller
    <2>4. <<a, b>> \in LexProductOrdering(Smaller, Nat, 3)
        BY <2>1, <2>2, <2>3 DEF LexProductOrdering, Triples
    <2> QED
        BY <2>4 DEF a, b
<1> QED
    BY <1>2, <1>3 DEF IsWellFoundedOn

=============================================================================
