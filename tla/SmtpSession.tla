---------------------------- MODULE SmtpSession ----------------------------
(***************************************************************************)
(* The session half of etpan_smtp_send (4DPlugin.cpp): read the parameters, *)
(* open a libetpan session, connect, greet, switch to TLS, authenticate and *)
(* write the three entries of session.details.  It leaves at "next" (send   *)
(* the messages), "free" (the session failed) or "render" (there was none). *)
(*                                                                         *)
(* pc names the libetpan call in progress: mail_logger can be called from   *)
(* inside it any number of times (Log) before it returns (the step).        *)
(***************************************************************************)
EXTENDS LibEtpan, MailLogger

CONSTANTS
    FlagItems,  \* what a 1/0 option of params may hold, see JsonItems
    AuthNames   \* what params.authentication may hold ("unset": no text, or "")

VARIABLES
    pc,
    params,          \* the options read from the params text
    ret,             \* the running return code
    esmtp,           \* use the mailesmtp_ calls?
    certError,       \* is certificate_error non-empty?
    trusted,         \* history: was this channel's certificate accepted?
    attempt,         \* AUTO: position in AutoOrder of the last mechanism tried
    sessionDetails,  \* sessionInfo.details
    session,         \* sessionInfo.success: "none" before result_auth
    owned            \* the cJSON trees the command has to delete or give away

sessionVars == <<pc, params, ret, esmtp, certError, trusted, attempt,
                 sessionDetails, session, owned>>

-----------------------------------------------------------------------------

JsonItems == {"absent", "zero", "nonzero", "true", "false", "other"}

ASSUME SessionConstants ==
    /\ FlagItems \subseteq JsonItems
    /\ FlagItems # {}
    /\ AuthNames # {}

\* As in release 1.0: Booleans were not looked at.
JsonFlag_NumbersOnly(item, default) ==
    IF item \in {"zero", "nonzero"} THEN item = "nonzero" ELSE default

\* json_flag: a number or a Boolean, anything else gives the default.
JsonFlag(item, default) ==
    IF item \in {"zero", "nonzero", "true", "false"}
    THEN item \in {"nonzero", "true"}
    ELSE default

Tls      == JsonFlag(params.tls, TRUE)
Insecure == JsonFlag(params.allowInsecure, FALSE)
Verify   == JsonFlag(params.verifyCertificate, TRUE)
Ssl      == ~Tls

Methods == {"DIGEST-MD5", "CRAM-MD5", "LOGIN", "PLAIN", "GMAIL", "OUTLOOK",
            "KERBEROS_V4", "GSSAPI", "SRP", "NTLM"}

\* The strcasecmp chain: what it does not know is AUTO.
AuthType == IF params.authentication \in Methods THEN params.authentication
                                                 ELSE "AUTO"

\* smtp_auth_auto tries the announced mechanisms, strongest first.
AutoOrder == <<"DIGEST-MD5", "CRAM-MD5", "LOGIN", "PLAIN">>

Detail(op, code, cert) == [op |-> op, code |-> code, cert |-> cert]

WithEntry_WhenOk(details, entry) ==
    IF entry.code = "ok" THEN Append(details, entry) ELSE details

\* result_connect, result_login, result_auth: an entry whatever the code.
WithEntry(details, entry) == Append(details, entry)

-----------------------------------------------------------------------------

NoParams == [tls |-> "absent", allowInsecure |-> "absent",
             verifyCertificate |-> "absent", authentication |-> "unset", user |-> FALSE]

SessionInit ==
    /\ stream = "none" /\ greeted = "none" /\ auth = {} /\ loggedIn = FALSE
    /\ txn = "none" /\ inbox = <<>>
    /\ index = 0 /\ authenticating = FALSE /\ callback \in BOOLEAN
    /\ dying = FALSE /\ heard = Nothing
    /\ pc = "parse" /\ params = NoParams /\ ret = "ok" /\ esmtp = FALSE
    /\ certError = FALSE /\ trusted = FALSE /\ attempt = 0
    /\ sessionDetails = <<>> /\ session = "none"
    /\ owned = {"result", "messageInfo", "sessionInfo"}

\* params or mimes is not JSON, or mimes is not an array: nothing is sent.
\* Whatever was parsed is deleted on the way to rendering the result.
ReadInvalid ==
    /\ pc = "parse"
    /\ pc' = "render"
    /\ UNCHANGED <<libVars, loggerVars, params, ret, esmtp, certError, trusted,
                   attempt, sessionDetails, session, owned>>

ReadParams ==
    /\ pc = "parse"
    /\ params' \in [tls : FlagItems, allowInsecure : FlagItems,
                    verifyCertificate : FlagItems,
                    authentication : AuthNames, user : BOOLEAN]
    /\ owned' = owned \cup {"params", "mimes", "sessionDetails"}
    /\ pc' = "new"
    /\ UNCHANGED <<libVars, loggerVars, ret, esmtp, certError, trusted, attempt,
                   sessionDetails, session>>

\* mailsmtp_new: without a session there is nothing to attach
\* sessionDetails to, and nobody deletes it.
NewSession ==
    /\ pc = "new"
    /\ \/ pc' = "connect" /\ owned' = owned
       \/ pc' = "render" /\ owned' = owned \ {"params", "mimes"}
    /\ UNCHANGED <<libVars, loggerVars, params, ret, esmtp, certError, trusted,
                   attempt, sessionDetails, session>>

-----------------------------------------------------------------------------

\* smtp_verify_certificate runs once TLS is up, if that is asked for: what is
\* left of return code r after it.
Verdicts(r, tlsUp) == IF r = "ok" /\ tlsUp /\ Verify THEN {"ok", "ssl"} ELSE {r}

\* It gives a reason exactly when it rejects.
Rejects(r, v) == r = "ok" /\ v = "ssl"

CertErrorAfterConnect_Kept(e) == e

\* etpan_smtp_send clears the reason once result_connect has reported it.
CertErrorAfterConnect(e) == FALSE

\* smtp_generic_connect, then result_connect.
Connect ==
    /\ pc = "connect"
    /\ \E r, v \in Codes :
        /\ Open(IF Ssl THEN "tls" ELSE "plain", r)
        /\ v \in Verdicts(r, Ssl)
        /\ ret' = v
        /\ trusted' = (Ssl /\ Verify /\ v = "ok")
        /\ certError' = CertErrorAfterConnect(Rejects(r, v))
        /\ sessionDetails' = WithEntry(sessionDetails, Detail("connection", v, Rejects(r, v)))
        /\ pc' = IF v = "ok" THEN "ehlo" ELSE "login"
    /\ UNCHANGED <<loggerVars, params, esmtp, attempt, session, owned>>

WantsStartTls_Insecure == Tls /\ Insecure

WantsStartTls == Tls /\ ~Insecure

MayHelo == ~Tls \/ Insecure

\* smtp_generic_greeting: EHLO
Ehlo1 ==
    /\ pc = "ehlo"
    /\ \E r \in Codes :
        /\ Ehlo(r)
        /\ ret' = r
        /\ esmtp' = (r = "ok")
        /\ pc' = CASE r = "ok" /\ WantsStartTls         -> "starttls"
                   [] r = "notImplemented" /\ MayHelo  -> "helo"
                   [] OTHER                            -> "login"
    /\ UNCHANGED <<loggerVars, params, certError, trusted, attempt,
                   sessionDetails, session, owned>>

\* STARTTLS, then the certificate.
SwitchToTls ==
    /\ pc = "starttls"
    /\ \E r, v \in Codes :
        /\ StartTls(r)
        /\ v \in Verdicts(r, TRUE)
        /\ ret' = v
        /\ trusted' = (Verify /\ v = "ok")
        /\ certError' = Rejects(r, v)
        /\ pc' = IF v = "ok" THEN "tlsEhlo" ELSE "login"
    /\ UNCHANGED <<loggerVars, params, esmtp, attempt, sessionDetails, session, owned>>

EsmtpAfterTls_Kept(r) == esmtp

EsmtpAfterTls(r) == IF r = "notImplemented" THEN FALSE ELSE esmtp

\* TLS/EHLO, whatever allowInsecure says HELO is the fallback.
TlsEhlo ==
    /\ pc = "tlsEhlo"
    /\ \E r \in Codes :
        /\ Ehlo(r)
        /\ ret' = r
        /\ esmtp' = EsmtpAfterTls(r)
        /\ pc' = IF r = "notImplemented" THEN "helo" ELSE "login"
    /\ UNCHANGED <<loggerVars, params, certError, trusted, attempt,
                   sessionDetails, session, owned>>

SayHelo ==
    /\ pc = "helo"
    /\ \E r \in Codes : Helo(r) /\ ret' = r
    /\ pc' = "login"
    /\ UNCHANGED <<loggerVars, params, esmtp, certError, trusted, attempt,
                   sessionDetails, session, owned>>

-----------------------------------------------------------------------------

\* result_login; from here on what is sent counts as credentials.
ResultLogin ==
    /\ pc = "login"
    /\ sessionDetails' = WithEntry(sessionDetails, Detail("identification", ret, certError))
    /\ authenticating' = TRUE
    /\ pc' = IF ret # "ok" THEN "authDone"
             ELSE IF AuthType = "AUTO" THEN "auto" ELSE "auth"
    /\ UNCHANGED <<libVars, index, callback, dying, heard, params, ret, esmtp,
                   certError, trusted, attempt, session, owned>>

\* smtp_auth_digest ... smtp_auth_oauth2_outlook: one call to libetpan.
AuthSingle ==
    /\ pc = "auth"
    /\ \E r \in Codes : Authenticate(r) /\ ret' = r
    /\ pc' = "authDone"
    /\ UNCHANGED <<loggerVars, params, esmtp, certError, trusted, attempt,
                   sessionDetails, session, owned>>

AutoDefault_NoError == "ok"

AutoDefault == "authNotSupported"

\* smtp_auth_auto: a relay that asks for no login, or no user to log in.
AuthAuto ==
    /\ pc = "auto"
    /\ IF auth = {} \/ ~params.user
       THEN ret' = "ok" /\ pc' = "authDone"
       ELSE ret' = AutoDefault /\ pc' = "autoTry"
    /\ UNCHANGED <<libVars, loggerVars, params, esmtp, certError, trusted,
                   attempt, sessionDetails, session, owned>>

ToTry_Again == {k \in 1..Len(AutoOrder) : AutoOrder[k] \in auth}

ToTry == {k \in (attempt + 1)..Len(AutoOrder) : AutoOrder[k] \in auth}

\* As in release 1.0: a mechanism that fails ends the attempt.
AfterTry_OneOnly(r) == "authDone"

AfterTry(r) == IF r = "ok" THEN "authDone" ELSE "autoTry"

\* The next mechanism the server announced; stop at the first that succeeds.
AuthTry ==
    /\ pc = "autoTry"
    /\ \E k \in ToTry :
        /\ \A j \in ToTry : k <= j
        /\ attempt' = k
    /\ \E r \in Codes :
        /\ Authenticate(r)
        /\ ret' = r
        /\ pc' = AfterTry(r)
    /\ UNCHANGED <<loggerVars, params, esmtp, certError, trusted,
                   sessionDetails, session, owned>>

\* Every announced mechanism failed: the last one's error is kept.
AuthGiveUp ==
    /\ pc = "autoTry"
    /\ ToTry = {}
    /\ pc' = "authDone"
    /\ UNCHANGED <<libVars, loggerVars, params, ret, esmtp, certError, trusted,
                   attempt, sessionDetails, session, owned>>

AfterSession_Always(r) == "next"

AfterSession(r) == IF r = "ok" THEN "next" ELSE "free"

\* result_auth; sessionInfo takes the details.
ResultAuth ==
    /\ pc = "authDone"
    /\ authenticating' = FALSE
    /\ sessionDetails' = WithEntry(sessionDetails, Detail("authentication", ret, FALSE))
    /\ session' = IF ret = "ok" THEN "success" ELSE "failure"
    /\ owned' = owned \ {"sessionDetails"}
    /\ pc' = AfterSession(ret)
    /\ UNCHANGED <<libVars, index, callback, dying, heard, params, ret, esmtp,
                   certError, trusted, attempt>>

SessionStep ==
    \/ ReadInvalid \/ ReadParams \/ NewSession \/ Connect
    \/ Ehlo1 \/ SwitchToTls \/ TlsEhlo \/ SayHelo
    \/ ResultLogin \/ AuthSingle \/ AuthAuto \/ AuthTry \/ AuthGiveUp \/ ResultAuth

\* The points at which control is inside libetpan's network code.
SessionCalls == {"connect", "ehlo", "starttls", "tlsEhlo", "helo", "auth", "autoTry"}
MessageCalls == {"mail", "rcpt", "dataMessage", "reset", "free"}

\* What a call may hand to the logger.  While it authenticates, what it sends
\* may be credentials, flagged as private or not.
Chunks ==
    IF pc \in {"auth", "autoTry"}
    THEN [type : {"received", "other"}, text : {"traffic"}] \cup
         [type : {"sent", "sentPrivate"}, text : {"traffic", "credentials"}]
    ELSE [type : {"received", "sent", "other"}, text : {"traffic"}]

Log ==
    /\ pc \in SessionCalls \cup MessageCalls
    /\ \E c \in Chunks : Logged(c.type, c.text)
    /\ UNCHANGED <<libVars, sessionVars>>

Aborted == ProcessDies /\ UNCHANGED <<libVars, sessionVars>>

\* The session on its own ends where the messages, or the clean-up, begin.
SessionEnds ==
    /\ pc \in {"next", "free", "render"}
    /\ UNCHANGED <<libVars, loggerVars, sessionVars>>

SessionNext == SessionStep \/ Log \/ Aborted \/ SessionEnds

\* Every network call returns: libetpan gives up after its timeout, and
\* timeout = 0 means its default.  Nothing makes the logger run, or 4D abort.
SessionSpec ==
    /\ SessionInit
    /\ [][SessionNext]_<<libVars, loggerVars, sessionVars>>
    /\ WF_<<libVars, loggerVars, sessionVars>>(SessionStep)

-----------------------------------------------------------------------------

SessionTypeOK ==
    /\ stream \in {"none", "plain", "tls", "lost"}
    /\ greeted \in {"none", "ehlo", "helo"}
    /\ auth \subseteq Mechanisms
    /\ loggedIn \in BOOLEAN
    /\ txn \in {"none", "mail", "rcpt", "data"}
    /\ index \in Nat
    /\ authenticating \in BOOLEAN /\ callback \in BOOLEAN /\ dying \in BOOLEAN
    /\ heard \in [index : Nat, text : Texts]
    /\ params \in [tls : JsonItems, allowInsecure : JsonItems,
                   verifyCertificate : JsonItems, authentication : AuthNames \cup {"unset"},
                   user : BOOLEAN]
    /\ ret \in Codes
    /\ esmtp \in BOOLEAN /\ certError \in BOOLEAN /\ trusted \in BOOLEAN
    /\ attempt \in 0..Len(AutoOrder)
    /\ session \in {"none", "success", "failure"}

\* What the caller asked for, in the words of the parameter table.
AskedInsecure == params.allowInsecure \in {"nonzero", "true"}
AskedSsl      == params.tls \in {"zero", "false"}
AskedNoCheck  == params.verifyCertificate \in {"zero", "false"}

\* Once the session counts as open, as long as the connection lasts, it is in
\* plain text only if allowInsecure asked for it without SSL on connect, and
\* its certificate was accepted unless verifyCertificate waived that.
ChannelAsConfigured ==
    (session = "success" \/ pc \in {"auth", "auto", "autoTry"}) /\ Alive =>
        IF AskedInsecure /\ ~AskedSsl
        THEN stream = "plain"
        ELSE stream = "tls" /\ (trusted \/ AskedNoCheck)

\* The ESMTP forms of MAIL and RCPT, with their parameters, are used exactly
\* when EHLO is the greeting the server accepted on this channel.
EsmtpMatchesGreeting ==
    session = "success" => esmtp = (greeted = "ehlo")

\* session.success never stands for a login that did not happen: it did,
\* unless AUTO had no user or no mechanism to use.  And when the server did log
\* in but the session is reported as a failure, the reply was lost with the
\* connection, and it is that error the authentication entry has, whichever
\* mechanisms AUTO went on to try.
SuccessMeansAuthenticated ==
    /\ session = "success" => loggedIn \/ (AuthType = "AUTO" /\ (auth = {} \/ ~params.user))
    /\ session = "failure" /\ loggedIn => sessionDetails[3].code = "stream"

\* When AUTO fails, every mechanism the server announced has had its turn; it
\* fails without trying one only if it knows none of them.
AutoTriedAll ==
    session = "failure" /\ AuthType = "AUTO" /\ sessionDetails[2].code = "ok" =>
        /\ \A k \in DOMAIN AutoOrder : AutoOrder[k] \in auth => k <= attempt
        /\ (attempt = 0) = (sessionDetails[3].code = "authNotSupported")

\* session.details has its three entries whenever session has them, an error
\* is carried to the later ones, and success means no entry has one.
SessionReport ==
    session # "none" =>
        /\ [k \in DOMAIN sessionDetails |-> sessionDetails[k].op]
               = <<"connection", "identification", "authentication">>
        /\ \A j, k \in 1..3 :
               j < k /\ sessionDetails[j].code # "ok" =>
                   sessionDetails[k].code = sessionDetails[j].code
        /\ (session = "success") = (\A k \in 1..3 : sessionDetails[k].code = "ok")

\* certificate_error is in one entry at most: that of the step that made the
\* TLS channel, with the TLS error code.
CertErrorOnlyThen ==
    \A k \in DOMAIN sessionDetails :
        sessionDetails[k].cert =>
            /\ sessionDetails[k].code = "ssl"
            /\ sessionDetails[k].op = IF AskedSsl THEN "connection" ELSE "identification"

\* The callback is never given what the plugin sends while it authenticates.
CredentialsHidden == heard.text # "credentials"

\* The greeting that counts is HELO only if allowInsecure allows the fallback.
HeloOnlyWhenAllowed == greeted = "helo" => AskedInsecure

\* The session is over at some point, whatever the server does.
SessionIsOver == <>(pc \in {"next", "free", "render"})

=============================================================================
