------------------------- MODULE SmtpSessionProofs -------------------------
(***************************************************************************)
(* Theorems about SmtpSession, for every set of mechanisms, every way to    *)
(* write the options and every name of a method.                            *)
(*                                                                         *)
(* Each invariant is inductive once it says, for each pc, what has been     *)
(* established so far: a step is proved from the invariant of its own pc.   *)
(***************************************************************************)
EXTENDS SmtpSession, SequenceTheorems, TLAPS

allVars == <<libVars, loggerVars, sessionVars>>

USE DEF libVars, loggerVars, sessionVars, allVars

-----------------------------------------------------------------------------

\* Type correctness of the libetpan session, the logger and the session half
\* of etpan_smtp_send.
LEMMA InitTypeOK == SessionInit => SessionTypeOK
<1> SUFFICES ASSUME SessionInit PROVE SessionTypeOK
    OBVIOUS
<1>1. params \in [tls : JsonItems, allowInsecure : JsonItems,
                 verifyCertificate : JsonItems, authentication : AuthNames \cup {"unset"},
                 user : BOOLEAN]
    BY DEF SessionInit, NoParams, JsonItems
<1>2. heard \in [index : Nat, text : Texts]
    BY DEF SessionInit, Nothing, Texts
<1>3. attempt \in 0..Len(AutoOrder)
    BY DEF SessionInit, AutoOrder
<1> QED
    BY <1>1, <1>2, <1>3 DEF SessionInit, SessionTypeOK, Codes

LEMMA StepTypeOK == SessionTypeOK /\ SessionStep => SessionTypeOK'
<1> SUFFICES ASSUME SessionTypeOK, SessionStep PROVE SessionTypeOK'
    OBVIOUS
<1> USE DEF SessionTypeOK
<1>1. CASE ReadInvalid
    BY <1>1 DEF ReadInvalid
<1>2. CASE ReadParams
    <2>1. params' \in [tls : JsonItems, allowInsecure : JsonItems,
                      verifyCertificate : JsonItems, authentication : AuthNames \cup {"unset"},
                      user : BOOLEAN]
        BY <1>2, SessionConstants DEF ReadParams
    <2> QED
        BY <1>2, <2>1 DEF ReadParams
<1>3. CASE NewSession
    BY <1>3 DEF NewSession
<1>4. CASE Connect
    <2>1. PICK r \in Codes, v \in Codes :
              /\ Open(IF Ssl THEN "tls" ELSE "plain", r)
              /\ ret' = v
              /\ trusted' = (Ssl /\ Verify /\ v = "ok")
              /\ certError' = CertErrorAfterConnect(Rejects(r, v))
        BY <1>4 DEF Connect
    <2>2. ret' \in Codes /\ trusted' \in BOOLEAN /\ certError' \in BOOLEAN
        BY <2>1 DEF CertErrorAfterConnect
    <2>3. stream' \in {"none", "plain", "tls", "lost"}
        BY <2>1 DEF Open
    <2> QED
        BY <1>4, <2>1, <2>2, <2>3 DEF Connect, Open
<1>5. CASE Ehlo1
    BY <1>5 DEF Ehlo1, Ehlo, Exchange
<1>6. CASE SwitchToTls
    <2>1. PICK r \in Codes, v \in Codes :
              /\ StartTls(r)
              /\ ret' = v
              /\ trusted' = (Verify /\ v = "ok")
              /\ certError' = Rejects(r, v)
        BY <1>6 DEF SwitchToTls
    <2>2. ret' \in Codes /\ trusted' \in BOOLEAN /\ certError' \in BOOLEAN
        BY <2>1 DEF Rejects
    <2>3. /\ stream' \in {"none", "plain", "tls", "lost"}
          /\ greeted' \in {"none", "ehlo", "helo"}
        BY <2>1 DEF StartTls
    <2> QED
        BY <1>6, <2>1, <2>2, <2>3 DEF SwitchToTls, StartTls
<1>7. CASE TlsEhlo
    <2>1. PICK r \in Codes : Ehlo(r) /\ ret' = r /\ esmtp' = EsmtpAfterTls(r)
        BY <1>7 DEF TlsEhlo
    <2>2. esmtp' \in BOOLEAN
        BY <2>1 DEF EsmtpAfterTls
    <2>3. /\ stream' \in {"none", "plain", "tls", "lost"}
          /\ greeted' \in {"none", "ehlo", "helo"}
          /\ auth' \subseteq Mechanisms
        BY <2>1 DEF Ehlo, Exchange
    <2> QED
        BY <1>7, <2>1, <2>2, <2>3 DEF TlsEhlo, Ehlo
<1>8. CASE SayHelo
    BY <1>8 DEF SayHelo, Helo, Exchange
<1>9. CASE ResultLogin
    BY <1>9 DEF ResultLogin
<1>10. CASE AuthSingle
    <2>1. PICK r \in Codes : Authenticate(r) /\ ret' = r
        BY <1>10 DEF AuthSingle
    <2>2. stream' \in {"none", "plain", "tls", "lost"} /\ loggedIn' \in BOOLEAN
        BY <2>1 DEF Authenticate, Exchange
    <2> QED
        BY <1>10, <2>1, <2>2 DEF AuthSingle, Authenticate
<1>11. CASE AuthAuto
    BY <1>11 DEF AuthAuto, AutoDefault, Codes
<1>12. CASE AuthTry
    <2>1. attempt' \in 0..Len(AutoOrder)
        BY <1>12 DEF AuthTry, ToTry, AutoOrder
    <2>2. PICK r \in Codes : Authenticate(r) /\ ret' = r
        BY <1>12 DEF AuthTry
    <2>3. stream' \in {"none", "plain", "tls", "lost"} /\ loggedIn' \in BOOLEAN
        BY <2>2 DEF Authenticate, Exchange
    <2> QED
        BY <1>12, <2>1, <2>2, <2>3 DEF AuthTry, Authenticate
<1>13. CASE AuthGiveUp
    BY <1>13 DEF AuthGiveUp
<1>14. CASE ResultAuth
    <2>1. authenticating' \in BOOLEAN /\ session' \in {"none", "success", "failure"}
        BY <1>14 DEF ResultAuth
    <2> QED
        BY <1>14, <2>1 DEF ResultAuth
<1> QED
    BY <1>1, <1>2, <1>3, <1>4, <1>5, <1>6, <1>7, <1>8, <1>9, <1>10, <1>11,
       <1>12, <1>13, <1>14 DEF SessionStep

LEMMA LoggingTypeOK == SessionTypeOK /\ (Log \/ Aborted) => SessionTypeOK'
<1>1. ASSUME SessionTypeOK, Log PROVE SessionTypeOK'
    BY <1>1 DEF SessionTypeOK, Log, Logged, Chunks, Texts
<1>2. ASSUME SessionTypeOK, Aborted PROVE SessionTypeOK'
    BY <1>2 DEF SessionTypeOK, Aborted, ProcessDies
<1> QED
    BY <1>1, <1>2

\* The session's state always has its type: the codes are the ones the plugin
\* knows, the AUTO loop stays within its four mechanisms, and so on.
THEOREM SessionTypeCorrect == SessionSpec => []SessionTypeOK
<1>1. SessionTypeOK /\ [SessionNext]_allVars => SessionTypeOK'
    <2>1. SessionTypeOK /\ SessionEnds => SessionTypeOK'
        BY DEF SessionTypeOK, SessionEnds
    <2>2. SessionTypeOK /\ UNCHANGED allVars => SessionTypeOK'
        BY DEF SessionTypeOK
    <2> QED
        BY <2>1, <2>2, StepTypeOK, LoggingTypeOK DEF SessionNext
<1> QED
    BY <1>1, InitTypeOK, PTL DEF SessionSpec

-----------------------------------------------------------------------------

\* What mail_logger may pass on: nothing secret, because while a call that may
\* send credentials is in progress the flag is up.
SecretInv ==
    /\ pc \in {"auth", "auto", "autoTry"} => authenticating
    /\ heard \in [index : Nat, text : Texts \ {"credentials"}]
    /\ index \in Nat

LEMMA InitSecretInv == SessionInit => SecretInv
BY DEF SessionInit, SecretInv, Nothing, Texts

LEMMA StepSecretInv == SecretInv /\ SessionStep => SecretInv'
<1> SUFFICES ASSUME SecretInv, SessionStep PROVE SecretInv'
    OBVIOUS
<1> USE DEF SecretInv
<1>1. CASE ReadInvalid \/ ReadParams \/ NewSession \/ Connect
    BY <1>1 DEF ReadInvalid, ReadParams, NewSession, Connect
<1>2. CASE Ehlo1 \/ SwitchToTls \/ TlsEhlo \/ SayHelo
    BY <1>2 DEF Ehlo1, SwitchToTls, TlsEhlo, SayHelo
<1>3. CASE ResultLogin
    BY <1>3 DEF ResultLogin
<1>4. CASE AuthSingle \/ AuthAuto \/ AuthTry \/ AuthGiveUp
    BY <1>4 DEF AuthSingle, AuthAuto, AuthTry, AuthGiveUp
<1>5. CASE ResultAuth
    BY <1>5 DEF ResultAuth, AfterSession
<1> QED
    BY <1>1, <1>2, <1>3, <1>4, <1>5 DEF SessionStep

LEMMA LoggingSecretInv == SecretInv /\ (Log \/ Aborted) => SecretInv'
<1>1. ASSUME SecretInv, Log PROVE SecretInv'
    <2>1. PICK c \in Chunks : Logged(c.type, c.text)
        BY <1>1 DEF Log
    <2>2. c.text \in Texts /\ (c.text = "credentials" => Hidden(c.type))
        BY <1>1, <2>1 DEF SecretInv, Chunks, Hidden, Texts
    <2>3. heard' \in [index : Nat, text : Texts \ {"credentials"}]
        BY <1>1, <2>1, <2>2 DEF SecretInv, Logged, Texts
    <2> QED
        BY <1>1, <2>1, <2>3 DEF SecretInv, Log, Logged
<1>2. ASSUME SecretInv, Aborted PROVE SecretInv'
    BY <1>2 DEF SecretInv, Aborted, ProcessDies
<1> QED
    BY <1>1, <1>2

-----------------------------------------------------------------------------

\* The channel a session must have once its step is done.
Channel ==
    Alive => IF Tls /\ Insecure THEN stream = "plain"
                                ELSE stream = "tls" /\ (trusted \/ ~Verify)

ChannelInv ==
    /\ params \in [tls : JsonItems, allowInsecure : JsonItems,
                   verifyCertificate : JsonItems,
                   authentication : AuthNames \cup {"unset"}, user : BOOLEAN]
    /\ trusted \in BOOLEAN
    /\ session # "none" => pc \notin {"parse", "new", "connect", "ehlo", "starttls",
                                      "tlsEhlo", "helo", "login", "auth", "auto",
                                      "autoTry", "authDone"}
    /\ pc = "ehlo" =>
          IF Ssl THEN stream = "tls" /\ (trusted \/ ~Verify) ELSE stream = "plain"
    /\ pc = "starttls" => WantsStartTls
    /\ pc = "tlsEhlo" => WantsStartTls /\ stream = "tls" /\ (trusted \/ ~Verify)
    /\ pc \in {"helo", "auth", "auto", "autoTry"} => Channel
    /\ pc \in {"login", "authDone"} /\ ret = "ok" => Channel
    /\ session = "success" => Channel

LEMMA InitChannelInv == SessionInit => ChannelInv
<1> SUFFICES ASSUME SessionInit PROVE ChannelInv
    OBVIOUS
<1>1. params \in [tls : JsonItems, allowInsecure : JsonItems,
                 verifyCertificate : JsonItems,
                 authentication : AuthNames \cup {"unset"}, user : BOOLEAN]
    BY DEF SessionInit, NoParams, JsonItems
<1> QED
    BY <1>1 DEF SessionInit, ChannelInv

LEMMA StepChannelInv == ChannelInv /\ SessionStep => ChannelInv'
<1> SUFFICES ASSUME ChannelInv, SessionStep PROVE ChannelInv'
    OBVIOUS
<1> USE DEF ChannelInv, Channel, Alive, Tls, Ssl, Insecure, Verify, WantsStartTls
<1>1. CASE ReadInvalid
    BY <1>1 DEF ReadInvalid
<1>2. CASE ReadParams
    BY <1>2, SessionConstants DEF ReadParams
<1>3. CASE NewSession
    BY <1>3 DEF NewSession
<1>4. CASE Connect
    <2>1. PICK r \in Codes, v \in Codes :
              /\ Open(IF Ssl THEN "tls" ELSE "plain", r)
              /\ v \in Verdicts(r, Ssl)
              /\ trusted' = (Ssl /\ Verify /\ v = "ok")
              /\ pc' = IF v = "ok" THEN "ehlo" ELSE "login"
              /\ ret' = v
        BY <1>4 DEF Connect
    <2>2. trusted' \in BOOLEAN
        BY <2>1
    <2>3. v = "ok" => r = "ok" /\ (trusted' \/ ~Ssl \/ ~Verify)
        BY <2>1 DEF Verdicts
    <2>4. v = "ok" => stream' = IF Ssl THEN "tls" ELSE "plain"
        BY <2>1, <2>3 DEF Open
    <2> QED
        BY <1>4, <2>1, <2>2, <2>3, <2>4 DEF Connect
<1>5. CASE Ehlo1
    BY <1>5 DEF Ehlo1, Ehlo, Exchange, MayHelo
<1>6. CASE SwitchToTls
    BY <1>6 DEF SwitchToTls, StartTls, Verdicts
<1>7. CASE TlsEhlo
    BY <1>7 DEF TlsEhlo, Ehlo, Exchange
<1>8. CASE SayHelo
    BY <1>8 DEF SayHelo, Helo, Exchange
<1>9. CASE ResultLogin
    BY <1>9 DEF ResultLogin
<1>10. CASE AuthSingle
    BY <1>10 DEF AuthSingle, Authenticate, Exchange
<1>11. CASE AuthAuto
    BY <1>11 DEF AuthAuto
<1>12. CASE AuthTry
    BY <1>12 DEF AuthTry, Authenticate, Exchange, AfterTry
<1>13. CASE AuthGiveUp
    BY <1>13 DEF AuthGiveUp
<1>14. CASE ResultAuth
    BY <1>14 DEF ResultAuth, AfterSession
<1> QED
    BY <1>1, <1>2, <1>3, <1>4, <1>5, <1>6, <1>7, <1>8, <1>9, <1>10, <1>11,
       <1>12, <1>13, <1>14 DEF SessionStep

-----------------------------------------------------------------------------

\* esmtp follows the greeting, step by step.
GreetingInv ==
    /\ pc \in {"parse", "new", "connect", "ehlo"} => ~esmtp /\ greeted = "none"
    /\ pc = "starttls" => esmtp /\ greeted = "ehlo"
    /\ pc = "tlsEhlo" => esmtp /\ greeted = "none"
    /\ pc = "helo" => ~esmtp
    /\ pc \in {"login", "authDone"} /\ ret = "ok" => esmtp = (greeted = "ehlo")
    /\ pc \in {"auth", "auto", "autoTry"} => esmtp = (greeted = "ehlo")
    /\ session = "success" => esmtp = (greeted = "ehlo")
    /\ session # "none" => pc \notin {"parse", "new", "connect", "ehlo", "starttls",
                                      "tlsEhlo", "helo", "login", "auth", "auto",
                                      "autoTry", "authDone"}
    /\ esmtp \in BOOLEAN

LEMMA InitGreetingInv == SessionInit => GreetingInv
BY DEF SessionInit, GreetingInv

LEMMA StepGreetingInv == GreetingInv /\ SessionStep => GreetingInv'
<1> SUFFICES ASSUME GreetingInv, SessionStep PROVE GreetingInv'
    OBVIOUS
<1> USE DEF GreetingInv
<1>1. CASE ReadInvalid
    BY <1>1 DEF ReadInvalid
<1>2. CASE ReadParams
    BY <1>2 DEF ReadParams
<1>3. CASE NewSession
    BY <1>3 DEF NewSession
<1>4. CASE Connect
    BY <1>4 DEF Connect, Open, Verdicts
<1>5. CASE Ehlo1
    BY <1>5 DEF Ehlo1, Ehlo
<1>6. CASE SwitchToTls
    BY <1>6 DEF SwitchToTls, StartTls, Verdicts
<1>7. CASE TlsEhlo
    BY <1>7 DEF TlsEhlo, Ehlo, EsmtpAfterTls
<1>8. CASE SayHelo
    BY <1>8 DEF SayHelo, Helo
<1>9. CASE ResultLogin
    BY <1>9 DEF ResultLogin
<1>10. CASE AuthSingle
    BY <1>10 DEF AuthSingle, Authenticate
<1>11. CASE AuthAuto
    BY <1>11 DEF AuthAuto
<1>12. CASE AuthTry
    BY <1>12 DEF AuthTry, Authenticate, AfterTry
<1>13. CASE AuthGiveUp
    BY <1>13 DEF AuthGiveUp
<1>14. CASE ResultAuth
    BY <1>14 DEF ResultAuth, AfterSession
<1> QED
    BY <1>1, <1>2, <1>3, <1>4, <1>5, <1>6, <1>7, <1>8, <1>9, <1>10, <1>11,
       <1>12, <1>13, <1>14 DEF SessionStep

-----------------------------------------------------------------------------

\* The logger and 4D's abort request leave the session alone, and so do the
\* states in which the session is over.
LEMMA QuietSteps ==
    [Log \/ Aborted \/ SessionEnds]_allVars => UNCHANGED <<libVars, sessionVars>>
BY DEF Log, Aborted, SessionEnds

LEMMA FrameChannelInv == ChannelInv /\ UNCHANGED <<libVars, sessionVars>> => ChannelInv'
<1> SUFFICES ASSUME ChannelInv, UNCHANGED <<libVars, sessionVars>> PROVE ChannelInv'
    OBVIOUS
<1>1. (Tls' <=> Tls) /\ (Ssl' <=> Ssl) /\ (Insecure' <=> Insecure) /\ (Verify' <=> Verify)
    BY DEF Tls, Ssl, Insecure, Verify
<1>2. Channel => Channel'
    BY <1>1 DEF Channel, Alive
<1> QED
    BY <1>1, <1>2 DEF ChannelInv, WantsStartTls

LEMMA FrameGreetingInv ==
    GreetingInv /\ UNCHANGED <<libVars, sessionVars>> => GreetingInv'
BY DEF GreetingInv

\* The callback never gets what the plugin sends while it authenticates,
\* flagged private or not (mail_logger, ctx.authenticating).
THEOREM SessionCredentialsHidden == SessionSpec => []CredentialsHidden
<1>1. SecretInv => CredentialsHidden
    BY DEF SecretInv, CredentialsHidden, Texts
<1>2. SecretInv /\ [SessionNext]_allVars => SecretInv'
    <2>1. SecretInv /\ (SessionEnds \/ UNCHANGED allVars) => SecretInv'
        BY DEF SecretInv, SessionEnds
    <2> QED
        BY <2>1, StepSecretInv, LoggingSecretInv DEF SessionNext
<1> QED
    BY <1>1, <1>2, InitSecretInv, PTL DEF SessionSpec

\* A session that counts as open, or is authenticating, is on the channel the
\* options ask for (smtp_generic_connect, smtp_generic_greeting).
THEOREM SessionChannel == SessionSpec => []ChannelAsConfigured
<1>1. ChannelInv => ChannelAsConfigured
    BY DEF ChannelInv, ChannelAsConfigured, Channel, Alive, Tls, Insecure, Verify,
       JsonFlag, JsonItems, AskedInsecure, AskedSsl, AskedNoCheck
<1>2. ChannelInv /\ [SessionNext]_allVars => ChannelInv'
    BY StepChannelInv, FrameChannelInv, QuietSteps DEF SessionNext
<1> QED
    BY <1>1, <1>2, InitChannelInv, PTL DEF SessionSpec

\* MAIL and RCPT have their ESMTP form exactly after an accepted EHLO.
THEOREM SessionGreeting == SessionSpec => []EsmtpMatchesGreeting
<1>1. GreetingInv => EsmtpMatchesGreeting
    BY DEF GreetingInv, EsmtpMatchesGreeting
<1>2. GreetingInv /\ [SessionNext]_allVars => GreetingInv'
    BY StepGreetingInv, FrameGreetingInv, QuietSteps DEF SessionNext
<1> QED
    BY <1>1, <1>2, InitGreetingInv, PTL DEF SessionSpec

-----------------------------------------------------------------------------

\* Where the first, the second and the third entry are yet to be written.
BeforeConnected     == {"parse", "new", "connect"}
BeforeIdentified    == {"ehlo", "starttls", "tlsEhlo", "helo", "login"}
BeforeAuthenticated == {"auth", "auto", "autoTry", "authDone"}

DetailEntries ==
    [op : {"connection", "identification", "authentication"}, code : Codes, cert : BOOLEAN]

\* What each entry says once it is written.
FirstEntry ==
    Len(sessionDetails) >= 1 =>
        /\ sessionDetails[1].op = "connection"
        /\ sessionDetails[1].cert => sessionDetails[1].code = "ssl" /\ AskedSsl

SecondEntry ==
    Len(sessionDetails) >= 2 =>
        /\ sessionDetails[2].op = "identification"
        /\ sessionDetails[2].cert => sessionDetails[2].code = "ssl" /\ ~AskedSsl
        /\ sessionDetails[1].code # "ok" => sessionDetails[2].code = sessionDetails[1].code

ThirdEntry ==
    Len(sessionDetails) >= 3 =>
        /\ sessionDetails[3].op = "authentication"
        /\ ~sessionDetails[3].cert
        /\ sessionDetails[2].code # "ok" => sessionDetails[3].code = sessionDetails[2].code
        /\ (session = "success") = (sessionDetails[3].code = "ok")

\* The error of the last entry is still the running return code, and a reason
\* for a rejected certificate waits for its entry together with its code.
Carried ==
    /\ pc \in BeforeIdentified \ {"login"} => sessionDetails[1].code = "ok"
    /\ pc = "login" /\ sessionDetails[1].code # "ok" => ret = sessionDetails[1].code
    /\ pc \in BeforeAuthenticated \ {"authDone"} => sessionDetails[2].code = "ok"
    /\ pc = "authDone" /\ sessionDetails[2].code # "ok" => ret = sessionDetails[2].code
    /\ pc \in BeforeConnected \cup (BeforeIdentified \ {"login"}) => ~certError
    /\ pc = "starttls" => ~AskedSsl
    /\ pc = "login" /\ certError => ret = "ssl" /\ ~AskedSsl

ReportLength ==
    /\ pc \in BeforeConnected => Len(sessionDetails) = 0
    /\ pc \in BeforeIdentified => Len(sessionDetails) = 1
    /\ pc \in BeforeAuthenticated => Len(sessionDetails) = 2
    /\ pc \in BeforeConnected \cup BeforeIdentified \cup BeforeAuthenticated => session = "none"
    /\ session # "none" => Len(sessionDetails) = 3
    /\ Len(sessionDetails) <= 3
    /\ Len(sessionDetails) = 3 => session # "none"

DetailsInv ==
    /\ SessionTypeOK
    /\ sessionDetails \in Seq(DetailEntries)
    /\ ReportLength /\ FirstEntry /\ SecondEntry /\ ThirdEntry /\ Carried

\* An entry is added at the end.
LEMMA EntryAdded ==
    ASSUME sessionDetails \in Seq(DetailEntries), NEW e \in DetailEntries,
           sessionDetails' = WithEntry(sessionDetails, e)
    PROVE  /\ sessionDetails' \in Seq(DetailEntries)
           /\ Len(sessionDetails) \in Nat /\ Len(sessionDetails') = Len(sessionDetails) + 1
           /\ \A k \in 1..Len(sessionDetails) : sessionDetails'[k] = sessionDetails[k]
           /\ sessionDetails'[Len(sessionDetails) + 1] = e
BY AppendProperties, LenProperties DEF WithEntry

LEMMA InitDetails == SessionInit => DetailsInv
<1> SUFFICES ASSUME SessionInit PROVE DetailsInv
    OBVIOUS
<1>1. /\ pc = "parse" /\ sessionDetails = <<>> /\ session = "none" /\ ~certError
      /\ Len(sessionDetails) = 0 /\ sessionDetails \in Seq(DetailEntries)
    BY EmptySeq DEF SessionInit
<1>2. ReportLength
    BY <1>1 DEF ReportLength, BeforeConnected, BeforeIdentified, BeforeAuthenticated
<1>3. FirstEntry /\ SecondEntry /\ ThirdEntry
    BY <1>1 DEF FirstEntry, SecondEntry, ThirdEntry
<1>4. Carried
    BY <1>1 DEF Carried, BeforeConnected, BeforeIdentified, BeforeAuthenticated
<1> QED
    BY <1>1, <1>2, <1>3, <1>4, InitTypeOK DEF DetailsInv

\* A step that writes no entry keeps those there are.
LEMMA NoEntry ==
    ASSUME DetailsInv, UNCHANGED <<sessionDetails, session>>,
           params' = params \/ pc = "parse", SessionTypeOK', ReportLength'
    PROVE  /\ sessionDetails' \in Seq(DetailEntries)
           /\ FirstEntry' /\ SecondEntry' /\ ThirdEntry'
<1> USE DEF DetailsInv, FirstEntry, SecondEntry, ThirdEntry
<1>1. CASE pc = "parse"
    <2>1. Len(sessionDetails) = 0
        BY <1>1 DEF ReportLength, BeforeConnected
    <2> QED
        BY <2>1
<1>2. CASE params' = params
    <2>1. AskedSsl' <=> AskedSsl
        BY <1>2 DEF AskedSsl
    <2> QED
        BY <2>1
<1> QED
    BY <1>1, <1>2

LEMMA StepDetails == DetailsInv /\ SessionStep => DetailsInv'
<1> SUFFICES ASSUME DetailsInv, SessionStep PROVE DetailsInv'
    OBVIOUS
<1>t. SessionTypeOK'
    BY StepTypeOK DEF DetailsInv
<1>d. /\ sessionDetails \in Seq(DetailEntries) /\ Len(sessionDetails) \in Nat
      /\ ret \in Codes /\ certError \in BOOLEAN
    BY LenProperties DEF DetailsInv, SessionTypeOK
<1> USE DEF BeforeConnected, BeforeIdentified, BeforeAuthenticated
<1>1. CASE ReadInvalid \/ ReadParams \/ NewSession
    <2>1. /\ pc \in {"parse", "new"} /\ pc' \in {"new", "connect", "render"}
          /\ UNCHANGED <<sessionDetails, session, certError, ret>>
          /\ params' = params \/ pc = "parse"
        BY <1>1 DEF ReadInvalid, ReadParams, NewSession
    <2>2. ReportLength'
        BY <2>1 DEF DetailsInv, ReportLength
    <2>3. Carried'
        BY <2>1 DEF DetailsInv, Carried
    <2> QED
        BY <1>t, <2>1, <2>2, <2>3, NoEntry DEF DetailsInv
<1>2. CASE Connect
    <2>1. PICK r \in Codes, v \in Codes :
              /\ v \in Verdicts(r, Ssl)
              /\ ret' = v
              /\ certError' = CertErrorAfterConnect(Rejects(r, v))
              /\ sessionDetails' = WithEntry(sessionDetails, Detail("connection", v, Rejects(r, v)))
              /\ pc' = IF v = "ok" THEN "ehlo" ELSE "login"
        BY <1>2 DEF Connect
    <2> DEFINE e == Detail("connection", v, Rejects(r, v))
    <2>2. pc = "connect" /\ UNCHANGED <<session, params>>
        BY <1>2 DEF Connect
    <2>3. e \in DetailEntries /\ e.op = "connection" /\ e.code = v /\ (e.cert <=> Rejects(r, v))
        BY DEF Detail, DetailEntries, Rejects
    <2>4. Rejects(r, v) => v = "ssl" /\ Ssl
        BY <2>1 DEF Rejects, Verdicts
    <2>5. Ssl => AskedSsl
        BY <1>d DEF Ssl, Tls, JsonFlag, AskedSsl, DetailsInv, SessionTypeOK, JsonItems
    <2>6. AskedSsl' <=> AskedSsl
        BY <2>2 DEF AskedSsl
    <2>7. ~certError'
        BY <2>1 DEF CertErrorAfterConnect
    <2>8. Len(sessionDetails) = 0 /\ session = "none"
        BY <2>2 DEF DetailsInv, ReportLength
    <2> HIDE DEF e
    <2>9. /\ sessionDetails' \in Seq(DetailEntries) /\ Len(sessionDetails') = 1
          /\ sessionDetails'[1] = e
        BY <1>d, <2>1, <2>3, <2>8, EntryAdded DEF e
    <2>10. FirstEntry' /\ SecondEntry' /\ ThirdEntry'
        BY <2>3, <2>4, <2>5, <2>6, <2>9 DEF FirstEntry, SecondEntry, ThirdEntry
    <2>11. ReportLength'
        <3>1. pc' \in {"ehlo", "login"} /\ session' = "none"
            BY <2>1, <2>2, <2>8
        <3> QED
            BY <2>9, <3>1 DEF ReportLength
    <2>12. Carried'
        BY <2>1, <2>3, <2>7, <2>9 DEF Carried
    <2> QED
        BY <1>t, <2>9, <2>10, <2>11, <2>12 DEF DetailsInv
<1>3. CASE Ehlo1 \/ TlsEhlo \/ SayHelo
    <2>1. /\ pc \in {"ehlo", "tlsEhlo", "helo"} /\ pc' \in {"starttls", "helo", "login"}
          /\ UNCHANGED <<sessionDetails, session, certError, params>>
        BY <1>3 DEF Ehlo1, TlsEhlo, SayHelo
    <2>2. ReportLength'
        BY <2>1 DEF DetailsInv, ReportLength
    <2>3. pc' = "starttls" => ~AskedSsl'
        <3>1. pc' = "starttls" => Tls
            BY <1>3 DEF Ehlo1, TlsEhlo, SayHelo, WantsStartTls
        <3>2. Tls => ~AskedSsl
            BY <1>d DEF Tls, JsonFlag, AskedSsl, DetailsInv, SessionTypeOK, JsonItems
        <3> QED
            BY <2>1, <3>1, <3>2 DEF AskedSsl
    <2>4. Carried'
        BY <2>1, <2>3 DEF DetailsInv, Carried
    <2> QED
        BY <1>t, <2>1, <2>2, <2>4, NoEntry DEF DetailsInv
<1>4. CASE SwitchToTls
    <2>1. PICK r \in Codes, v \in Codes :
              /\ v \in Verdicts(r, TRUE)
              /\ ret' = v
              /\ certError' = Rejects(r, v)
              /\ pc' = IF v = "ok" THEN "tlsEhlo" ELSE "login"
        BY <1>4 DEF SwitchToTls
    <2>2. pc = "starttls" /\ UNCHANGED <<sessionDetails, session, params>>
        BY <1>4 DEF SwitchToTls
    <2>3. Rejects(r, v) => v = "ssl"
        BY DEF Rejects
    <2>4. ~AskedSsl'
        BY <2>2 DEF DetailsInv, Carried, AskedSsl
    <2>5. ReportLength'
        BY <2>1, <2>2 DEF DetailsInv, ReportLength
    <2>6. Carried'
        BY <2>1, <2>2, <2>3, <2>4 DEF DetailsInv, Carried
    <2> QED
        BY <1>t, <2>2, <2>5, <2>6, NoEntry DEF DetailsInv
<1>5. CASE ResultLogin
    <2> DEFINE e == Detail("identification", ret, certError)
    <2>1. /\ pc = "login" /\ pc' \in {"authDone", "auto", "auth"}
          /\ pc' # "authDone" => ret = "ok"
          /\ sessionDetails' = WithEntry(sessionDetails, e)
          /\ UNCHANGED <<session, params, ret, certError>>
        BY <1>5 DEF ResultLogin
    <2>2. e \in DetailEntries /\ e.op = "identification" /\ e.code = ret /\ e.cert = certError
        BY <1>d DEF Detail, DetailEntries
    <2>3. Len(sessionDetails) = 1 /\ session = "none"
        BY <2>1 DEF DetailsInv, ReportLength
    <2>4. AskedSsl' <=> AskedSsl
        BY <2>1 DEF AskedSsl
    <2> HIDE DEF e
    <2>5. /\ sessionDetails' \in Seq(DetailEntries) /\ Len(sessionDetails') = 2
          /\ sessionDetails'[1] = sessionDetails[1] /\ sessionDetails'[2] = e
        BY <1>d, <2>1, <2>2, <2>3, EntryAdded
    <2>6. FirstEntry' /\ ThirdEntry'
        BY <2>3, <2>4, <2>5 DEF DetailsInv, FirstEntry, ThirdEntry
    <2>7. SecondEntry'
        BY <2>1, <2>2, <2>4, <2>5 DEF DetailsInv, SecondEntry, Carried
    <2>8. ReportLength'
        BY <2>1, <2>3, <2>5 DEF ReportLength
    <2>9. Carried'
        BY <2>1, <2>2, <2>5 DEF Carried
    <2> QED
        BY <1>t, <2>5, <2>6, <2>7, <2>8, <2>9 DEF DetailsInv
<1>6. CASE AuthSingle \/ AuthAuto \/ AuthTry \/ AuthGiveUp
    <2>1. /\ pc \in {"auth", "auto", "autoTry"} /\ pc' \in {"autoTry", "authDone"}
          /\ UNCHANGED <<sessionDetails, session, certError, params>>
        BY <1>6 DEF AuthSingle, AuthAuto, AuthTry, AfterTry, AuthGiveUp
    <2>2. ReportLength'
        BY <2>1 DEF DetailsInv, ReportLength
    <2>3. Carried'
        BY <2>1 DEF DetailsInv, Carried
    <2> QED
        BY <1>t, <2>1, <2>2, <2>3, NoEntry DEF DetailsInv
<1>7. CASE ResultAuth
    <2> DEFINE e == Detail("authentication", ret, FALSE)
    <2>1. /\ pc = "authDone" /\ pc' \in {"next", "free"}
          /\ sessionDetails' = WithEntry(sessionDetails, e)
          /\ session' = IF ret = "ok" THEN "success" ELSE "failure"
          /\ UNCHANGED params
        BY <1>7 DEF ResultAuth, AfterSession
    <2>2. e \in DetailEntries /\ e.op = "authentication" /\ e.code = ret /\ ~e.cert
        BY <1>d DEF Detail, DetailEntries
    <2>3. Len(sessionDetails) = 2
        BY <2>1 DEF DetailsInv, ReportLength
    <2>4. AskedSsl' <=> AskedSsl
        BY <2>1 DEF AskedSsl
    <2> HIDE DEF e
    <2>5. /\ sessionDetails' \in Seq(DetailEntries) /\ Len(sessionDetails') = 3
          /\ sessionDetails'[1] = sessionDetails[1] /\ sessionDetails'[2] = sessionDetails[2]
          /\ sessionDetails'[3] = e
        BY <1>d, <2>1, <2>2, <2>3, EntryAdded
    <2>6. FirstEntry' /\ SecondEntry'
        BY <2>3, <2>4, <2>5 DEF DetailsInv, FirstEntry, SecondEntry
    <2>7. ThirdEntry'
        BY <2>1, <2>2, <2>5 DEF DetailsInv, ThirdEntry, Carried
    <2>8. ReportLength'
        BY <2>1, <2>5 DEF ReportLength
    <2>9. Carried'
        BY <2>1 DEF Carried
    <2> QED
        BY <1>t, <2>5, <2>6, <2>7, <2>8, <2>9 DEF DetailsInv
<1> QED
    BY <1>1, <1>2, <1>3, <1>4, <1>5, <1>6, <1>7 DEF SessionStep

LEMMA FrameDetails ==
    ASSUME DetailsInv, Log \/ Aborted \/ SessionEnds \/ UNCHANGED allVars
    PROVE  DetailsInv'
<1>1. SessionTypeOK'
    BY LoggingTypeOK DEF DetailsInv, SessionTypeOK, SessionEnds
<1>2. UNCHANGED sessionVars
    BY QuietSteps
<1> QED
    BY <1>1, <1>2 DEF DetailsInv, ReportLength, FirstEntry, SecondEntry, ThirdEntry,
       Carried, AskedSsl

LEMMA DetailsCorrect == SessionSpec => []DetailsInv
<1>1. DetailsInv /\ [SessionNext]_allVars => DetailsInv'
    BY StepDetails, FrameDetails DEF SessionNext
<1> QED
    BY <1>1, InitDetails, PTL DEF SessionSpec

\* session.details has its three entries in order, an error is carried to the
\* later ones, and session.success says that none has one (result_connect,
\* result_login, result_auth).
THEOREM SessionDetails == SessionSpec => []SessionReport
<1>1. DetailsInv => SessionReport
    <2> SUFFICES ASSUME DetailsInv, session # "none" PROVE
               /\ [k \in DOMAIN sessionDetails |-> sessionDetails[k].op]
                      = <<"connection", "identification", "authentication">>
               /\ \A j, k \in 1..3 :
                      j < k /\ sessionDetails[j].code # "ok" =>
                          sessionDetails[k].code = sessionDetails[j].code
               /\ (session = "success") = (\A k \in 1..3 : sessionDetails[k].code = "ok")
        BY DEF SessionReport
    <2>1. Len(sessionDetails) = 3 /\ DOMAIN sessionDetails = 1..3
        BY LenProperties DEF DetailsInv, ReportLength
    <2>2. /\ sessionDetails[1].op = "connection"
          /\ sessionDetails[2].op = "identification"
          /\ sessionDetails[3].op = "authentication"
        BY <2>1 DEF DetailsInv, FirstEntry, SecondEntry, ThirdEntry
    <2>3. /\ sessionDetails[1].code # "ok" => sessionDetails[2].code = sessionDetails[1].code
          /\ sessionDetails[2].code # "ok" => sessionDetails[3].code = sessionDetails[2].code
          /\ (session = "success") = (sessionDetails[3].code = "ok")
        BY <2>1 DEF DetailsInv, SecondEntry, ThirdEntry
    <2>4. [k \in DOMAIN sessionDetails |-> sessionDetails[k].op]
              = <<"connection", "identification", "authentication">>
        BY <2>1, <2>2
    <2>5. 1..3 = {1, 2, 3}
        OBVIOUS
    <2>6. ASSUME NEW j \in 1..3, NEW k \in 1..3, j < k, sessionDetails[j].code # "ok"
          PROVE  sessionDetails[k].code = sessionDetails[j].code
        <3>1. (j = 1 /\ k = 2) \/ (j = 1 /\ k = 3) \/ (j = 2 /\ k = 3)
            BY <2>6
        <3> QED
            BY <2>3, <2>6, <3>1
    <2>7. (session = "success") = (\A k \in 1..3 : sessionDetails[k].code = "ok")
        <3>1. (sessionDetails[3].code = "ok") <=> (\A k \in 1..3 : sessionDetails[k].code = "ok")
            BY <2>3, <2>5
        <3> QED
            BY <2>3, <3>1
    <2> QED
        BY <2>4, <2>6, <2>7
<1> QED
    BY <1>1, DetailsCorrect, PTL

\* certificate_error is in the entry of the step that made the TLS channel and
\* in no other, with the TLS error (smtp_generic_connect, smtp_generic_greeting).
THEOREM SessionCertError == SessionSpec => []CertErrorOnlyThen
<1>1. DetailsInv => CertErrorOnlyThen
    <2> SUFFICES ASSUME DetailsInv, NEW k \in DOMAIN sessionDetails, sessionDetails[k].cert
                 PROVE  /\ sessionDetails[k].code = "ssl"
                        /\ sessionDetails[k].op =
                               IF AskedSsl THEN "connection" ELSE "identification"
        BY DEF CertErrorOnlyThen
    <2>1. k \in 1..Len(sessionDetails) /\ Len(sessionDetails) \in Nat /\ Len(sessionDetails) <= 3
        BY LenProperties DEF DetailsInv, ReportLength
    <2>2. k = 1 \/ k = 2 \/ k = 3
        BY <2>1
    <2> QED
        BY <2>1, <2>2 DEF DetailsInv, FirstEntry, SecondEntry, ThirdEntry
<1> QED
    BY <1>1, DetailsCorrect, PTL

-----------------------------------------------------------------------------

\* A login is not needed: AUTO has nobody to log in, or nothing to do it with.
NoLoginNeeded == AuthType = "AUTO" /\ (auth = {} \/ ~params.user)

LoginInv ==
    /\ pc \in {"parse", "new", "connect", "ehlo", "starttls", "tlsEhlo", "helo",
               "login", "auth", "auto"} => ~loggedIn
    /\ pc \in {"parse", "new", "connect", "ehlo", "starttls", "tlsEhlo", "helo",
               "login", "auth", "auto", "autoTry", "authDone"} => session = "none"
    /\ pc = "auto" => AuthType = "AUTO"
    /\ pc = "autoTry" => ret # "ok" /\ (loggedIn => ret = "stream" /\ ~Alive)
    /\ pc = "authDone" => IF ret = "ok" THEN loggedIn \/ NoLoginNeeded
                                       ELSE loggedIn => ret = "stream"
    /\ session = "success" => loggedIn \/ NoLoginNeeded
    /\ session = "failure" /\ loggedIn => sessionDetails[3].code = "stream"

LEMMA InitLoginInv == SessionInit => LoginInv
BY DEF SessionInit, LoginInv

LEMMA StepLoginInv == DetailsInv /\ LoginInv /\ SessionStep => LoginInv'
<1> SUFFICES ASSUME DetailsInv, LoginInv, SessionStep PROVE LoginInv'
    OBVIOUS
<1> USE DEF LoginInv, NoLoginNeeded, AuthType, Alive
<1>1. CASE ReadInvalid
    BY <1>1 DEF ReadInvalid
<1>2. CASE ReadParams
    BY <1>2 DEF ReadParams
<1>3. CASE NewSession
    BY <1>3 DEF NewSession
<1>4. CASE Connect
    BY <1>4 DEF Connect, Open
<1>5. CASE Ehlo1
    BY <1>5 DEF Ehlo1, Ehlo
<1>6. CASE SwitchToTls
    BY <1>6 DEF SwitchToTls, StartTls
<1>7. CASE TlsEhlo
    BY <1>7 DEF TlsEhlo, Ehlo
<1>8. CASE SayHelo
    BY <1>8 DEF SayHelo, Helo
<1>9. CASE ResultLogin
    BY <1>9 DEF ResultLogin
<1>10. CASE AuthSingle
    BY <1>10 DEF AuthSingle, Authenticate, Exchange
<1>11. CASE AuthAuto
    BY <1>11 DEF AuthAuto, AutoDefault
<1>12. CASE AuthTry
    BY <1>12 DEF AuthTry, Authenticate, Exchange, AfterTry
<1>13. CASE AuthGiveUp
    BY <1>13 DEF AuthGiveUp
<1>14. CASE ResultAuth
    <2> DEFINE e == Detail("authentication", ret, FALSE)
    <2>1. /\ Len(sessionDetails) = 2 /\ sessionDetails \in Seq(DetailEntries)
          /\ pc = "authDone" /\ e \in DetailEntries /\ e.code = ret
        BY <1>14 DEF ResultAuth, DetailsInv, ReportLength, BeforeAuthenticated, Detail,
           DetailEntries, SessionTypeOK
    <2>2. sessionDetails' = WithEntry(sessionDetails, e)
        BY <1>14 DEF ResultAuth
    <2> HIDE DEF e
    <2>3. sessionDetails'[3] = e
        BY <2>1, <2>2, EntryAdded
    <2> QED
        BY <1>14, <2>1, <2>3 DEF ResultAuth, AfterSession
<1> QED
    BY <1>1, <1>2, <1>3, <1>4, <1>5, <1>6, <1>7, <1>8, <1>9, <1>10, <1>11,
       <1>12, <1>13, <1>14 DEF SessionStep

LEMMA FrameLoginInv == LoginInv /\ UNCHANGED <<libVars, sessionVars>> => LoginInv'
BY DEF LoginInv, NoLoginNeeded, AuthType, Alive

\* session.success is not reported for a login that was needed and failed; and
\* one that the server accepted is reported as a failure only with the error of
\* the connection lost under it (the authentication switch, smtp_auth_auto).
THEOREM SessionLogin == SessionSpec => []SuccessMeansAuthenticated
<1>1. LoginInv => SuccessMeansAuthenticated
    BY DEF LoginInv, SuccessMeansAuthenticated, NoLoginNeeded
<1>2. DetailsInv /\ LoginInv /\ [SessionNext]_allVars => LoginInv'
    BY StepLoginInv, FrameLoginInv, QuietSteps DEF SessionNext
<1> QED
    BY <1>1, <1>2, InitLoginInv, DetailsCorrect, PTL DEF SessionSpec

-----------------------------------------------------------------------------

\* Every mechanism that was announced and is known has had its turn.
AllTried == \A k \in DOMAIN AutoOrder : AutoOrder[k] \in auth => k <= attempt

\* AUTO's position, and what its return code says about it.
TryInv ==
    /\ pc \in BeforeConnected \cup BeforeIdentified \cup {"auto"} => attempt = 0
    /\ pc = "auth" => AuthType # "AUTO"
    /\ pc = "autoTry" => /\ ret # "ok"
                         /\ (attempt = 0) = (ret = "authNotSupported")
    /\ pc = "authDone" /\ AuthType = "AUTO" /\ ret # "ok" /\ sessionDetails[2].code = "ok" =>
           AllTried /\ (attempt = 0) = (ret = "authNotSupported")
    /\ AutoTriedAll

LEMMA StepTry == DetailsInv /\ TryInv /\ SessionStep => TryInv'
<1> SUFFICES ASSUME DetailsInv, TryInv, SessionStep PROVE TryInv'
    OBVIOUS
<1>n. pc \in BeforeConnected \cup BeforeIdentified \cup BeforeAuthenticated => session = "none"
    BY DEF DetailsInv, ReportLength
<1>a. attempt \in 0..4
    BY DEF DetailsInv, SessionTypeOK, AutoOrder
<1> USE DEF TryInv, AutoTriedAll, BeforeConnected, BeforeIdentified, BeforeAuthenticated
<1>1. CASE ReadInvalid \/ ReadParams \/ NewSession
    BY <1>1, <1>n DEF ReadInvalid, ReadParams, NewSession
<1>2. CASE Connect \/ Ehlo1
    BY <1>2, <1>n DEF Connect, Ehlo1
<1>3. CASE SwitchToTls \/ TlsEhlo \/ SayHelo
    BY <1>3, <1>n DEF SwitchToTls, TlsEhlo, SayHelo
<1>4. CASE ResultLogin
    <2>1. /\ pc = "login" /\ UNCHANGED <<ret, params, session, attempt>>
          /\ sessionDetails' = WithEntry(sessionDetails, Detail("identification", ret, certError))
          /\ pc' = IF ret # "ok" THEN "authDone"
                   ELSE IF AuthType = "AUTO" THEN "auto" ELSE "auth"
        BY <1>4 DEF ResultLogin
    <2>2. Len(sessionDetails) = 1 /\ sessionDetails \in Seq(DetailEntries)
        BY <2>1 DEF DetailsInv, ReportLength
    <2>3. Detail("identification", ret, certError) \in DetailEntries
        BY DEF Detail, DetailEntries, DetailsInv, SessionTypeOK
    <2>4. sessionDetails'[2].code = ret
        BY <2>1, <2>2, <2>3, EntryAdded DEF Detail
    <2>5. AuthType' = AuthType
        BY <2>1 DEF AuthType
    <2> QED
        BY <1>n, <2>1, <2>4, <2>5
<1>5. CASE AuthSingle
    <2>1. pc = "auth" /\ pc' = "authDone" /\ UNCHANGED <<params, session>>
        BY <1>5 DEF AuthSingle
    <2> QED
        BY <1>n, <2>1 DEF AuthType
<1>6. CASE AuthAuto
    <2>1. /\ pc = "auto" /\ pc' \in {"authDone", "autoTry"}
          /\ UNCHANGED <<params, session, attempt>>
          /\ pc' = "authDone" => ret' = "ok"
          /\ pc' = "autoTry" => ret' = "authNotSupported"
        BY <1>6 DEF AuthAuto, AutoDefault
    <2> QED
        BY <1>n, <2>1
<1>7. CASE AuthTry
    <2>1. PICK k \in ToTry : attempt' = k
        BY <1>7 DEF AuthTry
    <2>2. PICK r \in Codes : Authenticate(r) /\ ret' = r /\ pc' = AfterTry(r)
        BY <1>7 DEF AuthTry
    <2>3. attempt' # 0
        BY <1>a, <2>1 DEF ToTry
    <2>4. r # "authNotSupported"
        BY <2>2 DEF Authenticate, Exchange
    <2>5. pc = "autoTry" /\ UNCHANGED <<params, session>>
        BY <1>7 DEF AuthTry
    <2>6. (pc' = "authDone" /\ ret' = "ok") \/ (pc' = "autoTry" /\ ret' # "ok")
        <3>1. CASE r = "ok"
            BY <2>2, <3>1 DEF AfterTry
        <3>2. CASE r # "ok"
            BY <2>2, <3>2 DEF AfterTry
        <3> QED
            BY <3>1, <3>2
    <2> QED
        BY <1>n, <2>2, <2>3, <2>4, <2>5, <2>6
<1>8. CASE AuthGiveUp
    <2>1. /\ pc = "autoTry" /\ pc' = "authDone" /\ ToTry = {}
          /\ UNCHANGED <<auth, params, session, attempt, ret, sessionDetails>>
        BY <1>8 DEF AuthGiveUp
    <2>2. AllTried
        <3> SUFFICES ASSUME NEW k \in DOMAIN AutoOrder, AutoOrder[k] \in auth
                     PROVE  k <= attempt
            BY DEF AllTried
        <3>1. k \in 1..4 /\ Len(AutoOrder) = 4
            BY DEF AutoOrder
        <3>2. ~(k \in (attempt + 1)..Len(AutoOrder))
            BY <2>1 DEF ToTry
        <3> QED
            BY <1>a, <3>1, <3>2
    <2>3. AllTried'
        BY <2>1, <2>2 DEF AllTried
    <2> QED
        BY <1>n, <2>1, <2>3
<1>9. CASE ResultAuth
    <2>1. /\ pc = "authDone" /\ pc' \in {"next", "free"}
          /\ UNCHANGED <<auth, params, attempt>>
          /\ session' = IF ret = "ok" THEN "success" ELSE "failure"
          /\ sessionDetails' = WithEntry(sessionDetails, Detail("authentication", ret, FALSE))
        BY <1>9 DEF ResultAuth, AfterSession
    <2> DEFINE e == Detail("authentication", ret, FALSE)
    <2>2. Len(sessionDetails) = 2 /\ sessionDetails \in Seq(DetailEntries)
        BY <2>1 DEF DetailsInv, ReportLength
    <2>3. e \in DetailEntries /\ e.code = ret
        BY DEF Detail, DetailEntries, DetailsInv, SessionTypeOK
    <2>4. sessionDetails'[2] = sessionDetails[2] /\ sessionDetails'[3].code = ret
        <3>1. sessionDetails' = WithEntry(sessionDetails, e)
            BY <2>1
        <3> HIDE DEF e
        <3> QED
            BY <2>2, <2>3, <3>1, EntryAdded
    <2>5. AuthType' = AuthType /\ (AllTried' <=> AllTried)
        BY <2>1 DEF AuthType, AllTried
    <2>6. AutoTriedAll'
        BY <2>1, <2>4, <2>5 DEF AllTried
    <2> QED
        BY <2>1, <2>6
<1> QED
    BY <1>1, <1>2, <1>3, <1>4, <1>5, <1>6, <1>7, <1>8, <1>9 DEF SessionStep

\* When AUTO gives up, every mechanism the server announced has been tried,
\* and it says "not supported" only if there was none (smtp_auth_auto).
THEOREM SessionAuto == SessionSpec => []AutoTriedAll
<1>1. SessionInit => TryInv
    BY DEF SessionInit, TryInv, AutoTriedAll
<1>2. DetailsInv /\ TryInv /\ [SessionNext]_allVars => TryInv'
    <2>1. TryInv /\ UNCHANGED <<libVars, sessionVars>> => TryInv'
        BY DEF TryInv, AutoTriedAll, AllTried, AuthType
    <2> QED
        BY <2>1, StepTry, QuietSteps DEF SessionNext
<1>3. TryInv => AutoTriedAll
    BY DEF TryInv
<1> QED
    BY <1>1, <1>2, <1>3, DetailsCorrect, PTL DEF SessionSpec

=============================================================================
