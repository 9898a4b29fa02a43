------------------------------ MODULE LibEtpan ------------------------------
(***************************************************************************)
(* EXTERNAL.  The calls of libetpan's mailsmtp API that 4DPlugin.cpp makes, *)
(* together with the SMTP server that answers them.  libetpan is linked as  *)
(* a static library and is not in the repository: every operator is what    *)
(* the plugin relies on, a return code r and its effect on the session.     *)
(*                                                                         *)
(* An operator primes the six variables of this module and nothing else.    *)
(* The server follows RFC 5321: MAIL opens a transaction and is refused     *)
(* while one is open; the end of the data, or RSET, closes it.  The         *)
(* connection may be lost in any exchange.                                  *)
(***************************************************************************)
EXTENDS Naturals, Sequences

CONSTANT Mechanisms     \* the AUTH mechanisms a server may announce

VARIABLES
    stream,     \* "none", "plain", "tls" or "lost": smtp->stream
    greeted,    \* the greeting the server accepted on this channel
    auth,       \* smtp->auth: the mechanisms of the last EHLO reply
    loggedIn,   \* has the server accepted an AUTH?
    txn,        \* the server's mail transaction: "none", "mail", "rcpt", "data"
    inbox       \* history: the messages the server accepted, in order

libVars == <<stream, greeted, auth, loggedIn, txn, inbox>>

\* The return codes the plugin tells apart (MAILSMTP_NO_ERROR is "ok").
Codes == {"ok", "refused", "notImplemented", "ssl", "stream", "authNotSupported"}

Alive == stream \in {"plain", "tls"}

\* One command and its reply: without a connection only a stream error is
\* possible, and any exchange may lose the connection.
Exchange(r, replies) ==
    /\ r \in replies \cup {"stream"}
    /\ ~Alive => r = "stream"
    /\ stream' = IF r = "stream" THEN "lost" ELSE stream

-----------------------------------------------------------------------------

\* mailsmtp_socket_connect, mailsmtp_ssl_connect_with_callback
Open(channel, r) ==
    /\ r \in {"ok", "refused"}
    /\ stream' = IF r = "ok" THEN channel ELSE "none"
    /\ UNCHANGED <<greeted, auth, loggedIn, txn, inbox>>

\* mailesmtp_ehlo: an accepted EHLO replaces the announced mechanisms.
Ehlo(r) ==
    /\ Exchange(r, {"ok", "refused", "notImplemented"})
    /\ IF r = "ok" THEN greeted' = "ehlo" /\ auth' \in SUBSET Mechanisms
                   ELSE UNCHANGED <<greeted, auth>>
    /\ UNCHANGED <<loggedIn, txn, inbox>>

\* mailsmtp_helo: no extensions, what EHLO announced before is kept.
Helo(r) ==
    /\ Exchange(r, {"ok", "refused"})
    /\ greeted' = IF r = "ok" THEN "helo" ELSE greeted
    /\ UNCHANGED <<auth, loggedIn, txn, inbox>>

\* mailsmtp_socket_starttls_with_callback: the server forgets the greeting;
\* a failed handshake leaves nothing to talk on.
StartTls(r) ==
    /\ r \in {"ok", "refused", "ssl", "stream"}
    /\ ~Alive => r = "stream"
    /\ stream' = CASE r = "ok"             -> "tls"
                   [] r = "refused"        -> stream
                   [] r \in {"ssl", "stream"} -> "lost"
    /\ greeted' = IF r = "ok" THEN "none" ELSE greeted
    /\ UNCHANGED <<auth, loggedIn, txn, inbox>>

\* mailesmtp_auth_sasl, mailsmtp_auth_type, mailsmtp_oauth2_authenticate,
\* mailsmtp_oauth2_outlook_authenticate.  "notImplemented": built without SASL.
\* When the connection is lost here the server may or may not have logged in.
Authenticate(r) ==
    /\ Exchange(r, {"ok", "refused", "notImplemented"})
    /\ \/ r \in {"ok", "stream"} /\ Alive /\ loggedIn' = TRUE
       \/ r # "ok" /\ UNCHANGED loggedIn
    /\ UNCHANGED <<greeted, auth, txn, inbox>>

-----------------------------------------------------------------------------

\* mailesmtp_mail, mailsmtp_mail
MailFrom(r) ==
    /\ Exchange(r, {"ok", "refused"})
    /\ r = "ok" => txn = "none"
    /\ txn' = IF r = "ok" THEN "mail" ELSE txn
    /\ UNCHANGED <<greeted, auth, loggedIn, inbox>>

\* mailesmtp_rcpt, mailsmtp_rcpt
RcptTo(r) ==
    /\ Exchange(r, {"ok", "refused"})
    /\ r = "ok" => txn \in {"mail", "rcpt"}
    /\ txn' = IF r = "ok" THEN "rcpt" ELSE txn
    /\ UNCHANGED <<greeted, auth, loggedIn, inbox>>

\* mailsmtp_data: refused unless a recipient was accepted.
Data(r) ==
    /\ Exchange(r, {"ok", "refused"})
    /\ r = "ok" => txn = "rcpt"
    /\ txn' = IF r = "ok" THEN "data" ELSE txn
    /\ UNCHANGED <<greeted, auth, loggedIn, inbox>>

\* mailsmtp_data_message: the end of the data ends the transaction.  When the
\* connection is lost here the server may or may not have accepted m.
DataMessage(r, m) ==
    /\ Exchange(r, {"ok", "refused"})
    /\ txn' = "none"
    /\ \/ r \in {"ok", "stream"} /\ Alive /\ inbox' = Append(inbox, m)
       \/ r # "ok" /\ UNCHANGED inbox
    /\ UNCHANGED <<greeted, auth, loggedIn>>

\* mailsmtp_reset
Reset(r) ==
    /\ Exchange(r, {"ok"})
    /\ txn' = "none"
    /\ UNCHANGED <<greeted, auth, loggedIn, inbox>>

\* mailsmtp_free: QUIT when there is a stream, then closes it.
Free ==
    /\ stream' = "none"
    /\ txn' = "none"
    /\ UNCHANGED <<greeted, auth, loggedIn, inbox>>

=============================================================================
