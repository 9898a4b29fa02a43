----------------------------- MODULE MailLogger -----------------------------
(***************************************************************************)
(* mail_logger and the smtp_ctx it reads (4DPlugin.cpp).  libetpan calls it *)
(* from inside a network call with every chunk of the SMTP conversation,    *)
(* and it calls the user's 4D method with the chunk.                        *)
(***************************************************************************)
EXTENDS Naturals

VARIABLES
    index,           \* ctx.index: 0, then the message being sent (1-based)
    authenticating,  \* ctx.authenticating
    callback,        \* was a callback method named (ctx.method_size)?
    dying,           \* PA_IsProcessDying()
    heard            \* history: what the callback was last called with

loggerVars == <<index, authenticating, callback, dying, heard>>

\* libetpan's log types: data from the server, data to the server, data to
\* the server flagged as private, and the types the switch has no case for.
LogTypes == {"received", "sent", "sentPrivate", "other"}

\* What a chunk says.  "hidden" is the placeholder SMTP_LOG_HIDDEN.
Texts == {"traffic", "credentials", "hidden"}

Nothing == [index |-> 0, text |-> "traffic"]

\* As libetpan flags them, with no regard to authentication.
Hidden_PrivateOnly(type) == type = "sentPrivate"

\* SASL continuation lines are logged as ordinary data.
Hidden(type) ==
    \/ type = "sentPrivate"
    \/ type = "sent" /\ authenticating

\* mail_logger: the switch has a case for what is received and what is sent;
\* a private chunk has become a sent one by then.
Logged(type, text) ==
    /\ heard' = IF callback /\ ~dying /\ type # "other"
                THEN [index |-> index,
                      text  |-> IF Hidden(type) THEN "hidden" ELSE text]
                ELSE heard
    /\ UNCHANGED <<index, authenticating, callback, dying>>

\* 4D may be asked to abort the process that runs the command, at any time.
ProcessDies ==
    /\ ~dying
    /\ dying' = TRUE
    /\ UNCHANGED <<index, authenticating, callback, heard>>

=============================================================================
