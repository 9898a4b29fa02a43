---------------------------- MODULE MCSmtpSession ----------------------------
(***************************************************************************)
(* Instances of SmtpSession for TLC.                                        *)
(***************************************************************************)
EXTENDS SmtpSession

\* Three mechanisms smtp_auth_auto knows, and one that it does not.
MCMechanisms  == {"CRAM-MD5", "LOGIN", "PLAIN", "GSSAPI"}
FewMechanisms == {"PLAIN"}

\* The default of an option, and a number and a Boolean of opposite value.
SomeFlags == {"absent", "nonzero", "false"}

\* No name, a name the chain does not know, and names it knows.
MCAuthNames == {"unset", "unknown", "CRAM-MD5", "GMAIL"}
FewNames    == {"LOGIN"}

=============================================================================
