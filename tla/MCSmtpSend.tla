----------------------------- MODULE MCSmtpSend -----------------------------
(***************************************************************************)
(* Instances of SmtpSend for TLC.                                           *)
(***************************************************************************)
EXTENDS SmtpSend

MCMechanisms == {"PLAIN"}
DefaultFlags == {"absent"}
AutoOnly == {"unset"}

To(ok)  == [field |-> "to", parses |-> ok]
Bcc(ok) == [field |-> "bcc", parses |-> ok]

Object(rcpts) == [object |-> TRUE, composes |-> TRUE, rcpts |-> rcpts]

NotAnObject == [object |-> FALSE, composes |-> FALSE, rcpts |-> <<>>]

\* A message with a contentType libetpan cannot parse.
BadContentType == [object |-> TRUE, composes |-> FALSE, rcpts |-> <<To(TRUE)>>]

\* Objects with one recipient, with one of two that parses, and the two
\* elements that go wrong.
AnyElements == {Object(<<To(TRUE)>>), Object(<<To(FALSE), Bcc(TRUE)>>),
                NotAnObject, BadContentType}

\* What the findings are about, each beside a plain message.
WithNonObject      == {Object(<<To(TRUE)>>), NotAnObject}
WithBadContentType == {Object(<<To(TRUE)>>), BadContentType}

=============================================================================
