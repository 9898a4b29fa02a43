# Specifications of 4d-plugin-etpan

`etpan smtp send` is a command of a 4D plugin: it opens one SMTP session with
libetpan, logs in, sends every message of a JSON array, and returns a JSON text
that reports each step.  This directory holds TLA+ modules of that command and
of the text encoders it uses, configurations for TLC, and proofs for TLAPS.
File names and line numbers below are those of the repository; "the README" is
the repository's.

## 1. The system

| Component | State | Operations | Modules |
|---|---|---|---|
| session half of `etpan_smtp_send`, `smtp_generic_connect`, `smtp_generic_greeting`, `smtp_auth_auto` and the `smtp_auth_*` functions, `json_flag` (4DPlugin.cpp) | the options, `ret`, `esmtp`, `certificate_error`, `session.details`, the JSON trees owned | read the arguments, `mailsmtp_new`, connect, EHLO, STARTTLS, EHLO in TLS, HELO, authenticate, report | `SmtpSession` |
| message loop of `etpan_smtp_send`, `CommandDispatcher` | loop index, `ret`, `messageInfo`, the logs and item being built, the JSON trees owned | MAIL FROM, compose, RCPT TO, DATA, text, attach, RSET, discard, free, render, the exception path | `SmtpSend`, `Submission` |
| `mail_logger`, `smtp_ctx` (4DPlugin.cpp) | `ctx.index`, `ctx.authenticating`, the callback | called from inside every network call, calls the user's 4D method | `MailLogger` |
| `smtp_verify_certificate` | `certificate_error` | verdict on the certificate | `SmtpSession` (verdict only) |
| libetpan and the SMTP server | stream, greeting, announced mechanisms, transaction, accepted messages | one operator per call | `LibEtpan` (external) |
| UTF-8 header encoder (JIS/utf8.c) | buffer, encoded words, line limit | one step per character, flush, the address | `HeaderLines`, `Utf8Header` |
| Shift_JIS, Windows-31J and ISO-2022-JP encoders of headers (JIS/charset.c, JIS/iso2022jp.c) | buffer, character set in use, line length and limit | one step per code, close a word, fold, the address | `Iso2022`, `CharsetHeader`, `Iso2022Subject` |
| `convert_body` (4DPlugin.cpp 762-784), and the bodies of the three Japanese charsets (JIS/*.c) | the charset chosen from the name, label, transfer encoding, the output | choose, convert one code | `Iso2022Body`, `ConvertBody` |
| `mime_create_main_content` (4DPlugin.cpp 1044-1193) | the libetpan objects made, and which of them own which | make an object, attach it, free on the way out | `MimeMessage`; its outcome in `SmtpSend` (`Compose`) |
| `convert_subject_*`, `convert_rcpt_*`, `parse_address` (4DPlugin.cpp 56-277) | none | dispatch to an encoder, parse one mailbox | partly, see 7 |
| 4D Plugin API and its classes, cJSON, the certificate APIs, build scripts | | | not modelled, see 7 |

How they interact.  The command runs on one thread.  It calls libetpan, and
libetpan calls `mail_logger` back from inside each network call, any number of
times, with every chunk of the conversation; `mail_logger` reads `smtp_ctx`,
which the command changes between the calls, and calls a 4D method.  The
encoders are pure functions of a text, called while a message is composed; the
address text they return is parsed again for RCPT TO.

What is hard: a callback that must know from a flag whether a chunk carries
credentials; one connection and one return code shared by all steps, cleared
here and carried on there; a server that keeps a transaction open; the
connection lost in the middle of an exchange, also when the server has already
accepted the message; exceptions from anywhere; and in the encoders, limits
that change with the first fold, characters of several bytes at every
alignment, and escape sequences that must not be cut off from what they apply
to.  `PROJECT.json` lists these hazards with their lines.

What makes each component correct:

* session: it is on the channel the options ask for, success means logged in,
  the report has all its entries and the error where it happened, the callback
  never sees credentials;
* messages: success means accepted, accepted means reported, in order, none
  twice, no message without a session, nothing sent inside an old transaction,
  every JSON tree released, and an answer in every case;
* encoders: every character is kept, in order; none is split; each encoded word
  and line can be decoded by itself and keeps to its length; a body is in the
  charset of its label, if that is one the README lists;
* composing a message: whatever fails, nothing is freed twice, and the message
  has the headers given, and no Bcc.

## 2. Modules

`LibEtpan` and `MailLogger` have variables and operators but no specification;
`SmtpSession` extends both, `SmtpSend` extends `SmtpSession`.  `SmtpSession`
also has a specification of its own, `SessionSpec`, for runs and proofs that do
not need the messages.  `pc` names the libetpan call in progress, so `Log` (a
call of `mail_logger`) and `Aborted` (4D asks the process to die) can happen
there any number of times before the call returns.

| In the code | In the modules |
|---|---|
| a call of libetpan and the code it returns | an operator of `LibEtpan` with a return code chosen by `\E r \in Codes` |
| what the server knows | `greeted`, `loggedIn`, `txn`, `inbox` |
| `smtp->auth`, `smtp->stream` | `auth`, `stream` |
| the spellings of a 1/0 option | `JsonItems`; `JsonFlag` is `json_flag` |
| `session.details`, `messages[]` | `sessionDetails`, `messageInfo` (a message's number is history, which the code does not write; so is `begun`, the messages whose DATA the server accepted) |
| the cJSON trees somebody has to delete | `owned` |
| `return` and `catch` | `answer` |

`Submission` is what the command promises, without network or steps; the module
`SmtpSend` implements it under the mapping `Promise` (the messages accepted, the
report, whether the session opened, the answer).

In the encoders a text is a sequence of the classes of byte or code the code
tells apart, and what was copied is the position it came from, so "kept",
"split" and "in order" can be said without characters.  Lengths are numbers, as
in the code: `Base64` is the length the loop produces, padding included.  In the
ISO-2022-JP encoders the output is a sequence of tokens (characters, escape
sequences, folds, ends of encoded words); `InForce` is the set an escape
sequence has left in force, and `Iso2022Subject!ReadIn` the same for a reader
who decodes each encoded word by itself.  These readers follow character sets
and the order of characters only: white space that RFC 2047 has a reader drop or
keep, soft breaks that `format=flowed; delsp=yes` has one remove, and the
decoding of Q bytes are not theirs.
`CharsetHeader` models `charset_encode_header` and its copy with escape
sequences, `convert_to_iso_2022_jp_header_b`, as one module.  `Iso2022` holds
what the ISO-2022-JP encoders share: the tokens, the reader, and `Copied`, "the
characters of the output are those of the text up to here, each once and in
order".

`Iso2022Body` is the body encoder as operators on an output, without a
specification of its own; `ConvertBody` composes it with the Shift_JIS and
Windows-31J bodies and with the choice `etpan_smtp_send` makes from the charset
name (label, transfer encoding, encoder).  A character is what each charset can
hold: half-width katakana has a code in ISO-2022-JP only, an accented letter in
the two Shift_JIS tables only.

`MimeMessage` has a step for each call of `mime_create_main_content`.  Each
call can fail, as an allocation can; an object is allocated, attached to
another or freed, and the history `faults` holds those that were not the
function's to free or hand over.  The lists of addresses are empty or not, so
that all combinations of headers are built.

`Utf8Header.Stray` is three branches of the code: a byte that cannot begin a
character, and a lead byte whose sequence is broken, are both passed over.  A
sequence that runs over the end of the text ends the loop (`AfterText`).

A definition such as `EsmtpAfterTls_Kept`, next to the definition
`EsmtpAfterTls` it is a faulty version of, is no part of the model: replacing
the one by the other must violate a property, which shows that the property can
tell the two apart.  `PROJECT.json` lists one for every property.

## 3. Runs

`tlc -workers 2 -config X.cfg M`, X and M as listed; all finish in under two
minutes.

| Run | Configuration, module | Shows |
|---|---|---|
| session | MCSmtpSession, MCSmtpSession | 511,028 states.  `ChannelAsConfigured`: a session in use is on SSL, STARTTLS or plain text as the options ask, its certificate accepted unless that was waived.  `CertErrorOnlyThen`: `certificate_error` is reported once, with its step.  `EsmtpMatchesGreeting`.  `SuccessMeansAuthenticated`: success means logged in, and a login is reported as failed only when the reply to it was lost.  `AutoTriedAll`: AUTO tries every announced mechanism before it fails.  `SessionReport`: the three entries.  `CredentialsHidden`.  `SessionIsOver` |
| send | MCSmtpSend, MCSmtpSend | 615,864 states.  `SuccessMeansAccepted`, `DeliveredIsReported`, `InOrderOnce`, `DetailsAreComplete`, `NoMessageUnlessSession`, `JsonReleased`, `ObjectsAreReset`, `CallbackTellsMessage`, `CommandReturns`, and the refinement `ImplementsSubmission`.  `EveryStepAdvances`: each step, whatever libetpan returns, lowers the triple `Ahead`, so no error makes a loop repeat an element, a recipient or a mechanism |
| utf8_header | MCUtf8Header, MCUtf8Header | 703,552 states.  Encoded words of at most 75 characters, lines of at most 76 up to the end of the word, characters whole, kept and in order, also for texts that are not UTF-8.  The line the address begins on can have 105 columns, as its columns are not counted on from the word (`HeaderLinesFit`); `AddressCutExactly`: which addresses are then folded in the middle |
| charset_header | MCCharsetHeader, MCCharsetHeader | 2,373,588 states.  Each encoded word can be decoded by itself, together they are the text.  `FoldsFollowWords`: a fold follows every word but the last, and that one only where the text ends in a character without a code: the header then ends in an empty line |
| body | MCConvertBody, MCConvertBody | 331,875 states, under every charset name the code knows and one it does not.  `BodyAsPromised`: under a listed name the body is in that charset, in the set of each character; under another name it is UTF-8, which a reader who goes by the label cannot know; nothing that the charset can hold is lost, doubled or moved.  `SevenBit`: what is sent as 7bit is.  `LinesEndInAscii`, `LineEndsWhole`: in ISO-2022-JP every line ends in ASCII, a CR LF of the text is not torn by a soft break |
| iso_subject | MCIso2022Subject, MCIso2022Subject | 713,210 states.  `SubjectDecodes`: with each encoded word decoded by itself, every character is read in its own set, and each that has a code is written once and in order.  `WordsAreClosed`: every encoded word is closed, in ASCII, before a fold or plain text.  `LinesFit`: what `line_length` counts is not in every branch what is written; no line is more than eleven columns over the limit of 78, and one can be |
| mime_message | MCMimeMessage, MimeMessage | 2,048 states: each call fails in one behaviour, and none in another, for every choice of lists and a `contentType` that parses or not.  `FreedOnce`, `ReleasedAtEnd`, `HeadersAsGiven` |

Five more runs show where the code and what the repository says of it disagree;
each checks one property and TLC finds it violated.

| Run | Disagreement |
|---|---|
| helo (MCHelo) | the README has `allowInsecure` allow the HELO fallback; HELO is also used without it, with SSL on connect, and after STARTTLS |
| non_object (MCNonObject) | the README has a non-object element skipped; MAIL FROM has been sent for it already, no RSET follows, and the next messages are refused and skipped as well |
| content_type (MCContentType) | the README has failures reported in the result; a message whose `contentType` cannot be parsed is sent empty and reported as a success |
| address (MCAddress) | the README has long recipients supported; an address after a display name is folded in the middle, because the column count starts at its length; the theorem `Utf8AddressCut` says which |
| subject_q (MCSubjectQ) | the Subject is announced as Q encoded; the bytes for `=`, `?` and `_` of two-byte codes are written raw |

A further one needs no run: an ISO-2022-JP Subject of plain ASCII that is longer
than a line is folded between any two characters, and a reader who unfolds it
sees a space more (JIS/iso2022jp.c 179).  And a space of the text between two
Japanese characters is plain text between two encoded words, where a reader
drops it (line 109).  Both are among the hazards.

## 4. Bounds, and why they are enough

* Session: the only collections are the announced mechanisms and the options.
  Four mechanisms, three that `smtp_auth_auto` tries and one it does not know,
  in all 16 subsets; the strict order of the attempts shows with two.  An option
  is absent, or a number and a Boolean of opposite value; the method is unset,
  unknown, a SASL one or an OAuth one.  `SessionChannel` (section 6) covers all
  six spellings of an option.
* Messages: arrays of up to `MaxMessages` = 2 elements out of four kinds: an
  object with one recipient, with two of which one does not parse, an object
  that does not compose, an element that is not an object.  Two is enough for
  what one element leaves to the next (the transaction, the logs, `ret`, the
  lost connection); a third adds no new predecessor.  The session is AUTO with
  one mechanism and default options, since the loop reads only `esmtp` and the
  stream.
* Encoders: texts long enough for the first two lines, where the limits differ,
  and for the first word after.  Around each end every combination of three
  codes (or every three bytes, valid UTF-8 or not) is tried at every alignment;
  the middle of a word is one kind of character.  Header names matter only by
  their length.  In `utf8_header` the first words are of characters of one and
  three bytes, followed by characters of each length; those of two and four
  bytes fill the first word only with the short mixed texts.  The addresses there
  are none, the one that makes the longest line (26) and one that is cut or not
  as the limit goes (56); the run `address` has all up to 60.
* Bodies: every text of up to three characters under every name; in ISO-2022-JP
  also texts of up to four, and lines of ASCII, of kanji and of katakana with
  every three characters around the place where the line is broken, and a second
  line after it.
* The Subject: `LinesFit` was first checked with lines of one kind of character
  and seemed to hold with four columns; the proof did not go through, and showed
  which mixture of characters makes eleven.  Texts of that kind are among the
  sources now.
* `mime_message` has no bound: the function makes each object once.  The proofs
  of section 6 cover texts of any length; the runs have found the properties to
  prove, and check the liveness, which is not proved.
* Encoder runs state no liveness: a step consumes a character of a finite text.

## 5. Fairness

`SessionSpec` and `SmtpSend!Spec` assume weak fairness of the command's own
steps.  A step is the return of a libetpan call; libetpan gives up after its
timeout, and `timeout` 0 means its default, not forever.  Nothing is assumed
of `Log`, `Aborted` and `Throw`: a server may be silent, 4D need not abort, an
exception need not happen.  A callback that never returns would stop the
command; `Log` is a step that ends, so this is an assumption on the user's
method.

## 6. Theorems

`tlapm` checks every leaf of the modules `*Proofs`.  The assumptions are those
on the constants: `SessionConstants` (the options hold JSON values, there is a
name of a method), `SendConstants` (the elements are elements, the bound a
number), `Utf8Constants`, `CharsetConstants`, `ConvertConstants` and
`SubjectConstants` (the texts are sequences of bytes, codes or characters, the
lengths numbers).  `MimeMessage` has no constants.

| Module | Theorems | Say | By |
|---|---|---|---|
| `SmtpSessionProofs` | `SessionCredentialsHidden` | the callback gets no credentials | `SecretInv`: the flag is up at each `pc` where a chunk may carry some |
| | `SessionChannel` | the channel is the one asked for | `ChannelInv`: for each `pc`, the stream and the verdict established so far; `ChannelAsConfigured` speaks only of the end of that chain, so it is not inductive |
| | `SessionGreeting`, `SessionLogin` | `esmtp` agrees with the greeting; success means logged in, failure after a login a lost reply | `GreetingInv`, `LoginInv`: STARTTLS makes the server forget the greeting between the two EHLO; `ret` and `loggedIn` agree while AUTO goes on, unless the reply was lost and with it the connection |
| | `SessionDetails`, `SessionCertError` | the three entries of the report, the certificate error only in its own | `DetailsInv`: which entries there are at each `pc`, and what `ret` and `certError` they were made from |
| | `SessionAuto` | AUTO tries every announced mechanism before it gives up | `TryInv`: `attempt` is the position in the order of the attempts, and `ret` says whether any was made; at the end it is past every announced mechanism (`AllTried`) |
| `SmtpSendProofs` | `CommandCredentialsHidden`, `CommandChannel`, `CommandGreetingAndLogin` | the session's promises hold while messages are sent | the loop leaves alone what they speak of (`MessagesKeepSession`) |
| | `NoMessageWithoutSession`, `SuccessIsAccepted` | no message unless the session opened; a reported success was accepted | `OpenInv`; `AcceptedInv`: when the item is attached with `ret = "ok"`, the last thing accepted is this message |
| | `MessagesInOrder`, `DeliveredReported` | in order, none twice, none forgotten | `OrderInv`: what is delivered and reported is numbered below `i`, or is the one at work; `ReportInv`: an accepted message is reported or about to be |
| | `DetailsComplete` | the details of a message have all their entries | `LogsInv`: an increasing map from the entries to the recipients done that parse; `BegunInv`: DATA was accepted for no message after the one at work, and for that one while its text is sent |
| | `StepsAdvance`, `AheadIsTriple`, `NoEndlessDescent` | every step brings the end nearer, in an order without endless descent: with any server, a finite array takes finitely many steps | `AheadInv`: how far the loops over mechanisms and recipients have come at each `pc`; `<` on numbers is well-founded, and so the lexicographic order of triples is |
| | `CommandHelo` | in plain text, HELO only if `allowInsecure` allows it: the run `helo` finds HELO in TLS | `HeloInv`, with the channel of `ChannelInv` |
| | `ComposedIsSentInFull` | a success means the whole message was sent, if all messages can be composed: nothing else violates the property of the run `content_type` | `FullInv` |
| | `CallbackIndex` | the callback is told the message on the wire (an action property) | `IndexInv`: `ctx.index` is one more than the elements done inside the body of the loop |
| | `TreesReleased`, `TransactionsReset` | no JSON tree left; no MAIL FROM in an old transaction | `OwnedInv`, `TxnInv`: what is owned, and whether a transaction can be open, at each `pc` |
| | `StepsImplementSubmission` | every step is one of `Submission` or a stutter, the safety half of `ImplementsSubmission` | the step simulation, with `PromiseInv`: the facts above that the abstract guards ask for |
| `Utf8HeaderProofs` | `Utf8WordsFit`, `Utf8LinesFit` | encoded words of at most 75 characters, lines of at most 76 up to the word and 105 with the address | `FitInv`: the buffer fits what is left of the line, and that is `FirstLimit` before the first fold and 62 after it; `LastLineInv`: with the limit 62 the last word has a line of its own |
| | `Utf8AddressCut` | exactly which addresses are folded in the middle | `AddressInv`: the limit of the last line; the folds are a recursion on the columns, solved by induction (`AddressColumnRuns`): the first is at the limit less the start, the second one line on |
| | `Utf8CharactersWhole`, `Utf8EveryCharacter`, `Utf8InOrder` | characters whole, kept, in order | `ReadInv`: the words and the buffer hold the whole characters before `i`; `GoodWord` |
| `CharsetHeaderProofs` | `WordsReadAlone`, `CharactersAreKept`, `FoldsFollow` | each word can be decoded by itself, together they are the text, a fold follows the last only where the text ends in a character without a code | `ReadInv`, `KeepInv`, `FoldInv`, on the type invariant |
| | `CharsetAddressCut` | exactly which addresses are folded in the middle | as in UTF-8, with the limits of these charsets |
| `ConvertBodyProofs` | `BodyIsAsPromised`, `SevenBitHolds`, `LinesReturnToAscii`, `LineEndsStayWhole` | the properties of `body`, for every text and name | `BodyInv`: the encoder is the promised one, in ISO-2022-JP every character so far is in its set, the output has every character before `i`, and its last line end is not torn |
| `Iso2022SubjectProofs` | `WordsAlwaysClosed`, `SubjectAlwaysDecodes` | the encoded words are closed, each can be decoded by itself, together they have every character in order | `SubjectInv`: every token was allowed where it stands, given the set in force and the last mark (`Sound`); between two codes a word is open just when the set is not ASCII (`Balanced`); as a word is begun in ASCII, what is in force in it was switched to in it (`SwitchedInWord`) |
| | `LinesAlwaysFit` | no line is more than eleven columns over the limit | `LineInv`: the last column is never past `line_length`, and one short of it while a word is open on a line that began as plain text, which pays for what a branch leaves uncounted; `line_length` is below the limit when a code is looked at |
| `MimeMessageProofs` | `MimeFreedOnce`, `MimeReleased`, `MimeHeaders` | the properties of `mime_message` | `MimeInv`: at each call, who owns each object |

Type correctness is proved too (`SessionTypeCorrect`, `SendTypeCorrect`,
`Utf8TypeCorrect`, `CharsetTypeCorrect`, `BodyTypeCorrect`, `MimeTypeCorrect`;
for the Subject it is part of `SubjectInv`).

What a reader of the Japanese encoders sees, `InForce`, is the greatest position
of an escape sequence, a CHOOSE that says nothing of the next token.
`EncoderProofs` replaces it by a relation `Reads` that can be carried from one
token to the next, and shows that the relation determines it.  It also has the
induction over data that columns and folds need: a function defined by recursion
exists and has the values its definition says (`Recursion`), from the
well-foundedness of `<` applied to a set, as the provers cannot instantiate the
induction rules of the library, which have an operator as a parameter.  `FitInv` needs
the link between `limit` and `words`: without it a buffer that fits the first
line would say nothing about the line it is written on.  The arithmetic is
`LimitRange` (name, colon, space and limit always make 64) and `Base64Bounds`
(one character always fits; 62 columns hold at most 45 bytes).

Model-checked only: liveness (`SessionIsOver`, `CommandReturns`, and the
fairness in `ImplementsSubmission`), as liveness under fairness and ENABLED are
out of the reach of the prover.  What of it is not fairness is proved:
`StepsAdvance` and `NoEndlessDescent` exclude that the command goes on for ever,
so that a step that can be taken until it is taken is all that is left to assume.
That one can be taken at every `pc` but the last is a matter of ENABLED, and is
checked.

## 7. Not modelled, and why

* libetpan, OpenSSL and the server are external: `LibEtpan` says what the
  plugin relies on.  The server follows RFC 5321; one that does not could break
  `ObjectsAreReset` but not `SuccessMeansAccepted`.
* `smtp_verify_certificate`: the calls to Security.framework and CryptoAPI are
  the operating system's; its verdict and the reason it leaves are modelled.
* The tables of characters in JIS/*.h, some 20,000 lines of numbers: only the
  kinds of character they tell apart.  C_TEXT (UTF-8 to and from UTF-16 by the
  system): one call per text, no state.
* `convert_rcpt_*` and `convert_subject_*`: dispatch; the headers that reach an
  encoder are in its `Init`.  What `mailimf_address_parse` makes of a recipient
  is libetpan's; here a recipient parses as one mailbox or does not.  That one
  which does not is left out of the header by the encoder (it gets an empty name
  and an empty address) is not modelled.
* `convert_to_iso_2022_jp_header` is only called without an address, so its
  address loop (lines 193-210) is unreachable and left out.
* Ports, times, texts and lengths in the session.  The 4D Plugin API
  (4DPluginAPI.c and its headers, over 10,000 lines, the vendor's SDK) and
  cJSON (vendored; ownership of its trees is in `owned`); the scripts and
  workflows that build the plugin.  With the tables these are four fifths of the
  lines under src/: the modules cover nearly all of the rest, but only a small
  share of the whole.
* A second exception inside the handler of the first.

## 8. Plan

Done, in the order of importance: the session and the message loop with their
environment, `Submission`, the encoders of headers, bodies and the Subject, the
composition of a message; then the proofs, of every invariant and action
property the runs check.

What is left, should the code change or the tools allow it:

1. `smtp_verify_certificate` on its two platforms, as a sequence of system calls
   each of which can fail, with what each branch must release.
2. `convert_rcpt_*` composed with the message loop: the text of a recipient
   through the encoder, into the header and into RCPT TO.
