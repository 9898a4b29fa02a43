----------------------------- MODULE Submission -----------------------------
(***************************************************************************)
(* What etpan smtp send promises its caller, with no network and no steps   *)
(* inside a message: if a session opens, messages are delivered one at a    *)
(* time, in the order of the array and at most once; each is reported       *)
(* before the next one is begun, as a success only if it was delivered; and *)
(* the command answers, with the report unless it was interrupted.          *)
(***************************************************************************)
EXTENDS Naturals, Sequences

CONSTANT Messages  \* positions in the array of messages, from 1

VARIABLES
    open,       \* did the session open?
    delivered,  \* the messages the server accepted
    report,     \* a record [msg, success] for each message that was begun
    answer      \* "none", "result" or "empty"

promiseVars == <<open, delivered, report, answer>>

Init == open = FALSE /\ delivered = <<>> /\ report = <<>> /\ answer = "none"

ReportedMsgs == {report[k].msg : k \in DOMAIN report}
AllReported  == \A k \in DOMAIN delivered : delivered[k] \in ReportedMsgs

Open ==
    /\ answer = "none" /\ ~open
    /\ open' = TRUE
    /\ UNCHANGED <<delivered, report, answer>>

Deliver(m) ==
    /\ answer = "none" /\ open
    /\ AllReported
    /\ \A n \in ReportedMsgs : n < m
    /\ delivered' = Append(delivered, m)
    /\ UNCHANGED <<open, report, answer>>

Report(m, success) ==
    /\ answer = "none" /\ open
    /\ \A n \in ReportedMsgs : n < m
    /\ \A k \in DOMAIN delivered : delivered[k] \in ReportedMsgs \cup {m}
    /\ success => \E k \in DOMAIN delivered : delivered[k] = m
    /\ report' = Append(report, [msg |-> m, success |-> success])
    /\ UNCHANGED <<open, delivered, answer>>

Return ==
    /\ answer = "none"
    /\ AllReported
    /\ answer' = "result"
    /\ UNCHANGED <<open, delivered, report>>

Interrupt ==
    /\ answer = "none"
    /\ answer' = "empty"
    /\ UNCHANGED <<open, delivered, report>>

Next ==
    \/ Open \/ Return \/ Interrupt
    \/ \E m \in Messages : Deliver(m) \/ \E success \in BOOLEAN : Report(m, success)

\* Messages is finite, so a command that keeps going answers.
Spec == Init /\ [][Next]_promiseVars /\ WF_promiseVars(Next)

=============================================================================
