-------------------------- MODULE RecipientContract --------------------------
(***************************************************************************)
(* What the campaign_recipients table promises its readers (the progress   *)
(* page, the analytics queries), with no handler, message or retry in it:  *)
(* a contact is mailed only after it was given a row, a row says 'sent'    *)
(* only after SES accepted a message, and 'sent' is never taken back.      *)
(* Delivery is at least once: acceptances are not bounded here.            *)
(***************************************************************************)
EXTENDS Naturals

CONSTANT Contacts

VARIABLES recipient, accepted

cvars == <<recipient, accepted>>

Init ==
    /\ recipient = [r \in Contacts |-> "absent"]
    /\ accepted = [r \in Contacts |-> 0]

\* A page of contacts gets its rows.
Resolve ==
    /\ \E S \in SUBSET {r \in Contacts : recipient[r] = "absent"} :
          recipient' = [r \in Contacts |-> IF r \in S THEN "queued" ELSE recipient[r]]
    /\ UNCHANGED accepted

Begin(r) ==
    /\ recipient[r] \in {"queued", "failed", "sending"}
    /\ recipient' = [recipient EXCEPT ![r] = "sending"]
    /\ UNCHANGED accepted

Accept(r) ==
    /\ recipient[r] # "absent"
    /\ accepted' = [accepted EXCEPT ![r] = @ + 1]
    /\ UNCHANGED recipient

ReportSent(r) ==
    /\ recipient[r] # "absent" /\ accepted[r] > 0
    /\ recipient' = [recipient EXCEPT ![r] = "sent"]
    /\ UNCHANGED accepted

ReportFailed(r) ==
    /\ recipient[r] \in {"queued", "failed", "sending"}
    /\ recipient' = [recipient EXCEPT ![r] = "failed"]
    /\ UNCHANGED accepted

Next ==
    \/ Resolve
    \/ \E r \in Contacts :
          Begin(r) \/ Accept(r) \/ ReportSent(r) \/ ReportFailed(r)

Spec == Init /\ [][Next]_cvars
=============================================================================
